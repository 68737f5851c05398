------------------------------- MODULE MCInquiry -------------------------------
(***************************************************************************)
(* Instance of Inquiry for TLC: one inquiry and four requests about it, the*)
(* least that replies, deletes that reply, and has two more cross it.      *)
(***************************************************************************)
EXTENDS Inquiry

CONSTANTS c1, c2, c3, c4, i1
================================================================================
