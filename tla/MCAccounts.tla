------------------------------- MODULE MCAccounts -------------------------------
(***************************************************************************)
(* Instance of Accounts for TLC: three requests, one address that can be   *)
(* typed in two ways, two browsers and a profile of two fields.            *)
(***************************************************************************)
EXTENDS Accounts, TLC

CONSTANTS c1, c2, c3, first, ann, Ann, b1, b2

Symmetry == Permutations(Calls) \cup Permutations(Browsers)
TypedLower == [a \in {ann, Ann} |-> ann]
================================================================================
