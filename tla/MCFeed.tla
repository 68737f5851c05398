--------------------------------- MODULE MCFeed ---------------------------------
(***************************************************************************)
(* Instance of Feed for TLC: a notification that is shown and one of a type*)
(* that is not, two requests, and two polls at a time.                     *)
(***************************************************************************)
EXTENDS Feed

CONSTANTS c1, c2, p1, p2, a1, a2
================================================================================
