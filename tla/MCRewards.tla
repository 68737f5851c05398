------------------------------- MODULE MCRewards -------------------------------
(***************************************************************************)
(* Instance of Rewards for TLC: a dear order that lifts its buyer to       *)
(* ORANGE, and a cheap one that earns one point at ORANGE but none at     *)
(* GREEN and uses more points than the buyer has before dear has earned.   *)
(* Both are alice's; bob may only try to cancel them.                      *)
(***************************************************************************)
EXTENDS Rewards

CONSTANTS c1, c2, c3, alice, bob, dear, cheap

MCOwnerOf == [o \in Orders |-> alice]
MCPrice == [o \in Orders |-> IF o = dear THEN 100000 ELSE 50]
MCUsePoint == [o \in Orders |-> IF o = cheap THEN 1500 ELSE 0]
MCInitialPoints == [u \in Users |-> 1000]

(* The grade arithmetic agrees with its reference around every threshold.   *)
Probes == UNION {{MinAmount[l] - 1, MinAmount[l], MinAmount[l] + 1} : l \in GradeLevel}
ASSUME GradesAgree == \A n \in Probes : IsGradeOf(resolveGradeByAmount(n), n)
================================================================================
