--------------------------------- MODULE Grades ---------------------------------
(***************************************************************************)
(* The membership grades of src/grades: the grade an accumulated purchase  *)
(* amount stands for, what is missing to the next one and the points an    *)
(* order earns.  Amounts are whole won.                                    *)
(***************************************************************************)
EXTENDS Integers

GradeLevel == {"GREEN", "ORANGE", "RED", "BLACK", "VIP"}

MinAmount == [GREEN |-> 0, ORANGE |-> 100000, RED |-> 300000, BLACK |-> 500000, VIP |-> 1000000]

\* Percent of the price, GRADE_MAP's `rate'; its `earnRate' is rate / 100.
EarnRate == [GREEN |-> 1, ORANGE |-> 2, RED |-> 3, BLACK |-> 4, VIP |-> 5]

\* One turn of resolveGradeByAmount's loop.
Reached(current, level, amount) == IF amount >= MinAmount[level] THEN level ELSE current

(* The loop over the entries in ascending order of minAmount: the last one  *)
(* reached, and the first one if none is.                                   *)
resolveGradeByAmount(amount) ==
    LET green == Reached("GREEN", "GREEN", amount)
        orange == Reached(green, "ORANGE", amount)
        red == Reached(orange, "RED", amount)
        black == Reached(red, "BLACK", amount)
    IN  Reached(black, "VIP", amount)

NextLevel == [GREEN |-> "ORANGE", ORANGE |-> "RED", RED |-> "BLACK", BLACK |-> "VIP"]

Max0(n) == IF n > 0 THEN n ELSE 0

(* getNextGradeInfo: the next entry and the amount missing to it, nothing   *)
(* after the last entry.                                                    *)
NoNext == [next |-> "none", need |-> 0]
getNextGradeInfo(amount) ==
    LET current == resolveGradeByAmount(amount) IN
    IF current = "VIP" THEN NoNext
    ELSE [next |-> NextLevel[current], need |-> Max0(MinAmount[NextLevel[current]] - amount)]

(* Math.floor(Math.max(0, totalPrice) * rate): the double product floors to *)
(* the exact quotient for the prices in question.                           *)
Earned(price, level) == (Max0(price) * EarnRate[level]) \div 100

--------------------------------------------------------------------------------
(* What the grade of an amount should be: the highest one whose minimum the *)
(* amount reaches, GREEN below all of them.                                 *)
IsGradeOf(level, amount) ==
    /\ level \in GradeLevel
    /\ amount >= MinAmount[level] \/ level = "GREEN"
    /\ \A other \in GradeLevel :
          amount >= MinAmount[other] => MinAmount[other] <= MinAmount[level]

(* What the summary's "need to next" should be: buying for exactly that much *)
(* reaches the next grade, and for any less keeps the present one.          *)
IsNeedToNext(info, amount) ==
    /\ info.need > 0
    /\ IsGradeOf(info.next, amount + info.need)
    /\ \A less \in 0..(info.need - 1) :
          resolveGradeByAmount(amount + less) = resolveGradeByAmount(amount)
================================================================================
