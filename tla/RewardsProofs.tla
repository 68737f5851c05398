----------------------------- MODULE RewardsProofs -----------------------------
(***************************************************************************)
(* Theorems about Rewards for any set of calls, orders, users, prices and  *)
(* balances: its invariants, and that it implements Wallet; and about the  *)
(* arithmetic of Grades for every amount.                                  *)
(***************************************************************************)
EXTENDS Rewards, Sums, TLAPS

--------------------------------------------------------------------------------
(* resolveGradeByAmount (grade.util.ts:3-19) picks the highest grade an     *)
(* amount reaches, negative amounts included.                               *)
THEOREM ResolvesToHighestReached ==
    ASSUME NEW amount \in Int
    PROVE  IsGradeOf(resolveGradeByAmount(amount), amount)
BY DEF IsGradeOf, resolveGradeByAmount, Reached, GradeLevel, MinAmount

(* Paying for more never leads to a lower grade.                            *)
THEOREM MoreNeverDemotes ==
    ASSUME NEW a \in Int, NEW b \in Int, a <= b
    PROVE  MinAmount[resolveGradeByAmount(a)] <= MinAmount[resolveGradeByAmount(b)]
BY DEF resolveGradeByAmount, Reached, MinAmount

(* getNextGradeInfo (grade.util.ts:32-48) names the exact amount that is    *)
(* missing to the next grade, unless the highest one is reached.            *)
THEOREM NeedToNextIsExact ==
    ASSUME NEW amount \in Int, resolveGradeByAmount(amount) # "VIP"
    PROVE  IsNeedToNext(getNextGradeInfo(amount), amount)
<1> DEFINE reached == resolveGradeByAmount(amount)
           info == getNextGradeInfo(amount)
<1>1. /\ info.next = NextLevel[reached]
      /\ info.need = Max0(MinAmount[NextLevel[reached]] - amount)
  BY DEF getNextGradeInfo
<1>2. /\ reached \in GradeLevel \ {"VIP"}
      /\ MinAmount[NextLevel[reached]] > amount
      /\ amount >= MinAmount[reached] \/ reached = "GREEN"
  BY DEF resolveGradeByAmount, Reached, GradeLevel, MinAmount, NextLevel
<1>3. /\ info.need = MinAmount[NextLevel[reached]] - amount
      /\ info.need \in Int /\ info.need > 0
  BY <1>1, <1>2 DEF Max0, GradeLevel, MinAmount, NextLevel
<1>4. IsGradeOf(info.next, amount + info.need)
  BY <1>1, <1>2, <1>3 DEF IsGradeOf, GradeLevel, MinAmount, NextLevel
<1>5. ASSUME NEW less \in 0..(info.need - 1)
      PROVE  resolveGradeByAmount(amount + less) = reached
  <2>1. amount + less \in Int /\ amount + less < MinAmount[NextLevel[reached]]
        /\ (amount + less >= MinAmount[reached] \/ reached = "GREEN")
    BY <1>2, <1>3 DEF GradeLevel, MinAmount, NextLevel
  <2> HIDE DEF reached
  <2> QED
    BY <1>2, <2>1 DEF resolveGradeByAmount, Reached, GradeLevel, MinAmount, NextLevel
<1> QED
  BY <1>3, <1>4, <1>5 DEF IsNeedToNext

(* An order never earns a negative number of points nor more than its price. *)
THEOREM EarnsWithinPrice ==
    ASSUME NEW price \in Int, NEW held \in GradeLevel
    PROVE  Earned(price, held) \in 0..Max0(price)
BY DEF Earned, Max0, EarnRate, GradeLevel

--------------------------------------------------------------------------------
USE DEF Goto

(* The inductive invariant says of every call what it has done so far.     *)
Begun(c) ==
    /\ pc[c] = "idle" => job[c] = NoJob
    /\ pc[c] \notin {"idle", "refused"} => job[c] \in Job

(* The draft is about the call's own order, and is posted with the end.    *)
OwnDraft(c) ==
    /\ draft[c] # NoEntry =>
        /\ draft[c] \in Entry
        /\ draft[c].user = UserOf(c) /\ draft[c].order = OrderOf(c)
        /\ draft[c].reason = Reason[job[c].kind]
        /\ draft[c].delta # 0
    /\ pc[c] \in {"writing", "committing"} => draft[c] # NoEntry
    /\ pc[c] \in {"idle", "canceling", "checking", "sizing", "refused", "failed"} =>
            draft[c] = NoEntry
    /\ book[c] = IF pc[c] = "done" THEN draft[c] ELSE NoEntry

(* What the call saw in the log is still there, and was not its own job.   *)
NewToLog(c) ==
    /\ \A d \in before[c] : book[d] # NoEntry
    /\ pc[c] = "sizing" \/ draft[c] # NoEntry =>
          before[c] \cap Logged(OrderOf(c), Reason[job[c].kind]) = {}

(* A cancel past its first transaction has canceled, and what it found      *)
(* earned it takes back unless somebody did.                                *)
Canceled(c) ==
    job[c].kind = "cancel" =>
        /\ pc[c] \in InTx \cup {"done"} =>
              status[OrderOf(c)] = "CANCELED" /\ payment[OrderOf(c)] = "REFUNDED"
        /\ draft[c] # NoEntry =>
              \E d \in Logged(OrderOf(c), "EARN_PURCHASE") : book[d].delta = - draft[c].delta
        /\ /\ pc[c] \in {"grading", "syncing", "done"}
           /\ Logged(OrderOf(c), "EARN_PURCHASE") \cap before[c] # {}
           => draft[c] # NoEntry \/ Logged(OrderOf(c), "REVERT_CANCEL") # {}

CallInv(c) == Begun(c) /\ OwnDraft(c) /\ NewToLog(c) /\ Canceled(c)

(* Who has changed a user's row can commit the change, and is alone.       *)
LockInv ==
    \A c \in Calls :
        Locks(c, UserOf(c)) =>
            /\ points[UserOf(c)] + draft[c].delta >= 0
            /\ \A d \in Calls \ {c} : ~ Locks(d, UserOf(c))

IInv == TypeOK /\ (\A c \in Calls : CallInv(c)) /\ LockInv

--------------------------------------------------------------------------------
LEMMA JobTypes ==
    ASSUME IInv, NEW c \in Calls, pc[c] \notin {"idle", "refused"}
    PROVE  /\ job[c].kind \in Kind
           /\ OrderOf(c) \in Orders
           /\ UserOf(c) \in Users
           /\ Reason[job[c].kind] \in {Reason[k] : k \in Kind}
BY RewardsAssumption DEF IInv, CallInv, Begun, Job, OrderOf, UserOf

LEMMA GradeIsLevel ==
    ASSUME NEW u, NEW excluded
    PROVE  CurrentGrade(u, excluded) \in GradeLevel
BY DEF CurrentGrade, resolveGradeByAmount, Reached, GradeLevel

(* The log only grows: what was logged stays logged.                       *)
BookGrows == \A d \in Calls : book[d] # NoEntry => book'[d] = book[d]
CancelsStay ==
    \A o \in Orders : status[o] = "CANCELED" /\ payment[o] = "REFUNDED" =>
                          status'[o] = "CANCELED" /\ payment'[o] = "REFUNDED"

LEMMA LoggedGrows ==
    ASSUME BookGrows, NEW o, NEW reason
    PROVE  /\ Logged(o, reason) \subseteq Logged(o, reason)'
           /\ \A d \in Calls : book[d] # NoEntry =>
                 (d \in Logged(o, reason) <=> d \in Logged(o, reason)')
BY DEF BookGrows, Logged

(* A step that leaves a call's own variables alone keeps what is true of it. *)
LEMMA Frame ==
    ASSUME IInv, NEW x \in Calls, BookGrows, CancelsStay,
           pc'[x] = pc[x], job'[x] = job[x], draft'[x] = draft[x], before'[x] = before[x],
           book'[x] = book[x], before \in [Calls -> SUBSET Calls]
    PROVE  CallInv(x)'
<1>1. /\ OrderOf(x)' = OrderOf(x) /\ UserOf(x)' = UserOf(x)
  BY DEF OrderOf, UserOf
<1>2. Begun(x)' /\ OwnDraft(x)'
  BY <1>1 DEF IInv, CallInv, Begun, OwnDraft
<1>3. NewToLog(x)'
  <2>1. \A d \in before[x] : d \in Calls /\ book[d] # NoEntry /\ book'[d] = book[d]
    BY DEF IInv, CallInv, NewToLog, BookGrows
  <2> QED
    BY <1>1, <2>1 DEF IInv, CallInv, NewToLog, Logged
<1>4. Canceled(x)'
  <2> SUFFICES ASSUME job[x].kind = "cancel" PROVE Canceled(x)'
    BY DEF Canceled
  <2>1. pc[x] \in InTx \cup {"done"} =>
            status'[OrderOf(x)] = "CANCELED" /\ payment'[OrderOf(x)] = "REFUNDED"
    BY JobTypes DEF IInv, CallInv, Canceled, CancelsStay, InTx
  <2>2. draft[x] # NoEntry =>
            \E d \in Logged(OrderOf(x), "EARN_PURCHASE")' : book'[d].delta = - draft[x].delta
    <3> SUFFICES ASSUME draft[x] # NoEntry
                 PROVE  \E d \in Logged(OrderOf(x), "EARN_PURCHASE")' : book'[d].delta = - draft[x].delta
      OBVIOUS
    <3>1. PICK d \in Logged(OrderOf(x), "EARN_PURCHASE") : book[d].delta = - draft[x].delta
      BY DEF IInv, CallInv, Canceled
    <3>2. d \in Logged(OrderOf(x), "EARN_PURCHASE")' /\ book'[d] = book[d]
      BY <1>1 DEF BookGrows, Logged
    <3> QED
      BY <3>1, <3>2
  <2>3. \A d \in before[x] : d \in Calls /\ book[d] # NoEntry /\ book'[d] = book[d]
    BY DEF IInv, CallInv, NewToLog, BookGrows
  <2>4. Logged(OrderOf(x), "EARN_PURCHASE")' \cap before[x]
            = Logged(OrderOf(x), "EARN_PURCHASE") \cap before[x]
    BY <2>3, <1>1 DEF Logged
  <2>5. Logged(OrderOf(x), "REVERT_CANCEL") \subseteq Logged(OrderOf(x), "REVERT_CANCEL")'
    BY LoggedGrows, <1>1 DEF Logged, BookGrows
  <2> QED
    BY <1>1, <2>1, <2>2, <2>4, <2>5 DEF IInv, CallInv, Canceled, Logged
<1> QED
  BY <1>2, <1>3, <1>4 DEF CallInv

(* A step that changes no points and lets nobody lock keeps the locks.     *)
Locking(c) == pc[c] \in {"committing", "grading", "syncing"} /\ draft[c] # NoEntry

LEMMA KeepLocks ==
    ASSUME IInv, points' = points,
           \A x \in Calls : Locking(x)' => Locking(x) /\ draft'[x] = draft[x] /\ job'[x] = job[x]
    PROVE  LockInv'
<1> SUFFICES ASSUME NEW c \in Calls, Locking(c)'
             PROVE  /\ points[UserOf(c)'] + draft'[c].delta >= 0
                    /\ \A d \in Calls \ {c} : ~ Locks(d, UserOf(c))'
  BY DEF LockInv, Locks, Locking
<1>1. Locking(c) /\ draft'[c] = draft[c] /\ UserOf(c)' = UserOf(c)
  BY DEF UserOf, OrderOf
<1>2. /\ points[UserOf(c)] + draft[c].delta >= 0
      /\ \A d \in Calls \ {c} : ~ Locks(d, UserOf(c))
  BY <1>1 DEF IInv, LockInv, Locks, Locking
<1>3. \A d \in Calls : Locks(d, UserOf(c))' => Locks(d, UserOf(c))
  BY <1>1 DEF Locks, Locking, UserOf, OrderOf
<1> QED
  BY <1>1, <1>2, <1>3

LEMMA InitIInv == Init => IInv
<1> SUFFICES ASSUME Init PROVE IInv
  OBVIOUS
<1>1. TypeOK
  BY RewardsAssumption DEF Init, TypeOK, PC, GradeLevel
<1>2. ASSUME NEW c \in Calls PROVE CallInv(c)
  BY DEF Init, CallInv, Begun, OwnDraft, NewToLog, Canceled, InTx
<1>3. LockInv
  BY DEF Init, LockInv, Locks
<1> QED
  BY <1>1, <1>2, <1>3 DEF IInv

--------------------------------------------------------------------------------
(* Each action keeps the inductive invariant.                              *)
LEMMA BeginStep ==
    ASSUME IInv, NEW c \in Calls, BeginSpend(c) \/ BeginEarn(c) \/ BeginCancel(c)
    PROVE  IInv'
<1>1. PICK j \in Job \cup {NoJob}, label \in {"checking", "canceling", "done", "refused"} :
        /\ pc[c] = "idle"
        /\ job' = [job EXCEPT ![c] = j]
        /\ Goto(c, label)
        /\ j.kind = "cancel" => label \in {"canceling", "refused"}
        /\ j = NoJob => label = "refused"
        /\ UNCHANGED <<draft, level, before, orderRows, userRows, current>>
  <2>0. pc[c] = "idle" /\ UNCHANGED <<draft, level, before, orderRows, userRows, current>>
    BY DEF BeginSpend, BeginEarn, BeginCancel
  <2>1. CASE NotFound(c)
    <3>1. job[c] = NoJob
      BY <2>0 DEF IInv, CallInv, Begun
    <3>2. job' = [job EXCEPT ![c] = NoJob] /\ Goto(c, "refused")
      BY <2>1, <3>1 DEF NotFound, IInv, TypeOK
    <3> QED
      BY <2>0, <3>2
  <2>2. CASE ~ NotFound(c)
    <3>1. PICK j \in Job, label \in {"checking", "canceling", "done", "refused"} :
            /\ job' = [job EXCEPT ![c] = j]
            /\ Goto(c, label)
            /\ j.kind = "cancel" => label \in {"canceling", "refused"}
      BY <2>2 DEF BeginSpend, BeginEarn, BeginCancel, Job, Kind
    <3>2. j # NoJob
      BY RewardsAssumption
    <3> QED
      BY <2>0, <3>1, <3>2
  <2> QED
    BY <2>1, <2>2
<1> USE DEF orderRows, userRows
<1>2. TypeOK'
  BY <1>1 DEF IInv, TypeOK, PC, InTx, Final
<1>3. CallInv(c)'
  <2>1. draft[c] = NoEntry /\ book[c] = NoEntry /\ \A d \in before[c] : book[d] # NoEntry
    BY <1>1 DEF IInv, CallInv, OwnDraft, NewToLog
  <2> QED
    BY <1>1, <2>1 DEF IInv, TypeOK, CallInv, Begun, OwnDraft, NewToLog, Canceled, InTx
<1>4. \A x \in Calls \ {c} : CallInv(x)'
  BY <1>1, Frame DEF IInv, TypeOK, BookGrows, CancelsStay
<1>5. LockInv'
  BY <1>1, KeepLocks DEF IInv, TypeOK, Locking
<1> QED
  BY <1>2, <1>3, <1>4, <1>5 DEF IInv

LEMMA CommitCancelStep ==
    ASSUME IInv, NEW c \in Calls, CommitCancel(c)
    PROVE  IInv'
<1> USE DEF CommitCancel, Outdate, local, userRows
<1>0. /\ OrderOf(c) \in Orders
      /\ draft[c] = NoEntry /\ book[c] = NoEntry
      /\ \A d \in before[c] : book[d] # NoEntry
  BY JobTypes DEF IInv, CallInv, OwnDraft, NewToLog
<1>1. TypeOK'
  BY <1>0 DEF IInv, TypeOK, PC, InTx
<1>2. CallInv(c)'
  BY <1>0 DEF IInv, TypeOK, CallInv, Begun, OwnDraft, NewToLog, Canceled, InTx, OrderOf
<1>3. \A x \in Calls \ {c} : CallInv(x)'
  BY Frame DEF IInv, TypeOK, BookGrows, CancelsStay
<1>4. LockInv'
  BY KeepLocks DEF IInv, TypeOK, Locking
<1> QED
  BY <1>1, <1>2, <1>3, <1>4 DEF IInv

LEMMA CheckLogStep ==
    ASSUME IInv, NEW c \in Calls, CheckLog(c)
    PROVE  IInv'
<1> USE DEF CheckLog, orderRows, userRows
<1>0. job[c] \in Job /\ draft[c] = NoEntry /\ book[c] = NoEntry
  BY DEF IInv, CallInv, Begun, OwnDraft
<1>1. TypeOK'
  BY DEF IInv, TypeOK, PC, InTx, Final
<1>2. CallInv(c)'
  <2>1. OrderOf(c)' = OrderOf(c)
    BY DEF OrderOf
  <2>2. pc'[c] \in {"sizing", "grading", "done"} /\ before'[c] = {d \in Calls : book[d] # NoEntry}
    BY DEF IInv, TypeOK
  <2>3. pc'[c] = "sizing" => Logged(OrderOf(c), Reason[job[c].kind]) = {}
    BY DEF IInv, TypeOK
  <2>4. pc'[c] \in {"grading", "done"} => Logged(OrderOf(c), Reason[job[c].kind]) # {}
    BY DEF IInv, TypeOK
  <2>5. job[c].kind = "cancel" => Reason[job[c].kind] = "REVERT_CANCEL"
    BY DEF Reason
  <2>6. Begun(c)' /\ OwnDraft(c)'
    BY <1>0, <2>2 DEF Begun, OwnDraft
  <2>7. NewToLog(c)'
    BY <1>0, <2>1, <2>2, <2>3 DEF NewToLog, Logged
  <2>8. Canceled(c)'
    BY <1>0, <2>1, <2>2, <2>4, <2>5 DEF IInv, CallInv, Canceled, InTx, Logged
  <2> QED
    BY <2>6, <2>7, <2>8 DEF CallInv
<1>3. \A x \in Calls \ {c} : CallInv(x)'
  BY Frame DEF IInv, TypeOK, BookGrows, CancelsStay
<1>4. LockInv'
  BY <1>0, KeepLocks DEF IInv, TypeOK, Locking
<1> QED
  BY <1>1, <1>2, <1>3, <1>4 DEF IInv

(* An amount is never zero by accident: what was earned was positive.      *)
LEMMA AmountsAreRight ==
    ASSUME IInv, NEW c \in Calls, pc[c] = "sizing", NEW delta \in Amounts(c)
    PROVE  /\ delta \in Int
           /\ job[c].kind = "cancel" /\ Logged(OrderOf(c), "EARN_PURCHASE") # {} =>
                  /\ delta # 0
                  /\ \E d \in Logged(OrderOf(c), "EARN_PURCHASE") : book[d].delta = - delta
           /\ job[c].kind = "cancel" /\ Logged(OrderOf(c), "EARN_PURCHASE") = {} => delta = 0
<1> DEFINE earnings == Logged(OrderOf(c), "EARN_PURCHASE")
<1>1. \A d \in earnings : book[d].delta \in Int \ {0}
  <2> SUFFICES ASSUME NEW d \in earnings PROVE book[d].delta \in Int \ {0}
    OBVIOUS
  <2>1. d \in Calls /\ book[d] = draft[d] /\ draft[d] # NoEntry
    BY DEF Logged, IInv, CallInv, OwnDraft
  <2> QED
    BY <2>1 DEF IInv, CallInv, OwnDraft, Entry
<1>2. CASE job[c].kind = "spend"
  BY <1>2, JobTypes, RewardsAssumption DEF Amounts
<1>3. CASE job[c].kind = "earn"
  <2>1. CurrentGrade(UserOf(c), {OrderOf(c)}) \in GradeLevel /\ Price[OrderOf(c)] \in Int
    BY GradeIsLevel, JobTypes, RewardsAssumption
  <2>2. Earned(Price[OrderOf(c)], CurrentGrade(UserOf(c), {OrderOf(c)})) \in Int
    BY <2>1, EarnsWithinPrice
  <2> QED
    BY <1>3, <2>2 DEF Amounts
<1>4. CASE job[c].kind = "cancel"
  BY <1>1, <1>4 DEF Amounts
<1> QED
  BY <1>2, <1>3, <1>4, JobTypes DEF Kind

LEMMA SizeEntryStep ==
    ASSUME IInv, NEW c \in Calls, SizeEntry(c)
    PROVE  IInv'
<1> USE DEF SizeEntry, orderRows, userRows
<1> DEFINE entry(delta) == [user |-> UserOf(c), order |-> OrderOf(c),
                            reason |-> Reason[job[c].kind], delta |-> delta]
<1>0. PICK delta \in Amounts(c) :
        IF delta = 0 THEN Goto(c, "grading") /\ UNCHANGED draft
        ELSE Goto(c, "writing") /\ draft' = [draft EXCEPT ![c] = entry(delta)]
  OBVIOUS
<1>a. /\ job[c] \in Job /\ draft[c] = NoEntry /\ book[c] = NoEntry
      /\ OrderOf(c)' = OrderOf(c) /\ UserOf(c)' = UserOf(c)
      /\ delta \in Int
  BY AmountsAreRight DEF IInv, CallInv, Begun, OwnDraft, OrderOf, UserOf
<1>b. entry(delta) \in Entry /\ entry(delta) # NoEntry
  BY <1>a, JobTypes, RewardsAssumption DEF Entry
<1>1. TypeOK'
  BY <1>0, <1>b DEF IInv, TypeOK, PC, InTx
<1>2. CallInv(c)'
  <2>1. Begun(c)' /\ OwnDraft(c)'
    BY <1>0, <1>a, <1>b DEF IInv, TypeOK, Begun, OwnDraft
  <2>2. NewToLog(c)'
    BY <1>a DEF IInv, CallInv, NewToLog, Logged
  <2>3. Canceled(c)'
    <3> SUFFICES ASSUME job[c].kind = "cancel" PROVE Canceled(c)'
      BY DEF Canceled
    <3>1. status[OrderOf(c)] = "CANCELED" /\ payment[OrderOf(c)] = "REFUNDED"
      BY DEF IInv, CallInv, Canceled, InTx
    <3>2. Logged(OrderOf(c), "EARN_PURCHASE")' = Logged(OrderOf(c), "EARN_PURCHASE")
      BY <1>a DEF Logged
    <3>3. delta = 0 => Logged(OrderOf(c), "EARN_PURCHASE") = {} /\ draft'[c] = NoEntry
      BY <1>0, <1>a, AmountsAreRight
    <3>4. delta # 0 => /\ pc'[c] = "writing"
                       /\ draft'[c].delta = delta
                       /\ \E d \in Logged(OrderOf(c), "EARN_PURCHASE") : book[d].delta = - delta
      BY <1>0, <1>a, AmountsAreRight DEF IInv, TypeOK
    <3> QED
      BY <1>a, <3>1, <3>2, <3>3, <3>4 DEF Canceled
  <2> QED
    BY <2>1, <2>2, <2>3 DEF CallInv
<1>3. \A x \in Calls \ {c} : CallInv(x)'
  BY <1>0, Frame DEF IInv, TypeOK, BookGrows, CancelsStay
<1>4. LockInv'
  BY <1>0, <1>a, KeepLocks DEF IInv, TypeOK, Locking
<1> QED
  BY <1>1, <1>2, <1>3, <1>4 DEF IInv

LEMMA WriteEntryStep ==
    ASSUME IInv, NEW c \in Calls, WriteEntry(c)
    PROVE  IInv'
<1> USE DEF WriteEntry, local, orderRows, userRows
<1>0. /\ draft[c] # NoEntry /\ book[c] = NoEntry
      /\ \A x \in Calls : OrderOf(x)' = OrderOf(x) /\ UserOf(x)' = UserOf(x)
      /\ pc'[c] \in {"committing", "grading"}
      /\ \A x \in Calls \ {c} : pc'[x] = pc[x]
  BY DEF IInv, TypeOK, CallInv, OwnDraft, OrderOf, UserOf
<1>1. TypeOK'
  BY DEF IInv, TypeOK, PC, InTx
<1>2. CallInv(c)'
  <2>1. Begun(c)' /\ OwnDraft(c)' /\ NewToLog(c)'
    BY <1>0 DEF IInv, CallInv, Begun, OwnDraft, NewToLog, Logged
  <2>2. Canceled(c)'
    BY <1>0 DEF IInv, CallInv, Canceled, Logged, InTx
  <2> QED
    BY <2>1, <2>2 DEF CallInv
<1>3. \A x \in Calls \ {c} : CallInv(x)'
  BY Frame DEF IInv, TypeOK, BookGrows, CancelsStay
<1>4. LockInv'
  <2> SUFFICES ASSUME NEW x \in Calls, Locks(x, UserOf(x))'
               PROVE  /\ points[UserOf(x)] + draft[x].delta >= 0
                      /\ \A d \in Calls \ {x} : ~ Locks(d, UserOf(x))'
    BY <1>0 DEF LockInv
  <2>1. \A y \in Calls \ {c}, z \in Calls : Locks(y, UserOf(z))' <=> Locks(y, UserOf(z))
    BY <1>0 DEF Locks
  <2>2. CASE x = c
    BY <1>0, <2>1, <2>2 DEF FreeFor
  <2>3. CASE x # c
    <3>1. Locks(x, UserOf(x)) /\ ~ Locks(x, UserOf(c))
      BY <2>1, <2>3 DEF FreeFor
    <3>2. UserOf(x) # UserOf(c)
      BY <3>1
    <3>3. ~ Locks(c, UserOf(x))'
      BY <1>0, <3>2 DEF Locks
    <3> QED
      BY <2>1, <3>1, <3>3 DEF IInv, LockInv
  <2> QED
    BY <2>2, <2>3
<1> QED
  BY <1>1, <1>2, <1>3, <1>4 DEF IInv

LEMMA ReadGradeStep ==
    ASSUME IInv, NEW c \in Calls, ReadGrade(c)
    PROVE  IInv'
<1> USE DEF ReadGrade, orderRows, userRows
<1>0. OrderOf(c)' = OrderOf(c) /\ UserOf(c)' = UserOf(c) /\ pc'[c] = "syncing"
  BY DEF IInv, TypeOK, OrderOf, UserOf
<1>1. TypeOK'
  BY GradeIsLevel DEF IInv, TypeOK, PC, InTx
<1>2. CallInv(c)'
  <2>1. Begun(c)' /\ OwnDraft(c)' /\ NewToLog(c)'
    BY <1>0 DEF IInv, CallInv, Begun, OwnDraft, NewToLog, Logged
  <2>2. Canceled(c)'
    BY <1>0 DEF IInv, CallInv, Canceled, Logged, InTx
  <2> QED
    BY <2>1, <2>2 DEF CallInv
<1>3. \A x \in Calls \ {c} : CallInv(x)'
  BY Frame DEF IInv, TypeOK, BookGrows, CancelsStay
<1>4. LockInv'
  BY KeepLocks DEF IInv, TypeOK, Locking
<1> QED
  BY <1>1, <1>2, <1>3, <1>4 DEF IInv

(* Failing and refusing both drop the draft and end the call.              *)
LEMMA DropStep ==
    ASSUME IInv, NEW c \in Calls, RefuseEntry(c) \/ Fail(c)
    PROVE  IInv'
<1>0. PICK label \in {"refused", "failed"} :
        /\ pc[c] \in {"canceling"} \cup InTx
        /\ Goto(c, label)
        /\ draft' = [draft EXCEPT ![c] = NoEntry]
        /\ level' \in {level, [level EXCEPT ![c] = "GREEN"]}
        /\ before' \in {before, [before EXCEPT ![c] = {}]}
        /\ current' \subseteq current
        /\ UNCHANGED <<job, orderRows, userRows>>
  BY DEF RefuseEntry, Fail, InTx
<1> USE DEF orderRows, userRows
<1>1. TypeOK'
  BY <1>0 DEF IInv, TypeOK, PC, Final, GradeLevel
<1>2. CallInv(c)'
  <2>1. job[c] \in Job /\ book[c] = NoEntry /\ \A d \in before[c] : book[d] # NoEntry
    BY <1>0 DEF IInv, CallInv, Begun, OwnDraft, NewToLog, InTx
  <2>2. pc'[c] = label /\ draft'[c] = NoEntry /\ before'[c] \subseteq before[c]
    BY <1>0 DEF IInv, TypeOK
  <2> QED
    BY <1>0, <2>1, <2>2 DEF CallInv, Begun, OwnDraft, NewToLog, Canceled, InTx
<1>3. \A x \in Calls \ {c} : CallInv(x)'
  BY <1>0, Frame DEF IInv, TypeOK, BookGrows, CancelsStay
<1>4. LockInv'
  BY <1>0, KeepLocks DEF IInv, TypeOK, Locking
<1> QED
  BY <1>1, <1>2, <1>3, <1>4 DEF IInv

(* A commit that posts a draft: the balance stays a natural number and      *)
(* other users' rows are left alone.                                        *)
LEMMA PostStep ==
    ASSUME IInv, NEW c \in Calls, CommitSpend(c) \/ SyncGrade(c)
    PROVE  IInv'
<1>0. /\ pc[c] \in {"committing", "syncing"}
      /\ PostDraft(c)
      /\ Goto(c, "done")
      /\ UNCHANGED <<job, draft, before, orderRows>>
      /\ grade' \in [Users -> GradeLevel] /\ level' \in [Calls -> GradeLevel]
      /\ current' \subseteq Calls \cup Users
  BY JobTypes DEF CommitSpend, SyncGrade, IInv, TypeOK, local, GradeLevel
<1> USE DEF orderRows
<1>a. /\ \A x \in Calls : OrderOf(x)' = OrderOf(x) /\ UserOf(x)' = UserOf(x)
      /\ pc'[c] = "done" /\ \A x \in Calls \ {c} : pc'[x] = pc[x]
      /\ book[c] = NoEntry
  BY <1>0 DEF IInv, TypeOK, CallInv, OwnDraft, OrderOf, UserOf
<1>b. book'[c] = draft[c] /\ \A x \in Calls \ {c} : book'[x] = book[x]
  BY <1>0, <1>a DEF PostDraft, IInv, TypeOK
<1>c. BookGrows /\ CancelsStay
  BY <1>0, <1>a, <1>b DEF BookGrows, CancelsStay
<1>d. draft[c] # NoEntry => Locks(c, UserOf(c)) /\ draft[c] \in Entry /\ UserOf(c) \in Users
  BY <1>0, JobTypes DEF Locks, IInv, CallInv, OwnDraft
<1>1. TypeOK'
  <2>1. points' \in [Users -> Nat]
    BY <1>0, <1>d DEF PostDraft, IInv, TypeOK, LockInv, Entry
  <2>2. book' \in [Calls -> Entry \cup {NoEntry}]
    BY <1>0, <1>d DEF PostDraft, IInv, TypeOK
  <2> QED
    BY <1>0, <2>1, <2>2 DEF IInv, TypeOK, PC, Final
<1>2. CallInv(c)'
  <2>1. Begun(c)' /\ OwnDraft(c)'
    BY <1>0, <1>a, <1>b DEF IInv, CallInv, Begun, OwnDraft
  <2>2. NewToLog(c)'
    <3>1. \A d \in before[c] : d \in Calls /\ book[d] # NoEntry /\ book'[d] = book[d]
      BY <1>a, <1>b DEF IInv, TypeOK, CallInv, NewToLog
    <3>2. draft[c] # NoEntry => before[c] \cap Logged(OrderOf(c), Reason[job[c].kind]) = {}
      BY DEF IInv, CallInv, NewToLog
    <3> QED
      BY <1>0, <1>a, <3>1, <3>2 DEF NewToLog, Logged
  <2>3. Canceled(c)'
    <3> SUFFICES ASSUME job[c].kind = "cancel" PROVE Canceled(c)'
      BY <1>0 DEF Canceled
    <3>1. status[OrderOf(c)] = "CANCELED" /\ payment[OrderOf(c)] = "REFUNDED"
      BY <1>0 DEF IInv, CallInv, Canceled, InTx
    <3>2. draft[c] # NoEntry => draft[c].reason = "REVERT_CANCEL" /\ draft[c].order = OrderOf(c)
      BY DEF IInv, CallInv, OwnDraft, Reason
    <3>3. draft[c] # NoEntry =>
            /\ \E d \in Logged(OrderOf(c), "EARN_PURCHASE")' : book'[d].delta = - draft[c].delta
            /\ c \in Logged(OrderOf(c), "REVERT_CANCEL")'
      BY <1>a, <1>b, <3>2 DEF IInv, CallInv, Canceled, Logged
    <3>4. \A d \in before[c] : d \in Calls \ {c} /\ book'[d] = book[d]
      BY <1>a, <1>b DEF IInv, TypeOK, CallInv, NewToLog
    <3>5. Logged(OrderOf(c), "EARN_PURCHASE")' \cap before[c]
              = Logged(OrderOf(c), "EARN_PURCHASE") \cap before[c]
      BY <1>a, <3>4 DEF Logged
    <3>6. Logged(OrderOf(c), "REVERT_CANCEL") \subseteq Logged(OrderOf(c), "REVERT_CANCEL")'
      BY <1>a, <1>c, LoggedGrows DEF Logged, BookGrows
    <3>7. pc[c] = "syncing" \/ draft[c] # NoEntry
      BY <1>0 DEF IInv, CallInv, OwnDraft
    <3> QED
      BY <1>0, <1>a, <3>1, <3>3, <3>5, <3>6, <3>7 DEF IInv, CallInv, Canceled
  <2> QED
    BY <2>1, <2>2, <2>3 DEF CallInv
<1>3. \A x \in Calls \ {c} : CallInv(x)'
  BY <1>0, <1>a, <1>b, <1>c, Frame DEF IInv, TypeOK
<1>4. LockInv'
  <2> SUFFICES ASSUME NEW x \in Calls, Locks(x, UserOf(x))'
               PROVE  /\ points'[UserOf(x)] + draft[x].delta >= 0
                      /\ \A d \in Calls \ {x} : ~ Locks(d, UserOf(x))'
    BY <1>0, <1>a DEF LockInv
  <2>1. \A y, z \in Calls : Locks(y, UserOf(z))' => Locks(y, UserOf(z)) /\ y # c
    BY <1>0, <1>a DEF Locks
  <2>2. Locks(x, UserOf(x)) /\ x # c
    BY <2>1
  <2>3. draft[c] # NoEntry => UserOf(x) # UserOf(c)
    BY <1>d, <2>2 DEF IInv, LockInv
  <2>4. UserOf(x) \in Users
    BY <2>2, JobTypes DEF Locks
  <2>5. points'[UserOf(x)] = points[UserOf(x)]
    BY <1>0, <1>d, <2>3, <2>4 DEF PostDraft, IInv, TypeOK
  <2> QED
    BY <2>1, <2>2, <2>5 DEF IInv, LockInv
<1> QED
  BY <1>1, <1>2, <1>3, <1>4 DEF IInv

LEMMA OrderStep ==
    ASSUME IInv, NEW o \in Orders, Pay(o) \/ Ship(o)
    PROVE  IInv'
<1> USE DEF Pay, Ship, Outdate, local, userRows
<1>1. TypeOK'
  BY DEF IInv, TypeOK
<1>2. \A x \in Calls : CallInv(x)'
  BY Frame DEF IInv, TypeOK, BookGrows, CancelsStay
<1>3. LockInv'
  BY KeepLocks DEF Locking
<1> QED
  BY <1>1, <1>2, <1>3 DEF IInv

LEMMA NextIInv == IInv /\ [Next]_vars => IInv'
<1> SUFFICES ASSUME IInv, [Next]_vars PROVE IInv'
  OBVIOUS
<1>1. CASE UNCHANGED vars
  <2> USE <1>1 DEF vars, local, orderRows, userRows
  <2>1. TypeOK'
    BY DEF IInv, TypeOK
  <2>2. \A x \in Calls : CallInv(x)'
    BY Frame DEF IInv, TypeOK, BookGrows, CancelsStay
  <2>3. LockInv'
    BY KeepLocks DEF Locking
  <2> QED
    BY <2>1, <2>2, <2>3 DEF IInv
<1>2. ASSUME NEW c \in Calls, Proceed(c) PROVE IInv'
  BY <1>2, CommitCancelStep, CheckLogStep, SizeEntryStep, WriteEntryStep, DropStep,
     ReadGradeStep, PostStep DEF Proceed
<1> QED
  BY <1>1, <1>2, BeginStep, DropStep, OrderStep DEF Next, Rest

THEOREM Invariance == Spec => []IInv
<1> QED
  BY InitIInv, NextIInv, PTL DEF Spec

--------------------------------------------------------------------------------
(* Every variable keeps its type: no balance ever becomes negative.        *)
THEOREM TypeCorrect == Spec => []TypeOK
<1>1. IInv => TypeOK
  BY DEF IInv
<1> QED
  BY <1>1, Invariance, PTL

(* A repeated call posts nothing that it could see was posted.             *)
THEOREM RetriesApplyOnce == Spec => []RetryAppliesOnce
<1>1. IInv => RetryAppliesOnce
  <2> SUFFICES ASSUME IInv, NEW c \in Calls, book[c] # NoEntry, NEW d \in before[c],
                      book[d].order = book[c].order, book[d].reason = book[c].reason
               PROVE  FALSE
    BY DEF RetryAppliesOnce
  <2>1. /\ draft[c] # NoEntry
        /\ book[c].order = OrderOf(c) /\ book[c].reason = Reason[job[c].kind]
    BY DEF IInv, CallInv, OwnDraft
  <2>2. d \in Calls /\ book[d] # NoEntry
    BY DEF IInv, TypeOK, CallInv, NewToLog
  <2>3. d \in Logged(OrderOf(c), Reason[job[c].kind])
    BY <2>1, <2>2 DEF Logged
  <2> QED
    BY <2>1, <2>3 DEF IInv, CallInv, NewToLog
<1> QED
  BY <1>1, Invariance, PTL

(* A cancel that reported success is complete.                             *)
THEOREM CancelsAreComplete == Spec => []CancelIsComplete
<1>1. IInv => CancelIsComplete
  <2> SUFFICES ASSUME IInv, NEW c \in Calls, pc[c] = "done", job[c].kind = "cancel"
               PROVE  /\ status[OrderOf(c)] = "CANCELED" /\ payment[OrderOf(c)] = "REFUNDED"
                      /\ Logged(OrderOf(c), "EARN_PURCHASE") \cap before[c] # {} =>
                            Logged(OrderOf(c), "REVERT_CANCEL") # {}
    BY DEF CancelIsComplete
  <2>1. draft[c] # NoEntry => c \in Logged(OrderOf(c), "REVERT_CANCEL")
    BY DEF IInv, CallInv, OwnDraft, Logged, Reason
  <2> QED
    BY <2>1 DEF IInv, CallInv, Canceled
<1> QED
  BY <1>1, Invariance, PTL

(* Only what an order earned is taken back from its buyer.                 *)
THEOREM RevertsAreOfEarnings == Spec => []RevertsEarnings
<1>1. IInv => RevertsEarnings
  <2> SUFFICES ASSUME IInv, NEW c \in Calls, book[c] # NoEntry, book[c].reason = "REVERT_CANCEL"
               PROVE  \E d \in Logged(book[c].order, "EARN_PURCHASE") :
                          book[d].delta = - book[c].delta
    BY DEF RevertsEarnings
  <2>1. /\ book[c] = draft[c] /\ draft[c] # NoEntry /\ pc[c] = "done"
        /\ book[c].order = OrderOf(c) /\ Reason[job[c].kind] = "REVERT_CANCEL"
    BY DEF IInv, CallInv, OwnDraft
  <2>2. job[c].kind = "cancel"
    BY <2>1, JobTypes DEF Reason, Kind
  <2> QED
    BY <2>1, <2>2 DEF IInv, CallInv, Canceled
<1> QED
  BY <1>1, Invariance, PTL

(* What a call has computed and what is on show is the grade of the orders  *)
(* unless one has changed since.                                            *)
Computed(c) == c \in current /\ pc[c] = "syncing" => level[c] = CurrentGrade(UserOf(c), {})
CurrentInv == GradeIsCurrent /\ \A c \in Calls : Computed(c)

LEMMA GradeStays ==
    ASSUME NEW u, \A o \in Orders : OwnerOf[o] = u => status'[o] = status[o]
    PROVE  CurrentGrade(u, {})' = CurrentGrade(u, {})
<1>1. Counted(u, {})' = Counted(u, {})
  BY DEF Counted
<1> QED
  BY <1>1 DEF CurrentGrade, Lifetime

LEMMA StatusStep ==
    ASSUME IInv, CurrentInv, NEW o \in Orders, Outdate(o), UNCHANGED <<level, job, grade>>,
           \A x \in Orders \ {o} : status'[x] = status[x],
           \A c \in Calls : pc'[c] = "syncing" => pc[c] = "syncing"
    PROVE  CurrentInv'
<1>1. \A u \in Users \cap current' : u # OwnerOf[o]
  BY DEF Outdate
<1>2. GradeIsCurrent'
  BY <1>1, GradeStays DEF GradeIsCurrent, CurrentInv, Outdate
<1>3. ASSUME NEW c \in Calls PROVE Computed(c)'
  <2> SUFFICES ASSUME c \in current', pc'[c] = "syncing" PROVE level'[c] = CurrentGrade(UserOf(c), {})'
    BY DEF Computed
  <2>1. pc[c] = "syncing" /\ c \in current /\ UserOf(c) # OwnerOf[o] /\ UserOf(c)' = UserOf(c)
    BY DEF Outdate, UserOf, OrderOf
  <2>2. CurrentGrade(UserOf(c), {})' = CurrentGrade(UserOf(c), {})
    <3>1. PICK u \in Users : u = UserOf(c)
      BY <2>1, JobTypes
    <3>2. \A x \in Orders : OwnerOf[x] = u => status'[x] = status[x]
      BY <2>1, <3>1
    <3>3. CurrentGrade(u, {})' = CurrentGrade(u, {})
      BY <3>2, GradeStays
    <3>4. UserOf(c)' = u
      BY <2>1, <3>1
    <3> QED
      BY <3>1, <3>3, <3>4
  <2> QED
    BY <2>1, <2>2 DEF CurrentInv, Computed
<1> QED
  BY <1>2, <1>3 DEF CurrentInv

(* Where no status changes, the grades stay as they are.                    *)
LEMMA ComputedKept ==
    ASSUME IInv, CurrentInv, UNCHANGED status, NEW c \in Calls, UNCHANGED <<pc[c], job[c], level[c]>>,
           c \in current' => c \in current
    PROVE  Computed(c)'
<1> SUFFICES ASSUME c \in current', pc'[c] = "syncing"
             PROVE  level'[c] = CurrentGrade(UserOf(c), {})'
  BY DEF Computed
<1>1. PICK u \in Users : u = UserOf(c)
  BY JobTypes
<1>2. UserOf(c)' = u
  BY <1>1 DEF UserOf, OrderOf
<1>3. CurrentGrade(u, {})' = CurrentGrade(u, {})
  BY GradeStays
<1>4. level[c] = CurrentGrade(u, {})
  BY <1>1 DEF CurrentInv, Computed
<1> QED
  BY <1>1, <1>2, <1>3, <1>4

LEMMA NextCurrent ==
    ASSUME IInv, CurrentInv, [Next]_vars PROVE CurrentInv'
<1> USE DEF vars, local, orderRows, userRows
<1>1. ASSUME UNCHANGED <<status, grade>>, current' \cap Users \subseteq current PROVE GradeIsCurrent'
  BY <1>1, GradeStays DEF CurrentInv, GradeIsCurrent
<1>2. CASE UNCHANGED vars
  BY <1>2, <1>1, ComputedKept DEF CurrentInv
<1>3. ASSUME NEW c \in Calls, BeginSpend(c) \/ BeginEarn(c) \/ BeginCancel(c) PROVE CurrentInv'
  <2>1. UNCHANGED <<status, grade, current, level>> /\ pc'[c] # "syncing"
        /\ \A d \in Calls \ {c} : pc'[d] = pc[d] /\ job'[d] = job[d]
    BY <1>3 DEF BeginSpend, BeginEarn, BeginCancel, NotFound, IInv, TypeOK
  <2> QED
    BY <2>1, <1>1, ComputedKept DEF CurrentInv, Computed
<1>4. ASSUME NEW c \in Calls, CommitCancel(c) PROVE CurrentInv'
  <2>1. OrderOf(c) \in Orders /\ pc'[c] # "syncing" /\ \A d \in Calls \ {c} : pc'[d] = pc[d]
    BY <1>4, JobTypes DEF CommitCancel, IInv, TypeOK
  <2>2. \A x \in Orders \ {OrderOf(c)} : status'[x] = status[x]
    BY <1>4 DEF CommitCancel, IInv, TypeOK
  <2>3. PICK o \in Orders : o = OrderOf(c)
    BY <2>1
  <2> QED
    BY <1>4, <2>1, <2>2, <2>3, StatusStep DEF CommitCancel
<1>5. ASSUME NEW c \in Calls, CheckLog(c) \/ SizeEntry(c) \/ WriteEntry(c) \/ RefuseEntry(c)
                              \/ CommitSpend(c) \/ Fail(c)
      PROVE  CurrentInv'
  <2>1. UNCHANGED <<status, grade>> /\ current' \subseteq current /\ pc'[c] # "syncing"
        /\ \A d \in Calls \ {c} : pc'[d] = pc[d] /\ job'[d] = job[d] /\ level'[d] = level[d]
    BY <1>5 DEF CheckLog, SizeEntry, WriteEntry, RefuseEntry, CommitSpend, Fail, IInv, TypeOK
  <2> QED
    BY <2>1, <1>1, ComputedKept DEF CurrentInv, Computed
<1>6. ASSUME NEW c \in Calls, ReadGrade(c) PROVE CurrentInv'
  <2>1. /\ UNCHANGED <<status, grade, job>> /\ current' = current \cup {c} /\ c \notin Users
        /\ level'[c] = CurrentGrade(UserOf(c), {})
        /\ \A d \in Calls \ {c} : pc'[d] = pc[d] /\ job'[d] = job[d] /\ level'[d] = level[d]
    BY <1>6, RewardsAssumption DEF ReadGrade, IInv, TypeOK
  <2>2. GradeIsCurrent' /\ \A d \in Calls \ {c} : Computed(d)'
    BY <2>1, <1>1, ComputedKept
  <2>3. PICK u \in Users : u = UserOf(c)
    BY <1>6, JobTypes DEF ReadGrade
  <2>4. UserOf(c)' = u
    BY <2>1, <2>3 DEF UserOf, OrderOf
  <2>5. CurrentGrade(u, {})' = CurrentGrade(u, {})
    BY <2>1, GradeStays
  <2> QED
    BY <2>1, <2>2, <2>3, <2>4, <2>5 DEF CurrentInv, Computed
<1>7. ASSUME NEW c \in Calls, SyncGrade(c) PROVE CurrentInv'
  <2>1. PICK u \in Users : u = UserOf(c)
    BY <1>7, JobTypes DEF SyncGrade
  <2>2. /\ UNCHANGED <<status, job>> /\ pc'[c] # "syncing" /\ pc[c] = "syncing"
        /\ grade'[u] = level[c] /\ \A v \in Users \ {u} : grade'[v] = grade[v]
        /\ current' \subseteq current \cup {u} /\ (u \in current' => c \in current)
        /\ \A d \in Calls \ {c} : pc'[d] = pc[d] /\ job'[d] = job[d] /\ level'[d] = level[d]
    BY <1>7, <2>1, RewardsAssumption DEF SyncGrade, IInv, TypeOK
  <2>3. \A d \in Calls \ {c} : Computed(d)'
    BY <2>1, <2>2, ComputedKept, RewardsAssumption
  <2>4. \A v \in Users : CurrentGrade(v, {})' = CurrentGrade(v, {})
    BY <2>2, GradeStays
  <2>5. c \in current => level[c] = CurrentGrade(u, {})
    BY <2>1, <2>2 DEF CurrentInv, Computed
  <2>6. GradeIsCurrent'
    BY <2>2, <2>4, <2>5 DEF CurrentInv, GradeIsCurrent
  <2> QED
    BY <2>2, <2>3, <2>6 DEF CurrentInv, Computed
<1>8. ASSUME NEW o \in Orders, Pay(o) \/ Ship(o) PROVE CurrentInv'
  <2>1. \A x \in Orders \ {o} : status'[x] = status[x]
    BY <1>8 DEF Pay, Ship, IInv, TypeOK
  <2> QED
    BY <1>8, <2>1, StatusStep DEF Pay, Ship
<1> QED
  BY <1>2, <1>3, <1>4, <1>5, <1>6, <1>7, <1>8 DEF Next, Proceed, Rest

(* The grade a call has written is that of the buyer's orders until one of  *)
(* them changes, for any number of calls, orders, prices and users.         *)
THEOREM GradesAreCurrent == Spec => []GradeIsCurrent
<1>1. Init => CurrentInv
  BY DEF Init, CurrentInv, GradeIsCurrent, Computed
<1>2. IInv /\ CurrentInv /\ [Next]_vars => CurrentInv'
  BY NextCurrent
<1>3. CurrentInv => GradeIsCurrent
  BY DEF CurrentInv
<1> QED
  BY <1>1, <1>2, <1>3, Invariance, PTL DEF Spec

(* A commit posts the draft, and no other step changes balances or log.     *)
LEMMA PostIsPost ==
    ASSUME IInv, NEW c \in Calls, pc[c] \in {"committing", "syncing"}, PostDraft(c)
    PROVE  [Account!Next]_(Account!vars)
<1>1. CASE draft[c] = NoEntry
  BY <1>1 DEF PostDraft, Account!vars
<1>2. CASE draft[c] # NoEntry
  <2>1. /\ draft[c] \in Entry /\ draft[c].user = UserOf(c) /\ book[c] = NoEntry
        /\ Locks(c, UserOf(c))
    BY <1>2 DEF IInv, CallInv, OwnDraft, Locks
  <2>2. points[UserOf(c)] + draft[c].delta >= 0
    BY <2>1 DEF IInv, LockInv
  <2>3. book' = [book EXCEPT ![c] = draft[c]] /\ book'[c] = draft[c]
    BY <1>2 DEF PostDraft, IInv, TypeOK
  <2>4. Account!Post(c)
    BY <1>2, <2>1, <2>2, <2>3 DEF Account!Post, PostDraft
  <2> QED
    BY <2>4 DEF Account!Next
<1> QED
  BY <1>1, <1>2

LEMMA StepIsPost ==
    ASSUME IInv, [Next]_vars
    PROVE  [Account!Next]_(Account!vars)
<1> USE DEF Account!vars, userRows
<1>1. ASSUME NEW c \in Calls, CommitSpend(c) \/ SyncGrade(c)
      PROVE  [Account!Next]_(Account!vars)
  BY <1>1, PostIsPost DEF CommitSpend, SyncGrade
<1>2. ASSUME NEW c \in Calls, ~ CommitSpend(c), ~ SyncGrade(c), Proceed(c)
      PROVE  UNCHANGED userRows
  BY <1>2 DEF Proceed, CommitCancel, CheckLog, SizeEntry, WriteEntry, RefuseEntry, ReadGrade
<1>3. ASSUME NEW c \in Calls, BeginSpend(c) \/ BeginEarn(c) \/ BeginCancel(c) \/ Fail(c)
      PROVE  UNCHANGED userRows
  BY <1>3 DEF BeginSpend, BeginEarn, BeginCancel, Fail
<1>4. ASSUME NEW o \in Orders, Pay(o) \/ Ship(o)
      PROVE  UNCHANGED userRows
  BY <1>4 DEF Pay, Ship
<1> QED
  BY <1>1, <1>2, <1>3, <1>4 DEF Next, Rest, vars

(* Rewards implements Wallet: a balance changes only with a log entry of    *)
(* the same amount.                                                         *)
THEOREM RewardsPostAtomically == Spec => PostsAtomically
<1>1. Init => Account!Init
  BY RewardsAssumption DEF Init, Account!Init
<1>2. IInv /\ [Next]_vars => [Account!Next]_(Account!vars)
  BY StepIsPost
<1> QED
  BY <1>1, <1>2, Invariance, PTL DEF Spec, PostsAtomically, Account!Spec

--------------------------------------------------------------------------------
(* The ledger: a balance is what its user had at first, and all the entries *)
(* of its user.                                                             *)
Posted(u) == {c \in Calls : book[c] # NoEntry /\ book[c].user = u}
Delta(u) == [c \in Posted(u) |-> book[c].delta]

BalancesAreLogged ==
    \A u \in Users : points[u] = InitialPoints[u] + SumFunction(Delta(u))

Ledger ==
    /\ \A u \in Users : IsFiniteSet(Posted(u))
    /\ BalancesAreLogged

(* One more entry adds its amount.                                          *)
LEMMA EntryAdds ==
    ASSUME IInv, IInv', NEW u \in Users, IsFiniteSet(Posted(u)), NEW c \in Calls \ Posted(u),
           Posted(u)' = Posted(u) \cup {c}, \A d \in Posted(u) : book'[d] = book[d]
    PROVE  /\ IsFiniteSet(Posted(u)')
           /\ SumFunction(Delta(u))' = SumFunction(Delta(u)) + book'[c].delta
<1> DEFINE old == Delta(u)
           new == Delta(u)'
<1>1. /\ \A d \in Posted(u) : old[d] \in Int /\ new[d] = old[d]
      /\ new[c] = book'[c].delta /\ new[c] \in Int
  BY DEF IInv, TypeOK, Posted, Delta, Entry
<1>2. SumFunction(Delta(u)) = SumFunctionOnSet(old, Posted(u))
  BY DEF SumFunction, Delta
<1>3. SumFunction(Delta(u))' = SumFunctionOnSet(new, Posted(u) \cup {c})
  <2>1. SumFunction(Delta(u))' = SumFunctionOnSet(new, Posted(u)')
    BY DEF SumFunction, Delta
  <2> QED
    BY <2>1, Zenon
<1> HIDE DEF old, new
<1>4. SumFunctionOnSet(new, Posted(u)) = SumFunctionOnSet(old, Posted(u))
  BY <1>1, SumOfSame
<1>5. SumFunctionOnSet(new, Posted(u) \cup {c}) = new[c] + SumFunctionOnSet(new, Posted(u))
  <2>1. \A d \in Posted(u) \cup {c} : new[d] \in Int
    BY <1>1
  <2> QED
    BY <2>1, SumAdds
<1>6. SumFunctionOnSet(old, Posted(u)) \in Int
  BY <1>1, SumType
<1>7. IsFiniteSet(Posted(u) \cup {c})
  BY FS_AddElement
<1> QED
  BY <1>1, <1>2, <1>3, <1>4, <1>5, <1>6, <1>7

LEMMA StepKeepsLedger ==
    ASSUME IInv, IInv', Ledger, [Account!Next]_(Account!vars)
    PROVE  Ledger'
<1>1. CASE UNCHANGED Account!vars
  BY <1>1 DEF Account!vars, Ledger, BalancesAreLogged, Posted, Delta
<1>2. ASSUME NEW c \in Calls, Account!Post(c)
      PROVE  Ledger'
  <2> DEFINE e == book'[c]
  <2>1. /\ book[c] = NoEntry /\ e \in Entry /\ e # NoEntry /\ e.user \in Users /\ e.delta \in Int
        /\ points' = [points EXCEPT ![e.user] = @ + e.delta]
        /\ \A d \in Calls \ {c} : book'[d] = book[d]
    BY <1>2, RewardsAssumption DEF Account!Post, IInv, TypeOK, Entry
  <2> SUFFICES ASSUME NEW u \in Users
               PROVE  /\ IsFiniteSet(Posted(u)')
                      /\ points'[u] = InitialPoints[u] + SumFunction(Delta(u))'
    BY DEF Ledger, BalancesAreLogged
  <2>2. CASE u = e.user
    <3>1. Posted(u)' = Posted(u) \cup {c} /\ c \notin Posted(u)
      BY <2>1, <2>2 DEF Posted
    <3>2. /\ IsFiniteSet(Posted(u)')
          /\ SumFunction(Delta(u))' = SumFunction(Delta(u)) + e.delta
      BY <2>1, <3>1, EntryAdds DEF Ledger, Posted
    <3>3. points'[u] = points[u] + e.delta /\ points[u] \in Nat
      BY <2>1, <2>2 DEF IInv, TypeOK
    <3>4. SumFunction(Delta(u)) \in Int
      <4>1. \A d \in Posted(u) : Delta(u)[d] \in Int
        BY DEF IInv, TypeOK, Posted, Delta, Entry
      <4>2. SumFunctionOnSet(Delta(u), Posted(u)) \in Int
        BY <4>1, SumType DEF Ledger
      <4> QED
        BY <4>2 DEF SumFunction, Delta
    <3> QED
      BY <2>1, <3>2, <3>3, <3>4, RewardsAssumption DEF Ledger, BalancesAreLogged
  <2>3. CASE u # e.user
    <3>1. Posted(u)' = Posted(u)
      BY <2>1, <2>3 DEF Posted
    <3>2. Delta(u)' = Delta(u)
      BY <2>1, <2>3, <3>1 DEF Delta, Posted
    <3>3. points'[u] = points[u]
      BY <2>1, <2>3 DEF IInv, TypeOK
    <3>4. SumFunction(Delta(u))' = SumFunction(Delta(u))
      BY <3>2, Zenon DEF SumFunction
    <3> QED
      BY <3>1, <3>3, <3>4 DEF Ledger, BalancesAreLogged
  <2> QED
    BY <2>2, <2>3
<1> QED
  BY <1>1, <1>2 DEF Account!Next

(* Every balance is the points its user began with and the sum of the log   *)
(* entries of all its calls, whatever calls interleave, fail or are         *)
(* repeated (points.service.ts:34-137).                                     *)
THEOREM BalancesStayLogged == Spec => []BalancesAreLogged
<1>1. Init => Ledger
  <2> SUFFICES ASSUME Init, NEW u \in Users
               PROVE  IsFiniteSet(Posted(u)) /\ points[u] = InitialPoints[u] + SumFunction(Delta(u))
    BY DEF Ledger, BalancesAreLogged
  <2>1. Posted(u) = {}
    BY DEF Init, Posted
  <2>2. IsFiniteSet(Posted(u)) /\ SumFunctionOnSet(Delta(u), Posted(u)) = 0
    BY <2>1, SumOfZeros, FS_EmptySet
  <2>3. SumFunction(Delta(u)) = 0
    BY <2>2 DEF SumFunction, Delta
  <2> QED
    BY <2>2, <2>3, RewardsAssumption DEF Init
<1>2. Ledger => BalancesAreLogged
  BY DEF Ledger
<1>3. IInv /\ IInv' /\ Ledger /\ [Next]_vars => Ledger'
  BY StepIsPost, StepKeepsLedger
<1> QED
  BY <1>1, <1>2, <1>3, Invariance, PTL DEF Spec
================================================================================
