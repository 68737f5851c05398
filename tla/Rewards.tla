-------------------------------- MODULE Rewards --------------------------------
(***************************************************************************)
(* The points and the grade of a buyer after checkout: spending points for *)
(* an order, earning points for a paid one, and canceling one             *)
(* (src/points/points.service.ts, OrdersService.cancelOrder), as           *)
(* concurrent calls against one database at READ COMMITTED.                *)
(*                                                                         *)
(* A step is one await.  What a call's open transaction wrote is in `draft'*)
(* until it commits, and it locks the user's row meanwhile.  `before' is a *)
(* history variable: what was committed when a call's point transaction    *)
(* looked for its own log entry.                                           *)
(***************************************************************************)
EXTENDS Grades, Functions

CONSTANTS
    Calls,          \* calls of the three operations
    Users, Orders,
    OwnerOf,        \* order -> user
    Price,          \* order -> totalPrice
    UsePoint,       \* order -> usePoint
    InitialPoints,  \* user -> points
    NoJob, NoEntry

Kind == {"spend", "earn", "cancel"}
Job == [kind : Kind, order : Orders]
Reason == [spend |-> "SPEND_ORDER", earn |-> "EARN_PURCHASE", cancel |-> "REVERT_CANCEL"]
Entry == [user : Users, order : Orders, reason : {Reason[k] : k \in Kind}, delta : Int]

ASSUME RewardsAssumption ==
    /\ OwnerOf \in [Orders -> Users]
    /\ Price \in [Orders -> Nat]
    /\ UsePoint \in [Orders -> Int]
    /\ InitialPoints \in [Users -> Nat]
    /\ Calls \cap Users = {} /\ NoJob \notin Job
    /\ NoEntry \notin Entry

VARIABLES
    pc, job,    \* where each call is, and what it was asked
    draft,      \* log entry its open transaction is about, NoEntry if none
    level,      \* grade it has computed
    before,     \* history: the calls whose entries its log lookup could see
    current,    \* history: calls and users whose grade no order has changed since
    status, payment, points, grade,
    book        \* committed log entry of each call

local == <<job, draft, level, before>>
orderRows == <<status, payment>>
userRows == <<points, grade, book>>
vars == <<pc, local, orderRows, userRows, current>>

Final == {"done", "refused", "failed"}
InTx == {"checking", "sizing", "writing", "committing", "grading", "syncing"}
PC == {"idle", "canceling"} \cup InTx \cup Final

OrderOf(c) == job[c].order
UserOf(c) == OwnerOf[OrderOf(c)]

(* The row of a user is locked from the change of its points to the commit. *)
Locks(c, u) == pc[c] \in {"committing", "grading", "syncing"} /\ draft[c] # NoEntry /\ UserOf(c) = u
FreeFor(c) == \A d \in Calls \ {c} : ~ Locks(d, UserOf(c))

(* The committed entries of an order for a reason.                          *)
Logged(o, reason) ==
    {d \in Calls : book[d] # NoEntry /\ book[d].order = o /\ book[d].reason = reason}

(* sumLifetime over paid orders, and the grade of it.                       *)
Counted(u, excluded) ==
    {o \in Orders \ excluded : OwnerOf[o] = u /\ status[o] = "COMPLETEDPAYMENT"}
Lifetime(u, excluded) == SumFunctionOnSet(Price, Counted(u, excluded))
CurrentGrade(u, excluded) == resolveGradeByAmount(Lifetime(u, excluded))

Init ==
    /\ pc = [c \in Calls |-> "idle"]
    /\ job = [c \in Calls |-> NoJob]
    /\ draft = [c \in Calls |-> NoEntry]
    /\ level = [c \in Calls |-> "GREEN"]
    /\ before = [c \in Calls |-> {}]
    /\ current = {}
    /\ status = [o \in Orders |-> "PROCESSING"]
    /\ payment = [o \in Orders |-> "PENDING"]
    /\ points = InitialPoints
    /\ grade = [u \in Users |-> "GREEN"]
    /\ book = [c \in Calls |-> NoEntry]

Goto(c, label) == pc' = [pc EXCEPT ![c] = label]

--------------------------------------------------------------------------------
(* createOrder spends the order's points once, if there are any to spend.   *)
BeginSpend(c) ==
    /\ pc[c] = "idle"
    /\ \E o \in Orders :
        /\ \A d \in Calls : job[d] # [kind |-> "spend", order |-> o]
        /\ job' = [job EXCEPT ![c] = [kind |-> "spend", order |-> o]]
        /\ Goto(c, IF UsePoint[o] > 0 THEN "checking" ELSE "done")
    /\ UNCHANGED <<draft, level, before, orderRows, userRows, current>>

(* An id that names no order.                                               *)
NotFound(c) == Goto(c, "refused") /\ UNCHANGED job

(* Only a paid order earns.                                                 *)
BeginEarn(c) ==
    /\ pc[c] = "idle"
    /\ \/ NotFound(c)
       \/ \E o \in Orders :
            /\ job' = [job EXCEPT ![c] = [kind |-> "earn", order |-> o]]
            /\ Goto(c, IF status[o] = "COMPLETEDPAYMENT" THEN "checking" ELSE "done")
    /\ UNCHANGED <<draft, level, before, orderRows, userRows, current>>

(* cancelOrder reads the order outside any transaction, refuses a caller    *)
(* who does not own it, ...                                                 *)
BeginCancel(c) ==
    /\ pc[c] = "idle"
    /\ \/ NotFound(c)
       \/ \E o \in Orders, caller \in Users :
            /\ job' = [job EXCEPT ![c] = [kind |-> "cancel", order |-> o]]
            /\ Goto(c, IF caller = OwnerOf[o] /\ status[o] = "PROCESSING"
                       THEN "canceling" ELSE "refused")
    /\ UNCHANGED <<draft, level, before, orderRows, userRows, current>>

(* An order's status counts for its buyer's grade.                          *)
Outdate(o) ==
    current' = current \ ({OwnerOf[o]} \cup {d \in Calls : pc[d] = "syncing" /\ UserOf(d) = OwnerOf[o]})

(* ... writes both rows by id in a transaction, and then takes the earned   *)
(* points back in another.                                                  *)
CommitCancel(c) ==
    /\ pc[c] = "canceling"
    /\ status' = [status EXCEPT ![OrderOf(c)] = "CANCELED"]
    /\ payment' = [payment EXCEPT ![OrderOf(c)] = "REFUNDED"]
    /\ Goto(c, "checking")
    /\ Outdate(OrderOf(c))
    /\ UNCHANGED <<local, userRows>>

--------------------------------------------------------------------------------
\* Mutant: the log is not looked at.
CheckLogNever(c) ==
    /\ pc[c] = "checking"
    /\ before' = [before EXCEPT ![c] = {d \in Calls : book[d] # NoEntry}]
    /\ Goto(c, "sizing")
    /\ UNCHANGED <<job, draft, level, orderRows, userRows, current>>

(* hasPointLog: what was already logged is not done again.  A cancel still  *)
(* brings the grade up to date.                                             *)
CheckLog(c) ==
    /\ pc[c] = "checking"
    /\ before' = [before EXCEPT ![c] = {d \in Calls : book[d] # NoEntry}]
    /\ Goto(c, IF Logged(OrderOf(c), Reason[job[c].kind]) = {} THEN "sizing"
               ELSE IF job[c].kind = "cancel" THEN "grading" ELSE "done")
    /\ UNCHANGED <<job, draft, level, orderRows, userRows, current>>

\* Mutant: a cancel takes back the share at the cached grade.
AmountsAtCachedGrade(c) ==
    LET o == OrderOf(c)
    IN CASE job[c].kind = "spend" -> {- UsePoint[o]}
         [] job[c].kind = "earn" -> {Earned(Price[o], CurrentGrade(UserOf(c), {o}))}
         [] job[c].kind = "cancel" -> IF Logged(o, "EARN_PURCHASE") = {} THEN {0}
                                      ELSE {- Earned(Price[o], grade[UserOf(c)])}

(* The amount: what the order uses, the share of the price at the grade     *)
(* without this order, or what some EARN_PURCHASE entry of it gave.         *)
Amounts(c) ==
    LET o == OrderOf(c)
        earnings == Logged(o, "EARN_PURCHASE")
    IN CASE job[c].kind = "spend" -> {- UsePoint[o]}
         [] job[c].kind = "earn" -> {Earned(Price[o], CurrentGrade(UserOf(c), {o}))}
         [] job[c].kind = "cancel" -> IF earnings = {} THEN {0} ELSE {- book[d].delta : d \in earnings}

SizeEntry(c) ==
    /\ pc[c] = "sizing"
    /\ \E delta \in Amounts(c) :
        IF delta = 0
        THEN /\ Goto(c, "grading")
             /\ UNCHANGED draft
        ELSE /\ Goto(c, "writing")
             /\ draft' = [draft EXCEPT ![c] =
                    [user |-> UserOf(c), order |-> OrderOf(c),
                     reason |-> Reason[job[c].kind], delta |-> delta]]
    /\ UNCHANGED <<job, level, before, orderRows, userRows, current>>

\* Mutant: decUserPointsIfEnough without its `points >= amount'.
WriteUnchecked(c) ==
    /\ pc[c] = "writing"
    /\ FreeFor(c)
    /\ Goto(c, IF job[c].kind = "spend" THEN "committing" ELSE "grading")
    /\ UNCHANGED <<local, orderRows, userRows, current>>

\* Mutant: the points are changed outside the transaction.
WriteOutsideTx(c) ==
    /\ pc[c] = "writing"
    /\ FreeFor(c)
    /\ points[UserOf(c)] + draft[c].delta >= 0
    /\ points' = [points EXCEPT ![UserOf(c)] = @ + draft[c].delta]
    /\ Goto(c, IF job[c].kind = "spend" THEN "committing" ELSE "grading")
    /\ UNCHANGED <<local, orderRows, grade, book, current>>

(* incUserPoints, or decUserPointsIfEnough with enough points, then the log *)
(* entry: visible to others only with the commit.                           *)
WriteEntry(c) ==
    /\ pc[c] = "writing"
    /\ FreeFor(c)
    /\ points[UserOf(c)] + draft[c].delta >= 0
    /\ Goto(c, IF job[c].kind = "spend" THEN "committing" ELSE "grading")
    /\ UNCHANGED <<local, orderRows, userRows, current>>

\* Mutant: the count of updated rows is not looked at.
RefuseQuietly(c) ==
    /\ pc[c] = "writing"
    /\ points[UserOf(c)] + draft[c].delta < 0
    /\ draft' = [draft EXCEPT ![c] = NoEntry]
    /\ Goto(c, IF job[c].kind = "spend" THEN "done" ELSE "grading")
    /\ UNCHANGED <<job, level, before, orderRows, userRows, current>>

\* Mutant: the transaction is tried again until the points suffice.
RefuseAndRetry(c) ==
    /\ pc[c] = "writing"
    /\ points[UserOf(c)] + draft[c].delta < 0
    /\ draft' = [draft EXCEPT ![c] = NoEntry]
    /\ Goto(c, "checking")
    /\ UNCHANGED <<job, level, before, orderRows, userRows, current>>

(* decUserPointsIfEnough without: the transaction rolls back.  Of a cancel  *)
(* the first transaction stays.                                             *)
RefuseEntry(c) ==
    /\ pc[c] = "writing"
    /\ points[UserOf(c)] + draft[c].delta < 0
    /\ draft' = [draft EXCEPT ![c] = NoEntry]
    /\ Goto(c, "refused")
    /\ UNCHANGED <<job, level, before, orderRows, userRows, current>>

\* Mutant: the second grade, too, is without the order at hand.
ReadGradeWithout(c) ==
    /\ pc[c] = "grading"
    /\ level' = [level EXCEPT ![c] = CurrentGrade(UserOf(c), {OrderOf(c)})]
    /\ current' = current \cup {c}
    /\ Goto(c, "syncing")
    /\ UNCHANGED <<job, draft, before, orderRows, userRows>>

ReadGrade(c) ==
    /\ pc[c] = "grading"
    /\ level' = [level EXCEPT ![c] = CurrentGrade(UserOf(c), {})]
    /\ current' = current \cup {c}
    /\ Goto(c, "syncing")
    /\ UNCHANGED <<job, draft, before, orderRows, userRows>>

(* The commit makes points and entry visible together.                      *)
PostDraft(c) ==
    IF draft[c] = NoEntry THEN UNCHANGED <<points, book>>
    ELSE /\ points' = [points EXCEPT ![UserOf(c)] = @ + draft[c].delta]
         /\ book' = [book EXCEPT ![c] = draft[c]]

CommitSpend(c) ==
    /\ pc[c] = "committing"
    /\ PostDraft(c)
    /\ Goto(c, "done")
    /\ UNCHANGED <<local, orderRows, grade, current>>

(* syncUserGrade writes the user's row, the last statement of earning and   *)
(* reverting; what was computed is forgotten.                               *)
SyncGrade(c) ==
    /\ pc[c] = "syncing"
    /\ FreeFor(c)
    /\ grade' = [grade EXCEPT ![UserOf(c)] = level[c]]
    /\ current' = IF c \in current THEN (current \ {c}) \cup {UserOf(c)} ELSE current \ {UserOf(c)}
    /\ level' = [level EXCEPT ![c] = "GREEN"]
    /\ PostDraft(c)
    /\ Goto(c, "done")
    /\ UNCHANGED <<job, draft, before, orderRows>>

--------------------------------------------------------------------------------
(* A statement fails, the transaction times out or the server stops: what   *)
(* the call knew is gone.                                                   *)
Fail(c) ==
    /\ pc[c] \in {"canceling"} \cup InTx
    /\ draft' = [draft EXCEPT ![c] = NoEntry]
    /\ level' = [level EXCEPT ![c] = "GREEN"]
    /\ before' = [before EXCEPT ![c] = {}]
    /\ current' = current \ {c}
    /\ Goto(c, "failed")
    /\ UNCHANGED <<job, orderRows, userRows>>

(* Payment and shipping are recorded by code outside the repository.        *)
Pay(o) ==
    /\ status[o] = "PROCESSING"
    /\ status' = [status EXCEPT ![o] = "COMPLETEDPAYMENT"]
    /\ payment' = [payment EXCEPT ![o] = "COMPLETED"]
    /\ Outdate(o)
    /\ UNCHANGED <<pc, local, userRows>>

Ship(o) ==
    /\ status[o] = "COMPLETEDPAYMENT"
    /\ status' = [status EXCEPT ![o] = "SHIPPED"]
    /\ Outdate(o)
    /\ UNCHANGED <<pc, local, payment, userRows>>

--------------------------------------------------------------------------------
Proceed(c) ==
    \/ CommitCancel(c)
    \/ CheckLog(c)
    \/ SizeEntry(c)
    \/ WriteEntry(c)
    \/ RefuseEntry(c)
    \/ ReadGrade(c)
    \/ CommitSpend(c)
    \/ SyncGrade(c)

(* Nobody calls any more.                                                   *)
Rest == (\A c \in Calls : pc[c] \in {"idle"} \cup Final) /\ UNCHANGED vars

Next ==
    \/ \E c \in Calls : BeginSpend(c) \/ BeginEarn(c) \/ BeginCancel(c) \/ Proceed(c) \/ Fail(c)
    \/ \E o \in Orders : Pay(o) \/ Ship(o)
    \/ Rest

(* A call that has begun is carried on; nothing forces one to begin.        *)
Spec == Init /\ [][Next]_vars /\ \A c \in Calls : WF_vars(Proceed(c))

--------------------------------------------------------------------------------
TypeOK ==
    /\ pc \in [Calls -> PC]
    /\ job \in [Calls -> Job \cup {NoJob}]
    /\ draft \in [Calls -> Entry \cup {NoEntry}]
    /\ level \in [Calls -> GradeLevel]
    /\ before \in [Calls -> SUBSET Calls]
    /\ status \in [Orders -> {"PROCESSING", "COMPLETEDPAYMENT", "SHIPPED", "CANCELED"}]
    /\ payment \in [Orders -> {"PENDING", "COMPLETED", "REFUNDED"}]
    /\ points \in [Users -> Nat]
    /\ grade \in [Users -> GradeLevel]
    /\ current \subseteq Calls \cup Users
    /\ book \in [Calls -> Entry \cup {NoEntry}]

(* Points and log move together, one entry per call, never below zero       *)
(* (module Wallet), whatever calls interleave, fail or wait for a row.      *)
Account == INSTANCE Wallet WITH Posters <- Calls
PostsAtomically == Account!Spec

(* A call repeated after the first one has committed changes nothing: no    *)
(* entry is posted for an order and reason that were already there when the *)
(* call looked (points.repository.ts:48-61).                                *)
RetryAppliesOnce ==
    \A c \in Calls :
        book[c] # NoEntry =>
            \A d \in before[c] : d # c =>
                <<book[d].order, book[d].reason>> # <<book[c].order, book[c].reason>>

(* A cancel that reported success left the order canceled, the payment      *)
(* refunded, and took back what the order had earned before it looked       *)
(* (orders.service.ts:363-377).                                             *)
CancelIsComplete ==
    \A c \in Calls :
        pc[c] = "done" /\ job[c].kind = "cancel" =>
            /\ status[OrderOf(c)] = "CANCELED"
            /\ payment[OrderOf(c)] = "REFUNDED"
            /\ Logged(OrderOf(c), "EARN_PURCHASE") \cap before[c] # {} =>
                  Logged(OrderOf(c), "REVERT_CANCEL") # {}

(* Only what was earned is taken back: every reverted amount is the amount  *)
(* of an earning of the same order (points.service.ts:110-130).             *)
RevertsEarnings ==
    \A c \in Calls :
        book[c] # NoEntry /\ book[c].reason = "REVERT_CANCEL" =>
            \E d \in Logged(book[c].order, "EARN_PURCHASE") : book[d].delta = - book[c].delta

(* The grade on show is that of the orders as they are, from the last call  *)
(* that wrote it until an order's status changes, unless one changed while  *)
(* that call had computed the grade and not written it                      *)
(* (points.service.ts:133-134).                                             *)
GradeIsCurrent ==
    \A u \in Users \cap current : grade[u] = CurrentGrade(u, {})

(* Every call ends, whoever holds the user's row.                           *)
Ends == \A c \in Calls : pc[c] \in {"canceling", "checking"} ~> pc[c] \in Final

--------------------------------------------------------------------------------
(* orders.service.ts:359, "an order can be canceled only in the PROCESSING  *)
(* state".                                                                  *)
CanceledFromProcessing ==
    [][\A o \in Orders :
          status'[o] = "CANCELED" /\ status[o] # "CANCELED" => status[o] = "PROCESSING"]_vars
================================================================================
