---------------------------------- MODULE Cart ----------------------------------
(***************************************************************************)
(* The cart (src/cart/cart.service.ts, cart.repository.ts) under concurrent*)
(* requests: creating it, putting quantities of one product's sizes into   *)
(* it, deleting a line.  A step is one await.                              *)
(*                                                                         *)
(* An open transaction keeps a connection of the pool; the lookups of      *)
(* putting go through `this.prisma' and need another one meanwhile.  What  *)
(* a transaction wrote is in `writes' until it commits, and locks the line.*)
(***************************************************************************)
EXTENDS Integers, Sequences, FiniteSets, Functions

CONSTANTS
    Calls,      \* requests to /api/cart
    Buyers,
    Items,      \* product and size of a line
    Wishes,     \* the dto.sizes a client may send, for one product
    Earlier,    \* items a cart may have lines of from earlier requests
    PoolSize,   \* connections of the Prisma client
    NoLine, Kept, NoJob, Old

Ids == Calls \cup {Old}         \* the request that made the line
Line == [id : Ids, quantity : Int]
Entry == [item : Items, quantity : Int]
Create == [kind : {"create"}, buyer : Buyers]
Put == [kind : {"put"}, buyer : Buyers, wish : Wishes]
Drop == [kind : {"drop"}, buyer : Buyers, item : Items, id : Ids]
Job == Create \cup Put \cup Drop

ASSUME CartAssumption ==
    /\ Wishes \subseteq Seq(Entry)
    /\ Earlier \subseteq Items /\ IsFiniteSet(Earlier)
    /\ PoolSize \in Nat \ {0}
    /\ Old \notin Calls
    /\ NoLine \notin Line \cup Int
    /\ Kept \notin Line \cup {NoLine}
    /\ NoJob \notin Job

VARIABLES
    pc, job,
    next,       \* index of the entry of the wish to be put next
    writes,     \* item -> what the call's transaction wrote to its line, or Kept
    sum,        \* total the call has computed
    cart,       \* buyer -> whether a cart exists
    lines,      \* buyer -> item -> committed line
    total,      \* buyer -> Cart.quantity
    outrun,     \* history: call -> whether another one committed since it summed
    stale       \* history: buyer -> whether the last call to commit was outrun

local == <<job, next, writes, sum>>
rows == <<cart, lines, total>>
history == <<outrun, stale>>
vars == <<pc, local, rows, history>>

InTx == {"product", "size", "putting", "dropping", "summing", "totaling"}
Final == {"done", "rejected", "failed"}
PC == {"idle", "creating", "opening"} \cup InTx \cup Final

Buyer(c) == job[c].buyer
Untouched == [i \in Items |-> Kept]

(* Who has a connection, and who has written a line of the call's cart.     *)
Open == {c \in Calls : pc[c] \in InTx}
Connection == Cardinality(Open) < PoolSize
FreeFor(c, i) == \A d \in Open \ {c} : Buyer(d) = Buyer(c) => writes[d][i] = Kept

(* The lines of its cart as a transaction sees them, and their sum.         *)
Seen(c) == [i \in Items |-> IF writes[c][i] = Kept THEN lines[Buyer(c)][i] ELSE writes[c][i]]
Sum(l) == SumFunction([i \in {x \in Items : l[x] # NoLine} |-> l[i].quantity])

Init ==
    /\ pc = [c \in Calls |-> "idle"]
    /\ job = [c \in Calls |-> NoJob]
    /\ next = [c \in Calls |-> 1]
    /\ writes = [c \in Calls |-> Untouched]
    /\ sum = [c \in Calls |-> 0]
    /\ cart \in [Buyers -> BOOLEAN]
    /\ \E filled \in [Buyers -> SUBSET Earlier] :
        /\ \A b \in Buyers : filled[b] # {} => cart[b]
        /\ lines = [b \in Buyers |-> [i \in Items |->
                        IF i \in filled[b] THEN [id |-> Old, quantity |-> 1] ELSE NoLine]]
    /\ total = [b \in Buyers |-> Sum(lines[b])]
    /\ outrun = [c \in Calls |-> FALSE]
    /\ stale = [b \in Buyers |-> FALSE]

Goto(c, label) == pc' = [pc EXCEPT ![c] = label]

Begin(c, j, label) ==
    /\ pc[c] = "idle"
    /\ job' = [job EXCEPT ![c] = j]
    /\ Goto(c, label)
    /\ UNCHANGED <<next, writes, sum, rows, history>>

--------------------------------------------------------------------------------
(* createOrGetCart: find, then create; the key on the buyer fails a second  *)
(* creation.                                                                *)
BeginCreate(c) ==
    \E b \in Buyers :
        Begin(c, [kind |-> "create", buyer |-> b], IF cart[b] THEN "done" ELSE "creating")

CreateCart(c) ==
    /\ pc[c] = "creating"
    /\ Connection
    /\ Goto(c, IF cart[Buyer(c)] THEN "failed" ELSE "done")
    /\ cart' = [cart EXCEPT ![Buyer(c)] = TRUE]
    /\ UNCHANGED <<local, lines, total, history>>

(* The cart, or the line to be deleted, is read before the transaction.     *)
BeginPut(c) ==
    \E b \in Buyers, w \in Wishes :
        Begin(c, [kind |-> "put", buyer |-> b, wish |-> w],
              IF cart[b] THEN "opening" ELSE "rejected")

BeginDrop(c) ==
    \E b \in Buyers, i \in Items, id \in Ids :
        Begin(c, [kind |-> "drop", buyer |-> b, item |-> i, id |-> id],
              IF lines[b][i] # NoLine /\ lines[b][i].id = id THEN "opening" ELSE "rejected")

OpenTx(c) ==
    /\ pc[c] = "opening"
    /\ Connection
    /\ Goto(c, IF job[c].kind = "put" THEN "product" ELSE "dropping")
    /\ UNCHANGED <<local, rows, history>>

--------------------------------------------------------------------------------
Rollback(c, label) ==
    /\ writes' = [writes EXCEPT ![c] = Untouched]
    /\ Goto(c, label)
    /\ UNCHANGED <<job, next, sum, rows, history>>

Advance(c, n) == Goto(c, IF n > Len(job[c].wish) THEN "summing" ELSE "size")

(* The product, and before each entry its size, is looked up on another     *)
(* connection; an unknown one rolls back.                                   *)
FindProduct(c) ==
    /\ pc[c] = "product"
    /\ Connection
    /\ \/ Advance(c, next[c]) /\ UNCHANGED <<local, rows, history>>
       \/ Rollback(c, "rejected")

FindSize(c) ==
    /\ pc[c] = "size"
    /\ Connection
    /\ \/ Goto(c, "putting") /\ UNCHANGED <<local, rows, history>>
       \/ Rollback(c, "rejected")

(* Mutant of UpsertItem: it is not part of the transaction.                 *)
UpsertOutsideTx(c) ==
    LET e == job[c].wish[next[c]] IN
    /\ pc[c] = "putting"
    /\ lines' = [lines EXCEPT ![Buyer(c)][e.item] = [id |-> c, quantity |-> e.quantity]]
    /\ next' = [next EXCEPT ![c] = @ + 1]
    /\ Advance(c, next[c] + 1)
    /\ UNCHANGED <<job, writes, sum, cart, total, history>>

(* INSERT ... ON CONFLICT DO UPDATE, once no other transaction has written  *)
(* the line.                                                                *)
UpsertItem(c) ==
    LET e == job[c].wish[next[c]]
        old == Seen(c)[e.item]
        id == IF old = NoLine THEN c ELSE old.id
    IN
    /\ pc[c] = "putting"
    /\ FreeFor(c, e.item)
    /\ writes' = [writes EXCEPT ![c][e.item] = [id |-> id, quantity |-> e.quantity]]
    /\ next' = [next EXCEPT ![c] = @ + 1]
    /\ Advance(c, next[c] + 1)
    /\ UNCHANGED <<job, sum, rows, history>>

(* Mutant of DropItem: it deletes by the unique key, whichever line has it. *)
DropByKey(c) ==
    LET i == job[c].item IN
    /\ pc[c] = "dropping"
    /\ FreeFor(c, i)
    /\ IF lines[Buyer(c)][i] # NoLine
       THEN /\ writes' = [writes EXCEPT ![c][i] = NoLine]
            /\ Goto(c, "summing")
            /\ UNCHANGED <<job, next, sum, rows, history>>
       ELSE Rollback(c, "failed")

(* DELETE by id: fails if the line is gone, even if there is a new one.     *)
DropItem(c) ==
    LET i == job[c].item
        line == lines[Buyer(c)][i]
    IN
    /\ pc[c] = "dropping"
    /\ FreeFor(c, i)
    /\ IF line # NoLine /\ line.id = job[c].id
       THEN /\ writes' = [writes EXCEPT ![c][i] = NoLine]
            /\ Goto(c, "summing")
            /\ UNCHANGED <<job, next, sum, rows, history>>
       ELSE Rollback(c, "failed")

(* Mutant of SumItems: it reads outside the transaction.                    *)
SumCommitted(c) ==
    /\ pc[c] = "summing"
    /\ sum' = [sum EXCEPT ![c] = Sum(lines[Buyer(c)])]
    /\ Goto(c, "totaling")
    /\ outrun' = [outrun EXCEPT ![c] = FALSE]
    /\ UNCHANGED <<job, next, writes, rows, stale>>

SumItems(c) ==
    /\ pc[c] = "summing"
    /\ sum' = [sum EXCEPT ![c] = Sum(Seen(c))]
    /\ Goto(c, "totaling")
    /\ outrun' = [outrun EXCEPT ![c] = FALSE]
    /\ UNCHANGED <<job, next, writes, rows, stale>>

(* Mutant of CommitTotal: the cart is replaced by what was written.         *)
CommitWrites(c) ==
    /\ pc[c] = "totaling"
    /\ lines' = [lines EXCEPT ![Buyer(c)] = writes[c]]
    /\ total' = [total EXCEPT ![Buyer(c)] = sum[c]]
    /\ outrun' = [d \in Calls |-> outrun[d] \/ (d # c /\ pc[d] = "totaling" /\ Buyer(d) = Buyer(c))]
    /\ stale' = [stale EXCEPT ![Buyer(c)] = outrun[c]]
    /\ Goto(c, "done")
    /\ UNCHANGED <<local, cart>>

(* The total is written, last of the transaction's writes, and the          *)
(* transaction commits.                                                     *)
CommitTotal(c) ==
    /\ pc[c] = "totaling"
    /\ lines' = [lines EXCEPT ![Buyer(c)] = Seen(c)]
    /\ total' = [total EXCEPT ![Buyer(c)] = sum[c]]
    /\ outrun' = [d \in Calls |-> outrun[d] \/ (d # c /\ pc[d] = "totaling" /\ Buyer(d) = Buyer(c))]
    /\ stale' = [stale EXCEPT ![Buyer(c)] = outrun[c]]
    /\ Goto(c, "done")
    /\ UNCHANGED <<local, cart>>

--------------------------------------------------------------------------------
(* Mutant of Abort: transactions have no time limit and fail only before    *)
(* they start.                                                              *)
AbortUnopened(c) ==
    /\ pc[c] = "opening"
    /\ Rollback(c, "failed")

(* A failed statement, a deadlock the database ends, a crash, or Prisma's   *)
(* time limits, of which one passes for every transaction that does not end.*)
Abort(c) ==
    /\ pc[c] \in {"opening"} \cup InTx
    /\ Rollback(c, "failed")

Proceed(c) ==
    \/ CreateCart(c)
    \/ OpenTx(c)
    \/ FindProduct(c)
    \/ FindSize(c)
    \/ UpsertItem(c)
    \/ DropItem(c)
    \/ SumItems(c)
    \/ CommitTotal(c)

Rest == (\A c \in Calls : pc[c] \in {"idle"} \cup Final) /\ UNCHANGED vars

Next ==
    \/ \E c \in Calls : BeginCreate(c) \/ BeginPut(c) \/ BeginDrop(c) \/ Proceed(c) \/ Abort(c)
    \/ Rest

(* The server carries a request on where it can, and Prisma's time limit    *)
(* ends a transaction that cannot go on.                                    *)
Spec == Init /\ [][Next]_vars /\ \A c \in Calls : WF_vars(Proceed(c)) /\ WF_vars(Abort(c))

--------------------------------------------------------------------------------
(* The types of the rows and of what a call has read and written, and of    *)
(* the sums.                                                                *)
RowsTyped ==
    /\ pc \in [Calls -> PC]
    /\ job \in [Calls -> Job \cup {NoJob}]
    /\ next \in [Calls -> Nat \ {0}]
    /\ writes \in [Calls -> [Items -> Line \cup {NoLine, Kept}]]
    /\ cart \in [Buyers -> BOOLEAN]
    /\ lines \in [Buyers -> [Items -> Line \cup {NoLine}]]
    /\ outrun \in [Calls -> BOOLEAN]
    /\ stale \in [Buyers -> BOOLEAN]

TypeOK == RowsTyped /\ sum \in [Calls -> Int] /\ total \in [Buyers -> Int]

(* An edit is seen whole or not at all, and touches no other line, whatever *)
(* other edits, deletions, unknown sizes and failures come in between       *)
(* (module CartBook).                                                       *)
Book == INSTANCE CartBook WITH
    quantity <- [b \in Buyers |-> [i \in Items |->
                    IF lines[b][i] = NoLine THEN NoLine ELSE lines[b][i].quantity]]
EditsAtomically == Book!Spec

(* The stored total is the sum of the lines, unless another transaction     *)
(* committed between the sum and the commit of the last one: failed edits   *)
(* leave it right, and the next edit alone corrects it (cart.service.ts:    *)
(* 82-96).                                                                  *)
TotalExactUnlessOutrun == \A b \in Buyers : ~ stale[b] => total[b] = Sum(lines[b])

(* A line keeps its id, by which clients delete it, until a deletion that    *)
(* was asked for that very line succeeds.  The line may be deleted and put   *)
(* again between a deletion's lookup and its DELETE (cart.service.ts:121,    *)
(* 132), and put while another request deletes it.                           *)
LinesKeepIdentity ==
    [][\A b \in Buyers, i \in Items :
        LET old == lines[b][i]
            new == lines'[b][i]
        IN
        old # NoLine =>
            \/ new # NoLine /\ new.id = old.id
            \/ /\ new = NoLine
               /\ \E c \in Calls :
                    /\ job[c] = [kind |-> "drop", buyer |-> b, item |-> i, id |-> old.id]
                    /\ pc[c] # "done" /\ pc'[c] = "done"]_vars

(* Every request ends although requests may wait for lines and connections  *)
(* of each other.                                                           *)
Ends == \A c \in Calls : pc[c] \in {"creating", "opening"} ~> pc[c] \in Final
================================================================================
