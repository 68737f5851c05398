------------------------------- MODULE CartProofs -------------------------------
(***************************************************************************)
(* Theorems about Cart for any set of calls, buyers, items and wishes: its *)
(* invariants, and that it implements CartBook.                            *)
(***************************************************************************)
EXTENDS Cart, Sums, TLAPS

USE DEF Goto

--------------------------------------------------------------------------------
(* What a call has written after n entries of its wish.                    *)
PutSoFar(c, n) ==
    \A i \in Items :
        \/ /\ \A j \in 1..n : job[c].wish[j].item # i
           /\ writes[c][i] = Kept
        \/ \E j \in 1..n :
            /\ job[c].wish[j].item = i
            /\ \A k \in (j + 1)..n : job[c].wish[k].item # i
            /\ writes[c][i] \in Line
            /\ writes[c][i].quantity = job[c].wish[j].quantity

(* The line a call has deleted is there until it commits, and is the one it *)
(* was asked to delete.                                                     *)
Dropped(c) ==
    /\ lines[Buyer(c)][job[c].item] # NoLine
    /\ lines[Buyer(c)][job[c].item].id = job[c].id
    /\ writes[c] = [Untouched EXCEPT ![job[c].item] = NoLine]

(* The inductive invariant says of every call what it is and has done.     *)
Kinds(c) ==
    /\ pc[c] = "opening" => job[c] \in Put \cup Drop
    /\ pc[c] \in {"product", "size", "putting"} => job[c] \in Put
    /\ pc[c] = "dropping" => job[c] \in Drop

Unwritten(c) ==
    pc[c] \in {"idle", "opening", "product", "dropping"} => next[c] = 1 /\ writes[c] = Untouched

Putting(c) ==
    pc[c] \in {"size", "putting"} => next[c] <= Len(job[c].wish) /\ PutSoFar(c, next[c] - 1)

Written(c) ==
    pc[c] \in {"summing", "totaling"} =>
        \/ job[c] \in Put /\ PutSoFar(c, Len(job[c].wish))
        \/ job[c] \in Drop /\ Dropped(c)

Summed(c) == pc[c] = "totaling" /\ ~ outrun[c] => sum[c] = Sum(Seen(c))

CallInv(c) == Kinds(c) /\ Unwritten(c) /\ Putting(c) /\ Written(c) /\ Summed(c)

(* No two open transactions have written the same line, and what one has    *)
(* put over a committed line has its id.                                    *)
LinesExclusive ==
    \A c, d \in Open : c # d /\ Buyer(c) = Buyer(d) =>
        \A i \in Items : writes[c][i] = Kept \/ writes[d][i] = Kept

IdsKept ==
    \A c \in Open : \A i \in Items :
        writes[c][i] \in Line /\ lines[Buyer(c)][i] # NoLine =>
            writes[c][i].id = lines[Buyer(c)][i].id

IInv ==
    /\ RowsTyped
    /\ sum = [c \in Calls |-> sum[c]]
    /\ total = [b \in Buyers |-> total[b]]
    /\ \A c \in Calls : CallInv(c)
    /\ LinesExclusive
    /\ IdsKept
    /\ TotalExactUnlessOutrun

--------------------------------------------------------------------------------
LEMMA JobTypes ==
    ASSUME RowsTyped, NEW c \in Calls, pc[c] \in {"opening"} \cup InTx, CallInv(c)
    PROVE  /\ job[c] \in Put \cup Drop
           /\ Buyer(c) \in Buyers
           /\ job[c] \in Put => /\ job[c].wish \in Wishes
                                /\ job[c].wish \in Seq(Entry)
                                /\ Len(job[c].wish) \in Nat
                                /\ \A j \in 1..Len(job[c].wish) : job[c].wish[j] \in Entry
           /\ job[c] \in Drop => job[c].item \in Items /\ job[c].id \in Ids
<1>1. job[c] \in Put \cup Drop
  BY DEF CallInv, Kinds, Written, InTx
<1>2. ASSUME job[c] \in Put
      PROVE  /\ job[c].wish \in Wishes
             /\ job[c].wish \in Seq(Entry)
             /\ Len(job[c].wish) \in Nat
             /\ \A j \in 1..Len(job[c].wish) : job[c].wish[j] \in Entry
  <2>1. job[c].wish \in Wishes
    BY <1>2 DEF Put
  <2>2. job[c].wish \in Seq(Entry)
    BY <2>1, CartAssumption
  <2> QED
    BY <2>1, <2>2
<1> QED
  BY <1>1, <1>2 DEF Put, Drop, Buyer

LEMMA SeenTypes ==
    ASSUME RowsTyped, NEW c \in Calls, Buyer(c) \in Buyers, NEW i \in Items
    PROVE  /\ Seen(c)[i] = IF writes[c][i] = Kept THEN lines[Buyer(c)][i] ELSE writes[c][i]
           /\ Seen(c)[i] \in Line \cup {NoLine}
BY DEF RowsTyped, Seen

(* What is true of a call stays true while others leave its variables and   *)
(* the committed lines alone.                                               *)
LEMMA Frame ==
    ASSUME NEW x \in Calls, CallInv(x),
           pc'[x] = pc[x], job'[x] = job[x], next'[x] = next[x], writes'[x] = writes[x],
           sum'[x] = sum[x], outrun'[x] = outrun[x], lines' = lines
    PROVE  CallInv(x)'
<1>1. Buyer(x)' = Buyer(x)
  BY DEF Buyer
<1>2. Seen(x)' = Seen(x)
  BY <1>1 DEF Seen
<1>3. Sum(Seen(x))' = Sum(Seen(x))
  BY <1>2
<1>4. Kinds(x)' /\ Unwritten(x)' /\ Summed(x)'
  BY <1>3 DEF CallInv, Kinds, Unwritten, Summed
<1>5. Putting(x)'
  BY DEF CallInv, Putting, PutSoFar
<1>6. Written(x)'
  BY <1>1 DEF CallInv, Written, PutSoFar, Dropped
<1> QED
  BY <1>4, <1>5, <1>6 DEF CallInv

LEMMA FrameOthers ==
    ASSUME IInv, NEW c \in Calls, lines' = lines,
           \A x \in Calls \ {c} :
               /\ pc'[x] = pc[x] /\ job'[x] = job[x] /\ next'[x] = next[x]
               /\ writes'[x] = writes[x] /\ sum'[x] = sum[x] /\ outrun'[x] = outrun[x],
           CallInv(c)'
    PROVE  \A x \in Calls : CallInv(x)'
BY Frame DEF IInv

(* A step that writes no line, by a call that was or is outside every       *)
(* transaction or stays in its own, keeps the lines exclusive and their ids.*)
LEMMA KeepExclusive ==
    ASSUME IInv, NEW c \in Calls, lines' = lines,
           \A x \in Calls \ {c} : pc'[x] = pc[x] /\ job'[x] = job[x] /\ writes'[x] = writes[x],
           \/ writes'[c] = Untouched
           \/ pc'[c] \notin InTx
           \/ pc[c] \in InTx /\ writes'[c] = writes[c] /\ job'[c] = job[c]
    PROVE  LinesExclusive' /\ IdsKept'
<1>1. ASSUME NEW x \in Calls, NEW y \in Calls, NEW i \in Items,
             x # y, pc'[x] \in InTx, pc'[y] \in InTx, job'[x].buyer = job'[y].buyer
      PROVE  writes'[x][i] = Kept \/ writes'[y][i] = Kept
  <2>1. CASE writes'[c] = Untouched /\ c \in {x, y}
    BY <1>1, <2>1 DEF Untouched
  <2>2. CASE ~ (writes'[c] = Untouched /\ c \in {x, y})
    BY <1>1, <2>2 DEF IInv, LinesExclusive, Open, Buyer
  <2> QED
    BY <2>1, <2>2
<1>2. ASSUME NEW x \in Calls, NEW i \in Items, pc'[x] \in InTx, writes'[x][i] \in Line,
             lines[job'[x].buyer][i] # NoLine
      PROVE  writes'[x][i].id = lines[job'[x].buyer][i].id
  <2>1. ~ (writes'[c] = Untouched /\ x = c)
    BY <1>2, CartAssumption DEF Untouched
  <2> QED
    BY <1>2, <2>1 DEF IInv, IdsKept, Open, Buyer
<1> QED
  BY <1>1, <1>2 DEF LinesExclusive, IdsKept, Open, Buyer

LEMMA InitInv ==
    ASSUME Init
    PROVE  IInv
<1>1. PICK filled \in [Buyers -> SUBSET Earlier] :
        lines = [b \in Buyers |-> [i \in Items |->
                    IF i \in filled[b] THEN [id |-> Old, quantity |-> 1] ELSE NoLine]]
  BY DEF Init
<1>2. lines \in [Buyers -> [Items -> Line \cup {NoLine}]]
  BY <1>1 DEF Line, Ids
<1>3. RowsTyped /\ LinesExclusive /\ IdsKept
  BY <1>2, CartAssumption DEF Init, RowsTyped, LinesExclusive, IdsKept, Open, InTx, PC, Untouched
<1>4. TotalExactUnlessOutrun
  BY DEF Init, TotalExactUnlessOutrun
<1>5. \A c \in Calls : CallInv(c)
  BY DEF Init, CallInv, Kinds, Unwritten, Putting, Written, Summed
<1> QED
  BY <1>3, <1>4, <1>5 DEF IInv, Init
--------------------------------------------------------------------------------
(* What a step of one call leaves alone unless it commits.                 *)
OnlyCall(c) ==
    /\ \A x \in Calls \ {c} :
          /\ pc'[x] = pc[x] /\ job'[x] = job[x] /\ next'[x] = next[x]
          /\ writes'[x] = writes[x] /\ sum'[x] = sum[x] /\ outrun'[x] = outrun[x]
    /\ lines' = lines /\ total' = total /\ stale' = stale

LEMMA Quiet ==
    ASSUME IInv, NEW c \in Calls, OnlyCall(c), sum' = [x \in Calls |-> sum'[x]],
           RowsTyped', CallInv(c)', LinesExclusive', IdsKept'
    PROVE  IInv'
<1>1. \A x \in Calls : CallInv(x)'
  BY FrameOthers DEF OnlyCall
<1>2. TotalExactUnlessOutrun'
  BY DEF IInv, TotalExactUnlessOutrun, OnlyCall
<1>3. total' = [b \in Buyers |-> total'[b]]
  BY DEF IInv, OnlyCall
<1> QED
  BY <1>1, <1>2, <1>3 DEF IInv

LEMMA BeginStep ==
    ASSUME IInv, NEW c \in Calls, BeginCreate(c) \/ BeginPut(c) \/ BeginDrop(c)
    PROVE  IInv'
<1>1. PICK j \in Job, label \in {"creating", "opening", "done", "rejected"} :
          /\ Begin(c, j, label)
          /\ label = "opening" => j \in Put \cup Drop
  <2>1. CASE BeginCreate(c)
    BY <2>1 DEF BeginCreate, Job, Create
  <2>2. CASE BeginPut(c)
    BY <2>2 DEF BeginPut, Job, Put
  <2>3. CASE BeginDrop(c)
    BY <2>3 DEF BeginDrop, Job, Drop
  <2> QED
    BY <2>1, <2>2, <2>3
<1>2. OnlyCall(c) /\ sum' = sum
  BY <1>1 DEF Begin, OnlyCall, IInv, RowsTyped, rows, history
<1>3. RowsTyped'
  BY <1>1 DEF Begin, IInv, RowsTyped, rows, history, PC, InTx, Final
<1>4. /\ pc[c] = "idle" /\ pc'[c] = label /\ job'[c] = j
      /\ next' = next /\ writes' = writes
  BY <1>1 DEF Begin, IInv, RowsTyped
<1>5. CallInv(c)'
  BY <1>1, <1>4 DEF IInv, CallInv, Kinds, Unwritten, Putting, Written, Summed
<1>6. LinesExclusive' /\ IdsKept'
  BY <1>2, <1>4, KeepExclusive DEF OnlyCall, IInv, CallInv, Unwritten
<1> QED
  BY <1>2, <1>3, <1>5, <1>6, Quiet DEF IInv

LEMMA CreateStep ==
    ASSUME IInv, NEW c \in Calls, CreateCart(c)
    PROVE  IInv'
<1>1. OnlyCall(c) /\ sum' = sum
  BY DEF CreateCart, OnlyCall, local, history, IInv, RowsTyped
<1>2. RowsTyped'
  BY DEF CreateCart, local, history, IInv, RowsTyped, PC, Final
<1>3. pc'[c] \in {"failed", "done"}
  BY DEF CreateCart, IInv, RowsTyped
<1>4. CallInv(c)'
  BY <1>3 DEF CallInv, Kinds, Unwritten, Putting, Written, Summed
<1>5. LinesExclusive' /\ IdsKept'
  BY <1>1, <1>3, KeepExclusive DEF OnlyCall, InTx
<1> QED
  BY <1>1, <1>2, <1>4, <1>5, Quiet DEF IInv

LEMMA OpenStep ==
    ASSUME IInv, NEW c \in Calls, OpenTx(c)
    PROVE  IInv'
<1>1. OnlyCall(c) /\ sum' = sum
  BY DEF OpenTx, OnlyCall, local, rows, history, IInv, RowsTyped
<1>2. RowsTyped'
  BY DEF OpenTx, local, rows, history, IInv, RowsTyped, PC, InTx
<1>3. /\ pc'[c] = IF job[c].kind = "put" THEN "product" ELSE "dropping"
      /\ job' = job /\ next'[c] = 1 /\ writes'[c] = Untouched
  BY DEF OpenTx, local, IInv, RowsTyped, CallInv, Unwritten
<1>4. job[c] \in IF job[c].kind = "put" THEN Put ELSE Drop
  BY DEF OpenTx, IInv, CallInv, Kinds, Put, Drop
<1>5. CallInv(c)'
  BY <1>3, <1>4 DEF CallInv, Kinds, Unwritten, Putting, Written, Summed
<1>6. LinesExclusive' /\ IdsKept'
  BY <1>1, <1>3, KeepExclusive DEF OnlyCall
<1> QED
  BY <1>1, <1>2, <1>5, <1>6, Quiet DEF IInv

LEMMA RollbackStep ==
    ASSUME IInv, NEW c \in Calls, NEW label \in Final, Rollback(c, label)
    PROVE  IInv'
<1>1. OnlyCall(c) /\ sum' = sum
  BY DEF Rollback, OnlyCall, rows, history, IInv, RowsTyped
<1>2. RowsTyped'
  BY DEF Rollback, rows, history, IInv, RowsTyped, PC, Untouched
<1>3. pc'[c] \in Final
  BY DEF Rollback, IInv, RowsTyped
<1>4. CallInv(c)'
  BY <1>3 DEF Final, CallInv, Kinds, Unwritten, Putting, Written, Summed
<1>5. LinesExclusive' /\ IdsKept'
  BY <1>1, <1>3, KeepExclusive DEF OnlyCall, InTx, Final
<1> QED
  BY <1>1, <1>2, <1>4, <1>5, Quiet DEF IInv
LEMMA LookupStep ==
    ASSUME IInv, NEW c \in Calls, FindProduct(c) \/ FindSize(c)
    PROVE  IInv'
<1>1. ASSUME Rollback(c, "rejected") PROVE IInv'
  BY <1>1, RollbackStep DEF Final
<1>2. ASSUME pc[c] = "product", Advance(c, next[c]), UNCHANGED <<local, rows, history>>
      PROVE  IInv'
  <2>1. OnlyCall(c) /\ sum' = sum
    BY <1>2 DEF Advance, OnlyCall, local, rows, history, IInv, RowsTyped
  <2>2. RowsTyped'
    BY <1>2 DEF Advance, local, rows, history, IInv, RowsTyped, PC, InTx
  <2>3. /\ next[c] = 1 /\ writes[c] = Untouched /\ job[c] \in Put
        /\ Len(job[c].wish) \in Nat
    BY <1>2, JobTypes DEF IInv, CallInv, Kinds, Unwritten, InTx
  <2>4. /\ pc'[c] = IF 1 > Len(job[c].wish) THEN "summing" ELSE "size"
        /\ job' = job /\ next' = next /\ writes' = writes
    BY <1>2, <2>3 DEF Advance, local, IInv, RowsTyped
  <2>5. PutSoFar(c, 0)'
    BY <2>3, <2>4 DEF PutSoFar, Untouched
  <2>6. CallInv(c)'
    <3>1. CASE 1 > Len(job[c].wish)
      <4>1. Len(job[c].wish) = 0
        BY <2>3, <3>1
      <4> QED
        BY <2>3, <2>4, <2>5, <3>1, <4>1 DEF CallInv, Kinds, Unwritten, Putting, Written, Summed
    <3>2. CASE ~ (1 > Len(job[c].wish))
      BY <2>3, <2>4, <2>5, <3>2 DEF CallInv, Kinds, Unwritten, Putting, Written, Summed
    <3> QED
      BY <3>1, <3>2
  <2>7. LinesExclusive' /\ IdsKept'
    BY <1>2, <2>1, <2>4, KeepExclusive DEF OnlyCall, InTx
  <2> QED
    BY <2>1, <2>2, <2>6, <2>7, Quiet DEF IInv
<1>3. ASSUME pc[c] = "size", Goto(c, "putting"), UNCHANGED <<local, rows, history>>
      PROVE  IInv'
  <2>1. OnlyCall(c) /\ sum' = sum
    BY <1>3 DEF OnlyCall, local, rows, history, IInv, RowsTyped
  <2>2. RowsTyped'
    BY <1>3 DEF local, rows, history, IInv, RowsTyped, PC, InTx
  <2>3. pc'[c] = "putting" /\ job' = job /\ next' = next /\ writes' = writes
    BY <1>3 DEF local, IInv, RowsTyped
  <2>4. CallInv(c)'
    BY <1>3, <2>3 DEF IInv, CallInv, Kinds, Unwritten, Putting, PutSoFar, Written, Summed
  <2>5. LinesExclusive' /\ IdsKept'
    BY <1>3, <2>1, <2>3, KeepExclusive DEF OnlyCall, InTx
  <2> QED
    BY <2>1, <2>2, <2>4, <2>5, Quiet DEF IInv
<1> QED
  BY <1>1, <1>2, <1>3 DEF FindProduct, FindSize

(* A write to a free line keeps the lines exclusive.                       *)
LEMMA WriteExclusive ==
    ASSUME IInv, NEW c \in Calls, NEW i \in Items, NEW w,
           pc[c] \in InTx, FreeFor(c, i), OnlyCall(c), job' = job,
           writes' = [writes EXCEPT ![c][i] = w]
    PROVE  LinesExclusive'
<1> SUFFICES ASSUME NEW x \in Calls, NEW y \in Calls, NEW k \in Items,
                    x # y, pc'[x] \in InTx, pc'[y] \in InTx, job[x].buyer = job[y].buyer
             PROVE  writes'[x][k] = Kept \/ writes'[y][k] = Kept
  BY DEF LinesExclusive, Open, Buyer
<1>1. pc[x] \in InTx /\ pc[y] \in InTx
  BY DEF OnlyCall
<1>2. CASE k = i /\ c \in {x, y}
  BY <1>1, <1>2 DEF FreeFor, Open, Buyer, OnlyCall
<1>3. CASE ~ (k = i /\ c \in {x, y})
  BY <1>1, <1>3 DEF IInv, RowsTyped, LinesExclusive, Open, Buyer
<1> QED
  BY <1>2, <1>3

LEMMA UpsertStep ==
    ASSUME IInv, NEW c \in Calls, UpsertItem(c)
    PROVE  IInv'
<1>1. /\ pc[c] = "putting" /\ job[c] \in Put
      /\ next[c] \in Nat \ {0} /\ next[c] <= Len(job[c].wish) /\ Len(job[c].wish) \in Nat
      /\ \A j \in 1..Len(job[c].wish) : job[c].wish[j] \in Entry
      /\ Buyer(c) \in Buyers /\ PutSoFar(c, next[c] - 1)
  BY JobTypes DEF UpsertItem, IInv, RowsTyped, CallInv, Kinds, Putting, InTx
<1>2. PICK n \in Nat \ {0}, e \in Entry, new \in Line :
          /\ n = next[c] /\ e = job[c].wish[n] /\ new.quantity = e.quantity
          /\ Seen(c)[e.item] # NoLine => new.id = Seen(c)[e.item].id
          /\ FreeFor(c, e.item)
          /\ writes' = [writes EXCEPT ![c][e.item] = new]
          /\ next' = [next EXCEPT ![c] = n + 1]
          /\ Advance(c, n + 1)
          /\ UNCHANGED <<job, sum, rows, history>>
  <2> DEFINE e == job[c].wish[next[c]]
             old == Seen(c)[e.item]
             new == [id |-> IF old = NoLine THEN c ELSE old.id, quantity |-> e.quantity]
  <2>1. e \in Entry
    BY <1>1
  <2>2. old \in Line \cup {NoLine}
    BY <1>1, <2>1, SeenTypes DEF IInv, Entry
  <2>3. /\ new \in Line /\ new.quantity = e.quantity
        /\ old # NoLine => new.id = old.id
    BY <2>1, <2>2 DEF Line, Ids, Entry
  <2>4. /\ FreeFor(c, e.item)
        /\ writes' = [writes EXCEPT ![c][e.item] = new]
        /\ next' = [next EXCEPT ![c] = next[c] + 1]
        /\ Advance(c, next[c] + 1)
        /\ UNCHANGED <<job, sum, rows, history>>
    BY DEF UpsertItem
  <2> HIDE DEF new, e
  <2> QED
    BY <1>1, <2>1, <2>3, <2>4 DEF e
<1>3. n <= Len(job[c].wish) /\ PutSoFar(c, n - 1)
  BY <1>1, <1>2
<1>5. OnlyCall(c) /\ sum' = sum
  BY <1>2 DEF Advance, OnlyCall, rows, history, IInv, RowsTyped
<1>6. RowsTyped'
  <2>1. writes' \in [Calls -> [Items -> Line \cup {NoLine, Kept}]]
    BY <1>2 DEF IInv, RowsTyped, Entry
  <2> QED
    BY <1>2, <2>1 DEF Advance, rows, history, IInv, RowsTyped, PC, InTx
<1>7. /\ pc'[c] = IF n + 1 > Len(job[c].wish) THEN "summing" ELSE "size"
      /\ next'[c] = n + 1 /\ job' = job
      /\ \A i \in Items : writes'[c][i] = IF i = e.item THEN new ELSE writes[c][i]
  BY <1>2 DEF Advance, IInv, RowsTyped
<1>8. PutSoFar(c, n)'
  <2> SUFFICES ASSUME NEW i \in Items
               PROVE  \/ /\ \A j \in 1..n : job[c].wish[j].item # i
                         /\ writes'[c][i] = Kept
                      \/ \E j \in 1..n :
                          /\ job[c].wish[j].item = i
                          /\ \A k \in (j + 1)..n : job[c].wish[k].item # i
                          /\ writes'[c][i] \in Line
                          /\ writes'[c][i].quantity = job[c].wish[j].quantity
    BY <1>7 DEF PutSoFar
  <2>1. CASE i = e.item
    <3>1. n \in 1..n /\ \A k \in (n + 1)..n : FALSE
      OBVIOUS
    <3>2. /\ job[c].wish[n].item = i /\ writes'[c][i] \in Line
          /\ writes'[c][i].quantity = job[c].wish[n].quantity
      BY <1>2, <1>7, <2>1
    <3>3. \E j \in 1..n :
             /\ job[c].wish[j].item = i
             /\ \A k \in (j + 1)..n : job[c].wish[k].item # i
             /\ writes'[c][i] \in Line
             /\ writes'[c][i].quantity = job[c].wish[j].quantity
      <4> WITNESS n \in 1..n
      <4> QED
        BY <3>1, <3>2
    <3> QED
      BY <3>3
  <2>2. CASE i # e.item
    <3>1. \A j \in 1..n : j \in 1..(n - 1) \/ j = n
      BY <1>2
    <3>2. CASE (\A j \in 1..(n - 1) : job[c].wish[j].item # i) /\ writes[c][i] = Kept
      <4>1. writes'[c][i] = Kept /\ job[c].wish[n].item # i
        BY <1>2, <1>7, <2>2, <3>2
      <4>2. \A j \in 1..n : job[c].wish[j].item # i
        BY <3>1, <3>2, <4>1
      <4> QED
        BY <4>1, <4>2
    <3>3. ASSUME NEW j \in 1..(n - 1),
                 /\ job[c].wish[j].item = i
                 /\ \A k \in (j + 1)..(n - 1) : job[c].wish[k].item # i
                 /\ writes[c][i] \in Line
                 /\ writes[c][i].quantity = job[c].wish[j].quantity
          PROVE  \E m \in 1..n :
                          /\ job[c].wish[m].item = i
                          /\ \A k \in (m + 1)..n : job[c].wish[k].item # i
                          /\ writes'[c][i] \in Line
                          /\ writes'[c][i].quantity = job[c].wish[m].quantity
      <4>1. j \in 1..n /\ \A k \in (j + 1)..n : k \in (j + 1)..(n - 1) \/ k = n
        OBVIOUS
      <4>2. writes'[c][i] = writes[c][i] /\ job[c].wish[n].item # i
        BY <1>2, <1>7, <2>2
      <4> QED
        BY <3>3, <4>1, <4>2
    <3> QED
      BY <1>3, <3>2, <3>3 DEF PutSoFar
  <2> QED
    BY <2>1, <2>2
<1>9. CallInv(c)'
  <2>1. CASE n + 1 > Len(job[c].wish)
    <3>1. n = Len(job[c].wish)
      BY <1>1, <1>3, <2>1
    <3>2. PutSoFar(c, Len(job[c].wish))'
      BY <1>7, <1>8, <3>1
    <3> QED
      BY <1>1, <1>7, <2>1, <3>2 DEF CallInv, Kinds, Unwritten, Putting, Written, Summed
  <2>2. CASE ~ (n + 1 > Len(job[c].wish))
    <3>1. next'[c] <= Len(job'[c].wish) /\ next'[c] - 1 = n
      BY <1>1, <1>7, <2>2
    <3>2. PutSoFar(c, next[c] - 1)'
      BY <1>8, <3>1 DEF PutSoFar
    <3> QED
      BY <1>1, <1>7, <2>2, <3>1, <3>2 DEF CallInv, Kinds, Unwritten, Putting, Written, Summed
  <2> QED
    BY <2>1, <2>2
<1>10. LinesExclusive'
  <2>1. e.item \in Items /\ pc[c] \in InTx /\ job' = job
    BY <1>1, <1>2 DEF Entry, InTx
  <2> QED
    BY <1>2, <1>5, <2>1, WriteExclusive
<1>11. IdsKept'
  <2> SUFFICES ASSUME NEW x \in Calls, NEW i \in Items, pc'[x] \in InTx, writes'[x][i] \in Line,
                      lines[Buyer(x)][i] # NoLine
               PROVE  writes'[x][i].id = lines[Buyer(x)][i].id
    BY <1>2, <1>5 DEF IdsKept, Open, Buyer, OnlyCall
  <2>1. CASE x = c /\ i = e.item
    <3>1. writes[c][i] = Kept \/ writes[c][i] \in Line
      BY <1>3 DEF PutSoFar
    <3>2. /\ writes'[c][i] = new /\ pc[c] \in InTx
          /\ Seen(c)[i] = IF writes[c][i] = Kept THEN lines[Buyer(c)][i] ELSE writes[c][i]
      BY <1>1, <1>7, <2>1, SeenTypes DEF IInv, InTx
    <3>3. Seen(c)[i] # NoLine
      BY <2>1, <3>1, <3>2, CartAssumption
    <3>4. new.id = Seen(c)[i].id
      BY <1>2, <2>1, <3>3
    <3> QED
      BY <2>1, <3>1, <3>2, <3>4, CartAssumption DEF IInv, IdsKept, Open
  <2>2. CASE ~ (x = c /\ i = e.item)
    <3>1. writes'[x][i] = writes[x][i] /\ pc[x] \in InTx
      BY <1>1, <1>2, <1>5, <1>7, <2>2 DEF OnlyCall, InTx
    <3> QED
      BY <3>1 DEF IInv, IdsKept, Open
  <2> QED
    BY <2>1, <2>2
<1> QED
  BY <1>5, <1>6, <1>9, <1>10, <1>11, Quiet DEF IInv

LEMMA DropStep ==
    ASSUME IInv, NEW c \in Calls, DropItem(c)
    PROVE  IInv'
<1>1. CASE Rollback(c, "failed")
  BY <1>1, RollbackStep DEF Final
<1>2. CASE ~ Rollback(c, "failed")
  <2>1. /\ pc[c] = "dropping" /\ job[c] \in Drop
        /\ Buyer(c) \in Buyers /\ job[c].item \in Items
        /\ writes[c] = Untouched
    BY JobTypes DEF DropItem, IInv, CallInv, Kinds, Unwritten, InTx
  <2>2. /\ FreeFor(c, job[c].item)
        /\ lines[Buyer(c)][job[c].item] # NoLine
        /\ lines[Buyer(c)][job[c].item].id = job[c].id
        /\ writes' = [writes EXCEPT ![c][job[c].item] = NoLine]
        /\ Goto(c, "summing")
        /\ UNCHANGED <<job, next, sum, rows, history>>
    BY <1>2 DEF DropItem
  <2>3. OnlyCall(c) /\ sum' = sum
    BY <2>2 DEF OnlyCall, rows, history, IInv, RowsTyped
  <2>4. RowsTyped'
    BY <2>1, <2>2 DEF rows, history, IInv, RowsTyped, PC, InTx
  <2>5. /\ pc'[c] = "summing" /\ job' = job /\ lines' = lines
        /\ writes'[c] = [Untouched EXCEPT ![job[c].item] = NoLine]
    BY <2>1, <2>2 DEF rows, IInv, RowsTyped
  <2>6. Dropped(c)'
    BY <2>2, <2>5 DEF Dropped, Buyer
  <2>7. CallInv(c)'
    BY <2>1, <2>5, <2>6 DEF CallInv, Kinds, Unwritten, Putting, Written, Summed
  <2>8. LinesExclusive'
    <3>1. pc[c] \in InTx
      BY <2>1 DEF InTx
    <3> QED
      BY <2>1, <2>2, <2>3, <2>5, <3>1, WriteExclusive
  <2>9. IdsKept'
    <3> SUFFICES ASSUME NEW x \in Calls, NEW i \in Items, pc'[x] \in InTx,
                        writes'[x][i] \in Line, lines[Buyer(x)][i] # NoLine
                 PROVE  writes'[x][i].id = lines[Buyer(x)][i].id
      BY <2>5 DEF IdsKept, Open, Buyer
    <3>1. x # c
      BY <2>5, CartAssumption DEF Untouched
    <3> QED
      BY <2>3, <3>1 DEF IInv, IdsKept, Open, OnlyCall
  <2> QED
    BY <2>3, <2>4, <2>7, <2>8, <2>9, Quiet DEF IInv
<1> QED
  BY <1>1, <1>2

LEMMA SumStep ==
    ASSUME IInv, NEW c \in Calls, SumItems(c)
    PROVE  IInv'
<1>1. OnlyCall(c) /\ sum' = [x \in Calls |-> sum'[x]]
  BY DEF SumItems, OnlyCall, rows, IInv, RowsTyped
<1>2. RowsTyped'
  BY DEF SumItems, rows, IInv, RowsTyped, PC, InTx
<1>3. /\ pc[c] = "summing" /\ pc'[c] = "totaling"
      /\ job' = job /\ writes' = writes /\ lines' = lines
      /\ sum'[c] = Sum(Seen(c))
  BY DEF SumItems, rows, IInv, RowsTyped
<1>4. Seen(c)' = Seen(c)
  BY <1>3 DEF Seen, Buyer
<1>5. Summed(c)'
  BY <1>3, <1>4 DEF Summed
<1>6. Written(c)'
  BY <1>3 DEF IInv, CallInv, Written, PutSoFar, Dropped, Buyer
<1>7. CallInv(c)'
  BY <1>3, <1>5, <1>6 DEF CallInv, Kinds, Unwritten, Putting
<1>8. LinesExclusive' /\ IdsKept'
  BY <1>1, <1>3, KeepExclusive DEF OnlyCall, InTx
<1> QED
  BY <1>1, <1>2, <1>7, <1>8, Quiet
(* The lines that change when a call commits are those it has written, and  *)
(* no other open call has.                                                  *)
LEMMA CommitStep ==
    ASSUME IInv, NEW c \in Calls, CommitTotal(c)
    PROVE  IInv'
<1> DEFINE b == Buyer(c)
<1>1. /\ pc[c] = "totaling" /\ b \in Buyers
  BY JobTypes DEF CommitTotal, IInv, InTx
<1>2. /\ \A x \in Calls : Buyer(x)' = Buyer(x)
      /\ job' = job /\ next' = next /\ writes' = writes /\ sum' = sum
      /\ lines' = [lines EXCEPT ![b] = Seen(c)]
      /\ total' = [total EXCEPT ![b] = sum[c]]
      /\ stale' = [stale EXCEPT ![b] = outrun[c]]
      /\ outrun' = [d \in Calls |-> outrun[d] \/ (d # c /\ pc[d] = "totaling" /\ Buyer(d) = b)]
      /\ pc' = [pc EXCEPT ![c] = "done"]
  BY DEF CommitTotal, local, Buyer
<1>3. RowsTyped'
  <2>1. Seen(c) \in [Items -> Line \cup {NoLine}]
    BY <1>1, SeenTypes DEF Seen, IInv
  <2> QED
    BY <1>1, <1>2, <2>1 DEF CommitTotal, IInv, RowsTyped, PC, Final
<1>4. TotalExactUnlessOutrun'
  <2> SUFFICES ASSUME NEW x \in Buyers, ~ stale'[x]
               PROVE  total'[x] = Sum(lines'[x])
    BY DEF TotalExactUnlessOutrun
  <2>1. CASE x = b
    <3>1. ~ outrun[c] /\ total'[x] = sum[c] /\ lines'[x] = Seen(c)
      BY <1>1, <1>2, <2>1 DEF IInv, RowsTyped
    <3> QED
      BY <1>1, <3>1 DEF IInv, CallInv, Summed
  <2>2. CASE x # b
    <3>1. stale'[x] = stale[x] /\ total'[x] = total[x] /\ lines'[x] = lines[x]
      BY <1>2, <2>2 DEF IInv, RowsTyped
    <3> QED
      BY <3>1 DEF IInv, TotalExactUnlessOutrun
  <2> QED
    BY <2>1, <2>2
<1>5. LinesExclusive'
  BY <1>1, <1>2 DEF IInv, RowsTyped, LinesExclusive, Open, InTx
<1>8. ASSUME NEW x \in Calls, x # c, pc[x] \in InTx, Buyer(x) \in Buyers, NEW i \in Items,
             writes[x][i] # Kept
      PROVE  lines'[Buyer(x)][i] = lines[Buyer(x)][i]
  <2>1. Buyer(x) = b => writes[c][i] = Kept
    BY <1>1, <1>8 DEF IInv, LinesExclusive, Open, InTx
  <2> QED
    BY <1>1, <1>2, <1>8, <2>1 DEF IInv, RowsTyped, Seen
<1>9. IdsKept'
  <2> SUFFICES ASSUME NEW x \in Calls, NEW i \in Items, pc'[x] \in InTx, writes[x][i] \in Line,
                      lines'[Buyer(x)][i] # NoLine
               PROVE  writes[x][i].id = lines'[Buyer(x)][i].id
    BY <1>2 DEF IdsKept, Open
  <2>1. x # c /\ pc[x] \in InTx
    BY <1>2 DEF IInv, RowsTyped, InTx
  <2>2. Buyer(x) \in Buyers
    BY <2>1, JobTypes DEF IInv
  <2>3. lines'[Buyer(x)][i] = lines[Buyer(x)][i]
    BY <1>8, <2>1, <2>2, CartAssumption
  <2> QED
    BY <2>1, <2>3 DEF IInv, IdsKept, Open
<1>6. ASSUME NEW x \in Calls
      PROVE  CallInv(x)'
  <2>1. CASE x = c
    BY <1>2, <2>1 DEF IInv, RowsTyped, CallInv, Kinds, Unwritten, Putting, Written, Summed
  <2>2. CASE x # c
    <3>1. pc'[x] = pc[x] /\ CallInv(x)
      BY <1>2, <2>2 DEF IInv, RowsTyped
    <3>2. Kinds(x)' /\ Unwritten(x)' /\ Putting(x)'
      BY <1>2, <3>1 DEF CallInv, Kinds, Unwritten, Putting, PutSoFar
    <3>3. ASSUME pc[x] \in {"summing", "totaling"}, job[x] \in Drop, Dropped(x)
          PROVE  Dropped(x)'
      <4>1. Buyer(x) \in Buyers /\ job[x].item \in Items
        BY <3>1, <3>3, JobTypes DEF IInv, InTx
      <4>2. writes[x][job[x].item] = NoLine
        BY <3>3, <4>1 DEF Dropped, Untouched
      <4>3. lines'[Buyer(x)][job[x].item] = lines[Buyer(x)][job[x].item]
        BY <1>8, <2>2, <3>3, <4>1, <4>2, CartAssumption DEF InTx
      <4> QED
        BY <1>2, <3>3, <4>3 DEF Dropped
    <3>4. Written(x)'
      BY <1>2, <3>1, <3>3 DEF CallInv, Written, PutSoFar
    <3>5. Summed(x)'
      <4> SUFFICES ASSUME pc[x] = "totaling", ~ outrun'[x]
                   PROVE  sum'[x] = Sum(Seen(x)')
        BY <3>1 DEF Summed
      <4>1. ~ outrun[x] /\ Buyer(x) # b
        BY <1>2, <2>2
      <4>2. Buyer(x) \in Buyers
        BY <3>1, JobTypes DEF IInv, InTx
      <4>3. Seen(x)' = Seen(x)
        BY <1>2, <4>1, <4>2 DEF IInv, RowsTyped, Seen
      <4> QED
        BY <1>2, <3>1, <4>1, <4>3 DEF CallInv, Summed
    <3> QED
      BY <3>2, <3>4, <3>5 DEF CallInv
  <2> QED
    BY <2>1, <2>2
<1>7. total' = [x \in Buyers |-> total'[x]] /\ sum' = [x \in Calls |-> sum'[x]]
  BY <1>2 DEF IInv
<1> QED
  BY <1>3, <1>4, <1>5, <1>6, <1>7, <1>9 DEF IInv

LEMMA StepInv ==
    ASSUME IInv, [Next]_vars
    PROVE  IInv'
<1>1. ASSUME UNCHANGED vars PROVE IInv'
  <2>1. \A c \in Calls : CallInv(c)'
    BY <1>1, Frame DEF vars, local, rows, history, IInv
  <2>2. LinesExclusive' /\ IdsKept' /\ TotalExactUnlessOutrun'
    BY <1>1 DEF vars, local, rows, history, IInv, LinesExclusive, IdsKept, Open, Buyer,
        TotalExactUnlessOutrun
  <2> QED
    BY <1>1, <2>1, <2>2 DEF vars, local, rows, history, IInv, RowsTyped
<1>2. ASSUME NEW c \in Calls, BeginCreate(c) \/ BeginPut(c) \/ BeginDrop(c) \/ Proceed(c)
      PROVE  IInv'
  BY <1>2, BeginStep, CreateStep, OpenStep, LookupStep, UpsertStep, DropStep, SumStep, CommitStep
     DEF Proceed
<1>3. ASSUME NEW c \in Calls, Abort(c)
      PROVE  IInv'
  BY <1>3, RollbackStep DEF Abort, Final
<1> QED
  BY <1>1, <1>2, <1>3 DEF Next, Rest

(* A commit alone changes the lines.                                       *)
LEMMA OnlyCommits ==
    ASSUME [Next]_vars
    PROVE  lines' = lines \/ \E c \in Calls : CommitTotal(c)
<1>1. ASSUME NEW c \in Calls,
             \/ BeginCreate(c) \/ BeginPut(c) \/ BeginDrop(c) \/ CreateCart(c) \/ OpenTx(c)
             \/ FindProduct(c) \/ FindSize(c) \/ UpsertItem(c) \/ DropItem(c) \/ SumItems(c)
             \/ Abort(c)
      PROVE  lines' = lines
  BY <1>1 DEF BeginCreate, BeginPut, BeginDrop, Begin, CreateCart, OpenTx, FindProduct, FindSize,
      UpsertItem, DropItem, SumItems, Abort, Rollback, rows
<1> QED
  BY <1>1 DEF Next, Rest, Proceed, vars, rows

LEMMA Invariance == Spec => []IInv
<1>1. Init => IInv
  BY InitInv
<1>2. IInv /\ [Next]_vars => IInv'
  BY StepInv
<1> QED
  BY <1>1, <1>2, PTL DEF Spec
--------------------------------------------------------------------------------
(* The sums are numbers, because a cart has finitely many lines: each was   *)
(* put by some call, and a transaction has written finitely many.           *)
Filled(l) == {i \in Items : l[i] # NoLine}
Touched(c) == {i \in Items : writes[c][i] # Kept}

SumsTyped ==
    /\ sum \in [Calls -> Int]
    /\ total \in [Buyers -> Int]
    /\ \A b \in Buyers : IsFiniteSet(Filled(lines[b]))
    /\ \A c \in Calls : IsFiniteSet(Touched(c))

LEMMA SumOfLines ==
    ASSUME NEW l \in [Items -> Line \cup {NoLine}], IsFiniteSet(Filled(l))
    PROVE  Sum(l) \in Int
<1> DEFINE f == [i \in Filled(l) |-> l[i].quantity]
<1>1. \A i \in Filled(l) : f[i] \in Int
  BY DEF Filled, Line
<1>2. Sum(l) = SumFunctionOnSet(f, Filled(l))
  BY DEF Sum, SumFunction, Filled
<1> HIDE DEF f
<1> QED
  BY <1>1, <1>2, SumType

LEMMA SeenIsFinite ==
    ASSUME IInv, SumsTyped, NEW c \in Calls, Buyer(c) \in Buyers
    PROVE  IsFiniteSet(Filled(Seen(c)))
<1>1. Filled(Seen(c)) \subseteq Filled(lines[Buyer(c)]) \cup Touched(c)
  BY DEF Filled, Touched, Seen
<1>2. IsFiniteSet(Filled(lines[Buyer(c)]) \cup Touched(c))
  BY FS_Union DEF SumsTyped
<1> QED
  BY <1>1, <1>2, FS_Subset

LEMMA StepSumsTyped ==
    ASSUME IInv, SumsTyped, [Next]_vars
    PROVE  SumsTyped'
<1>1. ASSUME UNCHANGED <<sum, total, lines, writes>> PROVE SumsTyped'
  BY <1>1 DEF SumsTyped, Touched
<1>2. ASSUME NEW c \in Calls, NEW i, UNCHANGED <<sum, total, lines>>,
             \A x \in Calls \ {c} : writes'[x] = writes[x],
             \A j \in Items \ {i} : writes'[c][j] = writes[c][j]
      PROVE  SumsTyped'
  <2>1. Touched(c)' \subseteq Touched(c) \cup {i}
    BY <1>2 DEF Touched
  <2>2. IsFiniteSet(Touched(c) \cup {i})
    BY FS_AddElement DEF SumsTyped
  <2>3. IsFiniteSet(Touched(c)')
    BY <2>1, <2>2, FS_Subset
  <2>4. \A x \in Calls \ {c} : Touched(x)' = Touched(x)
    BY <1>2 DEF Touched
  <2> QED
    BY <1>2, <2>3, <2>4 DEF SumsTyped
<1>3. ASSUME NEW c \in Calls, NEW label, Rollback(c, label) PROVE SumsTyped'
  <2>1. writes' = [writes EXCEPT ![c] = Untouched]
    BY <1>3 DEF Rollback
  <2>2. Touched(c)' = {}
    BY <2>1 DEF Touched, Untouched, IInv, RowsTyped
  <2>3. \A x \in Calls \ {c} : Touched(x)' = Touched(x)
    BY <2>1 DEF Touched, IInv, RowsTyped
  <2> QED
    BY <1>3, <2>2, <2>3, FS_EmptySet DEF Rollback, rows, SumsTyped
<1>4. ASSUME NEW c \in Calls, UpsertItem(c) PROVE SumsTyped'
  BY <1>2, <1>4 DEF UpsertItem, rows, IInv, RowsTyped
<1>5. ASSUME NEW c \in Calls, DropItem(c) PROVE SumsTyped'
  <2>1. CASE Rollback(c, "failed")
    BY <1>3, <2>1
  <2>2. CASE ~ Rollback(c, "failed")
    <3>1. writes' = [writes EXCEPT ![c][job[c].item] = NoLine]
          /\ UNCHANGED <<sum, total, lines>>
      BY <1>5, <2>2 DEF DropItem, rows
    <3> QED
      BY <1>2, <3>1 DEF IInv, RowsTyped
  <2> QED
    BY <2>1, <2>2
<1>6. ASSUME NEW c \in Calls, SumItems(c) PROVE SumsTyped'
  <2>1. Buyer(c) \in Buyers
    BY <1>6, JobTypes DEF SumItems, IInv, InTx
  <2>2. Seen(c) \in [Items -> Line \cup {NoLine}]
    BY <2>1 DEF IInv, RowsTyped, Seen
  <2>3. Sum(Seen(c)) \in Int
    BY <2>1, <2>2, SeenIsFinite, SumOfLines
  <2> QED
    BY <1>6, <2>3 DEF SumItems, rows, SumsTyped, Touched
<1>7. ASSUME NEW c \in Calls, CommitTotal(c) PROVE SumsTyped'
  <2>1. Buyer(c) \in Buyers
    BY <1>7, JobTypes DEF CommitTotal, IInv, InTx
  <2>2. /\ lines' = [lines EXCEPT ![Buyer(c)] = Seen(c)]
        /\ total' = [total EXCEPT ![Buyer(c)] = sum[c]]
        /\ sum' = sum /\ writes' = writes
    BY <1>7 DEF CommitTotal, local
  <2>3. \A b \in Buyers : IsFiniteSet(Filled(lines'[b]))
    BY <2>1, <2>2, SeenIsFinite DEF SumsTyped, IInv, RowsTyped
  <2> QED
    BY <2>2, <2>3 DEF SumsTyped, Touched
<1> QED
  BY <1>1, <1>3, <1>4, <1>5, <1>6, <1>7
     DEF Next, Rest, Proceed, vars, local, rows, BeginCreate, BeginPut, BeginDrop, Begin,
         CreateCart, OpenTx, FindProduct, FindSize, Abort

(* The types hold, those of the sums among them.                            *)
THEOREM TypeCorrect == Spec => []TypeOK
<1>1. Init => SumsTyped
  <2> SUFFICES ASSUME Init PROVE SumsTyped
    OBVIOUS
  <2>1. \A b \in Buyers : IsFiniteSet(Filled(lines[b]))
    <3>1. PICK filled \in [Buyers -> SUBSET Earlier] :
            lines = [b \in Buyers |-> [i \in Items |->
                        IF i \in filled[b] THEN [id |-> Old, quantity |-> 1] ELSE NoLine]]
      BY DEF Init
    <3>2. lines \in [Buyers -> [Items -> Line \cup {NoLine}]]
      BY <3>1 DEF Line, Ids
    <3>3. \A b \in Buyers : Filled(lines[b]) \subseteq Earlier
      BY <3>1, CartAssumption DEF Filled
    <3> QED
      BY <3>3, FS_Subset, CartAssumption
  <2>3. \A b \in Buyers : lines[b] \in [Items -> Line \cup {NoLine}]
    <3>1. PICK filled \in [Buyers -> SUBSET Earlier] :
            lines = [b \in Buyers |-> [i \in Items |->
                        IF i \in filled[b] THEN [id |-> Old, quantity |-> 1] ELSE NoLine]]
      BY DEF Init
    <3> QED
      BY <3>1 DEF Line, Ids
  <2>4. total \in [Buyers -> Int]
    BY <2>1, <2>3, SumOfLines DEF Init
  <2>2. \A c \in Calls : IsFiniteSet(Touched(c))
    <3>1. \A c \in Calls : Touched(c) = {}
      BY DEF Init, Touched, Untouched
    <3> QED
      BY <3>1, FS_EmptySet
  <2> QED
    BY <2>1, <2>2, <2>4 DEF Init, SumsTyped
<1>2. IInv /\ SumsTyped /\ [Next]_vars => SumsTyped'
  BY StepSumsTyped
<1>3. IInv /\ SumsTyped => TypeOK
  BY DEF IInv, SumsTyped, TypeOK
<1> QED
  BY <1>1, <1>2, <1>3, Invariance, PTL DEF Spec

--------------------------------------------------------------------------------
(* A line keeps its id until a request to delete that very line succeeds     *)
(* (upsertCartItem and deleteCartItem under the row locks).                  *)
THEOREM LinesKeepTheirIds == Spec => LinesKeepIdentity
<1> DEFINE Lasts(b, i) ==
             lines[b][i] # NoLine =>
                 \/ lines'[b][i] # NoLine /\ lines'[b][i].id = lines[b][i].id
                 \/ /\ lines'[b][i] = NoLine
                    /\ \E c \in Calls :
                         /\ job[c] = [kind |-> "drop", buyer |-> b, item |-> i, id |-> lines[b][i].id]
                         /\ pc[c] # "done" /\ pc'[c] = "done"
<1>1. ASSUME IInv, [Next]_vars, NEW b \in Buyers, NEW i \in Items
      PROVE  Lasts(b, i)
  <2>1. ASSUME lines' = lines PROVE Lasts(b, i)
    BY <2>1
  <2>2. ASSUME NEW c \in Calls, CommitTotal(c) PROVE Lasts(b, i)
    <3>1. /\ pc[c] = "totaling" /\ pc'[c] = "done" /\ Buyer(c) \in Buyers
          /\ lines' = [lines EXCEPT ![Buyer(c)] = Seen(c)]
      BY <1>1, <2>2, JobTypes DEF CommitTotal, IInv, RowsTyped, InTx
    <3>2. CASE b # Buyer(c) \/ writes[c][i] = Kept
      BY <1>1, <3>1, <3>2, SeenTypes DEF IInv, RowsTyped
    <3>3. CASE b = Buyer(c) /\ writes[c][i] # Kept
      <4>1. lines'[b][i] = writes[c][i]
        BY <1>1, <3>1, <3>3, SeenTypes DEF IInv, RowsTyped
      <4>2. CASE job[c] \in Put /\ PutSoFar(c, Len(job[c].wish))
        <5>1. writes[c][i] \in Line
          BY <3>3, <4>2 DEF PutSoFar
        <5> QED
          BY <1>1, <3>1, <3>3, <4>1, <5>1, CartAssumption DEF IInv, IdsKept, Open, InTx
      <4>3. CASE job[c] \in Drop /\ Dropped(c)
        <5>1. i = job[c].item /\ writes[c][i] = NoLine
          BY <3>3, <4>3 DEF Dropped, Untouched
        <5>2. job[c] = [kind |-> "drop", buyer |-> b, item |-> i, id |-> lines[b][i].id]
          BY <3>3, <4>3, <5>1 DEF Drop, Dropped, Buyer
        <5> QED
          BY <3>1, <4>1, <5>1, <5>2
      <4> QED
        BY <1>1, <3>1, <4>2, <4>3 DEF IInv, CallInv, Written
    <3> QED
      BY <3>2, <3>3
  <2> QED
    BY <1>1, <2>1, <2>2, OnlyCommits
<1>2. IInv /\ [Next]_vars => [\A b \in Buyers, i \in Items : Lasts(b, i)]_vars
  BY <1>1
<1> QED
  BY <1>2, Invariance, PTL DEF Spec, LinesKeepIdentity

(* The stored total is the sum of the lines unless another transaction      *)
(* committed between the sum and the commit of the last one                 *)
(* (cart.service.ts:82-96).                                                 *)
THEOREM TotalsExactUnlessOutrun == Spec => []TotalExactUnlessOutrun
<1>1. IInv => TotalExactUnlessOutrun
  BY DEF IInv
<1> QED
  BY <1>1, Invariance, PTL

--------------------------------------------------------------------------------
(* A commit puts the whole wish or drops the one line; no other step        *)
(* changes the lines.                                                       *)
quantities == [b \in Buyers |-> [i \in Items |->
                 IF lines[b][i] = NoLine THEN NoLine ELSE lines[b][i].quantity]]

LEMMA CommitIsEdit ==
    ASSUME IInv, NEW c \in Calls, CommitTotal(c)
    PROVE  Book!Put(Buyer(c)) \/ Book!Drop(Buyer(c))
<1> DEFINE b == Buyer(c)
           old == quantities[b]
           new == quantities'[b]
<1>1. /\ pc[c] = "totaling" /\ b \in Buyers /\ job[c] \in Put \cup Drop
      /\ job[c] \in Put => job[c].wish \in Wishes
      /\ job[c] \in Drop => job[c].item \in Items
  BY JobTypes DEF CommitTotal, IInv, InTx
<1>2. lines' = [lines EXCEPT ![b] = Seen(c)]
  BY DEF CommitTotal
<1>3. \A i \in Items :
          /\ old[i] = IF lines[b][i] = NoLine THEN NoLine ELSE lines[b][i].quantity
          /\ new[i] = IF Seen(c)[i] = NoLine THEN NoLine ELSE Seen(c)[i].quantity
          /\ writes[c][i] = Kept => new[i] = old[i]
          /\ writes[c][i] = NoLine => new[i] = NoLine
          /\ writes[c][i] \in Line => new[i] = writes[c][i].quantity
  BY <1>1, <1>2, SeenTypes, CartAssumption DEF IInv, RowsTyped, quantities
<1>4. quantities' = [quantities EXCEPT ![b] = new]
  BY <1>1, <1>2 DEF IInv, RowsTyped, quantities
<1> HIDE DEF old, new
<1>5. CASE job[c] \in Put /\ PutSoFar(c, Len(job[c].wish))
  <2>1. Book!Applied(job[c].wish, Len(job[c].wish), old, new)
    BY <1>3, <1>5 DEF PutSoFar, Book!Applied
  <2> QED
    BY <1>1, <1>4, <1>5, <2>1 DEF Book!Put, quantities, old, new
<1>6. CASE job[c] \in Drop /\ Dropped(c)
  <2>1. /\ quantities[b][job[c].item] # NoLine
        /\ \A i \in Items : new[i] = IF i = job[c].item THEN NoLine ELSE old[i]
    BY <1>1, <1>3, <1>6, CartAssumption DEF Dropped, IInv, RowsTyped, Line, Untouched, quantities
  <2>2. quantities' = [quantities EXCEPT ![b][job[c].item] = NoLine]
    BY <1>1, <1>4, <2>1 DEF quantities, old, new
  <2> QED
    BY <1>1, <1>6, <2>1, <2>2 DEF Book!Drop, quantities
<1> QED
  BY <1>1, <1>5, <1>6 DEF IInv, CallInv, Written

LEMMA StepIsEdit ==
    ASSUME IInv, [Next]_vars
    PROVE  [Book!Next]_quantities
<1>1. ASSUME lines' = lines PROVE quantities' = quantities
  BY <1>1 DEF quantities
<1>2. ASSUME NEW c \in Calls, CommitTotal(c)
      PROVE  Book!Next
  <2>1. Buyer(c) \in Buyers
    BY <1>2, JobTypes DEF CommitTotal, IInv, InTx
  <2>2. Book!Put(Buyer(c)) \/ Book!Drop(Buyer(c))
    BY <1>2, CommitIsEdit
  <2> QED
    BY <2>1, <2>2 DEF Book!Next, Book!Put, Book!Drop
<1> QED
  BY <1>1, <1>2, OnlyCommits

(* Cart implements CartBook: an edit is seen whole or not at all.           *)
THEOREM CartEditsAtomically == Spec => EditsAtomically
<1>1. Init => Book!Init
  <2> SUFFICES ASSUME Init PROVE Book!Init
    OBVIOUS
  <2>1. lines \in [Buyers -> [Items -> Line \cup {NoLine}]]
    BY InitInv DEF IInv, RowsTyped
  <2> QED
    BY <2>1 DEF Book!Init, Line
<1>2. IInv /\ [Next]_vars => [Book!Next]_quantities
  BY StepIsEdit
<1> QED
  BY <1>1, <1>2, Invariance, PTL DEF Spec, EditsAtomically, Book!Spec, quantities
================================================================================
