------------------------------- MODULE Purchases -------------------------------
(***************************************************************************)
(* What buyers do with the orders and the reviews of one product after the *)
(* purchase (src/review, and updateOrder and getOrders of src/orders):     *)
(* write a review, change or delete it, change an order, and page through  *)
(* the list of either.  Orders are placed in module Checkout.              *)
(*                                                                         *)
(* A step is one await.  The two tables are one map from ids to rows, as   *)
(* both are changed in the same way: by id, with what was read earlier.    *)
(* A review's id and a text are the request that wrote them.               *)
(***************************************************************************)
EXTENDS FiniteSets, Integers

CONSTANTS
    Calls,          \* requests, and clients that page through a list
    Buyers, Orders,
    Seeds,          \* reviews from before
    Fields,         \* of an order or a review
    Limit,          \* rows on a page
    First,          \* the text a field begins with
    Absent, Gone, NoJob

Reviews == Seeds \cup Calls
Ids == Orders \cup Reviews
Texts == Calls \cup {First}
Form == [Fields -> Texts]
Row == [buyer : Buyers, form : Form]

Create == [kind : {"create"}, buyer : Buyers]
Edit == [kind : {"edit"}, id : Ids, sent : SUBSET Fields, read : Form]
Remove == [kind : {"remove"}, id : Reviews]
Walk == [kind : {"walk"}, table : {Orders, Reviews}, whose : SUBSET Buyers,
         page : Nat, items : Nat]
Job == Create \cup Edit \cup Remove \cup Walk

ASSUME PurchasesAssumption ==
    /\ Orders \cap Reviews = {} /\ Seeds \cap Calls = {}
    /\ IsFiniteSet(Ids) /\ Limit \in Nat \ {0}
    /\ Absent \notin Row \cup {Gone} /\ Gone \notin Row
    /\ NoJob \notin Job

VARIABLES
    pc, job,
    row,        \* id -> row of an order or a review, or Absent or Gone
    older,      \* id -> itself and the ids of an earlier createdAt, once it has one
    shown,      \* call -> ids on the pages it was shown
    earlier,    \* history: the reviews there were when a review was let in
    outrun,     \* history: edits whose row was written since they read it
    due         \* history: rows a walk began with, no newer one deleted since

records == <<row, older>>
vars == <<pc, job, records, shown, earlier, outrun, due>>

Final == {"done", "rejected", "failed"}
Active == {"checking", "inserting", "editing", "removing", "reading", "counting"}
PC == {"idle"} \cup Active \cup Final

Exists(id) == row[id] \notin {Absent, Gone}
Stamped == {id \in Ids : older[id] # {}}
Existing == {id \in Ids : Exists(id)}
ReviewsOf(b) == {r \in Existing \cap Reviews : row[r].buyer = b}
OrdersOf(b) == {o \in Existing \cap Orders : row[o].buyer = b}
Fresh(b) == [buyer |-> b, form |-> [f \in Fields |-> First]]

(* Some orders and reviews are from before, one review at most of a buyer   *)
(* and only with an order, created one after the other.                     *)
Init ==
    /\ pc = [c \in Calls |-> "idle"]
    /\ job = [c \in Calls |-> NoJob]
    /\ row \in [Ids -> {Fresh(b) : b \in Buyers} \cup {Absent}]
    /\ \A c \in Calls : row[c] = Absent
    /\ \A r \in Seeds : Exists(r) =>
            ReviewsOf(row[r].buyer) = {r} /\ OrdersOf(row[r].buyer) # {}
    /\ \E rank \in [Existing -> 1..Cardinality(Existing)] :
        /\ \A x, y \in Existing : rank[x] = rank[y] => x = y
        /\ older = [x \in Ids |-> IF x \in Existing
                                 THEN {y \in Existing : rank[y] <= rank[x]} ELSE {}]
    /\ shown = [c \in Calls |-> {}]
    /\ earlier = [c \in Calls |-> {}]
    /\ outrun = {}
    /\ due = [c \in Calls |-> {}]

Goto(c, label) == pc' = [pc EXCEPT ![c] = label]
Begin(c, label, j) ==
    pc[c] = "idle" /\ Goto(c, label) /\ job' = [job EXCEPT ![c] = j]
(* An id that names no row.                                                 *)
NotFound(c) == pc[c] = "idle" /\ Goto(c, "rejected") /\ UNCHANGED job
Stamp(id) == older' = [older EXCEPT ![id] = Stamped \cup {id}]

--------------------------------------------------------------------------------
(* Checkout's transaction creates an order and commits it later.            *)
StampOrder(o) ==
    /\ row[o] = Absent /\ older[o] = {}
    /\ Stamp(o)
    /\ UNCHANGED <<pc, job, row, shown, earlier, outrun, due>>

PlaceOrder(o) ==
    /\ row[o] = Absent /\ older[o] # {}
    /\ \E b \in Buyers : row' = [row EXCEPT ![o] = Fresh(b)]
    /\ UNCHANGED <<pc, job, older, shown, earlier, outrun, due>>

(* createReview: is there an order of the buyer, whatever became of it, and *)
(* no review yet?  No unique key keeps two reviews apart.                   *)
BeginCreate(c) ==
    /\ \E b \in Buyers :
        Begin(c, IF OrdersOf(b) # {} THEN "checking" ELSE "rejected",
              [kind |-> "create", buyer |-> b])
    /\ UNCHANGED <<records, shown, earlier, outrun, due>>

LetIn(c) ==
    /\ Goto(c, "inserting") /\ Stamp(c)
    /\ earlier' = [earlier EXCEPT ![c] = Existing \cap Reviews]

(* Mutant of CheckReview: the reviews are not looked at.                    *)
CheckNothing(c) ==
    /\ pc[c] = "checking" /\ LetIn(c)
    /\ UNCHANGED <<job, row, shown, outrun, due>>

CheckReview(c) ==
    /\ pc[c] = "checking"
    /\ IF ReviewsOf(job[c].buyer) = {}
       THEN LetIn(c)
       ELSE Goto(c, "rejected") /\ UNCHANGED <<older, earlier>>
    /\ UNCHANGED <<job, row, shown, outrun, due>>

WriteReview(c) ==
    /\ pc[c] = "inserting"
    /\ Goto(c, "done")
    /\ row' = [row EXCEPT ![c] = [buyer |-> job[c].buyer, form |-> [f \in Fields |-> c]]]
    /\ UNCHANGED <<job, older, shown, earlier, outrun, due>>

--------------------------------------------------------------------------------
(* updateReview and updateOrder read the row and check whose it is ...      *)
BeginEdit(c) ==
    /\ \/ NotFound(c)
       \/ \E id \in Existing, sent \in SUBSET Fields, caller \in Buyers :
            Begin(c, IF caller = row[id].buyer THEN "editing" ELSE "rejected",
                  [kind |-> "edit", id |-> id, sent |-> sent, read |-> row[id].form])
    /\ UNCHANGED <<records, shown, earlier, outrun, due>>

(* Mutant of Merged: what was not sent is written, too.                     *)
Replaced(c) == [f \in Fields |-> c]

Merged(c) == [f \in Fields |-> IF f \in job[c].sent THEN c ELSE job[c].read[f]]

(* ... and write every field back by id, those that were not sent as read.  *)
WriteEdit(c) ==
    /\ pc[c] = "editing"
    /\ IF Exists(job[c].id)
       THEN /\ Goto(c, "done")
            /\ row' = [row EXCEPT ![job[c].id].form = Merged(c)]
            /\ outrun' = outrun \cup {d \in Calls : pc[d] = "editing" /\ job[d].id = job[c].id}
       ELSE Goto(c, "failed") /\ UNCHANGED <<row, outrun>>
    /\ UNCHANGED <<job, older, shown, earlier, due>>

(* deleteReview: the row and its owner are looked at, then deleted by id.   *)
BeginRemove(c) ==
    /\ \/ NotFound(c)
       \/ \E id \in Existing \cap Reviews, caller \in Buyers :
            Begin(c, IF caller = row[id].buyer THEN "removing" ELSE "rejected",
                  [kind |-> "remove", id |-> id])
    /\ UNCHANGED <<records, shown, earlier, outrun, due>>

DeleteReview(c) ==
    /\ pc[c] = "removing"
    /\ LET id == job[c].id IN
       IF Exists(id)
       THEN /\ Goto(c, "done")
            /\ row' = [row EXCEPT ![id] = Gone]
            /\ due' = [d \in Calls |-> due[d] \ older[id]]
       ELSE Goto(c, "failed") /\ UNCHANGED <<row, due>>
    /\ UNCHANGED <<job, older, shown, earlier, outrun>>

--------------------------------------------------------------------------------
(* A client asks for page after page of the product's reviews or of its own *)
(* orders, newest first, for as long as the answer says that there is more. *)
List(table, whose) == {id \in Existing \cap table : row[id].buyer \in whose}
Listed(c) == List(job[c].table, job[c].whose)
Newer(c, id) == {x \in Listed(c) : id \in older[x]} \ {id}

BeginWalk(c) ==
    /\ \E list \in {<<Reviews, Buyers>>} \cup {<<Orders, {b}>> : b \in Buyers} :
        /\ Begin(c, "reading", [kind |-> "walk", table |-> list[1], whose |-> list[2],
                                page |-> 1, items |-> 0])
        /\ due' = [due EXCEPT ![c] = List(list[1], list[2])]
    /\ UNCHANGED <<records, shown, earlier, outrun>>

ReadPage(c) ==
    LET items == {id \in Listed(c) :
                    Cardinality(Newer(c, id)) \div Limit = job[c].page - 1} IN
    /\ pc[c] = "reading"
    /\ Goto(c, "counting")
    /\ job' = [job EXCEPT ![c].items = Cardinality(items)]
    /\ shown' = [shown EXCEPT ![c] = @ \cup items]
    /\ UNCHANGED <<records, earlier, outrun, due>>

(* Mutant of More: one page too few.                                        *)
MoreThanNext(c) == (job[c].page + 1) * Limit < Cardinality(Listed(c))

(* meta.hasNextPage of the reviews, meta.totalPages of the orders.          *)
More(c) ==
    LET total == Cardinality(Listed(c)) IN
    IF job[c].table = Reviews
    THEN (job[c].page - 1) * Limit + job[c].items < total
    ELSE job[c].page * Limit < total

(* The rows are counted after the page was read, in a snapshot of its own.  *)
Count(c) ==
    /\ pc[c] = "counting"
    /\ IF More(c)
       THEN Goto(c, "reading") /\ job' = [job EXCEPT ![c].page = @ + 1]
       ELSE Goto(c, "done") /\ UNCHANGED job
    /\ UNCHANGED <<records, shown, earlier, outrun, due>>

Step(c) ==
    \/ BeginCreate(c) \/ CheckReview(c) \/ WriteReview(c)
    \/ BeginEdit(c) \/ WriteEdit(c)
    \/ BeginRemove(c) \/ DeleteReview(c)
    \/ BeginWalk(c) \/ ReadPage(c) \/ Count(c)

(* Every request has ended; a walk's pages are finite.                      *)
Quiet == \A c \in Calls : pc[c] \in Final
Finished == Quiet /\ (\A o \in Orders : row[o] # Absent) /\ UNCHANGED vars

Next ==
    \/ \E c \in Calls : Step(c)
    \/ \E o \in Orders : StampOrder(o) \/ PlaceOrder(o)
    \/ Finished

Spec == Init /\ [][Next]_vars

--------------------------------------------------------------------------------
TypeOK ==
    /\ pc \in [Calls -> PC]
    /\ job \in [Calls -> Job \cup {NoJob}]
    /\ row \in [Ids -> Row \cup {Absent, Gone}]
    /\ older \in [Ids -> SUBSET Ids]
    /\ shown \in [Calls -> SUBSET Ids]
    /\ earlier \in [Calls -> SUBSET Reviews]
    /\ outrun \subseteq Calls
    /\ due \in [Calls -> SUBSET Ids]

(* A buyer has two reviews of the product only if both requests were let in *)
(* before either review was there (review.service.ts:37-45): however often  *)
(* reviews are deleted and written again, nothing else doubles them.        *)
OneReviewUnlessCrossed ==
    \A r, s \in Existing \cap Reviews :
        /\ r # s /\ row[r].buyer = row[s].buyer
        => /\ {r, s} \subseteq Calls
           /\ r \notin earlier[s] /\ s \notin earlier[r]

(* A change of a review or an order leaves the fields that were not sent as *)
(* they are, unless another change of the row has overtaken it since it     *)
(* read them (review.service.ts:90-97, orders.service.ts:305-322).          *)
EditsKeepUnsent ==
    [][\A c \in Calls :
        pc[c] = "editing" /\ pc'[c] = "done" /\ c \notin outrun =>
            \A f \in Fields \ job[c].sent :
                row'[job[c].id].form[f] = row[job[c].id].form[f]]_vars

(* Who pages to the end has seen every row that was there from the start    *)
(* unless a newer one was deleted meanwhile: new rows push it to a later    *)
(* page and the count read after the page still leads there                 *)
(* (review.repository.ts:69-87, orders.repository.ts:90-111).               *)
WalkShowsAll ==
    \A c \in Calls :
        pc[c] = "done" /\ job[c].kind = "walk" => due[c] \subseteq shown[c]
================================================================================
