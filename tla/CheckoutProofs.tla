----------------------------- MODULE CheckoutProofs -----------------------------
(***************************************************************************)
(* Theorems about Checkout for any set of requests, products, baskets and  *)
(* quantities: its invariants, and that it implements Inventory.  The last *)
(* part is about the stores and who marked them as favorites (Stores).     *)
(***************************************************************************)
EXTENDS Checkout, Stores, SequenceTheorems, Sums, TLAPS

USE DEF Goto, Nothing

--------------------------------------------------------------------------------
(* The inductive invariant says of every request what it has done so far.  *)
BeforeCommit == {"idle", "user_ok"} \cup OpenTx

(* The request took the items before index n from the stock and no others. *)
TookBefore(r, n) ==
    /\ \A i \in DOMAIN Basket(r) :
          i < n => reserved[r][RowOf(Basket(r)[i])] = Basket(r)[i].quantity
    /\ \A k \in Rows :
          reserved[r][k] > 0 => \E i \in DOMAIN Basket(r) : i < n /\ RowOf(Basket(r)[i]) = k

Arrived(r) == pc[r] # "idle" => request[r] \in Request

NotStarted(r) ==
    pc[r] \in {"idle", "user_ok"} => reserved[r] = Nothing /\ next[r] = 1

InTransaction(r) ==
    pc[r] \in OpenTx =>
        /\ Basket(r) # << >>
        /\ DistinctProducts(Basket(r))
        /\ TookBefore(r, next[r])
        /\ pc[r] \in {"waiting", "short", "throwing"} => next[r] <= Len(Basket(r))
        /\ pc[r] = "written" => next[r] > Len(Basket(r))

Ordered(r) ==
    orders[r] # NoOrder =>
        /\ pc[r] \notin BeforeCommit
        /\ orders[r] = request[r]
        /\ TookBefore(r, Len(Basket(r)) + 1)

RequestInv(r) == Arrived(r) /\ NotStarted(r) /\ InTransaction(r) /\ Ordered(r)

(* No order holds a row that an open edit has deleted.                     *)
DeletedFree == \A r \in Requests, k \in deleted : ~ Holds(r, k)

IInv ==
    /\ TypeOK
    /\ \A r \in Requests : RequestInv(r)
    /\ ReservationsCovered
    /\ DeletedFree

--------------------------------------------------------------------------------
(* A basket is a sequence of items, and an item names a stock row.         *)
LEMMA BasketIsSeq ==
    ASSUME IInv, NEW r \in Requests, pc[r] # "idle"
    PROVE  /\ request[r] \in Request
           /\ Basket(r) \in Seq(Item)
           /\ \A i \in DOMAIN Basket(r) : Basket(r)[i] \in Item /\ RowOf(Basket(r)[i]) \in Rows
<1>1. request[r] \in Request /\ Basket(r) \in Seq(Item)
  BY CheckoutAssumption DEF IInv, RequestInv, Arrived, Basket, Request
<1>2. \A i \in DOMAIN Basket(r) : Basket(r)[i] \in Item
  BY <1>1
<1> QED
  BY <1>1, <1>2, CheckoutAssumption DEF RowOf, Item, Rows

(* A request in the middle of its items has a current item.                *)
LEMMA CurrentItemIsItem ==
    ASSUME IInv, NEW r \in Requests, pc[r] # "idle", next[r] <= Len(Basket(r))
    PROVE  /\ next[r] \in DOMAIN Basket(r)
           /\ CurrentItem(r) \in Item
           /\ CurrentItem(r).quantity \in Nat \ {0}
           /\ CurrentRow(r) \in Rows
<1>1. next[r] \in DOMAIN Basket(r)
  BY BasketIsSeq DEF IInv, TypeOK
<1> QED
  BY <1>1, BasketIsSeq DEF CurrentItem, CurrentRow, Item

(* A step that leaves a request's own variables alone keeps what is true   *)
(* of it.                                                                  *)
LEMMA Frame ==
    ASSUME IInv, NEW x \in Requests,
           pc'[x] = pc[x], request'[x] = request[x], next'[x] = next[x],
           reserved'[x] = reserved[x], orders'[x] = orders[x]
    PROVE  RequestInv(x)'
BY DEF IInv, RequestInv, Arrived, NotStarted, InTransaction, Ordered, TookBefore, Basket

(* A step that takes no stock and opens no transaction keeps every         *)
(* reservation covered.                                                    *)
LEMMA KeepCovered ==
    ASSUME IInv, stock' = stock, reserved' = reserved,
           \A x \in Requests : pc'[x] \in OpenTx => pc[x] \in OpenTx
    PROVE  ReservationsCovered'
BY DEF IInv, ReservationsCovered, Holds, Covers

(* A step by which no request comes to hold a row keeps the deleted rows    *)
(* free.                                                                   *)
LEMMA KeepFree ==
    ASSUME IInv, deleted' \subseteq deleted,
           \A x \in Requests, k \in Rows : Holds(x, k)' => Holds(x, k)
    PROVE  DeletedFree'
<1> SUFFICES ASSUME NEW x \in Requests, NEW k \in deleted', Holds(x, k)'
             PROVE  FALSE
  BY DEF DeletedFree
<1>1. k \in deleted /\ k \in Rows
  BY DEF IInv, TypeOK
<1> QED
  BY <1>1 DEF IInv, DeletedFree

LEMMA InitIInv == Init => IInv
<1> SUFFICES ASSUME Init PROVE IInv
  OBVIOUS
<1>1. TypeOK
  BY CheckoutAssumption DEF Init, TypeOK, PC, Quantity
<1>2. ASSUME NEW r \in Requests PROVE RequestInv(r)
  BY DEF Init, RequestInv, Arrived, NotStarted, InTransaction, Ordered, OpenTx
<1>3. ReservationsCovered /\ DeletedFree
  BY DEF Init, ReservationsCovered, DeletedFree, Holds, OpenTx
<1> QED
  BY <1>1, <1>2, <1>3 DEF IInv

--------------------------------------------------------------------------------
(* Each action keeps the inductive invariant.                              *)
LEMMA ReceiveStep ==
    ASSUME IInv, NEW r \in Requests, Receive(r)
    PROVE  IInv'
<1> USE DEF Receive, dbVars, sellerVars
<1>1. TypeOK'
  BY DEF IInv, TypeOK, PC, Final
<1>2. RequestInv(r)'
  BY DEF IInv, TypeOK, RequestInv, Arrived, NotStarted, InTransaction, Ordered, OpenTx, BeforeCommit
<1>3. \A x \in Requests \ {r} : RequestInv(x)'
  BY Frame DEF IInv, TypeOK
<1>4. ReservationsCovered'
  BY KeepCovered DEF IInv, TypeOK, OpenTx
<1>5. DeletedFree'
  BY KeepFree DEF IInv, TypeOK, Holds, OpenTx, sellerVars
<1> QED
  BY <1>1, <1>2, <1>3, <1>4, <1>5 DEF IInv

LEMMA LoadProductsStep ==
    ASSUME IInv, NEW r \in Requests, LoadProducts(r)
    PROVE  IInv'
<1> USE DEF LoadProducts, dbVars, txVars, sellerVars
<1>1. TypeOK'
  BY DEF IInv, TypeOK, PC, OpenTx, Final
<1>2. RequestInv(r)'
  <2>1. reserved[r] = Nothing /\ next[r] = 1 /\ request[r] \in Request /\ orders[r] = NoOrder
    BY DEF IInv, RequestInv, NotStarted, Arrived, Ordered, BeforeCommit
  <2>2. TookBefore(r, 1)'
    BY <2>1, BasketIsSeq DEF TookBefore, Basket
  <2> QED
    BY <2>1, <2>2 DEF IInv, TypeOK, RequestInv, Arrived, NotStarted, InTransaction, Ordered,
                      OpenTx, Basket
<1>3. \A x \in Requests \ {r} : RequestInv(x)'
  BY Frame DEF IInv, TypeOK
<1>4. ReservationsCovered'
  BY DEF IInv, TypeOK, RequestInv, NotStarted, ReservationsCovered, Holds, Covers, OpenTx
<1>5. DeletedFree'
  BY KeepFree DEF IInv, TypeOK, RequestInv, NotStarted, Holds, OpenTx, sellerVars
<1> QED
  BY <1>1, <1>2, <1>3, <1>4, <1>5 DEF IInv

LEMMA TakeItemStep ==
    ASSUME IInv, NEW r \in Requests, TakeItem(r)
    PROVE  IInv'
<1> USE DEF TakeItem, AtItem, dbVars, sellerVars
<1>0. /\ pc[r] # "idle" /\ pc[r] \in OpenTx
      /\ next[r] \in DOMAIN Basket(r)
      /\ CurrentItem(r).quantity \in Nat \ {0}
      /\ CurrentRow(r) \in Rows
  BY CurrentItemIsItem DEF OpenTx
<1>1. TypeOK'
  BY <1>0 DEF IInv, TypeOK, PC, OpenTx
<1>2. RequestInv(r)'
  <2> DEFINE b == Basket(r)
  <2>1. /\ reserved'[r] = [reserved[r] EXCEPT ![CurrentRow(r)] = CurrentItem(r).quantity]
        /\ next'[r] = next[r] + 1
        /\ pc'[r] = "reserving"
        /\ Basket(r)' = b
        /\ orders'[r] = NoOrder
        /\ reserved[r] \in [Rows -> Nat]
    BY <1>0 DEF IInv, TypeOK, Basket, RequestInv, Ordered, BeforeCommit
  <2>2. b # << >> /\ DistinctProducts(b) /\ TookBefore(r, next[r])
    BY <1>0 DEF IInv, RequestInv, InTransaction
  <2>3. ASSUME NEW i \in DOMAIN b, i < next[r] + 1
        PROVE  reserved'[r][RowOf(b[i])] = b[i].quantity
    <3>1. i \in Nat /\ next[r] \in Nat /\ RowOf(b[i]) \in Rows
      BY <1>0, BasketIsSeq DEF IInv, TypeOK
    <3>2. CASE i = next[r]
      BY <3>2, <2>1, <1>0 DEF CurrentRow, CurrentItem
    <3>3. CASE i < next[r]
      <4>1. RowOf(b[i]) # CurrentRow(r)
        BY <3>1, <3>3, <2>2, <1>0 DEF DistinctProducts, RowOf, CurrentRow, CurrentItem
      <4> QED
        BY <4>1, <3>1, <3>3, <2>1, <2>2 DEF TookBefore
    <3> QED
      BY <3>1, <3>2, <3>3, <2>3
  <2>4. ASSUME NEW k \in Rows, reserved'[r][k] > 0
        PROVE  \E i \in DOMAIN b : i < next[r] + 1 /\ RowOf(b[i]) = k
    <3>1. CASE k = CurrentRow(r)
      BY <3>1, <1>0 DEF IInv, TypeOK, CurrentRow, CurrentItem
    <3>2. CASE k # CurrentRow(r)
      <4>1. reserved[r][k] > 0
        BY <3>2, <2>1, <2>4
      <4>2. PICK i \in DOMAIN b : i < next[r] /\ RowOf(b[i]) = k
        BY <4>1, <2>2 DEF TookBefore
      <4> QED
        BY <4>2, <1>0, BasketIsSeq DEF IInv, TypeOK
    <3> QED
      BY <3>1, <3>2
  <2>5. TookBefore(r, next[r])'
    BY <2>1, <2>3, <2>4 DEF TookBefore, Rows
  <2> QED
    BY <1>0, <2>1, <2>2, <2>5 DEF IInv, RequestInv, Arrived, NotStarted, InTransaction, Ordered
<1>3. \A x \in Requests \ {r} : RequestInv(x)'
  BY Frame DEF IInv, TypeOK
<1>4. ReservationsCovered'
  BY <1>0 DEF IInv, TypeOK, ReservationsCovered, Holds, Free, Covers, OpenTx
<1>5. DeletedFree'
  BY <1>0 DEF IInv, TypeOK, DeletedFree, Holds, Free, OpenTx, sellerVars
<1> QED
  BY <1>1, <1>2, <1>3, <1>4, <1>5 DEF IInv

(* Steps that move only a label, or besides it points or the ledger.       *)
LEMMA LabelStep ==
    ASSUME IInv, NEW r \in Requests, NEW label \in PC, pc[r] \notin {"idle", "user_ok"},
           label \notin {"idle", "user_ok", "written"},
           pc' = [pc EXCEPT ![r] = label],
           label \in OpenTx <=> pc[r] \in OpenTx,
           label \in {"waiting", "short", "throwing"} => next[r] <= Len(Basket(r)),
           request' = request, next' = next, reserved' = reserved,
           stock' = stock, orders' = orders, deleted' = deleted
    PROVE  /\ \A x \in Requests : RequestInv(x)'
           /\ ReservationsCovered'
           /\ DeletedFree'
<1>1. pc'[r] = label
  BY DEF IInv, TypeOK
<1>2. RequestInv(r)'
  BY <1>1 DEF IInv, RequestInv, Arrived, NotStarted, InTransaction, Ordered, TookBefore, Basket,
              BeforeCommit
<1>3. \A x \in Requests \ {r} : RequestInv(x)'
  BY Frame DEF IInv, TypeOK
<1>4. ReservationsCovered'
  BY <1>1, KeepCovered DEF IInv, TypeOK
<1>5. DeletedFree'
  BY <1>1, KeepFree DEF IInv, TypeOK, Holds
<1> QED
  BY <1>2, <1>3, <1>4, <1>5

LEMMA AwaitRowStep ==
    ASSUME IInv, NEW r \in Requests, AwaitRow(r)
    PROVE  IInv'
<1> USE DEF AwaitRow, AtItem, dbVars, txVars, sellerVars
<1>1. TypeOK'
  BY DEF IInv, TypeOK, PC, OpenTx
<1>2. (\A x \in Requests : RequestInv(x)') /\ ReservationsCovered' /\ DeletedFree'
  BY LabelStep DEF PC, OpenTx
<1> QED
  BY <1>1, <1>2 DEF IInv

LEMMA MissItemStep ==
    ASSUME IInv, NEW r \in Requests, MissItem(r)
    PROVE  IInv'
<1> USE DEF MissItem, AtItem, dbVars, txVars, sellerVars
<1>1. TypeOK'
  BY DEF IInv, TypeOK, PC, OpenTx
<1>2. (\A x \in Requests : RequestInv(x)') /\ ReservationsCovered' /\ DeletedFree'
  BY LabelStep DEF PC, OpenTx
<1> QED
  BY <1>1, <1>2 DEF IInv

LEMMA NotifyShortageStep ==
    ASSUME IInv, NEW r \in Requests, NotifyShortage(r)
    PROVE  IInv'
<1> USE DEF NotifyShortage, dbVars, sellerVars
<1>1. next[r] <= Len(Basket(r))
  BY DEF IInv, RequestInv, InTransaction, OpenTx
<1>2. CurrentItem(r).product \in Products /\ request[r].buyer \in Buyers
  BY <1>1, CurrentItemIsItem, BasketIsSeq DEF Item, Request
<1>3. drafts' \in [Requests -> SUBSET NoticeSet]
  BY <1>2 DEF IInv, TypeOK, NoticeSet, Notice
<1>4. TypeOK'
  BY <1>3 DEF IInv, TypeOK, PC, OpenTx
<1>5. (\A x \in Requests : RequestInv(x)') /\ ReservationsCovered' /\ DeletedFree'
  BY <1>1, LabelStep DEF PC, OpenTx
<1> QED
  BY <1>4, <1>5 DEF IInv

LEMMA WriteOrderStep ==
    ASSUME IInv, NEW r \in Requests, WriteOrder(r)
    PROVE  IInv'
<1> USE DEF WriteOrder, dbVars, sellerVars
<1>1. ZeroStocks(r) \subseteq Rows
  <2>1. \A i \in ToSet(Basket(r)) : i.product \in Products /\ StringOf[i.size] \in Sizes
    BY BasketIsSeq, CheckoutAssumption DEF ToSet, Item
  <2> QED
    BY <2>1 DEF ZeroStocks, Rows
<1>2. drafts' \in [Requests -> SUBSET NoticeSet]
  BY <1>1 DEF IInv, TypeOK, NoticeSet, Notice, Rows
<1>3. TypeOK'
  BY <1>2 DEF IInv, TypeOK, PC, OpenTx
<1>4. RequestInv(r)'
  BY DEF IInv, TypeOK, RequestInv, Arrived, NotStarted, InTransaction, Ordered, TookBefore, Basket,
         BeforeCommit, OpenTx
<1>5. \A x \in Requests \ {r} : RequestInv(x)'
  BY Frame DEF IInv, TypeOK
<1>6. ReservationsCovered'
  BY KeepCovered DEF IInv, TypeOK, OpenTx
<1>7. DeletedFree'
  BY KeepFree DEF IInv, TypeOK, Holds, OpenTx
<1> QED
  BY <1>3, <1>4, <1>5, <1>6, <1>7 DEF IInv

(* The rows a transaction took still cover what it took.                   *)
LEMMA LeftIsQuantity ==
    ASSUME IInv, NEW r \in Requests, pc[r] = "written", NEW k \in Rows
    PROVE  /\ Left(r, k) \in Quantity
           /\ reserved[r][k] \in Nat
           /\ reserved[r][k] > 0 => Covers(k, reserved[r][k])
<1>1. reserved[r][k] > 0 => Covers(k, reserved[r][k])
  BY DEF IInv, ReservationsCovered, Holds, OpenTx
<1>2. reserved[r][k] \in Nat /\ stock[k] \in Quantity
  BY DEF IInv, TypeOK
<1> QED
  BY <1>1, <1>2 DEF Left, Covers, Quantity

LEMMA CommitStep ==
    ASSUME IInv, NEW r \in Requests, Commit(r)
    PROVE  IInv'
<1> USE DEF Commit, sellerVars
<1>1. TypeOK'
  <2>1. stock' \in [Rows -> Quantity]
    BY LeftIsQuantity
  <2>2. notifications' \subseteq NoticeSet
    BY DEF IInv, TypeOK
  <2>3. request[r] \in Request
    BY BasketIsSeq
  <2> QED
    BY <2>1, <2>2, <2>3 DEF IInv, TypeOK, PC
<1>2. RequestInv(r)'
  <2>1. TookBefore(r, Len(Basket(r)) + 1)
    BY BasketIsSeq DEF IInv, TypeOK, RequestInv, InTransaction, OpenTx, TookBefore
  <2>2. TookBefore(r, Len(Basket(r)) + 1)'
    BY <2>1 DEF TookBefore, Basket
  <2> QED
    BY <2>2 DEF IInv, TypeOK, RequestInv, Arrived, NotStarted, InTransaction, Ordered,
                BeforeCommit, OpenTx, Basket
<1>3. \A x \in Requests \ {r} : RequestInv(x)'
  BY Frame DEF IInv, TypeOK
<1>4. ReservationsCovered'
  <2> SUFFICES ASSUME NEW x \in Requests, NEW k \in Rows, Holds(x, k)'
               PROVE  Covers(k, reserved[x][k])' /\ \A y \in Requests \ {x} : ~ Holds(y, k)'
    BY DEF ReservationsCovered
  <2>1. x # r /\ Holds(x, k)
    BY DEF IInv, TypeOK, Holds, OpenTx
  <2>2. Covers(k, reserved[x][k]) /\ \A y \in Requests \ {x} : ~ Holds(y, k)
    BY <2>1 DEF IInv, ReservationsCovered
  <2>3. stock'[k] = stock[k]
    BY <2>1, <2>2, LeftIsQuantity DEF Holds, OpenTx, Left
  <2> QED
    BY <2>2, <2>3 DEF IInv, TypeOK, Covers, Holds, OpenTx
<1>5. DeletedFree'
  BY KeepFree DEF IInv, TypeOK, Holds, OpenTx, sellerVars
<1> QED
  BY <1>1, <1>2, <1>3, <1>4, <1>5 DEF IInv

LEMMA SpendStep ==
    ASSUME IInv, NEW r \in Requests, Spend(r)
    PROVE  IInv'
<1> USE DEF Spend, txVars, sellerVars
<1>1. request[r].buyer \in Buyers /\ request[r].usePoint \in Int
  BY BasketIsSeq, CheckoutAssumption DEF Request
<1>2. points' \in [Buyers -> Nat] /\ ledger' \in [Requests -> Nat]
  <2> DEFINE b == request[r].buyer
             amount == request[r].usePoint
  <2>1. CASE UNCHANGED <<points, ledger>>
    BY <2>1 DEF IInv, TypeOK
  <2>2. CASE /\ amount > 0 /\ points[b] >= amount
             /\ points' = [points EXCEPT ![b] = @ - amount]
             /\ ledger' = [ledger EXCEPT ![r] = amount]
    <3>1. amount \in Nat /\ points[b] - amount \in Nat
      BY <1>1, <2>2 DEF IInv, TypeOK
    <3> QED
      BY <2>2, <3>1 DEF IInv, TypeOK
  <2> QED
    BY <2>1, <2>2
<1>3. PICK label \in {"settled", "overdrawn"} : pc' = [pc EXCEPT ![r] = label]
  OBVIOUS
<1>4. TypeOK'
  BY <1>2, <1>3 DEF IInv, TypeOK, PC, Final
<1>5. (\A x \in Requests : RequestInv(x)') /\ ReservationsCovered' /\ DeletedFree'
  BY <1>3, LabelStep DEF PC, OpenTx, Final
<1> QED
  BY <1>4, <1>5 DEF IInv

LEMMA RespondStep ==
    ASSUME IInv, NEW r \in Requests, Respond(r)
    PROVE  IInv'
<1> USE DEF Respond, dbVars, txVars, sellerVars
<1>1. TypeOK'
  BY DEF IInv, TypeOK, PC, Final
<1>2. (\A x \in Requests : RequestInv(x)') /\ ReservationsCovered' /\ DeletedFree'
  BY LabelStep DEF PC, OpenTx, Final
<1> QED
  BY <1>1, <1>2 DEF IInv

LEMMA FailAfterCommitStep ==
    ASSUME IInv, NEW r \in Requests, FailAfterCommit(r)
    PROVE  IInv'
<1> USE DEF FailAfterCommit, dbVars, txVars, sellerVars
<1>1. TypeOK'
  BY DEF IInv, TypeOK, PC, Final
<1>2. (\A x \in Requests : RequestInv(x)') /\ ReservationsCovered' /\ DeletedFree'
  BY LabelStep DEF PC, OpenTx, Final
<1> QED
  BY <1>1, <1>2 DEF IInv

LEMMA RollbackStep ==
    ASSUME IInv, NEW r \in Requests, NEW label \in Final,
           pc[r] \in {"user_ok"} \cup OpenTx, RollbackTo(r, label)
    PROVE  IInv'
<1> USE DEF RollbackTo, dbVars, sellerVars
<1>1. TypeOK'
  BY DEF IInv, TypeOK, PC
<1>2. RequestInv(r)'
  BY DEF IInv, TypeOK, RequestInv, Arrived, NotStarted, InTransaction, Ordered, BeforeCommit,
         OpenTx, Final
<1>3. \A x \in Requests \ {r} : RequestInv(x)'
  BY Frame DEF IInv, TypeOK
<1>4. ReservationsCovered'
  BY DEF IInv, TypeOK, ReservationsCovered, Holds, Covers, OpenTx, Final
<1>5. DeletedFree'
  BY KeepFree DEF IInv, TypeOK, Holds, OpenTx, sellerVars, Final
<1> QED
  BY <1>1, <1>2, <1>3, <1>4, <1>5 DEF IInv

LEMMA ReplaceStockStep ==
    ASSUME IInv, NEW p \in Products, ReplaceStock(p)
    PROVE  IInv'
<1> USE DEF ReplaceStock, EndEdit, txVars
<1>1. TypeOK'
  <2>1. stock' \in [Rows -> Quantity]
    BY CheckoutAssumption DEF IInv, TypeOK, Rows, Quantity
  <2> QED
    BY <2>1 DEF IInv, TypeOK, PC, OpenTx
<1>2. ASSUME NEW x \in Requests PROVE RequestInv(x)'
  <2>1. pc'[x] = pc[x] \/ (pc[x] = "waiting" /\ pc'[x] = "short")
    BY DEF IInv, TypeOK
  <2>2. CASE pc'[x] = pc[x]
    BY <2>2, Frame
  <2>3. CASE pc[x] = "waiting" /\ pc'[x] = "short"
    BY <2>3 DEF IInv, RequestInv, Arrived, NotStarted, InTransaction, Ordered, TookBefore, Basket,
                BeforeCommit, OpenTx
  <2> QED
    BY <2>1, <2>2, <2>3
<1>3. ReservationsCovered'
  <2> SUFFICES ASSUME NEW x \in Requests, NEW k \in Rows, Holds(x, k)'
               PROVE  Covers(k, reserved[x][k])' /\ \A y \in Requests \ {x} : ~ Holds(y, k)'
    BY DEF ReservationsCovered
  <2>1. \A y \in Requests : Holds(y, k)' => Holds(y, k)
    BY DEF IInv, TypeOK, Holds, OpenTx
  <2>2. Covers(k, reserved[x][k]) /\ \A y \in Requests \ {x} : ~ Holds(y, k)
    BY <2>1 DEF IInv, ReservationsCovered
  <2>3. k[1] # p
    <3>1. k = <<k[1], k[2]>> /\ k[2] \in Sizes /\ k \notin deleted
      BY <2>1 DEF Rows, IInv, DeletedFree
    <3> QED
      BY <2>2, <3>1 DEF Covers
  <2>4. stock'[k] = stock[k]
    BY <2>3
  <2> QED
    BY <2>1, <2>2, <2>4 DEF Covers
<1>4. DeletedFree'
  BY KeepFree DEF IInv, TypeOK, Holds, OpenTx
<1> QED
  BY <1>1, <1>2, <1>3, <1>4 DEF IInv

(* The other steps of an edit touch only the edits' own variables.         *)
SellerStep(p) == BeginEdit(p) \/ DeleteRow(p) \/ RollbackEdit(p)

LEMMA SellerLeaves ==
    ASSUME NEW p \in Products, SellerStep(p)
    PROVE  UNCHANGED <<pc, txVars, dbVars, replaced>>
BY DEF SellerStep, BeginEdit, DeleteRow, RollbackEdit

LEMMA SellerStepInv ==
    ASSUME IInv, NEW p \in Products, SellerStep(p)
    PROVE  IInv'
<1>1. UNCHANGED <<pc, txVars, dbVars, replaced>>
  BY SellerLeaves
<1>2. editing' \subseteq Products /\ deleted' \subseteq Rows /\ edits' \in [Products -> Nat]
  <2>1. CASE BeginEdit(p)
    BY <2>1 DEF BeginEdit, IInv, TypeOK
  <2>2. CASE DeleteRow(p)
    BY <2>2 DEF DeleteRow, IInv, TypeOK, Rows
  <2>3. CASE RollbackEdit(p)
    BY <2>3 DEF RollbackEdit, EndEdit, IInv, TypeOK
  <2> QED
    BY <2>1, <2>2, <2>3 DEF SellerStep
<1>3. TypeOK'
  BY <1>1, <1>2 DEF IInv, TypeOK, txVars, dbVars
<1>4. ASSUME NEW x \in Requests PROVE RequestInv(x)'
  BY <1>1, Frame DEF txVars, dbVars
<1>5. ReservationsCovered'
  BY <1>1, KeepCovered DEF txVars, dbVars
<1>6. DeletedFree'
  BY <1>1 DEF SellerStep, BeginEdit, DeleteRow, RollbackEdit, EndEdit, txVars,
              IInv, DeletedFree, Free, Holds
<1> QED
  BY <1>3, <1>4, <1>5, <1>6 DEF IInv

LEMMA NextIInv == IInv /\ [Next]_vars => IInv'
<1> SUFFICES ASSUME IInv, [Next]_vars PROVE IInv'
  OBVIOUS
<1>1. ASSUME NEW r \in Requests, Serve(r) PROVE IInv'
  <2>1. CASE Refuse(r)
    BY <2>1, RollbackStep DEF Refuse, OpenTx, Final
  <2>2. CASE DeadlockAbort(r)
    <3>1. pc[r] = "waiting"
      BY <2>2 DEF DeadlockAbort, Deadlocked, Cycle, WaitsFor, WaitsForEdit
    <3> QED
      BY <2>2, <3>1, RollbackStep DEF DeadlockAbort, OpenTx, Final
  <2> QED
    BY <1>1, <2>1, <2>2, LoadProductsStep, TakeItemStep, AwaitRowStep, MissItemStep,
       NotifyShortageStep, WriteOrderStep, CommitStep, SpendStep, RespondStep DEF Serve
<1>2. ASSUME NEW r \in Requests, FailBeforeCommit(r) PROVE IInv'
  BY <1>2, RollbackStep DEF FailBeforeCommit, Final
<1>3. CASE UNCHANGED vars
  <2>1. ASSUME NEW x \in Requests PROVE RequestInv(x)'
    BY <1>3, Frame DEF vars
  <2>2. TypeOK'
    BY <1>3 DEF IInv, TypeOK, vars, sellerVars
  <2>3. ReservationsCovered' /\ DeletedFree'
    BY <1>3, KeepCovered, KeepFree DEF vars, sellerVars, Holds
  <2> QED
    BY <2>1, <2>2, <2>3 DEF IInv
<1>4. ASSUME NEW p \in Products, BeginEdit(p) \/ ServeEdit(p) \/ RollbackEdit(p) PROVE IInv'
  BY <1>4, ReplaceStockStep, SellerStepInv DEF ServeEdit, AbortEdit, SellerStep
<1> QED
  BY <1>1, <1>2, <1>3, <1>4, ReceiveStep, FailAfterCommitStep DEF Next, Rest

THEOREM Invariance == Spec => []IInv
<1> QED
  BY InitIInv, NextIInv, PTL DEF Spec

--------------------------------------------------------------------------------
(* Every variable keeps its type: in particular no stock, balance or ledger *)
(* entry ever becomes negative.                                            *)
THEOREM TypeCorrect == Spec => []TypeOK
<1>1. IInv => TypeOK
  BY DEF IInv
<1> QED
  BY <1>1, Invariance, PTL

(* What an open transaction took is still in the row and is its own.       *)
THEOREM ReservationsStayCovered == Spec => []ReservationsCovered
<1>1. IInv => ReservationsCovered
  BY DEF IInv
<1> QED
  BY <1>1, Invariance, PTL

(* A committed order took exactly its items from the stock.                *)
THEOREM OrdersMatchStock == Spec => []OrderMatchesStock
<1>1. IInv => OrderMatchesStock
  <2> SUFFICES ASSUME IInv, NEW r \in Requests, orders[r] # NoOrder
               PROVE  /\ \A i \in DOMAIN orders[r].items :
                            reserved[r][RowOf(orders[r].items[i])] = orders[r].items[i].quantity
                      /\ \A k \in Rows :
                            reserved[r][k] > 0 =>
                                \E i \in DOMAIN orders[r].items : RowOf(orders[r].items[i]) = k
    BY DEF OrderMatchesStock
  <2>1. orders[r].items = Basket(r) /\ TookBefore(r, Len(Basket(r)) + 1) /\ pc[r] # "idle"
    BY DEF IInv, RequestInv, Ordered, BeforeCommit, Basket
  <2>2. \A i \in DOMAIN Basket(r) : i < Len(Basket(r)) + 1
    BY <2>1, BasketIsSeq
  <2> QED
    BY <2>1, <2>2 DEF TookBefore
<1> QED
  BY <1>1, Invariance, PTL

--------------------------------------------------------------------------------
(* Checkout implements Inventory: only a commit of an order or a seller's   *)
(* edit changes the stock, and a commit takes all of the order's items.     *)
Taken == [r \in Requests |-> IF orders[r] # NoOrder THEN reserved[r] ELSE Nothing]

LEMMA CommitSells ==
    ASSUME IInv, NEW r \in Requests, Commit(r)
    PROVE  Store!Sell(r)
<1> USE DEF Commit, Store!Nothing, Store!Rows, Rows
<1>1. /\ orders[r] = NoOrder
      /\ request[r] \in Request
      /\ TookBefore(r, next[r]) /\ next[r] > Len(Basket(r)) /\ Basket(r) # << >>
  BY BasketIsSeq DEF IInv, RequestInv, InTransaction, Ordered, OpenTx, BeforeCommit
<1>2. Taken[r] = Nothing
  BY <1>1 DEF Taken
<1>3. Taken'[r] = reserved[r] /\ Taken' = [Taken EXCEPT ![r] = reserved[r]]
  BY <1>1, CheckoutAssumption DEF IInv, TypeOK, Taken
<1>4. reserved[r] \in [Rows -> Nat] \ {Nothing}
  <2>0. Basket(r) \in Seq(Item) /\ Len(Basket(r)) \in Nat
    BY BasketIsSeq
  <2>1. 1 \in DOMAIN Basket(r) /\ 1 < next[r] /\ Basket(r)[1] \in Item
    <3>1. Len(Basket(r)) # 0
      BY <2>0, <1>1, EmptySeq
    <3> QED
      BY <2>0, <3>1, <1>1 DEF IInv, TypeOK
  <2>2. RowOf(Basket(r)[1]) \in Rows /\ reserved[r][RowOf(Basket(r)[1])] # 0
    BY <1>1, <2>1, BasketIsSeq DEF TookBefore, Item
  <2> QED
    BY <2>2 DEF IInv, TypeOK
<1>5. \A k \in Rows : reserved[r][k] > 0 => stock[k] # NoRow /\ stock[k] >= reserved[r][k]
  BY LeftIsQuantity DEF Covers
<1>6. stock' = [k \in Rows |-> IF reserved[r][k] > 0 THEN stock[k] - reserved[r][k] ELSE stock[k]]
  BY DEF Left
<1> QED
  BY <1>2, <1>3, <1>4, <1>5, <1>6 DEF Store!Sell, Taken

(* Nothing else a request does changes the stock or the orders.            *)
LEMMA OtherStepsSellNothing ==
    ASSUME IInv, NEW r \in Requests,
           \/ Receive(r) \/ FailBeforeCommit(r) \/ FailAfterCommit(r)
           \/ Serve(r) /\ ~ Commit(r)
    PROVE  stock' = stock /\ Taken' = Taken
<1>1. stock' = stock /\ orders' = orders
  BY DEF Receive, FailBeforeCommit, FailAfterCommit, Serve, LoadProducts, TakeItem, AwaitRow,
         MissItem, NotifyShortage, Refuse, WriteOrder, Spend, Respond, DeadlockAbort, RollbackTo,
         dbVars
<1>2. ASSUME NEW x \in Requests, orders[x] # NoOrder PROVE reserved'[x] = reserved[x]
  <2>1. pc[x] \notin BeforeCommit
    BY <1>2 DEF IInv, RequestInv, Ordered
  <2>2. CASE reserved' = reserved
    BY <2>2
  <2>3. CASE TakeItem(r)
    BY <2>1, <2>3 DEF IInv, TypeOK, TakeItem, AtItem, BeforeCommit, OpenTx
  <2>4. CASE Refuse(r) \/ DeadlockAbort(r) \/ FailBeforeCommit(r)
    BY <2>1, <2>4 DEF IInv, TypeOK, Refuse, DeadlockAbort, Deadlocked, Cycle, WaitsFor,
       WaitsForEdit, FailBeforeCommit,
       RollbackTo, BeforeCommit, OpenTx
  <2> QED
    BY <2>2, <2>3, <2>4 DEF Receive, FailAfterCommit, Serve, LoadProducts, AwaitRow, MissItem,
       NotifyShortage, WriteOrder, Spend, Respond, txVars
<1> QED
  BY <1>1, <1>2 DEF Taken

LEMMA StepRefines == IInv /\ [Next]_vars => [Store!Next]_(Store!vars)
<1> SUFFICES ASSUME IInv, [Next]_vars PROVE [Store!Next]_(Store!vars)
  OBVIOUS
<1> USE DEF Store!vars, Store!Next
<1>1. ASSUME NEW r \in Requests, Commit(r) PROVE Store!Next
  BY <1>1, CommitSells
<1>2. ASSUME NEW p \in Products, ReplaceStock(p) PROVE Store!Next
  <2>1. PICK new \in [Sizes -> Levels] :
          stock' = [k \in Rows |-> IF k[1] = p THEN new[k[2]] ELSE stock[k]]
    BY <1>2 DEF ReplaceStock
  <2>2. Taken' = Taken
    BY <1>2 DEF ReplaceStock, txVars, Taken
  <2> QED
    BY <2>1, <2>2 DEF Store!Replace, Store!Rows, Rows, Taken
<1>3. CASE UNCHANGED vars
  BY <1>3 DEF vars
<1>4. ASSUME NEW r \in Requests,
             \/ Receive(r) \/ FailBeforeCommit(r) \/ FailAfterCommit(r)
             \/ Serve(r) /\ ~ Commit(r)
      PROVE  UNCHANGED Store!vars
  BY <1>4, OtherStepsSellNothing DEF Taken
<1>5. ASSUME NEW p \in Products, SellerStep(p) PROVE UNCHANGED Store!vars
  BY <1>5, SellerLeaves DEF txVars, dbVars
<1> QED
  BY <1>1, <1>2, <1>3, <1>4, <1>5 DEF Next, Rest, ServeEdit, AbortEdit, SellerStep

THEOREM CheckoutSellsAtomically == Spec => SellsAtomically
<1>1. Init => Store!Init
  BY CheckoutAssumption DEF Init, Store!Init, Store!Rows, Store!Nothing, Rows
<1> QED
  BY <1>1, StepRefines, Invariance, PTL DEF Spec, SellsAtomically, Store!Spec

--------------------------------------------------------------------------------
(* An order is logged as paid with points exactly when its request is past *)
(* the deduction.                                                          *)
Due(r) == IF request[r].usePoint > 0 THEN request[r].usePoint ELSE 0

PaidInv ==
    \A r \in Requests :
        /\ pc[r] \in BeforeCommit \cup {"placed"} => ledger[r] = 0
        /\ pc[r] \in {"placed", "settled", "done"} => orders[r] = request[r]
        /\ pc[r] \in {"settled", "done"} => ledger[r] = Due(r)

LEMMA PaidStep == IInv /\ PaidInv /\ [Next]_vars => PaidInv'
<1> SUFFICES ASSUME IInv, PaidInv, [Next]_vars, NEW x \in Requests
             PROVE  /\ pc'[x] \in BeforeCommit \cup {"placed"} => ledger'[x] = 0
                    /\ pc'[x] \in {"placed", "settled", "done"} => orders'[x] = request'[x]
                    /\ pc'[x] \in {"settled", "done"} => ledger'[x] = Due(x)'
  BY DEF PaidInv
<1> DEFINE Goal ==
      /\ pc'[x] \in BeforeCommit \cup {"placed"} => ledger'[x] = 0
      /\ pc'[x] \in {"placed", "settled", "done"} => orders'[x] = request'[x]
      /\ pc'[x] \in {"settled", "done"} => ledger'[x] = Due(x)'
<1> USE DEF IInv, TypeOK, PaidInv, Due, BeforeCommit
<1>1. CASE UNCHANGED <<pc[x], request[x], ledger[x], orders[x]>>
  BY <1>1
<1>2. ASSUME NEW r \in Requests, Receive(r) PROVE Goal
  BY <1>2 DEF Receive, dbVars, OpenTx
<1>3. ASSUME NEW r \in Requests, LoadProducts(r) PROVE Goal
  BY <1>3 DEF LoadProducts, txVars, dbVars, OpenTx
<1>4. ASSUME NEW r \in Requests,
             TakeItem(r) \/ AwaitRow(r) \/ MissItem(r) \/ NotifyShortage(r) \/ WriteOrder(r)
      PROVE  Goal
  BY <1>4 DEF TakeItem, AwaitRow, MissItem, NotifyShortage, WriteOrder, AtItem, txVars, dbVars, OpenTx
<1>5. ASSUME NEW r \in Requests, NEW label \in Final \ {"done"}, RollbackTo(r, label) PROVE Goal
  BY <1>5 DEF RollbackTo, dbVars, OpenTx, Final
<1>6. ASSUME NEW r \in Requests, Commit(r) PROVE Goal
  BY <1>6 DEF Commit, OpenTx
<1>7. ASSUME NEW r \in Requests, Spend(r) PROVE Goal
  <2>1. request[r] \in Request /\ request[r].usePoint \in Int
    BY <1>7, BasketIsSeq, CheckoutAssumption DEF Spend, Request
  <2> QED
    BY <1>7, <2>1 DEF Spend, txVars, OpenTx
<1>8. ASSUME NEW r \in Requests, Respond(r) \/ FailAfterCommit(r) PROVE Goal
  BY <1>8 DEF Respond, FailAfterCommit, txVars, dbVars, OpenTx
<1>9. ASSUME NEW p \in Products, ReplaceStock(p) \/ SellerStep(p) PROVE Goal
  BY <1>9, SellerLeaves DEF ReplaceStock, txVars, dbVars, OpenTx
<1>10. CASE UNCHANGED vars
  BY <1>1, <1>10 DEF vars
<1> QED
  BY <1>2, <1>3, <1>4, <1>5, <1>6, <1>7, <1>8, <1>9, <1>10
     DEF Next, Serve, Refuse, DeadlockAbort, FailBeforeCommit, Rest, Final, ServeEdit, AbortEdit,
         SellerStep

(* A caller told the order succeeded has the order, paid with the points it *)
(* asked to use.                                                           *)
THEOREM SuccessIsAlwaysSettled == Spec => []SuccessIsSettled
<1>1. Init => PaidInv
  BY DEF Init, PaidInv
<1>2. PaidInv => SuccessIsSettled
  BY DEF PaidInv, SuccessIsSettled, Due
<1> QED
  BY <1>1, <1>2, PaidStep, Invariance, PTL DEF Spec

--------------------------------------------------------------------------------
(* Between its query for empty rows and its commit, a transaction's alerts *)
(* stay right about the rows it took, because it holds them.               *)
SoldOutNotice(r, k) == Notice("OUT_OF_STOCK_SELLER", StoreOf[k[1]], k[1], r)

AlertInv ==
    \A r \in Requests, k \in Rows :
        pc[r] = "written" /\ reserved[r][k] > 0 /\ Left(r, k) = 0 => SoldOutNotice(r, k) \in drafts[r]

LEMMA HeldRowStays ==
    ASSUME IInv, [Next]_vars, NEW r \in Requests, pc[r] = "written", pc'[r] = "written",
           NEW k \in Rows, reserved[r][k] > 0
    PROVE  stock'[k] = stock[k]
<1> USE DEF OpenTx
<1>1. Holds(r, k)
  BY DEF Holds
<1>2. ASSUME NEW x \in Requests, Commit(x) PROVE stock'[k] = stock[k]
  <2>1. x # r
    BY <1>2 DEF Commit, IInv, TypeOK
  <2>2. ~ Holds(x, k)
    BY <1>1, <2>1 DEF IInv, ReservationsCovered
  <2> QED
    BY <1>2, <2>2, LeftIsQuantity DEF Commit, Holds, Left
<1>3. ASSUME NEW p \in Products, ReplaceStock(p) PROVE stock'[k] = stock[k]
  <2>1. k = <<k[1], k[2]>> /\ k[2] \in Sizes /\ k \notin deleted /\ stock[k] # NoRow
    BY <1>1 DEF Rows, IInv, DeletedFree, ReservationsCovered, Covers
  <2> QED
    BY <1>3, <2>1 DEF ReplaceStock
<1> QED
  BY <1>2, <1>3, OtherStepsSellNothing, SellerLeaves
     DEF Next, Rest, vars, dbVars, ServeEdit, AbortEdit, SellerStep

LEMMA WrittenStays ==
    ASSUME IInv, [Next]_vars, NEW r \in Requests, pc'[r] = "written", ~ WriteOrder(r)
    PROVE  pc[r] = "written" /\ reserved'[r] = reserved[r] /\ drafts'[r] = drafts[r]
<1> USE DEF IInv, TypeOK
<1>1. CASE UNCHANGED vars
  BY <1>1 DEF vars
<1>2. ASSUME NEW p \in Products, ReplaceStock(p) \/ SellerStep(p)
      PROVE  pc[r] = "written" /\ UNCHANGED txVars
  BY <1>2, SellerLeaves DEF ReplaceStock
<1>3. ASSUME NEW x \in Requests, Receive(x) \/ LoadProducts(x) \/ FailAfterCommit(x)
      PROVE  pc[r] = "written" /\ reserved'[r] = reserved[r] /\ drafts'[r] = drafts[r]
  BY <1>3 DEF Receive, LoadProducts, FailAfterCommit, txVars, dbVars
<1>4. ASSUME NEW x \in Requests, TakeItem(x) \/ AwaitRow(x) \/ MissItem(x) \/ NotifyShortage(x)
      PROVE  pc[r] = "written" /\ reserved'[r] = reserved[r] /\ drafts'[r] = drafts[r]
  BY <1>4 DEF TakeItem, AwaitRow, MissItem, NotifyShortage, AtItem, txVars, dbVars
<1>5. ASSUME NEW x \in Requests, NEW label \in Final, RollbackTo(x, label)
      PROVE  pc[r] = "written" /\ reserved'[r] = reserved[r] /\ drafts'[r] = drafts[r]
  BY <1>5 DEF RollbackTo, dbVars, Final
<1>6. ASSUME NEW x \in Requests, WriteOrder(x) \/ Commit(x) \/ Spend(x) \/ Respond(x)
      PROVE  pc[r] = "written" /\ reserved'[r] = reserved[r] /\ drafts'[r] = drafts[r]
  BY <1>6 DEF WriteOrder, Commit, Spend, Respond, txVars, dbVars
<1> QED
  BY <1>1, <1>2, <1>3, <1>4, <1>5, <1>6
     DEF Next, Serve, Refuse, DeadlockAbort, FailBeforeCommit, Rest, Final, txVars, ServeEdit,
         AbortEdit, SellerStep

LEMMA AlertStep == IInv /\ AlertInv /\ [Next]_vars => AlertInv'
<1> SUFFICES ASSUME IInv, AlertInv, [Next]_vars, NEW r \in Requests, NEW k \in Rows,
                    pc'[r] = "written", reserved'[r][k] > 0, Left(r, k)' = 0
             PROVE  SoldOutNotice(r, k) \in drafts'[r]
  BY DEF AlertInv, SoldOutNotice, Notice
<1>1. CASE WriteOrder(r)
  <2>1. /\ reserved[r][k] > 0 /\ Left(r, k) = 0
        /\ pc[r] \in OpenTx
        /\ drafts'[r] = drafts[r] \cup {SoldOutNotice(r, z) : z \in ZeroStocks(r)}
    BY <1>1 DEF WriteOrder, dbVars, Left, IInv, TypeOK, OpenTx, SoldOutNotice
  <2>2. PICK i \in DOMAIN Basket(r) : RowOf(Basket(r)[i]) = k
    BY <2>1 DEF IInv, RequestInv, InTransaction, TookBefore
  <2>3. k \in {j.product : j \in ToSet(Basket(r))} \X {StringOf[j.size] : j \in ToSet(Basket(r))}
    BY <2>2 DEF ToSet, RowOf
  <2> QED
    BY <2>1, <2>3 DEF ZeroStocks
<1>2. CASE ~ WriteOrder(r)
  <2>1. pc[r] = "written" /\ reserved'[r] = reserved[r] /\ drafts'[r] = drafts[r]
    BY <1>2, WrittenStays
  <2>2. stock'[k] = stock[k]
    BY <2>1, HeldRowStays
  <2> QED
    BY <2>1, <2>2 DEF AlertInv, Left
<1> QED
  BY <1>1, <1>2

(* An order that empties a row leaves the seller an alert about it.        *)
THEOREM SoldOutIsAlerted == Spec => SoldOutAlerted
<1> DEFINE Alerted ==
      \A k \in Rows, r \in Requests :
          stock[k] # 0 /\ stock'[k] = 0 /\ orders[r] = NoOrder /\ orders'[r] # NoOrder
          => Notice("OUT_OF_STOCK_SELLER", StoreOf[k[1]], k[1], r) \in notifications'
<1>1. Init => AlertInv
  BY DEF Init, AlertInv
<1>2. IInv /\ AlertInv /\ [Next]_vars => [Alerted]_vars
  <2> SUFFICES ASSUME IInv, AlertInv, [Next]_vars, NEW k \in Rows, NEW r \in Requests,
                      stock[k] # 0, stock'[k] = 0, orders[r] = NoOrder, orders'[r] # NoOrder
               PROVE  Notice("OUT_OF_STOCK_SELLER", StoreOf[k[1]], k[1], r) \in notifications'
    OBVIOUS
  <2>1. Commit(r)
    <3>1. ASSUME NEW x \in Requests, Commit(x) PROVE x = r
      BY <3>1 DEF Commit, IInv, TypeOK
    <3>2. ASSUME NEW p \in Products, ReplaceStock(p) PROVE FALSE
      BY <3>2 DEF ReplaceStock
    <3> QED
      BY <3>1, <3>2, OtherStepsSellNothing, SellerLeaves
         DEF Next, Rest, vars, dbVars, ServeEdit, AbortEdit, SellerStep
  <2>2. reserved[r][k] > 0 /\ Left(r, k) = 0
    BY <2>1, LeftIsQuantity DEF Commit, Left
  <2> QED
    BY <2>1, <2>2 DEF AlertInv, SoldOutNotice, Commit
<1> QED
  BY <1>1, <1>2, AlertStep, Invariance, PTL DEF Spec, SoldOutAlerted

--------------------------------------------------------------------------------
(* Units are neither sold twice nor lost.  A basket names a row at most     *)
(* once, so what an order has of it is what its transaction took.           *)
InRow(items, k) ==
    [i \in DOMAIN items |-> IF RowOf(items[i]) = k THEN items[i].quantity ELSE 0]

LEMMA RowOfBasket ==
    ASSUME NEW items \in Seq(Item), NEW k \in Rows
    PROVE  /\ IsFiniteSet(DOMAIN items)
           /\ \A i \in DOMAIN items : InRow(items, k)[i] \in Int
           /\ SumFunction(InRow(items, k)) \in Int
<1>1. DOMAIN items = 1 .. Len(items) /\ Len(items) \in Nat
  OBVIOUS
<1>2. IsFiniteSet(DOMAIN items)
  BY <1>1, FS_Interval
<1>3. \A i \in DOMAIN items : InRow(items, k)[i] \in Int
  <2>1. \A i \in DOMAIN items : items[i] \in Item
    OBVIOUS
  <2> QED
    BY <2>1 DEF InRow, Item
<1>4. DOMAIN InRow(items, k) = DOMAIN items
  BY DEF InRow
<1> QED
  BY <1>2, <1>3, <1>4, SumType DEF SumFunction

LEMMA BasketTakesItsRows ==
    ASSUME NEW items \in Seq(Item), DistinctProducts(items), NEW took \in [Rows -> Nat],
           \A i \in DOMAIN items : took[RowOf(items[i])] = items[i].quantity,
           \A k \in Rows : took[k] > 0 => \E i \in DOMAIN items : RowOf(items[i]) = k,
           NEW k \in Rows
    PROVE  SumFunction(InRow(items, k)) = took[k]
<1>1. /\ IsFiniteSet(DOMAIN items)
      /\ \A i \in DOMAIN items : InRow(items, k)[i] \in Int
      /\ DOMAIN InRow(items, k) = DOMAIN items
  BY RowOfBasket DEF InRow
<1>2. CASE took[k] = 0
  <2>1. ASSUME NEW i \in DOMAIN items PROVE InRow(items, k)[i] = 0
    BY <1>2 DEF InRow
  <2> QED
    BY <1>1, <1>2, <2>1, SumOfZeros DEF SumFunction
<1>3. CASE took[k] > 0
  <2>1. PICK i \in DOMAIN items : RowOf(items[i]) = k
    BY <1>3
  <2>2. InRow(items, k)[i] = took[k]
    BY <2>1 DEF InRow
  <2>3. ASSUME NEW j \in DOMAIN items \ {i} PROVE InRow(items, k)[j] = 0
    <3>1. items[j].product # items[i].product
      BY DEF DistinctProducts
    <3> QED
      BY <2>1, <3>1 DEF InRow, RowOf
  <2> QED
    BY <1>1, <2>2, <2>3, SumOfOne DEF SumFunction
<1> QED
  BY <1>2, <1>3

LEMMA OtherStepsLeaveStock ==
    ASSUME NEW r \in Requests,
           \/ Receive(r) \/ FailBeforeCommit(r) \/ FailAfterCommit(r)
           \/ Serve(r) /\ ~ Commit(r)
    PROVE  stock' = stock /\ orders' = orders /\ replaced' = replaced
BY DEF Receive, FailBeforeCommit, FailAfterCommit, Serve, LoadProducts, TakeItem, AwaitRow,
       MissItem, NotifyShortage, Refuse, WriteOrder, Spend, Respond, DeadlockAbort, RollbackTo,
       dbVars, sellerVars

Conserved(k) ==
    InitialStock[k] # NoRow /\ k[1] \notin replaced =>
        stock[k] \in Nat /\ stock[k] + Sold(k) = InitialStock[k]

Committed == {r \in Requests : orders[r] # NoOrder}

LEMMA SoldIsSum ==
    ASSUME NEW k
    PROVE  Sold(k) = SumFunctionOnSet([r \in Committed |-> SoldBy(r, k)], Committed)
BY DEF Sold, SumFunction, Committed

LEMMA SoldByType ==
    ASSUME IInv, NEW r \in Committed, NEW k \in Rows
    PROVE  SoldBy(r, k) \in Int
<1>1. orders[r] = request[r] /\ pc[r] # "idle"
  BY DEF IInv, RequestInv, Ordered, BeforeCommit, Committed
<1>2. orders[r].items \in Seq(Item)
  BY <1>1, BasketIsSeq DEF Committed, Basket
<1> QED
  BY <1>2, RowOfBasket DEF SoldBy, InRow

LEMMA CommitConserves ==
    ASSUME IInv, IsFiniteSet(Committed), NEW r \in Requests, Commit(r),
           NEW k \in Rows, Conserved(k)
    PROVE  Conserved(k)'
<1> DEFINE old == [x \in Committed |-> SoldBy(x, k)]
           new == [x \in Committed' |-> SoldBy(x, k)']
<1>1. /\ orders[r] = NoOrder /\ request[r] \in Request /\ Basket(r) \in Seq(Item)
      /\ DistinctProducts(Basket(r)) /\ TookBefore(r, next[r]) /\ next[r] > Len(Basket(r))
      /\ next[r] \in Nat /\ reserved[r] \in [Rows -> Nat]
  BY BasketIsSeq DEF IInv, TypeOK, RequestInv, InTransaction, Ordered, OpenTx, BeforeCommit, Commit
<1>2. orders' = [orders EXCEPT ![r] = request[r]] /\ orders'[r] = request[r] /\ replaced' = replaced
  BY DEF Commit, IInv, TypeOK, sellerVars
<1>3. Committed' = Committed \cup {r} /\ r \notin Committed
  BY <1>1, <1>2, CheckoutAssumption DEF Committed, IInv, TypeOK
<1>4. ASSUME NEW x \in Committed PROVE new[x] = old[x] /\ old[x] \in Int
  <2>1. orders'[x] = orders[x]
    BY <1>2, <1>3 DEF Committed, IInv, TypeOK
  <2>2. SoldBy(x, k)' = SoldBy(x, k)
    BY <2>1 DEF SoldBy
  <2> QED
    BY <1>3, <2>2, SoldByType
<1>5. new[r] = reserved[r][k]
  <2>1. \A i \in DOMAIN Basket(r) : i < next[r]
    BY <1>1
  <2>2. SumFunction(InRow(Basket(r), k)) = reserved[r][k]
    BY <1>1, <2>1, BasketTakesItsRows DEF TookBefore
  <2>3. SoldBy(r, k)' = SumFunction(InRow(Basket(r), k))
    BY <1>2 DEF SoldBy, InRow, Basket
  <2> QED
    BY <1>3, <2>2, <2>3
<1>6. IsFiniteSet(Committed)
  OBVIOUS
<1>7. reserved[r][k] \in Nat
  BY <1>1
<1> HIDE DEF old, new
<1>8. SumFunctionOnSet(new, Committed) = SumFunctionOnSet(old, Committed)
  BY <1>4, <1>6, SumOfSame
<1>9. SumFunctionOnSet(new, Committed \cup {r}) = new[r] + SumFunctionOnSet(new, Committed)
  <2>1. \A x \in Committed \cup {r} : new[x] \in Int
    BY <1>4, <1>5, <1>7
  <2> QED
    BY <1>3, <1>6, <2>1, SumAdds
<1>10. SumFunctionOnSet(old, Committed) \in Int
  BY <1>4, <1>6, SumType
<1>11. Sold(k) = SumFunctionOnSet(old, Committed)
  BY SoldIsSum DEF old
<1>12. Sold(k)' = SumFunctionOnSet(new, Committed \cup {r})
  <2>1. Sold(k)' = SumFunctionOnSet(new, Committed')
    BY DEF Sold, SumFunction, Committed, new
  <2> QED
    BY <1>3, <2>1, Zenon
<1>13. Sold(k)' = Sold(k) + reserved[r][k] /\ Sold(k) \in Int
  BY <1>5, <1>7, <1>8, <1>9, <1>10, <1>11, <1>12
<1>14. stock'[k] = Left(r, k)
  BY DEF Commit
<1>15. reserved[r][k] > 0 => stock[k] >= reserved[r][k]
  BY LeftIsQuantity DEF Covers, Commit
<1>16. SUFFICES ASSUME InitialStock[k] # NoRow, k[1] \notin replaced
                PROVE  stock'[k] \in Nat /\ stock'[k] + Sold(k)' = InitialStock[k]
  BY <1>2 DEF Conserved
<1>17. stock[k] \in Nat /\ stock[k] + Sold(k) = InitialStock[k]
  BY <1>16 DEF Conserved
<1> QED
  BY <1>7, <1>13, <1>14, <1>15, <1>17 DEF Left

(* Only finitely many orders are committed at any time.                    *)
LEMMA OneMoreCommitted ==
    ASSUME IInv, [Next]_vars, IsFiniteSet(Committed)
    PROVE  IsFiniteSet(Committed)'
<1>1. ASSUME NEW r \in Requests, Committed' \subseteq Committed \cup {r}
      PROVE  IsFiniteSet(Committed)'
  <2>1. IsFiniteSet(Committed \cup {r})
    BY FS_AddElement
  <2> QED
    BY <1>1, <2>1, FS_Subset
<1>2. ASSUME NEW r \in Requests, Commit(r) PROVE IsFiniteSet(Committed)'
  BY <1>1, <1>2 DEF Commit, Committed, IInv, TypeOK
<1>3. ASSUME NEW p \in Products, ReplaceStock(p) \/ SellerStep(p) PROVE Committed' = Committed
  BY <1>3, SellerLeaves DEF ReplaceStock, Committed, dbVars
<1>4. ASSUME NEW r \in Requests,
             \/ Receive(r) \/ FailBeforeCommit(r) \/ FailAfterCommit(r)
             \/ Serve(r) /\ ~ Commit(r)
      PROVE  Committed' = Committed
  BY <1>4, OtherStepsLeaveStock DEF Committed
<1>5. CASE UNCHANGED vars
  BY <1>5 DEF vars, Committed
<1> QED
  BY <1>2, <1>3, <1>4, <1>5 DEF Next, Rest, ServeEdit, AbortEdit, SellerStep

LEMMA StepConserves ==
    ASSUME IInv, [Next]_vars, IsFiniteSet(Committed), NEW k \in Rows, Conserved(k)
    PROVE  Conserved(k)'
<1>1. ASSUME stock'[k] = stock[k], orders' = orders, replaced \subseteq replaced'
      PROVE  Conserved(k)'
  <2>1. Sold(k)' = Sold(k)
    BY <1>1 DEF Sold, SoldBy
  <2> QED
    BY <1>1, <2>1 DEF Conserved
<1>2. ASSUME NEW p \in Products, ReplaceStock(p) PROVE Conserved(k)'
  <2>1. replaced' = replaced \cup {p}
    BY <1>2 DEF ReplaceStock
  <2>2. CASE k[1] = p
    BY <2>1, <2>2 DEF Conserved
  <2>3. CASE k[1] # p
    BY <1>1, <1>2, <2>1, <2>3 DEF ReplaceStock
  <2> QED
    BY <2>2, <2>3
<1>3. ASSUME NEW p \in Products, SellerStep(p) PROVE Conserved(k)'
  BY <1>1, <1>3, SellerLeaves DEF dbVars
<1> QED
  BY <1>1, <1>2, <1>3, CommitConserves, OtherStepsLeaveStock
     DEF Next, Rest, vars, sellerVars, ServeEdit, AbortEdit, SellerStep

SoldInv == IsFiniteSet(Committed) /\ \A k \in Rows : Conserved(k)

(* What is left of a row and what was sold of it are what there was.       *)
THEOREM StockStaysConserved == Spec => []StockConserved
<1>1. Init => SoldInv
  <2> SUFFICES ASSUME Init PROVE IsFiniteSet(Committed) /\ \A k \in Rows : Conserved(k)
    BY DEF SoldInv
  <2>0. Committed = {} /\ IsFiniteSet(Committed)
    BY FS_EmptySet DEF Init, Committed
  <2> SUFFICES ASSUME NEW k \in Rows, InitialStock[k] # NoRow
               PROVE  stock[k] \in Nat /\ stock[k] + Sold(k) = InitialStock[k]
    BY <2>0 DEF Conserved, Init
  <2>1. InitialStock[k] \in Nat
    BY CheckoutAssumption
  <2>2. Sold(k) = 0
    <3>1. Sold(k) = SumFunctionOnSet([r \in {} |-> SoldBy(r, k)], {})
      BY <2>0, SoldIsSum
    <3> QED
      BY <3>1, SumOfZeros, FS_EmptySet
  <2> QED
    BY <2>1, <2>2 DEF Init
<1>2. IInv /\ SoldInv /\ [Next]_vars => SoldInv'
  BY OneMoreCommitted, StepConserves DEF SoldInv, Rows
<1>3. SoldInv => StockConserved
  BY DEF SoldInv, Conserved, StockConserved
<1> QED
  BY <1>1, <1>2, <1>3, Invariance, PTL DEF Spec

--------------------------------------------------------------------------------
(* The points of a buyer, and what was logged as spent on the buyer's       *)
(* orders, are what the buyer had.                                          *)
Spent(b) == {r \in Requests : ledger[r] # 0 /\ request[r].buyer = b}
Amount(b) == [r \in Spent(b) |-> ledger[r]]

PointsConserved ==
    \A b \in Buyers : points[b] + SumFunction(Amount(b)) = InitialPoints[b]

Ledger ==
    /\ \A b \in Buyers : IsFiniteSet(Spent(b))
    /\ PointsConserved

LEMMA SpendKeepsLedger ==
    ASSUME IInv, IInv', Ledger, NEW r \in Requests, Spend(r), NEW b \in Buyers
    PROVE  /\ IsFiniteSet(Spent(b)')
           /\ points'[b] + SumFunction(Amount(b))' = InitialPoints[b]
<1> DEFINE old == Amount(b)
           new == Amount(b)'
           amount == request[r].usePoint
<1>1. /\ IsFiniteSet(Spent(b)) /\ request[r] \in Request /\ request' = request
      /\ points[b] + SumFunction(Amount(b)) = InitialPoints[b]
      /\ points[b] \in Nat /\ InitialPoints[b] \in Nat
  BY CheckoutAssumption DEF IInv, TypeOK, RequestInv, Arrived, Ledger, PointsConserved, Spend, txVars
<1>2. CASE points' = points /\ ledger' = ledger
  <2>1. Spent(b)' = Spent(b) /\ Amount(b)' = Amount(b)
    BY <1>1, <1>2 DEF Spent, Amount
  <2>2. SumFunction(Amount(b))' = SumFunction(Amount(b))
    BY <2>1, Zenon DEF SumFunction
  <2> QED
    BY <1>1, <1>2, <2>1, <2>2
<1>3. CASE ~ (points' = points /\ ledger' = ledger)
  <2>1. /\ amount \in Nat \ {0} /\ ledger[r] = 0
        /\ points' = [points EXCEPT ![request[r].buyer] = @ - amount]
        /\ ledger' = [ledger EXCEPT ![r] = amount]
    <3>1. /\ amount > 0 /\ ledger[r] = 0
          /\ points' = [points EXCEPT ![request[r].buyer] = @ - amount]
          /\ ledger' = [ledger EXCEPT ![r] = amount]
      BY <1>3 DEF Spend
    <3>2. amount \in Int
      BY <1>1, CheckoutAssumption DEF Request
    <3> QED
      BY <3>1, <3>2
  <2>2. CASE request[r].buyer # b
    <3>1. Spent(b)' = Spent(b) /\ Amount(b)' = Amount(b)
      BY <1>1, <2>1, <2>2 DEF Spent, Amount, IInv, TypeOK
    <3>2. SumFunction(Amount(b))' = SumFunction(Amount(b))
      BY <3>1, Zenon DEF SumFunction
    <3>3. points'[b] = points[b]
      BY <2>1, <2>2 DEF IInv, TypeOK
    <3> QED
      BY <1>1, <3>1, <3>2, <3>3
  <2>3. CASE request[r].buyer = b
    <3>1. Spent(b)' = Spent(b) \cup {r} /\ r \notin Spent(b)
      BY <1>1, <2>1, <2>3 DEF Spent, IInv, TypeOK
    <3>2. /\ \A x \in Spent(b) : old[x] \in Int /\ new[x] = old[x]
          /\ new[r] = amount /\ new[r] \in Int
      BY <2>1, <3>1 DEF Amount, Spent, IInv, TypeOK
    <3>3. SumFunction(Amount(b)) = SumFunctionOnSet(old, Spent(b))
      BY DEF SumFunction, Amount
    <3>4. SumFunction(Amount(b))' = SumFunctionOnSet(new, Spent(b) \cup {r})
      <4>1. SumFunction(Amount(b))' = SumFunctionOnSet(new, Spent(b)')
        BY DEF SumFunction, Amount
      <4> QED
        BY <3>1, <4>1, Zenon
    <3>5. points'[b] = points[b] - amount
      BY <2>1, <2>3 DEF IInv, TypeOK
    <3> HIDE DEF old, new, amount
    <3>6. SumFunctionOnSet(new, Spent(b)) = SumFunctionOnSet(old, Spent(b))
      BY <1>1, <3>2, SumOfSame
    <3>7. SumFunctionOnSet(new, Spent(b) \cup {r}) = new[r] + SumFunctionOnSet(new, Spent(b))
      <4>1. \A x \in Spent(b) \cup {r} : new[x] \in Int
        BY <3>2
      <4> QED
        BY <1>1, <3>1, <4>1, SumAdds
    <3>8. SumFunctionOnSet(old, Spent(b)) \in Int
      BY <1>1, <3>2, SumType
    <3>9. IsFiniteSet(Spent(b)')
      BY <1>1, <3>1, FS_AddElement
    <3> QED
      BY <1>1, <3>2, <3>3, <3>4, <3>5, <3>6, <3>7, <3>8, <3>9
  <2> QED
    BY <2>2, <2>3
<1> QED
  BY <1>2, <1>3

(* No other step changes balances, logs or the buyer of a logged order.     *)
LEMMA OtherStepsLeaveLedger ==
    ASSUME IInv, PaidInv, [Next]_vars, \A r \in Requests : ~ Spend(r)
    PROVE  points' = points /\ \A b \in Buyers : Spent(b)' = Spent(b) /\ Amount(b)' = Amount(b)
<1>1. ASSUME points' = points, ledger' = ledger,
             \A r \in Requests : ledger[r] # 0 => request'[r] = request[r]
      PROVE  points' = points /\ \A b \in Buyers : Spent(b)' = Spent(b) /\ Amount(b)' = Amount(b)
  BY <1>1 DEF Spent, Amount
<1>2. ASSUME NEW r \in Requests, Receive(r)
      PROVE  /\ points' = points /\ ledger' = ledger
             /\ \A x \in Requests : ledger[x] # 0 => request'[x] = request[x]
  <2>1. ledger[r] = 0
    BY <1>2 DEF PaidInv, BeforeCommit, Receive
  <2> QED
    BY <1>2, <2>1 DEF Receive, dbVars, IInv, TypeOK
<1>3. ASSUME NEW r \in Requests,
             FailBeforeCommit(r) \/ FailAfterCommit(r) \/ (Serve(r) /\ ~ Spend(r))
      PROVE  points' = points /\ ledger' = ledger /\ request' = request
  BY <1>3 DEF Serve, FailBeforeCommit, FailAfterCommit, LoadProducts, TakeItem, AwaitRow, MissItem,
     NotifyShortage, Refuse, WriteOrder, Commit, Respond, DeadlockAbort, RollbackTo, dbVars, txVars
<1>4. ASSUME NEW p \in Products, ReplaceStock(p) \/ SellerStep(p)
      PROVE  points' = points /\ ledger' = ledger /\ request' = request
  BY <1>4, SellerLeaves DEF ReplaceStock, txVars, dbVars
<1>5. CASE UNCHANGED vars
  BY <1>1, <1>5 DEF vars
<1> QED
  BY <1>1, <1>2, <1>3, <1>4, <1>5 DEF Next, Rest, ServeEdit, AbortEdit, SellerStep

LEMMA StepKeepsLedger ==
    ASSUME IInv, IInv', PaidInv, Ledger, [Next]_vars
    PROVE  Ledger'
<1>1. CASE \E r \in Requests : Spend(r)
  BY <1>1, SpendKeepsLedger DEF Ledger, PointsConserved
<1>2. CASE \A r \in Requests : ~ Spend(r)
  <2> SUFFICES ASSUME NEW b \in Buyers
               PROVE  /\ IsFiniteSet(Spent(b)')
                      /\ points'[b] + SumFunction(Amount(b))' = InitialPoints[b]
    BY DEF Ledger, PointsConserved
  <2>1. points' = points /\ Spent(b)' = Spent(b) /\ Amount(b)' = Amount(b)
    BY <1>2, OtherStepsLeaveLedger
  <2>2. SumFunction(Amount(b))' = SumFunction(Amount(b))
    BY <2>1, Zenon DEF SumFunction
  <2> QED
    BY <2>1, <2>2 DEF Ledger, PointsConserved
<1> QED
  BY <1>1, <1>2

(* The points of a buyer and those logged as spent are together what the    *)
(* buyer had, so no point is spent twice or lost, although the balance is   *)
(* checked long before it is taken (orders.service.ts:50, 218): an order    *)
(* may be left unpaid (PointsNotOverspent), but never paid with points      *)
(* that are not there.                                                      *)
THEOREM PointsStayConserved == Spec => []PointsConserved
<1>1. Init => PaidInv /\ Ledger
  <2>1. Init => PaidInv
    BY DEF Init, PaidInv
  <2> SUFFICES ASSUME Init, NEW b \in Buyers
               PROVE  IsFiniteSet(Spent(b)) /\ points[b] + SumFunction(Amount(b)) = InitialPoints[b]
    BY <2>1 DEF Ledger, PointsConserved
  <2>2. Spent(b) = {}
    BY DEF Init, Spent
  <2>3. IsFiniteSet(Spent(b)) /\ SumFunctionOnSet(Amount(b), Spent(b)) = 0
    BY <2>2, SumOfZeros, FS_EmptySet
  <2>4. SumFunction(Amount(b)) = 0
    BY <2>3 DEF SumFunction, Amount
  <2> QED
    BY <2>3, <2>4, CheckoutAssumption DEF Init
<1>2. Ledger => PointsConserved
  BY DEF Ledger
<1>3. IInv /\ IInv' /\ PaidInv /\ Ledger /\ [Next]_vars => PaidInv' /\ Ledger'
  BY PaidStep, StepKeepsLedger
<1> QED
  BY <1>1, <1>2, <1>3, Invariance, PTL DEF Spec

--------------------------------------------------------------------------------
(***************************************************************************)
(* Theorems about Stores, for any set of requests, users, sellers and      *)
(* fields.  Stores shares no variable with Checkout, and nothing below is  *)
(* about both.                                                             *)
(***************************************************************************)
USE DEF Move, End

--------------------------------------------------------------------------------
(* The inductive invariant.  The types of the rows and of the requests:     *)
Opening == [kind : {"create"}, user : Sellers]
Change == [kind : {"update"}, user : Sellers, store : Stores, sent : SUBSET Fields]
Mark == [kind : {"register", "drop"}, user : Users, store : Stores]
View == [kind : {"detail"}, user : Users, store : Stores, asks : SUBSET Figure]
Job == Opening \cup Change \cup Mark \cup View

Counts == UNION {[known -> Nat] : known \in SUBSET Figure}

StoreTypes ==
    /\ at \in [Calls -> Places]
    /\ job \in [Calls -> Job \cup {NoJob}]
    /\ figures \in [Calls -> Counts]
    /\ torn \subseteq Calls
    /\ users \subseteq Users
    /\ store \in [Stores -> Row \cup {Absent, Gone}]
    /\ favorite \subseteq Users \X Stores /\ recent \subseteq favorite

(* What a request is, from where it is, and what its checks found: a store  *)
(* that is being changed is its user's, one that is being marked is not.    *)
Begun(c) ==
    /\ at[c] = "creating" => job[c] \in Opening
    /\ at[c] = "updating" =>
        /\ job[c] \in Change /\ store[job[c].store] # Absent
        /\ Exists(job[c].store) => Sells(job[c].user, job[c].store)
    /\ at[c] \in {"seeking", "adding"} =>
        job[c] \in Mark /\ store[job[c].store] # Absent /\ ~ Sells(job[c].user, job[c].store)
    /\ at[c] = "dropping" => job[c] \in Mark
    /\ at[c] = "counting" => job[c] \in View

(* A store is there no sooner than its request is done.                     *)
Fresh(c) == at[c] # "done" => store[c] = Absent

(* What a request that is not torn has counted is still so, or is of marks  *)
(* that were there in a month that has passed.                              *)
Counted(c) ==
    /\ at[c] \notin Ended \cup {"counting"} => DOMAIN figures[c] = {}
    /\ at[c] = "counting" /\ c \notin torn =>
        LET marked == Cardinality(Marks("favoriteCount", job[c].store)) IN
        /\ "favoriteCount" \in DOMAIN figures[c] => figures[c]["favoriteCount"] = marked
        /\ "monthFavoriteCount" \in DOMAIN figures[c] => figures[c]["monthFavoriteCount"] <= marked
    /\ at[c] = "done" /\ c \notin torn /\ DOMAIN figures[c] = Figure =>
        figures[c]["monthFavoriteCount"] <= figures[c]["favoriteCount"]

CallInv(c) == Begun(c) /\ Fresh(c) /\ Counted(c)

StoreInv ==
    /\ StoreTypes
    /\ FavoritesSound
    /\ \A c \in Calls : CallInv(c)

--------------------------------------------------------------------------------
(* The marks of a store are finitely many, those of this month no more.     *)
LEMMA MarksAreCounted ==
    ASSUME StoreTypes, NEW s \in Stores, NEW figure \in Figure
    PROVE  /\ Cardinality(Marks(figure, s)) \in Nat
           /\ Cardinality(Marks(figure, s)) <= Cardinality(Marks("favoriteCount", s))
<1> DEFINE all == Marks("favoriteCount", s)
<1>1. IsFiniteSet(Users \X {s})
  BY StoresAssumption, FS_Singleton, FS_Product
<1>2. all \subseteq Users \X {s}
  BY DEF StoreTypes, Marks
<1>3. IsFiniteSet(all)
  BY <1>1, <1>2, FS_Subset
<1>4. Marks(figure, s) \subseteq all
  BY DEF StoreTypes, Marks
<1>5. IsFiniteSet(Marks(figure, s)) /\ Cardinality(Marks(figure, s)) <= Cardinality(all)
  BY <1>3, <1>4, FS_Subset
<1> QED
  BY <1>5, FS_CardinalityType

(* What any step does to the stores: one that is there or is gone never     *)
(* becomes another's, and one opens only with the end of its request.       *)
StoresGoOn ==
    \A s \in Stores : store[s] # Absent =>
        /\ store'[s] # Absent
        /\ Exists(s)' => Exists(s) /\ store'[s].seller = store[s].seller

(* A step that leaves a request's own variables alone keeps what is true of *)
(* it, if it tears those whose favorites it changes.                        *)
LEMMA StoreFrame ==
    ASSUME StoreInv, NEW x \in Calls, at'[x] = at[x], job'[x] = job[x], figures'[x] = figures[x],
           StoresGoOn, torn \subseteq torn',
           at[x] # "done" => store'[x] = store[x],
           at[x] = "counting" /\ x \notin torn' =>
               Marks("favoriteCount", job[x].store)' = Marks("favoriteCount", job[x].store)
    PROVE  CallInv(x)'
<1> USE DEF StoreInv, CallInv
<1>1. Begun(x)'
  <2>1. CASE at[x] = "updating"
    <3>1. job[x] \in Change /\ job[x].store \in Stores
      BY <2>1 DEF Begun, Change
    <3> QED
      BY <2>1, <3>1 DEF Begun, StoresGoOn, Sells, Exists
  <2>2. CASE at[x] \in {"seeking", "adding"}
    <3>1. job[x] \in Mark /\ job[x].store \in Stores
      BY <2>2 DEF Begun, Mark
    <3> QED
      BY <2>2, <3>1 DEF Begun, StoresGoOn, Sells
  <2> QED
    BY <2>1, <2>2 DEF Begun
<1>2. Fresh(x)'
  BY DEF Fresh
<1>3. Counted(x)'
  BY DEF Counted
<1> QED
  BY <1>1, <1>2, <1>3

LEMMA InitStoreInv == StoresInit => StoreInv
<1> SUFFICES ASSUME StoresInit PROVE StoreInv
  OBVIOUS
<1>1. StoreTypes
  <2>1. << >> \in Counts
    BY DEF Counts
  <2>2. store \in [Stores -> Row \cup {Absent, Gone}]
    BY DEF StoresInit, Row, Stores
  <2>3. favorite \subseteq Users \X Stores
    BY DEF StoresInit, Stores
  <2> QED
    BY <2>1, <2>2, <2>3 DEF StoresInit, StoreTypes, Places
<1>2. FavoritesSound
  <2>1. \A m \in favorite : m[1] \in Users \ {store[First].seller} /\ m[2] = First
    BY DEF StoresInit
  <2>2. Exists(First)
    BY StoresAssumption DEF StoresInit, Exists, Row, Stores
  <2> QED
    BY <2>1, <2>2 DEF StoresInit, FavoritesSound, Sells
<1>3. ASSUME NEW c \in Calls PROVE CallInv(c)
  <2>1. store[c] = Absent
    BY StoresAssumption DEF StoresInit, Stores
  <2> QED
    BY <2>1 DEF StoresInit, CallInv, Begun, Fresh, Counted, Ended
<1> QED
  BY <1>1, <1>2, <1>3 DEF StoreInv

--------------------------------------------------------------------------------
(* Each action keeps the inductive invariant.                              *)
LEMMA StayingStores ==
    ASSUME store' = store
    PROVE  StoresGoOn
BY DEF StoresGoOn, Exists

(* The first read of a request, and an end that writes nothing.             *)
LEMMA BeginStep ==
    ASSUME StoreInv, NEW c \in Calls,
           \/ BeginCreate(c) \/ BeginUpdate(c) \/ BeginRegister(c) \/ BeginDrop(c)
           \/ BeginMyDetail(c) \/ BeginDetail(c)
    PROVE  StoreInv'
<1>1. PICK j, label : Begin(c, j, label) /\
        \/ j \in Opening /\ label = "creating"
        \/ j \in Change /\ label = "updating" /\ Sells(j.user, j.store)
        \/ j \in Mark /\ label = "seeking" /\ Exists(j.store) /\ ~ Sells(j.user, j.store)
        \/ j \in Mark /\ label = "dropping"
        \/ j \in View /\ label = "counting"
        \/ label = "rejected"
  <2>1. CASE BeginCreate(c)
    BY <2>1 DEF BeginCreate, Opening
  <2>2. CASE BeginUpdate(c)
    BY <2>2 DEF BeginUpdate, Change
  <2>3. CASE BeginRegister(c)
    BY <2>3 DEF BeginRegister, Mark
  <2>4. CASE BeginDrop(c)
    BY <2>4 DEF BeginDrop, Mark
  <2>5. CASE BeginMyDetail(c)
    BY <2>5 DEF BeginMyDetail, View
  <2>6. CASE BeginDetail(c)
    BY <2>6 DEF BeginDetail, View, Figure
  <2> QED
    BY <2>1, <2>2, <2>3, <2>4, <2>5, <2>6
<1> USE <1>1 DEF Begin, rows, marks
<1>2. StoreTypes'
  BY DEF StoreInv, StoreTypes, Places, Active, Ended, Job
<1>3. FavoritesSound'
  BY DEF StoreInv, FavoritesSound, Exists, Sells
<1>4. CallInv(c)'
  <2>1. DOMAIN figures[c] = {} /\ store[c] = Absent
    BY DEF StoreInv, CallInv, Counted, Fresh, Ended
  <2> QED
    BY <2>1 DEF StoreInv, StoreTypes, CallInv, Begun, Fresh, Counted, Ended, Figure, Sells, Exists
<1>5. \A x \in Calls \ {c} : CallInv(x)'
  BY StoreFrame, StayingStores DEF StoreInv, StoreTypes, Marks
<1> QED
  BY <1>2, <1>3, <1>4, <1>5 DEF StoreInv

(* A step that only ends, or goes on from seeking to adding.               *)
LEMMA QuietStep ==
    ASSUME StoreInv, NEW c \in Calls, NEW label \in {"done", "failed", "adding"}, End(c, label),
           at[c] \in Active, label = "done" => at[c] # "counting",
           label = "adding" => at[c] = "seeking",
           UNCHANGED <<torn, rows>>
    PROVE  StoreInv'
<1> USE DEF rows, marks
<1>1. StoreTypes'
  BY DEF StoreInv, StoreTypes, Places, Active, Ended
<1>2. FavoritesSound'
  BY DEF StoreInv, FavoritesSound, Exists, Sells
<1>3. CallInv(c)'
  BY DEF StoreInv, StoreTypes, CallInv, Begun, Fresh, Counted, Active, Ended, Figure, Sells, Exists
<1>4. \A x \in Calls \ {c} : CallInv(x)'
  BY StoreFrame, StayingStores DEF StoreInv, StoreTypes, Marks
<1> QED
  BY <1>1, <1>2, <1>3, <1>4 DEF StoreInv

LEMMA CreateStep ==
    ASSUME StoreInv, NEW c \in Calls, CreateStore(c)
    PROVE  StoreInv'
<1> USE DEF CreateStore, marks
<1>1. CASE ~ (job[c].user \in users /\ ~ HasStore(job[c].user))
  BY <1>1, QuietStep DEF Active, rows
<1>2. CASE job[c].user \in users /\ ~ HasStore(job[c].user)
  <2> DEFINE new == [seller |-> job[c].user, form |-> [f \in Fields |-> c]]
  <2>1. store[c] = Absent /\ DOMAIN figures[c] = {} /\ new \in Row
    BY DEF StoreInv, CallInv, Begun, Fresh, Counted, Ended, Opening, Row, Stores
  <2>2. store' = [store EXCEPT ![c] = new] /\ c \in Stores /\ End(c, "done")
    BY <1>2 DEF Opened, Stores
  <2>3. StoreTypes'
    BY <2>1, <2>2 DEF StoreInv, StoreTypes, Places, Ended
  <2>4. FavoritesSound'
    <3> SUFFICES ASSUME NEW m \in favorite
                 PROVE  m[1] \in users /\ Exists(m[2])' /\ ~ Sells(m[1], m[2])'
      BY DEF FavoritesSound
    <3>1. m[1] \in users /\ Exists(m[2]) /\ ~ Sells(m[1], m[2]) /\ m[2] \in Stores
      BY DEF StoreInv, FavoritesSound, StoreTypes
    <3>2. m[2] # c
      BY <2>1, <3>1 DEF Exists
    <3> QED
      BY <2>2, <3>1, <3>2 DEF StoreInv, StoreTypes, Exists, Sells
  <2>5. CallInv(c)'
    BY <2>1, <2>2 DEF StoreInv, StoreTypes, CallInv, Begun, Fresh, Counted, Ended, Figure
  <2>6. StoresGoOn
    BY <2>1, <2>2 DEF StoreInv, StoreTypes, StoresGoOn, Exists
  <2>7. \A x \in Calls \ {c} : CallInv(x)'
    BY <2>2, <2>6, StoreFrame DEF StoreInv, StoreTypes, Marks, Stores
  <2> QED
    BY <2>3, <2>4, <2>5, <2>7 DEF StoreInv
<1> QED
  BY <1>1, <1>2

LEMMA UpdateStep ==
    ASSUME StoreInv, NEW c \in Calls, UpdateStore(c)
    PROVE  StoreInv'
<1> USE DEF UpdateStore, marks
<1> DEFINE s == job[c].store
<1>0. job[c] \in Change /\ s \in Stores
  BY DEF StoreInv, CallInv, Begun, Change
<1>1. CASE ~ Exists(s)
  BY <1>1, QuietStep DEF Active, rows
<1>2. CASE Exists(s)
  <2>1. store[s] \in Row
    BY <1>0, <1>2 DEF StoreInv, StoreTypes, Exists
  <2>2. store'[s] \in Row /\ store'[s].seller = store[s].seller
    BY <1>0, <1>2, <2>1 DEF StoreInv, StoreTypes, Row, Stores
  <2>3. \A x \in Stores \ {s} : store'[x] = store[x]
    BY <1>2 DEF StoreInv, StoreTypes
  <2>4. StoreTypes'
    <3>1. store' \in [Stores -> Row \cup {Absent, Gone}]
      BY <1>0, <1>2, <2>2 DEF StoreInv, StoreTypes
    <3> QED
      BY <1>2, <3>1 DEF StoreInv, StoreTypes, Places, Ended
  <2>5. \A x \in Stores : (Exists(x)' <=> Exists(x)) /\ \A u : Sells(u, x)' <=> Sells(u, x)
    BY <1>2, <2>2, <2>3, StoresAssumption DEF Exists, Sells
  <2>6. FavoritesSound'
    BY <2>5 DEF StoreInv, StoreTypes, FavoritesSound
  <2>7. StoresGoOn
    BY <2>2, <2>3, <2>5, StoresAssumption DEF StoresGoOn
  <2>8. CallInv(c)'
    BY <1>2 DEF StoreInv, StoreTypes, CallInv, Begun, Fresh, Counted, Ended, Figure
  <2>9. \A x \in Calls \ {c} : CallInv(x)'
    <3> SUFFICES ASSUME NEW x \in Calls \ {c} PROVE CallInv(x)'
      OBVIOUS
    <3>1. at[x] # "done" => x # s
      BY <1>2 DEF StoreInv, CallInv, Fresh, Exists
    <3> QED
      BY <1>2, <2>3, <2>7, <3>1, StoreFrame DEF StoreInv, StoreTypes, Marks, Stores
  <2> QED
    BY <2>4, <2>6, <2>8, <2>9 DEF StoreInv
<1> QED
  BY <1>1, <1>2

(* Who is not torn by the change of some marks sees those it counts as they *)
(* were.                                                                    *)
LEMMA TearFrame ==
    ASSUME StoreInv, NEW changed, Tear(changed), NEW x \in Calls, StoresGoOn,
           \A m : m[2] \notin changed => (m \in favorite' <=> m \in favorite),
           at'[x] = at[x], job'[x] = job[x], figures'[x] = figures[x],
           at[x] # "done" => store'[x] = store[x]
    PROVE  CallInv(x)'
<1>1. ASSUME at[x] = "counting", x \notin torn'
      PROVE  Marks("favoriteCount", job[x].store)' = Marks("favoriteCount", job[x].store)
  BY <1>1 DEF Tear, Marks
<1> QED
  BY <1>1, StoreFrame DEF Tear

LEMMA AddStep ==
    ASSUME StoreInv, NEW c \in Calls, AddFavorite(c)
    PROVE  StoreInv'
<1> USE DEF AddFavorite, marks
<1> DEFINE s == job[c].store
           pair == <<job[c].user, s>>
<1>0. job[c] \in Mark /\ pair \in Users \X Stores /\ pair[2] = s /\ pair[1] = job[c].user
      /\ ~ Sells(job[c].user, s)
  BY DEF StoreInv, CallInv, Begun, Mark
<1>1. CASE ~ (pair \notin favorite /\ job[c].user \in users /\ Exists(s))
  BY <1>1, QuietStep DEF Active, rows
<1>2. CASE pair \notin favorite /\ job[c].user \in users /\ Exists(s)
  <2> HIDE DEF s, pair
  <2>1. /\ favorite' = favorite \cup {pair} /\ recent' = recent \cup {pair}
        /\ End(c, "done") /\ Tear({s}) /\ users' = users /\ store' = store
    BY <1>2 DEF s, pair
  <2>2. StoreTypes'
    BY <1>0, <2>1 DEF StoreInv, StoreTypes, Places, Ended, Tear
  <2>3. FavoritesSound'
    BY <1>0, <1>2, <2>1 DEF StoreInv, FavoritesSound, Exists, Sells, s
  <2>4. CallInv(c)'
    BY <1>2, <2>1 DEF StoreInv, StoreTypes, CallInv, Begun, Fresh, Counted, Ended, Figure
  <2>5. \A m : m[2] \notin {s} => (m \in favorite' <=> m \in favorite)
    BY <1>0, <2>1
  <2>6. \A x \in Calls \ {c} : CallInv(x)'
    BY <2>1, <2>5, StayingStores, TearFrame DEF StoreInv, StoreTypes
  <2> QED
    BY <2>2, <2>3, <2>4, <2>6 DEF StoreInv
<1> QED
  BY <1>1, <1>2

LEMMA DropStep ==
    ASSUME StoreInv, NEW c \in Calls, DropFavorite(c)
    PROVE  StoreInv'
<1> USE DEF DropFavorite, marks
<1> DEFINE s == job[c].store
           pair == <<job[c].user, s>>
<1>1. CASE pair \notin favorite
  <2>1. UNCHANGED marks
    BY <1>1 DEF StoreInv, StoreTypes
  <2> QED
    BY <1>1, <2>1, QuietStep DEF Active, rows
<1>2. CASE pair \in favorite
  <2>0. pair[2] = s
    OBVIOUS
  <2> HIDE DEF s, pair
  <2>1. /\ favorite' = favorite \ {pair} /\ recent' = recent \ {pair}
        /\ End(c, "done") /\ Tear({s}) /\ users' = users /\ store' = store
    BY <1>2 DEF s, pair
  <2>2. StoreTypes'
    BY <2>1 DEF StoreInv, StoreTypes, Places, Ended, Tear
  <2>3. FavoritesSound'
    BY <2>1 DEF StoreInv, FavoritesSound, Exists, Sells
  <2>4. CallInv(c)'
    BY <1>2, <2>1 DEF StoreInv, StoreTypes, CallInv, Begun, Fresh, Counted, Ended, Figure
  <2>5. \A m : m[2] \notin {s} => (m \in favorite' <=> m \in favorite)
    BY <2>0, <2>1
  <2>6. \A x \in Calls \ {c} : CallInv(x)'
    BY <2>1, <2>5, StayingStores, TearFrame DEF StoreInv, StoreTypes
  <2> QED
    BY <2>2, <2>3, <2>4, <2>6 DEF StoreInv
<1> QED
  BY <1>1, <1>2

LEMMA CountStep ==
    ASSUME StoreInv, NEW c \in Calls, NEW figure \in Figure, Count(c, figure)
    PROVE  StoreInv'
<1> USE DEF Count, rows, marks
<1> DEFINE known == DOMAIN figures[c] \cup {figure}
           s == job[c].store
           value == Cardinality(Marks(figure, s))
<1>0. /\ s \in Stores /\ job[c].asks \subseteq Figure /\ value \in Nat
      /\ value <= Cardinality(Marks("favoriteCount", s))
      /\ Cardinality(Marks("favoriteCount", s)) \in Nat
  <2>1. s \in Stores /\ job[c].asks \subseteq Figure
    BY DEF StoreInv, CallInv, Begun, View
  <2> QED
    BY <2>1, MarksAreCounted DEF StoreInv, Figure
<1>1. figures[c] \in [DOMAIN figures[c] -> Nat] /\ DOMAIN figures[c] \subseteq Figure
  BY DEF StoreInv, StoreTypes, Counts
<1>2. /\ figures' = [figures EXCEPT ![c] = figures'[c]]
      /\ figures'[c] = [x \in known |-> IF x = figure THEN value ELSE figures[c][x]]
  BY DEF StoreInv, StoreTypes
<1>3. figures'[c] \in Counts
  BY <1>0, <1>1, <1>2 DEF Counts
<1>4. StoreTypes'
  BY <1>2, <1>3 DEF StoreInv, StoreTypes, Places, Active, Ended
<1>5. FavoritesSound'
  BY DEF StoreInv, FavoritesSound, Exists, Sells
<1>6. CallInv(c)'
  <2>1. at'[c] \in {"counting", "done"} /\ at[c] = "counting" /\ job' = job
    BY DEF StoreInv, StoreTypes
  <2>2. Begun(c)' /\ Fresh(c)'
    BY <2>1 DEF StoreInv, CallInv, Begun, Fresh
  <2>3. Marks("favoriteCount", s)' = Marks("favoriteCount", s)
    BY DEF Marks
  <2>4. c \notin torn =>
          /\ "favoriteCount" \in known =>
                figures'[c]["favoriteCount"] = Cardinality(Marks("favoriteCount", s))
          /\ "monthFavoriteCount" \in known =>
                figures'[c]["monthFavoriteCount"] <= Cardinality(Marks("favoriteCount", s))
    BY <1>0, <1>2 DEF StoreInv, CallInv, Counted, Figure
  <2>5. Counted(c)'
    <3>1. DOMAIN figures'[c] = known
      BY <1>2
    <3> HIDE DEF s, known, value, Count
    <3> QED
      BY <2>1, <2>3, <2>4, <3>1 DEF Counted, Ended, Figure, s, Count
  <2> QED
    BY <2>2, <2>5 DEF CallInv
<1>7. \A x \in Calls \ {c} : CallInv(x)'
  BY StoreFrame, StayingStores DEF StoreInv, StoreTypes, Marks
<1> QED
  BY <1>4, <1>5, <1>6, <1>7 DEF StoreInv

LEMMA RemoveUserStep ==
    ASSUME StoreInv, NEW u \in Users, RemoveUser(u)
    PROVE  StoreInv'
<1> DEFINE mine == {s \in Stores : Sells(u, s)}
           lost == {m \in favorite : m[1] = u \/ m[2] \in mine}
<1>1. /\ users' = users \ {u} /\ favorite' = favorite \ lost /\ recent' = recent \ lost
      /\ store' = [s \in Stores |-> IF s \in mine THEN Gone ELSE store[s]]
      /\ Tear({m[2] : m \in lost})
      /\ UNCHANGED <<at, job, figures>>
  BY DEF RemoveUser
<1>2. StoreTypes'
  BY <1>1 DEF StoreInv, StoreTypes, Tear
<1>3. \A s \in Stores : s \notin mine => store'[s] = store[s]
  BY <1>1
<1>4. FavoritesSound'
  <2> SUFFICES ASSUME NEW m \in favorite'
               PROVE  m[1] \in users' /\ Exists(m[2])' /\ ~ Sells(m[1], m[2])'
    BY DEF FavoritesSound
  <2>1. m \in favorite /\ m[1] # u /\ m[2] \notin mine /\ m[2] \in Stores
    BY <1>1 DEF StoreInv, StoreTypes
  <2>2. store'[m[2]] = store[m[2]]
    BY <1>3, <2>1
  <2> QED
    BY <1>1, <2>1, <2>2 DEF StoreInv, FavoritesSound, Exists, Sells
<1>5. StoresGoOn
  BY <1>1, <1>3, StoresAssumption DEF StoresGoOn, Exists, Sells
<1>6. ASSUME NEW m, m[2] \notin {d[2] : d \in lost} PROVE m \in favorite' <=> m \in favorite
  BY <1>1, <1>6
<1>7. ASSUME NEW x \in Calls, at[x] # "done" PROVE store'[x] = store[x]
  BY <1>3, <1>7 DEF StoreInv, CallInv, Fresh, Sells, Exists, Stores
<1>8. \A x \in Calls : CallInv(x)'
  <2> HIDE DEF lost
  <2> QED
    BY <1>1, <1>5, <1>6, <1>7, TearFrame
<1> QED
  BY <1>2, <1>4, <1>8 DEF StoreInv

LEMMA TurnMonthStep ==
    ASSUME StoreInv, TurnMonth
    PROVE  StoreInv'
<1> USE DEF TurnMonth
<1>1. StoreTypes' /\ FavoritesSound'
  BY DEF StoreInv, StoreTypes, FavoritesSound, Exists, Sells
<1>2. \A x \in Calls : CallInv(x)'
  BY StoreFrame, StayingStores DEF Marks
<1> QED
  BY <1>1, <1>2 DEF StoreInv

LEMMA NextStoreInv == StoreInv /\ [StoresNext]_storesVars => StoreInv'
<1> SUFFICES ASSUME StoreInv, [StoresNext]_storesVars PROVE StoreInv'
  OBVIOUS
<1>1. ASSUME NEW c \in Calls, SeekFavorite(c) PROVE StoreInv'
  BY <1>1, QuietStep DEF SeekFavorite, Active
<1>2. ASSUME NEW c \in Calls, Fail(c) PROVE StoreInv'
  BY <1>2, QuietStep DEF Fail
<1>3. CASE UNCHANGED storesVars
  <2> USE <1>3 DEF storesVars, rows, marks
  <2>1. StoreTypes' /\ FavoritesSound'
    BY DEF StoreInv, StoreTypes, FavoritesSound, Exists, Sells
  <2>2. \A x \in Calls : CallInv(x)'
    BY StoreFrame, StayingStores DEF Marks
  <2> QED
    BY <2>1, <2>2 DEF StoreInv
<1> QED
  BY <1>1, <1>2, <1>3, BeginStep, CreateStep, UpdateStep, AddStep, DropStep, CountStep,
     RemoveUserStep, TurnMonthStep DEF StoresNext, StoresRest

LEMMA StoreInvariance == StoresSpec => []StoreInv
BY InitStoreInv, NextStoreInv, PTL DEF StoresSpec

--------------------------------------------------------------------------------
(* The types hold.                                                          *)
THEOREM StoresTypeCorrect == StoresSpec => []StoreTypes
<1>1. StoreInv => StoreTypes
  BY DEF StoreInv
<1> QED
  BY <1>1, StoreInvariance, PTL

(* Every mark is a present user's on a present store of somebody else.      *)
THEOREM FavoritesStaySound == StoresSpec => []FavoritesSound
<1>1. StoreInv => FavoritesSound
  BY DEF StoreInv
<1> QED
  BY <1>1, StoreInvariance, PTL

(* A detail page that nobody crossed shows figures that agree.              *)
THEOREM FiguresAgree == StoresSpec => []FiguresAgreeUnlessTorn
<1>1. StoreInv => FiguresAgreeUnlessTorn
  BY DEF StoreInv, CallInv, Counted, FiguresAgreeUnlessTorn
<1> QED
  BY <1>1, StoreInvariance, PTL

(* Three actions change stores.                                            *)
LEMMA StoresChange ==
    ASSUME [StoresNext]_storesVars
    PROVE  \/ UNCHANGED store
           \/ \E c \in Calls : CreateStore(c) \/ UpdateStore(c)
           \/ \E u \in Users : RemoveUser(u)
BY DEF StoresNext, StoresRest, storesVars, rows, marks, BeginCreate,
   BeginUpdate, BeginRegister, BeginDrop, BeginMyDetail, BeginDetail,
   Begin, SeekFavorite, AddFavorite, DropFavorite, Count, Fail,
   TurnMonth

(* A store is opened, changed and removed with its seller only.             *)
THEOREM StoresStayTheirSellers == StoresSpec => StoresBelongToSellers
<1> DEFINE Belongs ==
      \A s \in Stores : store'[s] # store[s] =>
        \/ /\ store[s] = Absent
           /\ store'[s].seller \in users /\ ~ HasStore(store'[s].seller)
        \/ store'[s] = Gone /\ store[s].seller \notin users'
        \/ \E c \in Calls :
            /\ at[c] = "updating" /\ at'[c] = "done"
            /\ store'[s].seller = store[s].seller /\ job[c].user = store[s].seller
            /\ \A f \in Fields \ job[c].sent : store'[s].form[f] = store[s].form[f]
<1>1. StoreInv /\ [StoresNext]_storesVars => [Belongs]_storesVars
  <2> SUFFICES ASSUME StoreInv, [StoresNext]_storesVars, NEW s \in Stores, store'[s] # store[s]
               PROVE  \/ /\ store[s] = Absent
                         /\ store'[s].seller \in users /\ ~ HasStore(store'[s].seller)
                      \/ store'[s] = Gone /\ store[s].seller \notin users'
                      \/ \E c \in Calls :
                          /\ at[c] = "updating" /\ at'[c] = "done"
                          /\ store'[s].seller = store[s].seller /\ job[c].user = store[s].seller
                          /\ \A f \in Fields \ job[c].sent :
                                store'[s].form[f] = store[s].form[f]
    OBVIOUS
  <2>1. \/ \E c \in Calls : CreateStore(c) \/ UpdateStore(c)
        \/ \E u \in Users : RemoveUser(u)
    BY StoresChange
  <2>2. ASSUME NEW c \in Calls, CreateStore(c)
        PROVE  store[s] = Absent /\ store'[s].seller \in users /\ ~ HasStore(store'[s].seller)
    BY <2>2 DEF CreateStore, Opened, StoreInv, StoreTypes, CallInv, Fresh, Begun, Opening
  <2>3. ASSUME NEW c \in Calls, UpdateStore(c)
        PROVE  /\ at[c] = "updating" /\ at'[c] = "done"
               /\ store'[s].seller = store[s].seller /\ job[c].user = store[s].seller
               /\ \A f \in Fields \ job[c].sent : store'[s].form[f] = store[s].form[f]
    <3>1. s = job[c].store /\ Exists(s) /\ store[s] \in Row
      BY <2>3 DEF UpdateStore, StoreInv, StoreTypes, Exists
    <3>2. Sells(job[c].user, s) /\ job[c] \in Change
      BY <2>3, <3>1 DEF UpdateStore, StoreInv, CallInv, Begun
    <3>3. store'[s] = [store[s] EXCEPT !.form =
                          [f \in Fields |-> IF f \in job[c].sent THEN c ELSE @[f]]]
      BY <2>3, <3>1 DEF UpdateStore, StoreInv, StoreTypes
    <3>4. at[c] = "updating" /\ at'[c] = "done"
      BY <2>3, <3>1 DEF UpdateStore, StoreInv, StoreTypes
    <3> QED
      BY <3>1, <3>2, <3>3, <3>4 DEF Sells, Row
  <2>4. ASSUME NEW u \in Users, RemoveUser(u)
        PROVE  store'[s] = Gone /\ store[s].seller \notin users'
    BY <2>4 DEF RemoveUser, Sells
  <2> QED
    BY <2>1, <2>2, <2>3, <2>4
<1> QED
  BY <1>1, StoreInvariance, PTL DEF StoresSpec, StoresBelongToSellers

--------------------------------------------------------------------------------
OneStoreEach ==
    \A r, s \in Stores : \A u \in Sellers :
        Sells(u, r) /\ Sells(u, s) => r = s

LEMMA StepKeepsOneStore ==
    ASSUME StoreInv, OneStoreEach, [StoresNext]_storesVars
    PROVE  OneStoreEach'
<1>1. CASE UNCHANGED store
  BY <1>1 DEF OneStoreEach, Sells, Exists
<1>2. ASSUME NEW c \in Calls, CreateStore(c)
      PROVE  OneStoreEach'
  <2>1. CASE UNCHANGED store
    BY <2>1 DEF OneStoreEach, Sells, Exists
  <2>2. CASE store' # store
    <3>1. /\ ~ HasStore(job[c].user)
          /\ store' = [store EXCEPT ![c] = [seller |-> job[c].user, form |-> [f \in Fields |-> c]]]
      BY <1>2, <2>2 DEF CreateStore, Opened
    <3>2. \A s \in Stores : \A u :
            Sells(u, s)' => Sells(u, s) \/ (s = c /\ u = job[c].user)
      BY <3>1 DEF StoreInv, StoreTypes, Sells, Exists
    <3> QED
      BY <3>1, <3>2 DEF OneStoreEach, HasStore
  <2> QED
    BY <2>1, <2>2
<1>3. ASSUME NEW c \in Calls, UpdateStore(c)
      PROVE  OneStoreEach'
  <2>1. \A s \in Stores : \A u : Sells(u, s)' => Sells(u, s)
    <3>1. CASE UNCHANGED store
      BY <3>1 DEF Sells, Exists
    <3>2. CASE store' # store
      <4> DEFINE r == job[c].store
      <4>1. /\ Exists(r)
            /\ store' = [store EXCEPT ![r].form =
                            [f \in Fields |-> IF f \in job[c].sent THEN c ELSE @[f]]]
        BY <1>3, <3>2 DEF UpdateStore
      <4>2. r \in Stores
        BY <1>3 DEF UpdateStore, StoreInv, CallInv, Begun, Change
      <4>3. store[r] \in Row
        BY <4>1, <4>2 DEF StoreInv, StoreTypes, Exists
      <4>4. \A s \in Stores : s # r => store'[s] = store[s]
        BY <4>1 DEF StoreInv, StoreTypes
      <4>5. store'[r].seller = store[r].seller
        BY <4>1, <4>2, <4>3 DEF StoreInv, StoreTypes, Row
      <4> QED
        BY <4>1, <4>4, <4>5 DEF Sells, Exists
    <3> QED
      BY <3>1, <3>2
  <2> QED
    BY <2>1 DEF OneStoreEach
<1>4. ASSUME NEW u \in Users, RemoveUser(u)
      PROVE  OneStoreEach'
  <2>1. \A s \in Stores : \A v : Sells(v, s)' => Sells(v, s)
    BY <1>4 DEF RemoveUser, Sells, Exists
  <2> QED
    BY <2>1 DEF OneStoreEach
<1> QED
  BY <1>1, <1>2, <1>3, <1>4, StoresChange

(* No seller ever has two stores, though two requests of one seller may both  *)
(* find none (store.service.ts:37-51): of two inserts the unique key refuses  *)
(* one, and no update gives a store another seller.                           *)
THEOREM SellersHaveOneStore == StoresSpec => []OneStoreEach
<1>1. StoresInit => OneStoreEach
  BY DEF StoresInit, OneStoreEach, Sells, Exists
<1>2. StoreInv /\ OneStoreEach /\ [StoresNext]_storesVars => OneStoreEach'
  BY StepKeepsOneStore
<1> QED
  BY <1>1, <1>2, StoreInvariance, PTL DEF StoresSpec
================================================================================
