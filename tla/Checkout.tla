-------------------------------- MODULE Checkout --------------------------------
(***************************************************************************)
(* OrdersService.createOrder (src/orders/orders.service.ts), run by several*)
(* requests at once against one PostgreSQL database at READ COMMITTED, with*)
(* sellers replacing the stock rows of their products meanwhile.           *)
(*                                                                         *)
(* A step is one await of the handler: one statement, the commit, or the   *)
(* rollback.  What an open transaction wrote is in `reserved' and `drafts',*)
(* or `deleted' for a seller's, and nobody else sees it; a row it wrote is *)
(* locked until it ends.  The order a request creates is identified by the *)
(* request.  A product has at most one stock row per size.                 *)
(***************************************************************************)
EXTENDS Integers, Sequences, SequencesExt, FiniteSetsExt

CONSTANTS
    Requests,       \* POST /orders requests
    Buyers,
    Products,
    Sizes,          \* StockSize.id, a string
    Numbers,        \* the sizes clients name, which are numbers
    StringOf,       \* number -> the size id String() makes of it
    StoreOf,        \* product -> store
    InitialStock,   \* row -> quantity or NoRow
    InitialPoints,  \* buyer -> points
    Baskets,        \* the dto.orderItems a client may send
    UsePoints,      \* the dto.usePoint a client may send
    Levels,         \* quantities a seller may set, NoRow to drop a row
    MaxEdits,       \* bound: product -> seller edits begun
    NoRow, NoRequest, NoOrder

Rows == Products \X Sizes
Item == [product : Products, size : Numbers, quantity : Nat \ {0}]
Request == [buyer : Buyers, items : Baskets, usePoint : UsePoints]

ASSUME CheckoutAssumption ==
    /\ StringOf \in [Numbers -> Sizes]
    /\ Baskets \subseteq Seq(Item)
    /\ UsePoints \subseteq Int
    /\ InitialPoints \in [Buyers -> Nat]
    /\ InitialStock \in [Rows -> Nat \cup {NoRow}]
    /\ Levels \subseteq Nat \cup {NoRow}
    /\ MaxEdits \in [Products -> Nat]
    /\ NoRow \notin Nat
    /\ NoRequest \notin Request
    /\ NoOrder \notin Request

VARIABLES
    pc,             \* where each request is
    request,        \* the body a request carries, NoRequest before it arrives
    next,           \* index of the next item whose stock is to be taken
    reserved,       \* stock decrements of the request's transaction, per row
    drafts,         \* notifications its open transaction has written
    stock,          \* committed quantity of each row
    orders,         \* committed order of each request, NoOrder if none
    notifications,  \* committed notifications
    points,         \* User.points
    ledger,         \* points logged as SPEND_ORDER for each order, 0 if no log
    editing,        \* products of which an edit is open
    deleted,        \* rows the open edits have deleted
    edits,          \* how many edits of each product have begun
    replaced        \* history: products whose rows an edit has replaced

sellerVars == <<editing, deleted, edits, replaced>>
vars == <<pc, request, next, reserved, drafts, stock, orders, notifications,
          points, ledger, sellerVars>>
txVars == <<request, next, reserved, drafts>>
dbVars == <<stock, orders, notifications, points, ledger>>

(* User and products are read outside the transaction; "placed" and        *)
(* "settled" are after its commit.                                         *)
OpenTx == {"reserving", "waiting", "short", "throwing", "written"}
Final == {"done", "rejected", "refused", "overdrawn", "failed"}
PC == {"idle", "user_ok", "placed", "settled"} \cup OpenTx \cup Final

Nothing == [k \in Rows |-> 0]
Basket(r) == request[r].items
RowOf(item) == <<item.product, StringOf[item.size]>>
CurrentItem(r) == Basket(r)[next[r]]
CurrentRow(r) == RowOf(CurrentItem(r))

(* A transaction holds the lock of every row it decremented or deleted.    *)
Holds(r, k) == pc[r] \in OpenTx /\ reserved[r][k] > 0
Free(k) == k \notin deleted /\ \A r \in Requests : ~ Holds(r, k)
Covers(k, quantity) == stock[k] # NoRow /\ stock[k] >= quantity

Init ==
    /\ pc = [r \in Requests |-> "idle"]
    /\ request = [r \in Requests |-> NoRequest]
    /\ next = [r \in Requests |-> 1]
    /\ reserved = [r \in Requests |-> Nothing]
    /\ drafts = [r \in Requests |-> {}]
    /\ stock = InitialStock
    /\ orders = [r \in Requests |-> NoOrder]
    /\ notifications = {}
    /\ points = InitialPoints
    /\ ledger = [r \in Requests |-> 0]
    /\ editing = {} /\ deleted = {} /\ replaced = {}
    /\ edits = [p \in Products |-> 0]

Goto(r, label) == pc' = [pc EXCEPT ![r] = label]

--------------------------------------------------------------------------------
(* The request arrives; the user, whose account may be gone since it signed *)
(* in, is read and the points it wants to use are compared with the points  *)
(* read.                                                                    *)
Receive(r) ==
    /\ pc[r] = "idle"
    /\ \E q \in Request :
        /\ request' = [request EXCEPT ![r] = q]
        /\ \/ Goto(r, "rejected")
           \/ q.usePoint <= points[q.buyer] /\ Goto(r, "user_ok")
    /\ UNCHANGED <<next, reserved, drafts, dbVars, sellerVars>>

(* findMany returns each product once, so a product asked for twice makes   *)
(* the lengths differ.                                                      *)
DistinctProducts(basket) ==
    \A i, j \in DOMAIN basket : basket[i].product = basket[j].product => i = j
OneStore(basket) ==
    \A i, j \in DOMAIN basket : StoreOf[basket[i].product] = StoreOf[basket[j].product]

(* Products are read and checked; then the transaction opens and creates    *)
(* the order.  An empty basket passes the checks and fails on the store     *)
(* lookup, whose id is undefined.                                           *)
LoadProducts(r) ==
    /\ pc[r] = "user_ok"
    /\ Goto(r, IF Basket(r) = << >> THEN "failed"
               ELSE IF DistinctProducts(Basket(r)) /\ OneStore(Basket(r)) THEN "reserving"
               ELSE "rejected")
    /\ UNCHANGED <<txVars, dbVars, sellerVars>>

--------------------------------------------------------------------------------
(* UPDATE ... WHERE quantity >= q on the current item's row, in its three   *)
(* outcomes.  The row the statement sees is the committed one; if another   *)
(* transaction holds it the statement waits and tests the row again once it *)
(* is free.                                                                 *)
AtItem(r) == pc[r] \in {"reserving", "waiting"} /\ next[r] <= Len(Basket(r))

\* Mutant: the decrement does not wait for the row's lock.
TakeItemUnlocked(r) ==
    /\ AtItem(r)
    /\ Covers(CurrentRow(r), CurrentItem(r).quantity)
    /\ reserved' = [reserved EXCEPT ![r][CurrentRow(r)] = CurrentItem(r).quantity]
    /\ next' = [next EXCEPT ![r] = @ + 1]
    /\ Goto(r, "reserving")
    /\ UNCHANGED <<request, drafts, dbVars, sellerVars>>

\* Mutant: one unit is taken whatever the quantity ordered.
TakeOneUnit(r) ==
    /\ AtItem(r)
    /\ Free(CurrentRow(r))
    /\ Covers(CurrentRow(r), CurrentItem(r).quantity)
    /\ reserved' = [reserved EXCEPT ![r][CurrentRow(r)] = 1]
    /\ next' = [next EXCEPT ![r] = @ + 1]
    /\ Goto(r, "reserving")
    /\ UNCHANGED <<request, drafts, dbVars, sellerVars>>

\* Mutant: the decrement goes through this.prisma, outside the transaction.
TakeItemOutsideTx(r) ==
    /\ AtItem(r)
    /\ Free(CurrentRow(r))
    /\ Covers(CurrentRow(r), CurrentItem(r).quantity)
    /\ stock' = [stock EXCEPT ![CurrentRow(r)] = @ - CurrentItem(r).quantity]
    /\ next' = [next EXCEPT ![r] = @ + 1]
    /\ Goto(r, "reserving")
    /\ UNCHANGED <<request, reserved, drafts, orders, notifications, points, ledger, sellerVars>>

TakeItem(r) ==
    /\ AtItem(r)
    /\ Free(CurrentRow(r))
    /\ Covers(CurrentRow(r), CurrentItem(r).quantity)
    /\ reserved' = [reserved EXCEPT ![r][CurrentRow(r)] = CurrentItem(r).quantity]
    /\ next' = [next EXCEPT ![r] = @ + 1]
    /\ Goto(r, "reserving")
    /\ UNCHANGED <<request, drafts, dbVars, sellerVars>>

AwaitRow(r) ==
    /\ AtItem(r)
    /\ pc[r] = "reserving"
    /\ ~ Free(CurrentRow(r))
    /\ Covers(CurrentRow(r), CurrentItem(r).quantity)
    /\ Goto(r, "waiting")
    /\ UNCHANGED <<txVars, dbVars, sellerVars>>

\* Mutant: the condition is not tested again after the wait.
MissItemOnce(r) ==
    /\ AtItem(r)
    /\ pc[r] = "reserving"
    /\ ~ Covers(CurrentRow(r), CurrentItem(r).quantity)
    /\ Goto(r, "short")
    /\ UNCHANGED <<txVars, dbVars, sellerVars>>

MissItem(r) ==
    /\ AtItem(r)
    /\ pc[r] = "waiting" => Free(CurrentRow(r))
    /\ ~ Covers(CurrentRow(r), CurrentItem(r).quantity)
    /\ Goto(r, "short")
    /\ UNCHANGED <<txVars, dbVars, sellerVars>>

(* updated.count === 0: buyer and seller are notified inside the            *)
(* transaction, which the exception thrown next rolls back.                 *)
Notice(type, to, product, r) == [type |-> type, to |-> to, product |-> product, order |-> r]

NotifyShortage(r) ==
    /\ pc[r] = "short"
    /\ LET p == CurrentItem(r).product IN
        drafts' = [drafts EXCEPT ![r] =
            @ \cup {Notice("OUT_OF_STOCK_CART", request[r].buyer, p, r),
                    Notice("OUT_OF_STOCK_ORDER", StoreOf[p], p, r)}]
    /\ Goto(r, "throwing")
    /\ UNCHANGED <<request, next, reserved, dbVars, sellerVars>>

\* What the transaction of r sees in a row.
Left(r, k) == IF reserved[r][k] > 0 THEN stock[k] - reserved[r][k] ELSE stock[k]

\* Mutant: the decrements survive the rollback.
RollbackKeepsStock(r, label) ==
    /\ stock' = [k \in Rows |-> Left(r, k)]
    /\ reserved' = [reserved EXCEPT ![r] = Nothing]
    /\ drafts' = [drafts EXCEPT ![r] = {}]
    /\ Goto(r, label)
    /\ UNCHANGED <<request, next, orders, notifications, points, ledger, sellerVars>>

RollbackTo(r, label) ==
    /\ reserved' = [reserved EXCEPT ![r] = Nothing]
    /\ drafts' = [drafts EXCEPT ![r] = {}]
    /\ Goto(r, label)
    /\ UNCHANGED <<request, next, dbVars, sellerVars>>

Refuse(r) ==
    /\ pc[r] = "throwing"
    /\ RollbackTo(r, "refused")

--------------------------------------------------------------------------------
(* All items taken: order items and payment are written, then the rows of   *)
(* any ordered product in any ordered size that the transaction sees at 0   *)
(* name the products the seller is told are sold out.                       *)
\* Mutant: the rows are looked up before they are decremented.
ZeroStocksBefore(r) ==
    {k \in {i.product : i \in ToSet(Basket(r))} \X {StringOf[i.size] : i \in ToSet(Basket(r))} :
        stock[k] = 0}

ZeroStocks(r) ==
    {k \in {i.product : i \in ToSet(Basket(r))} \X {StringOf[i.size] : i \in ToSet(Basket(r))} :
        Left(r, k) = 0}

WriteOrder(r) ==
    /\ pc[r] = "reserving"
    /\ next[r] > Len(Basket(r))
    /\ drafts' = [drafts EXCEPT ![r] =
           @ \cup {Notice("OUT_OF_STOCK_SELLER", StoreOf[k[1]], k[1], r) : k \in ZeroStocks(r)}]
    /\ Goto(r, "written")
    /\ UNCHANGED <<request, next, reserved, dbVars, sellerVars>>

Commit(r) ==
    /\ pc[r] = "written"
    /\ stock' = [k \in Rows |-> Left(r, k)]
    /\ orders' = [orders EXCEPT ![r] = request[r]]
    /\ notifications' = notifications \cup drafts[r]
    /\ drafts' = [drafts EXCEPT ![r] = {}]
    /\ Goto(r, "placed")
    /\ UNCHANGED <<request, next, reserved, points, ledger, sellerVars>>

(* PointsService.spendPointsForOrder, a transaction of its own: skipped for *)
(* nothing to spend or an order already logged; otherwise points and log    *)
(* change together, if the points are still there.                          *)
\* Mutant: decUserPointsIfEnough without its `points >= amount'.
SpendUnchecked(r) ==
    LET b == request[r].buyer
        amount == request[r].usePoint
    IN
    /\ pc[r] = "placed"
    /\ IF amount <= 0 \/ ledger[r] # 0
       THEN UNCHANGED <<points, ledger>>
       ELSE /\ points' = [points EXCEPT ![b] = @ - amount]
            /\ ledger' = [ledger EXCEPT ![r] = amount]
    /\ Goto(r, "settled")
    /\ UNCHANGED <<txVars, stock, orders, notifications, sellerVars>>

\* Mutant: the count of updated rows is not looked at.
SpendIgnoringShortfall(r) ==
    LET b == request[r].buyer
        amount == request[r].usePoint
    IN
    /\ pc[r] = "placed"
    /\ IF amount <= 0 \/ ledger[r] # 0 \/ points[b] < amount
       THEN UNCHANGED <<points, ledger>>
       ELSE /\ points' = [points EXCEPT ![b] = @ - amount]
            /\ ledger' = [ledger EXCEPT ![r] = amount]
    /\ Goto(r, "settled")
    /\ UNCHANGED <<txVars, stock, orders, notifications, sellerVars>>

Spend(r) ==
    LET b == request[r].buyer
        amount == request[r].usePoint
    IN
    /\ pc[r] = "placed"
    /\ \/ /\ amount <= 0 \/ ledger[r] # 0
          /\ Goto(r, "settled")
          /\ UNCHANGED <<points, ledger>>
       \/ /\ amount > 0 /\ ledger[r] = 0 /\ points[b] >= amount
          /\ points' = [points EXCEPT ![b] = @ - amount]
          /\ ledger' = [ledger EXCEPT ![r] = amount]
          /\ Goto(r, "settled")
       \/ /\ amount > 0 /\ ledger[r] = 0 /\ points[b] < amount
          /\ Goto(r, "overdrawn")
          /\ UNCHANGED <<points, ledger>>
    /\ UNCHANGED <<txVars, stock, orders, notifications, sellerVars>>

(* The order is read back and returned.                                     *)
Respond(r) ==
    /\ pc[r] = "settled"
    /\ orders[r] # NoOrder
    /\ Goto(r, "done")
    /\ UNCHANGED <<txVars, dbVars, sellerVars>>

--------------------------------------------------------------------------------
(* A request waits for the transaction that holds its row, an edit for a    *)
(* request that holds a row the edit has yet to delete.                     *)
WaitsFor(r, h) == pc[r] = "waiting" /\ h # r /\ Holds(h, CurrentRow(r))
WaitsForEdit(r, p) ==
    pc[r] = "waiting" /\ CurrentItem(r).product = p /\ CurrentRow(r) \in deleted
EditWaitsFor(p, h) == \E k \in Rows : k[1] = p /\ Holds(h, k)

(* A set of requests and edits each waiting for one of the set, and each    *)
(* held up by one of the set, is a cycle.                                   *)
Cycle(S, E) ==
    /\ \A x \in S : (\E y \in S : WaitsFor(x, y)) \/ (\E p \in E : WaitsForEdit(x, p))
    /\ \A y \in S : (\E x \in S : WaitsFor(x, y)) \/ (\E p \in E : EditWaitsFor(p, y))
    /\ \A p \in E : (\E y \in S : EditWaitsFor(p, y)) /\ (\E x \in S : WaitsForEdit(x, p))

Deadlocked(r) ==
    \E S \in SUBSET Requests, E \in SUBSET editing : r \in S /\ Cycle(S, E)
EditDeadlocked(p) ==
    \E S \in SUBSET Requests, E \in SUBSET editing : p \in E /\ Cycle(S, E)

(* PostgreSQL ends a deadlock by aborting a transaction of the cycle.       *)
DeadlockAbort(r) ==
    /\ Deadlocked(r)
    /\ RollbackTo(r, "failed")

(* Any statement before the commit may fail, the interactive transaction    *)
(* may time out, the server may crash: the database rolls back.             *)
FailBeforeCommit(r) ==
    /\ pc[r] \in {"user_ok"} \cup OpenTx
    /\ RollbackTo(r, "failed")

(* The same after the commit: the order is there and the caller is not told.*)
FailAfterCommit(r) ==
    /\ pc[r] \in {"placed", "settled"}
    /\ Goto(r, "failed")
    /\ UNCHANGED <<txVars, dbVars, sellerVars>>

--------------------------------------------------------------------------------
(* ProductsRepository.update, one transaction: the product's row is updated,*)
(* which keeps other edits of it out, and its stock rows are deleted one    *)
(* after another, each once no order holds it.                              *)
BeginEdit(p) ==
    /\ p \notin editing
    /\ edits[p] < MaxEdits[p]
    /\ editing' = editing \cup {p}
    /\ edits' = [edits EXCEPT ![p] = @ + 1]
    /\ UNCHANGED <<pc, txVars, dbVars, deleted, replaced>>

DeleteRow(p) ==
    /\ p \in editing
    /\ \E size \in Sizes :
        /\ stock[<<p, size>>] # NoRow
        /\ Free(<<p, size>>)
        /\ deleted' = deleted \cup {<<p, size>>}
    /\ UNCHANGED <<pc, txVars, dbVars, editing, edits, replaced>>

EndEdit(p) ==
    /\ editing' = editing \ {p}
    /\ deleted' = {k \in deleted : k[1] # p}
    /\ edits' = edits

(* All rows deleted: the new ones are inserted and the edit commits.  An    *)
(* UPDATE that waits for one of the old rows finds it gone and changes      *)
(* nothing.                                                                 *)
ReplaceStock(p) ==
    /\ p \in editing
    /\ \A size \in Sizes : stock[<<p, size>>] # NoRow => <<p, size>> \in deleted
    /\ \E new \in [Sizes -> Levels] :
        stock' = [k \in Rows |-> IF k[1] = p THEN new[k[2]] ELSE stock[k]]
    /\ pc' = [r \in Requests |->
           IF pc[r] = "waiting" /\ CurrentItem(r).product = p THEN "short" ELSE pc[r]]
    /\ replaced' = replaced \cup {p}
    /\ EndEdit(p)
    /\ UNCHANGED <<txVars, orders, notifications, points, ledger>>

(* A deadlock, any failure or a crash takes the edit back.                  *)
RollbackEdit(p) ==
    /\ p \in editing
    /\ EndEdit(p)
    /\ UNCHANGED <<pc, txVars, dbVars, replaced>>

AbortEdit(p) == EditDeadlocked(p) /\ RollbackEdit(p)

--------------------------------------------------------------------------------
(* What the server does once a request has arrived.                         *)
Serve(r) ==
    \/ LoadProducts(r)
    \/ TakeItem(r)
    \/ AwaitRow(r)
    \/ MissItem(r)
    \/ NotifyShortage(r)
    \/ Refuse(r)
    \/ WriteOrder(r)
    \/ Commit(r)
    \/ Spend(r)
    \/ Respond(r)
    \/ DeadlockAbort(r)

ServeEdit(p) == DeleteRow(p) \/ ReplaceStock(p) \/ AbortEdit(p)

(* Every request has its answer: the system may rest.                       *)
Rest == (\A r \in Requests : pc[r] \in Final) /\ UNCHANGED vars

Next ==
    \/ \E r \in Requests :
        Receive(r) \/ Serve(r) \/ FailBeforeCommit(r) \/ FailAfterCommit(r)
    \/ \E p \in Products : BeginEdit(p) \/ ServeEdit(p) \/ RollbackEdit(p)
    \/ Rest

(* The event loop and the database keep serving every request and every     *)
(* edit that has begun; nothing forces a client to send, a seller to edit   *)
(* or a failure to happen.                                                  *)
Spec ==
    /\ Init /\ [][Next]_vars
    /\ \A r \in Requests : WF_vars(Serve(r))
    /\ \A p \in Products : WF_vars(ServeEdit(p))

--------------------------------------------------------------------------------
Quantity == Nat \cup {NoRow}
NoticeSet ==
    [type : {"OUT_OF_STOCK_CART", "OUT_OF_STOCK_ORDER", "OUT_OF_STOCK_SELLER"},
     to : Buyers \cup {StoreOf[p] : p \in Products}, product : Products, order : Requests]

TypeOK ==
    /\ pc \in [Requests -> PC]
    /\ request \in [Requests -> Request \cup {NoRequest}]
    /\ next \in [Requests -> Nat \ {0}]
    /\ reserved \in [Requests -> [Rows -> Nat]]
    /\ drafts \in [Requests -> SUBSET NoticeSet]
    /\ stock \in [Rows -> Quantity]
    /\ orders \in [Requests -> Request \cup {NoOrder}]
    /\ notifications \subseteq NoticeSet
    /\ points \in [Buyers -> Nat]
    /\ ledger \in [Requests -> Nat]
    /\ editing \subseteq Products /\ replaced \subseteq Products
    /\ deleted \subseteq Rows
    /\ edits \in [Products -> Nat]

(* A row some open transaction decremented still has the quantity it took,  *)
(* and no other open transaction decremented it: no check made before a     *)
(* wait or another commit is ever acted upon stale (orders.service.ts:116). *)
ReservationsCovered ==
    \A r \in Requests, k \in Rows :
        Holds(r, k) =>
            /\ Covers(k, reserved[r][k])
            /\ \A x \in Requests \ {r} : ~ Holds(x, k)

(* A committed order took from the stock exactly its items: every item's    *)
(* quantity from the row of its product and size, and from no other row.    *)
OrderMatchesStock ==
    \A r \in Requests :
        orders[r] # NoOrder =>
            /\ \A i \in DOMAIN orders[r].items :
                  reserved[r][RowOf(orders[r].items[i])] = orders[r].items[i].quantity
            /\ \A k \in Rows :
                  reserved[r][k] > 0 => \E i \in DOMAIN orders[r].items : RowOf(orders[r].items[i]) = k

(* No unit is sold twice or lost: as long as no seller replaced a product's *)
(* rows, what is left and what committed orders contain is what there was,  *)
(* whatever was rolled back, refused, aborted or failed.                    *)
SoldBy(r, k) ==
    LET items == orders[r].items IN
    SumFunction([i \in DOMAIN items |-> IF RowOf(items[i]) = k THEN items[i].quantity ELSE 0])
Sold(k) == SumFunction([r \in {x \in Requests : orders[x] # NoOrder} |-> SoldBy(r, k)])
StockConserved ==
    \A k \in Rows :
        InitialStock[k] # NoRow /\ k[1] \notin replaced => stock[k] + Sold(k) = InitialStock[k]

(* A caller told the order succeeded has an order, and the points it asked  *)
(* to use are gone from the balance and logged (orders.service.ts:217-231). *)
SuccessIsSettled ==
    \A r \in Requests :
        pc[r] = "done" =>
            /\ orders[r] = request[r]
            /\ ledger[r] = (IF request[r].usePoint > 0 THEN request[r].usePoint ELSE 0)

(* A row an order empties leaves the seller an alert naming that order and  *)
(* the product, in the same commit (orders.service.ts:185-212).             *)
SoldOutAlerted ==
    [][\A k \in Rows, r \in Requests :
          stock[k] # 0 /\ stock'[k] = 0 /\ orders[r] = NoOrder /\ orders'[r] # NoOrder
          => Notice("OUT_OF_STOCK_SELLER", StoreOf[k[1]], k[1], r) \in notifications']_vars

(* Order creation sells all or nothing (module Inventory).                  *)
Store == INSTANCE Inventory WITH
    Orders <- Requests,
    taken <- [r \in Requests |-> IF orders[r] # NoOrder THEN reserved[r] ELSE Nothing]
SellsAtomically == Store!Spec

(* Every request is answered, whatever it waits for.                        *)
Answered == \A r \in Requests : pc[r] = "user_ok" ~> pc[r] \in Final

--------------------------------------------------------------------------------
(* The project's README.md:91-92: a failed decrement creates the            *)
(* notifications, the transaction rolls back, and the consistency of the    *)
(* data and the notification of the user are both guaranteed.               *)
RefusalNotified ==
    \A r \in Requests :
        pc[r] = "refused" =>
            \E n \in notifications : n.type = "OUT_OF_STOCK_CART" /\ n.order = r

(* orders.service.ts:49, "prevent using more points than held": committed   *)
(* orders of a buyer together use no more points than the buyer had.        *)
PointsNotOverspent ==
    \A b \in Buyers :
        MapThenSumSet(LAMBDA r : orders[r].usePoint,
                      {r \in Requests : orders[r] # NoOrder /\ orders[r].buyer = b})
        <= InitialPoints[b]
================================================================================
