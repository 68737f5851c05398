# CODI-IT backend: TLA+ models, checks and proofs

The backend (NestJS, Prisma, PostgreSQL) is a shop: sellers run stores with
products, buyers have a cart, place orders, collect and spend points, write
reviews and inquiries. Nearly all its state is rows of one database, and nearly
all that is hard about it comes from several requests being between two `await`s
at the same time. The modules here model those handlers statement by statement;
TLC checks them on small instances and TLAPS proves the most important
properties for every instance.

Paths below are relative to the repository (`src/orders/...`).

## 1. Inventory

| Component | State | Operations | Status |
|---|---|---|---|
| Order creation (`orders.service.ts` 37-293, `orders.repository.ts`) | Order, OrderItem, Stock, Notification | `createOrder` | modelled (`Checkout`) |
| Order cancel and points (`orders.service.ts` 347-393, `points/`) | Order.status, Payment.status, User.points, PointTransaction, User.gradeLevel | `cancelOrder`, `spendPointsForOrder`, `earnPointsOnPaidOrder`, `revertOnCancel` | modelled (`Rewards`) |
| Grades (`grades/`) | none of its own (reads paid orders, writes the grade cache) | `resolveGradeByAmount`, `getNextGradeInfo`, lifetime sum | modelled (`Grades`, used by `Rewards`) |
| Cart (`cart/`) | Cart with its cached total, CartItem | `createCart`, `createOrUpdateCartItemAndReturnCart`, `deleteCartItem` | modelled (`Cart`) |
| Inquiries (`inquiry/`, `products.repository.ts` 268-321) | Inquiry.status, Answer | ask, edit, delete, reply, edit and delete reply | modelled (`Inquiry`), but for the removal of a product with its inquiries |
| Product catalog (`products/`) | Product, Stock, StockSize, Category | create, update with stock replacement, remove | modelled (`Catalog`; the stock replacement against orders in `Checkout`) |
| Notifications (`notifications/`) | Notification, the polls of a stream | created inside other components' transactions; polling stream, mark read; list | modelled (`Feed`; their creation in `Checkout` and `Inquiry`) |
| Order update and queries (`orders.service.ts` 299-342, `orders.repository.ts` 90-111) | Order | `updateOrder`, `getOrders`, `getOrderDetail` | modelled (`Purchases`) |
| Reviews (`review/`) | Review | create, edit, delete, pages | modelled (`Purchases`) |
| Sessions (`auth/`) | Session rows, the browser's cookie | login, refresh with rotation, logout | modelled (`Accounts`) |
| Users (`users/`) | User | register, edit the profile, remove | modelled (`Accounts`) |
| Stores and favourites (`store/`) | Store, FavoriteStore | create, edit, like, unlike, both detail pages | modelled (`Stores`) |
| Dashboard (`dashboard/`) | | five aggregates of one seller, read only | not modelled: nothing it reads is related to anything else it reads |
| Uploads (`s3/`) | an object store | put and remove an object | not modelled: no row refers to an object before another component writes its URL |
| Application shell | | start-up, guards, pipes, wiring | not modelled, but for the guard of the access token, which reads the account (`Accounts`) |

How they interact: there are no queues or workers. Components meet in rows.
Order creation and the seller's product edit meet in Stock; order creation,
cancel and the point operations meet in User.points and PointTransaction;
payment and shipping, which nothing under `src/` performs, meet cancel in
Order.status; orders and inquiries write Notification rows in their own
transactions and the notification stream polls them. The removal of an account takes
its sessions, its store, its marks and its notifications along.

What is hard here, and where:

* **Checks outside, writes inside.** Handlers read a row, decide, and then open a
  transaction that writes by id alone: points against the balance
  (`orders.service.ts:50`), the status before a cancel (`:357`), the cart line
  before its deletion (`cart.service.ts:121`), the answer before an edit
  (`inquiry.service.ts:73`).
* **READ COMMITTED.** No isolation level is set, so a transaction sees what others
  commit between its statements. Only statements that carry their condition in
  the `WHERE` clause (`quantity: { gte }`, `points: { gte }`) are safe, because
  PostgreSQL tests them again after waiting for the row lock.
* **Lock order.** Orders lock stock rows in basket order, carts lock lines in
  request order; the deletion of a reply locks answer and inquiry, the deletion of
  the inquiry locks them the other way round; a removal locks a product's stock and
  then the product, an update the other way round. All can deadlock, and PostgreSQL
  then ends one of them.
* **Branches of one request.** The sizes of a product's stock are resolved by
  branches that run together (`Promise.all`) and go on when one of them has already
  refused the request.
* **Two transactions for one operation.** Order creation commits and then spends
  points; cancel commits and then takes points back. A failure in between leaves
  the first half.
* **Two connections for one request.** The cart looks products up through
  `this.prisma` inside a transaction, so it needs a second connection of a bounded
  pool while it keeps the first.
* **Caches.** Cart.quantity and User.gradeLevel are computed from rows that may
  change before the result is written.
* **Snapshots written back.** `updateReview` and `updateOrder` write every field of
  a row by id, those the request does not send as they were read
  (`review.service.ts:90`, `orders.service.ts:310`).
* **Rotation and lost answers.** A refresh exchanges a token that another request may
  present at the same time, while the account is removed or logged out, and the
  browser learns the next token only from an answer that may not come
  (`auth.service.ts:134`).
* **Pages by offset.** A list is read page by page while rows come and go, and the
  count beside each page is a query of its own (`review.repository.ts:69`,
  `orders.repository.ts:90`). The figures of a store's page are counted in parallel
  (`store.service.ts:135`).
* **Overlapping polls.** A tick drops the poll that is still running but cannot stop
  it (`notifications.controller.ts:38`).

What makes each component correct:

* *Order creation*: no unit is sold twice, an order takes all its items or none,
  deadlocks and missing rows end in an answer, success means that the points were
  spent, a sold-out row alerts the seller.
* *Cancel and points*: balance and log change together, the balance is never
  negative, a repetition changes nothing, only what was earned is taken back, a
  successful cancel is complete.
* *Grades*: the highest grade reached, the exact amount to the next one.
* *Cart*: an edit is seen whole or not at all, a line keeps the id clients delete it
  by, the total is the sum of the lines, requests end although they wait for lines and
  connections.
* *Inquiries*: the status says whether there is an answer, both change together, an
  answer that is already there keeps an edit off, requests end although deletions
  wait for each other.
* *Catalog*: a product appears, changes and goes in one step, with the sizes its
  seller asked for; its discounted price belongs to the price and the rate beside it;
  what orders and carts refer to stays; all branches end.
* *Sessions and users*: one rotation per token; a logout ends what there was for
  good; a cookie is the last token of its session unless an answer is missing; one
  account per address; a session ends with its account; fields that are not sent stay.
* *Purchases*: one review per buyer and product, unless two were let in together; an
  edit that was not overtaken keeps what was not sent; who pages to the end misses no
  row but for deletions.
* *Stores*: one store per seller, changed by its seller only; marks are of users and
  stores that are there; the figures of one page fit together.
* *Feed*: what stays unread is sent while somebody listens, and what was seen to go
  does not come back.

## 2. Modules

| Module | What it is |
|---|---|
| `Inventory` | abstract: an order takes all it asks for in one step, never more than there is |
| `Checkout` | order creation and the seller's stock replacement; implements `Inventory` |
| `MCCheckout`, `CheckoutProofs` | instance for TLC; theorems |
| `Sums` | what a sum over a finite set is: theorems used by `CheckoutProofs`, `RewardsProofs`, `CartProofs` |
| `Grades` | grade arithmetic as pure operators, with its reference definitions |
| `Wallet` | abstract: balance and log change together, one entry per operation |
| `Rewards` | spend, earn, cancel with revert; EXTENDS `Grades`; implements `Wallet` |
| `MCRewards`, `RewardsProofs` | instance for TLC; theorems, also about `Grades` for every amount |
| `CartBook` | abstract: an edit puts all the quantities of a request in one step |
| `Cart` | the cart's requests, transactions, line locks and pool; implements `CartBook` |
| `MCCart`, `CartProofs` | instance for TLC; theorems |
| `Thread` | abstract: an inquiry and its answer change in one step |
| `Inquiry` | the requests about inquiries, their transactions and row locks; implements `Thread` |
| `MCInquiry`, `InquiryProofs` | instance for TLC; theorems |
| `Shelf` | abstract: a product is listed, edited and removed in one step |
| `Catalog` | the requests about products and their branches; implements `Shelf` |
| `MCCatalog`, `CatalogProofs` | instance for TLC; theorems |
| `SignIn` | abstract: accounts, profiles and sessions change in one step |
| `Accounts` | the requests about accounts and sessions, and the browsers' cookies; implements `SignIn` |
| `MCAccounts`, `AccountsProofs` | instance for TLC; theorems |
| `Purchases` | changes of reviews and orders, and clients that page through them |
| `MCPurchases`, `PurchasesProofs` | instance for TLC; theorems |
| `Stores`, `MCStores` | stores, marks and the figures about them; instance for TLC; theorems in `CheckoutProofs` |
| `Feed`, `MCFeed` | the notification stream and the reading of notifications; instance for TLC; theorem in `InquiryProofs` |

Conventions: one action per `await` of a handler, named after what it does; `pc` (`at`
in `Stores`, `marking` in `Feed`) says where a request is; what an open transaction has
written is in variables of its own (`reserved` and `drafts`, `draft`, `writes`) that
nobody else reads, and a commit moves it to the committed rows. A row that a transaction
has written is locked until the transaction ends. `Mutant of ...` operators are faulty
variants of the action that follows them; a run with the variant in place must fail.

### Checkout

| Action | Code (`orders.service.ts`) |
|---|---|
| `Receive` | user lookup (the account may be gone) and the points check, 37-52 |
| `LoadProducts` | product lookup, count and one-store checks, store lookup, opening of the transaction and `order.create`, 54-112 |
| `TakeItem` | the conditional `updateMany` that affected a row, 115-123 |
| `AwaitRow`, `MissItem` | the same statement waiting for a locked row; affecting none |
| `NotifyShortage`, `Refuse` | notifications inside the transaction, then the exception that rolls it back, 125-156 |
| `WriteOrder` | order items, query of zero rows, notifications, 159-212 |
| `Commit`, `Spend`, `Respond` | commit; `spendPointsForOrder` in a transaction of its own, 217-224; the answer |
| `DeadlockAbort`, `AbortEdit` | PostgreSQL ends one transaction of a cycle of waiting ones |
| `FailBeforeCommit`, `FailAfterCommit` | a statement or the process fails; the catch block at 278-293 |
| `BeginEdit`, `DeleteRow`, `ReplaceStock` | the seller's edit, one transaction: the product's row is updated, its stock rows are deleted one after another (each once no order holds it), the new ones are inserted and all is committed, `products.repository.ts` 217-251 |
| `RollbackEdit` | an edit that fails anywhere |

Clients name sizes by numbers (`create-order.dto.ts:22`), stock rows by the string
`String()` makes of them (`orders.service.ts:119`): `StringOf`, whatever size that is the
id of. The order's identity is its request. `reserved[r][k]` is what request r's
transaction has decremented of row k; the committed `stock` changes at the commit.

### Rewards

`BeginSpend`/`BeginEarn`/`BeginCancel` start a call (the reads and early returns
before its transaction; `NotFound` is an order that is not there, and a cancel is
refused to a caller who is not the order's buyer); `CommitCancel` is the first
transaction of a cancel;
`CheckLog`, `SizeEntry`, `WriteEntry`, `RefuseEntry`, `ReadGrade`, `CommitSpend` and
`SyncGrade` are the statements of the point transaction of the three operations
(`points.service.ts` 34-137); `Fail` is an error anywhere in it. `Pay` and `Ship`
are the environment: nothing under `src/` sets COMPLETEDPAYMENT or SHIPPED.
`earnPointsOnPaidOrder` is exported and tested but has no caller under `src/`; the
model lets it be called for a paid order at any time. `before` is a history
variable: the calls whose log entries a call's lookup could see. `current` is
another: the calls that have computed the grade, and the users whose stored grade was
written, since a status of one of the user's orders changed last (`Outdate`).

Points earned are `Math.floor(price * rate)` in doubles. `Grades!Earned` is the
exact integer quotient; the two were compared for every price from 0 to 3,000,000
at every rate and agree.

### Cart

`BeginCreate`/`CreateCart` are `createOrGetCart`; `BeginPut`, `OpenTx`,
`FindProduct`, `FindSize`, `UpsertItem`, `SumItems`, `CommitTotal` are the statements
of `createOrUpdateCartItemAndReturnCart`; `BeginDrop`, `OpenTx`, `DropItem`,
`SumItems`, `CommitTotal` those of `deleteCartItem`. The unique key on cart,
product and size makes Prisma use `INSERT ... ON CONFLICT DO UPDATE`, which waits
for a line another transaction has written. `Abort` stands for every way a
transaction ends early, Prisma's limits among them (two seconds to start, five to
run). A line's id is the call that created it, so that a line deleted and put again
is told from the old one. `outrun` and `stale` are history variables: whether
somebody committed to the cart between a call's sum and its commit.

### Inquiry

`BeginEdit`, `BeginRemove`, `BeginReply`, `BeginRewrite`, `BeginRetract` are what
`inquiry.service.ts` does before it writes: the read of the inquiry or the reply and
the checks. Whether the caller owns it is a free choice. The writes of
`inquiry.repository.ts` are `EditInquiry`, `RewriteAnswer` (one statement each),
`LockInquiry` and `RemoveInquiry` (the deletion, which waits once for the inquiry and
once for the answer it cascades to), `InsertAnswer`, `CompleteStatus`, `CommitReply`
(the transaction of `createReply`) and `DeleteAnswer`, `ReopenStatus`,
`CommitRetract` (that of `deleteReply`). `Ask` is `createInquiry` of the catalog, a
transaction of inserts that meets nothing. Which rows a transaction has locked is
read off `pc`; its writes appear at the commit. The fields of an inquiry are one
text, and a text and a reply's id are the request that wrote them. `earlier` is a
history variable: the replies that were there when a request was checked.

### Catalog

`BeginCreate`, `BeginUpdate`, `BeginRemove` are what `products.service.ts` does up to
its first write; the check of the store and the validity of what is sent, which only
decide whether a request goes on, are a free choice. `ResolveCategory` is the category: one
that is sent by name gets a row unless it has one, a write of its own that stays whatever
becomes of the request; an update that sends an id is refused without a row, a creation
does not look and its `InsertProduct` is refused by the foreign key. Each entry of the stock that was sent is a branch
of `transformStocks` with a state of its own (`branch`, `found`): `LookupId`,
`LookupName`, `CreateSize`, and `Refuse`, which ends the request and leaves the other
branches running. `InsertProduct` is the insert with its stock rows; `WriteProduct`,
`ReplaceStock` and `Reread` are `update` (its transaction locks the product and then
the stock rows it replaces), `DeleteStock` and `DeleteProduct` are
`removeWithRelations` (the other way round). A product's id is the request that
creates it, a size's id the branch that does. An answer and a refusal are one label,
`over`. `Refer` and `Release` are the orders and cart lines of other components that
keep a product from being removed.

`Discounted` is `Math.floor(price * (1 - rate / 100))` in doubles: the exact quotient,
or one less for the pairs in `FallsShort`. It was compared with the doubles for every
price from 0 to 30,000 at every rate from 1 to 100; 7 percent off 1000, which is 929,
is one of those pairs. `outrun` and `stale` are history variables: the updates whose
product was updated since they read it, and the products last updated by such a one.

### Accounts

`BeginSignUp`, `Register` are `create` of `users.service.ts` (the lookup of the address
in lower case; the insert, which the unique key may refuse); `BeginUpdate`,
`CheckPassword`, `WriteProfile` are `updateMe`, `BeginRemove`, `FindSelf`, `DeleteUser`
are `deleteMe`, each after the guard of the access token has read the account.
`BeginLogin`, `OpenSession` are `login` of `auth.service.ts`, `BeginRefresh`,
`FindSession`, `FindOwner`, `Discard`, `Rotate` are `refresh`, `BeginLogout`,
`DeleteSessions` are `logout`. `Receive` and `Lose` are what becomes of the answer:
the browser sets or clears its cookie (`auth.controller.ts` 90-94), or the answer is
lost. `Expire` is time. Ids of accounts and sessions, tokens and the values of fields
are the request that made them. A deleted session keeps its row with the state
`deleted`, so that its last token can still be told. `earlier` is a history variable:
the sessions there were when a logout came. Every statement here is a transaction of
its own, so no locks are needed.

### Purchases

Orders and reviews are one map from ids to rows, because both are changed in the same
way. `BeginCreate`, `CheckReview`, `WriteReview` are `createReview` (order, existing
review, insert), `BeginEdit`, `WriteEdit` are `updateReview` and `updateOrder` (read,
then a write of every field by id), `BeginRemove`, `DeleteReview` are `deleteReview`;
`NotFound` is a row that is not there, and a caller who is not the row's buyer is refused.
`BeginWalk`, `ReadPage`, `Count` are a client that asks for page after page of the
reviews of the product or of its own orders while the answer says that there is more;
the count is a query after that of the page. `StampOrder` and `PlaceOrder` are
`Checkout`'s transaction: `createdAt` is set by its insert, and the row is seen only
with its commit, so an order can appear behind ones that were placed later. `older` is
that order of creation. `earlier`, `outrun` and `due` are history variables: the
reviews there were when a review was let in, the edits whose row was written since they
read it, and the rows a walk began with of which no newer one was deleted meanwhile.

### Stores

`BeginCreate`, `CreateStore`, `BeginUpdate`, `UpdateStore` are `createStore` and
`updateStore` of `store.service.ts`; `BeginRegister`, `SeekFavorite`, `AddFavorite` are
`registerInterestStore`, whose upsert is a select and an insert; `BeginDrop`,
`DropFavorite` are `deleteInterestStore`; `BeginMyDetail`, `BeginDetail` and `Count` are
the two detail pages, one `Count` per query of their `Promise.all`, in any order.
`RemoveUser` is the last statement of `deleteMe` with its cascades to the store and the
marks, `TurnMonth` the turn of the month that the second figure is about. `torn` is a
history variable: the pages about a store whose marks changed between their queries.

### Feed

`Subscribe`, `Tick`, `Close` are the stream of `notifications.controller.ts`: a
subscription and each tick start a poll, `switchMap` makes it the one whose answer is
awaited (`current`) and drops the one before, which goes on all the same. `PollType`,
`PollList`, `Answer` are the steps of a poll; `FailPoll` is an error of one, which ends
the stream if it is the awaited one (`Break`). A client that was cut off subscribes
again, as an EventSource does by itself. `BeginCheck`, `FindType`, `MarkRead`,
`FailCheck` are `check`; `Notify` is what `Checkout` and `Inquiry` write, `RemoveUser` the
removal of the account, after which `unread` throws. `event` is what the client was
shown last. `late` counts the polls dropped in a row; `cleared` is a history variable:
what an event had and a later one had not.

## 3. Runs

| Run | Shows | Distinct states |
|---|---|---|
| `checkout` | the safety, refinement and liveness properties of order creation | about 80,000 |
| `rewards` | those of spend, earn and cancel, and of the grade cache | about 610,000 |
| `cart` | those of the cart | about 458,000 |
| `inquiries` | those of the inquiries | about 600,000 |
| `catalog` | those of the catalog | about 257,000 |
| `accounts` | those of accounts and sessions | about 103,000 |
| `purchases` | those of reviews and orders after the purchase | about 1,049,000 |
| `stores` | those of stores and marks | about 1,211,000 |
| `feed` | those of the notification stream | about 150,000 |
| `checkout_refusal`, `checkout_overdraw`, `rewards_cancel` | three statements of the docs and messages the code does not keep (section 6) | |

`checkout`: two concurrent requests of one buyer with points for one order only;
shirt-M 3, coat-M 1, coat-L 2, a hat in another store; baskets with the same items
in opposite order (deadlock), the last unit, a row only the cross product of
products and sizes reaches, and one basket per check that refuses; the coat, the product
with two rows, may be edited once (`MaxEdits`), after which each row has quantity 1. An
edit can wait for an order, an order for an edit, and both with a second order in a cycle
of three. Two requests are enough for every pairwise conflict.

`rewards`: three calls of any kind for two orders of one user. The dear order
lifts the user to ORANGE, so the rate of the cheap one depends on the order of
events; the cheap order uses more points than the user has before the dear one has
earned. A second user may only try to cancel them. Three calls are the least that allow earn, cancel and a spend of what was
earned, or a repeated call against a third one.

`cart`: three requests to one cart, two sizes, requests that put both sizes in
either order, one size twice, and none; a pool of two connections, so that two
open transactions exhaust it. The line of one size may be there from before
(`Earlier`), so that it is there to be deleted before any request; three requests then
give a deletion, a second one or a put that overtakes it, and one that puts the line
again.

`inquiries`: one inquiry and four requests of any kind about it. Requests meet only
in one inquiry; four are the least in which a reply is given and deleted while two
more requests cross the deletion, such as a deletion of the inquiry (the deadlock)
and a second reply or an edit.

`catalog`: two requests of any kind, with up to two entries of stock each, about a
product that is in stock, one listed without stock (so that its removal locks no
row), and the ones they create; one size is there, one is not yet and is sent under
two spellings, and one is refused; one category has a row and one has none, and is sent by
name and by id. Two requests give every pair of transactions on a
product; a third would only repeat one of them. `MaxEntries` = 2 is the least with
which branches of one request meet each other.

`accounts`: three requests of any kind, one address that can be typed in two ways, two
browsers, a profile of two fields, and an account with a session and its cookie at the
start. Three are the least in which two refreshes of one token meet a logout, a removal,
or a login in the other browser. Requests and browsers are
symmetric, and no property is about liveness. By hand, four requests of one browser
(649,000 states) and the instance without symmetry (3 million) show nothing else.

`purchases`: three requests or clients, two buyers, an order of each at most, two
reviews from before, two fields, and one row on a page, so that every row is a page of
its own and every deletion moves the others to another page. Three are the least in which a walk meets a new row and
a deletion, and two writers a deletion. By hand, two rows on a page with three buyers,
orders and reviews from before were explored to 1.7 million states.

`stores`: three requests, two sellers and a buyer, a store of one of the sellers at
the start with any marks, old or of this month. Users may be removed at any time. Three
requests give a page with a mark and the withdrawal of one, or a second store of the
seller between check and insert.

`feed`: two requests that mark, two polls at a time, two notifications of which one is
of a type the user may see, `Patience` 2. Two polls are what it takes to overtake; no
symmetry, since one property is about liveness.

Each property has a mutant of a mapped action with which TLC finds it violated.

### The properties

* `Checkout`: `ReservationsCovered` (what open transactions took is there, and
  theirs alone), `OrderMatchesStock` (a committed order took exactly its items),
  `StockConserved` (no unit is lost or sold twice over any interleaving of
  rollbacks), `SuccessIsSettled` (a success answer means order and points),
  `SoldOutAlerted` (action property), `SellsAtomically` (refinement of
  `Inventory`), `Answered` (liveness).
* `Rewards`: `RetryAppliesOnce`, `CancelIsComplete`, `RevertsEarnings`,
  `GradeIsCurrent` (the stored grade is that of the paid orders from the last call that
  wrote it until an order changes), `PostsAtomically` (refinement of `Wallet`), `Ends`
  (liveness).
* `Cart`: `LinesKeepIdentity` (action property: a line keeps its id until a deletion that
  was asked for that very line succeeds, although the line is looked up before its
  transaction and may be deleted and put again meanwhile), `TotalExactUnlessOutrun`,
  `EditsAtomically` (refinement of `CartBook`), `Ends` (liveness).
* `Inquiry`: `StatusTellsAnswer`, `EditsOnlyOvertake` (action property: an edit that
  changes an answered inquiry was let in before that answer), `ChangesTogether`
  (refinement of `Thread`), `Ends` (liveness).
* `Catalog`: `DiscountedUnlessOutrun` (an update that was not overtaken leaves a
  discounted price that belongs to the price and the rate stored beside it, or is the
  price), `ShelvesWhole` (refinement of `Shelf`: no product is seen with another
  request's stock or category, with no stock it should have, or with a size nobody asked
  for, and
  none disappears while an order or a cart refers to it), `Ends` (liveness, of the
  branches too).
* `Accounts`: `OneRotationPerToken` (of the refreshes with one token at most one is
  answered with a new one), `LogoutEndsSessions` (no refresh in flight brings back a
  session a logout has ended), `CookieFollowsRotation` (a browser's cookie is the last
  token of its session unless an answer is on its way or lost), `SessionsKeepPromise`
  (refinement of `SignIn`).
* `Purchases`: `OneReviewUnlessCrossed` (a second review of a buyer needs two requests
  that were let in before either had written), `EditsKeepUnsent` (action property: an
  edit nobody overtook leaves what was not sent), `WalkShowsAll` (who pages to the end
  has seen every row that was there from the start, unless a newer one was deleted).
* `Stores`: `StoresBelongToSellers` (action property: how a store may come, change and
  go), `FavoritesSound` (marks are of users and stores that are there and never of the
  own store), `FiguresAgreeUnlessTorn` (never more marks of this month than marks,
  unless one came or went between the queries).
* `Feed`: `NothingComesBack` (what was cleared from the client's list stays cleared,
  over polls that overtake each other and streams that are opened again), `UnreadIsSent`
  (liveness).

### Fairness

Nothing forces a request to be sent, a seller to edit or a payment to arrive.
Weak fairness is on the steps of a request, or of an edit, that has begun: Node runs a resolved
continuation, and PostgreSQL runs a statement or wakes it when the lock it waits
for is released. `DeadlockAbort` and `AbortEdit` are among them because PostgreSQL detects deadlocks
by itself. In `Cart` also `Abort` is fair for every call: Prisma ends a transaction
that cannot start or takes longer than its limit, and `Ends` fails without that
(three transactions may hold the pool and wait for a further connection). Failures
elsewhere are never fair: they may or may not happen.

In `Feed` the ticker and the steps of a poll are fair: the interval goes on as long as
the process does, and queries are answered. Fairness is not enough for `UnreadIsSent`:
if every poll took longer than the 30 seconds of a tick, `switchMap` would drop all of
them and nothing were ever sent. That no more than `Patience` polls in a row do so is an
assumption about the database, stated in the guard of `Tick`. `Accounts`, `Purchases` and
`Stores` state no fairness: none of their properties is about liveness, and nothing in
them waits for anything.

## 4. Theorems

All are checked by TLAPS for any number of requests, users, rows, any baskets,
prices and quantities that the modules' assumptions allow (`CheckoutAssumption`,
`RewardsAssumption`, `CartAssumption`, `InquiryAssumption`, `CatalogAssumption`,
`AccountsAssumption`, `PurchasesAssumption`, `StoresAssumption`, `FeedAssumption`: types of
the constants, and that the "none" values are none of the others; also that the users of
`Stores` are finitely many, since it counts marks; `ListedAssumption`: the products at the
start are as a creation leaves them). Of the others no set is assumed to be finite: that
only finitely many orders are committed, and entries posted, at any time is proved with
the sums over them.

`Stores` and `Feed` share no variable with another module. Their theorems stand at the
end of `CheckoutProofs` and `InquiryProofs`, which extend both modules: nothing there is
about both, they have no constant in common, and no proof about the one cites the
assumption of the other. So that all names are apart, the places of requests are `at` in
`Stores` and `marking` in `Feed`, and the specifications are `StoresSpec` and `FeedSpec`.

**Sums.** The folds of the community modules are recursive, and their library states no
fact about them. An induction schema over finite sets would take an operator as a
parameter, which no prover here can instantiate; the argument is therefore first-order.
`Total(f, S)` counts one unit per index and value (and the debts of the negative ones)
with `Cardinality`, of which the library has theorems, so `TotalTakesOne` (an index taken
away takes its value) is a fact about disjoint unions. The sum is a function chosen to
satisfy one unrolling of its definition (`SumUnrolls`); `Total` satisfies it too
(`TotalUnrolls`), so there is one. If the two differed on a subset, a smallest such subset
would exist (`LeastNumber`, from the well-foundedness of `<`), and there both unroll to
the same: `SumIsTotal`. `SumType`, `SumAdds`, `SumOfSame`, `SumOfZeros`, `SumOfOne` follow.

**CheckoutProofs.** The inductive invariant `IInv` is `TypeOK`,
`ReservationsCovered`, and for each request what it has done so far: `Arrived` (it
carries a request), `NotStarted` (before the transaction it has taken nothing),
`InTransaction` (it took the items before index `next` and no others, so a row is
never decremented twice), `Ordered` (after the commit the order is the request and
it took all of it). `ReservationsCovered` alone is not inductive: that `TakeItem`
decrements a row the request does not hold yet follows only from the checks of
`LoadProducts`, which `InTransaction` carries along. From it: `TypeCorrect`,
`ReservationsStayCovered`, `OrdersMatchStock`, `CheckoutSellsAtomically` (each step
is a sale, a replacement or a stutter of `Inventory`). With `PaidInv` (what has been
logged at each point after the commit): `SuccessIsAlwaysSettled`. With `AlertInv`
(a row left at zero has its notification among the drafts from `WriteOrder` on,
because the lock keeps the row as it is): `SoldOutIsAlerted`. `StockStaysConserved` adds
`SoldInv`: for each row never replaced, its stock and the sum over the committed orders of
the sums over their items is what there was. A commit moves a request's reservation into
that sum, and the reservation is the sum of its items in the row because no two items of a
basket name one product (`InTransaction` and `LoadProducts`' checks). `PointsStayConserved`
says the same of points: balance and logged spending of a buyer add up to what the buyer
had, so what `checkout_overdraw` shows is an order without payment, never a payment with
points that are not there.

**RewardsProofs.** `IInv` is `TypeOK`, for each call `Begun`, `OwnDraft` (the draft
is about its own order and reason), `NewToLog` (what its lookup saw is still there
and was not its own job), `Canceled` (what a cancel has done and found), and
`LockInv` (who changed a user's row is alone and can commit). From it
`TypeCorrect`, `RetriesApplyOnce`, `CancelsAreComplete`, `RevertsAreOfEarnings`,
`RewardsPostAtomically`. With `CurrentInv` (the grade a call in `current` has computed
and not yet written is that of the orders, and so is the one stored for a user in
`current`): `GradesAreCurrent`. The sum over the paid orders stays unexpanded: all that
is used is that it depends on the orders' status alone. `BalancesStayLogged` follows from
the refinement of `Wallet`: a step of it adds one entry to balance and log, so a balance is
what its user had at first and the sum of the user's entries. About `Grades`, for every
amount and by arithmetic: `ResolvesToHighestReached`, `MoreNeverDemotes`,
`NeedToNextIsExact`, `EarnsWithinPrice`.

**CartProofs.** `IInv` says of each call what it has written: `PutSoFar(c, n)` (after
n entries every item has the quantity of the last entry that names it, or is
untouched), `Dropped` (the deleted line is still there until the commit), `Summed`
(unless somebody committed since, the sum is that of the lines it sees), together
with `LinesExclusive` (no two open transactions have written one line), which is what
makes `Dropped` survive other commits. From it `LinesKeepTheirIds` (a commit that takes a
line away is the deletion's that found it by that id), and `TotalsExactUnlessOutrun` and
`CartEditsAtomically`, for which two facts about the sum are enough: it is a function of
the lines, and zero for none. `TypeCorrect` needs that it is a number: with `Sums` and `SumsTyped`, by which finitely many lines of a
cart are there and finitely many are written by a transaction, so that what one sees has a
sum.

**InquiryProofs.** `IInv` is `TypeOK`, `StatusTellsAnswer`, for each request `Begun`
(its kind follows from where it is), `Holds` (what it has locked is there and as it
was) and `InOrder` (a reply is announced by its commit only, and no reply an edit
could see is on its inquiry), and for each two requests about one inquiry `Apart`:
who changes the answer or deletes the inquiry does so alone, except that a deletion
of each may hold its first row and wait for the other. `StatusTellsAnswer` is not
inductive without `Holds`: a commit sets the status by id, whatever is there. From it
`TypeCorrect`, `StatusMatchesAnswer`, `EditsOvertakeOnly`, `InquiryChangesTogether`.

**CatalogProofs.** `IInv` is `TypeOK`, `DiscountedUnlessOutrun`, `SeedsNamed` and
`StockSized` (sizes keep their names and stock rows refer to sizes that are there),
`OneReplaces` (one transaction at a time replaces a product's stock), and for each
request `Begun`, `Own` (a creation's product is not there yet), `Current` (what an
update has read is the price unless it was outrun) and `BranchInv` (a branch that is
done has found a size with the name its entry asks for; one that is not has created
none). `Current` is what makes `DiscountedUnlessOutrun` inductive, and needs
`OneReplaces`: an update that already holds the lock cannot be outrun. From it
`TypeCorrect`, `DiscountsMatchUnlessOutrun`, `CatalogShelvesWhole`.

**AccountsProofs.** `IInv` is `TypeOK`, `UsersApart` (an id is one account's),
`TokensApart` and `CookiesApart` (a token is one session's and in one browser's cookie
only), for each session `SessionInv` (its token was given out, and unless it is deleted
its account is there), and for each request `Begun`, `Presented` (the token it presents
came from its browser's cookie and was heard of), `Owned` (the account it has found is
that of the session with its token), `Exchanged` (an answer on its way carries the last
token of a session; a token that was exchanged is no session's any more) and `Ended`
(what there was at a logout stays deleted). `OneRotationPerToken` needs `Exchanged`: the
second of two refreshes finds no row with the token it read. From it `TypeCorrect`,
`TokensRotateOnce`, `LogoutsEndSessions`, `CookiesFollowRotation`,
`AccountsKeepPromise` (refinement). A lemma on the way, `DiscardFails`, shows that the
session of an account that has gone is never there to be deleted.

**PurchasesProofs.** `IInv` is `TypeOK`, `SeedsApart`, `InOrder` (the creation order is
one order) and for each request `Begun`, `Written` (a review is there only after its
request and as that buyer's), `Alone` (no review of the buyer is among those that were
there when it was let in), `UpToDate` (an edit that was not overtaken holds what is in
the row) and `Ahead` (every row a walk has still to show has at least as many newer ones
as the pages so far hold, so it comes on a later page). That `Ahead` survives a step
is `AheadKept`; that a page holds no more than `Limit` rows and shows what is due on it
are `PageFits` and `PageShown`, that the answer then says there is more is `MoreLeft`,
over `RanksApart` and `Division` (positions in the list differ; a quotient is between
its bounds). From it `TypeCorrect`, `ReviewsAreSingle`, `EditsKeepTheRest`,
`WalksShowAll`, for pages of any size.

**Stores, in CheckoutProofs.** `StoreInv` is `StoreTypes`, `FavoritesSound`, and for each
request `Begun` (what it found when it was let in: a store being changed is its user's, a
store being marked is not its user's and has been opened), `Fresh` (a store is there only
after its request) and `Counted` (of a page nobody tore, the count of all favorites is still
right and that of this month is no more than it). `FavoritesSound` needs `Begun`: between
the check and the insert of a mark the store must not become the marker's own, which holds
because a store that is there or gone never changes hands (`StoresGoOn`) and one not yet there
cannot be marked. From it `StoresTypeCorrect`, `FavoritesStaySound`, `FiguresAgree`,
`StoresStayTheirSellers`, and, with the three actions that change stores,
`SellersHaveOneStore`.

**Feed, in InquiryProofs.** `StreamInv` says what the list of the poll that is about to
answer has to do with what was sent (`Follows`: nothing cleared, and of what was sent last
all that is not over), that what was cleared is over, and that what was sent was written.
An alarm goes from unread to over and never back (`AlarmsGoOn`), so the invariant holds
whatever polls are dropped or overtaken: `NothingOldIsSentAgain`.

Every invariant, action property and refinement the passing runs check is proved. Only
model-checked: liveness (`Answered`, the `Ends` of each module, `UnreadIsSent`), which is
about fairness and `ENABLED`; and the properties of section 6, which are false.
`BalancesAreLogged`, `PointsConserved` and `OneStoreEach` are stated and proved in the proof
modules and are no property of a run.

## 5. Not modelled, and limits

* Only what section 1 says. Reads that change nothing and that nothing else depends on
  (details, the store's list of products, the dashboard) are left out everywhere.
* PostgreSQL and Prisma are modelled by what the code relies on: row locks, READ
  COMMITTED visibility, unique keys, deadlock detection, atomic commit, time limits,
  a bounded pool. The pool's size is a parameter; the repository leaves it at
  Prisma's default.
* Of the cascades of a removed account those to sessions (`Accounts`), stores and marks
  (`Stores`) and notifications (`Feed`) are modelled, each in the module of the rows; those
  to orders, carts, reviews and inquiries are not. That the database refuses to remove
  a seller whose products are in carts or orders is a failure like any other.
* In `Catalog` quantities are kept as they are sent, the ids that are sent are those of
  sizes there are at the start, and what an order takes from the stock is left to
  `Checkout`. An update that sends no rate sets the discounted price to the price
  while the stored rate stays (`products.service.ts:395`); `DiscountedUnlessOutrun`
  allows that, because no line of the repository says which of the two is meant.
* `Purchases` has one product, and none of its removal and of the removal of users. A
  statement that fails only ends its request there and is left out. Rows created in one
  millisecond, which have no order in a list, and the status a client of `getOrders` may
  filter by are left out. `updateOrder` ignores the status a request sends, and may
  rewrite `usePoint` without touching points; `Rewards` takes `usePoint` as fixed.
* `Stores` has the two figures about marks; those on products and sales only read other
  components' rows.
* `Accounts` lets a session expire but never an access token.
* Amounts are unbounded integers; an amount beyond the 32 bits of its column, which
  PostgreSQL refuses, is not modelled.
* The removal of a product deletes its inquiries and answers, too
  (`products.repository.ts:256`); neither `Inquiry` nor `Catalog` has that part, so
  the component of inquiries is modelled in part.
* `Checkout` assumes at most one stock row per product and size. Neither the schema
  nor the catalog sees to it: a seller may send one size twice (`Catalog` has that).
* Messages, titles and the wording of notifications are dropped; their type,
  receiver, product and order are kept.

## 6. Findings

Each is a run that TLC ends with a counterexample.

* `checkout_refusal` (`RefusalNotified`): the notifications of a shortage are
  written inside the transaction that the exception rolls back
  (`orders.service.ts:127`, `:153`), so none is left; the project's README lines
  91-92 promise both.
* `checkout_overdraw` (`PointsNotOverspent`): the points are checked before the
  transaction and spent after its commit (`:50`, `:218`), so two orders can be
  committed with the same points; the second caller sees an error and the order
  stays.
* `rewards_cancel` (`CanceledFromProcessing`): the status is read before the
  transaction that cancels (`:357`, `:364`), so an order paid or shipped meanwhile is
  canceled; the message at `:359` says only PROCESSING orders can be.

Observations without a run, each at its line:

* Two concurrent calls both find no entry in the point log and both post one
  (`points.repository.ts:56`; the comment at `:49` says this is prevented).
  `RetryAppliesOnce` is what does hold.
* The query for sold-out rows combines any ordered product with any ordered size
  (`orders.service.ts:186`), so it reports rows the order did not touch.
* Two overlapping transactions on a cart each sum the lines without the other's
  (`cart.service.ts:82-96`), and the stored total is wrong until the next edit.
  `TotalExactUnlessOutrun` is what does hold.
* Two branches both find no size of a name and both create it
  (`products.repository.ts:111`, `:116`), since nothing in the schema makes the name
  unique; the comment at `:109` says duplicates are prevented.
* A creation or an update that is refused after its category was resolved, or one branch of
  it after another has created a size, leaves the new category and the new size
  (`products.service.ts:191`, `:150`): they are written outside any transaction.
* A sign-up puts the address into lower case (`users.service.ts:32`), a login does not
  (`auth.service.ts:96`): an address typed with capitals signs up and cannot log in.
* A refresh whose account has gone tries to delete a session that has gone with it
  (`auth.service.ts:125`), so it ends in an error of the server and not in the answer
  of line 126 (`DiscardFails`).
* `OUT_OF_STOCK_ORDER` is written for the seller (`orders.service.ts:144`) but is of the types
  a buyer may see (`allowed-types.type.ts:5`), so no stream ever sends it. A seller who
  asks about another's product is told that the answer will be announced
  (`products.repository.ts:307`), by a type that only buyers see.
* The route of a single review has no guard, so `req.user` is never there
  (`review.controller.ts:58`).

## 7. Plan

What is left, the most useful first:

1. The removal of a product with its inquiries (`products.repository.ts` 254-260) as a
   request of `Inquiry`: it locks all of a product's inquiries one after the other, and
   meets deletions of replies the way `RemoveInquiry` does.
2. The cascades of a removed account across components, with the removal of a
   product, in one module that composes `Accounts`, `Stores` and `Catalog`.
3. Orders that change `usePoint` (`orders.service.ts:314`) while `Rewards` spends it.

Of the runs, the passing ones of each module come first, and then the disagreements
between the code and what it says of itself, the gravest first.
