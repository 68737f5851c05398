-------------------------------- MODULE Catalog ---------------------------------
(***************************************************************************)
(* Products (src/products/products.service.ts, products.repository.ts)     *)
(* under concurrent requests: creating, updating and removing them.        *)
(*                                                                         *)
(* The stock entries of a request are resolved by branches of their own    *)
(* that run together (Promise.all) and go on when one of them fails.  A    *)
(* step is one await of a request or of a branch.  The seller's store is    *)
(* looked up with the product, and only decides whether a request goes on. *)
(***************************************************************************)
EXTENDS Integers, Sequences

CONSTANTS
    Calls,          \* requests; a product's id is the one that creates it
    Listed,         \* products there are at the start: id -> row
    Offers, Edits,  \* what sellers send to create and to update
    Seeds,          \* size rows there are at the start
    Names,          \* names of sizes
    Categories,     \* names of categories
    Filed,          \* those that have a row at the start
    Asks,           \* what may be sent as sizeId -> the name it stands for, or NoName
    MaxEntries,     \* entries of a request's stock
    FallsShort,     \* <<price, rate>> whose discount in doubles is one too low
    Keep, NoName, Absent, Gone, NoJob, NoSize

Products == Calls \cup DOMAIN Listed
Index == 1..MaxEntries
SizeIds == Seeds \cup (Calls \X Index)
Entry == [input : DOMAIN Asks, quantity : Int]
Unit == [size : SizeIds, quantity : Int]
Row == [price : Int, rate : Int, discount : Int, stock : Seq(Unit), category : Categories]
SizedUnit == [name : Names, quantity : Int]
ShownRow == [price : Int, rate : Int, stock : Seq(SizedUnit), category : Categories]
Want == [price : Int \cup {Keep}, rate : Int \cup {Keep}, stock : Seq(Entry) \cup {Keep},
         category : Categories \cup {Keep}, by : {"name", "id"}]
Create == [kind : {"create"}, product : Products, want : Offers]
Update == [kind : {"update"}, product : Products, want : Edits]
Remove == [kind : {"remove"}, product : Products]
Job == Create \cup Update \cup Remove

(* Math.floor(price * (1 - rate / 100)) in doubles.                         *)
Discounted(price, rate) ==
    (price * (100 - rate)) \div 100 - (IF <<price, rate>> \in FallsShort THEN 1 ELSE 0)

ASSUME CatalogAssumption ==
    /\ Calls \cap DOMAIN Listed = {}
    /\ MaxEntries \in Nat
    /\ Seeds \subseteq DOMAIN Asks /\ \A s \in Seeds : Asks[s] \in Names
    /\ Seeds \cap (Calls \X Index) = {}
    /\ \A a \in DOMAIN Asks : Asks[a] \in Names \cup {NoName}
    /\ Offers \cup Edits \subseteq Want
    /\ \A w \in Offers : w.price # Keep /\ w.category # Keep
    /\ Filed \subseteq Categories /\ Keep \notin Categories
    /\ \A w \in Offers \cup Edits : w.stock # Keep => Len(w.stock) <= MaxEntries
    /\ \A s \in FallsShort : (s[1] * (100 - s[2])) % 100 = 0
    /\ Keep \notin Int \cup Seq(Entry) \cup Seq(SizedUnit) /\ NoName \notin Names /\ NoSize \notin SizeIds \cup Names
    /\ Absent \notin Row \cup ShownRow \cup {Gone} /\ Gone \notin Row \cup ShownRow /\ NoJob \notin Job

(* The rows there are at the start, as their creation left them.            *)
ASSUME ListedAssumption ==
    \A p \in DOMAIN Listed :
        /\ Listed[p] \in Row
        /\ \A k \in DOMAIN Listed[p].stock : Listed[p].stock[k].size \in Seeds
        /\ Listed[p].discount \in {Listed[p].price, Discounted(Listed[p].price, Listed[p].rate)}

VARIABLES
    pc, job,
    read,       \* price of the product as the update has read it
    branch,     \* call -> entry -> where its branch is
    found,      \* call -> entry -> size its branch has found or created
    sizes,      \* StockSize: id -> name, or NoSize
    categories, \* Category: the names that have a row
    product,    \* id -> row with its stock rows, or Absent before and Gone after
    referred,   \* products in orders and carts
    outrun,     \* history: updates whose product was updated since they read it
    stale       \* history: products whose last update was outrun

rows == <<sizes, categories, product, referred>>
history == <<outrun, stale>>
vars == <<pc, job, read, branch, found, rows, history>>

Active == {"filing", "sizing", "replacing", "rereading", "removing", "unstocked", "bare"}
Pending == {"byId", "byName", "creating"}

On(c) == job[c].product
Exists(p) == product[p] \notin {Absent, Gone}
Wanted(w) == IF w.stock = Keep THEN <<>> ELSE w.stock
Entries(c) == Wanted(job[c].want)
Name(c, k) == Asks[Entries(c)[k].input]
Resolved(c) == \A k \in DOMAIN Entries(c) : branch[c][k] = "found"
Running(c) == pc[c] \in Active \/ \E k \in Index : branch[c][k] \in Pending

(* Who else has locked the product, or the stock rows it had.               *)
ProductLocked(c) == \E d \in Calls \ {c} : pc[d] = "replacing" /\ On(d) = On(c)
StockLocked(c) == \E d \in Calls \ {c} : pc[d] = "unstocked" /\ On(d) = On(c)

Init ==
    /\ pc = [c \in Calls |-> "idle"]
    /\ job = [c \in Calls |-> NoJob]
    /\ read = [c \in Calls |-> 0]
    /\ branch = [c \in Calls |-> [k \in Index |-> "none"]]
    /\ found = [c \in Calls |-> [k \in Index |-> NoSize]]
    /\ sizes = [s \in SizeIds |-> IF s \in Seeds THEN Asks[s] ELSE NoSize]
    /\ categories = Filed
    /\ product = [p \in Products |-> IF p \in Calls THEN Absent ELSE Listed[p]]
    /\ referred = {}
    /\ outrun = {} /\ stale = {}

Goto(c, label) == pc' = [pc EXCEPT ![c] = label]
Continue(c, label) == Goto(c, label) /\ UNCHANGED <<job, read, branch, found>>

--------------------------------------------------------------------------------
(* Mutant of Discount: of the price that was read, although one is sent.    *)
DiscountOfRead(w, price) ==
    IF w.rate # Keep /\ w.rate > 0 THEN Discounted(price, w.rate) ELSE price

(* The discounted price, of the price sent or else the one that was read.   *)
Discount(w, price) ==
    LET base == IF w.price = Keep THEN price ELSE w.price
    IN  IF w.rate # Keep /\ w.rate > 0 THEN Discounted(base, w.rate) ELSE base

(* A request is let in, or refused for its store or its product.            *)
Begin(c, j, allowed, price, label) ==
    /\ pc[c] = "idle"
    /\ \/ /\ allowed
          /\ Goto(c, label)
          /\ job' = [job EXCEPT ![c] = j]
          /\ read' = [read EXCEPT ![c] = price]
       \/ Goto(c, "over") /\ UNCHANGED <<job, read>>
    /\ UNCHANGED <<branch, found, rows, history>>

BeginCreate(c) ==
    \E w \in Offers :
        Begin(c, [kind |-> "create", product |-> c, want |-> w], TRUE, 0, "filing")

BeginUpdate(c) ==
    \E p \in Products, w \in Edits :
        Begin(c, [kind |-> "update", product |-> p, want |-> w],
              Exists(p), product[p].price, "filing")

BeginRemove(c) ==
    \E p \in Products :
        Begin(c, [kind |-> "remove", product |-> p], Exists(p), 0, "removing")

(* A category that is named gets a row unless it has one, and keeps it      *)
(* whatever becomes of the request.  An update that gives its id is refused *)
(* without a row; a creation does not look.  Then a branch for each entry   *)
(* of the stock starts.                                                     *)
Unfiled(c) ==
    /\ job[c].kind = "update" /\ job[c].want.by = "id"
    /\ job[c].want.category \notin categories \cup {Keep}

ResolveCategory(c) ==
    /\ pc[c] = "filing"
    /\ \/ Unfiled(c) /\ Goto(c, "over") /\ UNCHANGED <<branch, categories>>
       \/ /\ ~ Unfiled(c)
          /\ Goto(c, "sizing")
          /\ branch' = [branch EXCEPT ![c] =
                 [k \in Index |-> IF k \in DOMAIN Entries(c) THEN "byId" ELSE "none"]]
          /\ categories' = categories \cup
                 (IF job[c].want.by = "name" THEN {job[c].want.category} \ {Keep} ELSE {})
    /\ UNCHANGED <<job, read, found, sizes, product, referred, history>>

--------------------------------------------------------------------------------
(* The branch of an entry goes on to `label'.  One that is refused rejects  *)
(* the request, the others run on.                                          *)
Branch(c, k, label) ==
    /\ branch' = [branch EXCEPT ![c][k] = label]
    /\ UNCHANGED <<job, read, categories, product, referred, history>>

(* Mutant of Refuse: the branch just ends.                                  *)
RefuseSilently(c, k) ==
    /\ Branch(c, k, "refused")
    /\ UNCHANGED <<pc, found, sizes>>

Refuse(c, k) ==
    /\ Branch(c, k, "refused")
    /\ Goto(c, IF pc[c] = "sizing" THEN "over" ELSE pc[c])
    /\ UNCHANGED <<found, sizes>>

Take(c, k, s) ==
    /\ Branch(c, k, "found")
    /\ found' = [found EXCEPT ![c][k] = s]
    /\ UNCHANGED pc

LookupId(c, k) ==
    LET input == Entries(c)[k].input
    IN  /\ branch[c][k] = "byId"
        /\ \/ /\ input \in Seeds
              /\ Take(c, k, input) /\ UNCHANGED sizes
           \/ /\ input \notin Seeds /\ Name(c, k) = NoName
              /\ Refuse(c, k)
           \/ /\ input \notin Seeds /\ Name(c, k) # NoName
              /\ Branch(c, k, "byName") /\ UNCHANGED <<pc, found, sizes>>

(* createStockSize: find the name, then create it.                          *)
LookupName(c, k) ==
    /\ branch[c][k] = "byName"
    /\ \/ \E s \in SizeIds :
            /\ sizes[s] = Name(c, k)
            /\ Take(c, k, s) /\ UNCHANGED sizes
       \/ /\ \A s \in SizeIds : sizes[s] # Name(c, k)
          /\ Branch(c, k, "creating") /\ UNCHANGED <<pc, found, sizes>>

CreateSize(c, k) ==
    /\ branch[c][k] = "creating"
    /\ sizes' = [sizes EXCEPT ![<<c, k>>] = Name(c, k)]
    /\ Take(c, k, <<c, k>>)

Stocked(c) ==
    [k \in DOMAIN Entries(c) |-> [size |-> found[c][k], quantity |-> Entries(c)[k].quantity]]

(* Mutant of InsertProduct: the branches are not awaited.                   *)
InsertUnresolved(c) ==
    /\ pc[c] = "sizing" /\ job[c].kind = "create"
    /\ LET w == job[c].want
       IN  product' = [product EXCEPT ![c] =
               [price |-> w.price, rate |-> IF w.rate = Keep THEN 0 ELSE w.rate,
                discount |-> Discount(w, w.price), stock |-> Stocked(c),
                category |-> w.category]]
    /\ Continue(c, "over")
    /\ UNCHANGED <<sizes, categories, referred, history>>

(* One insert of the product with its stock rows, which the foreign key     *)
(* refuses for a category without a row.                                    *)
InsertProduct(c) ==
    /\ pc[c] = "sizing" /\ job[c].kind = "create" /\ Resolved(c)
    /\ LET w == job[c].want
       IN  \/ /\ w.category \in categories
              /\ product' = [product EXCEPT ![c] =
                     [price |-> w.price, rate |-> IF w.rate = Keep THEN 0 ELSE w.rate,
                      discount |-> Discount(w, w.price), stock |-> Stocked(c),
                      category |-> w.category]]
           \/ w.category \notin categories /\ UNCHANGED product
    /\ Continue(c, "over")
    /\ UNCHANGED <<sizes, categories, referred, history>>

--------------------------------------------------------------------------------
(* The edit becomes visible; what the request does not mention stays as it  *)
(* is now, the discounted price is of what was read.                        *)
CommitEdit(c) ==
    LET p == On(c)
        w == job[c].want
    IN  /\ product' = [product EXCEPT ![p] =
               [price |-> IF w.price = Keep THEN @.price ELSE w.price,
                rate |-> IF w.rate = Keep THEN @.rate ELSE w.rate,
                discount |-> Discount(w, read[c]),
                stock |-> IF w.stock = Keep THEN @.stock ELSE Stocked(c),
                category |-> IF w.category = Keep THEN @.category ELSE w.category]]
        /\ outrun' = outrun \cup {d \in Calls \ {c} :
               pc[d] \in {"filing", "sizing"} /\ job[d].kind = "update" /\ On(d) = p}
        /\ stale' = IF c \in outrun THEN stale \cup {p} ELSE stale \ {p}
        /\ Continue(c, "rereading")
        /\ UNCHANGED <<sizes, categories, referred>>

(* UPDATE of the product; with new stock the transaction goes on.           *)
WriteProduct(c) ==
    /\ pc[c] = "sizing" /\ job[c].kind = "update" /\ Resolved(c) /\ ~ ProductLocked(c)
    /\ \/ ~ Exists(On(c)) /\ Continue(c, "over") /\ UNCHANGED <<rows, history>>
       \/ /\ Exists(On(c)) /\ job[c].want.stock # Keep
          /\ Continue(c, "replacing") /\ UNCHANGED <<rows, history>>
       \/ /\ Exists(On(c)) /\ job[c].want.stock = Keep
          /\ CommitEdit(c)

(* The stock rows are deleted, once a removal gives them free, and created. *)
ReplaceStock(c) ==
    /\ pc[c] = "replacing" /\ ~ StockLocked(c)
    /\ CommitEdit(c)

(* The product is read again for the answer, which it is missing from if it *)
(* was removed since.                                                       *)
Reread(c) ==
    /\ pc[c] = "rereading"
    /\ Continue(c, "over")
    /\ UNCHANGED <<rows, history>>

--------------------------------------------------------------------------------
(* Mutant of DeleteStock: it is a transaction of its own.                   *)
DeleteStockAtOnce(c) ==
    /\ pc[c] = "removing" /\ ~ StockLocked(c)
    /\ Continue(c, "bare")
    /\ product' = IF Exists(On(c)) THEN [product EXCEPT ![On(c)].stock = <<>>] ELSE product
    /\ UNCHANGED <<sizes, categories, referred, history>>

(* removeWithRelations: the stock rows first, then the product.             *)
DeleteStock(c) ==
    /\ pc[c] = "removing" /\ ~ StockLocked(c)
    /\ Continue(c, IF Exists(On(c)) /\ product[On(c)].stock # <<>> THEN "unstocked" ELSE "bare")
    /\ UNCHANGED <<rows, history>>

(* The product goes with what was created for it since; an order or a cart  *)
(* that refers to it refuses, and everything is rolled back.                *)
DeleteProduct(c) ==
    /\ pc[c] \in {"unstocked", "bare"} /\ ~ ProductLocked(c)
    /\ \/ /\ Exists(On(c)) /\ On(c) \notin referred
          /\ product' = [product EXCEPT ![On(c)] = Gone]
          /\ Continue(c, "over")
       \/ /\ ~ Exists(On(c)) \/ On(c) \in referred
          /\ Continue(c, "over") /\ UNCHANGED product
    /\ UNCHANGED <<sizes, categories, referred, history>>

(* An update waits for the stock rows and a removal for the product.        *)
DeadlockAbort(c) ==
    /\ \/ pc[c] = "replacing" /\ StockLocked(c)
       \/ pc[c] = "unstocked" /\ ProductLocked(c)
    /\ Continue(c, "over")
    /\ UNCHANGED <<rows, history>>

Fail(c) ==
    \/ /\ pc[c] \in Active
       /\ Continue(c, "over") /\ UNCHANGED <<rows, history>>
    \/ \E k \in Index : branch[c][k] \in Pending /\ Refuse(c, k)

(* An order or a cart line for the product is committed.                    *)
Refer(p) ==
    /\ Exists(p)
    /\ referred' = referred \cup {p}
    /\ UNCHANGED <<pc, job, read, branch, found, sizes, categories, product, history>>

(* The last cart line for the product is deleted.                           *)
Release(p) ==
    /\ p \in referred
    /\ referred' = referred \ {p}
    /\ UNCHANGED <<pc, job, read, branch, found, sizes, categories, product, history>>

Proceed(c) ==
    \/ ResolveCategory(c)
    \/ \E k \in Index : LookupId(c, k) \/ LookupName(c, k) \/ CreateSize(c, k)
    \/ InsertProduct(c)
    \/ WriteProduct(c)
    \/ ReplaceStock(c)
    \/ Reread(c)
    \/ DeleteStock(c)
    \/ DeleteProduct(c)
    \/ DeadlockAbort(c)

Rest == (\A c \in Calls : ~ Running(c)) /\ UNCHANGED vars

Next ==
    \/ \E c \in Calls :
        BeginCreate(c) \/ BeginUpdate(c) \/ BeginRemove(c) \/ Proceed(c) \/ Fail(c)
    \/ \E p \in Products : Refer(p) \/ Release(p)
    \/ Rest

(* A request that was let in is carried on; nothing forces one to be sent.  *)
Spec == Init /\ [][Next]_vars /\ \A c \in Calls : WF_vars(Proceed(c))

--------------------------------------------------------------------------------
TypeOK ==
    /\ pc \in [Calls -> {"idle", "over"} \cup Active]
    /\ job \in [Calls -> Job \cup {NoJob}]
    /\ read \in [Calls -> Int]
    /\ branch \in [Calls -> [Index -> {"none", "found", "refused"} \cup Pending]]
    /\ found \in [Calls -> [Index -> SizeIds \cup {NoSize}]]
    /\ sizes \in [SizeIds -> Names \cup {NoSize}]
    /\ categories \in SUBSET Categories
    /\ product \in [Products -> Row \cup {Absent, Gone}]
    /\ referred \in SUBSET Products
    /\ outrun \in SUBSET Calls /\ stale \in SUBSET Products

(* Unless an update was overtaken between its read and its write, the       *)
(* discounted price belongs to the price and the rate it stands beside, or  *)
(* is the price (products.service.ts:392, :398).                            *)
DiscountedUnlessOutrun ==
    \A p \in Products :
        Exists(p) /\ p \notin stale
        => product[p].discount \in {product[p].price, Discounted(product[p].price, product[p].rate)}

(* One request's price, rate, stock and category are shelved in one step,   *)
(* with the sizes it asked for, and what is referred to stays (Shelf).      *)
Sized(stock, name) ==
    [k \in DOMAIN stock |-> [name |-> name[stock[k].size], quantity |-> stock[k].quantity]]
Shown(row, name) ==
    [price |-> row.price, rate |-> row.rate, stock |-> Sized(row.stock, name),
     category |-> row.category]

Named(stock) == [k \in DOMAIN stock |-> [name |-> Asks[stock[k].input], quantity |-> stock[k].quantity]]
NamedOffer(w) ==
    [price |-> w.price, rate |-> IF w.rate = Keep THEN 0 ELSE w.rate, stock |-> Named(Wanted(w)),
     category |-> w.category]
NamedEdit(w) ==
    [price |-> w.price, rate |-> w.rate, category |-> w.category,
     stock |-> IF w.stock = Keep THEN Keep ELSE Named(w.stock)]

Book == INSTANCE Shelf WITH
    Start <- [p \in Products |-> IF p \in Calls THEN Absent ELSE Shown(Listed[p], Asks)],
    Offers <- {NamedOffer(w) : w \in Offers},
    Edits <- {NamedEdit(w) : w \in Edits},
    product <- [p \in Products |-> IF Exists(p) THEN Shown(product[p], sizes) ELSE product[p]]
ShelvesWhole == Book!Spec

(* Every request and every branch of it ends.                               *)
Ends == \A c \in Calls : Running(c) ~> ~ Running(c)
================================================================================
