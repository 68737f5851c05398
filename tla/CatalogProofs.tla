----------------------------- MODULE CatalogProofs ------------------------------
(***************************************************************************)
(* Theorems about Catalog for any sellers' requests, prices, rates and     *)
(* stocks: its invariants, and that it implements Shelf.                   *)
(***************************************************************************)
EXTENDS Catalog, SequenceTheorems, TLAPS

USE DEF Goto, Continue

--------------------------------------------------------------------------------
(* The inductive invariant.  Where a request and its branches are tells     *)
(* what they have found, and that the sizes they use are there.             *)
BranchInv(c, k) ==
    /\ branch[c][k] # "none" => job[c] \in Create \cup Update /\ k \in DOMAIN Entries(c)
    /\ branch[c][k] \in {"byName", "creating"} => Name(c, k) \in Names
    /\ branch[c][k] = "found" =>
        found[c][k] \in SizeIds /\ Name(c, k) \in Names /\ sizes[found[c][k]] = Name(c, k)
    /\ branch[c][k] # "found" => sizes[<<c, k>>] = NoSize

Begun(c) ==
    /\ pc[c] \in {"idle", "filing"} => \A k \in Index : branch[c][k] = "none"
    /\ pc[c] \in {"filing", "sizing"} => job[c] \in Create \cup Update
    /\ pc[c] \in {"replacing", "rereading"} => job[c] \in Update
    /\ pc[c] = "replacing" => job[c].want.stock # Keep /\ Resolved(c) /\ Exists(On(c))
    /\ pc[c] \in {"removing", "unstocked", "bare"} => job[c] \in Remove

(* A creation's product is not there before it is inserted.                 *)
Own(c) ==
    /\ job[c] \in Create => On(c) = c
    /\ pc[c] = "idle" \/ (pc[c] \in {"filing", "sizing"} /\ job[c] \in Create) => product[c] = Absent

(* What an update has read is current unless it was outrun.                 *)
Current(c) ==
    pc[c] \in {"filing", "sizing", "replacing"} /\ job[c] \in Update
    => /\ product[On(c)] # Absent
       /\ c \notin outrun /\ Exists(On(c)) => read[c] = product[On(c)].price

CallInv(c) == Begun(c) /\ Own(c) /\ Current(c) /\ \A k \in Index : BranchInv(c, k)

(* Size rows keep their names, and the stock rows refer to some.            *)
SeedsNamed == \A s \in Seeds : sizes[s] = Asks[s]
StockSized ==
    \A p \in Products :
        Exists(p) => \A k \in DOMAIN product[p].stock : sizes[product[p].stock[k].size] # NoSize

(* One transaction at a time replaces a product's stock.                    *)
OneReplaces ==
    \A c, d \in Calls : c # d /\ pc[c] = "replacing" /\ pc[d] = "replacing" => On(c) # On(d)

IInv ==
    /\ TypeOK
    /\ DiscountedUnlessOutrun
    /\ SeedsNamed /\ StockSized /\ OneReplaces
    /\ \A c \in Calls : CallInv(c)

--------------------------------------------------------------------------------
(* A discounted price is a number.                                          *)
LEMMA DiscountedType ==
    ASSUME NEW price \in Int, NEW rate \in Int
    PROVE  Discounted(price, rate) \in Int
<1>1. price * (100 - rate) \in Int
  OBVIOUS
<1>2. \A x \in Int : x \div 100 \in Int
  OBVIOUS
<1> QED
  BY <1>1, <1>2 DEF Discounted

(* What a seller sends has entries of at most the indexes there are.        *)
LEMMA WantTypes ==
    ASSUME NEW w \in Offers \cup Edits
    PROVE  /\ w \in Want
           /\ Wanted(w) \in Seq(Entry) /\ DOMAIN Wanted(w) = 1..Len(Wanted(w))
           /\ DOMAIN Wanted(w) \subseteq Index
           /\ \A k \in DOMAIN Wanted(w) :
                  Wanted(w)[k].input \in DOMAIN Asks /\ Wanted(w)[k].quantity \in Int
<1>1. w \in Want /\ (w.stock # Keep => w.stock \in Seq(Entry) /\ Len(w.stock) <= MaxEntries)
  BY CatalogAssumption DEF Want
<1>2. Wanted(w) \in Seq(Entry) /\ Len(Wanted(w)) <= MaxEntries
  BY <1>1, CatalogAssumption DEF Wanted
<1>3. DOMAIN Wanted(w) = 1..Len(Wanted(w)) /\ DOMAIN Wanted(w) \subseteq Index
  BY <1>2, LenProperties, CatalogAssumption DEF Index
<1>4. \A k \in DOMAIN Wanted(w) : Wanted(w)[k] \in Entry
  BY <1>2, <1>3, ElementOfSeq
<1> QED
  BY <1>1, <1>2, <1>3, <1>4 DEF Entry

(* So is the one an update writes.                                          *)
LEMMA DiscountType ==
    ASSUME NEW w \in Offers \cup Edits, NEW price \in Int
    PROVE  Discount(w, price) \in Int
<1>1. w \in Want
  BY WantTypes
<1> QED
  BY <1>1, DiscountedType DEF Want, Discount

(* What the jobs are made of.                                               *)
LEMMA JobTypes ==
    ASSUME NEW c \in Calls, job[c] \in Job
    PROVE  /\ On(c) \in Products
           /\ job[c] \in Create \cup Update => job[c].want \in Offers \cup Edits
           /\ job[c] \in Create <=> job[c].kind = "create"
           /\ job[c] \in Update <=> job[c].kind = "update"
           /\ job[c] \in Remove <=> job[c].kind = "remove"
           /\ job[c] \in Create => job[c].want \in Offers
           /\ job[c] \in Update => job[c].want \in Edits
BY DEF Job, Create, Update, Remove, On

(* What a row is made of.                                                   *)
LEMMA RowTypes ==
    ASSUME NEW row \in Row
    PROVE  /\ row.price \in Int /\ row.rate \in Int /\ row.category \in Categories
           /\ DOMAIN row.stock = 1..Len(row.stock) /\ Len(row.stock) \in Nat
           /\ \A k \in DOMAIN row.stock : row.stock[k].size \in SizeIds /\ row.stock[k].quantity \in Int
<1>1. row.price \in Int /\ row.rate \in Int /\ row.stock \in Seq(Unit) /\ row.category \in Categories
  BY DEF Row
<1>2. DOMAIN row.stock = 1..Len(row.stock) /\ Len(row.stock) \in Nat
  BY <1>1, LenProperties
<1>3. \A k \in DOMAIN row.stock : row.stock[k] \in Unit
  BY <1>1, <1>2, ElementOfSeq
<1> QED
  BY <1>1, <1>2, <1>3 DEF Unit

(* The stock rows of a request whose branches are all done have sizes that  *)
(* are there and have the names that were asked for.                        *)
LEMMA StockedType ==
    ASSUME IInv, NEW c \in Calls, job[c] \in Create \cup Update, Resolved(c)
    PROVE  /\ Stocked(c) \in Seq(Unit)
           /\ DOMAIN Stocked(c) = DOMAIN Entries(c)
           /\ \A k \in DOMAIN Entries(c) :
                  /\ Stocked(c)[k].size \in SizeIds
                  /\ sizes[Stocked(c)[k].size] = Name(c, k)
                  /\ Name(c, k) \in Names
                  /\ Stocked(c)[k].quantity = Entries(c)[k].quantity
<1>1. /\ DOMAIN Entries(c) = 1..Len(Entries(c)) /\ Len(Entries(c)) \in Nat
      /\ DOMAIN Entries(c) \subseteq Index
      /\ \A k \in DOMAIN Entries(c) : Entries(c)[k].quantity \in Int
  BY JobTypes, WantTypes DEF Job, Entries
<1>2. \A k \in DOMAIN Entries(c) :
          found[c][k] \in SizeIds /\ Name(c, k) \in Names /\ sizes[found[c][k]] = Name(c, k)
  BY <1>1 DEF IInv, CallInv, BranchInv, Resolved
<1>3. Stocked(c) \in [1..Len(Entries(c)) -> Unit]
  BY <1>1, <1>2 DEF Stocked, Unit
<1>4. Stocked(c) \in Seq(Unit)
  BY <1>1, <1>3, SeqDef
<1> QED
  BY <1>1, <1>2, <1>4 DEF Stocked

(* The invariant holds at the start.                                        *)
LEMMA InitInv ==
    ASSUME Init
    PROVE  IInv
<1>1. TypeOK
  <2>1. sizes \in [SizeIds -> Names \cup {NoSize}] /\ categories \in SUBSET Categories
    BY CatalogAssumption DEF Init
  <2>2. product \in [Products -> Row \cup {Absent, Gone}]
    BY ListedAssumption DEF Init, Products
  <2> QED
    BY <2>1, <2>2 DEF Init, TypeOK
<1>2. SeedsNamed
  BY DEF Init, SeedsNamed, SizeIds
<1>3. ASSUME NEW p \in Products, Exists(p)
      PROVE  p \in DOMAIN Listed /\ product[p] = Listed[p]
  BY <1>3 DEF Init, Exists, Products
<1>4. DiscountedUnlessOutrun
  BY <1>3, ListedAssumption DEF DiscountedUnlessOutrun
<1>5. StockSized
  <2> SUFFICES ASSUME NEW p \in Products, Exists(p), NEW k \in DOMAIN product[p].stock
               PROVE  sizes[product[p].stock[k].size] # NoSize
    BY DEF StockSized
  <2>1. product[p].stock[k].size \in Seeds
    BY <1>3, ListedAssumption
  <2> QED
    BY <1>2, <2>1, CatalogAssumption DEF SeedsNamed
<1>6. OneReplaces
  BY DEF Init, OneReplaces
<1>7. ASSUME NEW c \in Calls PROVE CallInv(c)
  <2>1. Begun(c) /\ Current(c)
    BY DEF Init, Begun, Current
  <2>2. Own(c)
    BY CatalogAssumption DEF Init, Own, Products, Job
  <2>3. ASSUME NEW k \in Index PROVE BranchInv(c, k)
    BY CatalogAssumption DEF Init, BranchInv, SizeIds
  <2> QED
    BY <2>1, <2>2, <2>3 DEF CallInv
<1> QED
  BY <1>1, <1>2, <1>4, <1>5, <1>6, <1>7 DEF IInv

(* A step of one request that changes no row.                               *)
LEMMA Quiet ==
    ASSUME IInv, NEW c \in Calls, NEW label \in {"idle", "over"} \cup Active, Continue(c, label),
           UNCHANGED <<rows, history>>,
           Begun(c)', Own(c)', Current(c)',
           label = "replacing" => \A d \in Calls \ {c} : pc[d] = "replacing" => On(d) # On(c)
    PROVE  IInv'
<1>1. TypeOK'
  BY DEF IInv, TypeOK, rows, history
<1>2. DiscountedUnlessOutrun' /\ SeedsNamed' /\ StockSized'
  BY DEF IInv, DiscountedUnlessOutrun, SeedsNamed, StockSized, Exists, rows, history
<1>3. OneReplaces'
  BY DEF IInv, TypeOK, OneReplaces, On
<1>4. ASSUME NEW d \in Calls, NEW k \in Index PROVE BranchInv(d, k)'
  BY DEF IInv, CallInv, BranchInv, Entries, Name, rows
<1>5. ASSUME NEW d \in Calls, d # c PROVE Begun(d)' /\ Own(d)' /\ Current(d)'
  BY <1>5 DEF IInv, TypeOK, CallInv, Begun, Own, Current, Resolved, Entries, Exists, On, rows, history
<1> QED
  BY <1>1, <1>2, <1>3, <1>4, <1>5 DEF IInv, CallInv

(* One that ends.                                                           *)
LEMMA Over ==
    ASSUME IInv, NEW c \in Calls, Continue(c, "over"), UNCHANGED <<rows, history>>
    PROVE  IInv'
<1>1. Begun(c)' /\ Own(c)' /\ Current(c)'
  BY DEF IInv, TypeOK, CallInv, Begun, Own, Current, On
<1> QED
  BY <1>1, Quiet

(* One that is let in with job j.                                           *)
LetsIn(c, j, price, label) ==
    /\ pc[c] = "idle" /\ Goto(c, label)
    /\ job' = [job EXCEPT ![c] = j] /\ read' = [read EXCEPT ![c] = price]
    /\ UNCHANGED <<branch, found, rows, history>>
    /\ \/ j \in Create /\ j.product = c /\ label = "filing"
       \/ /\ j \in Update /\ label = "filing"
          /\ Exists(j.product) /\ price = product[j.product].price
       \/ j \in Remove /\ label = "removing"

LEMMA LetIn ==
    ASSUME IInv, NEW c \in Calls, NEW j \in Job, NEW price \in Int, NEW label,
           LetsIn(c, j, price, label)
    PROVE  IInv'
<1> USE DEF LetsIn
<1>1. /\ j \in Create <=> j.kind = "create"
      /\ j \in Update <=> j.kind = "update"
      /\ j \in Remove <=> j.kind = "remove"
  BY DEF Job, Create, Update, Remove
<1>2. job'[c] = j /\ pc'[c] = label /\ On(c)' = j.product /\ read'[c] = price
  BY DEF IInv, TypeOK, On
<1>3. TypeOK'
  <2>1. pc' \in [Calls -> {"idle", "over"} \cup Active]
    BY DEF IInv, TypeOK, Active
  <2>2. job' \in [Calls -> Job \cup {NoJob}] /\ read' \in [Calls -> Int]
    BY DEF IInv, TypeOK
  <2> QED
    BY <2>1, <2>2 DEF IInv, TypeOK, rows, history
<1>4. DiscountedUnlessOutrun' /\ SeedsNamed' /\ StockSized'
  BY DEF IInv, DiscountedUnlessOutrun, SeedsNamed, StockSized, Exists, rows, history
<1>5. OneReplaces'
  <2>1. label # "replacing"
    OBVIOUS
  <2>2. ASSUME NEW d \in Calls, pc'[d] = "replacing" PROVE pc[d] = "replacing" /\ job'[d] = job[d]
    BY <2>1, <2>2 DEF IInv, TypeOK
  <2> QED
    BY <2>2 DEF IInv, OneReplaces, On
<1>6. ASSUME NEW d \in Calls, d # c PROVE CallInv(d)'
  BY <1>6 DEF IInv, TypeOK, CallInv, Begun, Own, Current, BranchInv, Name, Resolved,
      Entries, Exists, On, rows, history
<1>7. Begun(c)'
  BY <1>1, <1>2 DEF IInv, CallInv, Begun
<1>8. Own(c)'
  BY <1>1, <1>2 DEF IInv, CallInv, Own, rows
<1>9. Current(c)'
  BY <1>1, <1>2 DEF Current, Exists, rows
<1>10. ASSUME NEW k \in Index PROVE BranchInv(c, k)'
  BY DEF IInv, CallInv, Begun, BranchInv, rows
<1> QED
  BY <1>3, <1>4, <1>5, <1>6, <1>7, <1>8, <1>9, <1>10 DEF IInv, CallInv

(* Requests that begin keep the invariant.                                  *)
LEMMA BeginStep ==
    ASSUME IInv, NEW c \in Calls, BeginCreate(c) \/ BeginUpdate(c) \/ BeginRemove(c)
    PROVE  IInv'
<1>1. CASE BeginCreate(c)
  <2>1. PICK w \in Offers :
            Begin(c, [kind |-> "create", product |-> c, want |-> w], TRUE, 0, "filing")
    BY <1>1 DEF BeginCreate
  <2> DEFINE j == [kind |-> "create", product |-> c, want |-> w]
  <2>2. j \in Create /\ j \in Job /\ j.want = w /\ j.product = c
    BY DEF Job, Create, Products
  <2> HIDE DEF j
  <2>3. CASE Goto(c, "over") /\ UNCHANGED <<job, read, branch>>
    BY <2>1, <2>3, Over DEF Begin
  <2>4. CASE ~ (Goto(c, "over") /\ UNCHANGED <<job, read, branch>>)
    <3>1. LetsIn(c, j, 0, "filing")
      BY <2>1, <2>2, <2>4 DEF Begin, LetsIn, j
    <3> QED
      BY <2>2, <3>1, LetIn
  <2> QED
    BY <2>3, <2>4
<1>2. CASE BeginUpdate(c)
  <2>1. PICK p \in Products, w \in Edits :
            Begin(c, [kind |-> "update", product |-> p, want |-> w],
                  Exists(p), product[p].price, "filing")
    BY <1>2 DEF BeginUpdate
  <2> DEFINE j == [kind |-> "update", product |-> p, want |-> w]
  <2>2. j \in Update /\ j \in Job /\ j.want = w /\ j.product = p
    BY DEF Job, Update
  <2>3. Exists(p) => product[p].price \in Int
    BY DEF IInv, TypeOK, Exists, Row
  <2> HIDE DEF j
  <2>4. CASE Goto(c, "over") /\ UNCHANGED <<job, read, branch>>
    BY <2>1, <2>4, Over DEF Begin
  <2>5. CASE ~ (Goto(c, "over") /\ UNCHANGED <<job, read, branch>>)
    <3>1. Exists(p) /\ LetsIn(c, j, product[p].price, "filing")
      BY <2>1, <2>2, <2>5 DEF Begin, LetsIn, j
    <3> QED
      BY <2>2, <2>3, <3>1, LetIn
  <2> QED
    BY <2>4, <2>5
<1>3. CASE BeginRemove(c)
  <2>1. PICK p \in Products :
            Begin(c, [kind |-> "remove", product |-> p], Exists(p), 0, "removing")
    BY <1>3 DEF BeginRemove
  <2> DEFINE j == [kind |-> "remove", product |-> p]
  <2>2. j \in Remove /\ j \in Job
    BY DEF Job, Remove
  <2> HIDE DEF j
  <2>3. CASE Goto(c, "over") /\ UNCHANGED <<job, read, branch>>
    BY <2>1, <2>3, Over DEF Begin
  <2>4. CASE ~ (Goto(c, "over") /\ UNCHANGED <<job, read, branch>>)
    <3>1. LetsIn(c, j, 0, "removing")
      BY <2>1, <2>2, <2>4 DEF Begin, LetsIn, j
    <3> QED
      BY <2>2, <3>1, LetIn
  <2> QED
    BY <2>3, <2>4
<1> QED
  BY <1>1, <1>2, <1>3

(* So does the one that resolves the category and starts the branches.      *)
LEMMA ResolveStep ==
    ASSUME IInv, NEW c \in Calls, ResolveCategory(c)
    PROVE  IInv'
<1>0. /\ pc[c] = "filing" /\ job[c] \in Create \cup Update
      /\ job[c].want \in Want /\ DOMAIN Entries(c) \subseteq Index
  BY JobTypes, WantTypes DEF ResolveCategory, IInv, CallInv, Begun, Job, Entries
<1>1. CASE Goto(c, "over") /\ UNCHANGED <<branch, categories>>
  BY <1>1, Over DEF ResolveCategory, rows
<1>2. CASE ~ (Goto(c, "over") /\ UNCHANGED <<branch, categories>>)
  <2> DEFINE start == [k \in Index |-> IF k \in DOMAIN Entries(c) THEN "byId" ELSE "none"]
  <2>1. /\ pc' = [pc EXCEPT ![c] = "sizing"] /\ branch' = [branch EXCEPT ![c] = start]
        /\ categories' = categories \cup
               (IF job[c].want.by = "name" THEN {job[c].want.category} \ {Keep} ELSE {})
        /\ UNCHANGED <<job, read, found, sizes, product, referred, history>>
    BY <1>2 DEF ResolveCategory
  <2>2. TypeOK'
    <3>1. categories' \in SUBSET Categories
      BY <1>0, <2>1 DEF IInv, TypeOK, Want
    <3>2. pc' \in [Calls -> {"idle", "over"} \cup Active]
      BY <2>1 DEF IInv, TypeOK, Active
    <3>3. start \in [Index -> {"none", "found", "refused"} \cup Pending]
      BY DEF Pending
    <3>4. branch' \in [Calls -> [Index -> {"none", "found", "refused"} \cup Pending]]
      BY <2>1, <3>3 DEF IInv, TypeOK
    <3> QED
      BY <2>1, <3>1, <3>2, <3>4 DEF IInv, TypeOK, history
  <2>3. DiscountedUnlessOutrun' /\ SeedsNamed' /\ StockSized'
    BY <2>1 DEF IInv, DiscountedUnlessOutrun, SeedsNamed, StockSized, Exists, history
  <2>4. OneReplaces'
    BY <2>1 DEF IInv, TypeOK, OneReplaces, On
  <2>5. ASSUME NEW d \in Calls, d # c PROVE CallInv(d)'
    <3>1. pc'[d] = pc[d] /\ branch'[d] = branch[d]
      BY <2>1, <2>5 DEF IInv, TypeOK
    <3> QED
      BY <2>1, <3>1 DEF IInv, CallInv, Begun, Own, Current, BranchInv, Name, Resolved,
          Entries, Exists, On, history
  <2>6. Begun(c)' /\ Own(c)' /\ Current(c)'
    BY <1>0, <2>1 DEF IInv, TypeOK, CallInv, Begun, Own, Current, Exists, On, history
  <2>7. ASSUME NEW k \in Index PROVE BranchInv(c, k)'
    <3>1. branch'[c][k] = (IF k \in DOMAIN Entries(c) THEN "byId" ELSE "none") /\ branch[c][k] = "none"
      BY <1>0, <2>1 DEF IInv, TypeOK, CallInv, Begun
    <3> QED
      BY <1>0, <2>1, <3>1 DEF IInv, CallInv, BranchInv, Entries
  <2> QED
    BY <2>2, <2>3, <2>4, <2>5, <2>6, <2>7 DEF IInv, CallInv
<1> QED
  BY <1>1, <1>2

--------------------------------------------------------------------------------
(* A step of the branch of entry k: sizes there are stay as they are, and   *)
(* only the branch that creates one adds one.                               *)
LEMMA Branched ==
    ASSUME IInv, NEW c \in Calls, NEW k \in Index,
           NEW label \in {"byName", "creating", "found", "refused"},
           branch[c][k] \in Pending, Branch(c, k, label),
           pc' = pc \/ (pc[c] = "sizing" /\ Goto(c, "over")),
           found' \in [Calls -> [Index -> SizeIds \cup {NoSize}]],
           \A d \in Calls, l \in Index : <<d, l>> # <<c, k>> => found'[d][l] = found[d][l],
           sizes' \in [SizeIds -> Names \cup {NoSize}],
           \A s \in SizeIds : sizes[s] # NoSize => sizes'[s] = sizes[s],
           \A s \in SizeIds : s # <<c, k>> => sizes'[s] = sizes[s],
           BranchInv(c, k)'
    PROVE  IInv'
<1> USE DEF Branch
<1>1. /\ branch' \in [Calls -> [Index -> {"none", "found", "refused"} \cup Pending]]
      /\ branch'[c][k] = label
      /\ \A d \in Calls, l \in Index : <<d, l>> # <<c, k>> => branch'[d][l] = branch[d][l]
  BY DEF IInv, TypeOK, Pending
<1>2. TypeOK'
  BY <1>1 DEF IInv, TypeOK, history
<1>3. \A d \in Calls : pc'[d] = pc[d] \/ (pc[d] = "sizing" /\ pc'[d] = "over")
  BY DEF IInv, TypeOK
<1>4. DiscountedUnlessOutrun'
  BY DEF IInv, DiscountedUnlessOutrun, Exists, history
<1>5. SeedsNamed'
  BY CatalogAssumption DEF IInv, SeedsNamed, SizeIds
<1>6. StockSized'
  <2> SUFFICES ASSUME NEW p \in Products, Exists(p), NEW i \in DOMAIN product[p].stock
               PROVE  sizes'[product[p].stock[i].size] # NoSize
    BY DEF StockSized, Exists
  <2>1. product[p] \in Row
    BY DEF IInv, TypeOK, Exists
  <2>2. product[p].stock[i].size \in SizeIds
    BY <2>1, RowTypes
  <2>3. sizes[product[p].stock[i].size] # NoSize
    BY DEF IInv, StockSized
  <2> QED
    BY <2>2, <2>3
<1>7. OneReplaces'
  BY <1>3 DEF IInv, OneReplaces, On
<1>8. ASSUME NEW d \in Calls PROVE Begun(d)' /\ Own(d)' /\ Current(d)'
  <2>1. Begun(d) /\ Own(d) /\ Current(d)
    BY DEF IInv, CallInv
  <2>2. d = c => branch[c][k] # "none" /\ k \in DOMAIN Entries(c) /\ ~ Resolved(c)
    BY DEF IInv, CallInv, BranchInv, Pending, Resolved
  <2>3. Begun(d)'
    <3>1. CASE d = c
      BY <1>3, <2>1, <2>2, <3>1 DEF Begun
    <3>2. CASE d # c
      <4>1. \A l \in Index : branch'[d][l] = branch[d][l]
        BY <1>1, <3>2
      <4>2. branch'[d] = branch[d]
        BY <3>2 DEF IInv, TypeOK
      <4> QED
        BY <1>3, <2>1, <4>1, <4>2 DEF Begun, Resolved, Entries, Exists, On
    <3> QED
      BY <3>1, <3>2
  <2>4. Own(d)' /\ Current(d)'
    BY <1>3, <2>1 DEF Own, Current, On, Exists, history
  <2> QED
    BY <2>3, <2>4
<1>9. ASSUME NEW d \in Calls, NEW l \in Index PROVE BranchInv(d, l)'
  <2>1. CASE <<d, l>> = <<c, k>>
    BY <2>1
  <2>2. CASE <<d, l>> # <<c, k>>
    <3>1. BranchInv(d, l) /\ branch'[d][l] = branch[d][l] /\ found'[d][l] = found[d][l]
      BY <1>1, <2>2 DEF IInv, CallInv
    <3>2. sizes'[<<d, l>>] = sizes[<<d, l>>]
      BY <2>2 DEF SizeIds
    <3>3. NoSize \notin Names
      BY CatalogAssumption
    <3> QED
      BY <3>1, <3>2, <3>3 DEF BranchInv, Name, Entries
  <2> QED
    BY <2>1, <2>2
<1> QED
  BY <1>2, <1>4, <1>5, <1>6, <1>7, <1>8, <1>9 DEF IInv, CallInv

(* A branch that is refused keeps the invariant.                            *)
LEMMA RefuseStep ==
    ASSUME IInv, NEW c \in Calls, NEW k \in Index, branch[c][k] \in Pending, Refuse(c, k)
    PROVE  IInv'
<1>1. Branch(c, k, "refused") /\ UNCHANGED <<found, sizes>>
      /\ (pc' = pc \/ (pc[c] = "sizing" /\ Goto(c, "over")))
  BY DEF IInv, TypeOK, Refuse
<1>2. branch'[c][k] = "refused"
  BY <1>1 DEF IInv, TypeOK, Branch
<1>3. BranchInv(c, k)'
  BY <1>1, <1>2 DEF IInv, CallInv, BranchInv, Branch, Pending, Entries
<1> QED
  BY <1>1, <1>3, Branched DEF IInv, TypeOK

(* So does one that takes a size with the name its entry asks for.          *)
LEMMA TakeStep ==
    ASSUME IInv, NEW c \in Calls, NEW k \in Index, branch[c][k] \in Pending, NEW s \in SizeIds,
           Take(c, k, s), Name(c, k) \in Names, sizes'[s] = Name(c, k),
           sizes' \in [SizeIds -> Names \cup {NoSize}],
           \A t \in SizeIds : sizes[t] # NoSize => sizes'[t] = sizes[t],
           \A t \in SizeIds : t # <<c, k>> => sizes'[t] = sizes[t]
    PROVE  IInv'
<1>1. Branch(c, k, "found") /\ found' = [found EXCEPT ![c][k] = s] /\ pc' = pc
  BY DEF Take
<1>2. branch'[c][k] = "found" /\ found'[c][k] = s
  BY <1>1 DEF IInv, TypeOK, Branch
<1>3. /\ found' \in [Calls -> [Index -> SizeIds \cup {NoSize}]]
      /\ \A d \in Calls, l \in Index : <<d, l>> # <<c, k>> => found'[d][l] = found[d][l]
  BY <1>1 DEF IInv, TypeOK
<1>4. BranchInv(c, k)'
  BY <1>1, <1>2 DEF IInv, CallInv, BranchInv, Branch, Pending, Name, Entries
<1> QED
  BY <1>1, <1>3, <1>4, Branched

(* Steps of branches keep the invariant.                                    *)
LEMMA BranchStep ==
    ASSUME IInv, NEW c \in Calls, NEW k \in Index,
           LookupId(c, k) \/ LookupName(c, k) \/ CreateSize(c, k)
    PROVE  IInv'
<1>1. /\ job[c] \in Create \cup Update /\ k \in DOMAIN Entries(c) => Name(c, k) \in Names \cup {NoName}
      /\ BranchInv(c, k)
  BY JobTypes, WantTypes, CatalogAssumption DEF IInv, CallInv, Job, Entries, Name
<1>2. CASE LookupId(c, k)
  <2> DEFINE input == Entries(c)[k].input
  <2>1. branch[c][k] = "byId" /\ Name(c, k) \in Names \cup {NoName}
    BY <1>1, <1>2 DEF LookupId, BranchInv
  <2>2. CASE input \in Seeds /\ Take(c, k, input) /\ UNCHANGED sizes
    <3>1. sizes[input] = Name(c, k) /\ Name(c, k) \in Names /\ input \in SizeIds
      BY <2>2, CatalogAssumption DEF IInv, SeedsNamed, Name, SizeIds
    <3> QED
      BY <2>1, <2>2, <3>1, TakeStep DEF IInv, TypeOK, Pending
  <2>3. CASE Refuse(c, k)
    BY <2>1, <2>3, RefuseStep DEF Pending
  <2>4. CASE Name(c, k) # NoName /\ Branch(c, k, "byName") /\ UNCHANGED <<pc, found, sizes>>
    <3>1. branch'[c][k] = "byName"
      BY <2>4 DEF IInv, TypeOK, Branch
    <3>2. BranchInv(c, k)'
      BY <1>1, <2>1, <2>4, <3>1 DEF BranchInv, Branch, Name, Entries
    <3> QED
      BY <2>1, <2>4, <3>2, Branched DEF IInv, TypeOK, Pending
  <2> QED
    BY <1>2, <2>2, <2>3, <2>4 DEF LookupId
<1>3. CASE LookupName(c, k)
  <2>1. branch[c][k] = "byName" /\ Name(c, k) \in Names
    BY <1>1, <1>3 DEF LookupName, BranchInv
  <2>2. CASE \E s \in SizeIds : sizes[s] = Name(c, k) /\ Take(c, k, s) /\ UNCHANGED sizes
    BY <2>1, <2>2, TakeStep DEF IInv, TypeOK, Pending
  <2>3. CASE Branch(c, k, "creating") /\ UNCHANGED <<pc, found, sizes>>
    <3>1. branch'[c][k] = "creating"
      BY <2>3 DEF IInv, TypeOK, Branch
    <3>2. BranchInv(c, k)'
      BY <1>1, <2>1, <2>3, <3>1 DEF BranchInv, Branch, Name, Entries
    <3> QED
      BY <2>1, <2>3, <3>2, Branched DEF IInv, TypeOK, Pending
  <2> QED
    BY <1>3, <2>2, <2>3 DEF LookupName
<1>4. CASE CreateSize(c, k)
  <2>1. branch[c][k] = "creating" /\ Name(c, k) \in Names /\ sizes[<<c, k>>] = NoSize
    BY <1>1, <1>4 DEF CreateSize, BranchInv
  <2>2. <<c, k>> \in SizeIds
    BY DEF SizeIds
  <2>3. sizes' = [sizes EXCEPT ![<<c, k>>] = Name(c, k)] /\ Take(c, k, <<c, k>>)
    BY <1>4 DEF CreateSize
  <2>4. /\ sizes' \in [SizeIds -> Names \cup {NoSize}]
        /\ sizes'[<<c, k>>] = Name(c, k)
        /\ \A t \in SizeIds : t # <<c, k>> => sizes'[t] = sizes[t]
    BY <2>1, <2>2, <2>3 DEF IInv, TypeOK
  <2>5. \A t \in SizeIds : sizes[t] # NoSize => sizes'[t] = sizes[t]
    BY <2>1, <2>4
  <2> QED
    BY <2>1, <2>2, <2>3, <2>4, <2>5, TakeStep DEF Pending
<1> QED
  BY <1>2, <1>3, <1>4

--------------------------------------------------------------------------------
(* The insert of a product keeps the invariant, refused or not.             *)
LEMMA RefusedInsert ==
    ASSUME IInv, NEW c \in Calls, InsertProduct(c), job[c].want.category \notin categories
    PROVE  IInv' /\ UNCHANGED rows
BY Over DEF InsertProduct, rows

LEMMA InsertStep ==
    ASSUME IInv, NEW c \in Calls, InsertProduct(c), job[c].want.category \in categories
    PROVE  IInv'
<1> DEFINE w == job[c].want
           row == [price |-> w.price, rate |-> IF w.rate = Keep THEN 0 ELSE w.rate,
                   discount |-> Discount(w, w.price), stock |-> Stocked(c),
                   category |-> w.category]
<1>1. /\ pc[c] = "sizing" /\ job[c] \in Create /\ Resolved(c) /\ On(c) = c /\ product[c] = Absent
      /\ w \in Offers /\ w \in Want /\ w.price # Keep /\ w.category # Keep
  BY JobTypes, WantTypes, CatalogAssumption DEF InsertProduct, IInv, CallInv, Begun, Own, Job
<1>2. /\ Continue(c, "over") /\ UNCHANGED <<sizes, categories, referred, history>>
      /\ product' = [product EXCEPT ![c] = row]
  BY DEF InsertProduct
<1>3. /\ w.price \in Int /\ (w.rate # Keep => w.rate \in Int) /\ Discount(w, w.price) \in Int
      /\ w.category \in Categories
  BY <1>1, DiscountType DEF Want
<1>4. row \in Row
  BY <1>1, <1>3, StockedType DEF Row
<1>5. c \in Products /\ product'[c] = row /\ \A p \in Products : p # c => product'[p] = product[p]
  BY <1>2 DEF IInv, TypeOK, Products
<1> HIDE DEF row
<1>6. TypeOK'
  <2>1. product' \in [Products -> Row \cup {Absent, Gone}]
    BY <1>2, <1>4 DEF IInv, TypeOK
  <2>2. pc' \in [Calls -> {"idle", "over"} \cup Active]
    BY <1>2 DEF IInv, TypeOK
  <2> QED
    BY <1>2, <2>1, <2>2 DEF IInv, TypeOK, history
<1>7. DiscountedUnlessOutrun'
  <2>1. row.discount \in {row.price, Discounted(row.price, row.rate)}
    BY <1>1, <1>3, CatalogAssumption DEF row, Discount
  <2> QED
    BY <1>2, <1>5, <2>1 DEF IInv, DiscountedUnlessOutrun, Exists, history
<1>8. SeedsNamed' /\ OneReplaces'
  BY <1>2 DEF IInv, TypeOK, SeedsNamed, OneReplaces, On
<1>9. StockSized'
  <2>1. \A k \in DOMAIN row.stock : sizes[row.stock[k].size] # NoSize
    BY <1>1, StockedType, CatalogAssumption DEF row
  <2> QED
    BY <1>2, <1>5, <2>1 DEF IInv, StockSized, Exists
<1>10. ASSUME NEW d \in Calls PROVE CallInv(d)'
  <2>1. CallInv(d) /\ (d # c => pc'[d] = pc[d]) /\ pc'[c] = "over"
    BY <1>2 DEF IInv, TypeOK
  <2>2. d # c /\ job[d] \in Update /\ pc[d] \in {"filing", "sizing", "replacing"} => On(d) # c /\ On(d) \in Products
    BY <1>1, <2>1, JobTypes DEF CallInv, Current, Job
  <2>3. Begun(d)'
    BY <1>2, <1>5, <2>1, <2>2 DEF CallInv, Begun, Resolved, Entries, Exists, On
  <2>4. Own(d)'
    BY <1>2, <1>5, <2>1 DEF CallInv, Own, On, Products
  <2>5. Current(d)'
    BY <1>2, <1>5, <2>1, <2>2 DEF CallInv, Current, On, Exists, history
  <2>6. ASSUME NEW k \in Index PROVE BranchInv(d, k)'
    BY <1>2, <2>1 DEF CallInv, BranchInv, Name, Entries
  <2> QED
    BY <2>3, <2>4, <2>5, <2>6 DEF CallInv
<1> QED
  BY <1>6, <1>7, <1>8, <1>9, <1>10 DEF IInv

(* An edit that commits is alone with its product.                          *)
LEMMA CommitEditStep ==
    ASSUME IInv, NEW c \in Calls, CommitEdit(c), job[c] \in Update, Resolved(c), Exists(On(c)),
           pc[c] \in {"sizing", "replacing"},
           \A d \in Calls \ {c} : pc[d] = "replacing" => On(d) # On(c)
    PROVE  IInv'
<1> DEFINE p == On(c)
           w == job[c].want
           row == [price |-> IF w.price = Keep THEN product[p].price ELSE w.price,
                   rate |-> IF w.rate = Keep THEN product[p].rate ELSE w.rate,
                   discount |-> Discount(w, read[c]),
                   stock |-> IF w.stock = Keep THEN product[p].stock ELSE Stocked(c),
                   category |-> IF w.category = Keep THEN product[p].category ELSE w.category]
<1>1. p \in Products /\ w \in Edits /\ w \in Want /\ product[p] \in Row /\ read[c] \in Int
  BY JobTypes, WantTypes DEF Job, IInv, TypeOK, Exists
<1>2. /\ Continue(c, "rereading") /\ UNCHANGED <<sizes, categories, referred>>
      /\ product' = [product EXCEPT ![p] = row]
      /\ outrun' = outrun \cup {d \in Calls \ {c} :
             pc[d] \in {"filing", "sizing"} /\ job[d].kind = "update" /\ On(d) = p}
      /\ stale' = IF c \in outrun THEN stale \cup {p} ELSE stale \ {p}
  BY DEF CommitEdit
<1>3. /\ w.price # Keep => w.price \in Int
      /\ w.rate # Keep => w.rate \in Int
      /\ w.category # Keep => w.category \in Categories
      /\ Discount(w, read[c]) \in Int
  BY <1>1, DiscountType DEF Want
<1>4. row \in Row
  BY <1>1, <1>3, StockedType DEF Row
<1>5. product'[p] = row /\ \A q \in Products : q # p => product'[q] = product[q]
  BY <1>1, <1>2 DEF IInv, TypeOK
<1>6. c \notin outrun => row.discount \in {row.price, Discounted(row.price, row.rate)}
  <2>1. c \notin outrun => read[c] = product[p].price
    BY DEF IInv, CallInv, Current
  <2> QED
    BY <2>1, CatalogAssumption DEF Discount
<1>7. \A k \in DOMAIN row.stock : sizes[row.stock[k].size] # NoSize
  BY <1>1, StockedType, CatalogAssumption DEF IInv, StockSized
<1> HIDE DEF row
<1>8. row \notin {Absent, Gone}
  BY <1>4, CatalogAssumption
<1>9. TypeOK'
  <2>1. product' \in [Products -> Row \cup {Absent, Gone}]
    BY <1>2, <1>4 DEF IInv, TypeOK
  <2>2. pc' \in [Calls -> {"idle", "over"} \cup Active]
    BY <1>2 DEF IInv, TypeOK, Active
  <2>3. outrun' \in SUBSET Calls /\ stale' \in SUBSET Products
    BY <1>1, <1>2 DEF IInv, TypeOK
  <2> QED
    BY <1>2, <2>1, <2>2, <2>3 DEF IInv, TypeOK
<1>10. DiscountedUnlessOutrun'
  BY <1>1, <1>2, <1>5, <1>6 DEF IInv, DiscountedUnlessOutrun, Exists
<1>11. SeedsNamed' /\ OneReplaces'
  BY <1>2 DEF IInv, TypeOK, SeedsNamed, OneReplaces, On
<1>12. StockSized'
  BY <1>2, <1>5, <1>7 DEF IInv, StockSized, Exists
<1>13. ASSUME NEW d \in Calls PROVE CallInv(d)'
  <2>1. CallInv(d) /\ (d # c => pc'[d] = pc[d]) /\ pc'[c] = "rereading"
    BY <1>2 DEF IInv, TypeOK
  <2>2. job[d] \in Update => job[d].kind = "update" /\ On(d) \in Products
    BY JobTypes DEF Job
  <2>3. \A q \in Products : Exists(q)' <=> Exists(q)
    BY <1>5, <1>8 DEF Exists
  <2>4. Begun(d)'
    BY <1>2, <2>1, <2>2, <2>3 DEF CallInv, Begun, Resolved, Entries, On
  <2>5. Own(d)'
    <3>1. d \in Products /\ (product[d] = Absent => product'[d] = Absent)
      BY <1>5 DEF Exists, Products
    <3>2. job[c] \notin Create
      BY DEF Create, Update
    <3> QED
      BY <1>2, <2>1, <3>1, <3>2 DEF CallInv, Own, On
  <2>6. Current(d)'
    <3>1. CASE d = c
      BY <2>1, <3>1 DEF Current
    <3>2. CASE d # c /\ On(d) # p
      <4>1. d \notin outrun' => d \notin outrun
        BY <1>2
      <4> QED
        BY <1>2, <1>5, <2>1, <2>2, <2>3, <3>2, <4>1 DEF CallInv, Current, On
    <3>3. CASE d # c /\ On(d) = p
      <4>1. pc[d] \in {"filing", "sizing"} /\ job[d] \in Update => d \in outrun'
        BY <1>2, <2>2, <3>3
      <4>2. pc[d] # "replacing"
        BY <3>3
      <4> QED
        BY <1>2, <1>5, <1>8, <2>1, <3>3, <4>1, <4>2 DEF Current, On
    <3> QED
      BY <3>1, <3>2, <3>3
  <2>7. ASSUME NEW k \in Index PROVE BranchInv(d, k)'
    BY <1>2, <2>1 DEF CallInv, BranchInv, Name, Entries
  <2> QED
    BY <2>4, <2>5, <2>6, <2>7 DEF CallInv
<1> QED
  BY <1>9, <1>10, <1>11, <1>12, <1>13 DEF IInv

(* The writes of an update keep the invariant.                              *)
LEMMA EditStep ==
    ASSUME IInv, NEW c \in Calls, WriteProduct(c) \/ ReplaceStock(c)
    PROVE  IInv'
<1>1. CASE WriteProduct(c)
  <2>1. /\ pc[c] = "sizing" /\ job[c] \in Update /\ Resolved(c)
        /\ \A d \in Calls \ {c} : pc[d] = "replacing" => On(d) # On(c)
    BY <1>1, JobTypes DEF WriteProduct, ProductLocked, IInv, CallInv, Begun, Job
  <2>2. CASE Continue(c, "over") /\ UNCHANGED <<rows, history>>
    BY <2>2, Over
  <2>3. CASE /\ Exists(On(c)) /\ job[c].want.stock # Keep
             /\ Continue(c, "replacing") /\ UNCHANGED <<rows, history>>
    <3>1. pc'[c] = "replacing"
      BY <2>3 DEF IInv, TypeOK
    <3>2. Begun(c)'
      BY <2>1, <2>3, <3>1 DEF Begun, Resolved, Entries, Exists, On, rows
    <3>3. Own(c)' /\ Current(c)'
      BY <2>1, <2>3, <3>1 DEF IInv, CallInv, Own, Current, Exists, On, rows, history
    <3> QED
      BY <2>1, <2>3, <3>2, <3>3, Quiet DEF Active
  <2>4. CASE Exists(On(c)) /\ CommitEdit(c)
    BY <2>1, <2>4, CommitEditStep
  <2> QED
    BY <1>1, <2>2, <2>3, <2>4 DEF WriteProduct
<1>2. CASE ReplaceStock(c)
  <2>1. pc[c] = "replacing" /\ job[c] \in Update /\ Resolved(c) /\ Exists(On(c)) /\ CommitEdit(c)
    BY <1>2 DEF ReplaceStock, IInv, CallInv, Begun
  <2>2. \A d \in Calls \ {c} : pc[d] = "replacing" => On(d) # On(c)
    BY <2>1 DEF IInv, OneReplaces
  <2> QED
    BY <2>1, <2>2, CommitEditStep
<1> QED
  BY <1>1, <1>2

(* The deletions of a removal keep the invariant.                           *)
LEMMA RemoveStep ==
    ASSUME IInv, NEW c \in Calls, DeleteStock(c) \/ DeleteProduct(c)
    PROVE  IInv'
<1>1. CASE DeleteStock(c)
  <2>1. PICK label \in {"unstocked", "bare"} : Continue(c, label) /\ UNCHANGED <<rows, history>>
    BY <1>1 DEF DeleteStock
  <2>2. pc[c] = "removing" /\ job[c] \in Remove /\ pc'[c] = label
    BY <1>1, <2>1 DEF DeleteStock, IInv, TypeOK, CallInv, Begun
  <2>3. Begun(c)' /\ Own(c)' /\ Current(c)'
    BY <2>1, <2>2 DEF IInv, CallInv, Begun, Own, Current, On
  <2> QED
    BY <2>1, <2>3, Quiet DEF Active
<1>2. CASE DeleteProduct(c) /\ product' = product
  BY <1>2, Over DEF DeleteProduct, rows
<1>3. CASE DeleteProduct(c) /\ product' # product
  <2>1. /\ pc[c] \in {"unstocked", "bare"} /\ job[c] \in Remove /\ On(c) \in Products
        /\ \A d \in Calls \ {c} : pc[d] = "replacing" => On(d) # On(c)
    BY <1>3, JobTypes DEF DeleteProduct, ProductLocked, IInv, CallInv, Begun, Job
  <2>2. /\ Exists(On(c)) /\ product' = [product EXCEPT ![On(c)] = Gone]
        /\ Continue(c, "over") /\ UNCHANGED <<sizes, categories, referred, history>>
    BY <1>3 DEF DeleteProduct
  <2>3. product'[On(c)] = Gone /\ \A q \in Products : q # On(c) => product'[q] = product[q]
    BY <2>1, <2>2 DEF IInv, TypeOK
  <2>4. TypeOK'
    BY <2>2 DEF IInv, TypeOK, history
  <2>5. DiscountedUnlessOutrun' /\ SeedsNamed' /\ StockSized'
    BY <2>2, <2>3 DEF IInv, DiscountedUnlessOutrun, SeedsNamed, StockSized, Exists, history
  <2>6. OneReplaces'
    BY <2>2 DEF IInv, TypeOK, OneReplaces, On
  <2>7. ASSUME NEW d \in Calls PROVE CallInv(d)'
    <3>1. CallInv(d) /\ (d # c => pc'[d] = pc[d]) /\ pc'[c] = "over"
      BY <2>2 DEF IInv, TypeOK
    <3>2. job[d] \in Update => On(d) \in Products
      BY JobTypes DEF Job
    <3>3. Begun(d)'
      BY <2>1, <2>2, <2>3, <3>1, <3>2 DEF CallInv, Begun, Resolved, Entries, Exists, On
    <3>4. Own(d)'
      BY <2>2, <2>3, <3>1 DEF CallInv, Own, On, Exists, Products
    <3>5. Current(d)'
      BY <2>2, <2>3, <3>1, <3>2, CatalogAssumption DEF CallInv, Current, On, Exists, history
    <3>6. ASSUME NEW k \in Index PROVE BranchInv(d, k)'
      BY <2>2, <3>1 DEF CallInv, BranchInv, Name, Entries
    <3> QED
      BY <3>3, <3>4, <3>5, <3>6 DEF CallInv
  <2> QED
    BY <2>4, <2>5, <2>6, <2>7 DEF IInv
<1> QED
  BY <1>1, <1>2, <1>3

(* Orders and carts keep the invariant.                                     *)
LEMMA IdleStep ==
    ASSUME IInv, UNCHANGED <<pc, job, read, branch, found, sizes, categories, product, history>>,
           referred' \in SUBSET Products
    PROVE  IInv'
<1>1. TypeOK'
  BY DEF IInv, TypeOK, history
<1>2. DiscountedUnlessOutrun' /\ SeedsNamed' /\ StockSized' /\ OneReplaces'
  BY DEF IInv, DiscountedUnlessOutrun, SeedsNamed, StockSized, OneReplaces, On, Exists, history
<1>3. ASSUME NEW d \in Calls PROVE CallInv(d)'
  BY DEF IInv, CallInv, Begun, Own, Current, BranchInv, Name, Resolved, Entries, Exists, On, history
<1> QED
  BY <1>1, <1>2, <1>3 DEF IInv

(* Every step of a request that has begun keeps the invariant.              *)
LEMMA ProceedStep ==
    ASSUME IInv, NEW c \in Calls, Proceed(c) \/ Fail(c)
    PROVE  IInv'
<1>1. ASSUME NEW k \in Index, LookupId(c, k) \/ LookupName(c, k) \/ CreateSize(c, k) PROVE IInv'
  BY <1>1, BranchStep
<1>0. CASE ResolveCategory(c)
  BY <1>0, ResolveStep
<1>2. CASE InsertProduct(c)
  BY <1>2, InsertStep, RefusedInsert
<1>3. CASE WriteProduct(c) \/ ReplaceStock(c)
  BY <1>3, EditStep
<1>4. CASE DeleteStock(c) \/ DeleteProduct(c)
  BY <1>4, RemoveStep
<1>5. CASE Reread(c) \/ DeadlockAbort(c)
  BY <1>5, Over DEF Reread, DeadlockAbort
<1>6. CASE Fail(c)
  BY <1>6, Over, RefuseStep DEF Fail
<1> QED
  BY <1>0, <1>1, <1>2, <1>3, <1>4, <1>5, <1>6 DEF Proceed

(* IInv is inductive.                                                       *)
THEOREM StepInv ==
    ASSUME IInv, [Next]_vars
    PROVE  IInv'
<1>1. ASSUME NEW c \in Calls, BeginCreate(c) \/ BeginUpdate(c) \/ BeginRemove(c) PROVE IInv'
  BY <1>1, BeginStep
<1>2. ASSUME NEW c \in Calls, Proceed(c) \/ Fail(c) PROVE IInv'
  BY <1>2, ProceedStep
<1>3. ASSUME NEW p \in Products, Refer(p) \/ Release(p) PROVE IInv'
  <2>1. referred' \in SUBSET Products
    BY <1>3 DEF Refer, Release, IInv, TypeOK
  <2> QED
    BY <1>3, <2>1, IdleStep DEF Refer, Release
<1>4. CASE UNCHANGED vars
  <2>1. referred' \in SUBSET Products
    BY <1>4 DEF vars, rows, IInv, TypeOK
  <2> QED
    BY <1>4, <2>1, IdleStep DEF vars, rows
<1> QED
  BY <1>1, <1>2, <1>3, <1>4 DEF Next, Rest

(* IInv holds in every state of every behaviour.                            *)
THEOREM Invariance == Spec => []IInv
<1>1. Init => IInv
  BY InitInv
<1>2. IInv /\ [Next]_vars => IInv'
  BY StepInv
<1> QED
  BY <1>1, <1>2, PTL DEF Spec

(* The values of the variables have their types.                            *)
THEOREM TypeCorrect == Spec => []TypeOK
<1>1. IInv => TypeOK
  BY DEF IInv
<1> QED
  BY <1>1, Invariance, PTL

(* An update that was not overtaken between the read of the product         *)
(* (products.service.ts:337) and its write (:398) leaves a discounted price *)
(* that belongs to the price and the rate beside it, or is the price.       *)
THEOREM DiscountsMatchUnlessOutrun == Spec => []DiscountedUnlessOutrun
<1>1. IInv => DiscountedUnlessOutrun
  BY DEF IInv
<1> QED
  BY <1>1, Invariance, PTL

--------------------------------------------------------------------------------
(* The refinement of Shelf: insert, commit of an edit and deletion are its  *)
(* steps, and everything else leaves the shelf as it is.                    *)
shelf == [p \in Products |-> IF Exists(p) THEN Shown(product[p], sizes) ELSE product[p]]

(* A product that is there is shown as a row of the shelf.                  *)
LEMMA ShelfTypes ==
    ASSUME IInv, NEW p \in Products
    PROVE  /\ Exists(p) => product[p] \in Row /\ shelf[p] = Shown(product[p], sizes) /\ shelf[p] \in ShownRow
           /\ ~ Exists(p) => shelf[p] = product[p]
           /\ Exists(p) <=> shelf[p] \notin {Absent, Gone}
<1>1. CASE Exists(p)
  <2> DEFINE row == product[p]
  <2>1. row \in Row /\ shelf[p] = Shown(row, sizes)
    BY <1>1 DEF IInv, TypeOK, Exists, shelf
  <2>2. \A k \in DOMAIN row.stock : sizes[row.stock[k].size] \in Names
    BY <1>1, <2>1, RowTypes DEF IInv, TypeOK, StockSized
  <2>3. Sized(row.stock, sizes) \in [1..Len(row.stock) -> SizedUnit]
    BY <2>1, <2>2, RowTypes DEF Sized, SizedUnit
  <2>4. Sized(row.stock, sizes) \in Seq(SizedUnit)
    BY <2>1, <2>3, RowTypes, SeqDef
  <2>5. shelf[p] \in ShownRow
    BY <2>1, <2>4, RowTypes DEF Shown, ShownRow
  <2> QED
    BY <1>1, <2>1, <2>5, CatalogAssumption
<1>2. CASE ~ Exists(p)
  BY <1>2 DEF Exists, shelf
<1> QED
  BY <1>1, <1>2

(* New sizes do not change what is shown.                                   *)
LEMMA ShelfKept ==
    ASSUME IInv, product' = product,
           \A s \in SizeIds : sizes[s] # NoSize => sizes'[s] = sizes[s]
    PROVE  shelf' = shelf
<1>1. ASSUME NEW p \in Products, Exists(p) PROVE Shown(product[p], sizes') = Shown(product[p], sizes)
  <2>1. product[p] \in Row
    BY <1>1, ShelfTypes
  <2>2. \A k \in DOMAIN product[p].stock :
            sizes'[product[p].stock[k].size] = sizes[product[p].stock[k].size]
    BY <1>1, <2>1, RowTypes DEF IInv, StockSized
  <2>3. Sized(product[p].stock, sizes') = Sized(product[p].stock, sizes)
    BY <2>2 DEF Sized
  <2> QED
    BY <2>3 DEF Shown
<1> QED
  BY <1>1 DEF shelf, Exists

(* What a request has found has the names it asked for.                     *)
LEMMA StockedNamed ==
    ASSUME IInv, NEW c \in Calls, job[c] \in Create \cup Update, Resolved(c)
    PROVE  /\ Sized(Stocked(c), sizes) = Named(Entries(c))
           /\ Named(Entries(c)) # Keep
<1>1. Sized(Stocked(c), sizes) = Named(Entries(c))
  BY StockedType DEF Sized, Named, Name
<1>2. DOMAIN Entries(c) = 1..Len(Entries(c)) /\ Len(Entries(c)) \in Nat
      /\ \A k \in DOMAIN Entries(c) : Entries(c)[k].quantity \in Int
  BY JobTypes, WantTypes, LenProperties DEF Job, Entries
<1>3. Named(Entries(c)) \in [1..Len(Entries(c)) -> SizedUnit]
  BY <1>2, StockedType DEF Named, Name, SizedUnit
<1>4. Named(Entries(c)) \in Seq(SizedUnit)
  BY <1>2, <1>3, SeqDef
<1> QED
  BY <1>1, <1>4, CatalogAssumption

(* The insert of a product lists it.                                        *)
LEMMA InsertIsList ==
    ASSUME IInv, NEW c \in Calls, InsertProduct(c), job[c].want.category \in categories
    PROVE  Book!List(c)
<1> DEFINE w == job[c].want
           row == [price |-> w.price, rate |-> IF w.rate = Keep THEN 0 ELSE w.rate,
                   discount |-> Discount(w, w.price), stock |-> Stocked(c),
                   category |-> w.category]
<1>1. /\ pc[c] = "sizing" /\ job[c] \in Create /\ Resolved(c) /\ product[c] = Absent
      /\ w \in Offers /\ c \in Products
  BY JobTypes DEF InsertProduct, IInv, CallInv, Begun, Own, Job, Products
<1>2. product' = [product EXCEPT ![c] = row] /\ sizes' = sizes /\ referred' = referred
  BY DEF InsertProduct
<1>3. product'[c] = row /\ \A p \in Products : p # c => product'[p] = product[p]
  BY <1>1, <1>2 DEF IInv, TypeOK
<1>4. IInv'
  BY InsertStep
<1>5. Shown(row, sizes) = NamedOffer(w)
  BY <1>1, StockedNamed DEF Shown, NamedOffer, Entries
<1>6. row \notin {Absent, Gone}
  <2>1. /\ w.price \in Int /\ (w.rate # Keep => w.rate \in Int) /\ Discount(w, w.price) \in Int
        /\ w.category \in Categories
    BY <1>1, WantTypes, DiscountType, CatalogAssumption DEF Want
  <2>2. row \in Row
    BY <1>1, <2>1, StockedType DEF Row
  <2> QED
    BY <2>2, CatalogAssumption
<1> HIDE DEF row
<1>7. shelf[c] = Absent /\ shelf' = [shelf EXCEPT ![c] = NamedOffer(w)]
  <2>1. shelf[c] = Absent
    BY <1>1, ShelfTypes DEF Exists
  <2>2. Exists(c)' /\ shelf'[c] = NamedOffer(w)
    BY <1>1, <1>2, <1>3, <1>5, <1>6 DEF shelf, Exists
  <2>3. ASSUME NEW p \in Products, p # c PROVE shelf'[p] = shelf[p]
    BY <1>2, <1>3, <2>3 DEF shelf, Exists
  <2> QED
    BY <1>1, <2>1, <2>2, <2>3 DEF shelf
<1> QED
  BY <1>1, <1>2, <1>7 DEF Book!List, shelf

(* The commit of an update is an edit.                                      *)
LEMMA CommitIsEdit ==
    ASSUME IInv, NEW c \in Calls, CommitEdit(c), job[c] \in Update, Resolved(c), Exists(On(c))
    PROVE  Book!Edit(On(c))
<1> DEFINE p == On(c)
           w == job[c].want
           row == [price |-> IF w.price = Keep THEN product[p].price ELSE w.price,
                   rate |-> IF w.rate = Keep THEN product[p].rate ELSE w.rate,
                   discount |-> Discount(w, read[c]),
                   stock |-> IF w.stock = Keep THEN product[p].stock ELSE Stocked(c),
                   category |-> IF w.category = Keep THEN product[p].category ELSE w.category]
<1>1. p \in Products /\ w \in Edits /\ w \in Want
  BY JobTypes, WantTypes DEF Job
<1>2. product' = [product EXCEPT ![p] = row] /\ sizes' = sizes /\ referred' = referred
  BY DEF CommitEdit
<1>3. product'[p] = row /\ \A q \in Products : q # p => product'[q] = product[q]
  BY <1>1, <1>2 DEF IInv, TypeOK
<1>4. product[p] \in Row /\ shelf[p] = Shown(product[p], sizes) /\ shelf[p] \notin {Absent, Gone}
  BY <1>1, ShelfTypes
<1>5. row \notin {Absent, Gone}
  <2>1. /\ w.price # Keep => w.price \in Int
        /\ w.rate # Keep => w.rate \in Int
        /\ w.category # Keep => w.category \in Categories
        /\ Discount(w, read[c]) \in Int
    BY <1>1, DiscountType DEF Want, IInv, TypeOK
  <2>2. row \in Row
    BY <1>4, <2>1, StockedType DEF Row
  <2> QED
    BY <2>2, CatalogAssumption
<1>6. Shown(row, sizes) = Book!Edited(Shown(product[p], sizes), NamedEdit(w))
  <2>1. /\ NamedEdit(w).price = w.price /\ NamedEdit(w).rate = w.rate
        /\ NamedEdit(w).category = w.category
        /\ NamedEdit(w).stock = IF w.stock = Keep THEN Keep ELSE Named(w.stock)
    BY <1>1 DEF NamedEdit, Want
  <2>2. w.stock # Keep => Sized(Stocked(c), sizes) = Named(w.stock) /\ Named(w.stock) # Keep
    BY StockedNamed DEF Entries, Wanted
  <2> QED
    BY <2>1, <2>2 DEF Shown, Book!Edited
<1> HIDE DEF row
<1>7. shelf' = [shelf EXCEPT ![p] = Book!Edited(shelf[p], NamedEdit(w))]
  <2>1. shelf'[p] = Book!Edited(shelf[p], NamedEdit(w))
    BY <1>1, <1>2, <1>3, <1>4, <1>5, <1>6 DEF shelf, Exists
  <2>2. ASSUME NEW q \in Products, q # p PROVE shelf'[q] = shelf[q]
    BY <1>2, <1>3, <2>2 DEF shelf, Exists
  <2> QED
    BY <1>1, <2>1, <2>2 DEF shelf
<1> QED
  BY <1>1, <1>2, <1>4, <1>7 DEF Book!Edit, Book!Exists, shelf

(* The deletion of a product removes it.                                    *)
LEMMA DeletionIsRemove ==
    ASSUME IInv, NEW c \in Calls, DeleteProduct(c), product' # product
    PROVE  Book!Remove(On(c))
<1> DEFINE p == On(c)
<1>1. p \in Products /\ Exists(p) /\ p \notin referred
  BY JobTypes DEF DeleteProduct, IInv, CallInv, Begun, Job
<1>2. product' = [product EXCEPT ![p] = Gone] /\ sizes' = sizes /\ referred' = referred
  BY DEF DeleteProduct
<1>3. product'[p] = Gone /\ \A q \in Products : q # p => product'[q] = product[q]
  BY <1>1, <1>2 DEF IInv, TypeOK
<1>4. shelf' = [shelf EXCEPT ![p] = Gone]
  <2>1. shelf'[p] = Gone
    BY <1>1, <1>3 DEF shelf, Exists
  <2>2. ASSUME NEW q \in Products, q # p PROVE shelf'[q] = shelf[q]
    BY <1>2, <1>3, <2>2 DEF shelf, Exists
  <2> QED
    BY <1>1, <2>1, <2>2 DEF shelf
<1>5. shelf[p] \notin {Absent, Gone}
  BY <1>1, ShelfTypes
<1> QED
  BY <1>1, <1>2, <1>4, <1>5 DEF Book!Remove, Book!Exists, shelf

(* Every step is one of Shelf or leaves it as it is.                        *)
LEMMA StepIsShelf ==
    ASSUME IInv, [Next]_vars
    PROVE  [Book!Next]_<<shelf, referred>>
<1>1. ASSUME UNCHANGED <<product, sizes>> PROVE shelf' = shelf
  BY <1>1, ShelfKept
<1>2. ASSUME NEW c \in Calls, InsertProduct(c) PROVE Book!Next \/ UNCHANGED <<shelf, referred>>
  <2>1. CASE job[c].want.category \notin categories
    BY <1>1, <1>2, <2>1, RefusedInsert DEF rows
  <2>2. CASE job[c].want.category \in categories
    <3>1. c \in Products /\ Book!List(c)
      BY <1>2, <2>2, InsertIsList DEF Products
    <3> QED
      BY <3>1 DEF Book!Next, Book!List, Book!Edit, Book!Remove, Book!Refer, Book!Release
  <2> QED
    BY <2>1, <2>2
<1>3. ASSUME NEW c \in Calls, WriteProduct(c) \/ ReplaceStock(c) PROVE Book!Next \/ UNCHANGED <<shelf, referred>>
  <2>1. CASE UNCHANGED rows
    BY <1>1, <2>1 DEF rows
  <2>2. CASE ~ UNCHANGED rows
    <3>1. /\ CommitEdit(c) /\ Exists(On(c)) /\ Resolved(c) /\ job[c] \in Update
          /\ On(c) \in Products
      BY <1>3, <2>2, JobTypes DEF WriteProduct, ReplaceStock, IInv, CallInv, Begun, Job
    <3>2. Book!Edit(On(c))
      BY <3>1, CommitIsEdit
    <3> QED
      BY <3>1, <3>2 DEF Book!Next, Book!List, Book!Edit, Book!Remove, Book!Refer, Book!Release
  <2> QED
    BY <2>1, <2>2
<1>4. ASSUME NEW c \in Calls, DeleteProduct(c) PROVE Book!Next \/ UNCHANGED <<shelf, referred>>
  <2>1. CASE product' = product
    BY <1>1, <1>4, <2>1 DEF DeleteProduct
  <2>2. CASE product' # product
    <3>1. On(c) \in Products /\ Book!Remove(On(c))
      BY <1>4, <2>2, DeletionIsRemove, JobTypes DEF DeleteProduct, IInv, CallInv, Begun, Job
    <3> QED
      BY <3>1 DEF Book!Next, Book!List, Book!Edit, Book!Remove, Book!Refer, Book!Release
  <2> QED
    BY <2>1, <2>2
<1>5. ASSUME NEW c \in Calls, NEW k \in Index, LookupId(c, k) \/ LookupName(c, k) \/ CreateSize(c, k)
      PROVE  UNCHANGED <<shelf, referred>>
  <2>1. product' = product /\ referred' = referred
    BY <1>5 DEF LookupId, LookupName, CreateSize, Take, Refuse, Branch
  <2>2. sizes' = sizes \/ (sizes[<<c, k>>] = NoSize /\ sizes' = [sizes EXCEPT ![<<c, k>>] = Name(c, k)])
    BY <1>5 DEF LookupId, LookupName, CreateSize, Take, Refuse, Branch, IInv, CallInv, BranchInv
  <2>3. \A s \in SizeIds : sizes[s] # NoSize => sizes'[s] = sizes[s]
    BY <2>2 DEF IInv, TypeOK
  <2> QED
    BY <2>1, <2>3, ShelfKept
<1>6. ASSUME NEW c \in Calls,
             \/ BeginCreate(c) \/ BeginUpdate(c) \/ BeginRemove(c) \/ ResolveCategory(c)
             \/ Reread(c) \/ DeleteStock(c) \/ DeadlockAbort(c) \/ Fail(c)
      PROVE  UNCHANGED <<product, sizes, referred>>
  BY <1>6 DEF BeginCreate, BeginUpdate, BeginRemove, Begin, ResolveCategory, Reread, DeleteStock,
      DeadlockAbort, Fail,
      Refuse, Branch, rows
<1>7. ASSUME NEW p \in Products, Refer(p) \/ Release(p) PROVE Book!Next
  <2>1. shelf' = shelf
    BY <1>1, <1>7 DEF Refer, Release
  <2>2. Refer(p) => shelf[p] \notin {Absent, Gone}
    BY ShelfTypes DEF Refer
  <2>3. Book!Refer(p) \/ Book!Release(p)
    BY <1>7, <2>1, <2>2 DEF Refer, Release, Book!Refer, Book!Release, Book!Exists, shelf
  <2> QED
    BY <2>3 DEF Book!Next, Book!List, Book!Edit, Book!Remove, Book!Refer, Book!Release
<1>8. ASSUME UNCHANGED vars PROVE UNCHANGED <<product, sizes, referred>>
  BY <1>8 DEF vars, rows
<1> QED
  BY <1>1, <1>2, <1>3, <1>4, <1>5, <1>6, <1>7, <1>8 DEF Next, Rest, Proceed

(* Catalog implements Shelf: a product is listed, edited and removed in one *)
(* step, and stays while an order or a cart refers to it.                   *)
THEOREM CatalogShelvesWhole == Spec => ShelvesWhole
<1>1. Init => Book!Init
  <2> SUFFICES ASSUME Init PROVE Book!Init
    OBVIOUS
  <2>1. ASSUME NEW p \in DOMAIN Listed
        PROVE  p \notin Calls /\ product[p] = Listed[p] /\ Listed[p] \notin {Absent, Gone}
               /\ Shown(Listed[p], sizes) = Shown(Listed[p], Asks)
    <3>1. Listed[p] \in Row /\ \A k \in DOMAIN Listed[p].stock : Listed[p].stock[k].size \in Seeds
      BY ListedAssumption
    <3>2. \A s \in Seeds : sizes[s] = Asks[s]
      BY DEF Init, SizeIds
    <3>3. Sized(Listed[p].stock, sizes) = Sized(Listed[p].stock, Asks)
      BY <3>1, <3>2 DEF Sized
    <3>4. p \notin Calls /\ product[p] = Listed[p]
      BY CatalogAssumption DEF Init, Products
    <3> QED
      BY <3>1, <3>3, <3>4, CatalogAssumption DEF Shown
  <2>2. ASSUME NEW p \in Products
        PROVE  shelf[p] = IF p \in Calls THEN Absent ELSE Shown(Listed[p], Asks)
    BY <2>1 DEF Init, Products, shelf, Exists
  <2>3. shelf = [p \in Products |-> IF p \in Calls THEN Absent ELSE Shown(Listed[p], Asks)]
    BY <2>2 DEF shelf
  <2> QED
    BY <2>3 DEF Init, Book!Init, shelf
<1>2. IInv /\ [Next]_vars => [Book!Next]_<<shelf, referred>>
  BY StepIsShelf
<1> QED
  BY <1>1, <1>2, Invariance, PTL DEF Spec, ShelvesWhole, Book!Spec, Book!vars, shelf
================================================================================
