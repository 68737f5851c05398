---------------------------- MODULE PurchasesProofs ----------------------------
(***************************************************************************)
(* Theorems about Purchases for any set of requests, orders and reviews and*)
(* any size of the pages.                                                  *)
(***************************************************************************)
EXTENDS Purchases, FiniteSetTheorems, TLAPS

USE DEF Goto

--------------------------------------------------------------------------------
(* The inductive invariant.  What a request is, from where it is.           *)
Begun(c) ==
    /\ pc[c] \in {"checking", "inserting"} => job[c] \in Create
    /\ pc[c] = "editing" => job[c] \in Edit
    /\ pc[c] = "removing" => job[c] \in Remove
    /\ pc[c] \in {"reading", "counting"} => job[c] \in Walk
    /\ pc[c] \notin {"idle", "rejected"} => job[c] \in Job

(* A review is there when its request has ended, and is its buyer's.        *)
Written(c) ==
    /\ Exists(c) => pc[c] = "done" /\ job[c] \in Create /\ row[c].buyer = job[c].buyer
    /\ pc[c] \notin Final => row[c] = Absent
    /\ pc[c] \in {"idle", "checking"} => older[c] = {}
    /\ pc[c] = "inserting" => older[c] # {}

(* A review was let in when no other of its buyer was there: those that     *)
(* were are others', and the ones from before are among them.               *)
Alone(c) ==
    pc[c] = "inserting" \/ Exists(c) =>
        /\ \A r \in earlier[c] : row[r] # Absent
        /\ \A r \in earlier[c] : Exists(r) => row[r].buyer # job[c].buyer
        /\ \A s \in Seeds : Exists(s) => s \in earlier[c]

SeedsApart ==
    \A r, s \in Seeds : Exists(r) /\ Exists(s) /\ row[r].buyer = row[s].buyer => r = s

(* An edit that nobody has overtaken holds what is in the row.              *)
UpToDate(c) ==
    pc[c] = "editing" =>
        /\ row[job[c].id] # Absent
        /\ c \in outrun \/ row[job[c].id] = Gone \/ row[job[c].id].form = job[c].read

(* Every row has a place in one order of creation.                          *)
InOrder ==
    /\ \A x \in Ids : row[x] # Absent => older[x] # {}
    /\ \A x \in Ids : older[x] # {} => x \in older[x]
    /\ \A x \in Ids : \A y \in older[x] : older[y] # {} /\ older[y] \subseteq older[x]
    /\ \A x, y \in Ids : older[x] # {} /\ older[y] # {} => x \in older[y] \/ y \in older[x]
    /\ \A x, y \in Ids : x \in older[y] /\ y \in older[x] => x = y

(* What a walk has still to show is on the pages to come.                   *)
Walking(c) == pc[c] \in {"reading", "counting"}

Ahead(c) ==
    /\ Walking(c) => job[c].page > 0 /\ due[c] \subseteq Listed(c)
    /\ pc[c] = "reading" => \A x \in due[c] \ shown[c] :
            Cardinality(Newer(c, x)) >= (job[c].page - 1) * Limit
    /\ pc[c] = "counting" => \A x \in due[c] \ shown[c] :
            Cardinality(Newer(c, x)) >= job[c].page * Limit
    /\ pc[c] = "counting" => job[c].items <= Limit
    /\ pc[c] = "done" /\ job[c].kind = "walk" => due[c] \subseteq shown[c]

CallInv(c) == Begun(c) /\ Written(c) /\ Alone(c) /\ UpToDate(c) /\ Ahead(c)

IInv ==
    /\ TypeOK
    /\ SeedsApart
    /\ InOrder
    /\ \A c \in Calls : CallInv(c)

--------------------------------------------------------------------------------
(* Of a step: rows come where nothing was, keep their buyer and go for good,*)
(* and a place in the order is kept.                                        *)
Moves ==
    /\ \A x \in Ids : Exists(x)' => row[x] = Absent \/ (Exists(x) /\ row'[x].buyer = row[x].buyer)
    /\ \A x \in Ids : row[x] # Absent => row'[x] # Absent
    /\ \A s \in Seeds : row[s] = Absent => row'[s] = Absent
    /\ \A x \in Ids : older[x] # {} => older'[x] = older[x]
    /\ outrun \subseteq outrun'

(* Of a step and a request it is not a step of.                             *)
Keeps(d) ==
    /\ pc'[d] = pc[d] /\ job'[d] = job[d] /\ shown'[d] = shown[d] /\ earlier'[d] = earlier[d]
    /\ row[d] = Absent => row'[d] = Absent
    /\ older[d] = {} => older'[d] = {}
    /\ pc[d] = "editing" =>
          \/ row'[job[d].id] = row[job[d].id]
          \/ row'[job[d].id] = Gone
          \/ d \in outrun'
    /\ due'[d] \subseteq due[d]
    /\ \A x \in due'[d], y \in Ids : Exists(y) /\ x \in older[y] => Exists(y)'

LEMMA JobTypes ==
    ASSUME NEW j
    PROVE  /\ j \in Create => j \in Job /\ j.kind = "create" /\ j.buyer \in Buyers
           /\ j \in Edit => j \in Job /\ j.kind = "edit" /\ j.id \in Ids /\ j.sent \in SUBSET Fields /\ j.read \in Form
           /\ j \in Remove => j \in Job /\ j.kind = "remove" /\ j.id \in Reviews
           /\ j \in Walk => j \in Job /\ j.kind = "walk" /\ j.table \in {Orders, Reviews}
                            /\ j.whose \in SUBSET Buyers /\ j.page \in Nat /\ j.items \in Nat
BY DEF Job, Create, Edit, Remove, Walk

LEMMA RowTypes ==
    ASSUME TypeOK
    PROVE  /\ \A x \in Ids : Exists(x) => row[x] \in Row /\ row[x].buyer \in Buyers /\ row[x].form \in Form
           /\ Seeds \subseteq Reviews /\ Calls \subseteq Reviews /\ Reviews \subseteq Ids /\ Orders \subseteq Ids
BY DEF TypeOK, Exists, Row, Reviews, Ids

LEMMA Finite ==
    ASSUME NEW S \in SUBSET Ids, NEW T \in SUBSET S
    PROVE  /\ IsFiniteSet(S) /\ Cardinality(S) \in Nat /\ Cardinality(T) \in Nat
           /\ Cardinality(T) <= Cardinality(S)
<1>1. IsFiniteSet(S)
  BY PurchasesAssumption, FS_Subset
<1>2. IsFiniteSet(T) /\ Cardinality(T) <= Cardinality(S)
  BY <1>1, FS_Subset
<1> QED
  BY <1>1, <1>2, FS_CardinalityType

(* Nothing a walk has still to show comes to an earlier page.               *)
LEMMA AheadKept ==
    ASSUME TypeOK, TypeOK', InOrder, Moves, NEW d \in Calls, Keeps(d), Begun(d), Ahead(d)
    PROVE  Ahead(d)'
<1>1. CASE Walking(d)
  <2>1. job[d] \in Walk /\ job[d].page \in Nat /\ due[d] \subseteq Listed(d)
    BY <1>1, JobTypes DEF Begun, Walking, Ahead
  <2>2. ASSUME NEW y \in Listed(d), NEW x \in due'[d], x \in older[y] PROVE y \in Listed(d)'
    <3>1. y \in Ids /\ Exists(y) /\ y \in job[d].table /\ row[y].buyer \in job[d].whose
      BY <2>2 DEF Listed, List, Existing
    <3>2. Exists(y)' /\ row'[y].buyer = row[y].buyer
      BY <3>1, <2>2 DEF Keeps, Moves, Exists
    <3> QED
      BY <3>1, <3>2 DEF Listed, List, Existing, Keeps
  <2>3. ASSUME NEW x \in due'[d] PROVE x \in Listed(d)' /\ Newer(d, x) \subseteq Newer(d, x)'
    <3>1. x \in due[d] /\ x \in Listed(d) /\ x \in Ids /\ x \in older[x]
      BY <2>1, <2>3 DEF Keeps, Listed, List, Existing, InOrder, Exists
    <3>2. ASSUME NEW y \in Newer(d, x) PROVE y \in Newer(d, x)'
      <4>1. y \in Listed(d) /\ x \in older[y] /\ y \in Ids /\ y # x
        BY <3>2 DEF Newer, Listed, List, Existing
      <4>2. older'[y] = older[y]
        BY <4>1 DEF Moves
      <4> QED
        BY <4>1, <4>2, <2>2, <2>3 DEF Newer
    <3> QED
      BY <3>1, <3>2, <2>2, <2>3
  <2>4. ASSUME NEW x \in due'[d]
        PROVE /\ Cardinality(Newer(d, x)) \in Nat /\ Cardinality(Newer(d, x)') \in Nat
              /\ Cardinality(Newer(d, x)) <= Cardinality(Newer(d, x)')
    <3>1. Newer(d, x)' \subseteq Ids
      BY DEF Newer, Listed, List, Existing
    <3> QED
      BY <3>1, <2>3, <2>4, Finite
  <2>7. pc'[d] = pc[d] /\ job'[d] = job[d] /\ shown'[d] = shown[d] /\ due'[d] \subseteq due[d]
    BY DEF Keeps
  <2>8. (job[d].page - 1) * Limit \in Int /\ job[d].page * Limit \in Int
    BY <2>1, PurchasesAssumption
  <2>9. ASSUME pc[d] = "reading", NEW x \in due'[d] \ shown[d]
        PROVE  Cardinality(Newer(d, x)') >= (job[d].page - 1) * Limit
    BY <2>4, <2>7, <2>8, <2>9 DEF Ahead
  <2>10. ASSUME pc[d] = "counting", NEW x \in due'[d] \ shown[d]
        PROVE  Cardinality(Newer(d, x)') >= job[d].page * Limit
    BY <2>4, <2>7, <2>8, <2>10 DEF Ahead
  <2>11. due'[d] \subseteq Listed(d)'
    BY <2>3
  <2> QED
    BY <1>1, <2>7, <2>9, <2>10, <2>11 DEF Ahead, Walking
<1>2. CASE ~ Walking(d)
  BY <1>2 DEF Ahead, Walking, Keeps
<1> QED
  BY <1>1, <1>2

LEMMA CallKept ==
    ASSUME IInv, TypeOK', Moves, NEW d \in Calls, Keeps(d)
    PROVE  CallInv(d)'
<1>1. CallInv(d) /\ TypeOK /\ InOrder /\ d \in Ids
  BY RowTypes DEF IInv
<1>2. Begun(d)' /\ Written(d)'
  BY <1>1 DEF CallInv, Begun, Written, Keeps, Moves, Exists
<1>3. Alone(d)'
  <2>1. \A r \in earlier[d] : r \in Ids
    BY <1>1, RowTypes DEF TypeOK
  <2>2. \A s \in Seeds : s \in Ids
    BY <1>1, RowTypes
  <2> QED
    BY <1>1, <2>1, <2>2 DEF CallInv, Alone, Keeps, Moves, Exists
<1>4. UpToDate(d)'
  BY <1>1, JobTypes DEF CallInv, UpToDate, Begun, Keeps, Moves
<1>5. Ahead(d)'
  BY <1>1, AheadKept DEF CallInv
<1> QED
  BY <1>2, <1>3, <1>4, <1>5 DEF CallInv

--------------------------------------------------------------------------------
(* Pages.                                                                   *)
LEMMA Division ==
    ASSUME NEW n \in Nat, NEW k \in Nat, NEW m \in Nat \ {0}
    PROVE  /\ n \div m = k => k * m <= n /\ n < k * m + m
           /\ n >= k * m /\ n \div m # k => n >= (k + 1) * m
<1>1. n \div m \in Nat /\ m * (n \div m) <= n /\ n < m * (n \div m) + m
  BY SMT
<1>2. n \div m = k => k * m <= n /\ n < k * m + m
  BY <1>1
<1>3. ASSUME n >= k * m, n \div m # k PROVE n >= (k + 1) * m
  <2> DEFINE q == n \div m
  <2>1. q \in Nat /\ m * q <= n /\ n < m * q + m
    BY <1>1
  <2> HIDE DEF q
  <2>2. CASE q < k
    <3>1. q + 1 <= k
      BY <2>1, <2>2
    <3>2. m * (q + 1) <= m * k
      BY <3>1, <2>1
    <3> QED
      BY <3>2, <2>1, <1>3
  <2>3. CASE q > k
    <3>1. k + 1 <= q
      BY <2>1, <2>3
    <3>2. m * (k + 1) <= m * q
      BY <3>1, <2>1
    <3> QED
      BY <3>2, <2>1
  <2>4. q # k
    BY <1>3 DEF q
  <2> QED
    BY <2>1, <2>2, <2>3, <2>4
<1> QED
  BY <1>2, <1>3

(* No two rows of a list have the same number of newer ones.                *)
LEMMA RanksApart ==
    ASSUME TypeOK, InOrder, NEW c \in Calls, NEW x \in Listed(c), NEW y \in Listed(c), x # y,
           Cardinality(Newer(c, x)) = Cardinality(Newer(c, y))
    PROVE  FALSE
<1>1. Listed(c) \subseteq Ids /\ \A z \in Listed(c) : older[z] # {}
  BY DEF Listed, List, Existing, Exists, InOrder
<1>2. ASSUME NEW u \in Listed(c), NEW v \in Listed(c), u # v, u \in older[v]
      PROVE  Cardinality(Newer(c, v)) < Cardinality(Newer(c, u))
  <2>1. Newer(c, v) \cup {v} \subseteq Newer(c, u)
    BY <1>1, <1>2 DEF Newer, InOrder
  <2>2. v \notin Newer(c, v) /\ Newer(c, u) \in SUBSET Ids /\ Newer(c, v) \in SUBSET Ids
    BY <1>1 DEF Newer
  <2>3. IsFiniteSet(Newer(c, v)) /\ Cardinality(Newer(c, v)) \in Nat
    BY <2>2, Finite
  <2>4. Cardinality(Newer(c, v) \cup {v}) = Cardinality(Newer(c, v)) + 1
    BY <2>2, <2>3, FS_AddElement
  <2>5. Cardinality(Newer(c, v) \cup {v}) <= Cardinality(Newer(c, u)) /\ Cardinality(Newer(c, u)) \in Nat
    BY <2>1, <2>2, Finite
  <2> QED
    BY <2>3, <2>4, <2>5
<1>3. x \in older[y] \/ y \in older[x]
  BY <1>1 DEF InOrder
<1>4. Cardinality(Newer(c, x)) \in Nat
  BY <1>1, Finite DEF Newer
<1> QED
  BY <1>2, <1>3, <1>4

Items(c) ==
    {id \in Listed(c) : Cardinality(Newer(c, id)) \div Limit = job[c].page - 1}

LEMMA PageFits ==
    ASSUME TypeOK, InOrder, NEW c \in Calls, job[c].page \in Nat \ {0}
    PROVE  Cardinality(Items(c)) \in Nat /\ Cardinality(Items(c)) <= Limit
<1> DEFINE first == (job[c].page - 1) * Limit
           last == first + Limit - 1
           rank == [x \in Items(c) |-> Cardinality(Newer(c, x))]
<1>1. job[c].page - 1 \in Nat /\ first \in Nat /\ last \in Int
  BY PurchasesAssumption
<1>2. Items(c) \subseteq Listed(c) /\ Listed(c) \subseteq Ids
  BY DEF Items, Listed, List, Existing
<1>3. ASSUME NEW x \in Items(c) PROVE Cardinality(Newer(c, x)) \in first..last
  <2>1. Cardinality(Newer(c, x)) \in Nat
    BY <1>2, Finite DEF Newer
  <2>2. Cardinality(Newer(c, x)) \div Limit = job[c].page - 1
    BY DEF Items
  <2>3. first <= Cardinality(Newer(c, x)) /\ Cardinality(Newer(c, x)) < first + Limit
    BY <2>1, <2>2, <1>1, Division, PurchasesAssumption
  <2> HIDE DEF first
  <2> QED
    BY <2>1, <2>3, <1>1, PurchasesAssumption
<1>4. rank \in Injection(Items(c), first..last)
  <2>1. rank \in [Items(c) -> first..last]
    BY <1>3
  <2>2. ASSUME NEW x \in Items(c), NEW y \in Items(c), rank[x] = rank[y] PROVE x = y
    BY <2>2, <1>2, RanksApart
  <2> QED
    BY <2>1, <2>2 DEF Injection, IsInjective
<1> HIDE DEF rank
<1>8. last = first + Limit - 1 /\ first <= last /\ last - first + 1 = Limit
  BY <1>1, PurchasesAssumption
<1> HIDE DEF first, last
<1>5. IsFiniteSet(first..last) /\ Cardinality(first..last) = Limit
  BY <1>1, <1>8, FS_Interval
<1>6. Cardinality(Items(c)) <= Cardinality(first..last)
  BY <1>4, <1>5, FS_Injection
<1>7. Cardinality(Items(c)) \in Nat
  BY <1>2, Finite
<1> QED
  BY <1>5, <1>6, <1>7

(* What a page leaves out and is not before it comes after it.              *)
LEMMA PageShown ==
    ASSUME NEW c \in Calls, job[c].page \in Nat \ {0}, NEW x \in Listed(c), x \notin Items(c),
           Cardinality(Newer(c, x)) >= (job[c].page - 1) * Limit
    PROVE  Cardinality(Newer(c, x)) >= job[c].page * Limit
<1>1. Cardinality(Newer(c, x)) \in Nat
  BY Finite DEF Newer, Listed, List, Existing
<1>2. Cardinality(Newer(c, x)) \div Limit # job[c].page - 1
  BY DEF Items
<1>3. job[c].page - 1 \in Nat /\ (job[c].page - 1) + 1 = job[c].page
  OBVIOUS
<1>4. Cardinality(Newer(c, x)) >= ((job[c].page - 1) + 1) * Limit
  BY <1>1, <1>2, <1>3, Division, PurchasesAssumption
<1> QED
  BY <1>3, <1>4

(* The count leads on to a row that is still to come.                       *)
LEMMA MoreLeft ==
    ASSUME TypeOK, InOrder, NEW c \in Calls, job[c] \in Walk, job[c].page > 0, job[c].items <= Limit,
           NEW x \in Listed(c), Cardinality(Newer(c, x)) >= job[c].page * Limit
    PROVE  More(c)
<1>1. Listed(c) \in SUBSET Ids /\ Newer(c, x) \cup {x} \in SUBSET Listed(c) /\ x \notin Newer(c, x)
  BY DEF Newer, Listed, List, Existing
<1>2. IsFiniteSet(Newer(c, x)) /\ Cardinality(Newer(c, x)) \in Nat
  BY <1>1, Finite
<1>3. Cardinality(Newer(c, x) \cup {x}) = Cardinality(Newer(c, x)) + 1
  BY <1>1, <1>2, FS_AddElement
<1>4. Cardinality(Newer(c, x) \cup {x}) <= Cardinality(Listed(c)) /\ Cardinality(Listed(c)) \in Nat
  BY <1>1, Finite
<1>5. job[c].page \in Nat /\ job[c].items \in Nat /\ job[c].page * Limit \in Nat
  BY JobTypes, PurchasesAssumption
<1>6. job[c].page * Limit < Cardinality(Listed(c))
  BY <1>2, <1>3, <1>4, <1>5
<1>7. (job[c].page - 1) * Limit + Limit = job[c].page * Limit
  BY <1>5, PurchasesAssumption
<1>8. (job[c].page - 1) * Limit \in Int
  BY <1>5, PurchasesAssumption
<1>9. (job[c].page - 1) * Limit + job[c].items <= job[c].page * Limit
  BY <1>5, <1>7, <1>8, PurchasesAssumption
<1>10. (job[c].page - 1) * Limit + job[c].items < Cardinality(Listed(c))
  BY <1>4, <1>5, <1>6, <1>8, <1>9
<1> QED
  BY <1>6, <1>10 DEF More

--------------------------------------------------------------------------------
(* The invariant, step by step.                                             *)
LEMMA InitInv ==
    ASSUME Init PROVE IInv
<1>1. TypeOK
  <2>1. row \in [Ids -> Row \cup {Absent, Gone}]
    BY DEF Init, Fresh, Row, Form, Texts
  <2>2. older \in [Ids -> SUBSET Ids]
    BY DEF Init, Existing
  <2> QED
    BY <2>1, <2>2 DEF Init, TypeOK, PC
<1>2. SeedsApart
  BY DEF Init, SeedsApart, ReviewsOf, Existing, Ids, Reviews
<1>3. InOrder
  <2>1. PICK rank \in [Existing -> 1..Cardinality(Existing)] :
          /\ \A x, y \in Existing : rank[x] = rank[y] => x = y
          /\ older = [x \in Ids |-> IF x \in Existing
                                    THEN {y \in Existing : rank[y] <= rank[x]} ELSE {}]
    BY DEF Init
  <2>2. \A x \in Existing : rank[x] \in Int
    BY <2>1
  <2>3. \A x \in Ids : row[x] # Absent => x \in Existing
    BY PurchasesAssumption DEF Init, Existing, Exists, Fresh, Row, Form, Texts
  <2>4. \A x \in Ids : x \in Existing => older[x] = {y \in Existing : rank[y] <= rank[x]}
    BY <2>1
  <2>5. \A x \in Ids : x \notin Existing => older[x] = {}
    BY <2>1
  <2>6. Existing \subseteq Ids
    BY DEF Existing
  <2>7. \A x \in Existing : x \in older[x]
    BY <2>2, <2>4, <2>6
  <2> QED
    BY <2>1, <2>2, <2>3, <2>4, <2>5, <2>6, <2>7 DEF InOrder
<1>4. ASSUME NEW c \in Calls PROVE CallInv(c)
  <2>1. pc[c] = "idle" /\ row[c] = Absent /\ c \in Ids /\ due[c] = {}
    BY DEF Init, Ids, Reviews
  <2>2. older[c] = {}
    BY <2>1 DEF Init, Existing, Exists
  <2> QED
    BY <2>1, <2>2 DEF CallInv, Begun, Written, Alone, UpToDate, Ahead, Walking, Exists, Final
<1> QED
  BY <1>1, <1>2, <1>3, <1>4 DEF IInv

LEMMA OrderKept ==
    ASSUME InOrder, UNCHANGED older,
           \A x \in Ids : row'[x] # Absent => row[x] # Absent \/ older[x] # {}
    PROVE  InOrder'
BY DEF InOrder

LEMMA OrderStamped ==
    ASSUME TypeOK, InOrder, UNCHANGED row, NEW id \in Ids, older[id] = {}, Stamp(id)
    PROVE  InOrder'
<1>1. older'[id] = Stamped \cup {id} /\ \A x \in Ids \ {id} : older'[x] = older[x]
  BY DEF Stamp, TypeOK
<1>2. Stamped \subseteq Ids /\ id \notin Stamped
  BY DEF Stamped
<1>3. \A x \in Ids : older[x] \subseteq Stamped /\ id \notin older[x]
  BY <1>2 DEF InOrder, Stamped, TypeOK
<1>4. \A x \in Ids : older'[x] # {} => x \in older'[x]
  BY <1>1 DEF InOrder
<1>5. \A x \in Ids : \A y \in older'[x] : older'[y] # {} /\ older'[y] \subseteq older'[x]
  <2> SUFFICES ASSUME NEW x \in Ids, NEW y \in older'[x]
               PROVE  older'[y] # {} /\ older'[y] \subseteq older'[x]
    OBVIOUS
  <2>1. CASE x # id
    BY <2>1, <1>1, <1>2, <1>3 DEF InOrder
  <2>2. CASE x = id /\ y = id
    BY <2>2, <1>1
  <2>3. CASE x = id /\ y # id
    BY <2>3, <1>1, <1>2, <1>3 DEF Stamped
  <2> QED
    BY <2>1, <2>2, <2>3
<1>6. \A x, y \in Ids : older'[x] # {} /\ older'[y] # {} => x \in older'[y] \/ y \in older'[x]
  BY <1>1, <1>2 DEF InOrder, Stamped
<1>7. \A x, y \in Ids : x \in older'[y] /\ y \in older'[x] => x = y
  BY <1>1, <1>3 DEF InOrder
<1>8. \A x \in Ids : row'[x] # Absent => older'[x] # {}
  BY <1>1 DEF InOrder
<1> QED
  BY <1>4, <1>5, <1>6, <1>7, <1>8 DEF InOrder

LEMMA Together ==
    ASSUME IInv, TypeOK', InOrder', Moves, NEW c \in Calls, \A d \in Calls \ {c} : Keeps(d), CallInv(c)'
    PROVE  IInv'
<1>1. \A d \in Calls \ {c} : CallInv(d)'
  BY CallKept
<1>2. SeedsApart'
  <2>1. Seeds \subseteq Ids
    BY DEF Ids, Reviews
  <2> QED
    BY <2>1 DEF IInv, SeedsApart, Moves, Exists
<1>3. \A d \in Calls : CallInv(d)'
  BY <1>1
<1> QED
  BY <1>2, <1>3 DEF IInv

LEMMA AllTogether ==
    ASSUME IInv, TypeOK', InOrder', Moves, \A d \in Calls : Keeps(d)
    PROVE  IInv'
<1>1. \A d \in Calls : CallInv(d)'
  BY CallKept
<1>2. SeedsApart'
  <2>1. Seeds \subseteq Ids
    BY DEF Ids, Reviews
  <2> QED
    BY <2>1 DEF IInv, SeedsApart, Moves, Exists
<1> QED
  BY <1>1, <1>2 DEF IInv

(* Steps that leave the tables alone.                                       *)
LEMMA StillMoves ==
    ASSUME UNCHANGED <<row, older, outrun>> PROVE Moves
BY DEF Moves, Exists

LEMMA StillKeeps ==
    ASSUME UNCHANGED <<row, older, outrun, earlier>>, NEW d \in Calls,
           pc'[d] = pc[d], job'[d] = job[d], shown'[d] = shown[d], due'[d] = due[d]
    PROVE  Keeps(d)
BY DEF Keeps, Exists

LEMMA StampOrderInv ==
    ASSUME IInv, NEW o \in Orders, StampOrder(o) PROVE IInv'
<1> USE DEF StampOrder, Stamp
<1>1. o \in Ids /\ o \notin Calls
  BY PurchasesAssumption DEF Ids, Reviews
<1>2. TypeOK'
  BY <1>1 DEF IInv, TypeOK, Stamped
<1>3. InOrder'
  BY <1>1, OrderStamped DEF IInv
<1>4. Moves
  BY <1>1 DEF Moves, Exists, IInv, TypeOK
<1>5. \A d \in Calls : Keeps(d)
  BY <1>1 DEF Keeps, Exists, IInv, TypeOK
<1> QED
  BY <1>2, <1>3, <1>4, <1>5, AllTogether

LEMMA PlaceOrderInv ==
    ASSUME IInv, NEW o \in Orders, PlaceOrder(o) PROVE IInv'
<1> USE DEF PlaceOrder
<1>1. o \in Ids /\ o \notin Calls /\ o \notin Seeds
  BY PurchasesAssumption DEF Ids, Reviews
<1>2. \A b \in Buyers : Fresh(b) \in Row
  BY DEF Fresh, Row, Form, Texts
<1>3. TypeOK' /\ row'[o] # Absent /\ \A x \in Ids \ {o} : row'[x] = row[x]
  BY <1>1, <1>2, PurchasesAssumption DEF IInv, TypeOK
<1>4. InOrder'
  BY <1>1, <1>3, OrderKept DEF IInv
<1>5. Moves
  BY <1>1, <1>3 DEF Moves, Exists
<1>6. ASSUME NEW d \in Calls PROVE Keeps(d)
  <2>1. d \in Ids /\ d # o
    BY <1>1 DEF Ids, Reviews
  <2>2. pc[d] = "editing" => row'[job[d].id] = row[job[d].id]
    BY <1>1, <1>3, JobTypes DEF IInv, CallInv, UpToDate, Begun
  <2>3. \A y \in Ids : Exists(y) => Exists(y)'
    BY <1>1, <1>3 DEF Exists
  <2> QED
    BY <1>3, <2>1, <2>2, <2>3 DEF Keeps
<1> QED
  BY <1>3, <1>4, <1>5, <1>6, AllTogether

LEMMA BeginCreateInv ==
    ASSUME IInv, NEW c \in Calls, BeginCreate(c) PROVE IInv'
<1> USE DEF BeginCreate, Begin, records
<1>1. PICK b \in Buyers : job' = [job EXCEPT ![c] = [kind |-> "create", buyer |-> b]]
  BY DEF BeginCreate
<1>2. [kind |-> "create", buyer |-> b] \in Create
  BY DEF Create
<1>3. TypeOK'
  BY <1>1, <1>2 DEF IInv, TypeOK, PC, Active, Final, Job
<1>4. pc'[c] \in {"checking", "rejected"} /\ job'[c] \in Create /\ job'[c].kind = "create"
  BY <1>1, <1>2 DEF IInv, TypeOK
<1>5. InOrder' /\ Moves
  BY OrderKept, StillMoves DEF IInv
<1>6. \A d \in Calls \ {c} : Keeps(d)
  BY <1>3, StillKeeps DEF IInv, TypeOK
<1>7. row'[c] = Absent /\ older'[c] = {} /\ c \in Ids
  BY DEF IInv, CallInv, Written, Final, Ids, Reviews
<1>8. CallInv(c)'
  BY <1>4, <1>7 DEF CallInv, Begun, Written, Alone, UpToDate, Ahead, Walking, Exists, Job, Final
<1> QED
  BY <1>3, <1>5, <1>6, <1>8, Together

LEMMA CheckReviewInv ==
    ASSUME IInv, NEW c \in Calls, CheckReview(c) PROVE IInv'
<1> USE DEF CheckReview
<1>1. c \in Ids /\ job[c] \in Create /\ job[c].buyer \in Buyers /\ job[c] \in Job /\ job[c].kind = "create"
       /\ row[c] = Absent /\ older[c] = {} /\ pc[c] = "checking"
  BY JobTypes DEF IInv, CallInv, Begun, Written, Final, Ids, Reviews
<1>2. CASE ReviewsOf(job[c].buyer) = {}
  <2>1. LetIn(c) /\ Stamp(c) /\ earlier' = [earlier EXCEPT ![c] = Existing \cap Reviews]
    BY <1>2 DEF LetIn
  <2> USE DEF LetIn
  <2>2. TypeOK'
    BY <2>1, <1>1 DEF IInv, TypeOK, Stamp, Stamped, PC, Active, Existing
  <2>3. InOrder'
    BY <2>1, <1>1, OrderStamped DEF IInv
  <2>4. Moves
    BY <2>1, <1>1 DEF Moves, Exists, IInv, TypeOK, Stamp
  <2>5. \A d \in Calls \ {c} : Keeps(d)
    BY <2>1 DEF Keeps, Exists, IInv, TypeOK, Stamp
  <2>6. pc'[c] = "inserting" /\ older'[c] # {} /\ earlier'[c] = Existing \cap Reviews
    BY <2>1, <1>1 DEF IInv, TypeOK, Stamp
  <2>7. \A r \in Existing \cap Reviews : Exists(r) /\ row[r].buyer # job[c].buyer
    BY <1>2 DEF ReviewsOf, Existing
  <2>8. \A s \in Seeds : Exists(s) => s \in Existing \cap Reviews
    BY DEF Existing, Reviews, Ids
  <2>9. Alone(c)'
    BY <2>6, <2>7, <2>8 DEF Alone, Exists
  <2>10. CallInv(c)'
    BY <1>1, <2>6, <2>9 DEF CallInv, Begun, Written, UpToDate, Ahead, Walking, Exists, Job, Final
  <2> QED
    BY <2>2, <2>3, <2>4, <2>5, <2>10, Together
<1>3. CASE ReviewsOf(job[c].buyer) # {}
  <2>1. Goto(c, "rejected") /\ UNCHANGED <<older, earlier>>
    BY <1>3
  <2>2. TypeOK'
    BY <2>1, <1>1 DEF IInv, TypeOK, PC, Final
  <2>3. InOrder' /\ Moves
    BY <2>1, OrderKept, StillMoves DEF IInv
  <2>4. \A d \in Calls \ {c} : Keeps(d)
    BY <2>1, StillKeeps DEF IInv, TypeOK
  <2>5. pc'[c] = "rejected"
    BY <2>1 DEF IInv, TypeOK
  <2>6. CallInv(c)'
    BY <1>1, <2>1, <2>5 DEF CallInv, Begun, Written, Alone, UpToDate, Ahead, Walking, Exists, Job, Final
  <2> QED
    BY <2>2, <2>3, <2>4, <2>6, Together
<1> QED
  BY <1>2, <1>3

LEMMA WriteReviewInv ==
    ASSUME IInv, NEW c \in Calls, WriteReview(c) PROVE IInv'
<1> USE DEF WriteReview
<1> DEFINE new == [buyer |-> job[c].buyer, form |-> [f \in Fields |-> c]]
<1>1. c \in Ids /\ c \notin Orders /\ c \notin Seeds /\ job[c] \in Create /\ job[c].buyer \in Buyers
       /\ job[c] \in Job /\ job[c].kind = "create" /\ row[c] = Absent /\ older[c] # {} /\ pc[c] = "inserting"
  BY JobTypes, PurchasesAssumption DEF IInv, CallInv, Begun, Written, Final, Ids, Reviews
<1>2. new \in Row
  BY <1>1 DEF Row, Form, Texts
<1>3. TypeOK'
  BY <1>1, <1>2 DEF IInv, TypeOK, PC, Final
<1>4. row'[c] = new /\ \A x \in Ids \ {c} : row'[x] = row[x]
  BY <1>1 DEF IInv, TypeOK
<1>5. Exists(c)' /\ row'[c] # Absent /\ ~ Exists(c)
  BY <1>1, <1>2, <1>4, PurchasesAssumption DEF Exists
<1>6. InOrder' /\ Moves
  <2>1. InOrder'
    BY <1>1, <1>4, OrderKept DEF IInv
  <2>2. Moves
    BY <1>1, <1>4, <1>5 DEF Moves, Exists
  <2> QED
    BY <2>1, <2>2
<1>7. ASSUME NEW d \in Calls \ {c} PROVE Keeps(d)
  <2>1. d \in Ids /\ d # c /\ pc'[d] = pc[d]
    BY DEF Ids, Reviews, IInv, TypeOK
  <2>2. pc[d] = "editing" => row'[job[d].id] = row[job[d].id]
    BY <1>1, <1>4, JobTypes DEF IInv, CallInv, UpToDate, Begun
  <2>3. \A y \in Ids : Exists(y) => Exists(y)'
    BY <1>1, <1>4 DEF Exists
  <2> QED
    BY <1>4, <2>1, <2>2, <2>3 DEF Keeps
<1>8. CallInv(c)'
  <2>1. pc'[c] = "done" /\ row'[c].buyer = job[c].buyer
    BY <1>4 DEF IInv, TypeOK
  <2>2. Alone(c)'
    <3>1. Alone(c) /\ c \notin earlier[c]
      BY <1>1 DEF IInv, CallInv, Alone
    <3>2. \A r \in earlier[c] : r \in Ids \ {c}
      BY <3>1, RowTypes DEF IInv, TypeOK
    <3>3. \A s \in Seeds : s \in Ids \ {c}
      BY <1>1, RowTypes DEF IInv
    <3> QED
      BY <1>1, <1>4, <3>1, <3>2, <3>3 DEF Alone, Exists
  <2> QED
    BY <1>1, <1>5, <2>1, <2>2 DEF CallInv, Begun, Written, UpToDate, Ahead, Walking, Exists, Job, Final
<1> QED
  BY <1>3, <1>6, <1>7, <1>8, Together

(* An id that names no row: nothing changes.                                *)
LEMMA NotFoundInv ==
    ASSUME IInv, NEW c \in Calls, NotFound(c), UNCHANGED <<records, shown, earlier, outrun, due>>
    PROVE  IInv'
<1> USE DEF NotFound, records
<1>1. TypeOK' /\ pc'[c] = "rejected"
  BY DEF IInv, TypeOK, PC, Final
<1>2. InOrder' /\ Moves
  BY OrderKept, StillMoves DEF IInv
<1>3. \A d \in Calls \ {c} : Keeps(d)
  BY <1>1, StillKeeps DEF IInv, TypeOK
<1>4. row'[c] = Absent /\ older'[c] = {} /\ c \in Ids
  BY DEF IInv, CallInv, Written, Final, Ids, Reviews
<1>5. CallInv(c)'
  BY <1>1, <1>4 DEF CallInv, Begun, Written, Alone, UpToDate, Ahead, Walking, Exists, Final
<1> QED
  BY <1>1, <1>2, <1>3, <1>5, Together

LEMMA BeginEditInv ==
    ASSUME IInv, NEW c \in Calls, BeginEdit(c), ~ NotFound(c) PROVE IInv'
<1> USE DEF BeginEdit, Begin, records
<1>1. PICK id \in Existing, sent \in SUBSET Fields, caller \in Buyers :
        /\ pc' = [pc EXCEPT ![c] = IF caller = row[id].buyer THEN "editing" ELSE "rejected"]
        /\ job' = [job EXCEPT ![c] = [kind |-> "edit", id |-> id, sent |-> sent, read |-> row[id].form]]
  OBVIOUS
<1>2. [kind |-> "edit", id |-> id, sent |-> sent, read |-> row[id].form] \in Edit /\ id \in Ids /\ Exists(id)
  BY RowTypes DEF Edit, Existing, IInv
<1>3. TypeOK'
  BY <1>1, <1>2 DEF IInv, TypeOK, PC, Active, Final, Job
<1>4. pc'[c] \in {"editing", "rejected"} /\ job'[c] \in Edit /\ job'[c].kind = "edit"
       /\ job'[c].id = id /\ job'[c].read = row[id].form
  BY <1>1, <1>2 DEF IInv, TypeOK
<1>5. InOrder' /\ Moves
  BY OrderKept, StillMoves DEF IInv
<1>6. \A d \in Calls \ {c} : Keeps(d)
  BY <1>3, StillKeeps DEF IInv, TypeOK
<1>7. row'[c] = Absent /\ older'[c] = {} /\ c \in Ids
  BY DEF IInv, CallInv, Written, Final, Ids, Reviews
<1>8. CallInv(c)'
  BY <1>2, <1>4, <1>7 DEF CallInv, Begun, Written, Alone, UpToDate, Ahead, Walking, Exists, Job, Final
<1> QED
  BY <1>3, <1>5, <1>6, <1>8, Together

LEMMA WriteEditInv ==
    ASSUME IInv, NEW c \in Calls, WriteEdit(c) PROVE IInv'
<1> USE DEF WriteEdit
<1>1. c \in Ids /\ job[c] \in Edit /\ job[c] \in Job /\ job[c].kind = "edit" /\ job[c].id \in Ids
       /\ job[c].read \in Form /\ row[c] = Absent /\ pc[c] = "editing"
  BY JobTypes DEF IInv, CallInv, Begun, Written, Final, Ids, Reviews
<1>2. CASE Exists(job[c].id)
  <2> DEFINE x == job[c].id
             new == [row[x] EXCEPT !.form = Merged(c)]
  <2>1. Merged(c) \in Form
    BY <1>1 DEF Merged, Form, Texts
  <2>2. new \in Row /\ new.buyer = row[x].buyer
    BY <1>1, <1>2, <2>1, RowTypes DEF IInv, Row
  <2>3. row'[x] = new /\ \A y \in Ids \ {x} : row'[y] = row[y]
    BY <1>1, <1>2 DEF IInv, TypeOK
  <2>4. TypeOK'
    BY <1>1, <1>2, <2>2 DEF IInv, TypeOK, PC, Final
  <2>5. Exists(x)' /\ row'[x] # Absent /\ row[x] # Absent
    BY <1>2, <2>2, <2>3, PurchasesAssumption DEF Exists
  <2>6. InOrder'
    BY <1>2, <2>3, <2>5, OrderKept DEF IInv
  <2>7. Moves
    <3>1. Exists(x) /\ row'[x].buyer = row[x].buyer /\ x \in Ids /\ Seeds \subseteq Ids
      BY <1>1, <1>2, <2>2, <2>3 DEF Ids, Reviews
    <3>2. UNCHANGED older /\ outrun \subseteq outrun'
      BY <1>2
    <3> HIDE DEF x, new, WriteEdit
    <3> QED
      BY <2>3, <2>5, <3>1, <3>2 DEF Moves, Exists
  <2>8. ASSUME NEW d \in Calls \ {c} PROVE Keeps(d)
    <3>1. d \in Ids /\ pc'[d] = pc[d]
      BY DEF Ids, Reviews, IInv, TypeOK
    <3>2. pc[d] = "editing" => row'[job[d].id] = row[job[d].id] \/ d \in outrun'
      BY <1>2, <2>3, JobTypes DEF IInv, CallInv, UpToDate, Begun
    <3>3. \A y \in Ids : Exists(y) => Exists(y)'
      BY <2>3, <2>5 DEF Exists
    <3>4. row[d] = Absent => row'[d] = Absent
      BY <3>1, <2>3, <2>5
    <3> QED
      BY <3>1, <3>2, <3>3, <3>4 DEF Keeps
  <2>9. CallInv(c)'
    <3>1. pc'[c] = "done" /\ row'[c] = Absent
      BY <1>1, <1>2, <2>3, <2>5 DEF IInv, TypeOK
    <3> QED
      BY <1>1, <3>1 DEF CallInv, Begun, Written, Alone, UpToDate, Ahead, Walking, Exists, Job, Final
  <2> QED
    BY <2>4, <2>6, <2>7, <2>8, <2>9, Together
<1>3. CASE ~ Exists(job[c].id)
  <2>1. Goto(c, "failed") /\ UNCHANGED <<row, outrun>>
    BY <1>3
  <2>2. TypeOK'
    BY <2>1, <1>1 DEF IInv, TypeOK, PC, Final
  <2>3. InOrder' /\ Moves
    BY <2>1, OrderKept, StillMoves DEF IInv
  <2>4. \A d \in Calls \ {c} : Keeps(d)
    BY <2>1, StillKeeps DEF IInv, TypeOK
  <2>5. pc'[c] = "failed"
    BY <2>1 DEF IInv, TypeOK
  <2>6. CallInv(c)'
    BY <1>1, <2>1, <2>5 DEF CallInv, Begun, Written, Alone, UpToDate, Ahead, Walking, Exists, Job, Final
  <2> QED
    BY <2>2, <2>3, <2>4, <2>6, Together
<1> QED
  BY <1>2, <1>3

LEMMA BeginRemoveInv ==
    ASSUME IInv, NEW c \in Calls, BeginRemove(c), ~ NotFound(c) PROVE IInv'
<1> USE DEF BeginRemove, Begin, records
<1>1. PICK id \in Existing \cap Reviews, caller \in Buyers :
        /\ pc' = [pc EXCEPT ![c] = IF caller = row[id].buyer THEN "removing" ELSE "rejected"]
        /\ job' = [job EXCEPT ![c] = [kind |-> "remove", id |-> id]]
  OBVIOUS
<1>2. [kind |-> "remove", id |-> id] \in Remove
  BY DEF Remove
<1>3. TypeOK'
  BY <1>1, <1>2 DEF IInv, TypeOK, PC, Active, Final, Job
<1>4. pc'[c] \in {"removing", "rejected"} /\ job'[c] \in Remove /\ job'[c].kind = "remove"
  BY <1>1, <1>2 DEF IInv, TypeOK
<1>5. InOrder' /\ Moves
  BY OrderKept, StillMoves DEF IInv
<1>6. \A d \in Calls \ {c} : Keeps(d)
  BY <1>3, StillKeeps DEF IInv, TypeOK
<1>7. row'[c] = Absent /\ older'[c] = {} /\ c \in Ids
  BY DEF IInv, CallInv, Written, Final, Ids, Reviews
<1>8. CallInv(c)'
  BY <1>4, <1>7 DEF CallInv, Begun, Written, Alone, UpToDate, Ahead, Walking, Exists, Job, Final
<1> QED
  BY <1>3, <1>5, <1>6, <1>8, Together

LEMMA DeleteReviewInv ==
    ASSUME IInv, NEW c \in Calls, DeleteReview(c) PROVE IInv'
<1> USE DEF DeleteReview
<1>1. c \in Ids /\ job[c] \in Remove /\ job[c] \in Job /\ job[c].kind = "remove" /\ job[c].id \in Ids
       /\ row[c] = Absent /\ pc[c] = "removing"
  BY JobTypes DEF IInv, CallInv, Begun, Written, Final, Ids, Reviews
<1>2. CASE Exists(job[c].id)
  <2> DEFINE x == job[c].id
  <2>1. /\ row'[x] = Gone /\ \A y \in Ids \ {x} : row'[y] = row[y]
        /\ \A d \in Calls : due'[d] = due[d] \ older[x]
    BY <1>1, <1>2 DEF IInv, TypeOK
  <2>2. TypeOK'
    <3>1. row' \in [Ids -> Row \cup {Absent, Gone}]
      BY <1>1, <1>2 DEF IInv, TypeOK
    <3>2. pc' = [pc EXCEPT ![c] = "done"] /\ due' = [d \in Calls |-> due[d] \ older[x]]
      BY <1>2
    <3>3. pc' \in [Calls -> PC] /\ due' \in [Calls -> SUBSET Ids]
      <4> HIDE DEF x, DeleteReview
      <4> QED
        BY <3>2 DEF IInv, TypeOK, PC, Final
    <3> QED
      BY <3>1, <3>2, <3>3 DEF IInv, TypeOK
  <2>3. row'[x] # Absent /\ row[x] # Absent /\ ~ Exists(x)'
    BY <1>2, <2>1, PurchasesAssumption DEF Exists
  <2>4. UNCHANGED <<older, outrun, job>> /\ Seeds \subseteq Ids /\ x \in Ids
    BY <1>1 DEF Ids, Reviews
  <2>10. InOrder'
    BY <2>1, <2>3, <2>4, OrderKept DEF IInv
  <2>5. Moves
    <3> HIDE DEF x, DeleteReview
    <3> QED
      BY <2>1, <2>3, <2>4 DEF Moves, Exists
  <2>6. ASSUME NEW d \in Calls \ {c} PROVE Keeps(d)
    <3>1. d \in Ids /\ pc'[d] = pc[d]
      BY DEF Ids, Reviews, IInv, TypeOK
    <3>2. pc[d] = "editing" => row'[job[d].id] = row[job[d].id] \/ row'[job[d].id] = Gone
      BY <2>1, JobTypes DEF IInv, CallInv, UpToDate, Begun
    <3>3. \A z \in due'[d], y \in Ids : Exists(y) /\ z \in older[y] => Exists(y)'
      BY <2>1 DEF Exists
    <3>4. row[d] = Absent => row'[d] = Absent
      BY <3>1, <2>1, <2>3
    <3>5. due'[d] \subseteq due[d]
      BY <2>1
    <3> QED
      BY <1>2, <3>1, <3>2, <3>3, <3>4, <3>5 DEF Keeps
  <2>7. CallInv(c)'
    <3>1. pc'[c] = "done" /\ row'[c] = Absent
      BY <1>1, <1>2, <2>1, <2>3 DEF IInv, TypeOK
    <3> QED
      BY <1>1, <3>1 DEF CallInv, Begun, Written, Alone, UpToDate, Ahead, Walking, Exists, Job, Final
  <2> QED
    BY <2>2, <2>10, <2>5, <2>6, <2>7, Together
<1>3. CASE ~ Exists(job[c].id)
  <2>1. Goto(c, "failed") /\ UNCHANGED <<row, due>>
    BY <1>3
  <2>2. TypeOK'
    BY <2>1, <1>1 DEF IInv, TypeOK, PC, Final
  <2>3. InOrder' /\ Moves
    BY <2>1, OrderKept, StillMoves DEF IInv
  <2>4. \A d \in Calls \ {c} : Keeps(d)
    BY <2>1, StillKeeps DEF IInv, TypeOK
  <2>5. pc'[c] = "failed"
    BY <2>1 DEF IInv, TypeOK
  <2>6. CallInv(c)'
    BY <1>1, <2>1, <2>5 DEF CallInv, Begun, Written, Alone, UpToDate, Ahead, Walking, Exists, Job, Final
  <2> QED
    BY <2>2, <2>3, <2>4, <2>6, Together
<1> QED
  BY <1>2, <1>3

LEMMA BeginWalkInv ==
    ASSUME IInv, NEW c \in Calls, BeginWalk(c) PROVE IInv'
<1> USE DEF BeginWalk, Begin, records
<1>1. PICK list \in {<<Reviews, Buyers>>} \cup {<<Orders, {b}>> : b \in Buyers} :
        /\ job' = [job EXCEPT ![c] = [kind |-> "walk", table |-> list[1], whose |-> list[2],
                                      page |-> 1, items |-> 0]]
        /\ due' = [due EXCEPT ![c] = List(list[1], list[2])]
  OBVIOUS
<1>2. list[1] \in {Orders, Reviews} /\ list[2] \in SUBSET Buyers
  OBVIOUS
<1>3. [kind |-> "walk", table |-> list[1], whose |-> list[2], page |-> 1, items |-> 0] \in Walk
  BY <1>2 DEF Walk
<1>4. List(list[1], list[2]) \subseteq Ids
  BY DEF List, Existing
<1>5. TypeOK'
  BY <1>1, <1>3, <1>4 DEF IInv, TypeOK, PC, Active, Job
<1>6. /\ pc'[c] = "reading" /\ job'[c] \in Walk /\ job'[c].kind = "walk" /\ job'[c].page = 1
      /\ due'[c] = List(list[1], list[2]) /\ job'[c].table = list[1] /\ job'[c].whose = list[2]
  BY <1>1, <1>3 DEF IInv, TypeOK
<1>7. InOrder' /\ Moves
  BY OrderKept, StillMoves DEF IInv
<1>8. \A d \in Calls \ {c} : Keeps(d)
  BY <1>5, StillKeeps DEF IInv, TypeOK
<1>9. row'[c] = Absent /\ older'[c] = {} /\ c \in Ids
  BY DEF IInv, CallInv, Written, Final, Ids, Reviews
<1>10. Ahead(c)'
  <2>1. Listed(c)' = List(list[1], list[2])
    BY <1>6 DEF Listed, List, Existing, Exists
  <2>2. (job'[c].page - 1) * Limit = 0
    BY <1>6, PurchasesAssumption
  <2>3. ASSUME NEW x \in due'[c] PROVE Cardinality(Newer(c, x)') >= 0
    <3>1. Newer(c, x)' \subseteq Ids
      BY DEF Newer, Listed, List, Existing
    <3> QED
      BY <3>1, Finite
  <2> QED
    BY <1>6, <2>1, <2>2, <2>3 DEF Ahead
<1>11. CallInv(c)'
  BY <1>6, <1>9, <1>10 DEF CallInv, Begun, Written, Alone, UpToDate, Exists, Job, Final
<1> QED
  BY <1>5, <1>7, <1>8, <1>11, Together

LEMMA ReadPageInv ==
    ASSUME IInv, NEW c \in Calls, ReadPage(c) PROVE IInv'
<1>1. /\ pc[c] = "reading" /\ pc' = [pc EXCEPT ![c] = "counting"]
      /\ job' = [job EXCEPT ![c].items = Cardinality(Items(c))]
      /\ shown' = [shown EXCEPT ![c] = @ \cup Items(c)]
      /\ UNCHANGED <<row, older, earlier, outrun, due>>
  BY DEF ReadPage, Items, records
<1>2. job[c] \in Walk /\ job[c].page \in Nat \ {0} /\ row[c] = Absent /\ c \in Ids
  BY <1>1, JobTypes DEF IInv, CallInv, Begun, Written, Ahead, Walking, Final, Ids, Reviews
<1>3. Cardinality(Items(c)) \in Nat /\ Cardinality(Items(c)) <= Limit
  BY <1>2, PageFits DEF IInv
<1>4. [job[c] EXCEPT !.items = Cardinality(Items(c))] \in Walk
  BY <1>2, <1>3 DEF Walk
<1>5. Items(c) \subseteq Ids
  BY DEF Items, Listed, List, Existing
<1>6. TypeOK'
  BY <1>1, <1>4, <1>5 DEF IInv, TypeOK, PC, Active, Job
<1>7. InOrder' /\ Moves
  BY <1>1, OrderKept, StillMoves DEF IInv
<1>8. \A d \in Calls \ {c} : Keeps(d)
  BY <1>1, <1>6, StillKeeps DEF IInv, TypeOK
<1>9. /\ pc'[c] = "counting" /\ job'[c] \in Walk /\ job'[c].page = job[c].page
      /\ job'[c].table = job[c].table /\ job'[c].whose = job[c].whose /\ job'[c].kind = "walk"
      /\ job'[c].items = Cardinality(Items(c)) /\ shown'[c] = shown[c] \cup Items(c)
  BY <1>1, <1>2, <1>4 DEF IInv, TypeOK, Walk
<1>10. Listed(c)' = Listed(c)
  BY <1>1, <1>9 DEF Listed, List, Existing, Exists
<1>11. \A x \in Ids : Newer(c, x)' = Newer(c, x)
  BY <1>1, <1>10 DEF Newer
<1>12. due[c] \subseteq Listed(c) /\ Listed(c) \subseteq Ids
  BY <1>1 DEF IInv, CallInv, Ahead, Walking, Listed, List, Existing
<1>13. ASSUME NEW x \in due'[c] \ shown'[c]
       PROVE  Cardinality(Newer(c, x)') >= job'[c].page * Limit
  <2>1. x \in due[c] \ shown[c] /\ x \in Listed(c) /\ x \notin Items(c) /\ x \in Ids
    BY <1>1, <1>9, <1>12
  <2>2. Cardinality(Newer(c, x)) >= (job[c].page - 1) * Limit
    BY <1>1, <2>1 DEF IInv, CallInv, Ahead
  <2>3. Cardinality(Newer(c, x)) >= job[c].page * Limit
    BY <1>2, <2>1, <2>2, PageShown
  <2> QED
    BY <1>9, <1>11, <2>1, <2>3
<1>14. Ahead(c)'
  BY <1>1, <1>2, <1>3, <1>9, <1>10, <1>12, <1>13 DEF Ahead, Walking
<1>15. CallInv(c)'
  BY <1>1, <1>2, <1>9, <1>14 DEF CallInv, Begun, Written, Alone, UpToDate, Exists, Job, Final
<1> QED
  BY <1>6, <1>7, <1>8, <1>15, Together

LEMMA CountInv ==
    ASSUME IInv, NEW c \in Calls, Count(c) PROVE IInv'
<1> USE DEF Count, records
<1>1. /\ job[c] \in Walk /\ job[c].page \in Nat \ {0} /\ job[c].kind = "walk" /\ job[c] \in Job
      /\ row[c] = Absent /\ c \in Ids /\ pc[c] = "counting"
  BY JobTypes DEF IInv, CallInv, Begun, Written, Ahead, Walking, Final, Ids, Reviews
<1>2. InOrder' /\ Moves
  BY OrderKept, StillMoves DEF IInv
<1>3. CASE More(c)
  <2>1. pc' = [pc EXCEPT ![c] = "reading"] /\ job' = [job EXCEPT ![c].page = @ + 1]
    BY <1>3
  <2>2. [job[c] EXCEPT !.page = @ + 1] \in Walk
    BY <1>1 DEF Walk
  <2>3. TypeOK'
    BY <2>1, <2>2 DEF IInv, TypeOK, PC, Active, Job
  <2>4. \A d \in Calls \ {c} : Keeps(d)
    BY <2>1, <2>3, StillKeeps DEF IInv, TypeOK
  <2>5. /\ pc'[c] = "reading" /\ job'[c] \in Walk /\ job'[c].page = job[c].page + 1
        /\ job'[c].table = job[c].table /\ job'[c].whose = job[c].whose /\ job'[c].kind = "walk"
    BY <1>1, <2>1, <2>2 DEF IInv, TypeOK, Walk
  <2>6. Listed(c)' = Listed(c)
    BY <2>5 DEF Listed, List, Existing, Exists
  <2>7. \A x \in Ids : Newer(c, x)' = Newer(c, x)
    BY <2>6 DEF Newer
  <2>8. due[c] \subseteq Listed(c) /\ Listed(c) \subseteq Ids
    BY <1>1 DEF IInv, CallInv, Ahead, Walking, Listed, List, Existing
  <2>9. job'[c].page - 1 = job[c].page
    BY <1>1, <2>5
  <2>10. ASSUME NEW x \in due[c] \ shown[c]
         PROVE  Cardinality(Newer(c, x)') >= (job'[c].page - 1) * Limit
    BY <1>1, <2>7, <2>8, <2>9 DEF IInv, CallInv, Ahead
  <2>11. Ahead(c)'
    BY <1>1, <2>5, <2>6, <2>8, <2>10 DEF Ahead, Walking
  <2>12. CallInv(c)'
    BY <1>1, <2>5, <2>11 DEF CallInv, Begun, Written, Alone, UpToDate, Exists, Job, Final
  <2> QED
    BY <1>2, <2>3, <2>4, <2>12, Together
<1>4. CASE ~ More(c)
  <2>1. Goto(c, "done") /\ UNCHANGED job
    BY <1>4
  <2>2. TypeOK'
    BY <2>1 DEF IInv, TypeOK, PC, Final
  <2>3. \A d \in Calls \ {c} : Keeps(d)
    BY <2>1, StillKeeps DEF IInv, TypeOK
  <2>4. pc'[c] = "done"
    BY <2>1 DEF IInv, TypeOK
  <2>5. due[c] \subseteq shown[c]
    <3> SUFFICES ASSUME NEW x \in due[c] \ shown[c] PROVE FALSE
      OBVIOUS
    <3>1. Ahead(c)
      BY DEF IInv, CallInv
    <3>2. job[c].page > 0 /\ job[c].items <= Limit /\ x \in Listed(c)
          /\ Cardinality(Newer(c, x)) >= job[c].page * Limit
      BY <1>1, <3>1 DEF Ahead, Walking
    <3> QED
      BY <1>1, <1>4, <3>2, MoreLeft DEF IInv
  <2>6. CallInv(c)'
    BY <1>1, <2>1, <2>4, <2>5 DEF CallInv, Begun, Written, Alone, UpToDate, Ahead, Walking, Exists, Job, Final
  <2> QED
    BY <1>2, <2>2, <2>3, <2>6, Together
<1> QED
  BY <1>3, <1>4

LEMMA NextInv ==
    ASSUME IInv, [Next]_vars PROVE IInv'
<1>1. CASE UNCHANGED vars
  <2> USE <1>1 DEF vars, records
  <2>1. TypeOK' /\ InOrder' /\ Moves
    BY OrderKept, StillMoves DEF IInv, TypeOK
  <2>2. \A d \in Calls : Keeps(d)
    BY StillKeeps
  <2> QED
    BY <2>1, <2>2, AllTogether
<1>2. ASSUME NEW c \in Calls, Step(c) PROVE IInv'
  <2>1. CASE (BeginEdit(c) \/ BeginRemove(c)) /\ NotFound(c)
    BY <2>1, NotFoundInv DEF BeginEdit, BeginRemove
  <2> QED
    BY <1>2, <2>1, BeginCreateInv, CheckReviewInv, WriteReviewInv, BeginEditInv, WriteEditInv,
       BeginRemoveInv, DeleteReviewInv, BeginWalkInv, ReadPageInv, CountInv DEF Step
<1>3. ASSUME NEW o \in Orders, StampOrder(o) \/ PlaceOrder(o) PROVE IInv'
  BY <1>3, StampOrderInv, PlaceOrderInv
<1> QED
  BY <1>1, <1>2, <1>3 DEF Next, Finished

(* The invariant holds in every reachable state.                            *)
THEOREM Invariance == Spec => []IInv
<1>1. Init => IInv
  BY InitInv
<1>2. IInv /\ [Next]_vars => IInv'
  BY NextInv
<1> QED
  BY <1>1, <1>2, PTL DEF Spec

(* Every variable keeps its type; a page is never longer than the limit, so *)
(* what a walk remembers stays a number of rows.                            *)
THEOREM TypeCorrect == Spec => []TypeOK
<1>1. IInv => TypeOK
  BY DEF IInv
<1> QED
  BY <1>1, Invariance, PTL

(* A buyer's second review needs two requests that were let in while neither*)
(* review was there (review.service.ts:37-45), for any number of requests.  *)
THEOREM ReviewsAreSingle == Spec => []OneReviewUnlessCrossed
<1>1. IInv => OneReviewUnlessCrossed
  <2> SUFFICES ASSUME IInv, NEW r \in Existing \cap Reviews, NEW s \in Existing \cap Reviews,
                      r # s, row[r].buyer = row[s].buyer
               PROVE  {r, s} \subseteq Calls /\ r \notin earlier[s] /\ s \notin earlier[r]
    BY DEF OneReviewUnlessCrossed
  <2>1. Exists(r) /\ Exists(s)
    BY DEF Existing
  <2>2. ASSUME NEW x \in Calls, NEW y \in Reviews, Exists(x), Exists(y),
               row[x].buyer = row[y].buyer
        PROVE  y \notin earlier[x] /\ y \notin Seeds
    BY <2>2 DEF IInv, CallInv, Written, Alone
  <2>3. ~ (r \in Seeds /\ s \in Seeds)
    BY <2>1 DEF IInv, SeedsApart
  <2>4. r \in Seeds \cup Calls /\ s \in Seeds \cup Calls
    BY DEF Reviews
  <2> QED
    BY <2>1, <2>2, <2>3, <2>4
<1> QED
  BY <1>1, Invariance, PTL

(* A change that no other has overtaken leaves what was not sent alone, for *)
(* any number of requests and fields (review.service.ts:90-97).             *)
THEOREM EditsKeepTheRest == Spec => EditsKeepUnsent
<1>1. ASSUME IInv, [Next]_vars, NEW c \in Calls, pc[c] = "editing", pc'[c] = "done", c \notin outrun,
             NEW f \in Fields \ job[c].sent
      PROVE  row'[job[c].id].form[f] = row[job[c].id].form[f]
  <2>1. ASSUME NEW d \in Calls \ {c}, Step(d) PROVE FALSE
    <3>1. pc'[c] = pc[c]
      BY <2>1, <1>1 DEF IInv, TypeOK, Step, BeginCreate, CheckReview, WriteReview, BeginEdit, WriteEdit,
           BeginRemove, DeleteReview, BeginWalk, ReadPage, Count, Begin, NotFound, LetIn
    <3> QED
      BY <3>1, <1>1
  <2>2. ASSUME NEW o \in Orders, StampOrder(o) \/ PlaceOrder(o) PROVE FALSE
    BY <2>2, <1>1 DEF StampOrder, PlaceOrder
  <2>3. ~ UNCHANGED vars
    BY <1>1 DEF vars
  <2>4. Step(c)
    BY <1>1, <2>1, <2>2, <2>3 DEF Next, Finished
  <2>5. WriteEdit(c)
    BY <1>1, <2>4 DEF Step, BeginCreate, CheckReview, WriteReview, BeginEdit,
         BeginRemove, DeleteReview, BeginWalk, ReadPage, Count, Begin, NotFound
  <2>6. job[c] \in Edit /\ job[c].id \in Ids /\ row[job[c].id] # Absent
    BY <1>1, JobTypes DEF IInv, CallInv, Begun, UpToDate
  <2>7. Exists(job[c].id)
    BY <1>1, <2>5 DEF WriteEdit, IInv, TypeOK
  <2>8. row[job[c].id].form = job[c].read
    BY <1>1, <2>7 DEF IInv, CallInv, UpToDate, Exists
  <2>9. row'[job[c].id].form = Merged(c)
    <3>1. row' = [row EXCEPT ![job[c].id].form = Merged(c)] /\ row \in [Ids -> Row \cup {Absent, Gone}]
      BY <1>1, <2>5, <2>7 DEF WriteEdit, IInv, TypeOK
    <3>2. row'[job[c].id] = [row[job[c].id] EXCEPT !.form = Merged(c)] /\ row[job[c].id] \in Row
      BY <3>1, <2>6, <2>7 DEF Exists
    <3> QED
      BY <3>2 DEF Row
  <2> QED
    BY <2>8, <2>9 DEF Merged
<1>2. IInv /\ [Next]_vars =>
        [\A c \in Calls :
            pc[c] = "editing" /\ pc'[c] = "done" /\ c \notin outrun =>
                \A f \in Fields \ job[c].sent :
                    row'[job[c].id].form[f] = row[job[c].id].form[f]]_vars
  BY <1>1
<1> QED
  BY <1>2, Invariance, PTL DEF Spec, EditsKeepUnsent

(* Who pages to the end has seen every row that was there from the start and*)
(* had no newer one deleted, for lists and pages of any length, whatever is *)
(* written and deleted meanwhile (review.repository.ts:69-87).              *)
THEOREM WalksShowAll == Spec => []WalkShowsAll
<1>1. IInv => WalkShowsAll
  BY DEF IInv, CallInv, Ahead, WalkShowsAll
<1> QED
  BY <1>1, Invariance, PTL
================================================================================
