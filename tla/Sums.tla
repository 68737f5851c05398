---------------------------------- MODULE Sums ----------------------------------
(***************************************************************************)
(* What the sums of the community modules are, for any finite set of       *)
(* indices and any integers: the library states no fact about its folds.   *)
(* A sum is shown to be the number of units there are for all indices; a   *)
(* subset on which the two differ would have a smallest size, at which the *)
(* unrolled definitions of both agree.                                     *)
(***************************************************************************)
EXTENDS FiniteSetTheorems, TLAPS

(* A sum counted out: as many units for each index as its value has, and    *)
(* the same for what is below zero.                                         *)
Units(f, S) == UNION { {x} \X (1 .. f[x]) : x \in S }
Debts(f, S) == UNION { {x} \X (1 .. -f[x]) : x \in S }
Total(f, S) == Cardinality(Units(f, S)) - Cardinality(Debts(f, S))

(* Every set of natural numbers with a member has a smallest one.           *)
LEMMA LeastNumber ==
    ASSUME NEW T, T \subseteq Nat, T # {}
    PROVE  \E n \in T : \A m \in T : n <= m
<1>1. PICK n \in T : \A m \in T : <<m, n>> \notin OpToRel(<, Nat)
  BY NatLessThanWellFounded, WFMin
<1>2. ASSUME NEW m \in T PROVE n <= m
  <2>1. m \in Nat /\ n \in Nat
    OBVIOUS
  <2>2. <<m, n>> \notin {ss \in Nat \X Nat : ss[1] < ss[2]}
    BY <1>1 DEF OpToRel
  <2>3. ~ (m < n)
    BY <2>1, <2>2
  <2> QED
    BY <2>1, <2>3
<1> QED
  BY <1>2

(* The units of one index.                                                 *)
LEMMA HeapSize ==
    ASSUME NEW n \in Int, NEW x
    PROVE  /\ IsFiniteSet({x} \X (1 .. n))
           /\ Cardinality({x} \X (1 .. n)) = IF n > 0 THEN n ELSE 0
<1>1. IsFiniteSet(1 .. n) /\ Cardinality(1 .. n) = IF 1 > n THEN 0 ELSE n - 1 + 1
  BY FS_Interval
<1>2. IsFiniteSet({x}) /\ Cardinality({x}) = 1
  BY FS_Singleton
<1>3. /\ IsFiniteSet({x} \X (1 .. n))
      /\ Cardinality({x} \X (1 .. n)) = Cardinality({x}) * Cardinality(1 .. n)
  BY <1>1, <1>2, FS_Product
<1> QED
  BY <1>1, <1>2, <1>3

(* There are finitely many units.                                           *)
LEMMA UnitsAreFinite ==
    ASSUME NEW S, IsFiniteSet(S), NEW f, \A x \in S : f[x] \in Int
    PROVE  IsFiniteSet(Units(f, S)) /\ IsFiniteSet(Debts(f, S))
<1> DEFINE Heap(n, x) == {x} \X (1 .. n)
<1>1. \A n \in Int : \A x : IsFiniteSet(Heap(n, x))
  BY HeapSize
<1>2. IsFiniteSet({Heap(f[x], x) : x \in S})
  <2> DEFINE h == [x \in S |-> Heap(f[x], x)]
  <2>1. h \in Surjection(S, {Heap(f[x], x) : x \in S})
    BY DEF Surjection
  <2> QED
    BY <2>1, FS_Surjection
<1>3. IsFiniteSet({Heap(-f[x], x) : x \in S})
  <2> DEFINE h == [x \in S |-> Heap(-f[x], x)]
  <2>1. h \in Surjection(S, {Heap(-f[x], x) : x \in S})
    BY DEF Surjection
  <2> QED
    BY <2>1, FS_Surjection
<1>4. \A T \in {Heap(f[x], x) : x \in S} : IsFiniteSet(T)
  BY <1>1
<1>5. \A T \in {Heap(-f[x], x) : x \in S} : IsFiniteSet(T)
  <2>1. \A x \in S : -f[x] \in Int
    OBVIOUS
  <2> QED
    BY <1>1, <2>1
<1> QED
  BY <1>2, <1>3, <1>4, <1>5, FS_UNION DEF Units, Debts

(* An index taken away takes its value from the total.                      *)
LEMMA TotalTakesOne ==
    ASSUME NEW S, IsFiniteSet(S), NEW f, \A x \in S : f[x] \in Int, NEW x \in S
    PROVE  Total(f, S) \in Int /\ Total(f, S) = f[x] + Total(f, S \ {x})
<1> DEFINE R == S \ {x}
           heap == {x} \X (1 .. f[x])
           hole == {x} \X (1 .. -f[x])
<1>1. /\ IsFiniteSet(Units(f, S)) /\ IsFiniteSet(Debts(f, S))
      /\ IsFiniteSet(Units(f, R)) /\ IsFiniteSet(Debts(f, R))
  <2>1. IsFiniteSet(R) /\ \A y \in R : f[y] \in Int
    BY FS_Subset
  <2> QED
    BY <2>1, UnitsAreFinite
<1>2. /\ IsFiniteSet(heap) /\ Cardinality(heap) = (IF f[x] > 0 THEN f[x] ELSE 0)
      /\ IsFiniteSet(hole) /\ Cardinality(hole) = (IF -f[x] > 0 THEN -f[x] ELSE 0)
  <2>1. f[x] \in Int /\ -f[x] \in Int
    OBVIOUS
  <2> QED
    BY <2>1, HeapSize
<1>3. Units(f, S) = heap \cup Units(f, R) /\ heap \cap Units(f, R) = {}
  BY DEF Units
<1>4. Debts(f, S) = hole \cup Debts(f, R) /\ hole \cap Debts(f, R) = {}
  BY DEF Debts
<1> HIDE DEF heap, hole, R
<1>5. Cardinality(Units(f, S)) = Cardinality(heap) + Cardinality(Units(f, R))
  <2>1. Cardinality(heap \cup Units(f, R))
            = Cardinality(heap) + Cardinality(Units(f, R)) - Cardinality(heap \cap Units(f, R))
    BY <1>1, <1>2, FS_Union
  <2>2. Cardinality(heap) \in Int /\ Cardinality(Units(f, R)) \in Int
    BY <1>1, <1>2, FS_CardinalityType
  <2>3. Cardinality(heap \cap Units(f, R)) = 0
    BY <1>3, FS_EmptySet
  <2> QED
    BY <1>3, <2>1, <2>2, <2>3
<1>6. Cardinality(Debts(f, S)) = Cardinality(hole) + Cardinality(Debts(f, R))
  <2>1. Cardinality(hole \cup Debts(f, R))
            = Cardinality(hole) + Cardinality(Debts(f, R)) - Cardinality(hole \cap Debts(f, R))
    BY <1>1, <1>2, FS_Union
  <2>2. Cardinality(hole) \in Int /\ Cardinality(Debts(f, R)) \in Int
    BY <1>1, <1>2, FS_CardinalityType
  <2>3. Cardinality(hole \cap Debts(f, R)) = 0
    BY <1>4, FS_EmptySet
  <2> QED
    BY <1>4, <2>1, <2>2, <2>3
<1>7. /\ Cardinality(Units(f, R)) \in Nat /\ Cardinality(Debts(f, R)) \in Nat /\ f[x] \in Int
      /\ Cardinality(Units(f, S)) \in Nat /\ Cardinality(Debts(f, S)) \in Nat
  BY <1>1, FS_CardinalityType
<1> QED
  BY <1>2, <1>5, <1>6, <1>7 DEF Total, R

(* No index has no unit.                                                    *)
LEMMA TotalOfNone == ASSUME NEW f PROVE Total(f, {}) = 0
<1>1. Units(f, {}) = {} /\ Debts(f, {}) = {}
  BY DEF Units, Debts
<1> QED
  BY <1>1, FS_EmptySet DEF Total

(* One step of the recursion the community module defines its sum by.       *)
Unrolled(f, S, g) ==
    [s \in SUBSET S |-> IF s = {} THEN 0
                        ELSE LET x == CHOOSE x \in s : TRUE IN f[x] + g[s \ {x}]]

(* The sum is the function that recursion chooses, at the whole set.        *)
LEMMA SumUnrolls ==
    ASSUME NEW f, NEW S
    PROVE  SumFunctionOnSet(f, S) = (CHOOSE g : g = Unrolled(f, S, g))[S]
BY DEF SumFunctionOnSet, FoldFunctionOnSet, MapThenFoldSet, Unrolled

(* The total is such a function.                                            *)
LEMMA TotalUnrolls ==
    ASSUME NEW S, IsFiniteSet(S), NEW f, \A x \in S : f[x] \in Int
    PROVE  [s \in SUBSET S |-> Total(f, s)] = Unrolled(f, S, [s \in SUBSET S |-> Total(f, s)])
<1> DEFINE g == [s \in SUBSET S |-> Total(f, s)]
<1> SUFFICES ASSUME NEW s \in SUBSET S, s # {}
             PROVE  LET x == CHOOSE x \in s : TRUE IN Total(f, s) = f[x] + g[s \ {x}]
  BY TotalOfNone DEF Unrolled
<1> DEFINE x == CHOOSE x \in s : TRUE
<1>1. x \in s
  OBVIOUS
<1>2. IsFiniteSet(s) /\ \A y \in s : f[y] \in Int
  BY FS_Subset
<1> HIDE DEF x
<1>3. Total(f, s) = f[x] + Total(f, s \ {x})
  BY <1>1, <1>2, TotalTakesOne
<1>4. g[s \ {x}] = Total(f, s \ {x})
  OBVIOUS
<1> QED
  BY <1>3, <1>4 DEF x

(* A sum over a finite set is the total of its units, whatever order the    *)
(* recursion takes the indices in.                                          *)
THEOREM SumIsTotal ==
    ASSUME NEW S, IsFiniteSet(S), NEW f, \A x \in S : f[x] \in Int
    PROVE  SumFunctionOnSet(f, S) = Total(f, S)
<1> DEFINE g == CHOOSE g : g = Unrolled(f, S, g)
           sizes == {Cardinality(s) : s \in {t \in SUBSET S : g[t] # Total(f, t)}}
<1>1. g = Unrolled(f, S, g)
  <2>1. \E h : h = Unrolled(f, S, h)
    BY TotalUnrolls
  <2> QED
    BY <2>1
<1> HIDE DEF g
<1>2. \A s \in SUBSET S : IsFiniteSet(s) /\ Cardinality(s) \in Nat
  BY FS_Subset, FS_CardinalityType
<1>3. ASSUME sizes # {} PROVE FALSE
  <2>1. PICK n \in sizes : \A m \in sizes : n <= m
    BY <1>2, <1>3, LeastNumber
  <2>2. PICK s \in SUBSET S : g[s] # Total(f, s) /\ n = Cardinality(s)
    OBVIOUS
  <2>3. CASE s = {}
    BY <1>1, <2>2, <2>3, TotalOfNone DEF Unrolled
  <2>4. CASE s # {}
    <3> DEFINE x == CHOOSE x \in s : TRUE
    <3>1. x \in s
      BY <2>4
    <3>2. g[s] = f[x] + g[s \ {x}]
      BY <1>1, <2>4 DEF Unrolled
    <3> HIDE DEF x
    <3>3. s \ {x} \in SUBSET S /\ Cardinality(s \ {x}) = n - 1 /\ n \in Nat
      BY <1>2, <2>2, <3>1, FS_RemoveElement
    <3>4. g[s \ {x}] = Total(f, s \ {x})
      BY <2>1, <3>3
    <3>5. Total(f, s) = f[x] + Total(f, s \ {x})
      BY <1>2, <3>1, TotalTakesOne
    <3> QED
      BY <2>2, <3>2, <3>4, <3>5
  <2> QED
    BY <2>3, <2>4
<1>4. g[S] = Total(f, S)
  BY <1>3
<1> QED
  BY <1>4, SumUnrolls DEF g

--------------------------------------------------------------------------------
(* A finite sum of integers is an integer.                                  *)
THEOREM SumType ==
    ASSUME NEW S, IsFiniteSet(S), NEW f, \A x \in S : f[x] \in Int
    PROVE  SumFunctionOnSet(f, S) \in Int
<1>1. Cardinality(Units(f, S)) \in Nat /\ Cardinality(Debts(f, S)) \in Nat
  BY UnitsAreFinite, FS_CardinalityType
<1> QED
  BY <1>1, SumIsTotal DEF Total

(* An index that comes in adds its value to the sum.                        *)
THEOREM SumAdds ==
    ASSUME NEW S, IsFiniteSet(S), NEW x, x \notin S, NEW f, \A y \in S \cup {x} : f[y] \in Int
    PROVE  SumFunctionOnSet(f, S \cup {x}) = f[x] + SumFunctionOnSet(f, S)
<1>1. IsFiniteSet(S \cup {x}) /\ (S \cup {x}) \ {x} = S
  BY FS_AddElement
<1>2. Total(f, S \cup {x}) = f[x] + Total(f, (S \cup {x}) \ {x})
  BY <1>1, TotalTakesOne
<1> QED
  BY <1>1, <1>2, SumIsTotal

(* A sum depends on the values of its indices only.                         *)
THEOREM SumOfSame ==
    ASSUME NEW S, IsFiniteSet(S), NEW f, \A x \in S : f[x] \in Int,
           NEW g, \A x \in S : g[x] = f[x]
    PROVE  SumFunctionOnSet(g, S) = SumFunctionOnSet(f, S)
<1>1. Units(g, S) = Units(f, S) /\ Debts(g, S) = Debts(f, S)
  BY DEF Units, Debts
<1> QED
  BY <1>1, SumIsTotal DEF Total

(* A sum of zeros is zero.                                                  *)
THEOREM SumOfZeros ==
    ASSUME NEW S, IsFiniteSet(S), NEW f, \A x \in S : f[x] = 0
    PROVE  SumFunctionOnSet(f, S) = 0
<1>1. Units(f, S) = {} /\ Debts(f, S) = {}
  BY DEF Units, Debts
<1>2. SumFunctionOnSet(f, S) = Total(f, S)
  BY SumIsTotal
<1>3. Total(f, S) = 0
  BY <1>1, FS_EmptySet DEF Total
<1> QED
  BY <1>2, <1>3

(* A sum of which one index alone is not zero is the value of that index.   *)
THEOREM SumOfOne ==
    ASSUME NEW S, IsFiniteSet(S), NEW x \in S, NEW f, f[x] \in Int,
           \A y \in S \ {x} : f[y] = 0
    PROVE  SumFunctionOnSet(f, S) = f[x]
<1> DEFINE R == S \ {x}
<1>1. IsFiniteSet(R) /\ x \notin R /\ R \cup {x} = S
  BY FS_Subset
<1>2. (\A y \in R : f[y] = 0) /\ \A y \in R \cup {x} : f[y] \in Int
  OBVIOUS
<1> HIDE DEF R
<1>3. SumFunctionOnSet(f, R \cup {x}) = f[x] + SumFunctionOnSet(f, R)
  BY <1>1, <1>2, SumAdds
<1>4. SumFunctionOnSet(f, R) = 0
  BY <1>1, <1>2, SumOfZeros
<1>5. SumFunctionOnSet(f, R \cup {x}) = f[x]
  BY <1>3, <1>4
<1> QED
  BY <1>1, <1>5, Zenon
================================================================================
