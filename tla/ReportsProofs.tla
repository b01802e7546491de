---------------------------- MODULE ReportsProofs ----------------------------
(***************************************************************************)
(* Theorems of Contribution, Analytics and GitAnalysis: that the report on *)
(* who did what gives each person what was counted of his identities and   *)
(* no more, and scores in proportion; that the panels, the charts and the  *)
(* people of the dashboard add up to each other; and that what the deep    *)
(* analysis stores of a repository's history is true of it.  For any       *)
(* number of rows, identities and people, and any history.                 *)
(***************************************************************************)
EXTENDS Contribution, Analytics, GitAnalysis, FiniteSetTheorems, WellFoundedInduction, TLAPS

(* Numbers *)

\* A set of numbers that is not empty has a least one.
LEMMA LeastNatural ==
  ASSUME NEW S \in SUBSET Nat, S # {}
  PROVE  \E m \in S : \A n \in S : m <= n
<1> DEFINE R == {ss \in Nat \X Nat : ss[1] < ss[2]}
<1>1. IsWellFoundedOn(R, Nat)
  BY NatLessThanWellFounded DEF OpToRel
<1> HIDE DEF R
<1>2. PICK m \in S : \A n \in S : ~(<<n, m>> \in R)
  BY <1>1, WFMin
<1>3. ASSUME NEW n \in S, n < m PROVE FALSE
  <2>1. <<n, m>> \in Nat \X Nat /\ <<n, m>>[1] < <<n, m>>[2]
    BY <1>3
  <2> QED
    BY <1>2, <2>1 DEF R
<1> QED
  BY <1>3

\* Max of a bounded set that is not empty is in it, and nothing in it is above.
LEMMA MaxIsGreatest ==
  ASSUME NEW N \in Nat, NEW S \in SUBSET (0 .. N), S # {}
  PROVE  Max(S) \in S /\ \A n \in S : n <= Max(S)
<1> DEFINE T == {N - n : n \in S}
<1>1. PICK m \in T : \A n \in T : m <= n
  <2>1. ASSUME NEW n \in S PROVE N - n \in Nat
    OBVIOUS
  <2>2. T \in SUBSET Nat
    BY <2>1
  <2>3. T # {}
    <3>1. PICK n \in S : TRUE
      OBVIOUS
    <3> QED
      BY <3>1
  <2> HIDE DEF T
  <2> QED
    BY <2>2, <2>3, LeastNatural
<1>2. PICK x \in S : m = N - x
  OBVIOUS
<1>3. \A y \in S : x >= y
  BY <1>1, <1>2
<1> QED
  BY <1>3 DEF Max

(* Sums over finite sets *)

-----------------------------------------------------------------------------
(* Sums *)

\* The numbers a sum adds up, as a set of units: its size is the sum.
Units(f, S) == UNION {{x} \X (1 .. f[x]) : x \in S}

Amounts(f, S) == \A x \in S : f[x] \in Nat

\* A function of sets that grows by f[x] with each x, from nothing.
Adds(g, f, S) ==
  /\ g = [s \in SUBSET S |-> g[s]]
  /\ g[{}] = 0
  /\ \A s \in SUBSET S : \A x \in s : g[s] = f[x] + g[s \ {x}]

\* A number has as many units as it says.
LEMMA UnitsOfOne ==
  ASSUME NEW x, NEW n \in Nat
  PROVE  IsFiniteSet({x} \X (1 .. n)) /\ Cardinality({x} \X (1 .. n)) = n
<1>1. IsFiniteSet({x}) /\ Cardinality({x}) = 1
  BY FS_Singleton
<1>2. IsFiniteSet(1 .. n) /\ Cardinality(1 .. n) = n
  BY FS_Interval
<1>3. /\ IsFiniteSet({x} \X (1 .. n))
      /\ Cardinality({x} \X (1 .. n)) = Cardinality({x}) * Cardinality(1 .. n)
  BY <1>1, <1>2, FS_Product
<1> QED
  BY <1>1, <1>2, <1>3

\* Units of finitely many numbers are finitely many.
LEMMA UnitsFinite ==
  ASSUME NEW S, IsFiniteSet(S), NEW f, Amounts(f, S)
  PROVE  IsFiniteSet(Units(f, S)) /\ Cardinality(Units(f, S)) \in Nat
<1> DEFINE UnitsAt(x) == {x} \X (1 .. f[x])
           T == {UnitsAt(x) : x \in S}
<1>1. IsFiniteSet(T)
  <2>1. [x \in S |-> UnitsAt(x)] \in Surjection(S, T)
    BY DEF Surjection
  <2> QED
    BY <2>1, FS_Surjection
<1>2. \A t \in T : IsFiniteSet(t)
  <2> SUFFICES ASSUME NEW x \in S PROVE IsFiniteSet(UnitsAt(x))
    OBVIOUS
  <2>1. f[x] \in Nat
    BY DEF Amounts
  <2> QED
    BY <2>1, UnitsOfOne
<1>3. IsFiniteSet(Units(f, S))
  BY <1>1, <1>2, FS_UNION DEF Units
<1> QED
  BY <1>3, FS_CardinalityType

\* Sets that share nothing.
LEMMA DisjointSizes ==
  ASSUME NEW A, NEW B, IsFiniteSet(A), IsFiniteSet(B), A \cap B = {}
  PROVE  /\ IsFiniteSet(A \cup B)
         /\ Cardinality(A \cup B) = Cardinality(A) + Cardinality(B)
<1>1. Cardinality(A) \in Nat /\ Cardinality(B) \in Nat
  BY FS_CardinalityType
<1>2. /\ IsFiniteSet(A \cup B)
      /\ Cardinality(A \cup B) = Cardinality(A) + Cardinality(B) - Cardinality(A \cap B)
  BY FS_Union
<1>3. Cardinality(A \cap B) = 0
  BY FS_EmptySet
<1> QED
  BY <1>1, <1>2, <1>3

\* The units of two sets that share nothing are of one or of the other.
LEMMA UnitsSplit ==
  ASSUME NEW A, NEW B, IsFiniteSet(A), IsFiniteSet(B), A \cap B = {},
         NEW f, Amounts(f, A \cup B)
  PROVE  Cardinality(Units(f, A \cup B)) = Cardinality(Units(f, A)) + Cardinality(Units(f, B))
<1>1. Units(f, A \cup B) = Units(f, A) \cup Units(f, B)
  BY DEF Units
<1>2. Units(f, A) \cap Units(f, B) = {}
  BY DEF Units
<1>3. Amounts(f, A) /\ Amounts(f, B)
  BY DEF Amounts
<1>4. /\ IsFiniteSet(Units(f, A)) /\ Cardinality(Units(f, A)) \in Nat
      /\ IsFiniteSet(Units(f, B)) /\ Cardinality(Units(f, B)) \in Nat
  BY <1>3, UnitsFinite
<1> QED
  BY <1>1, <1>2, <1>4, DisjointSizes

\* A sum is the recursion the community module makes of it.
Iterates(g, f, S) ==
  g = [s \in SUBSET S |->
        IF s = {} THEN 0
        ELSE f[CHOOSE x \in s : TRUE] + g[s \ {CHOOSE x \in s : TRUE}]]

LEMMA TotalIterates ==
  ASSUME NEW f, NEW S PROVE Total(f, S) = (CHOOSE g : Iterates(g, f, S))[S]
BY DEF Total, MapThenSumSet, MapThenFoldSet, Iterates

\* The function that grows by f[x] is one, and what a sum follows.
LEMMA AddsOnce ==
  ASSUME NEW S, IsFiniteSet(S), NEW f, NEW g, Adds(g, f, S), NEW h, Iterates(h, f, S)
  PROVE  \A s \in SUBSET S : g[s] = h[s]
<1> DEFINE Bad == {s \in SUBSET S : g[s] # h[s]}
           Sizes == {Cardinality(s) : s \in Bad}
<1> SUFFICES ASSUME Bad # {} PROVE FALSE
  OBVIOUS
<1>1. \A s \in SUBSET S : IsFiniteSet(s) /\ Cardinality(s) \in Nat
  BY FS_Subset, FS_CardinalityType
<1>2. PICK n \in Sizes : \A k \in Sizes : n <= k
  <2>1. Sizes \in SUBSET Nat /\ Sizes # {}
    BY <1>1
  <2> QED
    BY <2>1, LeastNatural
<1>3. PICK s \in Bad : Cardinality(s) = n
  OBVIOUS
<1>4. CASE s = {}
  BY <1>3, <1>4 DEF Adds, Iterates
<1>5. CASE s # {}
  <2>1. PICK x : x = CHOOSE y \in s : TRUE
    OBVIOUS
  <2>2. x \in s
    BY <1>5, <2>1
  <2>3. h[s] = f[x] + h[s \ {x}]
    BY <1>5, <2>1 DEF Iterates
  <2>4. g[s] = f[x] + g[s \ {x}]
    BY <2>2 DEF Adds
  <2>5. s \ {x} \in Bad
    BY <2>3, <2>4
  <2>6. Cardinality(s \ {x}) = n - 1
    BY <1>1, <1>3, <2>2, FS_RemoveElement
  <2>7. n - 1 \in Sizes /\ n \in Nat
    BY <1>1, <1>3, <2>5, <2>6
  <2> QED
    BY <1>2, <2>7
<1> QED
  BY <1>4, <1>5

\* A sum is what any function that grows by f[x] makes of the set.
LEMMA TotalByAdds ==
  ASSUME NEW S, IsFiniteSet(S), NEW f, NEW g, Adds(g, f, S)
  PROVE  Total(f, S) = g[S]
<1>1. Iterates(g, f, S)
  <2> DEFINE rhs == [s \in SUBSET S |->
        IF s = {} THEN 0
        ELSE f[CHOOSE x \in s : TRUE] + g[s \ {CHOOSE x \in s : TRUE}]]
  <2>1. \A s \in SUBSET S : g[s] = rhs[s]
    <3> SUFFICES ASSUME NEW s \in SUBSET S PROVE g[s] = rhs[s]
      OBVIOUS
    <3>1. CASE s = {}
      BY <3>1 DEF Adds
    <3>2. CASE s # {}
      <4>1. (CHOOSE x \in s : TRUE) \in s
        BY <3>2
      <4>2. g[s] = f[CHOOSE x \in s : TRUE] + g[s \ {CHOOSE x \in s : TRUE}]
        BY <4>1 DEF Adds
      <4> QED
        BY <3>2, <4>2
    <3> QED
      BY <3>1, <3>2
  <2>2. g = [s \in SUBSET S |-> g[s]]
    BY DEF Adds
  <2>3. [s \in SUBSET S |-> g[s]] = rhs
    BY <2>1
  <2> QED
    BY <2>2, <2>3 DEF Iterates
<1>2. Iterates(CHOOSE h : Iterates(h, f, S), f, S)
  BY <1>1
<1>3. PICK h : h = CHOOSE k : Iterates(k, f, S)
  OBVIOUS
<1> QED
  BY <1>2, <1>3, AddsOnce, TotalIterates

\* A sum of natural numbers is the number of their units.
LEMMA TotalIsUnits ==
  ASSUME NEW S, IsFiniteSet(S), NEW f, Amounts(f, S)
  PROVE  Total(f, S) = Cardinality(Units(f, S)) /\ Total(f, S) \in Nat
<1> DEFINE g == [s \in SUBSET S |-> Cardinality(Units(f, s))]
<1>1. g[{}] = 0
  BY FS_EmptySet DEF Units
<1>2. ASSUME NEW s \in SUBSET S, NEW x \in s PROVE g[s] = f[x] + g[s \ {x}]
  <2>1. /\ IsFiniteSet(s \ {x}) /\ IsFiniteSet({x}) /\ s = {x} \cup (s \ {x})
        /\ {x} \cap (s \ {x}) = {}
    BY FS_Subset, FS_Singleton, s \ {x} \in SUBSET S
  <2>2. Amounts(f, {x} \cup (s \ {x}))
    BY DEF Amounts
  <2>3. Cardinality(Units(f, {x} \cup (s \ {x}))) =
          Cardinality(Units(f, {x})) + Cardinality(Units(f, s \ {x}))
    BY <2>1, <2>2, UnitsSplit
  <2>4. Units(f, {x}) = {x} \X (1 .. f[x])
    BY DEF Units
  <2>5. Cardinality({x} \X (1 .. f[x])) = f[x]
    BY UnitsOfOne DEF Amounts
  <2> QED
    BY <2>1, <2>3, <2>4, <2>5
<1>3. g = [s \in SUBSET S |-> g[s]] /\ g[S] = Cardinality(Units(f, S))
  OBVIOUS
<1> HIDE DEF g
<1>4. Adds(g, f, S)
  BY <1>1, <1>2, <1>3 DEF Adds
<1> QED
  BY <1>3, <1>4, TotalByAdds, UnitsFinite

\* Nothing adds up to nothing, and one number to itself.
LEMMA TotalEmpty == ASSUME NEW f PROVE Total(f, {}) = 0
<1>1. Amounts(f, {}) /\ IsFiniteSet({}) /\ Units(f, {}) = {}
  BY FS_EmptySet DEF Amounts, Units
<1> QED
  BY <1>1, TotalIsUnits, FS_EmptySet

LEMMA TotalOne ==
  ASSUME NEW f, NEW x, f[x] \in Nat PROVE Total(f, {x}) = f[x]
<1>1. Amounts(f, {x}) /\ IsFiniteSet({x})
  BY FS_Singleton DEF Amounts
<1>2. Units(f, {x}) = {x} \X (1 .. f[x])
  BY DEF Units
<1>3. Cardinality({x} \X (1 .. f[x])) = f[x]
  BY UnitsOfOne
<1>4. Total(f, {x}) = Cardinality(Units(f, {x}))
  BY <1>1, TotalIsUnits
<1> QED
  BY <1>2, <1>3, <1>4

\* The sum over two sets that share nothing is that of one and that of the other.
LEMMA TotalSplit ==
  ASSUME NEW A, NEW B, IsFiniteSet(A), IsFiniteSet(B), A \cap B = {},
         NEW f, Amounts(f, A \cup B)
  PROVE  Total(f, A \cup B) = Total(f, A) + Total(f, B)
<1>1. Amounts(f, A) /\ Amounts(f, B) /\ IsFiniteSet(A \cup B)
  BY DisjointSizes DEF Amounts
<1> QED
  BY <1>1, UnitsSplit, TotalIsUnits

\* The numbers of one sum are those of another.
Matches(h, f, A, g, B) ==
  /\ h \in [{a \in A : f[a] > 0} -> B]
  /\ \A a \in DOMAIN h : g[h[a]] = f[a]
  /\ \A a \in DOMAIN h : \A b \in DOMAIN h : h[a] = h[b] => a = b
  /\ \A b \in B : g[b] > 0 => \E a \in DOMAIN h : h[a] = b

\* Then they add up to the same.
LEMMA TotalMatch ==
  ASSUME NEW A, IsFiniteSet(A), NEW B, IsFiniteSet(B),
         NEW f, Amounts(f, A), NEW g, Amounts(g, B), NEW h, Matches(h, f, A, g, B)
  PROVE  Total(f, A) = Total(g, B)
<1> DEFINE k == [u \in Units(f, A) |-> <<h[u[1]], u[2]>>]
<1>1. \A u : u \in Units(f, A) <=> \E a \in A : \E n \in 1 .. f[a] : u = <<a, n>>
  BY DEF Units
<1>2. \A u : u \in Units(g, B) <=> \E b \in B : \E n \in 1 .. g[b] : u = <<b, n>>
  BY DEF Units
<1>3. \A a \in A : f[a] \in Nat /\ (1 .. f[a] # {} => a \in DOMAIN h)
  BY DEF Amounts, Matches
<1>4. \A u \in Units(f, A) : k[u] \in Units(g, B)
  <2> SUFFICES ASSUME NEW a \in A, NEW n \in 1 .. f[a] PROVE <<h[a], n>> \in Units(g, B)
    BY <1>1
  <2>1. a \in DOMAIN h /\ h[a] \in B /\ g[h[a]] = f[a]
    BY <1>3 DEF Matches
  <2> QED
    BY <1>2, <2>1
<1>5. ASSUME NEW u \in Units(f, A), NEW v \in Units(f, A), k[u] = k[v] PROVE u = v
  <2>1. PICK a \in A : \E m \in 1 .. f[a] : u = <<a, m>>
    BY <1>1
  <2>2. PICK b \in A : \E n \in 1 .. f[b] : v = <<b, n>>
    BY <1>1
  <2>m. PICK m \in 1 .. f[a] : u = <<a, m>>
    BY <2>1
  <2>n. PICK n \in 1 .. f[b] : v = <<b, n>>
    BY <2>2
  <2>3. <<h[a], m>> = <<h[b], n>>
    BY <1>5, <2>m, <2>n
  <2>4. a \in DOMAIN h /\ b \in DOMAIN h
    BY <1>3, <2>m, <2>n
  <2> QED
    BY <2>m, <2>n, <2>3, <2>4 DEF Matches
<1>6. ASSUME NEW v \in Units(g, B) PROVE \E u \in Units(f, A) : k[u] = v
  <2>b. PICK b \in B : \E n \in 1 .. g[b] : v = <<b, n>>
    BY <1>2
  <2>1. PICK n \in 1 .. g[b] : v = <<b, n>>
    BY <2>b
  <2>2. g[b] > 0
    BY <2>1 DEF Amounts
  <2>3. PICK a \in DOMAIN h : h[a] = b
    BY <2>2 DEF Matches
  <2>4. a \in A /\ n \in 1 .. f[a]
    BY <2>1, <2>3 DEF Matches
  <2>5. <<a, n>> \in Units(f, A)
    BY <1>1, <2>4
  <2> QED
    BY <2>1, <2>3, <2>5
<1>7. k \in Bijection(Units(f, A), Units(g, B))
  <2>1. k \in [Units(f, A) -> Units(g, B)]
    BY <1>4
  <2> HIDE DEF k
  <2> QED
    BY <1>5, <1>6, <2>1 DEF Bijection, Injection, Surjection, IsInjective
<1> QED
  BY <1>7, FS_Bijection, UnitsFinite, TotalIsUnits DEF ExistsBijection

\* Numbers that are no greater have no greater sum; nor have fewer of them.
LEMMA TotalMost ==
  ASSUME NEW B, IsFiniteSet(B), NEW A \in SUBSET B, NEW g, Amounts(g, B),
         NEW f, Amounts(f, A), \A x \in A : f[x] <= g[x]
  PROVE  Total(f, A) <= Total(g, B)
<1>1. IsFiniteSet(A)
  BY FS_Subset
<1>2. Units(f, A) \subseteq Units(g, B)
  BY DEF Units, Amounts
<1> QED
  BY <1>1, <1>2, TotalIsUnits, UnitsFinite, FS_Subset

\* What is sorted into some of the boxes.
Boxed(N, box, s) == {n \in N : box[n] \in s}

BoxSizes(f, D, N, box) == \A d \in D : f[d] = Cardinality({n \in N : box[n] = d})

\* The sizes of the boxes add up to what is in them.
LEMMA CountedByBox ==
  ASSUME NEW D, IsFiniteSet(D), NEW N, IsFiniteSet(N), NEW box, NEW f, BoxSizes(f, D, N, box)
  PROVE  Total(f, D) = Cardinality(Boxed(N, box, D))
<1> DEFINE g == [s \in SUBSET D |-> Cardinality(Boxed(N, box, s))]
<1>1. g[{}] = 0
  BY FS_EmptySet DEF Boxed
<1>2. ASSUME NEW s \in SUBSET D, NEW x \in s PROVE g[s] = f[x] + g[s \ {x}]
  <2>1. Boxed(N, box, s) = {n \in N : box[n] = x} \cup Boxed(N, box, s \ {x})
    BY DEF Boxed
  <2>2. {n \in N : box[n] = x} \cap Boxed(N, box, s \ {x}) = {}
    BY DEF Boxed
  <2>3. IsFiniteSet({n \in N : box[n] = x}) /\ IsFiniteSet(Boxed(N, box, s \ {x}))
    BY FS_Subset, {n \in N : box[n] = x} \in SUBSET N, Boxed(N, box, s \ {x}) \in SUBSET N
       DEF Boxed
  <2>4. Cardinality({n \in N : box[n] = x} \cup Boxed(N, box, s \ {x})) =
          Cardinality({n \in N : box[n] = x}) + Cardinality(Boxed(N, box, s \ {x}))
    BY <2>2, <2>3, DisjointSizes
  <2>5. f[x] = Cardinality({n \in N : box[n] = x})
    BY DEF BoxSizes
  <2> QED
    BY <2>1, <2>4, <2>5
<1>3. g = [s \in SUBSET D |-> g[s]] /\ g[D] = Cardinality(Boxed(N, box, D))
  OBVIOUS
<1> HIDE DEF g
<1>4. Adds(g, f, D)
  BY <1>1, <1>2, <1>3 DEF Adds
<1> QED
  BY <1>3, <1>4, TotalByAdds

LEMMA TotalCount ==
  ASSUME NEW D, IsFiniteSet(D), NEW N, IsFiniteSet(N), NEW box, NEW f,
         \A d \in D : f[d] = Cardinality({n \in N : box[n] = d})
  PROVE  Total(f, D) = Cardinality({n \in N : box[n] \in D})
<1>1. BoxSizes(f, D, N, box)
  BY DEF BoxSizes
<1>2. Total(f, D) = Cardinality(Boxed(N, box, D))
  BY <1>1, CountedByBox
<1> QED
  BY <1>2 DEF Boxed

\* The sums of the boxes add up to that of what is in them.
LEMMA TotalBoxed ==
  ASSUME NEW D, IsFiniteSet(D), NEW N, IsFiniteSet(N), NEW box, NEW f, NEW v, Amounts(v, N),
         \A d \in D : f[d] = Total(v, {n \in N : box[n] = d})
  PROVE  Total(f, D) = Total(v, {n \in N : box[n] \in D})
<1> DEFINE g == [s \in SUBSET D |-> Total(v, Boxed(N, box, s))]
<1>1. g[{}] = 0
  <2>1. Boxed(N, box, {}) = {}
    BY DEF Boxed
  <2> QED
    BY <2>1, TotalEmpty
<1>2. ASSUME NEW s \in SUBSET D, NEW x \in s PROVE g[s] = f[x] + g[s \ {x}]
  <2>1. Boxed(N, box, s) = {n \in N : box[n] = x} \cup Boxed(N, box, s \ {x})
    BY DEF Boxed
  <2>2. {n \in N : box[n] = x} \cap Boxed(N, box, s \ {x}) = {}
    BY DEF Boxed
  <2>3. IsFiniteSet({n \in N : box[n] = x}) /\ IsFiniteSet(Boxed(N, box, s \ {x}))
    BY FS_Subset, {n \in N : box[n] = x} \in SUBSET N, Boxed(N, box, s \ {x}) \in SUBSET N
       DEF Boxed
  <2>4. Amounts(v, {n \in N : box[n] = x} \cup Boxed(N, box, s \ {x}))
    BY DEF Amounts, Boxed
  <2>5. Total(v, Boxed(N, box, s)) =
          Total(v, {n \in N : box[n] = x}) + Total(v, Boxed(N, box, s \ {x}))
    BY <2>1, <2>2, <2>3, <2>4, TotalSplit
  <2> QED
    BY <2>5
<1>3. g = [s \in SUBSET D |-> g[s]] /\ g[D] = Total(v, {n \in N : box[n] \in D})
  BY DEF Boxed
<1> HIDE DEF g
<1>4. Adds(g, f, D)
  BY <1>1, <1>2, <1>3 DEF Adds
<1> QED
  BY <1>3, <1>4, TotalByAdds

\* The same numbers have the same sum.
LEMMA TotalSame ==
  ASSUME NEW S, IsFiniteSet(S), NEW f, Amounts(f, S), NEW g, \A x \in S : f[x] = g[x]
  PROVE  Total(f, S) = Total(g, S)
<1>1. Units(f, S) = Units(g, S) /\ Amounts(g, S)
  BY DEF Units, Amounts
<1> QED
  BY <1>1, TotalIsUnits

\* One number is no more than a sum it is part of.
LEMMA TotalHas ==
  ASSUME NEW S, IsFiniteSet(S), NEW f, Amounts(f, S), NEW x \in S
  PROVE  f[x] <= Total(f, S)
<1>1. f[x] \in Nat /\ {x} \in SUBSET S /\ Amounts(f, {x})
  BY DEF Amounts
<1>2. \A y \in {x} : f[y] <= f[y]
  BY <1>1
<1>3. Total(f, {x}) <= Total(f, S)
  BY <1>1, <1>2, TotalMost
<1> QED
  BY <1>1, <1>3, TotalOne

-----------------------------------------------------------------------------
(* The contribution report: what the queries count *)

\* Identities are finitely many, and no identity is a person or None.
LEMMA IdentityFinite ==
  /\ IsFiniteSet(Identity) /\ IsFiniteSet(Login) /\ IsFiniteSet(Email)
  /\ Login \subseteq Nat /\ None \notin Login /\ None \notin Email
  /\ Email \cap Login = {} /\ Contributor \cap Identity = {}
  /\ IsFiniteSet(Contributor \cup Identity)
<1>1. MaxLogin \in Nat /\ IsFiniteSet(Email) /\ IsFiniteSet(Contributor)
  BY ContributionAssumption
<1>2. IsFiniteSet(Login)
  BY <1>1, FS_Interval DEF Login
<1>3. IsFiniteSet(Identity)
  BY <1>1, <1>2, FS_Union DEF Identity
<1>4. IsFiniteSet(Contributor \cup Identity)
  BY <1>1, <1>3, FS_Union
<1>5. /\ Login \subseteq Nat /\ None \notin Login
      /\ 0 \in 0 .. MaxLogin /\ Login \subseteq 0 .. MaxLogin
  BY <1>1 DEF Login, None
<1>6. None \notin Email /\ Email \cap Login = {}
  BY <1>5, ContributionAssumption DEF None
<1>7. Contributor \cap Identity = {}
  BY ContributionAssumption DEF Identity, Login
<1> QED
  BY <1>1, <1>2, <1>3, <1>4, <1>5, <1>6, <1>7

\* So are the commits that can be told apart.
LEMMA CommitFinite == IsFiniteSet(Commit)
<1> DEFINE Kinds == [agent : BOOLEAN, revert : BOOLEAN]
           E == Email \cup {None}
           L == Login \cup {None}
<1>1. IsFiniteSet(Kind)
  <2>1. IsFiniteSet(BOOLEAN)
    <3>1. IsFiniteSet({TRUE})
      BY FS_Singleton
    <3>2. IsFiniteSet({TRUE} \cup {FALSE})
      BY <3>1, FS_AddElement
    <3>3. {TRUE} \cup {FALSE} = BOOLEAN
      OBVIOUS
    <3> QED
      BY <3>2, <3>3, Zenon
  <2>2. IsFiniteSet(BOOLEAN \X BOOLEAN)
    BY <2>1, FS_Product
  <2>3. [b \in BOOLEAN \X BOOLEAN |-> [agent |-> b[1], revert |-> b[2]]]
          \in Surjection(BOOLEAN \X BOOLEAN, Kinds)
    <3> DEFINE k == [b \in BOOLEAN \X BOOLEAN |-> [agent |-> b[1], revert |-> b[2]]]
    <3>1. k \in [BOOLEAN \X BOOLEAN -> Kinds]
      OBVIOUS
    <3>2. ASSUME NEW x \in Kinds PROVE \E b \in BOOLEAN \X BOOLEAN : k[b] = x
      <4>1. <<x.agent, x.revert>> \in BOOLEAN \X BOOLEAN
        OBVIOUS
      <4>2. k[<<x.agent, x.revert>>] = x
        BY <4>1
      <4> QED
        BY <4>1, <4>2
    <3> QED
      BY <3>1, <3>2 DEF Surjection
  <2>4. IsFiniteSet(Kinds)
    BY <2>2, <2>3, FS_Surjection
  <2> QED
    BY <2>4, FS_Subset, ContributionAssumption
<1>2. IsFiniteSet(E) /\ IsFiniteSet(L)
  BY IdentityFinite, FS_AddElement
<1>3. IsFiniteSet((E \X L) \X Kind)
  BY <1>1, <1>2, FS_Product
<1> DEFINE c == [t \in (E \X L) \X Kind |-> [email |-> t[1][1], login |-> t[1][2], kind |-> t[2]]]
<1>4. c \in [(E \X L) \X Kind -> Commit]
  BY DEF Commit
<1>5. ASSUME NEW x \in Commit PROVE \E t \in (E \X L) \X Kind : c[t] = x
  <2>1. <<<<x.email, x.login>>, x.kind>> \in (E \X L) \X Kind
    BY DEF Commit
  <2>2. c[<<<<x.email, x.login>>, x.kind>>] = x
    BY <2>1 DEF Commit
  <2> QED
    BY <2>1, <2>2
<1>6. c \in Surjection((E \X L) \X Kind, Commit)
  BY <1>4, <1>5 DEF Surjection
<1> QED
  BY <1>3, <1>6, FS_Surjection

\* An accumulator found under a key is of the email or of the login the key is.
AccOf(k, a) ==
  /\ a \in Acc
  /\ k \in Email => a.email = k
  /\ k \in Login => a.email = None /\ a.login = k
AccsOK(accs) ==
  /\ accs = [k \in DOMAIN accs |-> accs[k]]
  /\ DOMAIN accs \subseteq Identity
  /\ \A k \in DOMAIN accs : AccOf(k, accs[k])

\* Each count is carried by an accumulator of whom it is of, which carries no other of
\* its kind.
Holder(a, i) == (i \in Email /\ a.email = i) \/ (i \in Login /\ a.login = i)
Carries(h, f, accs, cnt) ==
  /\ h \in [{i \in Identity : cnt[f][i] > 0} -> DOMAIN accs]
  /\ \A i \in DOMAIN h : accs[h[i]].facts[f] = cnt[f][i] /\ Holder(accs[h[i]], i)
  /\ \A i \in DOMAIN h : \A j \in DOMAIN h : h[i] = h[j] => i = j
  /\ \A k \in DOMAIN accs : accs[k].facts[f] > 0 => \E i \in DOMAIN h : h[i] = k
Carried(accs, cnt) == \A f \in Fact : \E h : Carries(h, f, accs, cnt)
Counts == [Fact -> [Identity -> Nat]]

\* What no accumulator has yet.
NotYet(accs, f) == \A k \in DOMAIN accs : accs[k].facts[f] = 0

\* A source is written into accumulators, found or made, one for each it has a count of.
Writes(at, accs, accs2, f, val) ==
  /\ at \in [{i \in Identity : val[i] > 0} -> Identity]
  /\ \A i \in DOMAIN at : \A j \in DOMAIN at : at[i] = at[j] => i = j
  /\ DOMAIN accs2 = DOMAIN accs \cup {at[i] : i \in DOMAIN at}
  /\ accs2 = [k \in DOMAIN accs2 |-> accs2[k]]
  /\ \A k \in DOMAIN accs \ {at[i] : i \in DOMAIN at} : accs2[k] = accs[k]
  /\ \A i \in DOMAIN at :
       LET k == at[i]
       IN /\ AccOf(k, accs2[k]) /\ Holder(accs2[k], i)
          /\ accs2[k].facts[f] = val[i]
          /\ IF k \in DOMAIN accs
             THEN /\ accs2[k].email = accs[k].email /\ accs2[k].login = accs[k].login
                  /\ \A g \in Fact \ {f} : accs2[k].facts[g] = accs[k].facts[g]
             ELSE \A g \in Fact \ {f} : accs2[k].facts[g] = 0

\* Writing a source keeps what was carried and adds the source to it.
LEMMA WriteKeeps ==
  ASSUME NEW accs, AccsOK(accs), NEW cnt \in Counts, Carried(accs, cnt),
         NEW f \in Fact, NotYet(accs, f), NEW val \in [Identity -> Nat],
         NEW at, NEW accs2, Writes(at, accs, accs2, f, val)
  PROVE  /\ AccsOK(accs2)
         /\ Carried(accs2, [cnt EXCEPT ![f] = val])
         /\ \A g \in Fact \ {f} : NotYet(accs, g) => NotYet(accs2, g)
<1> DEFINE cnt2 == [cnt EXCEPT ![f] = val]
           Put == {at[i] : i \in DOMAIN at}
<1>1. AccsOK(accs2)
  <2>1. DOMAIN accs2 \subseteq Identity
    BY DEF AccsOK, Writes
  <2>2. ASSUME NEW k \in DOMAIN accs2 PROVE AccOf(k, accs2[k])
    <3>1. CASE k \in Put
      BY <3>1 DEF Writes
    <3>2. CASE k \notin Put
      BY <3>2 DEF Writes, AccsOK
    <3> QED
      BY <3>1, <3>2
  <2> QED
    BY <2>1, <2>2 DEF AccsOK, Writes
<1>2. \A k \in DOMAIN accs : /\ k \in DOMAIN accs2
                             /\ accs2[k].email = accs[k].email /\ accs2[k].login = accs[k].login
                             /\ \A g \in Fact \ {f} : accs2[k].facts[g] = accs[k].facts[g]
  <2> SUFFICES ASSUME NEW k \in DOMAIN accs
               PROVE  /\ k \in DOMAIN accs2
                      /\ accs2[k].email = accs[k].email /\ accs2[k].login = accs[k].login
                      /\ \A g \in Fact \ {f} : accs2[k].facts[g] = accs[k].facts[g]
    OBVIOUS
  <2>1. CASE k \in Put
    <3>1. PICK i \in DOMAIN at : at[i] = k
      BY <2>1
    <3> QED
      BY <3>1 DEF Writes
  <2>2. CASE k \notin Put
    BY <2>2 DEF Writes
  <2> QED
    BY <2>1, <2>2
<1>3. \A k \in DOMAIN accs2 \ DOMAIN accs : \A g \in Fact \ {f} : accs2[k].facts[g] = 0
  <2> SUFFICES ASSUME NEW k \in DOMAIN accs2 \ DOMAIN accs, NEW g \in Fact \ {f}
               PROVE  accs2[k].facts[g] = 0
    OBVIOUS
  <2>1. PICK i \in DOMAIN at : at[i] = k
    BY DEF Writes
  <2> QED
    BY <2>1 DEF Writes
<1>4. ASSUME NEW g \in Fact \ {f} PROVE \E h : Carries(h, g, accs2, cnt2)
  <2>1. PICK h : Carries(h, g, accs, cnt)
    BY DEF Carried
  <2>2. cnt2[g] = cnt[g]
    BY DEF Counts
  <2>3. h \in [{i \in Identity : cnt2[g][i] > 0} -> DOMAIN accs2]
    BY <2>1, <2>2, <1>2 DEF Carries
  <2>4. \A i \in DOMAIN h : accs2[h[i]].facts[g] = cnt2[g][i] /\ Holder(accs2[h[i]], i)
    BY <2>1, <2>2, <1>2 DEF Carries, Holder
  <2>5. \A k \in DOMAIN accs2 : accs2[k].facts[g] > 0 => \E i \in DOMAIN h : h[i] = k
    <3> SUFFICES ASSUME NEW k \in DOMAIN accs2, accs2[k].facts[g] > 0
                 PROVE  \E i \in DOMAIN h : h[i] = k
      OBVIOUS
    <3>1. k \in DOMAIN accs
      BY <1>3
    <3> QED
      BY <2>1, <3>1, <1>2 DEF Carries
  <2> QED
    BY <2>1, <2>3, <2>4, <2>5 DEF Carries
<1>5. Carries(at, f, accs2, cnt2)
  <2>1. cnt2[f] = val
    BY DEF Counts
  <2>2. \A k \in DOMAIN accs2 : accs2[k].facts[f] > 0 => \E i \in DOMAIN at : at[i] = k
    <3> SUFFICES ASSUME NEW k \in DOMAIN accs2, k \notin Put PROVE ~(accs2[k].facts[f] > 0)
      OBVIOUS
    <3>1. k \in DOMAIN accs /\ accs2[k] = accs[k]
      BY DEF Writes
    <3> QED
      BY <3>1 DEF NotYet
  <2>3. at \in [{i \in Identity : cnt2[f][i] > 0} -> DOMAIN accs2]
    BY <2>1 DEF Writes
  <2>4. \A i \in DOMAIN at : accs2[at[i]].facts[f] = cnt2[f][i] /\ Holder(accs2[at[i]], i)
    BY <2>1 DEF Writes
  <2>5. \A i \in DOMAIN at : \A j \in DOMAIN at : at[i] = at[j] => i = j
    BY DEF Writes
  <2> QED
    BY <2>2, <2>3, <2>4, <2>5 DEF Carries
<1>6. Carried(accs2, cnt2)
  BY <1>4, <1>5 DEF Carried
<1>7. \A g \in Fact \ {f} : NotYet(accs, g) => NotYet(accs2, g)
  BY <1>2, <1>3 DEF NotYet
<1> QED
  BY <1>1, <1>6, <1>7

\* Rows, and what the queries keep of them.
RowsTyped ==
  /\ commits \in [Commit -> 0 .. MaxRows]
  /\ mergedPRs \in [Login -> 0 .. MaxRows]
  /\ reviewed \in [Login -> 0 .. MaxRows]
  /\ touched \in [Email -> 0 .. MaxRows]
  /\ query \in Query

\* Rows are numbers.
LEMMA RowsAmount ==
  ASSUME RowsTyped
  PROVE  /\ Amounts(commits, Commit) /\ Amounts(mergedPRs, Login)
         /\ Amounts(reviewed, Login) /\ Amounts(touched, Email)
BY DEF RowsTyped, Amounts

\* The commits of an identity are finitely many.
LEMMA OfFinite ==
  ASSUME RowsTyped, NEW i, NEW S \in SUBSET Of(i)
  PROVE  S \subseteq Commit /\ IsFiniteSet(S) /\ Total(commits, S) \in Nat
<1>1. S \subseteq Commit
  BY DEF Of
<1>2. IsFiniteSet(S)
  BY <1>1, CommitFinite, FS_Subset
<1>3. Amounts(commits, S)
  BY <1>1, RowsAmount DEF Amounts
<1> QED
  BY <1>1, <1>2, <1>3, TotalIsUnits

\* What the commits of an identity are added up to is an accumulator of it.
LEMMA CommitAccIs ==
  ASSUME RowsTyped, NEW i \in Identity, Of(i) # {}
  PROVE  AccOf(i, CommitAcc(i)) /\ Holder(CommitAcc(i), i)
         /\ \A f \in {"merged", "reviewed", "touched"} : CommitAcc(i).facts[f] = 0
<1> DEFINE logins == {c.login : c \in Of(i)}
           bot == \A c \in Of(i) : c.kind.agent
           human == CountOf(i, LAMBDA c : ~c.kind.agent)
           agent == CountOf(i, LAMBDA c : c.kind.agent)
           reverts == CountOf(i, LAMBDA c : c.kind.revert)
<1>1. human \in Nat /\ agent \in Nat /\ reverts \in Nat
  <2>1. /\ {c \in Of(i) : ~c.kind.agent} \in SUBSET Of(i)
        /\ {c \in Of(i) : c.kind.agent} \in SUBSET Of(i)
        /\ {c \in Of(i) : c.kind.revert} \in SUBSET Of(i)
    OBVIOUS
  <2> QED
    BY <2>1, OfFinite DEF CountOf
<1>2. logins \in SUBSET (0 .. MaxLogin) /\ logins # {} /\ MaxLogin \in Nat
  <2>1. MaxLogin \in Nat
    BY ContributionAssumption
  <2>2. \A c \in Of(i) : c.login \in 0 .. MaxLogin
    BY <2>1 DEF Of, Commit, Login, None
  <2> QED
    BY <2>1, <2>2
<1>3. Max(logins) \in logins
  <2> HIDE DEF logins
  <2> QED
    BY <1>2, MaxIsGreatest
<1>4. Max(logins) \in Login \cup {None}
  BY <1>3 DEF Of, Commit
<1>5. i \in Login => Max(logins) = i
  <2> SUFFICES ASSUME i \in Login PROVE Max(logins) = i
    OBVIOUS
  <2>1. \A c \in Of(i) : c.login = i
    <3> SUFFICES ASSUME NEW c \in Of(i) PROVE c.login = i
      OBVIOUS
    <3>1. c \in Commit /\ IdentOf(c) = i /\ i \notin Email
      BY IdentityFinite DEF Of
    <3>2. c.email \in Email \cup {None}
      BY <3>1 DEF Commit
    <3> QED
      BY <3>1, <3>2 DEF IdentOf
  <2> QED
    BY <1>3, <2>1
<1>6. bot \in BOOLEAN
  OBVIOUS
<1>7. [Nothing EXCEPT !["human"] = human, !["agent"] = agent, !["reverts"] = reverts]
        \in [Fact -> Nat]
  <2> HIDE DEF human, agent, reverts
  <2> QED
    BY <1>1 DEF Nothing, Fact
<1>8. CommitAcc(i) =
        [email |-> IF i \in Email THEN i ELSE None, login |-> Max(logins), bot |-> bot,
         facts |-> [Nothing EXCEPT !["human"] = human, !["agent"] = agent,
                                   !["reverts"] = reverts]]
  BY DEF CommitAcc
<1> HIDE DEF logins, bot, human, agent, reverts
<1>9. CommitAcc(i) \in Acc
  BY <1>4, <1>6, <1>7, <1>8 DEF Acc
<1>10. AccOf(i, CommitAcc(i)) /\ Holder(CommitAcc(i), i)
  <2>1. i \in Email \/ i \in Login
    BY DEF Identity
  <2>2. ~(i \in Email /\ i \in Login)
    BY IdentityFinite
  <2>3. /\ CommitAcc(i).email = (IF i \in Email THEN i ELSE None)
        /\ CommitAcc(i).login = Max(logins)
    BY <1>8
  <2> QED
    BY <1>5, <1>9, <2>1, <2>2, <2>3 DEF AccOf, Holder
<1>11. \A f \in {"merged", "reviewed", "touched"} : CommitAcc(i).facts[f] = 0
  BY <1>8 DEF Nothing, Fact
<1> QED
  BY <1>10, <1>11

\* The invariant of a report: what the queries have counted is in the accumulators.
ToCome ==
  IF query = "commits" THEN {"merged", "reviewed", "touched"}
  ELSE IF query = "merged" THEN {"merged", "reviewed", "touched"}
  ELSE IF query = "reviewed" THEN {"reviewed", "touched"}
  ELSE IF query = "touched" THEN {"touched"} ELSE {}

AccsInv ==
  /\ AccsOK(acc)
  /\ counted \in Counts
  /\ Carried(acc, counted)
  /\ \A f \in ToCome : NotYet(acc, f)

Grouping == person \in [Identity -> Contributor \cup {Nobody}] /\ left_out \subseteq Contributor

AnswerInv ==
  /\ query = "answered" => report = Profiles(Members(acc, person, left_out))
  /\ query # "answered" => report = EmptyMap

ReportInv == RowsTyped /\ AccsInv /\ Grouping /\ AnswerInv

\* The first query makes the accumulators, and they carry what it read (QueryCommits).
LEMMA CommitsRead ==
  ASSUME ReportInv, QueryCommits
  PROVE  AccsInv'
<1> DEFINE idents == {i \in Identity : Of(i) # {}}
           accs == [i \in idents |-> CommitAcc(i)]
           cnt == [f \in Fact |->
                    [i \in Identity |-> IF i \in idents THEN CommitAcc(i).facts[f] ELSE 0]]
<1>1. acc' = accs /\ counted' = cnt /\ query' = "merged"
  BY DEF QueryCommits
<1>2. \A i \in idents : /\ AccOf(i, CommitAcc(i)) /\ Holder(CommitAcc(i), i)
                        /\ \A f \in {"merged", "reviewed", "touched"} : CommitAcc(i).facts[f] = 0
  BY CommitAccIs DEF ReportInv
<1>3. AccsOK(accs)
  BY <1>2 DEF AccsOK
<1>4. cnt \in Counts
  <2>1. ASSUME NEW i \in idents, NEW f \in Fact PROVE CommitAcc(i).facts[f] \in Nat
    BY <1>2 DEF AccOf, Acc
  <2> HIDE DEF idents
  <2> QED
    BY <2>1 DEF Counts
<1>5. ASSUME NEW f \in Fact PROVE \E h : Carries(h, f, accs, cnt)
  <2> DEFINE h == [i \in {j \in Identity : cnt[f][j] > 0} |-> i]
  <2>1. \A i \in Identity : cnt[f][i] = IF i \in idents THEN CommitAcc(i).facts[f] ELSE 0
    OBVIOUS
  <2>2. DOMAIN h \subseteq idents /\ \A i \in DOMAIN h : h[i] = i
    BY <2>1
  <2>3. DOMAIN h = {j \in Identity : cnt[f][j] > 0}
    OBVIOUS
  <2>4. DOMAIN accs = idents /\ \A i \in idents : accs[i] = CommitAcc(i)
    OBVIOUS
  <2>5. \A i \in idents : accs[i].facts[f] > 0 => i \in DOMAIN h
    BY <2>1, <2>3, <2>4
  <2>6. h = [i \in DOMAIN h |-> h[i]]
    OBVIOUS
  <2>7. \A i \in idents : Holder(accs[i], i) /\ accs[i].facts[f] = cnt[f][i]
    BY <1>2, <2>1, <2>4
  <2> HIDE DEF h, accs, cnt, idents
  <2>8. h \in [{i \in Identity : cnt[f][i] > 0} -> DOMAIN accs]
    BY <2>2, <2>3, <2>4, <2>6
  <2>9. Carries(h, f, accs, cnt)
    BY <2>2, <2>4, <2>5, <2>7, <2>8 DEF Carries
  <2> QED
    BY <2>9
<1>6. \A f \in {"merged", "reviewed", "touched"} : NotYet(accs, f)
  BY <1>2 DEF NotYet
<1>7. ToCome' = {"merged", "reviewed", "touched"}
  BY <1>1 DEF ToCome
<1> QED
  BY <1>1, <1>3, <1>4, <1>5, <1>6, <1>7 DEF AccsInv, Carried

\* A login is at home where it is the login, or under itself.
LEMMA HomesAre ==
  ASSUME NEW accs, AccsOK(accs), NEW l \in Login, NEW k \in Homes(accs, l)
  PROVE  \/ k \in DOMAIN accs /\ accs[k].login = l
         \/ k = l /\ k \notin DOMAIN accs
BY DEF Homes, AccsOK, AccOf

\* Wherever each login is found at home, its source is written (ByLogin).
LEMMA ByLoginWrites ==
  ASSUME AccsInv, NEW f \in Fact, NEW source \in [Login -> Nat], ByLogin(source, f)
  PROVE  \E val \in [Identity -> Nat] :
           /\ \E at : Writes(at, acc, acc', f, val)
           /\ counted' = [counted EXCEPT ![f] = val]
<1> DEFINE val == [i \in Identity |-> IF i \in Login THEN source[i] ELSE 0]
           Sources == {l \in Login : source[l] > 0}
<1>1. PICK home \in [Sources -> Identity] :
        /\ \A l \in DOMAIN home : home[l] \in Homes(acc, l)
        /\ LET at(k) == {l \in DOMAIN home : home[l] = k}
           IN acc' = [k \in DOMAIN acc \cup {home[l] : l \in DOMAIN home} |->
                IF at(k) = {} THEN acc[k]
                ELSE [Found(acc, k, None, k) EXCEPT
                        !.facts[f] = source[CHOOSE l \in at(k) : TRUE]]]
  BY DEF ByLogin
<1>2. Login \subseteq Identity /\ AccsOK(acc)
  BY DEF Identity, AccsInv
<1>3. \A l \in Sources : \/ home[l] \in DOMAIN acc /\ acc[home[l]].login = l
                         \/ home[l] = l /\ l \notin DOMAIN acc
  BY <1>1, <1>2, HomesAre
<1>4. \A l \in Sources : \A m \in Sources : home[l] = home[m] => l = m
  BY <1>3
<1>5. DOMAIN home = Sources
  OBVIOUS
<1>6. ASSUME NEW l \in Sources
      PROVE  acc'[home[l]] = [Found(acc, home[l], None, home[l]) EXCEPT !.facts[f] = source[l]]
  <2>1. {m \in DOMAIN home : home[m] = home[l]} = {l}
    BY <1>4, <1>5
  <2>2. (CHOOSE m \in {m \in DOMAIN home : home[m] = home[l]} : TRUE) = l
    BY <2>1
  <2>3. home[l] \in DOMAIN acc \cup {home[m] : m \in DOMAIN home}
    BY <1>5
  <2> QED
    BY <1>1, <2>1, <2>2, <2>3
<1>7. DOMAIN acc' = DOMAIN acc \cup {home[l] : l \in DOMAIN home}
      /\ acc' = [k \in DOMAIN acc' |-> acc'[k]]
      /\ \A k \in DOMAIN acc \ {home[l] : l \in DOMAIN home} : acc'[k] = acc[k]
  BY <1>1
<1>8. {i \in Identity : val[i] > 0} = Sources
  BY <1>2
<1>9. ASSUME NEW l \in Sources
      PROVE  LET k == home[l]
             IN /\ AccOf(k, acc'[k]) /\ Holder(acc'[k], l)
                /\ acc'[k].facts[f] = val[l]
                /\ IF k \in DOMAIN acc
                   THEN /\ acc'[k].email = acc[k].email /\ acc'[k].login = acc[k].login
                        /\ \A g \in Fact \ {f} : acc'[k].facts[g] = acc[k].facts[g]
                   ELSE \A g \in Fact \ {f} : acc'[k].facts[g] = 0
  <2>1. PICK k : k = home[l]
    OBVIOUS
  <2>2. PICK a : a = Found(acc, k, None, k)
    OBVIOUS
  <2>3. acc'[k] = [a EXCEPT !.facts[f] = source[l]]
    BY <1>6, <2>1, <2>2
  <2>4. source[l] \in Nat /\ val[l] = source[l] /\ l \in Login
    BY <1>2
  <2>5. CASE k \in DOMAIN acc
    <3>1. a = acc[k] /\ acc[k].login = l /\ AccOf(k, a)
      BY <1>2, <1>3, <2>1, <2>2, <2>5 DEF Found, AccsOK
    <3>2. a \in Acc
      BY <3>1 DEF AccOf
    <3>3. /\ acc'[k].email = a.email /\ acc'[k].login = a.login /\ acc'[k].facts[f] = source[l]
          /\ \A g \in Fact \ {f} : acc'[k].facts[g] = a.facts[g]
          /\ acc'[k] \in Acc
      BY <2>3, <2>4, <3>2 DEF Acc
    <3> QED
      BY <2>1, <2>4, <2>5, <3>1, <3>3 DEF AccOf, Holder
  <2>6. CASE k \notin DOMAIN acc
    <3>1. k = l /\ a = [email |-> None, login |-> l, bot |-> FALSE, facts |-> Nothing]
      BY <1>3, <2>1, <2>2, <2>6 DEF Found
    <3>2. l \notin Email
      BY <2>4, IdentityFinite
    <3>3. /\ acc'[k].email = None /\ acc'[k].login = l /\ acc'[k].facts[f] = source[l]
          /\ \A g \in Fact \ {f} : acc'[k].facts[g] = 0
          /\ acc'[k] \in Acc
      <4>1. a \in Acc
        BY <2>4, <3>1 DEF Acc, Nothing
      <4>2. /\ acc'[k].email = a.email /\ acc'[k].login = a.login
            /\ acc'[k].facts[f] = source[l]
            /\ \A g \in Fact \ {f} : acc'[k].facts[g] = a.facts[g]
            /\ acc'[k] \in Acc
        BY <2>3, <2>4, <4>1 DEF Acc
      <4>3. a.email = None /\ a.login = l /\ \A g \in Fact : a.facts[g] = 0
        BY <3>1 DEF Nothing
      <4> QED
        BY <4>2, <4>3
    <3> QED
      BY <2>1, <2>4, <2>6, <3>1, <3>2, <3>3 DEF AccOf, Holder
  <2> QED
    BY <2>5, <2>6
<1>10. val \in [Identity -> Nat]
  OBVIOUS
<1>11. counted' = [counted EXCEPT ![f] = val]
  BY DEF ByLogin
<1> HIDE DEF val, Sources
<1>12. Writes(home, acc, acc', f, val)
  BY <1>4, <1>5, <1>7, <1>8, <1>9 DEF Writes
<1> QED
  BY <1>10, <1>11, <1>12

\* And a source per email to the accumulator of the email (QueryTouched).
LEMMA TouchedWrites ==
  ASSUME AccsInv, RowsTyped, QueryTouched
  PROVE  \E val \in [Identity -> Nat] :
           /\ \E at : Writes(at, acc, acc', "touched", val)
           /\ counted' = [counted EXCEPT !["touched"] = val]
<1> DEFINE val == [i \in Identity |-> IF i \in Email THEN touched[i] ELSE 0]
           Sources == {e \in Email : touched[e] > 0}
           at == [e \in Sources |-> e]
<1>1. acc' = [k \in DOMAIN acc \cup Sources |->
          IF k \in Sources THEN [Found(acc, k, k, None) EXCEPT !.facts["touched"] = touched[k]]
          ELSE acc[k]]
  BY DEF QueryTouched
<1>2. Email \subseteq Identity /\ AccsOK(acc)
  BY DEF Identity, AccsInv
<1>3. \A e \in Email : touched[e] \in Nat
  BY RowsAmount DEF Amounts
<1>4. {i \in Identity : val[i] > 0} = Sources /\ Sources = {at[e] : e \in Sources}
  <2>1. {i \in Identity : val[i] > 0} = Sources
    BY <1>2
  <2>2. \A e \in Sources : at[e] = e
    OBVIOUS
  <2> HIDE DEF at, Sources, val
  <2> QED
    BY <2>1, <2>2
<1>5. ASSUME NEW k \in Sources
      PROVE  /\ AccOf(k, acc'[k]) /\ Holder(acc'[k], k)
             /\ acc'[k].facts["touched"] = val[k]
             /\ IF k \in DOMAIN acc
                THEN /\ acc'[k].email = acc[k].email /\ acc'[k].login = acc[k].login
                     /\ \A g \in Fact \ {"touched"} : acc'[k].facts[g] = acc[k].facts[g]
                ELSE \A g \in Fact \ {"touched"} : acc'[k].facts[g] = 0
  <2>2. PICK a : a = Found(acc, k, k, None)
    OBVIOUS
  <2>3. acc'[k] = [a EXCEPT !.facts["touched"] = touched[k]]
    BY <1>1, <2>2
  <2>4. touched[k] \in Nat /\ val[k] = touched[k] /\ k \in Email /\ k \notin Login
    BY <1>2, <1>3, IdentityFinite
  <2>5. a \in Acc /\ a.email = k
    <3>1. CASE k \in DOMAIN acc
      BY <1>2, <2>2, <2>4, <3>1 DEF Found, AccsOK, AccOf
    <3>2. CASE k \notin DOMAIN acc
      BY <2>2, <2>4, <3>2 DEF Found, Acc, Nothing
    <3> QED
      BY <3>1, <3>2
  <2>6. /\ acc'[k].email = a.email /\ acc'[k].login = a.login
        /\ acc'[k].facts["touched"] = touched[k]
        /\ \A g \in Fact \ {"touched"} : acc'[k].facts[g] = a.facts[g]
        /\ acc'[k] \in Acc
    BY <2>3, <2>4, <2>5 DEF Acc, Fact
  <2>7. k \in DOMAIN acc => a = acc[k]
    BY <2>2 DEF Found
  <2>8. k \notin DOMAIN acc => \A g \in Fact : a.facts[g] = 0
    BY <2>2 DEF Found, Nothing
  <2> QED
    BY <2>4, <2>5, <2>6, <2>7, <2>8 DEF AccOf, Holder
<1>6. /\ DOMAIN acc' = DOMAIN acc \cup Sources
      /\ acc' = [k \in DOMAIN acc' |-> acc'[k]]
      /\ \A k \in DOMAIN acc \ Sources : acc'[k] = acc[k]
  BY <1>1
<1>7. val \in [Identity -> Nat]
  BY <1>3
<1>8. counted' = [counted EXCEPT !["touched"] = val]
  BY DEF QueryTouched
<1>9. at \in [Sources -> Identity] /\ DOMAIN at = Sources /\ \A e \in Sources : at[e] = e
  BY <1>2
<1> HIDE DEF val, Sources, at
<1>10. Writes(at, acc, acc', "touched", val)
  BY <1>4, <1>5, <1>6, <1>9 DEF Writes
<1> QED
  BY <1>7, <1>8, <1>10

\* A source that is written keeps the invariant of the accumulators.
LEMMA WrittenKept ==
  ASSUME AccsInv, NEW f \in Fact, f \in ToCome, NEW val \in [Identity -> Nat],
         NEW at, Writes(at, acc, acc', f, val), counted' = [counted EXCEPT ![f] = val],
         ToCome' = ToCome \ {f}
  PROVE  AccsInv'
<1>1. AccsOK(acc) /\ counted \in Counts /\ Carried(acc, counted) /\ NotYet(acc, f)
  BY DEF AccsInv
<1>2. /\ AccsOK(acc')
      /\ Carried(acc', [counted EXCEPT ![f] = val])
      /\ \A g \in Fact \ {f} : NotYet(acc, g) => NotYet(acc', g)
  BY <1>1, WriteKeeps
<1>3. [counted EXCEPT ![f] = val] \in Counts
  BY <1>1 DEF Counts
<1>4. ToCome \subseteq Fact
  BY DEF ToCome, Fact
<1>5. \A g \in ToCome' : NotYet(acc', g)
  BY <1>2, <1>4 DEF AccsInv
<1> QED
  BY <1>2, <1>3, <1>5 DEF AccsInv

\* So each query after the first keeps the invariant.
LEMMA SourcesRead ==
  ASSUME ReportInv, QueryMerged \/ QueryReviewed \/ QueryTouched
  PROVE  AccsInv'
<1>1. AccsInv /\ RowsTyped
  BY DEF ReportInv
<1>2. mergedPRs \in [Login -> Nat] /\ reviewed \in [Login -> Nat] /\ MaxRows \in Nat
  BY <1>1, ContributionAssumption DEF RowsTyped
<1>3. CASE QueryMerged
  <2>1. query = "merged" /\ query' = "reviewed" /\ ByLogin(mergedPRs, "merged")
    BY <1>3 DEF QueryMerged
  <2>2. "merged" \in ToCome /\ ToCome' = ToCome \ {"merged"} /\ "merged" \in Fact
    BY <2>1 DEF ToCome, Fact
  <2>3. PICK val \in [Identity -> Nat] :
           /\ \E at : Writes(at, acc, acc', "merged", val)
           /\ counted' = [counted EXCEPT !["merged"] = val]
    BY <1>1, <1>2, <2>1, <2>2, ByLoginWrites
  <2> QED
    BY <1>1, <2>2, <2>3, WrittenKept
<1>4. CASE QueryReviewed
  <2>1. query = "reviewed" /\ query' = "touched" /\ ByLogin(reviewed, "reviewed")
    BY <1>4 DEF QueryReviewed
  <2>2. "reviewed" \in ToCome /\ ToCome' = ToCome \ {"reviewed"} /\ "reviewed" \in Fact
    BY <2>1 DEF ToCome, Fact
  <2>3. PICK val \in [Identity -> Nat] :
           /\ \E at : Writes(at, acc, acc', "reviewed", val)
           /\ counted' = [counted EXCEPT !["reviewed"] = val]
    BY <1>1, <1>2, <2>1, <2>2, ByLoginWrites
  <2> QED
    BY <1>1, <2>2, <2>3, WrittenKept
<1>5. CASE QueryTouched
  <2>1. query = "touched" /\ query' = "collapse"
    BY <1>5 DEF QueryTouched
  <2>2. "touched" \in ToCome /\ ToCome' = ToCome \ {"touched"} /\ "touched" \in Fact
    BY <2>1 DEF ToCome, Fact
  <2>3. PICK val \in [Identity -> Nat] :
           /\ \E at : Writes(at, acc, acc', "touched", val)
           /\ counted' = [counted EXCEPT !["touched"] = val]
    BY <1>1, <1>5, TouchedWrites
  <2> QED
    BY <1>1, <2>2, <2>3, WrittenKept
<1> QED
  BY <1>3, <1>4, <1>5

\* A row that arrives is one more.
LEMMA ArriveTyped ==
  ASSUME RowsTyped, Arrive PROVE RowsTyped'
<1>1. /\ IsFiniteSet(Commit) /\ IsFiniteSet(Login) /\ IsFiniteSet(Email) /\ MaxRows \in Nat
  BY CommitFinite, IdentityFinite, ContributionAssumption
<1>2. PICK a, b, c, d : /\ a = Total(commits, Commit) /\ b = Total(mergedPRs, Login)
                        /\ c = Total(reviewed, Login) /\ d = Total(touched, Email)
  OBVIOUS
<1>3. a \in Nat /\ b \in Nat /\ c \in Nat /\ d \in Nat
  BY <1>1, <1>2, RowsAmount, TotalIsUnits
<1>4. a + b + c + d < MaxRows
  BY <1>2 DEF Arrive, Rows
<1>5. a < MaxRows /\ b < MaxRows /\ c < MaxRows /\ d < MaxRows
  BY <1>1, <1>3, <1>4
<1>6. /\ \A x \in Commit : commits[x] <= a
      /\ \A x \in Login : mergedPRs[x] <= b
      /\ \A x \in Login : reviewed[x] <= c
      /\ \A x \in Email : touched[x] <= d
  BY <1>1, <1>2, RowsAmount, TotalHas
<1>7. /\ \A x \in Commit : commits[x] + 1 \in 0 .. MaxRows
      /\ \A x \in Login : mergedPRs[x] + 1 \in 0 .. MaxRows
      /\ \A x \in Login : reviewed[x] + 1 \in 0 .. MaxRows
      /\ \A x \in Email : touched[x] + 1 \in 0 .. MaxRows
  <2>1. /\ \A x \in Commit : commits[x] \in Nat
        /\ \A x \in Login : mergedPRs[x] \in Nat
        /\ \A x \in Login : reviewed[x] \in Nat
        /\ \A x \in Email : touched[x] \in Nat
    BY RowsAmount DEF Amounts
  <2> QED
    BY <1>1, <1>3, <1>5, <1>6, <2>1
<1>8. query' = query /\ query \in Query
  BY DEF Arrive, RowsTyped
<1>9. CASE \E c0 \in Commit : /\ commits' = [commits EXCEPT ![c0] = @ + 1]
                              /\ UNCHANGED <<mergedPRs, reviewed, touched>>
  BY <1>7, <1>8, <1>9 DEF RowsTyped
<1>10. CASE \E l \in Login : /\ mergedPRs' = [mergedPRs EXCEPT ![l] = @ + 1]
                             /\ UNCHANGED <<commits, reviewed, touched>>
  BY <1>7, <1>8, <1>10 DEF RowsTyped
<1>11. CASE \E l \in Login : /\ reviewed' = [reviewed EXCEPT ![l] = @ + 1]
                             /\ UNCHANGED <<commits, mergedPRs, touched>>
  BY <1>7, <1>8, <1>11 DEF RowsTyped
<1>12. CASE \E e \in Email : /\ touched' = [touched EXCEPT ![e] = @ + 1]
                             /\ UNCHANGED <<commits, mergedPRs, reviewed>>
  BY <1>7, <1>8, <1>12 DEF RowsTyped
<1> QED
  BY <1>9, <1>10, <1>11, <1>12 DEF Arrive

\* The invariant holds at the start, and every step keeps it.
LEMMA ReportInitially == ContributionInit => ReportInv
<1> SUFFICES ASSUME ContributionInit PROVE ReportInv
  OBVIOUS
<1>1. RowsTyped
  BY ContributionAssumption DEF ContributionInit, RowsTyped, Query
<1>2. acc = EmptyMap /\ DOMAIN acc = {} /\ acc = [k \in DOMAIN acc |-> acc[k]]
  BY DEF ContributionInit, EmptyMap
<1>3. AccsOK(acc) /\ \A f \in Fact : NotYet(acc, f)
  BY <1>2 DEF AccsOK, NotYet
<1>4. counted \in Counts /\ \A f \in Fact : \A i \in Identity : counted[f][i] = 0
  BY DEF ContributionInit, Counts
<1>5. ASSUME NEW f \in Fact PROVE \E h : Carries(h, f, acc, counted)
  <2>1. {i \in Identity : counted[f][i] > 0} = {}
    BY <1>4
  <2>2. acc \in [{} -> DOMAIN acc]
    BY <1>2
  <2>3. Carries(acc, f, acc, counted)
    BY <1>2, <2>1, <2>2 DEF Carries
  <2> QED
    BY <2>3
<1>6. ToCome \subseteq Fact
  BY DEF ToCome, Fact
<1>7. AccsInv
  BY <1>3, <1>4, <1>5, <1>6 DEF AccsInv, Carried
<1>8. Grouping /\ AnswerInv
  BY DEF ContributionInit, Grouping, AnswerInv
<1> QED
  BY <1>1, <1>7, <1>8 DEF ReportInv

LEMMA ReportLasts == ReportInv /\ [ContributionNext]_contributionVars => ReportInv'
<1> SUFFICES ASSUME ReportInv, [ContributionNext]_contributionVars PROVE ReportInv'
  OBVIOUS
<1>1. RowsTyped /\ AccsInv /\ Grouping /\ AnswerInv
  BY DEF ReportInv
<1>2. CASE Arrive
  <2>1. RowsTyped'
    BY <1>1, <1>2, ArriveTyped
  <2>2. UNCHANGED <<query, acc, counted, person, left_out, report>>
    BY <1>2 DEF Arrive
  <2>3. AccsInv'
    BY <1>1, <2>2 DEF AccsInv, ToCome
  <2>4. Grouping' /\ AnswerInv'
    BY <1>1, <2>2 DEF Grouping, AnswerInv
  <2> QED
    BY <2>1, <2>3, <2>4 DEF ReportInv
<1>3. CASE QueryCommits \/ QueryMerged \/ QueryReviewed \/ QueryTouched
  <2>1. UNCHANGED <<rowVars, person, left_out, report>>
    BY <1>3 DEF QueryCommits, QueryMerged, QueryReviewed, QueryTouched, ByLogin
  <2>2. query # "answered" /\ query' \in Query /\ query' # "answered"
    BY <1>3 DEF QueryCommits, QueryMerged, QueryReviewed, QueryTouched, Query
  <2>3. AccsInv'
    BY <1>3, CommitsRead, SourcesRead
  <2>4. RowsTyped'
    BY <1>1, <2>1, <2>2 DEF RowsTyped, rowVars
  <2>5. Grouping' /\ AnswerInv'
    BY <1>1, <2>1, <2>2 DEF Grouping, AnswerInv
  <2> QED
    BY <2>3, <2>4, <2>5 DEF ReportInv
<1>4. CASE QueryFails
  <2>1. /\ UNCHANGED <<rowVars, acc, counted, person, left_out, report>>
        /\ query = "commits" /\ query' = "failed"
    BY <1>4 DEF QueryFails
  <2>2. ToCome' = {}
    BY <2>1 DEF ToCome
  <2>3. AccsInv'
    BY <1>1, <2>1, <2>2 DEF AccsInv
  <2>4. RowsTyped' /\ Grouping' /\ AnswerInv'
    BY <1>1, <2>1 DEF RowsTyped, rowVars, Query, Grouping, AnswerInv
  <2> QED
    BY <2>3, <2>4 DEF ReportInv
<1>5. CASE AnswerReport
  <2>1. /\ UNCHANGED <<rowVars, acc, counted>>
        /\ query = "collapse" /\ query' = "answered"
        /\ report' = Profiles(Members(acc, person', left_out'))
        /\ person' \in [Identity -> Contributor \cup {Nobody}]
        /\ left_out' \in SUBSET Contributor
    BY <1>5 DEF AnswerReport
  <2>2. ToCome' = {}
    BY <2>1 DEF ToCome
  <2>3. AccsInv'
    BY <1>1, <2>1, <2>2 DEF AccsInv
  <2>4. RowsTyped'
    BY <1>1, <2>1 DEF RowsTyped, rowVars, Query
  <2>5. Grouping' /\ AnswerInv'
    BY <2>1 DEF Grouping, AnswerInv
  <2> QED
    BY <2>3, <2>4, <2>5 DEF ReportInv
<1>6. CASE UNCHANGED contributionVars
  BY <1>1, <1>6
  DEF contributionVars, ReportInv, RowsTyped, AccsInv, ToCome, Grouping, AnswerInv
<1> QED
  BY <1>2, <1>3, <1>4, <1>5, <1>6 DEF ContributionNext

-----------------------------------------------------------------------------
(* What a person is given *)

\* An accumulator is of the person its identity is of.
LEMMA ResolvesHolder ==
  ASSUME Grouping, NEW a \in Acc, NEW i \in Identity, Holder(a, i),
         a.email # None /\ a.login # None => person[a.email] = person[a.login]
  PROVE  Resolve(a, person) = person[i]
<1>1. /\ a.email \in Email \cup {None} /\ a.login \in Login \cup {None}
      /\ None \notin Email /\ None \notin Login
  BY IdentityFinite DEF Acc
<1>2. CASE i \in Email /\ a.email = i
  BY <1>1, <1>2 DEF Resolve
<1>3. CASE i \in Login /\ a.login = i
  BY <1>1, <1>3 DEF Resolve
<1> QED
  BY <1>2, <1>3 DEF Holder

OwnedBy(q) == {k \in DOMAIN acc : Resolve(acc[k], person) = q}

\* The accumulators of a person are finitely many, and so is what they add up to.
LEMMA OwnedFinite ==
  ASSUME AccsInv, NEW f \in Fact, NEW S \in SUBSET DOMAIN acc
  PROVE  IsFiniteSet(S) /\ Amounts([k \in S |-> acc[k].facts[f]], S)
         /\ MergeAcc(acc, S, f) \in Nat
<1>1. AccsOK(acc)
  BY DEF AccsInv
<1>2. IsFiniteSet(S)
  BY <1>1, IdentityFinite, FS_Subset, S \subseteq Identity DEF AccsOK
<1>3. \A k \in S : acc[k].facts[f] \in Nat
  BY <1>1 DEF AccsOK, AccOf, Acc
<1>4. Amounts([k \in S |-> acc[k].facts[f]], S)
  BY <1>3 DEF Amounts
<1> QED
  BY <1>2, <1>4, TotalIsUnits DEF MergeAcc

\* What the accumulators of a person carry is what was counted of the identities.
LEMMA OwnedIsCounted ==
  ASSUME AccsInv, Grouping, Grouped, NEW f \in Fact, NEW q
  PROVE  MergeAcc(acc, OwnedBy(q), f) = Counted(f, q)
<1> DEFINE A == {i \in Identity : person[i] = q}
           B == OwnedBy(q)
           g == [k \in B |-> acc[k].facts[f]]
<1>1. PICK h : Carries(h, f, acc, counted)
  BY DEF AccsInv, Carried
<1>2. IsFiniteSet(A) /\ Amounts(counted[f], A)
  <2>1. A \in SUBSET Identity
    OBVIOUS
  <2>2. IsFiniteSet(A)
    BY <2>1, IdentityFinite, FS_Subset
  <2>3. \A i \in Identity : counted[f][i] \in Nat
    BY DEF AccsInv, Counts
  <2> QED
    BY <2>2, <2>3 DEF Amounts
<1>3. IsFiniteSet(B) /\ Amounts(g, B) /\ B \in SUBSET DOMAIN acc
  BY OwnedFinite DEF OwnedBy
<1>4. \A i \in DOMAIN h : /\ i \in Identity /\ h[i] \in DOMAIN acc
                          /\ Resolve(acc[h[i]], person) = person[i]
  <2> SUFFICES ASSUME NEW i \in DOMAIN h
               PROVE  /\ i \in Identity /\ h[i] \in DOMAIN acc
                      /\ Resolve(acc[h[i]], person) = person[i]
    OBVIOUS
  <2>1. i \in Identity /\ h[i] \in DOMAIN acc /\ Holder(acc[h[i]], i)
    BY <1>1 DEF Carries
  <2>2. acc[h[i]] \in Acc
    BY <2>1 DEF AccsInv, AccsOK, AccOf
  <2>3. acc[h[i]].email # None /\ acc[h[i]].login # None
          => person[acc[h[i]].email] = person[acc[h[i]].login]
    BY <2>1 DEF Grouped
  <2> QED
    BY <2>1, <2>2, <2>3, ResolvesHolder
<1> DEFINE At == {i \in A : counted[f][i] > 0}
           h2 == [i \in At |-> h[i]]
<1>5. \A i \in At : i \in DOMAIN h /\ h2[i] = h[i] /\ h[i] \in B
  BY <1>1, <1>4 DEF Carries, OwnedBy
<1>6. \A k \in B : g[k] = acc[k].facts[f]
  OBVIOUS
<1>7. h2 \in [At -> B] /\ DOMAIN h2 = At
  BY <1>5
<1> HIDE DEF h2, g
<1>8. \A i \in At : g[h2[i]] = counted[f][i]
  BY <1>1, <1>5, <1>6 DEF Carries
<1>9. \A i \in At : \A j \in At : h2[i] = h2[j] => i = j
  BY <1>1, <1>5 DEF Carries
<1>10. \A k \in B : g[k] > 0 => \E i \in At : h2[i] = k
  <2> SUFFICES ASSUME NEW k \in B, g[k] > 0 PROVE \E i \in At : h2[i] = k
    OBVIOUS
  <2>1. PICK i \in DOMAIN h : h[i] = k
    BY <1>1, <1>3, <1>6 DEF Carries
  <2>2. person[i] = q /\ i \in Identity
    BY <1>4, <2>1 DEF OwnedBy
  <2>3. counted[f][i] > 0
    BY <1>1, <2>1 DEF Carries
  <2> QED
    BY <1>5, <2>1, <2>2, <2>3
<1>11. Matches(h2, counted[f], A, g, B)
  BY <1>7, <1>8, <1>9, <1>10 DEF Matches
<1>12. Total(counted[f], A) = Total(g, B)
  BY <1>2, <1>3, <1>11, TotalMatch
<1> QED
  BY <1>12 DEF MergeAcc, Counted, g

\* Who the members are, and what they have.
Alone == OwnedBy(Nobody)
Named == {Resolve(acc[k], person) : k \in DOMAIN acc \ Alone} \ left_out
Owns(m) == IF m \in Contributor THEN OwnedBy(m) ELSE {m}

\* An accumulator resolves to a person or to nobody.
LEMMA ResolvesTo ==
  ASSUME AccsInv, Grouping, NEW k \in DOMAIN acc
  PROVE  Resolve(acc[k], person) \in Contributor \cup {Nobody}
<1>1. acc[k] \in Acc
  BY DEF AccsInv, AccsOK, AccOf
<1>2. acc[k].email \in Email \cup {None} /\ acc[k].login \in Login \cup {None}
  BY <1>1 DEF Acc
<1> QED
  BY <1>2 DEF Grouping, Resolve, Identity

LEMMA MembersAre ==
  ASSUME AccsInv, Grouping, NEW M, M = Members(acc, person, left_out)
  PROVE  /\ DOMAIN M = Alone \cup Named
         /\ Alone \subseteq Identity /\ Named \subseteq Contributor \ left_out
         /\ IsFiniteSet(DOMAIN M)
         /\ \A m \in DOMAIN M :
              /\ M[m] = [bot |-> M[m].bot, facts |-> M[m].facts] /\ M[m].bot \in BOOLEAN
              /\ M[m].facts \in [Fact -> Nat]
              /\ \A f \in Fact : M[m].facts[f] = MergeAcc(acc, Owns(m), f)
<1>1. Alone = {k \in DOMAIN acc : Resolve(acc[k], person) = Nobody}
  BY DEF Alone, OwnedBy
<1>2. M = [m \in Alone \cup Named |->
             [bot |-> \E k \in Owns(m) : acc[k].bot,
              facts |-> [f \in Fact |-> MergeAcc(acc, Owns(m), f)]]]
  BY <1>1 DEF Members, Named, Owns, OwnedBy
<1>3. Alone \subseteq Identity /\ Alone \subseteq DOMAIN acc
  BY <1>1 DEF AccsInv, AccsOK
<1>4. Named \subseteq Contributor \ left_out
  BY <1>1, ResolvesTo DEF Named
<1>5. IsFiniteSet(Alone \cup Named)
  BY <1>3, <1>4, IdentityFinite, FS_Subset, Alone \cup Named \in SUBSET (Contributor \cup Identity)
<1>6. \A m \in Alone \cup Named : Owns(m) \in SUBSET DOMAIN acc
  BY <1>3, <1>4 DEF Owns, OwnedBy
<1>7. \A m \in Alone \cup Named : \A f \in Fact : MergeAcc(acc, Owns(m), f) \in Nat
  BY <1>6, OwnedFinite
<1>8. ASSUME NEW m \in Alone \cup Named
      PROVE  /\ M[m] = [bot |-> M[m].bot, facts |-> M[m].facts] /\ M[m].bot \in BOOLEAN
             /\ M[m].facts \in [Fact -> Nat]
             /\ \A f \in Fact : M[m].facts[f] = MergeAcc(acc, Owns(m), f)
  <2>1. M[m] = [bot |-> \E k \in Owns(m) : acc[k].bot,
                facts |-> [f \in Fact |-> MergeAcc(acc, Owns(m), f)]]
    BY <1>2
  <2>2. M[m].bot = (\E k \in Owns(m) : acc[k].bot)
        /\ M[m].facts = [f \in Fact |-> MergeAcc(acc, Owns(m), f)]
    BY <2>1
  <2>3. M[m].bot \in BOOLEAN
    BY <2>2
  <2> QED
    BY <1>7, <2>1, <2>2, <2>3
<1> QED
  BY <1>2, <1>3, <1>4, <1>5, <1>8

\* The report has the members, and what they have.
LEMMA ReportHas ==
  ASSUME NEW M, report = Profiles(M)
  PROVE  /\ DOMAIN report = DOMAIN M
         /\ \A m \in DOMAIN M : report[m].facts = M[m].facts /\ report[m].bot = M[m].bot
BY DEF Profiles

\* What the report shows of a person is what was counted of the identities.
LEMMA AnswerAttributes == ReportInv => Attributed
<1> SUFFICES ASSUME ReportInv, query = "answered", Grouped, NEW f \in Fact
             PROVE  /\ InReport(f, Identity) = Counted(f, Nobody)
                    /\ \A p \in Contributor :
                         InReport(f, {p}) = IF p \in left_out THEN 0 ELSE Counted(f, p)
  BY DEF Attributed
<1>1. PICK M : M = Members(acc, person, left_out)
  OBVIOUS
<1>2. AccsInv /\ Grouping /\ report = Profiles(M)
  BY <1>1 DEF ReportInv, AnswerInv
<1>3. /\ DOMAIN report = Alone \cup Named
      /\ Alone \subseteq Identity /\ Named \subseteq Contributor \ left_out
      /\ \A m \in DOMAIN report : /\ report[m].facts[f] = MergeAcc(acc, Owns(m), f)
                                  /\ report[m].facts[f] \in Nat
  <2> DEFINE MembersOK(X) ==
        /\ DOMAIN X = Alone \cup Named
        /\ Alone \subseteq Identity /\ Named \subseteq Contributor \ left_out
        /\ \A m \in DOMAIN X : /\ X[m].facts \in [Fact -> Nat]
                               /\ \A e \in Fact : X[m].facts[e] = MergeAcc(acc, Owns(m), e)
  <2>0. ASSUME NEW X, X = Members(acc, person, left_out) PROVE MembersOK(X)
    <3>1. DOMAIN X = Alone \cup Named
      BY <1>2, <2>0, MembersAre
    <3>2. Alone \subseteq Identity /\ Named \subseteq Contributor \ left_out
      BY <1>2, <2>0, MembersAre
    <3>3. \A m \in DOMAIN X : X[m].facts \in [Fact -> Nat]
      BY <1>2, <2>0, MembersAre
    <3>4. \A m \in DOMAIN X : \A e \in Fact : X[m].facts[e] = MergeAcc(acc, Owns(m), e)
      BY <1>2, <2>0, MembersAre
    <3> QED
      BY <3>1, <3>2, <3>3, <3>4
  <2>1. MembersOK(M)
    BY <1>1, <2>0
  <2>2. DOMAIN report = DOMAIN M /\ \A m \in DOMAIN M : report[m].facts = M[m].facts
    BY <1>2, ReportHas
  <2>3. \A m \in DOMAIN M : /\ M[m].facts[f] = MergeAcc(acc, Owns(m), f)
                              /\ M[m].facts[f] \in Nat
    BY <2>1
  <2> QED
    BY <2>1, <2>2, <2>3
<1> DEFINE g == [m \in DOMAIN report |-> report[m].facts[f]]
<1>4. /\ \A m \in DOMAIN report : g[m] = MergeAcc(acc, Owns(m), f) /\ g[m] \in Nat
      /\ \A ms : InReport(f, ms) = Total(g, ms \cap DOMAIN report)
  BY <1>3 DEF InReport
<1> HIDE DEF g
<1>5. InReport(f, Identity) = Counted(f, Nobody)
  <2>1. Identity \cap DOMAIN report = Alone
    BY <1>3, IdentityFinite
  <2> DEFINE a == [k \in Alone |-> acc[k].facts[f]]
  <2>2. IsFiniteSet(Alone) /\ Amounts(a, Alone) /\ Alone \in SUBSET DOMAIN acc
    BY <1>2, OwnedFinite DEF Alone, OwnedBy
  <2>3. \A k \in Alone : a[k] = g[k]
    <3> SUFFICES ASSUME NEW k \in Alone PROVE acc[k].facts[f] = g[k]
      OBVIOUS
    <3>1. Owns(k) = {k}
      BY <1>3, IdentityFinite DEF Owns
    <3> DEFINE one == [j \in {k} |-> acc[j].facts[f]]
    <3>2. one[k] = acc[k].facts[f] /\ acc[k].facts[f] \in Nat
      BY <2>2 DEF Amounts
    <3> HIDE DEF one
    <3>3. Total(one, {k}) = acc[k].facts[f]
      BY <3>2, TotalOne
    <3>4. MergeAcc(acc, {k}, f) = Total(one, {k})
      BY DEF MergeAcc, one
    <3>5. k \in DOMAIN report
      BY <1>3
    <3> QED
      BY <1>4, <3>1, <3>3, <3>4, <3>5
  <2>4. Total(a, Alone) = Total(g, Alone)
    BY <2>2, <2>3, TotalSame
  <2>5. Total(a, Alone) = MergeAcc(acc, OwnedBy(Nobody), f)
    BY DEF MergeAcc, Alone
  <2> QED
    BY <1>2, <1>4, <2>1, <2>4, <2>5, OwnedIsCounted
<1>6. ASSUME NEW p \in Contributor
      PROVE  InReport(f, {p}) = IF p \in left_out THEN 0 ELSE Counted(f, p)
  <2>1. MergeAcc(acc, OwnedBy(p), f) = Counted(f, p)
    BY <1>2, OwnedIsCounted
  <2>2. CASE p \in DOMAIN report
    <3>1. {p} \cap DOMAIN report = {p} /\ p \notin left_out /\ Owns(p) = OwnedBy(p)
      BY <1>3, <2>2, IdentityFinite DEF Owns
    <3>2. Total(g, {p}) = g[p]
      BY <1>4, <2>2, TotalOne
    <3> QED
      BY <1>4, <2>1, <2>2, <3>1, <3>2
  <2>3. CASE p \notin DOMAIN report
    <3>1. {p} \cap DOMAIN report = {}
      BY <2>3
    <3>2. InReport(f, {p}) = 0
      BY <1>4, <3>1, TotalEmpty
    <3>3. ASSUME p \notin left_out PROVE OwnedBy(p) = {}
      <4>1. p # Nobody
        BY ContributionAssumption
      <4> SUFFICES ASSUME NEW k \in OwnedBy(p) PROVE FALSE
        OBVIOUS
      <4>2. k \in DOMAIN acc \ Alone /\ Resolve(acc[k], person) = p
        BY <4>1 DEF OwnedBy, Alone
      <4> QED
        BY <1>3, <2>3, <3>3, <4>2 DEF Named
    <3>4. ASSUME p \notin left_out PROVE Counted(f, p) = 0
      BY <2>1, <3>3, <3>4, TotalEmpty DEF MergeAcc
    <3> QED
      BY <3>2, <3>4
  <2> QED
    BY <2>2, <2>3
<1> QED
  BY <1>5, <1>6

-----------------------------------------------------------------------------
(* Scores *)

\* Rounding stays between whole bounds, and in order.
LEMMA TenthsBetween ==
  ASSUME NEW b \in Nat \ {0}, NEW a \in Nat, NEW low \in Nat, NEW high \in Nat,
         low * b <= a, a <= high * b
  PROVE  Tenths(a, b) \in Nat /\ low <= Tenths(a, b) /\ Tenths(a, b) <= high
<1> DEFINE q == (2 * a + b) \div (2 * b)
<1>1. q \in Int /\ 2 * b * q <= 2 * a + b /\ 2 * a + b < 2 * b * (q + 1)
  BY SMTT(30)
<1>2. q >= low
  <2> SUFFICES ASSUME q + 1 <= low PROVE FALSE
    BY <1>1
  <2>1. 2 * b * (q + 1) <= 2 * b * low
    BY <1>1, SMTT(30)
  <2> QED
    BY <1>1, <2>1, SMTT(30)
<1>3. q <= high
  <2> SUFFICES ASSUME high + 1 <= q PROVE FALSE
    BY <1>1
  <2>1. 2 * b * (high + 1) <= 2 * b * q
    BY <1>1, SMTT(30)
  <2> QED
    BY <1>1, <2>1, SMTT(30)
<1> QED
  BY <1>1, <1>2, <1>3 DEF Tenths

LEMMA TenthsInOrder ==
  ASSUME NEW b \in Nat \ {0}, NEW a \in Nat, NEW c \in Nat, a <= c
  PROVE  Tenths(a, b) <= Tenths(c, b)
<1> DEFINE q == (2 * a + b) \div (2 * b)
           r == (2 * c + b) \div (2 * b)
<1>1. q \in Int /\ 2 * b * q <= 2 * a + b /\ 2 * a + b < 2 * b * (q + 1)
  BY SMTT(30)
<1>2. r \in Int /\ 2 * b * r <= 2 * c + b /\ 2 * c + b < 2 * b * (r + 1)
  BY SMTT(30)
<1>3. q <= r
  <2> HIDE DEF q, r
  <2> SUFFICES ASSUME r + 1 <= q PROVE FALSE
    BY <1>1, <1>2
  <2>1. 2 * b * (r + 1) <= 2 * b * q
    BY <1>1, <1>2, SMTT(30)
  <2> QED
    BY <1>1, <1>2, <2>1, SMTT(30)
<1> QED
  BY <1>3 DEF Tenths

\* Products keep order, and a factor can be cancelled.
LEMMA TimesKeepsLess ==
  ASSUME NEW a \in Nat, NEW b \in Nat, a < b, NEW k \in Nat \ {0} PROVE a * k < b * k
<1>1. b - a \in Nat \ {0}
  OBVIOUS
<1>2. (b - a) * k >= 1
  BY <1>1, SMTT(30)
<1> QED
  BY <1>2, SMTT(30)

LEMMA TimesKeepsOrder ==
  ASSUME NEW a \in Nat, NEW b \in Nat, a <= b, NEW k \in Nat PROVE a * k <= b * k
<1>1. b - a \in Nat
  OBVIOUS
<1>2. (b - a) * k >= 0
  BY <1>1, SMTT(30)
<1> QED
  BY <1>2, SMTT(30)

LEMMA TimesCancels ==
  ASSUME NEW a \in Nat, NEW b \in Nat, NEW k \in Nat \ {0}
  PROVE  /\ a * k < b * k => a < b
         /\ a * k <= b * k => a <= b
<1>1. a * k \in Nat /\ b * k \in Nat
  OBVIOUS
<1>2. b <= a => b * k <= a * k
  BY TimesKeepsOrder
<1>3. b < a => b * k < a * k
  BY TimesKeepsLess
<1> QED
  BY <1>1, <1>2, <1>3

\* Fractions can be compared.
Fraction == Nat \X (Nat \ {0})
NoMore(x, y) == Less(x, y) \/ Equal(x, y)

\* Two comparisons of fractions make a third.
LEMMA Crossed ==
  ASSUME NEW a \in Nat, NEW b \in Nat \ {0}, NEW c \in Nat, NEW d \in Nat \ {0},
         NEW e \in Nat, NEW f \in Nat \ {0}
  PROVE  /\ a * d < c * b /\ c * f <= e * d => a * f < e * b
         /\ a * d <= c * b /\ c * f < e * d => a * f < e * b
         /\ a * d <= c * b /\ c * f <= e * d => a * f <= e * b
<1> DEFINE p == a * f
           q == e * b
           u == a * d
           v == c * b
           w == c * f
           z == e * d
<1>1. p \in Nat /\ q \in Nat /\ u \in Nat /\ v \in Nat /\ w \in Nat /\ z \in Nat
  OBVIOUS
<1>2. p * d = u * f /\ v * f = w * b /\ z * b = q * d
  BY SMTT(30)
<1> HIDE DEF p, q, u, v, w, z
<1>3. /\ u <= v => u * f <= v * f
      /\ u < v => u * f < v * f
      /\ w <= z => w * b <= z * b
      /\ w < z => w * b < z * b
  BY <1>1, TimesKeepsLess, TimesKeepsOrder
<1>4. /\ p * d \in Nat /\ q * d \in Nat /\ u * f \in Nat /\ v * f \in Nat
      /\ w * b \in Nat /\ z * b \in Nat
  BY <1>1
<1>5. /\ p * d < q * d => p < q
      /\ p * d <= q * d => p <= q
  BY <1>1, TimesCancels
<1>6. u < v /\ w <= z => p < q
  BY <1>1, <1>2, <1>3, <1>4, <1>5
<1>7. u <= v /\ w < z => p < q
  BY <1>1, <1>2, <1>3, <1>4, <1>5
<1>8. u <= v /\ w <= z => p <= q
  BY <1>1, <1>2, <1>3, <1>4, <1>5
<1> QED
  BY <1>6, <1>7, <1>8 DEF p, q, u, v, w, z

\* Less is an order of the fractions, and Equal what it does not tell apart.
LEMMA FractionsOrdered ==
  ASSUME NEW x \in Fraction, NEW y \in Fraction, NEW z \in Fraction
  PROVE  /\ Less(x, y) /\ NoMore(y, z) => Less(x, z)
         /\ NoMore(x, y) /\ Less(y, z) => Less(x, z)
         /\ Equal(x, y) /\ Equal(y, z) => Equal(x, z)
         /\ Equal(x, y) => Equal(y, x)
         /\ ~(Less(x, y) /\ Equal(x, y)) /\ Equal(x, x)
<1>1. PICK a \in Nat, b \in Nat \ {0} : x = <<a, b>>
  BY DEF Fraction
<1>2. PICK c \in Nat, d \in Nat \ {0} : y = <<c, d>>
  BY DEF Fraction
<1>3. PICK e \in Nat, f \in Nat \ {0} : z = <<e, f>>
  BY DEF Fraction
<1>4. /\ x[1] = a /\ x[2] = b /\ y[1] = c /\ y[2] = d /\ z[1] = e /\ z[2] = f
  BY <1>1, <1>2, <1>3
<1>5. /\ a * d \in Nat /\ c * b \in Nat /\ c * f \in Nat /\ e * d \in Nat
      /\ a * f \in Nat /\ e * b \in Nat
  OBVIOUS
<1>6. /\ a * d < c * b /\ c * f <= e * d => a * f < e * b
      /\ a * d <= c * b /\ c * f < e * d => a * f < e * b
      /\ a * d <= c * b /\ c * f <= e * d => a * f <= e * b
      /\ e * d <= c * f /\ c * b <= a * d => e * b <= a * f
  BY Crossed
<1>7. /\ Less(x, y) <=> a * d < c * b
      /\ Equal(x, y) <=> a * d = c * b
      /\ Less(y, z) <=> c * f < e * d
      /\ Equal(y, z) <=> c * f = e * d
      /\ Less(x, z) <=> a * f < e * b
      /\ Equal(x, z) <=> a * f = e * b
      /\ Equal(y, x) <=> c * b = a * d
      /\ Equal(x, x)
  BY <1>4 DEF Less, Equal
<1> QED
  BY <1>5, <1>6, <1>7 DEF NoMore

\* Those below a value, and those at it.
Lower(v, C, m) == {n \in C : Less(v[n], v[m])}
Same(v, C, m) == {n \in C : Equal(v[n], v[m])}

\* Those below and those at a value are apart, and a part of all.
LEMMA RankParts ==
  ASSUME NEW C, IsFiniteSet(C), NEW v \in [C -> Fraction], NEW m \in C
  PROVE  /\ Cardinality(Lower(v, C, m)) \in Nat
         /\ Cardinality(Same(v, C, m)) \in Nat
         /\ Cardinality(C) \in Nat \ {0}
         /\ Cardinality(Lower(v, C, m)) + Cardinality(Same(v, C, m)) <= Cardinality(C)
         /\ IsFiniteSet(Lower(v, C, m)) /\ IsFiniteSet(Same(v, C, m))
<1>1. Lower(v, C, m) \in SUBSET C /\ Same(v, C, m) \in SUBSET C
      /\ Lower(v, C, m) \cup Same(v, C, m) \in SUBSET C
  BY DEF Lower, Same
<1>2. IsFiniteSet(Lower(v, C, m)) /\ IsFiniteSet(Same(v, C, m))
  BY <1>1, FS_Subset
<1>3. Lower(v, C, m) \cap Same(v, C, m) = {}
  BY FractionsOrdered DEF Lower, Same
<1>4. Cardinality(Lower(v, C, m) \cup Same(v, C, m)) =
        Cardinality(Lower(v, C, m)) + Cardinality(Same(v, C, m))
  BY <1>2, <1>3, DisjointSizes
<1>5. Cardinality(Lower(v, C, m) \cup Same(v, C, m)) <= Cardinality(C)
  BY <1>1, FS_Subset
<1>6. Cardinality(C) \in Nat /\ Cardinality(C) # 0
  BY FS_CardinalityType, FS_EmptySet
<1> QED
  BY <1>2, <1>4, <1>5, <1>6, FS_CardinalityType

\* The percentile by those two (Normalize).
LEMMA NormalizeIs ==
  ASSUME NEW C, NEW v \in [C -> Fraction], NEW m \in C
  PROVE  Normalize(v, m) =
           IF v[m][1] = 0 THEN 0
           ELSE IF Cardinality(Same(v, C, m)) = Cardinality(C) THEN Full
           ELSE Tenths(Full * (2 * Cardinality(Lower(v, C, m)) + Cardinality(Same(v, C, m))),
                       2 * Cardinality(C))
BY DEF Normalize, Lower, Same

\* A percentile is a score, and nothing of nothing.
LEMMA NormalizeRange ==
  ASSUME NEW C, IsFiniteSet(C), NEW v \in [C -> Fraction], NEW m \in C
  PROVE  Normalize(v, m) \in 0 .. Full /\ (v[m][1] = 0 => Normalize(v, m) = 0)
<1>1. PICK l, e, N : /\ l = Cardinality(Lower(v, C, m)) /\ e = Cardinality(Same(v, C, m))
                     /\ N = Cardinality(C)
  OBVIOUS
<1>2. l \in Nat /\ e \in Nat /\ N \in Nat \ {0} /\ l + e <= N
  BY <1>1, RankParts
<1>3. /\ 2 * N \in Nat \ {0} /\ Full * (2 * l + e) \in Nat /\ 0 \in Nat /\ Full \in Nat
      /\ 0 * (2 * N) <= Full * (2 * l + e)
      /\ Full * (2 * l + e) <= Full * (2 * N)
  BY <1>2 DEF Full
<1>4. Tenths(Full * (2 * l + e), 2 * N) \in 0 .. Full
  <2> DEFINE a == Full * (2 * l + e)
             b == 2 * N
  <2>1. a \in Nat /\ b \in Nat \ {0} /\ 0 * b <= a /\ a <= Full * b /\ Full \in Nat
    BY <1>3
  <2> HIDE DEF a, b
  <2>2. Tenths(a, b) \in Nat /\ Tenths(a, b) <= Full
    BY <2>1, TenthsBetween
  <2> QED
    BY <2>2, <1>3 DEF a, b
<1> QED
  BY <1>1, <1>3, <1>4, NormalizeIs DEF Full

\* Who has more is not ranked lower, and who has as much is ranked alike.
LEMMA NormalizeOrders ==
  ASSUME NEW C, IsFiniteSet(C), NEW v \in [C -> Fraction], NEW m \in C, NEW n \in C
  PROVE  /\ Less(v[m], v[n]) => Normalize(v, m) <= Normalize(v, n)
         /\ Equal(v[m], v[n]) => Normalize(v, m) = Normalize(v, n)
<1>1. v[m] \in Fraction /\ v[n] \in Fraction
  OBVIOUS
<1>2. PICK lm, em, ln, en, N :
        /\ lm = Cardinality(Lower(v, C, m)) /\ em = Cardinality(Same(v, C, m))
        /\ ln = Cardinality(Lower(v, C, n)) /\ en = Cardinality(Same(v, C, n))
        /\ N = Cardinality(C)
  OBVIOUS
<1>3. /\ lm \in Nat /\ em \in Nat /\ ln \in Nat /\ en \in Nat /\ N \in Nat \ {0}
      /\ lm + em <= N /\ ln + en <= N
      /\ IsFiniteSet(Lower(v, C, m)) /\ IsFiniteSet(Same(v, C, m))
      /\ IsFiniteSet(Lower(v, C, n)) /\ IsFiniteSet(Same(v, C, n))
  BY <1>2, RankParts
<1>4. Normalize(v, m) \in 0 .. Full /\ Normalize(v, n) \in 0 .. Full
  BY NormalizeRange
<1>5. ASSUME Less(v[m], v[n]) PROVE Normalize(v, m) <= Normalize(v, n)
  <2>1. Lower(v, C, m) \cup Same(v, C, m) \subseteq Lower(v, C, n)
    BY <1>5, FractionsOrdered DEF Lower, Same, NoMore
  <2>2. Lower(v, C, m) \cap Same(v, C, m) = {}
    BY FractionsOrdered DEF Lower, Same
  <2>3. Cardinality(Lower(v, C, m) \cup Same(v, C, m)) = lm + em
    BY <1>2, <1>3, <2>2, DisjointSizes
  <2>4. lm + em <= ln
    BY <1>2, <1>3, <2>1, <2>3, FS_Subset
  <2>5. CASE v[m][1] = 0
    BY <1>4, <2>5, NormalizeRange DEF Full
  <2>6. CASE v[m][1] # 0
    <3>1. v[n][1] # 0
      <4>1. PICK a \in Nat, b \in Nat \ {0} : v[m] = <<a, b>>
        BY <1>1 DEF Fraction
      <4>2. PICK c \in Nat, d \in Nat \ {0} : v[n] = <<c, d>>
        BY <1>1 DEF Fraction
      <4>3. a * d < c * b
        BY <1>5, <4>1, <4>2 DEF Less
      <4>4. c # 0
        BY <4>3
      <4> QED
        BY <4>2, <4>4
    <3>2. em # N
      <4>1. Same(v, C, m) \in SUBSET C /\ n \notin Same(v, C, m)
        BY <1>1, <1>5, FractionsOrdered DEF Same
      <4> QED
        BY <1>2, <4>1, FS_Subset
    <3>3. CASE en = N
      <4>1. Normalize(v, n) = Full
        BY <1>2, <3>1, <3>3, NormalizeIs
      <4> QED
        BY <1>4, <4>1 DEF Full
    <3>4. CASE en # N
      <4> DEFINE a == Full * (2 * lm + em)
                 c == Full * (2 * ln + en)
                 b == 2 * N
      <4>1. a \in Nat /\ c \in Nat /\ a <= c /\ b \in Nat \ {0}
        BY <1>3, <2>4 DEF Full
      <4>2. Normalize(v, m) = Tenths(a, b) /\ Normalize(v, n) = Tenths(c, b)
        BY <1>2, <2>6, <3>1, <3>2, <3>4, NormalizeIs
      <4> HIDE DEF a, b, c
      <4> QED
        BY <4>1, <4>2, TenthsInOrder
    <3> QED
      BY <3>3, <3>4
  <2> QED
    BY <2>5, <2>6
<1>6. ASSUME Equal(v[m], v[n]) PROVE Normalize(v, m) = Normalize(v, n)
  <2>1. Lower(v, C, m) = Lower(v, C, n)
    BY <1>6, FractionsOrdered DEF Lower, NoMore
  <2>2. Same(v, C, m) = Same(v, C, n)
    BY <1>6, FractionsOrdered DEF Same
  <2>3. v[m][1] = 0 <=> v[n][1] = 0
    <3>1. PICK a \in Nat, b \in Nat \ {0} : v[m] = <<a, b>>
      BY <1>1 DEF Fraction
    <3>2. PICK c \in Nat, d \in Nat \ {0} : v[n] = <<c, d>>
      BY <1>1 DEF Fraction
    <3>3. a * d = c * b
      BY <1>6, <3>1, <3>2 DEF Equal
    <3>4. a = 0 <=> c = 0
      <4>1. a = 0 => c * b = 0
        BY <3>3
      <4>2. c = 0 => a * d = 0
        BY <3>3
      <4>3. c # 0 => c * b >= 1
        BY SMTT(30)
      <4>4. a # 0 => a * d >= 1
        BY SMTT(30)
      <4> QED
        BY <4>1, <4>2, <4>3, <4>4
    <3> QED
      BY <3>1, <3>2, <3>4
  <2> QED
    BY <2>1, <2>2, <2>3, NormalizeIs
<1> QED
  BY <1>5, <1>6

\* The four dimensions.
LEMMA TotalOfDim ==
  ASSUME NEW f, Amounts(f, Dim)
  PROVE  Total(f, Dim) = f["shipped"] + f["review"] + f["quality"] + f["ownership"]
<1>1. /\ f["shipped"] \in Nat /\ f["review"] \in Nat /\ f["quality"] \in Nat
      /\ f["ownership"] \in Nat
  BY DEF Amounts, Dim
<1>2. /\ Total(f, {"shipped"}) = f["shipped"] /\ Total(f, {"review"}) = f["review"]
      /\ Total(f, {"quality"}) = f["quality"] /\ Total(f, {"ownership"}) = f["ownership"]
  BY <1>1, TotalOne
<1> DEFINE A == {"shipped"} \cup {"review"}
           B == {"quality"} \cup {"ownership"}
<1>3. /\ {"shipped"} \cap {"review"} = {} /\ {"quality"} \cap {"ownership"} = {}
      /\ A \cap B = {} /\ Dim = A \cup B
  BY DEF Dim
<1>4. Amounts(f, A) /\ Amounts(f, B)
  BY <1>1 DEF Amounts
<1>5. /\ IsFiniteSet({"shipped"}) /\ IsFiniteSet({"review"})
      /\ IsFiniteSet({"quality"}) /\ IsFiniteSet({"ownership"})
  BY FS_Singleton
<1>6. IsFiniteSet(A) /\ IsFiniteSet(B)
  BY <1>3, <1>5, DisjointSizes
<1>7. Total(f, A) = Total(f, {"shipped"}) + Total(f, {"review"})
  BY <1>3, <1>4, <1>5, TotalSplit
<1>8. Total(f, B) = Total(f, {"quality"}) + Total(f, {"ownership"})
  BY <1>3, <1>4, <1>5, TotalSplit
<1> HIDE DEF A, B
<1>9. Total(f, A \cup B) = Total(f, A) + Total(f, B)
  BY <1>3, <1>6, TotalSplit
<1> QED
  BY <1>1, <1>2, <1>3, <1>7, <1>8, <1>9

LEMMA DimFour == Cardinality(Dim) = 4
<1>1. IsFiniteSet({"shipped"}) /\ Cardinality({"shipped"}) = 1
  BY FS_Singleton
<1>2. /\ IsFiniteSet({"shipped"} \cup {"review"})
      /\ Cardinality({"shipped"} \cup {"review"}) = 2
  BY <1>1, FS_AddElement
<1>3. /\ IsFiniteSet(({"shipped"} \cup {"review"}) \cup {"quality"})
      /\ Cardinality(({"shipped"} \cup {"review"}) \cup {"quality"}) = 3
  BY <1>2, FS_AddElement
<1>4. Cardinality((({"shipped"} \cup {"review"}) \cup {"quality"}) \cup {"ownership"}) = 4
  BY <1>3, FS_AddElement
<1>5. Dim = ((({"shipped"} \cup {"review"}) \cup {"quality"}) \cup {"ownership"})
  BY DEF Dim
<1> QED
  BY <1>4, <1>5

\* A weighted mean of scores is a score, whatever the weights (Composite).
LEMMA CompositeRange ==
  ASSUME NEW score \in [Dim -> 0 .. Full] PROVE Composite(score) \in 0 .. Full
<1> DEFINE ws == [d \in Dim |-> DimWeight[d] * score[d]]
<1>1. \A d \in Dim : score[d] \in Nat /\ score[d] <= 1000
  BY DEF Full
<1>2. \A d \in Dim : DimWeight[d] \in Nat
  BY ContributionAssumption
<1>3. \A d \in Dim : /\ ws[d] = DimWeight[d] * score[d] /\ ws[d] \in Nat
                     /\ ws[d] <= 1000 * DimWeight[d]
  <2> SUFFICES ASSUME NEW d \in Dim
               PROVE  /\ DimWeight[d] * score[d] \in Nat
                      /\ DimWeight[d] * score[d] <= 1000 * DimWeight[d]
    OBVIOUS
  <2>1. PICK w, s : w = DimWeight[d] /\ s = score[d]
    OBVIOUS
  <2>2. w \in Nat /\ s \in Nat /\ s <= 1000
    BY <1>1, <1>2, <2>1
  <2>3. s * w <= 1000 * w
    BY <2>2, TimesKeepsOrder
  <2>4. w * s = s * w /\ w * s \in Nat
    BY <2>2
  <2> QED
    BY <2>1, <2>3, <2>4
<1>4. PICK s1, s2, s3, s4 : /\ s1 = score["shipped"] /\ s2 = score["review"]
                            /\ s3 = score["quality"] /\ s4 = score["ownership"]
  OBVIOUS
<1>5. PICK w1, w2, w3, w4 : /\ w1 = DimWeight["shipped"] /\ w2 = DimWeight["review"]
                            /\ w3 = DimWeight["quality"] /\ w4 = DimWeight["ownership"]
  OBVIOUS
<1>6. PICK p1, p2, p3, p4 : /\ p1 = ws["shipped"] /\ p2 = ws["review"]
                            /\ p3 = ws["quality"] /\ p4 = ws["ownership"]
  OBVIOUS
<1>7. {"shipped", "review", "quality", "ownership"} \subseteq Dim
  BY DEF Dim
<1> HIDE DEF ws
<1>8. /\ Amounts(score, Dim) /\ Amounts(DimWeight, Dim) /\ Amounts(ws, Dim)
  BY <1>1, <1>2, <1>3 DEF Amounts
<1>9. /\ Total(score, Dim) = s1 + s2 + s3 + s4
      /\ Total(DimWeight, Dim) = w1 + w2 + w3 + w4
      /\ Total(ws, Dim) = p1 + p2 + p3 + p4
  BY <1>4, <1>5, <1>6, <1>8, TotalOfDim
<1>10. /\ s1 \in Nat /\ s2 \in Nat /\ s3 \in Nat /\ s4 \in Nat
       /\ s1 <= 1000 /\ s2 <= 1000 /\ s3 <= 1000 /\ s4 <= 1000
  BY <1>1, <1>4, <1>7
<1>11. /\ w1 \in Nat /\ w2 \in Nat /\ w3 \in Nat /\ w4 \in Nat
  BY <1>2, <1>5, <1>7
<1>12. /\ p1 \in Nat /\ p2 \in Nat /\ p3 \in Nat /\ p4 \in Nat
       /\ p1 <= 1000 * w1 /\ p2 <= 1000 * w2 /\ p3 <= 1000 * w3 /\ p4 <= 1000 * w4
  BY <1>3, <1>5, <1>6, <1>7
<1>13. CASE Total(DimWeight, Dim) = 0
  <2>1. Composite(score) = Tenths(s1 + s2 + s3 + s4, 4)
    BY <1>9, <1>13, DimFour DEF Composite
  <2>2. PICK a : a = s1 + s2 + s3 + s4
    OBVIOUS
  <2>3. a \in Nat /\ 4 \in Nat \ {0} /\ 0 * 4 <= a /\ a <= 1000 * 4 /\ 1000 \in Nat
    BY <1>10, <2>2
  <2>4. Tenths(a, 4) \in Nat /\ Tenths(a, 4) <= 1000
    BY <2>3, TenthsBetween
  <2> QED
    BY <2>1, <2>2, <2>4 DEF Full
<1>14. CASE Total(DimWeight, Dim) # 0
  <2>1. PICK a, b : a = p1 + p2 + p3 + p4 /\ b = w1 + w2 + w3 + w4
    OBVIOUS
  <2>2. Composite(score) = Tenths(a, b)
    BY <1>9, <1>14, <2>1 DEF Composite, ws
  <2>3. a \in Nat /\ b \in Nat \ {0} /\ 0 * b <= a /\ a <= 1000 * b /\ 1000 \in Nat
    BY <1>9, <1>11, <1>12, <1>14, <2>1
  <2>4. Tenths(a, b) \in Nat /\ Tenths(a, b) <= 1000
    BY <2>3, TenthsBetween
  <2> QED
    BY <2>2, <2>4 DEF Full
<1> QED
  BY <1>13, <1>14

\* What is scored is a fraction.
LEMMA RawIsFraction ==
  ASSUME NEW facts0 \in [Fact -> Nat], NEW d \in Dim PROVE Raw(facts0, d) \in Fraction
<1>1. /\ facts0["merged"] \in Nat /\ facts0["reverts"] \in Nat /\ facts0["reviewed"] \in Nat
      /\ facts0["touched"] \in Nat
  BY DEF Fact
<1>2. QualityRaw(facts0) \in Fraction
  BY <1>1 DEF QualityRaw, Fraction
<1>3. d \in {"shipped", "review", "quality", "ownership"}
  BY DEF Dim
<1> QED
  BY <1>1, <1>2, <1>3 DEF Raw, Fraction

\* The score of a member, in a dimension.
Humans(M) == {m \in DOMAIN M : ~M[m].bot}
Values(M, d) == [m \in Humans(M) |-> Raw(M[m].facts, d)]

LEMMA ScoresAre ==
  ASSUME NEW M, IsFiniteSet(DOMAIN M),
         \A m \in DOMAIN M : M[m].facts \in [Fact -> Nat], report = Profiles(M)
  PROVE  \A m \in DOMAIN M : \A d \in Dim :
           /\ report[m].score \in [Dim -> 0 .. Full]
           /\ m \in Humans(M) => report[m].score[d] = Normalize(Values(M, d), m)
           /\ m \notin Humans(M) => report[m].score[d] = 0
           /\ Values(M, d) \in [Humans(M) -> Fraction] /\ IsFiniteSet(Humans(M))
           /\ m \in Humans(M) => Values(M, d)[m] = Raw(M[m].facts, d)
<1>1. IsFiniteSet(Humans(M))
  BY FS_Subset, Humans(M) \in SUBSET DOMAIN M DEF Humans
<1>2. ASSUME NEW d \in Dim PROVE Values(M, d) \in [Humans(M) -> Fraction]
  <2>1. \A m \in Humans(M) : Raw(M[m].facts, d) \in Fraction
    BY RawIsFraction DEF Humans
  <2> QED
    BY <2>1 DEF Values
<1>3. ASSUME NEW m \in DOMAIN M
      PROVE  report[m].score =
               [d \in Dim |-> IF m \in Humans(M) THEN Normalize(Values(M, d), m) ELSE 0]
  BY DEF Profiles, Humans, Values
<1>4. ASSUME NEW m \in DOMAIN M PROVE report[m].score \in [Dim -> 0 .. Full]
  <2>1. \A d \in Dim : m \in Humans(M) => Normalize(Values(M, d), m) \in 0 .. Full
    BY <1>1, <1>2, NormalizeRange
  <2>2. 0 \in 0 .. Full
    BY DEF Full
  <2>3. \A d \in Dim :
          (IF m \in Humans(M) THEN Normalize(Values(M, d), m) ELSE 0) \in 0 .. Full
    BY <2>1, <2>2
  <2> HIDE DEF Full
  <2> QED
    BY <1>3, <2>3
<1> QED
  BY <1>1, <1>2, <1>3, <1>4 DEF Values

\* The report of any members is in proportion.
LEMMA AnswerRanks ==
  ASSUME NEW M, IsFiniteSet(DOMAIN M),
         \A m \in DOMAIN M : M[m].facts \in [Fact -> Nat], report = Profiles(M)
  PROVE  Ranked
<1> SUFFICES ASSUME NEW d \in Dim, NEW m \in DOMAIN M, NEW n \in DOMAIN M
             PROVE  LET x == Raw(report[m].facts, d)
                        y == Raw(report[n].facts, d)
                    IN /\ report[m].score[d] \in 0 .. Full
                       /\ Composite(report[m].score) \in 0 .. Full
                       /\ report[m].bot => report[m].score[d] = 0
                       /\ x[1] = 0 => report[m].score[d] = 0
                       /\ ~report[m].bot /\ ~report[n].bot =>
                            /\ Less(x, y) => report[m].score[d] <= report[n].score[d]
                            /\ Equal(x, y) => report[m].score[d] = report[n].score[d]
  BY ReportHas DEF Ranked
<1>1. PICK C, v : C = Humans(M) /\ v = Values(M, d)
  OBVIOUS
<1>2. /\ report[m].facts = M[m].facts /\ report[m].bot = M[m].bot
      /\ report[n].facts = M[n].facts /\ report[n].bot = M[n].bot
  BY ReportHas
<1>3. /\ m \in C <=> ~report[m].bot
      /\ n \in C <=> ~report[n].bot
  BY <1>1, <1>2 DEF Humans
<1>4. /\ report[m].score \in [Dim -> 0 .. Full]
      /\ m \in C => report[m].score[d] = Normalize(v, m) /\ v[m] = Raw(report[m].facts, d)
      /\ m \notin C => report[m].score[d] = 0
      /\ n \in C => report[n].score[d] = Normalize(v, n) /\ v[n] = Raw(report[n].facts, d)
      /\ v \in [C -> Fraction] /\ IsFiniteSet(C)
  BY <1>1, <1>2, ScoresAre
<1>5. report[m].score[d] \in 0 .. Full /\ Composite(report[m].score) \in 0 .. Full
  BY <1>4, CompositeRange
<1>6. Raw(report[m].facts, d)[1] = 0 => report[m].score[d] = 0
  <2>1. m \in C => (v[m][1] = 0 => Normalize(v, m) = 0)
    BY <1>4, NormalizeRange
  <2> QED
    BY <1>4, <2>1
<1>7. m \in C /\ n \in C => /\ Less(v[m], v[n]) => Normalize(v, m) <= Normalize(v, n)
                            /\ Equal(v[m], v[n]) => Normalize(v, m) = Normalize(v, n)
  BY <1>4, NormalizeOrders
<1> QED
  BY <1>3, <1>4, <1>5, <1>6, <1>7

\* At every step.
LEMMA NobodyRanks == ReportInv => Ranked
<1> SUFFICES ASSUME ReportInv PROVE Ranked
  OBVIOUS
<1>1. CASE query = "answered"
  <2>1. PICK M : M = Members(acc, person, left_out)
    OBVIOUS
  <2>2. AccsInv /\ Grouping /\ report = Profiles(M)
    BY <1>1, <2>1 DEF ReportInv, AnswerInv
  <2>3. IsFiniteSet(DOMAIN M) /\ \A m \in DOMAIN M : M[m].facts \in [Fact -> Nat]
    BY <2>1, <2>2, MembersAre
  <2> QED
    BY <2>2, <2>3, AnswerRanks
<1>2. CASE query # "answered"
  <2>1. DOMAIN report = {}
    BY <1>2 DEF ReportInv, AnswerInv, EmptyMap
  <2> QED
    BY <2>1 DEF Ranked
<1> QED
  BY <1>1, <1>2

\* Whatever rows arrive between the queries, in whatever order the accumulators are
\* searched and however people are grouped by then, a person is given what was counted of
\* his identities and nothing else, and scores are in proportion (contribution.go).
THEOREM ReportIsFair == ContributionSpec => []ContributionSound
<1>1. ContributionInit => ReportInv
  BY ReportInitially
<1>2. ReportInv /\ [ContributionNext]_contributionVars => ReportInv'
  BY ReportLasts
<1>3. ReportInv => ContributionSound
  BY AnswerAttributes, NobodyRanks DEF ContributionSound
<1> QED
  BY <1>1, <1>2, <1>3, PTL DEF ContributionSpec

\* The state of a report keeps its type: a count is a number, and a score one up to Full.
THEOREM ReportTypeCorrect == ContributionSpec => []ContributionTypeOK
<1>1. ContributionInit => ReportInv
  BY ReportInitially
<1>2. ReportInv /\ [ContributionNext]_contributionVars => ReportInv'
  BY ReportLasts
<1>3. ReportInv => ContributionTypeOK
  <2> SUFFICES ASSUME ReportInv PROVE ContributionTypeOK
    OBVIOUS
  <2>1. RowsTyped /\ AccsInv /\ Grouping /\ AnswerInv
    BY DEF ReportInv
  <2>2. DOMAIN acc \subseteq Identity /\ \A k \in DOMAIN acc : acc[k] \in Acc
    BY <2>1 DEF AccsInv, AccsOK, AccOf
  <2>3. /\ DOMAIN report \subseteq Contributor \cup Identity
        /\ \A m \in DOMAIN report :
             report[m] \in [bot : BOOLEAN, facts : [Fact -> Nat], score : [Dim -> Nat]]
    <3>1. CASE query = "answered"
      <4>1. PICK M : M = Members(acc, person, left_out)
        OBVIOUS
      <4>2. report = Profiles(M)
        BY <2>1, <3>1, <4>1 DEF AnswerInv
      <4>3. /\ DOMAIN M \subseteq Contributor \cup Identity /\ IsFiniteSet(DOMAIN M)
            /\ \A m \in DOMAIN M : M[m].facts \in [Fact -> Nat] /\ M[m].bot \in BOOLEAN
        BY <2>1, <4>1, MembersAre
      <4>4. \A m \in DOMAIN M : \A d \in Dim : report[m].score \in [Dim -> 0 .. Full]
        BY <4>2, <4>3, ScoresAre
      <4>5. \A m \in DOMAIN M :
              report[m] = [bot |-> M[m].bot, facts |-> M[m].facts, score |-> report[m].score]
        BY <4>2 DEF Profiles
      <4>6. "shipped" \in Dim /\ 0 .. Full \subseteq Nat
        BY DEF Dim, Full
      <4>7. DOMAIN report = DOMAIN M
        BY <4>2, ReportHas
      <4> QED
        BY <4>3, <4>4, <4>5, <4>6, <4>7
    <3>2. CASE query # "answered"
      <4>1. DOMAIN report = {}
        BY <2>1, <3>2 DEF AnswerInv, EmptyMap
      <4> QED
        BY <4>1
    <3> QED
      BY <3>1, <3>2
  <2> QED
    BY <2>1, <2>2, <2>3
    DEF ContributionTypeOK, RowsTyped, AccsInv, Counts, Grouping
<1> QED
  BY <1>1, <1>2, <1>3, PTL DEF ContributionSpec

-----------------------------------------------------------------------------
(* The panels of the dashboard *)

\* A sum over a function, and counts that are one.
LEMMA SumIsTotal ==
  ASSUME NEW D, NEW f, DOMAIN f = D PROVE SumOf(f) = Total(f, D)
BY DEF SumOf, SumOver, Total

LEMMA SumOfCounts ==
  ASSUME NEW D, IsFiniteSet(D), NEW N, IsFiniteSet(N), NEW box, NEW f, DOMAIN f = D,
         \A d \in D : f[d] = Cardinality({n \in N : box[n] = d})
  PROVE  SumOf(f) = Cardinality({n \in N : box[n] \in D})
BY SumIsTotal, TotalCount

\* Indices of a sequence are finitely many.
LEMMA PlacesFinite ==
  ASSUME NEW S, NEW s \in Seq(S), NEW N \in SUBSET DOMAIN s
  PROVE  /\ IsFiniteSet(N) /\ Cardinality(N) \in Nat
         /\ Cardinality(N) <= Cardinality(DOMAIN s) /\ Cardinality(DOMAIN s) = Len(s)
<1>1. DOMAIN s = 1 .. Len(s) /\ Len(s) \in Nat
  OBVIOUS
<1>2. IsFiniteSet(1 .. Len(s)) /\ Cardinality(1 .. Len(s)) = Len(s)
  <2>1. PICK k \in Nat : k = Len(s)
    BY <1>1
  <2>2. IsFiniteSet(1 .. k) /\ Cardinality(1 .. k) = k
    BY FS_Interval
  <2> QED
    BY <2>1, <2>2
<1>3. N \in SUBSET (1 .. Len(s))
  BY <1>1
<1>4. IsFiniteSet(N) /\ Cardinality(N) <= Len(s)
  BY <1>2, <1>3, FS_Subset
<1> QED
  BY <1>1, <1>2, <1>4, FS_CardinalityType

LEMMA DaysFinite == LastDay \in Nat /\ IsFiniteSet(ADay)
BY AnalyticsAssumption, FS_Interval DEF ADay

\* The bounds of a window are those of the request, in order.
LEMMA WindowIs ==
  ASSUME NEW from \in Nat, NEW to \in Nat, NEW repo
  PROVE  /\ ParseFilter(from, to, repo).from \in Nat /\ ParseFilter(from, to, repo).to \in Nat
         /\ ParseFilter(from, to, repo).repo = repo /\ ParseFilter(from, to, repo).who = {}
         /\ from = 0 /\ to = 0 => /\ ParseFilter(from, to, repo).from = 1
                                  /\ ParseFilter(from, to, repo).to = LastDay + 1
<1> DEFINE low == IF from = 0 THEN 1 ELSE from
           high == IF to = 0 THEN LastDay + 1 ELSE to
           a == IF low <= high THEN low ELSE high
           b == IF low <= high THEN high ELSE low
<1>1. low \in Nat /\ high \in Nat /\ a \in Nat /\ b \in Nat
  BY AnalyticsAssumption
<1>2. a \in {low, high} /\ b \in {low, high} /\ \A x \in {low, high} : a <= x /\ x <= b
  BY <1>1
<1>3. \A x \in {low, high} : (\A y \in {low, high} : x <= y) => x = a
  BY <1>1, <1>2
<1>4. \A x \in {low, high} : (\A y \in {low, high} : x >= y) => x = b
  BY <1>1, <1>2
<1>5. ParseFilter(from, to, repo) =
        [from |-> Min({low, high}), to |-> Max({low, high}), repo |-> repo, who |-> {}]
  BY DEF ParseFilter
<1>6. from = 0 /\ to = 0 => a = 1 /\ b = LastDay + 1
  BY AnalyticsAssumption
<1> HIDE DEF low, high, a, b
<1>7. Min({low, high}) = a
  BY <1>2, <1>3 DEF Min
<1>8. Max({low, high}) = b
  BY <1>1, <1>2, <1>4 DEF Max
<1> QED
  BY <1>1, <1>5, <1>6, <1>7, <1>8

LEMMA AllTimeIs ==
  AllTime.from = 1 /\ AllTime.to = LastDay + 1 /\ AllTime.repo = "" /\ AllTime.who = {}
<1>1. ASSUME NEW z \in Nat, z = 0, NEW e
      PROVE  /\ ParseFilter(z, z, e).repo = e /\ ParseFilter(z, z, e).who = {}
             /\ ParseFilter(z, z, e).from = 1 /\ ParseFilter(z, z, e).to = LastDay + 1
  <2>1. ParseFilter(z, z, e).repo = e /\ ParseFilter(z, z, e).who = {}
    BY WindowIs
  <2>2. ParseFilter(z, z, e).from = 1
    BY <1>1, WindowIs
  <2>3. ParseFilter(z, z, e).to = LastDay + 1
    BY <1>1, WindowIs
  <2> QED
    BY <2>1, <2>2, <2>3
<1>2. AllTime = ParseFilter(0, 0, "")
  BY DEF AllTime
<1>3. /\ ParseFilter(0, 0, "").repo = "" /\ ParseFilter(0, 0, "").who = {}
      /\ ParseFilter(0, 0, "").from = 1 /\ ParseFilter(0, 0, "").to = LastDay + 1
  <2>1. 0 \in Nat
    OBVIOUS
  <2> HIDE DEF ParseFilter, AllTime
  <2> QED
    BY <1>1, <2>1, ZenonT(60)
<1> QED
  BY <1>2, <1>3, Zenon

\* The rows, and what no row is.
FactsOK ==
  /\ facts \in [commits : Seq(CommitFact), prs : Seq(PRFact), issues : Seq(IssueFact)]
  /\ \A n \in DOMAIN facts.prs : facts.prs[n].state # "merged" => facts.prs[n].merged = 0

MergedPRs == {n \in DOMAIN facts.prs : facts.prs[n].merged # 0}
AgentCommits == {n \in DOMAIN facts.commits : facts.commits[n].agent}

LEMMA IssueIs ==
  ASSUME NEW i \in IssueFact
  PROVE  i.created \in ADay /\ i.updated \in ADay /\ i.state \in State /\ i.derived \in {"", "done"}
<1>1. PICK k \in IssueKind :
        i \in [project : {k.project}, repo : {k.repo}, created : ADay, updated : ADay,
              state : State, derived : {"", "done"}]
  BY DEF IssueFact
<1> QED
  BY <1>1

LEMMA CommitIs ==
  ASSUME NEW c \in CommitFact
  PROVE  /\ c.mail \in Mail \cup {NoOne} /\ c.handle \in 0 .. MaxHandle /\ c.agent \in BOOLEAN
         /\ c.lines \in Nat /\ c.day \in ADay
<1>1. \E k \in CommitKind, d \in ADay :
        c = [repo |-> k.repo, mail |-> k.mail, handle |-> k.handle, agent |-> k.agent,
             lines |-> k.lines, day |-> d]
  BY DEF CommitFact
<1> QED
  BY <1>1, AnalyticsAssumption

LEMMA RowsAre ==
  ASSUME FactsOK
  PROVE  /\ facts.commits \in Seq(CommitFact) /\ facts.prs \in Seq(PRFact)
         /\ facts.issues \in Seq(IssueFact)
         /\ \A n \in DOMAIN facts.commits : facts.commits[n] \in CommitFact
         /\ \A n \in DOMAIN facts.prs : facts.prs[n] \in PRFact
         /\ \A n \in DOMAIN facts.issues : facts.issues[n] \in IssueFact
<1>1. /\ facts.commits \in Seq(CommitFact) /\ facts.prs \in Seq(PRFact)
      /\ facts.issues \in Seq(IssueFact)
  BY DEF FactsOK
<1> QED
  BY <1>1

\* All time shows every row.
LEMMA AllRows ==
  ASSUME FactsOK
  PROVE  /\ PRs(AllTime) = DOMAIN facts.prs
         /\ Issues(AllTime) = DOMAIN facts.issues
         /\ Commits(AllTime) = DOMAIN facts.commits
<1>1. \A n \in DOMAIN facts.prs : facts.prs[n].created \in 1 .. LastDay
  BY RowsAre DEF PRFact, ADay
<1>2. \A n \in DOMAIN facts.issues : facts.issues[n].created \in 1 .. LastDay
  BY RowsAre, IssueIs DEF ADay
<1>3. \A n \in DOMAIN facts.commits : facts.commits[n].day \in 1 .. LastDay
  BY RowsAre, CommitIs DEF ADay
<1>4. \A d \in 1 .. LastDay : AllTime.from <= d /\ d < AllTime.to
  <2>1. PICK a, b : AllTime.from = a /\ AllTime.to = b /\ a = 1 /\ b = LastDay + 1
    BY AllTimeIs
  <2> QED
    BY <2>1, DaysFinite
<1> QED
  BY <1>1, <1>2, <1>3, <1>4, AllTimeIs
  DEF PRs, PRWhere, Issues, IssueWhere, Commits, WhereClause

\* What the panels count of all time is what there is.
LEMMA PRCounts ==
  ASSUME FactsOK
  PROVE  /\ PRTotals(AllTime).total = Len(facts.prs)
         /\ PRTotals(AllTime).total = PRTotals(AllTime).merged + PRTotals(AllTime).open
                                        + PRTotals(AllTime).closed
         /\ SumOf(PRThroughput(AllTime).opened) = Len(facts.prs)
         /\ SumOf(PRThroughput(AllTime).merged) = Cardinality(MergedPRs)
         /\ Cardinality(MergedPRs) <= PRTotals(AllTime).merged
         /\ PRLeadTimes(AllTime) \subseteq MergedPRs
<1> DEFINE D == DOMAIN facts.prs
           M == {n \in D : IsMerged(facts.prs[n])}
           O == {n \in D : facts.prs[n].state = "open" /\ facts.prs[n].merged = 0}
           C == {n \in D : facts.prs[n].state = "closed" /\ facts.prs[n].merged = 0}
<1>1. PRs(AllTime) = D /\ facts.prs \in Seq(PRFact)
  BY AllRows, RowsAre
<1>2. IsFiniteSet(D) /\ Cardinality(D) = Len(facts.prs)
  BY <1>1, PlacesFinite, D \in SUBSET D
<1>3. \A n \in D : /\ facts.prs[n].created \in ADay /\ facts.prs[n].merged \in 0 .. LastDay
                   /\ facts.prs[n].state \in {"open", "closed", "merged"}
  BY RowsAre DEF PRFact
<1>4. PRTotals(AllTime) = [total |-> Cardinality(D), merged |-> Cardinality(M),
                           open |-> Cardinality(O), closed |-> Cardinality(C)]
  BY <1>1 DEF PRTotals
<1>5. Cardinality(D) = Cardinality(M) + Cardinality(O) + Cardinality(C)
  <2>1. D = (M \cup O) \cup C /\ M \cap O = {} /\ (M \cup O) \cap C = {}
    BY <1>3 DEF IsMerged
  <2>2. IsFiniteSet(M) /\ IsFiniteSet(O) /\ IsFiniteSet(C)
    BY <1>2, FS_Subset, M \in SUBSET D, O \in SUBSET D, C \in SUBSET D
  <2> HIDE DEF D, M, O, C
  <2>3. IsFiniteSet(M \cup O) /\ Cardinality(M \cup O) = Cardinality(M) + Cardinality(O)
    BY <2>1, <2>2, DisjointSizes
  <2>4. Cardinality((M \cup O) \cup C) = Cardinality(M \cup O) + Cardinality(C)
    BY <2>1, <2>2, <2>3, DisjointSizes
  <2> QED
    BY <2>1, <2>3, <2>4
<1>6. SumOf(PRThroughput(AllTime).opened) = Cardinality(D)
  <2> DEFINE box == [n \in D |-> facts.prs[n].created]
             f == [d \in ADay |-> Cardinality({n \in D : facts.prs[n].created = d})]
  <2>1. PRThroughput(AllTime).opened = f
    BY <1>1 DEF PRThroughput
  <2>2. \A d \in ADay : {n \in D : facts.prs[n].created = d} = {n \in D : box[n] = d}
    OBVIOUS
  <2>3. DOMAIN f = ADay /\ \A d \in ADay : f[d] = Cardinality({n \in D : box[n] = d})
    BY <2>2
  <2>4. {n \in D : box[n] \in ADay} = D
    BY <1>3
  <2> HIDE DEF box, f, D
  <2> QED
    BY <1>2, <2>1, <2>3, <2>4, DaysFinite, SumOfCounts
<1>7. SumOf(PRThroughput(AllTime).merged) = Cardinality(MergedPRs)
  <2> DEFINE box == [n \in D |-> facts.prs[n].merged]
             f == [d \in ADay |-> Cardinality({n \in D : facts.prs[n].merged = d})]
  <2>1. PRThroughput(AllTime).merged = f
    BY <1>1 DEF PRThroughput
  <2>2. \A d \in ADay : {n \in D : facts.prs[n].merged = d} = {n \in D : box[n] = d}
    OBVIOUS
  <2>3. DOMAIN f = ADay /\ \A d \in ADay : f[d] = Cardinality({n \in D : box[n] = d})
    BY <2>2
  <2>4. \A x \in 0 .. LastDay : x \in ADay <=> x # 0
    BY DaysFinite DEF ADay
  <2>5. {n \in D : box[n] \in ADay} = MergedPRs
    BY <1>3, <2>4 DEF MergedPRs
  <2> HIDE DEF box, f, D
  <2> QED
    BY <1>2, <2>1, <2>3, <2>5, DaysFinite, SumOfCounts
<1>8. Cardinality(MergedPRs) <= Cardinality(M)
  <2>1. MergedPRs \in SUBSET M /\ M \in SUBSET D
    BY DEF MergedPRs, IsMerged
  <2> HIDE DEF D, M
  <2> QED
    BY <1>2, <2>1, FS_Subset
<1>9. PRLeadTimes(AllTime) \subseteq MergedPRs
  BY <1>1 DEF PRLeadTimes, MergedPRs
<1> HIDE DEF D, M, O, C
<1> QED
  BY <1>2, <1>4, <1>5, <1>6, <1>7, <1>8, <1>9

LEMMA IssueCounts ==
  ASSUME FactsOK
  PROVE  /\ SumOf(IssueFlowCounts(AllTime)) \in 0 .. Len(facts.issues)
         /\ SumOf(IssuesOpenedOverTime(AllTime)) = Len(facts.issues)
         /\ SumOf([p \in DOMAIN IssuesByProject(AllTime) |->
                     IssuesByProject(AllTime)[p].open + IssuesByProject(AllTime)[p].done])
              = Len(facts.issues)
<1> DEFINE D == DOMAIN facts.issues
<1>1. Issues(AllTime) = D /\ facts.issues \in Seq(IssueFact)
  BY AllRows, RowsAre
<1>2. IsFiniteSet(D) /\ Cardinality(D) = Len(facts.issues)
  BY <1>1, PlacesFinite, D \in SUBSET D
<1>3. \A n \in D : facts.issues[n].created \in ADay
  BY RowsAre, IssueIs
<1>4. SumOf(IssueFlowCounts(AllTime)) \in 0 .. Cardinality(D)
  <2> DEFINE box == [n \in D |-> Effective(facts.issues[n])]
             S == State \ {"other"}
             f == [s \in S |-> Cardinality({n \in D : Effective(facts.issues[n]) = s})]
             N == {n \in D : box[n] \in S}
  <2>1. IssueFlowCounts(AllTime) = f
    BY <1>1 DEF IssueFlowCounts
  <2>2. \A s \in S : {n \in D : Effective(facts.issues[n]) = s} = {n \in D : box[n] = s}
    OBVIOUS
  <2>3. DOMAIN f = S /\ \A s \in S : f[s] = Cardinality({n \in D : box[n] = s})
    BY <2>2
  <2>4. IsFiniteSet(S)
    <3>1. S = {"open"} \cup {"in_progress"} \cup {"done"} \cup {"closed"}
      BY DEF State
    <3>2. IsFiniteSet({"open"} \cup {"in_progress"})
      BY FS_Singleton, FS_Union
    <3>3. IsFiniteSet({"open"} \cup {"in_progress"} \cup {"done"})
      BY <3>2, FS_Singleton, FS_Union
    <3>4. IsFiniteSet({"open"} \cup {"in_progress"} \cup {"done"} \cup {"closed"})
      BY <3>3, FS_Singleton, FS_Union
    <3> QED
      BY <3>1, <3>4
  <2>5. N \in SUBSET D
    OBVIOUS
  <2> HIDE DEF box, f, D, S
  <2>6. SumOf(f) = Cardinality(N)
    BY <1>2, <2>3, <2>4, SumOfCounts
  <2>7. Cardinality(N) \in Nat /\ Cardinality(D) \in Nat /\ Cardinality(N) <= Cardinality(D)
    BY <1>2, <2>5, FS_Subset, FS_CardinalityType
  <2> QED
    BY <2>1, <2>6, <2>7
<1>5. SumOf(IssuesOpenedOverTime(AllTime)) = Cardinality(D)
  <2> DEFINE box == [n \in D |-> facts.issues[n].created]
             f == [d \in ADay |-> Cardinality({n \in D : facts.issues[n].created = d})]
  <2>1. IssuesOpenedOverTime(AllTime) = f
    BY <1>1 DEF IssuesOpenedOverTime
  <2>2. \A d \in ADay : {n \in D : facts.issues[n].created = d} = {n \in D : box[n] = d}
    OBVIOUS
  <2>3. DOMAIN f = ADay /\ \A d \in ADay : f[d] = Cardinality({n \in D : box[n] = d})
    BY <2>2
  <2>4. {n \in D : box[n] \in ADay} = D
    BY <1>3
  <2> HIDE DEF box, f, D
  <2> QED
    BY <1>2, <2>1, <2>3, <2>4, DaysFinite, SumOfCounts
<1>6. ASSUME NEW g, g = IssuesByProject(AllTime)
      PROVE  SumOf([p \in DOMAIN g |-> g[p].open + g[p].done]) = Cardinality(D)
  <2> DEFINE box == [n \in D |-> facts.issues[n].project]
             P == {facts.issues[n].project : n \in D}
             f == [p \in DOMAIN g |-> g[p].open + g[p].done]
             In(p) == {n \in D : facts.issues[n].project = p}
             Done(p) == {n \in In(p) : Terminal(facts.issues[n])}
  <2>1. DOMAIN g = P
    BY <1>1, <1>6 DEF IssuesByProject
  <2>2. \A p \in P : /\ g[p].open = Cardinality(In(p) \ Done(p))
                     /\ g[p].done = Cardinality(Done(p))
    BY <1>1, <1>6 DEF IssuesByProject
  <2>3. IsFiniteSet(P)
    <3>1. box \in Surjection(D, P)
      BY DEF Surjection
    <3> HIDE DEF box, P, D
    <3> QED
      BY <1>2, <3>1, FS_Surjection
  <2>4. ASSUME NEW p \in P PROVE f[p] = Cardinality({n \in D : box[n] = p})
    <3>1. {n \in D : box[n] = p} = In(p)
      OBVIOUS
    <3>2. In(p) = (In(p) \ Done(p)) \cup Done(p) /\ (In(p) \ Done(p)) \cap Done(p) = {}
      OBVIOUS
    <3>3. In(p) \ Done(p) \in SUBSET D /\ Done(p) \in SUBSET D
      OBVIOUS
    <3>4. IsFiniteSet(In(p) \ Done(p)) /\ IsFiniteSet(Done(p))
      BY <1>2, <3>3, FS_Subset
    <3>5. f[p] = g[p].open + g[p].done
      BY <2>1
    <3> HIDE DEF box, In, Done, f
    <3>6. Cardinality((In(p) \ Done(p)) \cup Done(p)) =
            Cardinality(In(p) \ Done(p)) + Cardinality(Done(p))
      BY <3>2, <3>4, DisjointSizes
    <3> QED
      BY <2>2, <3>1, <3>2, <3>5, <3>6
  <2>5. {n \in D : box[n] \in P} = D
    OBVIOUS
  <2>6. DOMAIN f = P
    BY <2>1
  <2> HIDE DEF box, f, D, P
  <2>7. SumOf(f) = Cardinality(D)
    BY <1>2, <2>3, <2>4, <2>5, <2>6, SumOfCounts
  <2> QED
    BY <2>7 DEF f
<1> HIDE DEF D
<1> QED
  BY <1>2, <1>4, <1>5, <1>6

LEMMA AgentCounts ==
  ASSUME FactsOK
  PROVE  /\ AgentShare(AllTime) = Cardinality(AgentCommits)
         /\ SumOf(AgentShareOverTime(AllTime)) = Cardinality(AgentCommits)
<1> DEFINE D == DOMAIN facts.commits
           A == {n \in D : CommitAt(n).agent}
           P == {CommitAt(n).day : n \in D}
           box == [n \in A |-> CommitAt(n).day]
           f == [d \in P |-> Cardinality({n \in D : CommitAt(n).day = d /\ CommitAt(n).agent})]
<1>1. Commits(AllTime) = D /\ facts.commits \in Seq(CommitFact)
  BY AllRows, RowsAre
<1>2. IsFiniteSet(D) /\ IsFiniteSet(A)
  BY <1>1, PlacesFinite, D \in SUBSET D, A \in SUBSET D
<1>3. A = AgentCommits
  BY DEF AgentCommits, CommitAt
<1>4. AgentShare(AllTime) = Cardinality(A)
  BY <1>1 DEF AgentShare
<1>5. AgentShareOverTime(AllTime) = f
  BY <1>1 DEF AgentShareOverTime
<1>6. IsFiniteSet(P)
  <2>1. [n \in D |-> CommitAt(n).day] \in Surjection(D, P)
    BY DEF Surjection
  <2> HIDE DEF P, D
  <2> QED
    BY <1>2, <2>1, FS_Surjection
<1>7. \A d \in P : {n \in D : CommitAt(n).day = d /\ CommitAt(n).agent} = {n \in A : box[n] = d}
  OBVIOUS
<1>8. DOMAIN f = P /\ \A d \in P : f[d] = Cardinality({n \in A : box[n] = d})
  BY <1>7
<1>9. {n \in A : box[n] \in P} = A
  OBVIOUS
<1> HIDE DEF D, A, P, box, f
<1>10. SumOf(f) = Cardinality(A)
  BY <1>2, <1>6, <1>8, <1>9, SumOfCounts
<1> QED
  BY <1>3, <1>4, <1>5, <1>10

\* What an answer that may be of the past still says of the rows, which none is taken from.
PRPast(got) ==
  /\ Len(got) >= 1 => /\ got[1].total \in 0 .. Len(facts.prs)
                      /\ got[1].total = got[1].merged + got[1].open + got[1].closed
  /\ Len(got) >= 2 => got[2] \subseteq MergedPRs
IssuePast(got) ==
  /\ Len(got) >= 1 => SumOf(got[1]) \in 0 .. Len(facts.issues)
  /\ Len(got) >= 2 => SumOf(got[2]) \in SumOf(got[1]) .. Len(facts.issues)
AgentPast(got) == Len(got) >= 1 => got[1].agent \in 0 .. Cardinality(AgentCommits)
Past(name, got) ==
  /\ name = "pull-requests" => PRPast(got)
  /\ name = "issue-flow" => IssuePast(got)
  /\ name = "agent-share" => AgentPast(got)

Now(n) == panel.got[n] = Answered(panel.name, n, AllTime)

\* Until a row changes every answer is of what there is now, the last of a panel always.
PanelInv ==
  /\ panel = [name |-> panel.name, got |-> panel.got, torn |-> panel.torn]
  /\ panel.name \in Panel \cup {"none"} /\ panel.torn \in BOOLEAN
  /\ (\E S : panel.got \in Seq(S)) /\ Len(panel.got) <= Statements(panel.name)
  /\ panel.name = "none" => panel = NoPanel
  /\ ~panel.torn => \A n \in 1 .. Len(panel.got) : Now(n)
  /\ Complete /\ panel.name # "none" => Now(Len(panel.got))
  /\ Past(panel.name, panel.got)

\* A panel that is complete agrees with itself.
LEMMA PanelsAgree == FactsOK /\ PanelInv => PanelAgrees
<1> SUFFICES ASSUME FactsOK, PanelInv, panel # NoPanel, Complete PROVE PanelAgrees
  BY DEF PanelAgrees
<1>1. panel.name \in Panel /\ Len(panel.got) = Statements(panel.name) /\ Now(Len(panel.got))
  BY DEF PanelInv, Complete
<1>2. CASE panel.name = "pull-requests"
  <2>1. Len(panel.got) = 3 /\ PRPast(panel.got)
    BY <1>1, <1>2 DEF Statements, PanelInv, Past
  <2>2. panel.got[3] = PRThroughput(AllTime)
    BY <1>1, <1>2, <2>1 DEF Now, Answered
  <2>3. ~panel.torn => panel.got[1] = PRTotals(AllTime)
    BY <1>2, <2>1 DEF PanelInv, Now, Answered
  <2>4. Cardinality(panel.got[2]) <= Cardinality(MergedPRs)
    <3>1. panel.got[2] \in SUBSET MergedPRs /\ MergedPRs \in SUBSET DOMAIN facts.prs
      BY <2>1 DEF PRPast, MergedPRs
    <3>2. IsFiniteSet(MergedPRs)
      BY <3>1, RowsAre, PlacesFinite
    <3> QED
      BY <3>1, <3>2, FS_Subset
  <2>5. AgreeTo(panel.got[1].total, SumOf(panel.got[3].opened))
    BY <2>1, <2>2, <2>3, PRCounts DEF AgreeTo, PRPast
  <2>6. SumOf(panel.got[3].merged) <= panel.got[1].merged \/ panel.torn
    BY <2>2, <2>3, PRCounts
  <2>7. Cardinality(panel.got[2]) <= SumOf(panel.got[3].merged)
    BY <2>2, <2>4, PRCounts
  <2> QED
    BY <1>2, <2>1, <2>5, <2>6, <2>7 DEF PanelAgrees, PRPast
<1>3. CASE panel.name = "issue-flow"
  <2>1. Len(panel.got) = 4 /\ IssuePast(panel.got)
    BY <1>1, <1>3 DEF Statements, PanelInv, Past
  <2>2. panel.got[4] = IssuesByProject(AllTime)
    BY <1>1, <1>3, <2>1 DEF Now, Answered
  <2>3. ~panel.torn => panel.got[2] = IssuesOpenedOverTime(AllTime)
    BY <1>3, <2>1 DEF PanelInv, Now, Answered
  <2>4. AgreeTo(SumOf(panel.got[2]),
                SumOf([p \in DOMAIN panel.got[4] |-> panel.got[4][p].open + panel.got[4][p].done]))
    BY <2>1, <2>2, <2>3, IssueCounts DEF AgreeTo, IssuePast
  <2> QED
    BY <1>3, <2>1, <2>4 DEF PanelAgrees, IssuePast
<1>4. CASE panel.name = "agent-share"
  <2>1. Len(panel.got) = 2 /\ AgentPast(panel.got)
    BY <1>1, <1>4 DEF Statements, PanelInv, Past
  <2>2. panel.got[2] = AgentShareOverTime(AllTime)
    BY <1>1, <1>4, <2>1 DEF Now, Answered
  <2>3. ~panel.torn => panel.got[1].agent = AgentShare(AllTime)
    BY <1>4, <2>1 DEF PanelInv, Now, Answered
  <2>4. AgreeTo(panel.got[1].agent, SumOf(panel.got[2]))
    BY <2>1, <2>2, <2>3, AgentCounts DEF AgreeTo, AgentPast
  <2> QED
    BY <1>4, <2>4 DEF PanelAgrees
<1> QED
  BY <1>1, <1>2, <1>3, <1>4 DEF Panel

LEMMA AnswersStand ==
  ASSUME facts' = facts
  PROVE  /\ PRTotals(AllTime)' = PRTotals(AllTime)
         /\ PRLeadTimes(AllTime)' = PRLeadTimes(AllTime)
         /\ PRThroughput(AllTime)' = PRThroughput(AllTime)
         /\ IssueFlowCounts(AllTime)' = IssueFlowCounts(AllTime)
         /\ IssuesOpenedOverTime(AllTime)' = IssuesOpenedOverTime(AllTime)
         /\ IssuesClosedOverTime(AllTime)' = IssuesClosedOverTime(AllTime)
         /\ IssuesByProject(AllTime)' = IssuesByProject(AllTime)
         /\ AgentShare(AllTime)' = AgentShare(AllTime)
         /\ AgentShareOverTime(AllTime)' = AgentShareOverTime(AllTime)
         /\ Commits(AllTime)' = Commits(AllTime)
<1>1. Commits(AllTime)' = Commits(AllTime)
  BY DEF Commits
<1>2. PRs(AllTime)' = PRs(AllTime)
  BY DEF PRs
<1>3. Issues(AllTime)' = Issues(AllTime)
  BY DEF Issues
<1>4. PRTotals(AllTime)' = PRTotals(AllTime)
  BY <1>2 DEF PRTotals
<1>5. PRLeadTimes(AllTime)' = PRLeadTimes(AllTime)
  BY <1>2 DEF PRLeadTimes
<1>6. PRThroughput(AllTime)' = PRThroughput(AllTime)
  BY <1>2 DEF PRThroughput
<1>7. IssueFlowCounts(AllTime)' = IssueFlowCounts(AllTime)
  BY <1>3 DEF IssueFlowCounts
<1>8. IssuesOpenedOverTime(AllTime)' = IssuesOpenedOverTime(AllTime)
  BY <1>3 DEF IssuesOpenedOverTime
<1>9. IssuesClosedOverTime(AllTime)' = IssuesClosedOverTime(AllTime)
  BY DEF IssuesClosedOverTime
<1>10. IssuesByProject(AllTime)' = IssuesByProject(AllTime)
  BY <1>3 DEF IssuesByProject
<1>11. AgentShare(AllTime)' = AgentShare(AllTime)
  BY <1>1 DEF AgentShare, CommitAt
<1>12. AgentShareOverTime(AllTime)' = AgentShareOverTime(AllTime)
  BY <1>1 DEF AgentShareOverTime, CommitAt
<1> QED
  BY <1>1, <1>4, <1>5, <1>6, <1>7, <1>8, <1>9, <1>10, <1>11, <1>12

\* A statement is run on the rows there are.
LEMMA StatementRuns == FactsOK /\ PanelInv /\ RunStatement => PanelInv'
<1> SUFFICES ASSUME FactsOK, PanelInv, RunStatement PROVE PanelInv'
  OBVIOUS
<1>1. PICK S : panel.got \in Seq(S)
  BY DEF PanelInv
<1>2. PICK k, a : k = Len(panel.got) /\ a = Answered(panel.name, k + 1, AllTime)
  OBVIOUS
<1>3. /\ k \in Nat /\ k < Statements(panel.name) /\ panel.name \in Panel
      /\ panel' = [panel EXCEPT !.got = Append(panel.got, a)] /\ UNCHANGED facts
  <2>1. Statements(panel.name) \in Nat
    BY DEF PanelInv, Statements, Panel
  <2>2. k # Statements(panel.name) /\ k <= Statements(panel.name) /\ k \in Nat
    BY <1>1, <1>2 DEF RunStatement, PanelInv, Complete
  <2>3. panel.name # "none"
    BY <2>1, <2>2 DEF Statements
  <2> QED
    BY <1>2, <2>1, <2>2, <2>3 DEF RunStatement, PanelInv
<1>4. /\ panel'.name = panel.name /\ panel'.torn = panel.torn
      /\ panel'.got = Append(panel.got, a)
      /\ panel' = [name |-> panel'.name, got |-> panel'.got, torn |-> panel'.torn]
  BY <1>3 DEF PanelInv
<1>5. /\ panel'.got \in Seq(S \cup {a}) /\ Len(panel'.got) = k + 1
      /\ \A n \in 1 .. k : panel'.got[n] = panel.got[n]
      /\ panel'.got[k + 1] = a
  <2>1. panel.got \in Seq(S \cup {a}) /\ a \in S \cup {a}
    BY <1>1
  <2> QED
    BY <1>2, <1>4, <2>1
<1>6. k + 1 <= Statements(panel.name) /\ Statements(panel.name) \in Nat
  BY <1>3 DEF Statements, Panel
<1>7. \A n \in Nat : Answered(panel.name, n, AllTime)' = Answered(panel.name, n, AllTime)
  BY <1>3, <1>4, AnswersStand DEF Answered
<1>8. Past(panel.name, panel.got)
  BY DEF PanelInv
<1>9. Now(k + 1)' /\ (~panel'.torn => \A n \in 1 .. k : Now(n)')
  BY <1>2, <1>3, <1>4, <1>5, <1>7 DEF Now, PanelInv
<1>10. PRPast(panel.got)' \/ panel.name # "pull-requests"
  <2> SUFFICES ASSUME panel.name = "pull-requests" PROVE PRPast(panel.got)'
    OBVIOUS
  <2>1. PRPast(panel.got) /\ k + 1 <= 3
    BY <1>6, <1>8 DEF Past, Statements
  <2>2. /\ (k = 0 => a = PRTotals(AllTime)) /\ (k = 1 => a = PRLeadTimes(AllTime))
    <3>1. k = 0 => a = Answered(panel.name, 1, AllTime)
      BY <1>2, <1>3
    <3>2. k = 1 => a = Answered(panel.name, 2, AllTime)
      BY <1>2, <1>3
    <3> QED
      BY <3>1, <3>2 DEF Answered
  <2>3. MergedPRs' = MergedPRs
    BY <1>3 DEF MergedPRs
  <2>4. CASE k = 0
    BY <1>3, <1>5, <2>2, <2>4, PRCounts DEF PRPast
  <2>5. CASE k = 1
    BY <1>2, <1>3, <1>5, <2>1, <2>2, <2>3, <2>5, PRCounts DEF PRPast
  <2>6. CASE k = 2
    BY <1>2, <1>3, <1>5, <2>1, <2>3, <2>6 DEF PRPast
  <2> QED
    BY <1>3, <2>1, <2>4, <2>5, <2>6
<1>11. IssuePast(panel.got)' \/ panel.name # "issue-flow"
  <2> SUFFICES ASSUME panel.name = "issue-flow" PROVE IssuePast(panel.got)'
    OBVIOUS
  <2>1. IssuePast(panel.got) /\ k + 1 <= 4
    BY <1>6, <1>8 DEF Past, Statements
  <2>2. /\ (k = 0 => a = IssueFlowCounts(AllTime)) /\ (k = 1 => a = IssuesOpenedOverTime(AllTime))
    <3>1. k = 0 => a = Answered(panel.name, 1, AllTime)
      BY <1>2, <1>3
    <3>2. k = 1 => a = Answered(panel.name, 2, AllTime)
      BY <1>2, <1>3
    <3> QED
      BY <3>1, <3>2 DEF Answered
  <2>3. Len(facts.issues)' = Len(facts.issues)
    BY <1>3
  <2>4. CASE k = 0
    BY <1>3, <1>5, <2>2, <2>3, <2>4, IssueCounts DEF IssuePast
  <2>5. CASE k = 1
    BY <1>2, <1>3, <1>5, <2>1, <2>2, <2>3, <2>5, IssueCounts DEF IssuePast
  <2>6. CASE k >= 2
    BY <1>2, <1>3, <1>5, <2>1, <2>3, <2>6 DEF IssuePast
  <2> QED
    BY <1>3, <2>1, <2>4, <2>5, <2>6
<1>12. AgentPast(panel.got)' \/ panel.name # "agent-share"
  <2> SUFFICES ASSUME panel.name = "agent-share" PROVE AgentPast(panel.got)'
    OBVIOUS
  <2>1. AgentPast(panel.got)
    BY <1>8 DEF Past
  <2>2. k = 0 => a.agent = AgentShare(AllTime)
    BY <1>2 DEF Answered
  <2>3. AgentCommits' = AgentCommits
    BY <1>3 DEF AgentCommits
  <2>4. IsFiniteSet(AgentCommits) /\ Cardinality(AgentCommits) \in Nat
    BY RowsAre, PlacesFinite, AgentCommits \in SUBSET DOMAIN facts.commits DEF AgentCommits
  <2>5. CASE k = 0
    BY <1>3, <1>5, <2>2, <2>3, <2>4, <2>5, AgentCounts DEF AgentPast
  <2>6. CASE k # 0
    BY <1>2, <1>3, <1>5, <2>1, <2>3, <2>6 DEF AgentPast
  <2> QED
    BY <2>5, <2>6
<1>13. Past(panel.name, panel.got)'
  BY <1>4, <1>10, <1>11, <1>12 DEF Past
<1>14. ~panel'.torn => \A n \in 1 .. Len(panel'.got) : Now(n)'
  BY <1>3, <1>5, <1>9
<1> QED
  BY <1>3, <1>4, <1>5, <1>6, <1>9, <1>13, <1>14 DEF PanelInv, Panel

\* A row that comes or changes takes nothing from what was answered of the past.
Grows ==
  /\ Len(facts.prs) <= Len(facts.prs)' /\ Len(facts.issues) <= Len(facts.issues)'
  /\ MergedPRs \subseteq MergedPRs' /\ AgentCommits \subseteq AgentCommits'

LEMMA RowsTear == FactsOK /\ FactsOK' /\ PanelInv /\ Grows /\ Tear => PanelInv'
<1> SUFFICES ASSUME FactsOK, FactsOK', PanelInv, Grows, Tear PROVE PanelInv'
  OBVIOUS
<1>1. CASE Complete
  <2>1. /\ panel' = NoPanel /\ NoPanel.name = "none" /\ NoPanel.got = <<>> /\ NoPanel.torn = FALSE
        /\ Len(<<>>) = 0 /\ <<>> \in Seq({})
        /\ NoPanel = [name |-> NoPanel.name, got |-> NoPanel.got, torn |-> NoPanel.torn]
    BY <1>1 DEF Tear, NoPanel
  <2>2. Statements("none") = 0
    BY DEF Statements
  <2>3. Past("none", <<>>)'
    BY DEF Past
  <2>4. panel'.name = "none" /\ panel'.got = <<>> /\ panel'.torn = FALSE
    BY <2>1
  <2>5. panel' = [name |-> panel'.name, got |-> panel'.got, torn |-> panel'.torn]
    BY <2>1
  <2>6. (\E S : panel'.got \in Seq(S)) /\ Len(panel'.got) <= Statements(panel'.name)
    BY <2>1, <2>2, <2>4
  <2>7. Past(panel.name, panel.got)'
    BY <2>3, <2>4
  <2>8. \A n \in 1 .. Len(panel'.got) : Now(n)'
    BY <2>1, <2>4
  <2> QED
    BY <2>1, <2>4, <2>5, <2>6, <2>7, <2>8 DEF PanelInv
<1>2. CASE ~Complete
  <2>1. PICK S : panel.got \in Seq(S)
    BY DEF PanelInv
  <2>2. panel' = [panel EXCEPT !.torn = panel.torn \/ panel.got # <<>>]
    BY <1>2 DEF Tear
  <2>3. /\ panel'.name = panel.name /\ panel'.got = panel.got
        /\ panel'.torn = (panel.torn \/ panel.got # <<>>)
        /\ panel' = [name |-> panel'.name, got |-> panel'.got, torn |-> panel'.torn]
    BY <2>2 DEF PanelInv
  <2>4. panel.name # "none"
    BY <1>2 DEF PanelInv, Complete, NoPanel, Statements
  <2>5. ~Complete'
    BY <1>2, <2>3 DEF Complete
  <2>6. ~panel'.torn => \A n \in 1 .. Len(panel'.got) : Now(n)'
    <3>1. ~panel'.torn => panel'.got = <<>>
      BY <2>3
    <3> QED
      BY <3>1
  <2>7. Len(facts.prs)' \in Nat /\ Len(facts.issues)' \in Nat /\ Len(facts.prs) \in Nat
          /\ Len(facts.issues) \in Nat
    <3>1. /\ facts.prs \in Seq(PRFact) /\ facts.issues \in Seq(IssueFact)
          /\ facts'.prs \in Seq(PRFact) /\ facts'.issues \in Seq(IssueFact)
      BY DEF FactsOK
    <3> QED
      BY <3>1
  <2>8. /\ Cardinality(AgentCommits) \in Nat /\ Cardinality(AgentCommits') \in Nat
        /\ Cardinality(AgentCommits) <= Cardinality(AgentCommits')
    <3>1. facts'.commits \in Seq(CommitFact) /\ AgentCommits' \in SUBSET DOMAIN facts'.commits
      BY DEF FactsOK, AgentCommits
    <3>2. IsFiniteSet(AgentCommits')
      BY <3>1, PlacesFinite
    <3> QED
      BY <3>2, FS_Subset, FS_CardinalityType DEF Grows
  <2>9. Past(panel.name, panel.got)'
    <3>1. Past(panel.name, panel.got)
      BY DEF PanelInv
    <3>2. PRPast(panel.got) => PRPast(panel.got)'
      BY <2>3, <2>7 DEF PRPast, Grows
    <3>3. IssuePast(panel.got) => IssuePast(panel.got)'
      BY <2>3, <2>7 DEF IssuePast, Grows
    <3>4. AgentPast(panel.got) => AgentPast(panel.got)'
      BY <2>3, <2>8 DEF AgentPast
    <3> QED
      BY <2>3, <3>1, <3>2, <3>3, <3>4 DEF Past
  <2> QED
    BY <2>1, <2>3, <2>4, <2>5, <2>6, <2>9 DEF PanelInv
<1> QED
  BY <1>1, <1>2

\* Rows come, and change, in their types.
LEMMA RowComes ==
  ASSUME FactsOK, NEW c, NEW p, NEW i,
         \/ c \in CommitFact /\ facts' = [facts EXCEPT !.commits = Append(@, c)]
         \/ p \in PRFact /\ p.merged = 0 /\ facts' = [facts EXCEPT !.prs = Append(@, p)]
         \/ i \in IssueFact /\ facts' = [facts EXCEPT !.issues = Append(@, i)]
  PROVE  FactsOK' /\ Grows
<1>1. PICK cs \in Seq(CommitFact), ps \in Seq(PRFact), is \in Seq(IssueFact) :
        facts = [commits |-> cs, prs |-> ps, issues |-> is]
  BY DEF FactsOK
<1>2. CASE c \in CommitFact /\ facts' = [facts EXCEPT !.commits = Append(@, c)]
  <2>1. facts' = [commits |-> Append(cs, c), prs |-> ps, issues |-> is]
    BY <1>1, <1>2
  <2>2. Append(cs, c) \in Seq(CommitFact) /\ \A n \in DOMAIN cs : n \in DOMAIN Append(cs, c) /\ Append(cs, c)[n] = cs[n]
    BY <1>1, <1>2
  <2>3. FactsOK'
    BY <1>1, <2>1, <2>2 DEF FactsOK
  <2> QED
    BY <1>1, <2>1, <2>2, <2>3 DEF Grows, MergedPRs, AgentCommits
<1>3. CASE p \in PRFact /\ p.merged = 0 /\ facts' = [facts EXCEPT !.prs = Append(@, p)]
  <2>1. facts' = [commits |-> cs, prs |-> Append(ps, p), issues |-> is]
    BY <1>1, <1>3
  <2>2. /\ Append(ps, p) \in Seq(PRFact) /\ Len(Append(ps, p)) = Len(ps) + 1
        /\ \A n \in DOMAIN ps : n \in DOMAIN Append(ps, p) /\ Append(ps, p)[n] = ps[n]
        /\ \A n \in DOMAIN Append(ps, p) : n \in DOMAIN ps \/ Append(ps, p)[n] = p
    BY <1>1, <1>3, SMTT(30)
  <2>3. FactsOK'
    <3>1. \A n \in DOMAIN ps : ps[n].state # "merged" => ps[n].merged = 0
      BY <1>1 DEF FactsOK
    <3>2. \A n \in DOMAIN Append(ps, p) :
            Append(ps, p)[n].state # "merged" => Append(ps, p)[n].merged = 0
      BY <1>3, <2>2, <3>1
    <3> QED
      BY <1>1, <2>1, <2>2, <3>2 DEF FactsOK
  <2> QED
    BY <1>1, <2>1, <2>2, <2>3 DEF Grows, MergedPRs, AgentCommits
<1>4. CASE i \in IssueFact /\ facts' = [facts EXCEPT !.issues = Append(@, i)]
  <2>1. facts' = [commits |-> cs, prs |-> ps, issues |-> Append(is, i)]
    BY <1>1, <1>4
  <2>2. Append(is, i) \in Seq(IssueFact) /\ Len(Append(is, i)) = Len(is) + 1
    BY <1>1, <1>4
  <2>3. FactsOK'
    BY <1>1, <2>1, <2>2 DEF FactsOK
  <2> QED
    BY <1>1, <2>1, <2>2, <2>3 DEF Grows, MergedPRs, AgentCommits
<1> QED
  BY <1>2, <1>3, <1>4

LEMMA RowChanges ==
  ASSUME FactsOK, NEW n,
         \/ n \in DOMAIN facts.prs /\ ChangePR(n)
         \/ n \in DOMAIN facts.issues /\ ChangeIssue(n)
  PROVE  FactsOK' /\ Grows
<1>1. PICK cs \in Seq(CommitFact), ps \in Seq(PRFact), is \in Seq(IssueFact) :
        facts = [commits |-> cs, prs |-> ps, issues |-> is]
  BY DEF FactsOK
<1>2. CASE n \in DOMAIN facts.prs /\ ChangePR(n)
  <2>1. PICK s \in {"open", "merged", "closed"}, d \in {0} \cup (facts.prs[n].created .. LastDay) :
          /\ s # "merged" => d = 0
          /\ facts' = [facts EXCEPT !.prs[n].state = s, !.prs[n].merged = d]
    BY <1>2 DEF ChangePR
  <2>2. PICK p : p = [ps[n] EXCEPT !.state = s, !.merged = d]
    OBVIOUS
  <2>3. facts' = [commits |-> cs, prs |-> [ps EXCEPT ![n] = p], issues |-> is]
    BY <1>1, <2>1, <2>2
  <2>4. n \in DOMAIN ps /\ ps[n] \in PRFact /\ ps[n].state # "merged" /\ ps[n].merged = 0
    <3>1. n \in DOMAIN ps /\ ps[n].state # "merged"
      BY <1>1, <1>2 DEF ChangePR
    <3>2. \A m \in DOMAIN ps : ps[m].state # "merged" => ps[m].merged = 0
      BY <1>1 DEF FactsOK
    <3> QED
      BY <1>1, <3>1, <3>2
  <2>5. p \in PRFact /\ (p.state # "merged" => p.merged = 0)
    <3>1. ps[n].created \in 1 .. LastDay
      BY <2>4 DEF PRFact, ADay
    <3>2. PICK c : c = ps[n].created
      OBVIOUS
    <3>3. d \in {0} \cup (c .. LastDay) /\ c \in 1 .. LastDay
      BY <1>1, <2>1, <3>1, <3>2
    <3>4. d \in 0 .. LastDay
      BY <3>3, DaysFinite
    <3> QED
      BY <2>1, <2>2, <2>4, <3>4 DEF PRFact
  <2>6. /\ [ps EXCEPT ![n] = p] \in Seq(PRFact) /\ Len([ps EXCEPT ![n] = p]) = Len(ps)
        /\ DOMAIN [ps EXCEPT ![n] = p] = DOMAIN ps
        /\ \A m \in DOMAIN ps : [ps EXCEPT ![n] = p][m] = IF m = n THEN p ELSE ps[m]
    BY <1>1, <2>4, <2>5
  <2>7. FactsOK'
    BY <1>1, <2>3, <2>5, <2>6 DEF FactsOK
  <2> QED
    BY <1>1, <2>3, <2>4, <2>6, <2>7 DEF Grows, MergedPRs, AgentCommits
<1>3. CASE n \in DOMAIN facts.issues /\ ChangeIssue(n)
  <2>1. PICK d, s, g : /\ d \in is[n].created .. LastDay /\ s \in State /\ g \in {"", "done"}
                       /\ facts' = [commits |-> cs, prs |-> ps,
                            issues |-> [is EXCEPT ![n] = [is[n] EXCEPT !.state = s, !.updated = d,
                                                                      !.derived = g]]]
    <3>1. PICK d \in is[n].created .. LastDay :
            \/ \E s \in State :
                 facts' = [facts EXCEPT !.issues[n].state = s, !.issues[n].updated = d]
            \/ facts' = [facts EXCEPT !.issues[n].derived = "done", !.issues[n].updated = d]
      BY <1>1, <1>3 DEF ChangeIssue
    <3>2. n \in DOMAIN is /\ is[n] \in IssueFact
      BY <1>1, <1>3
    <3>3. is[n].state \in State /\ is[n].derived \in {"", "done"}
      BY <3>2, IssueIs
    <3>4. PICK k \in IssueKind :
        is[n] \in [project : {k.project}, repo : {k.repo}, created : ADay, updated : ADay,
                   state : State, derived : {"", "done"}]
      BY <3>2 DEF IssueFact
    <3>5. CASE \E s \in State :
                 facts' = [facts EXCEPT !.issues[n].state = s, !.issues[n].updated = d]
      <4>1. PICK s \in State :
              facts' = [facts EXCEPT !.issues[n].state = s, !.issues[n].updated = d]
        BY <3>5
      <4>2. [[is[n] EXCEPT !.state = s] EXCEPT !.updated = d]
              = [is[n] EXCEPT !.state = s, !.updated = d, !.derived = is[n].derived]
        BY <3>4
      <4>3. facts' = [commits |-> cs, prs |-> ps,
                      issues |-> [is EXCEPT ![n] = [is[n] EXCEPT !.state = s, !.updated = d,
                                                                  !.derived = is[n].derived]]]
        BY <1>1, <3>2, <4>1, <4>2
      <4> QED
        BY <3>1, <3>3, <4>3 DEF State
    <3>6. CASE facts' = [facts EXCEPT !.issues[n].derived = "done", !.issues[n].updated = d]
      <4>2. [[is[n] EXCEPT !.derived = "done"] EXCEPT !.updated = d]
              = [is[n] EXCEPT !.state = is[n].state, !.updated = d, !.derived = "done"]
        BY <3>4
      <4>3. facts' = [commits |-> cs, prs |-> ps,
                      issues |-> [is EXCEPT ![n] = [is[n] EXCEPT !.state = is[n].state, !.updated = d,
                                                                  !.derived = "done"]]]
        BY <1>1, <3>2, <3>6, <4>2
      <4> QED
        BY <3>1, <3>3, <4>3
    <3> QED
      BY <3>1, <3>5, <3>6, ZenonT(60)
  <2>2. PICK i : i = [is[n] EXCEPT !.state = s, !.updated = d, !.derived = g]
    OBVIOUS
  <2>3. n \in DOMAIN is /\ i \in IssueFact
    <3>1. n \in DOMAIN is /\ is[n] \in IssueFact
      BY <1>1, <1>3
    <3>2. PICK k \in IssueKind :
            is[n] \in [project : {k.project}, repo : {k.repo}, created : ADay, updated : ADay,
                       state : State, derived : {"", "done"}]
      BY <3>1 DEF IssueFact
    <3>3. d \in ADay
      <4>1. PICK u : u = is[n].created
        OBVIOUS
      <4>2. u \in 1 .. LastDay /\ d \in u .. LastDay
        BY <2>1, <3>2, <4>1 DEF ADay
      <4> QED
        BY <4>2, DaysFinite DEF ADay
    <3>4. i \in [project : {k.project}, repo : {k.repo}, created : ADay, updated : ADay,
                 state : State, derived : {"", "done"}]
      BY <2>1, <2>2, <3>2, <3>3
    <3> QED
      BY <3>1, <3>4 DEF IssueFact
  <2>4. [is EXCEPT ![n] = i] \in Seq(IssueFact) /\ Len([is EXCEPT ![n] = i]) = Len(is)
    BY <1>1, <2>3
  <2>5. facts' = [commits |-> cs, prs |-> ps, issues |-> [is EXCEPT ![n] = i]]
    BY <2>1, <2>2
  <2>6. FactsOK'
    BY <1>1, <2>4, <2>5 DEF FactsOK
  <2> QED
    BY <1>1, <2>4, <2>5, <2>6 DEF Grows, MergedPRs, AgentCommits
<1> QED
  BY <1>2, <1>3

LEMMA PanelStays == PanelInv /\ UNCHANGED <<facts, panel>> => PanelInv'
<1> SUFFICES ASSUME PanelInv, facts' = facts, panel' = panel PROVE PanelInv'
  OBVIOUS
<1>1. \A n : Now(n)' <=> Now(n)
  BY AnswersStand DEF Now, Answered
<1>2. Past(panel.name, panel.got)' <=> Past(panel.name, panel.got)
  BY DEF Past, PRPast, IssuePast, AgentPast, MergedPRs, AgentCommits
<1>3. Complete' <=> Complete
  BY DEF Complete
<1> QED
  BY <1>1, <1>2, <1>3 DEF PanelInv

LEMMA PanelAsked == AskPanel => PanelInv'
<1> SUFFICES ASSUME AskPanel PROVE PanelInv'
  OBVIOUS
<1>1. PICK name \in Panel : panel' = [name |-> name, got |-> <<>>, torn |-> FALSE]
  BY DEF AskPanel
<1>2. Statements(name) \in Nat \ {0}
  BY DEF Statements, Panel
<1>3. /\ panel'.name = name /\ panel'.got = <<>> /\ panel'.torn = FALSE
      /\ Len(<<>>) = 0 /\ <<>> \in Seq({})
  BY <1>1
<1>4. panel' = [name |-> panel'.name, got |-> panel'.got, torn |-> panel'.torn]
  BY <1>1
<1>5. (\E S : panel'.got \in Seq(S)) /\ Len(panel'.got) <= Statements(panel'.name)
  BY <1>2, <1>3
<1>6. ~Complete' /\ \A n \in 1 .. Len(panel'.got) : Now(n)'
  BY <1>2, <1>3 DEF Complete
<1>7. Past(panel.name, panel.got)'
  BY <1>3 DEF Past, PRPast, IssuePast, AgentPast
<1>8. panel'.name # "none"
  BY <1>3 DEF Panel
<1> QED
  BY <1>3, <1>4, <1>5, <1>6, <1>7, <1>8 DEF PanelInv

\* The invariant of the dashboard.
PeopleOK ==
  /\ groupOf \in [Author -> Person \cup {NoOne}]
  /\ flagOf \in [Person -> {"shown", "excluded", "bot"}]
  /\ picked \in Person \cup {NoOne}
DashboardInv == FactsOK /\ PanelInv /\ PeopleOK

LEMMA DashboardInitially == AnalyticsInit => DashboardInv
<1> SUFFICES ASSUME AnalyticsInit PROVE DashboardInv
  OBVIOUS
<1>1. FactsOK /\ PeopleOK
  BY DEF AnalyticsInit, FactsOK, PeopleOK
<1>2. panel.name = "none" /\ panel.got = <<>> /\ panel.torn = FALSE /\ panel = NoPanel
  BY DEF AnalyticsInit, NoPanel
<1>3. Len(<<>>) = 0 /\ <<>> \in Seq({}) /\ Statements("none") = 0
  BY DEF Statements
<1>4. (\E S : panel.got \in Seq(S)) /\ Len(panel.got) <= Statements(panel.name)
  BY <1>2, <1>3
<1>5. \A n \in 1 .. Len(panel.got) : Now(n)
  BY <1>2, <1>3
<1>6. Past(panel.name, panel.got)
  BY <1>2 DEF Past
<1>7. panel = [name |-> panel.name, got |-> panel.got, torn |-> panel.torn]
  BY <1>2 DEF NoPanel
<1> QED
  BY <1>1, <1>2, <1>4, <1>5, <1>6, <1>7 DEF DashboardInv, PanelInv

LEMMA DashboardLasts == DashboardInv /\ [AnalyticsNext]_analyticsVars => DashboardInv'
<1> SUFFICES ASSUME DashboardInv, [AnalyticsNext]_analyticsVars PROVE DashboardInv'
  OBVIOUS
<1>1. FactsOK /\ PanelInv /\ PeopleOK
  BY DEF DashboardInv
<1>2. ASSUME FactsOK', Grows, Tear, UNCHANGED <<groupOf, flagOf, picked>> PROVE DashboardInv'
  <2>1. PanelInv'
    BY <1>1, <1>2, RowsTear
  <2>2. PeopleOK'
    BY <1>1, <1>2 DEF PeopleOK
  <2> QED
    BY <1>2, <2>1, <2>2 DEF DashboardInv
<1>3. ASSUME UNCHANGED facts, PanelInv', PeopleOK' PROVE DashboardInv'
  BY <1>1, <1>3 DEF DashboardInv, FactsOK
<1>4. CASE StoreCommit
  <2>1. PICK c \in CommitFact : facts' = [facts EXCEPT !.commits = Append(@, c)]
    BY <1>4 DEF StoreCommit
  <2>2. FactsOK' /\ Grows
    BY <1>1, <2>1, RowComes
  <2> QED
    BY <1>2, <1>4, <2>2 DEF StoreCommit
<1>5. CASE OpenPR
  <2>1. PICK p \in PRFact : p.merged = 0 /\ facts' = [facts EXCEPT !.prs = Append(@, p)]
    BY <1>5 DEF OpenPR
  <2>2. FactsOK' /\ Grows
    BY <1>1, <2>1, RowComes
  <2> QED
    BY <1>2, <1>5, <2>2 DEF OpenPR
<1>6. CASE OpenIssue
  <2>1. PICK i \in IssueFact : facts' = [facts EXCEPT !.issues = Append(@, i)]
    BY <1>6 DEF OpenIssue
  <2>2. FactsOK' /\ Grows
    BY <1>1, <2>1, RowComes
  <2> QED
    BY <1>2, <1>6, <2>2 DEF OpenIssue
<1>7. CASE \E n \in DOMAIN facts.prs : ChangePR(n)
  <2>1. PICK n \in DOMAIN facts.prs : ChangePR(n)
    BY <1>7
  <2>2. FactsOK' /\ Grows
    BY <1>1, <2>1, RowChanges
  <2> QED
    BY <1>2, <2>1, <2>2 DEF ChangePR
<1>8. CASE \E n \in DOMAIN facts.issues : ChangeIssue(n)
  <2>1. PICK n \in DOMAIN facts.issues : ChangeIssue(n)
    BY <1>8
  <2>2. FactsOK' /\ Grows
    BY <1>1, <2>1, RowChanges
  <2> QED
    BY <1>2, <2>1, <2>2 DEF ChangeIssue
<1>9. CASE Regroup
  <2>1. PanelInv' /\ UNCHANGED facts
    BY <1>1, <1>9, PanelStays DEF Regroup
  <2>2. PeopleOK'
    BY <1>1, <1>9 DEF Regroup, PeopleOK
  <2> QED
    BY <1>3, <2>1, <2>2
<1>10. CASE FlagPerson
  <2>1. PanelInv' /\ UNCHANGED facts
    BY <1>1, <1>10, PanelStays DEF FlagPerson
  <2>2. PeopleOK'
    BY <1>1, <1>10 DEF FlagPerson, PeopleOK
  <2> QED
    BY <1>3, <2>1, <2>2
<1>11. CASE Pick
  <2>1. PanelInv' /\ UNCHANGED facts
    BY <1>1, <1>11, PanelStays DEF Pick
  <2>2. PeopleOK'
    BY <1>1, <1>11 DEF Pick, PeopleOK
  <2> QED
    BY <1>3, <2>1, <2>2
<1>12. CASE AskPanel
  <2>1. PeopleOK' /\ UNCHANGED facts
    BY <1>1, <1>12 DEF AskPanel, PeopleOK
  <2> QED
    BY <1>3, <1>12, <2>1, PanelAsked
<1>13. CASE RunStatement
  <2>1. PeopleOK' /\ UNCHANGED facts
    BY <1>1, <1>13 DEF RunStatement, PeopleOK
  <2> QED
    BY <1>1, <1>3, <1>13, <2>1, StatementRuns
<1>14. CASE UNCHANGED analyticsVars
  <2>1. PanelInv' /\ UNCHANGED facts /\ PeopleOK'
    BY <1>1, <1>14, PanelStays DEF analyticsVars, PeopleOK
  <2> QED
    BY <1>3, <2>1
<1> QED
  BY <1>4, <1>5, <1>6, <1>7, <1>8, <1>9, <1>10, <1>11, <1>12, <1>13, <1>14
  DEF AnalyticsNext, PeopleNext, PanelNext

\* Rows come and change between the statements of a panel as they will: its series add up
\* to its totals, and to no less when they were torn (PRStats, IssueFlow, AgentStats).
THEOREM PanelsAddUp == AnalyticsSpec => []PanelAgrees
<1>1. DashboardInv => PanelAgrees
  BY PanelsAgree DEF DashboardInv
<1> QED
  BY <1>1, DashboardInitially, DashboardLasts, PTL DEF AnalyticsSpec

\* The rows, the grouping and the panel under way keep their types.
THEOREM DashboardTypeCorrect == AnalyticsSpec => []AnalyticsTypeOK
<1>1. DashboardInv => AnalyticsTypeOK
  BY DEF DashboardInv, FactsOK, PanelInv, PeopleOK, AnalyticsTypeOK
<1> QED
  BY <1>1, DashboardInitially, DashboardLasts, PTL DEF AnalyticsSpec

-----------------------------------------------------------------------------
(* The charts of commits *)

LEMMA WindowsAre ==
  ASSUME NEW f \in Windows
  PROVE  /\ f.from \in Nat /\ f.to \in Nat /\ f.who = {}
         /\ f = [from |-> f.from, to |-> f.to, repo |-> f.repo, who |-> f.who]
<1>1. PICK r \in {"", "web"} : f \in {ParseFilter(0, 0, r), ParseFilter(LastDay, 1, r)}
  BY DEF Windows
<1>2. LastDay \in Nat /\ 0 \in Nat /\ 1 \in Nat
  BY DaysFinite
<1>3. PICK x \in Nat, y \in Nat : f = ParseFilter(x, y, r)
  <2>1. CASE f = ParseFilter(0, 0, r)
    BY <1>2, <2>1
  <2>2. CASE f = ParseFilter(LastDay, 1, r)
    BY <1>2, <2>2
  <2> QED
    BY <1>1, <2>1, <2>2
<1>4. f.from \in Nat /\ f.to \in Nat /\ f.who = {}
  BY <1>3, WindowIs
<1>5. f = [from |-> f.from, to |-> f.to, repo |-> f.repo, who |-> f.who]
  BY <1>3 DEF ParseFilter
<1> QED
  BY <1>4, <1>5

\* The commits of a filter are finitely many, and are lines.
LEMMA CommitsAre ==
  ASSUME FactsOK, NEW f, NEW N \in SUBSET DOMAIN facts.commits
  PROVE  /\ Commits(f) \in SUBSET DOMAIN facts.commits
         /\ IsFiniteSet(N) /\ Cardinality(N) \in Nat
         /\ Amounts([n \in N |-> CommitAt(n).lines], N)
         /\ \A n \in DOMAIN facts.commits : CommitAt(n) \in CommitFact /\ CommitAt(n).day \in Nat
<1>1. IsFiniteSet(N) /\ Cardinality(N) \in Nat
  BY RowsAre, PlacesFinite
<1>2. \A n \in DOMAIN facts.commits :
        CommitAt(n) \in CommitFact /\ CommitAt(n).day \in Nat /\ CommitAt(n).lines \in Nat
  BY RowsAre, CommitIs DEF CommitAt, ADay
<1> QED
  BY <1>1, <1>2 DEF Commits, Amounts

\* What is sorted by what it has of something adds up to all of it.
LEMMA SortedAddsUp ==
  ASSUME NEW N, IsFiniteSet(N), NEW box, NEW fun, DOMAIN fun = {box[n] : n \in N},
         \A b \in DOMAIN fun : fun[b] = Cardinality({n \in N : box[n] = b})
  PROVE  SumOf(fun) = Cardinality(N)
<1> DEFINE D == {box[n] : n \in N}
<1>1. IsFiniteSet(D)
  <2>1. [n \in N |-> box[n]] \in Surjection(N, D)
    BY DEF Surjection
  <2> HIDE DEF D
  <2> QED
    BY <2>1, FS_Surjection
<1>2. {n \in N : box[n] \in D} = N
  OBVIOUS
<1> HIDE DEF D
<1> QED
  BY <1>1, <1>2, SumOfCounts DEF D

LEMMA ChartsAddUp ==
  ASSUME FactsOK, NEW f, NEW bucket
  PROVE  /\ SumOf(CommitsOverTime(f, bucket)) = Cardinality(Commits(f))
         /\ SumOf(RepoStats(f)) = Cardinality(Commits(f))
<1> DEFINE N == Commits(f)
<1>1. IsFiniteSet(N)
  BY CommitsAre
<1>2. SumOf(CommitsOverTime(f, bucket)) = Cardinality(N)
  <2> DEFINE box == [n \in N |-> BucketOf(bucket, CommitAt(n).day)]
             fun == CommitsOverTime(f, bucket)
  <2>1. DOMAIN fun = {box[n] : n \in N}
    BY DEF CommitsOverTime, Buckets
  <2>2. ASSUME NEW b \in DOMAIN fun PROVE fun[b] = Cardinality({n \in N : box[n] = b})
    <3>1. InBucket(f, bucket, b) = {n \in N : box[n] = b}
      BY DEF InBucket
    <3> QED
      BY <3>1 DEF CommitsOverTime
  <2> HIDE DEF N, box, fun
  <2>3. SumOf(fun) = Cardinality(N)
    BY <1>1, <2>1, <2>2, SortedAddsUp
  <2> QED
    BY <2>3 DEF fun
<1>3. SumOf(RepoStats(f)) = Cardinality(N)
  <2> DEFINE box == [n \in N |-> CommitAt(n).repo]
             fun == RepoStats(f)
  <2>1. DOMAIN fun = {box[n] : n \in N}
    BY DEF RepoStats
  <2>2. ASSUME NEW b \in DOMAIN fun PROVE fun[b] = Cardinality({n \in N : box[n] = b})
    <3>1. {n \in N : CommitAt(n).repo = b} = {n \in N : box[n] = b}
      OBVIOUS
    <3> QED
      BY <3>1 DEF RepoStats
  <2> HIDE DEF N, box, fun
  <2>3. SumOf(fun) = Cardinality(N)
    BY <1>1, <2>1, <2>2, SortedAddsUp
  <2> QED
    BY <2>3 DEF fun
<1> QED
  BY <1>2, <1>3

\* The day that is asked for has what the heatmap has of it.
LEMMA DaysAgree ==
  ASSUME FactsOK, NEW f \in Windows, NEW d \in f.from .. f.to - 1
  PROVE  Cardinality(CommitsOnDay(f, d)) = IF d \in DOMAIN Heatmap(f) THEN Heatmap(f)[d] ELSE 0
<1> DEFINE On == {n \in Commits(f) : CommitAt(n).day = d}
<1>1. PICK a \in Nat, b \in Nat : f = [from |-> a, to |-> b, repo |-> f.repo, who |-> {}]
  BY WindowsAre
<1>2. d \in Nat /\ a <= d /\ d < b
  <2>1. f.from = a /\ f.to = b
    BY <1>1
  <2>2. d \in a .. b - 1
    BY <2>1
  <2> QED
    BY <2>2
<1>3. PICK g : /\ g = [f EXCEPT !.from = d, !.to = d + 1]
                /\ g.from = d /\ g.to = d + 1 /\ g.repo = f.repo /\ g.who = {}
  <2> DEFINE g == [f EXCEPT !.from = d, !.to = d + 1]
  <2>1. g.from = d /\ g.to = d + 1
    BY <1>1
  <2>2. g.repo = f.repo /\ g.who = {}
    BY <1>1
  <2> QED
    BY <2>1, <2>2
<1>4. CommitsOnDay(f, d) = On
  <2>1. ASSUME NEW n \in DOMAIN facts.commits
        PROVE  WhereClause(g, CommitAt(n)) <=>
                 WhereClause(f, CommitAt(n)) /\ CommitAt(n).day = d
    <3>1. PICK e \in Nat : e = CommitAt(n).day
      BY CommitsAre, {} \in SUBSET DOMAIN facts.commits
    <3>2. d <= e /\ e < d + 1 <=> e = d
      BY <1>2
    <3>3. f.from = a /\ f.to = b /\ f.who = {}
      BY <1>1
    <3> QED
      BY <1>2, <1>3, <3>1, <3>2, <3>3 DEF WhereClause
  <2> QED
    BY <1>3, <2>1 DEF CommitsOnDay, Commits, CommitAt
<1>5. \A n : BucketOf("day", CommitAt(n).day) = CommitAt(n).day
  BY DEF BucketOf
<1>6. /\ DOMAIN Heatmap(f) = {CommitAt(n).day : n \in Commits(f)}
      /\ d \in DOMAIN Heatmap(f) => Heatmap(f)[d] = Cardinality(On)
  BY <1>5 DEF Heatmap, CommitsOverTime, Buckets, InBucket
<1>7. d \notin DOMAIN Heatmap(f) => On = {}
  BY <1>6
<1> QED
  BY <1>4, <1>6, <1>7, FS_EmptySet

-----------------------------------------------------------------------------
(* Ranked from the most *)

Ranks(s, S, w) ==
  /\ s \in [1 .. Cardinality(S) -> S]
  /\ \A i, j \in 1 .. Cardinality(S) : i # j => s[i] # s[j]
  /\ \A r, t \in 1 .. Cardinality(S) : r < t => w[s[r]] >= w[s[t]]

\* What is less than all the ranked comes after them.
LEMMA RankedOneMore ==
  ASSUME NEW S, IsFiniteSet(S), NEW w, Amounts(w, S), NEW k \in S,
         \A x \in S : w[k] <= w[x], NEW s, Ranks(s, S \ {k}, w)
  PROVE  \E z : Ranks(z, S, w)
<1>1. PICK m \in Nat : m = Cardinality(S \ {k})
  BY FS_RemoveElement, FS_CardinalityType
<1>2. Cardinality(S) = m + 1
  <2>1. IsFiniteSet(S \ {k}) /\ Cardinality(S \ {k}) = Cardinality(S) - 1
    BY FS_RemoveElement
  <2>2. PICK c \in Nat : c = Cardinality(S)
    BY FS_CardinalityType
  <2> QED
    BY <1>1, <2>1, <2>2
<1>3. /\ s \in [1 .. m -> S \ {k}]
      /\ \A i, j \in 1 .. m : i # j => s[i] # s[j]
      /\ \A r, t \in 1 .. m : r < t => w[s[r]] >= w[s[t]]
  BY <1>1 DEF Ranks
<1> DEFINE z == [i \in 1 .. m + 1 |-> IF i = m + 1 THEN k ELSE s[i]]
<1>4. /\ z[m + 1] = k
      /\ \A i \in 1 .. m : z[i] = s[i] /\ s[i] \in S \ {k}
      /\ z \in [1 .. m + 1 -> S]
      /\ \A i \in 1 .. m + 1 : i \in 1 .. m \/ i = m + 1
  BY <1>3
<1> HIDE DEF z
<1>5. \A i, j \in 1 .. m + 1 : i # j => z[i] # z[j]
  BY <1>3, <1>4
<1>6. ASSUME NEW r \in 1 .. m + 1, NEW t \in 1 .. m + 1, r < t PROVE w[z[r]] >= w[z[t]]
  <2>1. r \in 1 .. m
    BY <1>6
  <2>2. CASE t = m + 1
    <3>1. PICK x \in S : z[r] = x /\ z[t] = k
      BY <1>4, <2>1, <2>2
    <3>2. w[x] \in Nat /\ w[k] \in Nat /\ w[k] <= w[x]
      BY DEF Amounts
    <3> QED
      BY <3>1, <3>2
  <2>3. CASE t \in 1 .. m
    BY <1>3, <1>4, <1>6, <2>1, <2>3
  <2> QED
    BY <1>4, <2>2, <2>3
<1>7. Ranks(z, S, w)
  BY <1>2, <1>4, <1>5, <1>6 DEF Ranks
<1> QED
  BY <1>7

\* Whatever has amounts can be ranked.
LEMMA CanRank ==
  ASSUME NEW S, IsFiniteSet(S), NEW w, Amounts(w, S)
  PROVE  \E s : Ranks(s, S, w)
<1> DEFINE Bad == {A \in SUBSET S : ~\E s : Ranks(s, A, w)}
           Sizes == {Cardinality(A) : A \in Bad}
<1> SUFFICES ASSUME Bad # {} PROVE FALSE
  OBVIOUS
<1>1. \A A \in SUBSET S : IsFiniteSet(A) /\ Cardinality(A) \in Nat
  BY FS_Subset, FS_CardinalityType
<1>2. Sizes \in SUBSET Nat /\ Sizes # {}
  BY <1>1
<1>3. PICK c \in Sizes : \A n \in Sizes : c <= n
  <2> HIDE DEF Sizes
  <2> QED
    BY <1>2, LeastNatural
<1>4. PICK A \in Bad : c = Cardinality(A)
  OBVIOUS
<1>5. A \in SUBSET S /\ IsFiniteSet(A) /\ ~\E s : Ranks(s, A, w)
  BY <1>1, <1>4
<1>6. A # {}
  <2>1. Cardinality({}) = 0
    BY FS_EmptySet
  <2>2. 1 .. 0 = {}
    OBVIOUS
  <2>3. Ranks([i \in {} |-> 0], {}, w)
    BY <2>1, <2>2 DEF Ranks
  <2> QED
    BY <1>5, <2>3
<1> DEFINE Ws == {w[x] : x \in A}
<1>7. Ws \in SUBSET Nat /\ Ws # {}
  BY <1>5, <1>6 DEF Amounts
<1>8. PICK l \in Ws : \A n \in Ws : l <= n
  <2> HIDE DEF Ws
  <2> QED
    BY <1>7, LeastNatural
<1>9. PICK k \in A : l = w[k] /\ \A x \in A : w[k] <= w[x]
  BY <1>8
<1>10. \E s : Ranks(s, A \ {k}, w)
  <2>1. A \ {k} \in SUBSET S /\ Cardinality(A \ {k}) = Cardinality(A) - 1
    BY <1>5, FS_RemoveElement
  <2>2. PICK a \in Nat, b \in Nat : a = Cardinality(A) /\ b = Cardinality(A \ {k})
    BY <1>1, <1>5, <2>1
  <2>3. A \ {k} \notin Bad
    <3>1. ASSUME A \ {k} \in Bad PROVE FALSE
      <4>1. b \in Sizes
        BY <2>2, <3>1
      <4>2. a <= b /\ b = a - 1
        BY <1>3, <1>4, <2>1, <2>2, <4>1
      <4> QED
        BY <4>2
    <3> QED
      BY <3>1
  <2> QED
    BY <2>1, <2>3
<1>11. Amounts(w, A)
  BY <1>5 DEF Amounts
<1> HIDE DEF Ws, Sizes, Bad
<1> QED
  BY <1>5, <1>9, <1>10, <1>11, RankedOneMore

\* The ranking has each of them once.
LEMMA MostFirstIs ==
  ASSUME NEW S, IsFiniteSet(S), NEW w, Amounts(w, S), NEW s, s = MostFirst(S, w)
  PROVE  /\ Cardinality(S) \in Nat /\ s \in [1 .. Cardinality(S) -> S]
         /\ \A i, j \in 1 .. Cardinality(S) : i # j => s[i] # s[j]
         /\ \A x \in S : \E i \in 1 .. Cardinality(S) : s[i] = x
         /\ \A r, t \in 1 .. Cardinality(S) : r < t => w[s[r]] >= w[s[t]]
<1> DEFINE n == Cardinality(S)
           Sorted(z) == \A r, t \in DOMAIN z : r < t => w[z[r]] >= w[z[t]]
<1>1. n \in Nat
  BY FS_CardinalityType
<1>2. SetToSeqs(S) = {z \in [1 .. n -> S] : \A i, j \in 1 .. n : i # j => z[i] # z[j]}
  BY DEF SetToSeqs
<1>3. \E z \in SetToSeqs(S) : Sorted(z)
  <2>1. PICK z : Ranks(z, S, w)
    BY CanRank
  <2>2. z \in SetToSeqs(S) /\ Sorted(z)
    BY <1>2, <2>1 DEF Ranks
  <2> QED
    BY <2>2
<1>4. s = CHOOSE z \in SetToSeqs(S) : Sorted(z)
  BY DEF MostFirst
<1> HIDE DEF Sorted
<1>5. s \in SetToSeqs(S) /\ Sorted(s)
  BY <1>3, <1>4
<1>6. s \in [1 .. n -> S] /\ \A i, j \in 1 .. n : i # j => s[i] # s[j]
  BY <1>2, <1>5
<1>7. \A r, t \in 1 .. n : r < t => w[s[r]] >= w[s[t]]
  BY <1>5, <1>6 DEF Sorted
<1>8. \A x \in S : \E i \in 1 .. n : s[i] = x
  <2>1. s \in Injection(1 .. n, S)
    BY <1>6 DEF Injection, IsInjective
  <2>2. IsFiniteSet(1 .. n) /\ Cardinality(1 .. n) = n
    <3> HIDE DEF n
    <3> QED
      BY <1>1, FS_Interval
  <2>3. s \in Surjection(1 .. n, S)
    BY <2>1, <2>2, FS_Injection
  <2> QED
    BY <2>3 DEF Surjection
<1> QED
  BY <1>1, <1>6, <1>7, <1>8

-----------------------------------------------------------------------------
(* The series of the first people and of everyone else *)

\* A weight of commits, and of commits of one kind and of another.
LEMMA WeighIs ==
  ASSUME FactsOK, NEW measure, NEW N \in SUBSET DOMAIN facts.commits
  PROVE  /\ IsFiniteSet(N) /\ Weigh(measure, N) \in Nat
         /\ measure # "commits" => Weigh(measure, N) = Total([n \in N |-> CommitAt(n).lines], N)
<1>1. IsFiniteSet(N) /\ Cardinality(N) \in Nat /\ Amounts([n \in N |-> CommitAt(n).lines], N)
  BY CommitsAre
<1>2. LinesOf(N) = Total([n \in N |-> CommitAt(n).lines], N)
  BY SumIsTotal DEF LinesOf
<1>3. LinesOf(N) \in Nat
  BY <1>1, <1>2, TotalIsUnits
<1> QED
  BY <1>1, <1>2, <1>3 DEF Weigh

LEMMA LinesWithin ==
  ASSUME FactsOK, NEW N \in SUBSET DOMAIN facts.commits, NEW A \in SUBSET N
  PROVE  LinesOf(A) = Total([n \in N |-> CommitAt(n).lines], A)
<1>1. IsFiniteSet(A) /\ Amounts([n \in A |-> CommitAt(n).lines], A)
  BY CommitsAre, A \in SUBSET DOMAIN facts.commits
<1>2. LinesOf(A) = Total([n \in A |-> CommitAt(n).lines], A)
  BY SumIsTotal DEF LinesOf
<1>3. \A x \in A : [n \in A |-> CommitAt(n).lines][x] = [n \in N |-> CommitAt(n).lines][x]
  OBVIOUS
<1> QED
  BY <1>1, <1>2, <1>3, TotalSame

LEMMA WeighSplit ==
  ASSUME FactsOK, NEW measure, NEW A \in SUBSET DOMAIN facts.commits,
         NEW B \in SUBSET DOMAIN facts.commits, A \cap B = {}
  PROVE  Weigh(measure, A \cup B) = Weigh(measure, A) + Weigh(measure, B)
<1> DEFINE N == A \cup B
<1>1. IsFiniteSet(A) /\ IsFiniteSet(B) /\ N \in SUBSET DOMAIN facts.commits
  BY CommitsAre
<1>2. Cardinality(N) = Cardinality(A) + Cardinality(B)
  BY <1>1, DisjointSizes
<1>3. LinesOf(N) = LinesOf(A) + LinesOf(B)
  <2> DEFINE v == [n \in N |-> CommitAt(n).lines]
  <2>1. Amounts(v, N)
    BY <1>1, CommitsAre
  <2>2. LinesOf(A) = Total(v, A) /\ LinesOf(B) = Total(v, B) /\ LinesOf(N) = Total(v, N)
    <3>1. A \in SUBSET N /\ B \in SUBSET N /\ N \in SUBSET N
      OBVIOUS
    <3> HIDE DEF N
    <3>2. LinesOf(A) = Total(v, A)
      BY <1>1, <3>1, LinesWithin
    <3>3. LinesOf(B) = Total(v, B)
      BY <1>1, <3>1, LinesWithin
    <3>4. LinesOf(N) = Total(v, N)
      BY <1>1, <3>1, LinesWithin
    <3> QED
      BY <3>2, <3>3, <3>4
  <2> HIDE DEF v
  <2>3. Total(v, A \cup B) = Total(v, A) + Total(v, B)
    BY <1>1, <2>1, TotalSplit
  <2> QED
    BY <2>2, <2>3
<1> QED
  BY <1>2, <1>3 DEF Weigh

\* A sum of one number, and of two.
LEMMA SumOfOne ==
  ASSUME NEW f, DOMAIN f = 1 .. 1, f[1] \in Nat PROVE SumOf(f) = f[1]
<1>1. 1 .. 1 = {1}
  OBVIOUS
<1> QED
  BY <1>1, SumIsTotal, TotalOne

LEMMA SumOfTwo ==
  ASSUME NEW f, DOMAIN f = 1 .. 2, f[1] \in Nat, f[2] \in Nat PROVE SumOf(f) = f[1] + f[2]
<1>1. 1 .. 2 = {1} \cup {2} /\ {1} \cap {2} = {}
  OBVIOUS
<1>2. IsFiniteSet({1}) /\ IsFiniteSet({2})
  BY FS_Singleton
<1>3. Amounts(f, {1} \cup {2})
  BY DEF Amounts
<1>4. Total(f, {1} \cup {2}) = Total(f, {1}) + Total(f, {2})
  BY <1>1, <1>2, <1>3, TotalSplit
<1>5. Total(f, {1}) = f[1] /\ Total(f, {2}) = f[2]
  BY TotalOne
<1>6. SumOf(f) = Total(f, {1} \cup {2})
  BY <1>1, SumIsTotal
<1> QED
  BY <1>4, <1>5, <1>6

LEMMA AppendOne ==
  ASSUME NEW p, NEW q, NEW s, s = Append([r \in 1 .. 1 |-> p], q)
  PROVE  DOMAIN s = 1 .. 2 /\ s[1] = p /\ s[2] = q
<1> DEFINE one == [r \in 1 .. 1 |-> p]
<1>1. one \in Seq({p, q}) /\ Len(one) = 1
  <2>1. PICK k \in Nat : k = 1
    OBVIOUS
  <2>2. one \in [1 .. k -> {p, q}]
    BY <2>1
  <2> HIDE DEF one
  <2> QED
    BY <2>1, <2>2
<1>2. one[1] = p
  OBVIOUS
<1>3. s = Append(one, q)
  OBVIOUS
<1> HIDE DEF one
<1>4. Len(s) = 2 /\ s \in Seq({p, q}) /\ s[1] = p /\ s[2] = q
  BY <1>1, <1>2, <1>3
<1> QED
  BY <1>4

LEMMA OneSeries ==
  ASSUME NEW p, NEW b, p[b] \in Nat, NEW series, series = [r \in 1 .. 1 |-> p]
  PROVE  SumOf([s \in DOMAIN series |-> series[s][b]]) = p[b]
<1> DEFINE sums == [s \in DOMAIN series |-> series[s][b]]
<1>1. DOMAIN sums = 1 .. 1 /\ sums[1] = p[b]
  OBVIOUS
<1> HIDE DEF sums
<1>2. SumOf(sums) = p[b]
  BY <1>1, SumOfOne
<1> QED
  BY <1>2 DEF sums

LEMMA TwoSeries ==
  ASSUME NEW p, NEW q, NEW b, p[b] \in Nat, q[b] \in Nat,
         NEW series, series = Append([r \in 1 .. 1 |-> p], q)
  PROVE  SumOf([s \in DOMAIN series |-> series[s][b]]) = p[b] + q[b]
<1> DEFINE sums == [s \in DOMAIN series |-> series[s][b]]
<1>1. DOMAIN series = 1 .. 2 /\ series[1] = p /\ series[2] = q
  BY AppendOne
<1>2. DOMAIN sums = 1 .. 2 /\ sums[1] = p[b] /\ sums[2] = q[b]
  BY <1>1
<1> HIDE DEF sums
<1>3. SumOf(sums) = p[b] + q[b]
  BY <1>2, SumOfTwo
<1> QED
  BY <1>3 DEF sums

\* What the series have at a point.
SumAt(series, b) == SumOf([s \in DOMAIN series |-> series[s][b]])

FirstAndRest(f, bucket, measure) == Series(f, bucket, measure, 1, TRUE)

LEMMA SeriesAddUp ==
  ASSUME FactsOK, NEW f, NEW bucket, NEW measure, NEW b, NEW series,
         series = FirstAndRest(f, bucket, measure),
         NEW each, each = InBucket(f, bucket, b) \cap CountedIn(f, bucket), each # {}
  PROVE  SumAt(series, b) = Weigh(measure, each)
<1> DEFINE shown == CountedIn(f, bucket)
           With(key) == {n \in shown : KeyInBucket(f, bucket, n) = key}
           keys == {KeyInBucket(f, bucket, n) : n \in shown}
           weight == [k \in keys |-> Weigh(measure, With(k))]
           ranked == MostFirst(keys, weight)
           axis == {BucketOf(bucket, CommitAt(n).day) : n \in shown}
           Points(ns) == [d \in axis |-> Weigh(measure, ns \cap InBucket(f, bucket, d))]
           first == [r \in 1 .. Min({1, Len(ranked)}) |-> Points(With(ranked[r]))]
           rest == RestOf(ranked, 1)
           others == UNION {With(k) : k \in ToSet(rest)}
<1>1. series = IF rest # <<>> THEN Append(first, Points(others)) ELSE first
  BY DEF Series, FirstAndRest
<1>2. shown \in SUBSET DOMAIN facts.commits /\ IsFiniteSet(shown)
  <2>1. shown \in SUBSET DOMAIN facts.commits
    BY DEF CountedIn, Commits
  <2> HIDE DEF shown
  <2> QED
    BY <2>1, CommitsAre
<1>3. IsFiniteSet(keys)
  <2>1. [n \in shown |-> KeyInBucket(f, bucket, n)] \in Surjection(shown, keys)
    BY DEF Surjection
  <2> HIDE DEF keys, shown
  <2> QED
    BY <1>2, <2>1, FS_Surjection
<1>4. Amounts(weight, keys)
  <2>1. ASSUME NEW k \in keys PROVE weight[k] \in Nat
    <3>1. With(k) \in SUBSET DOMAIN facts.commits
      BY <1>2
    <3> HIDE DEF With
    <3> QED
      BY <3>1, WeighIs
  <2> HIDE DEF keys, weight
  <2> QED
    BY <2>1 DEF Amounts
<1>5. PICK L \in Nat : /\ L >= 1 /\ ranked \in [1 .. L -> keys]
                       /\ \A i, j \in 1 .. L : i # j => ranked[i] # ranked[j]
                       /\ \A x \in keys : \E i \in 1 .. L : ranked[i] = x
  <2>1. keys # {}
    <3>1. PICK n \in shown : TRUE
      OBVIOUS
    <3> QED
      BY <3>1
  <2> HIDE DEF keys, weight
  <2>2. /\ Cardinality(keys) \in Nat /\ ranked \in [1 .. Cardinality(keys) -> keys]
        /\ \A i, j \in 1 .. Cardinality(keys) : i # j => ranked[i] # ranked[j]
        /\ \A x \in keys : \E i \in 1 .. Cardinality(keys) : ranked[i] = x
    BY <1>3, <1>4, MostFirstIs
  <2>3. Cardinality(keys) # 0
    BY <1>3, <2>1, FS_EmptySet
  <2> HIDE DEF ranked
  <2> QED
    BY <2>2, <2>3
<1>6. ranked \in Seq(keys) /\ Len(ranked) = L /\ DOMAIN ranked = 1 .. L
  <2> HIDE DEF ranked, keys
  <2> QED
    BY <1>5
<1> DEFINE top == With(ranked[1])
<1>7. top \cup others = shown /\ top \cap others = {}
  <2>1. ToSet(rest) = {ranked[i] : i \in 2 .. L}
    <3> HIDE DEF ranked, keys
    <3>1. rest = SubSeq(ranked, 2, L)
      BY <1>6 DEF RestOf
    <3>2. DOMAIN rest = 1 .. (L - 1) /\ \A i \in 1 .. (L - 1) : rest[i] = ranked[i + 1]
      BY <1>5, <1>6, <3>1
    <3>3. \A i \in 1 .. (L - 1) : i + 1 \in 2 .. L
      BY <1>5
    <3>4. \A i \in 2 .. L : i - 1 \in 1 .. (L - 1) /\ (i - 1) + 1 = i
      BY <1>5
    <3> HIDE DEF rest
    <3>5. ToSet(rest) = {rest[i] : i \in 1 .. (L - 1)}
      BY <3>2 DEF ToSet
    <3>6. \A i \in 1 .. (L - 1) : \E j \in 2 .. L : rest[i] = ranked[j]
      BY <3>2, <3>3
    <3>7. \A j \in 2 .. L : \E i \in 1 .. (L - 1) : rest[i] = ranked[j]
      <4>1. ASSUME NEW j \in 2 .. L PROVE \E i \in 1 .. (L - 1) : rest[i] = ranked[j]
        <5>1. j - 1 \in 1 .. (L - 1) /\ rest[j - 1] = ranked[(j - 1) + 1] /\ (j - 1) + 1 = j
          BY <3>2, <3>4
        <5> QED
          BY <5>1
      <4> QED
        BY <4>1
    <3> QED
      BY <3>5, <3>6, <3>7
  <2>2. ASSUME NEW n \in shown PROVE n \in top \/ n \in others
    <3>1. PICK i \in 1 .. L : ranked[i] = KeyInBucket(f, bucket, n)
      BY <1>5
    <3>2. i = 1 \/ i \in 2 .. L
      BY <1>5
    <3> HIDE DEF ranked, shown, rest
    <3> QED
      BY <2>1, <3>1, <3>2
  <2>3. \A i \in 2 .. L : ranked[1] # ranked[i]
    <3>1. \A i \in 2 .. L : i \in 1 .. L /\ 1 \in 1 .. L /\ i # 1
      BY <1>5
    <3> HIDE DEF ranked
    <3> QED
      BY <1>5, <3>1
  <2> HIDE DEF ranked, shown, rest
  <2>4. others \in SUBSET shown /\ top \in SUBSET shown
    OBVIOUS
  <2>5. top \cap others = {}
    BY <2>1, <2>3
  <2> QED
    BY <2>2, <2>4, <2>5
<1>8. b \in axis
  BY DEF InBucket
<1> DEFINE A == top \cap InBucket(f, bucket, b)
           B == others \cap InBucket(f, bucket, b)
<1>9. A \cup B = each /\ A \cap B = {}
  <2> HIDE DEF top, others, shown
  <2> QED
    BY <1>7 DEF shown
<1>10. A \in SUBSET DOMAIN facts.commits /\ B \in SUBSET DOMAIN facts.commits
  <2> HIDE DEF top, others, shown
  <2> QED
    BY <1>2, <1>7
<1>11. Weigh(measure, A) \in Nat /\ Weigh(measure, B) \in Nat
       /\ Weigh(measure, each) = Weigh(measure, A) + Weigh(measure, B)
  <2> HIDE DEF A, B
  <2>1. Weigh(measure, A) \in Nat /\ Weigh(measure, B) \in Nat
    BY <1>10, WeighIs
  <2>2. Weigh(measure, A \cup B) = Weigh(measure, A) + Weigh(measure, B)
    BY <1>9, <1>10, WeighSplit
  <2> QED
    BY <1>9, <2>1, <2>2
<1>12. first = [r \in 1 .. 1 |-> Points(With(ranked[r]))]
  <2> DEFINE m == Min({1, Len(ranked)})
  <2>1. m = 1
    <3>1. \A x \in {1, L} : 1 <= x
      BY <1>5
    <3>2. \A y \in {1, L} : (\A x \in {1, L} : y <= x) => y = 1
      BY <1>5
    <3> HIDE DEF ranked
    <3> QED
      BY <1>6, <3>1, <3>2 DEF Min
  <2> HIDE DEF m, ranked, With, Points
  <2> QED
    BY <2>1 DEF m
<1>13. PICK p, q : /\ p = Points(top) /\ q = Points(others)
                    /\ p[b] = Weigh(measure, A) /\ q[b] = Weigh(measure, B)
  <2>1. Points(top)[b] = Weigh(measure, A) /\ Points(others)[b] = Weigh(measure, B)
    <3> HIDE DEF top, others, axis
    <3> QED
      BY <1>8
  <2> HIDE DEF Points, A, B, top, others
  <2> QED
    BY <2>1
<1>14. first = [r \in 1 .. 1 |-> p]
  <2> HIDE DEF ranked, Points, With, first
  <2> QED
    BY <1>12, <1>13
<1>15. CASE rest = <<>>
  <2>1. others = {}
    <3> HIDE DEF rest, With
    <3> QED
      BY <1>15 DEF ToSet
  <2>2. A = each
    <3> HIDE DEF top, others
    <3> QED
      BY <1>9, <2>1
  <2>3. series = [r \in 1 .. 1 |-> p]
    <3> HIDE DEF rest, Points, first, others
    <3> QED
      BY <1>1, <1>14, <1>15
  <2> HIDE DEF A, B, Points, top, others, rest
  <2>4. p[b] = Weigh(measure, each) /\ p[b] \in Nat
    BY <1>11, <1>13, <2>2
  <2> QED
    BY <2>3, <2>4, OneSeries DEF SumAt
<1>16. CASE rest # <<>>
  <2>1. series = Append([r \in 1 .. 1 |-> p], q)
    <3> HIDE DEF rest, Points, first, others
    <3> QED
      BY <1>1, <1>13, <1>14, <1>16
  <2> HIDE DEF A, B, Points, top, others, rest
  <2>2. p[b] \in Nat /\ q[b] \in Nat /\ p[b] + q[b] = Weigh(measure, each)
    BY <1>11, <1>13
  <2> QED
    BY <2>1, <2>2, TwoSeries DEF SumAt
<1> QED
  BY <1>15, <1>16

\* Asked over one state of the rows, the charts of commits agree.
LEMMA ChartsHold == ASSUME FactsOK PROVE ChartsAgree
<1> SUFFICES ASSUME NEW f \in Windows, NEW bucket \in {"day", "week"}
             PROVE  LET total == Cardinality(Commits(f))
                        Each(b) == InBucket(f, bucket, b) \cap CountedIn(f, bucket)
                        series == CommitsByContributor(f, bucket, 1, TRUE)
                        churn == ChurnByContributor(f, bucket, 1, TRUE)
                    IN /\ SumOf(CommitsOverTime(f, bucket)) = total
                       /\ SumOf(RepoStats(f)) = total
                       /\ \A d \in f.from .. f.to - 1 :
                            Cardinality(CommitsOnDay(f, d)) =
                              IF d \in DOMAIN Heatmap(f) THEN Heatmap(f)[d] ELSE 0
                       /\ \A b \in Buckets(f, bucket) : Each(b) # {} =>
                            /\ SumOf([s \in DOMAIN series |-> series[s][b]]) = Cardinality(Each(b))
                            /\ SumOf([s \in DOMAIN churn |-> churn[s][b]]) = LinesOf(Each(b))
  BY DEF ChartsAgree
<1> DEFINE Each(b) == InBucket(f, bucket, b) \cap CountedIn(f, bucket)
           series == CommitsByContributor(f, bucket, 1, TRUE)
           churn == ChurnByContributor(f, bucket, 1, TRUE)
<1>1. ASSUME NEW b, Each(b) # {}
      PROVE  /\ SumOf([s \in DOMAIN series |-> series[s][b]]) = Cardinality(Each(b))
             /\ SumOf([s \in DOMAIN churn |-> churn[s][b]]) = LinesOf(Each(b))
  <2>1. Weigh("commits", Each(b)) = Cardinality(Each(b)) /\ Weigh("lines", Each(b)) = LinesOf(Each(b))
    BY DEF Weigh
  <2>2. /\ series = FirstAndRest(f, bucket, "commits")
        /\ churn = FirstAndRest(f, bucket, "lines")
    BY DEF CommitsByContributor, ChurnByContributor, FirstAndRest
  <2> HIDE DEF series, churn, Each
  <2>3. PICK e : e = Each(b) /\ e = InBucket(f, bucket, b) \cap CountedIn(f, bucket) /\ e # {}
    BY <1>1 DEF Each
  <2>4. SumAt(series, b) = Weigh("commits", e)
    BY <2>2, <2>3, SeriesAddUp
  <2>5. SumAt(churn, b) = Weigh("lines", e)
    BY <2>2, <2>3, SeriesAddUp
  <2> QED
    BY <2>1, <2>4, <2>5, <2>3 DEF SumAt
<1>2. /\ SumOf(CommitsOverTime(f, bucket)) = Cardinality(Commits(f))
      /\ SumOf(RepoStats(f)) = Cardinality(Commits(f))
  BY ChartsAddUp
<1>3. \A d \in f.from .. f.to - 1 :
        Cardinality(CommitsOnDay(f, d)) = IF d \in DOMAIN Heatmap(f) THEN Heatmap(f)[d] ELSE 0
  BY DaysAgree
<1> QED
  BY <1>1, <1>2, <1>3

-----------------------------------------------------------------------------
(* A person of the leaderboard *)

TopHandle(N, i) ==
  Max({0} \cup {CommitAt(n).handle : n \in {m \in N : IdentityOf(CommitAt(m)) = i}})

\* The handle that stands for an identity is of a commit of that identity, if of any.
LEMMA HandleIs ==
  ASSUME FactsOK, NEW N \in SUBSET DOMAIN facts.commits, NEW i, NEW h, h = TopHandle(N, i)
  PROVE  /\ h \in 0 .. MaxHandle
         /\ h # 0 => \E n \in N : IdentityOf(CommitAt(n)) = i /\ h = CommitAt(n).handle
         /\ \A n \in N : IdentityOf(CommitAt(n)) = i => CommitAt(n).handle <= h
<1> DEFINE Hs == {0} \cup {CommitAt(n).handle : n \in {m \in N : IdentityOf(CommitAt(m)) = i}}
<1>1. \A n \in N : CommitAt(n).handle \in 0 .. MaxHandle
  BY CommitsAre, CommitIs
<1>2. Hs \in SUBSET (0 .. MaxHandle) /\ Hs # {} /\ MaxHandle \in Nat
  BY <1>1, AnalyticsAssumption
<1>3. h \in Hs /\ \A n \in Hs : n <= h
  <2>1. h = Max(Hs)
    BY DEF TopHandle
  <2> HIDE DEF Hs
  <2> QED
    BY <1>2, <2>1, MaxIsGreatest
<1> QED
  BY <1>2, <1>3

\* What detection grouped is what a commit counts under.
LEMMA CountsUnder ==
  ASSUME FactsOK, PeopleOK, Detected, NEW N \in SUBSET DOMAIN facts.commits, NEW n \in N,
         NEW p \in Person
  PROVE  KeyIn(N, n) = p <=>
           \E i \in {CommitAt(n).mail, CommitAt(n).handle} \cap Author : groupOf[i] = p
<1> DEFINE c == CommitAt(n)
           i == IdentityOf(c)
           h == TopHandle(N, i)
<1>1. /\ h \in 0 .. MaxHandle
      /\ h # 0 => \E m \in N : IdentityOf(CommitAt(m)) = i /\ h = CommitAt(m).handle
      /\ c.handle <= h
  BY HandleIs
<1>2. ResolveAuthor(N, i) =
        CASE i \in Mail /\ groupOf[i] # NoOne -> groupOf[i]
          [] ~(i \in Mail /\ groupOf[i] # NoOne) /\ h # 0 -> groupOf[h]
          [] OTHER -> NoOne
  BY DEF ResolveAuthor, TopHandle
<1>3. KeyIn(N, n) = IF ResolveAuthor(N, i) # NoOne THEN ResolveAuthor(N, i) ELSE i
  BY DEF KeyIn
<1>4. \A m \in N : /\ CommitAt(m).mail \in Mail \cup {NoOne}
                   /\ CommitAt(m).handle \in 0 .. MaxHandle
                   /\ IdentityOf(CommitAt(m)) = IF CommitAt(m).mail # NoOne
                                                THEN CommitAt(m).mail ELSE CommitAt(m).handle
  BY CommitsAre, CommitIs DEF IdentityOf
<1>5. /\ MaxHandle \in Nat /\ Mail \cap (0 .. MaxHandle) = {}
      /\ Person \cap (Mail \cup 0 .. MaxHandle) = {}
      /\ NoOne \notin Mail /\ NoOne \notin Person /\ NoOne \notin 0 .. MaxHandle
      /\ Author = Mail \cup 1 .. MaxHandle
  BY AnalyticsAssumption DEF Author, Handle
<1>6. \A m \in N : CommitAt(m).mail # NoOne /\ CommitAt(m).handle # 0 =>
                     groupOf[CommitAt(m).mail] = groupOf[CommitAt(m).handle]
  BY DEF Detected
<1>7. c.mail \in Mail \cup {NoOne} /\ c.handle \in 0 .. MaxHandle
      /\ i = (IF c.mail # NoOne THEN c.mail ELSE c.handle)
  BY <1>4
<1>8. \A j \in 0 .. MaxHandle : j # 0 => j \in 1 .. MaxHandle
  BY <1>5
<1> HIDE DEF i, h
<1>9. (\E j \in {c.mail, c.handle} \cap Author : groupOf[j] = p) <=>
        (c.mail \in Mail /\ groupOf[c.mail] = p) \/ (c.handle # 0 /\ groupOf[c.handle] = p)
  <2>1. c.mail \in Author <=> c.mail \in Mail
    BY <1>5, <1>7
  <2>2. c.handle \in Author <=> c.handle # 0
    <3>1. c.handle \notin Mail
      BY <1>5, <1>7
    <3>2. c.handle \in 1 .. MaxHandle <=> c.handle # 0
      BY <1>5, <1>7
    <3> QED
      BY <1>5, <3>1, <3>2
  <2>3. c.mail \in Mail \/ c.mail \notin Author
    BY <2>1
  <2> QED
    BY <2>1, <2>2
<1>10. CASE c.mail # NoOne
  <2>1. i = c.mail /\ i \in Mail
    BY <1>7, <1>10
  <2>2. CASE groupOf[i] # NoOne
    <3>1. KeyIn(N, n) = groupOf[i]
      BY <1>2, <1>3, <2>1, <2>2
    <3>2. c.handle # 0 => groupOf[c.handle] = groupOf[i]
      BY <1>6, <1>10, <2>1
    <3> QED
      BY <1>9, <2>1, <3>1, <3>2
  <2>3. CASE groupOf[i] = NoOne
    <3>1. h # 0 => groupOf[h] = NoOne
      <4>1. SUFFICES ASSUME h # 0 PROVE groupOf[h] = NoOne
        OBVIOUS
      <4>2. PICK m \in N : IdentityOf(CommitAt(m)) = i /\ h = CommitAt(m).handle
        BY <1>1, <4>1
      <4>3. CommitAt(m).mail = i
        BY <1>4, <1>5, <2>1, <4>2
      <4>4. CommitAt(m).mail # NoOne
        BY <1>5, <2>1, <4>3
      <4> QED
        BY <1>6, <2>3, <4>1, <4>2, <4>3, <4>4
    <3>2. ResolveAuthor(N, i) = NoOne
      BY <1>2, <2>3, <3>1
    <3>3. KeyIn(N, n) = i /\ i # p
      BY <1>3, <1>5, <2>1, <3>2
    <3>4. c.handle # 0 => groupOf[c.handle] = NoOne
      BY <1>6, <1>10, <2>1, <2>3
    <3>5. NoOne # p
      BY <1>5
    <3> QED
      BY <1>9, <2>1, <2>3, <3>3, <3>4, <3>5
  <2> QED
    BY <2>2, <2>3
<1>11. CASE c.mail = NoOne
  <2>1. i = c.handle /\ i \notin Mail /\ c.mail \notin Mail
    BY <1>5, <1>7, <1>11
  <2>2. h = c.handle
    <3>1. CASE h = 0
      BY <1>1, <1>5, <1>7, <3>1
    <3>2. CASE h # 0
      <4>1. PICK m \in N : IdentityOf(CommitAt(m)) = i /\ h = CommitAt(m).handle
        BY <1>1, <3>2
      <4>2. CommitAt(m).mail = NoOne
        BY <1>4, <2>1, <4>1
      <4> QED
        BY <1>4, <2>1, <4>1, <4>2
    <3> QED
      BY <3>1, <3>2
  <2>3. CASE h = 0
    <3>1. ResolveAuthor(N, i) = NoOne
      BY <1>2, <2>1, <2>3
    <3>2. KeyIn(N, n) = 0
      BY <1>3, <2>1, <2>2, <2>3, <3>1
    <3>3. p # 0
      BY <1>5
    <3> QED
      BY <1>9, <2>1, <2>2, <2>3, <3>2, <3>3
  <2>4. CASE h # 0
    <3>1. ResolveAuthor(N, i) = groupOf[h]
      BY <1>2, <2>1, <2>4
    <3>2. p # NoOne /\ p # i
      BY <1>5, <1>7, <2>1
    <3>3. KeyIn(N, n) = p <=> groupOf[h] = p
      BY <1>3, <3>1, <3>2
    <3> QED
      BY <1>9, <2>1, <2>2, <2>4, <3>3
  <2> QED
    BY <2>3, <2>4
<1> QED
  BY <1>10, <1>11

\* What happened on a day is someone's, so the days are no more than those of each.
LEMMA DaysOfEach ==
  ASSUME NEW N, IsFiniteSet(N), NEW day, NEW who, NEW f, DOMAIN f = {who[n] : n \in N},
         \A i \in DOMAIN f : f[i] = Cardinality({day[n] : n \in {m \in N : who[m] = i}})
  PROVE  Cardinality({day[n] : n \in N}) <= SumOf(f)
<1> DEFINE D == {day[n] : n \in N}
           I == {who[n] : n \in N}
           DaysOf(i) == {day[n] : n \in {m \in N : who[m] = i}}
<1>1. IsFiniteSet(D) /\ IsFiniteSet(I)
  <2>1. [n \in N |-> day[n]] \in Surjection(N, D) /\ [n \in N |-> who[n]] \in Surjection(N, I)
    BY DEF Surjection
  <2> HIDE DEF D, I
  <2> QED
    BY <2>1, FS_Surjection
<1> DEFINE some == [d \in D |-> CHOOSE i \in I : d \in DaysOf(i)]
           g == [i \in I |-> Cardinality({d \in D : some[d] = i})]
<1>2. \A d \in D : some[d] \in I /\ d \in DaysOf(some[d])
  <2>1. \A d \in D : \E i \in I : d \in DaysOf(i)
    OBVIOUS
  <2> HIDE DEF D, I, DaysOf
  <2> QED
    BY <2>1
<1>3. ASSUME NEW i \in I
      PROVE  g[i] \in Nat /\ f[i] \in Nat /\ g[i] <= f[i]
  <2>1. DaysOf(i) \in SUBSET D
    OBVIOUS
  <2>2. {d \in D : some[d] = i} \in SUBSET DaysOf(i)
    <3> HIDE DEF D, I, DaysOf, some
    <3> QED
      BY <1>2
  <2>3. f[i] = Cardinality(DaysOf(i)) /\ g[i] = Cardinality({d \in D : some[d] = i})
    OBVIOUS
  <2> HIDE DEF D, I, DaysOf, some, g
  <2>4. IsFiniteSet(DaysOf(i))
    BY <1>1, <2>1, FS_Subset
  <2> QED
    BY <2>2, <2>3, <2>4, FS_Subset, FS_CardinalityType
<1>4. Total(g, I) = Cardinality(Boxed(D, some, I))
  <2>1. BoxSizes(g, I, D, some)
    BY DEF BoxSizes
  <2> HIDE DEF D, I, some, g
  <2> QED
    BY <1>1, <2>1, CountedByBox
<1>5. Boxed(D, some, I) = D
  <2> HIDE DEF D, I, DaysOf, some
  <2> QED
    BY <1>2 DEF Boxed
<1>6. Total(g, I) <= Total(f, I)
  <2> HIDE DEF D, I, DaysOf, some, g
  <2>1. Amounts(f, I) /\ Amounts(g, I) /\ I \in SUBSET I
    BY <1>3 DEF Amounts
  <2> QED
    BY <1>1, <1>3, <2>1, TotalMost
<1>7. SumOf(f) = Total(f, I)
  BY SumIsTotal
<1> HIDE DEF D, I, DaysOf, some, g
<1> QED
  BY <1>4, <1>5, <1>6, <1>7 DEF D

\* The commits of a picked person are those of its row.
LEMMA PickedCommits ==
  ASSUME FactsOK, PeopleOK, Detected, NEW f \in Windows, NEW p \in Person,
         NEW n \in Commits(f), KeyIn(Commits(f), n) = p
  PROVE  Commits(ExpandAuthor(f, p)) = {m \in Commits(f) : KeyIn(Commits(f), m) = p}
<1> DEFINE who == {i \in Author : groupOf[i] = p}
           N == Commits(f)
<1>1. PICK a \in Nat, b \in Nat : f = [from |-> a, to |-> b, repo |-> f.repo, who |-> {}]
  BY WindowsAre
<1>2. f.from = a /\ f.to = b /\ f.who = {}
  BY <1>1
<1>3. ExpandAuthor(f, p) = [f EXCEPT !.who = who]
  BY AnalyticsAssumption DEF ExpandAuthor
<1>4. PICK g : /\ g = ExpandAuthor(f, p)
               /\ g.from = a /\ g.to = b /\ g.repo = f.repo /\ g.who = who
  <2> DEFINE g == [f EXCEPT !.who = who]
  <2>1. g.who = who
    BY <1>1
  <2>2. g.from = a /\ g.to = b /\ g.repo = f.repo
    BY <1>1
  <2> QED
    BY <1>3, <2>1, <2>2
<1>5. \A m \in N : KeyIn(N, m) = p <=> CommitAt(m).mail \in who \/ CommitAt(m).handle \in who
  <2>1. N \in SUBSET DOMAIN facts.commits
    BY DEF Commits
  <2> HIDE DEF N
  <2>2. \A m \in N : KeyIn(N, m) = p <=>
           \E i \in {CommitAt(m).mail, CommitAt(m).handle} \cap Author : groupOf[i] = p
    BY <2>1, CountsUnder
  <2> QED
    BY <2>2
<1>6. who # {}
  <2>1. CommitAt(n).mail \in who \/ CommitAt(n).handle \in who
    <3> HIDE DEF who
    <3> QED
      BY <1>5
  <2> QED
    BY <2>1
<1>7. ASSUME NEW m \in DOMAIN facts.commits
      PROVE  WhereClause(g, CommitAt(m)) <=>
               WhereClause(f, CommitAt(m)) /\ (CommitAt(m).mail \in who \/ CommitAt(m).handle \in who)
  <2> HIDE DEF who
  <2> QED
    BY <1>2, <1>4, <1>6 DEF WhereClause
<1>8. Commits(g) = {m \in N : CommitAt(m).mail \in who \/ CommitAt(m).handle \in who}
  <2> HIDE DEF who
  <2> QED
    BY <1>7 DEF Commits, CommitAt
<1> HIDE DEF who
<1> QED
  BY <1>4, <1>5, <1>8

\* Under the grouping of detection, a picked person has the totals of its row.
LEMMA PersonHolds == ASSUME FactsOK, PeopleOK PROVE PersonAgrees
<1> SUFFICES ASSUME Detected, NEW f \in Windows, NEW p \in DOMAIN Contributors(f) \cap Person
             PROVE  LET own == Summary(ExpandAuthor(f, p))
                    IN /\ own.totalCommits = Contributors(f)[p].commits
                       /\ own.lines = Contributors(f)[p].lines
                       /\ own.activeDays <= Contributors(f)[p].activeDays
  BY DEF PersonAgrees
<1> DEFINE N == Commits(f)
           With == {n \in N : KeyIn(N, n) = p}
           DaysOf(i) == {CommitAt(n).day : n \in {m \in With : IdentityOf(CommitAt(m)) = i}}
           days == [i \in {IdentityOf(CommitAt(n)) : n \in With} |-> Cardinality(DaysOf(i))]
           own == Summary(ExpandAuthor(f, p))
<1>1. /\ DOMAIN Contributors(f) = {k \in {KeyIn(N, n) : n \in N} : ~Dropped(k)}
      /\ Contributors(f)[p] = [commits |-> Cardinality(With), lines |-> LinesOf(With),
                               activeDays |-> SumOf(days)]
  BY DEF Contributors
<1>2. PICK n \in N : KeyIn(N, n) = p
  BY <1>1
<1>3. Commits(ExpandAuthor(f, p)) = With
  BY <1>2, PickedCommits
<1>4. /\ own.totalCommits = Cardinality(With) /\ own.lines = LinesOf(With)
      /\ own.activeDays = Cardinality({CommitAt(m).day : m \in With})
  <2> HIDE DEF With
  <2> QED
    BY <1>3 DEF Summary
<1>5. Cardinality({CommitAt(m).day : m \in With}) <= SumOf(days)
  <2> DEFINE day == [m \in With |-> CommitAt(m).day]
             who == [m \in With |-> IdentityOf(CommitAt(m))]
  <2>1. IsFiniteSet(With)
    <3>1. With \in SUBSET DOMAIN facts.commits
      BY DEF Commits
    <3> HIDE DEF With
    <3> QED
      BY <3>1, CommitsAre
  <2> HIDE DEF With
  <2>2. DOMAIN days = {who[m] : m \in With}
    OBVIOUS
  <2>3. ASSUME NEW i \in DOMAIN days
        PROVE  days[i] = Cardinality({day[m] : m \in {k \in With : who[k] = i}})
    <3>1. {k \in With : who[k] = i} = {k \in With : IdentityOf(CommitAt(k)) = i}
      OBVIOUS
    <3>2. {day[m] : m \in {k \in With : who[k] = i}} = DaysOf(i)
      BY <3>1
    <3> HIDE DEF DaysOf
    <3> QED
      BY <3>2
  <2>4. {day[m] : m \in With} = {CommitAt(m).day : m \in With}
    OBVIOUS
  <2> HIDE DEF day, who, days
  <2>5. PICK M, a, w, k : M = With /\ a = day /\ w = who /\ k = days
    OBVIOUS
  <2>6. /\ IsFiniteSet(M) /\ DOMAIN k = {w[m] : m \in M}
        /\ \A i \in DOMAIN k : k[i] = Cardinality({a[m] : m \in {j \in M : w[j] = i}})
    BY <2>1, <2>2, <2>3, <2>5
  <2>7. Cardinality({a[m] : m \in M}) <= SumOf(k)
    BY <2>6, DaysOfEach
  <2>8. Cardinality({day[m] : m \in With}) <= SumOf(days)
    BY <2>5, <2>7
  <2> QED
    BY <2>4, <2>8
<1> HIDE DEF With, days
<1> QED
  BY <1>1, <1>4, <1>5

\* Asked over one state of the tables the charts agree, a person picked from the
\* leaderboard has the totals of its row where detection grouped, and a panel adds up to
\* its own totals, whatever rows come, change, and are regrouped meanwhile.
THEOREM DashboardAgrees == AnalyticsSpec => []AnalyticsSound
<1>1. DashboardInv => AnalyticsSound
  BY ChartsHold, PersonHolds, PanelsAgree DEF DashboardInv, AnalyticsSound
<1> QED
  BY <1>1, DashboardInitially, DashboardLasts, PTL DEF AnalyticsSpec

-----------------------------------------------------------------------------
(* What an edit leaves of a file *)

LEMMA CanAscend ==
  ASSUME NEW N \in Nat, NEW D \in SUBSET (1 .. N)
  PROVE  /\ IsFiniteSet(D)
         /\ \E s \in SetToSeqs(D) : \A m, n \in DOMAIN s : m < n => s[m] < s[n]
<1>1. IsFiniteSet(D) /\ Cardinality(D) \in Nat
  <2>1. 0 \in Int /\ 1 \in Int /\ IsFiniteSet(1 .. N)
    BY FS_Interval
  <2> QED
    BY <2>1, FS_Subset, FS_CardinalityType
<1> DEFINE w == [n \in D |-> N - n]
           c == Cardinality(D)
<1>2. Amounts(w, D)
  BY DEF Amounts
<1>3. PICK s : Ranks(s, D, w)
  <2> HIDE DEF w
  <2> QED
    BY <1>1, <1>2, CanRank
<1>4. s \in SetToSeqs(D) /\ s \in [1 .. c -> D]
  BY <1>3 DEF SetToSeqs, Ranks
<1>5. ASSUME NEW m \in 1 .. c, NEW n \in 1 .. c, m < n PROVE s[m] < s[n]
  <2>1. w[s[m]] >= w[s[n]] /\ s[m] # s[n] /\ s[m] \in D /\ s[n] \in D
    BY <1>3, <1>4, <1>5 DEF Ranks
  <2>2. PICK x \in D, y \in D : x = s[m] /\ y = s[n]
    BY <2>1
  <2>3. N - x >= N - y /\ x # y /\ x \in 1 .. N /\ y \in 1 .. N
    BY <2>1, <2>2
  <2>4. x < y
    BY <2>3
  <2> QED
    BY <2>2, <2>4
<1> QED
  BY <1>1, <1>4, <1>5

\* What is left of lines is lines of them, each once.
LEMMA KeptIs ==
  ASSUME NEW S, NEW lines \in Seq(S), NEW cut
  PROVE  /\ Kept(lines, cut) \in Seq(S)
         /\ \E at : /\ \A n \in DOMAIN Kept(lines, cut) :
                         at[n] \in DOMAIN lines /\ Kept(lines, cut)[n] = lines[at[n]]
                    /\ \A m, n \in DOMAIN Kept(lines, cut) : at[m] = at[n] => m = n
<1> DEFINE D == DOMAIN lines \ cut
           Ascends(s) == \A m, n \in DOMAIN s : m < n => s[m] < s[n]
           at == CHOOSE s \in SetToSeqs(D) : Ascends(s)
           c == Cardinality(D)
<1>1. Len(lines) \in Nat /\ D \in SUBSET (1 .. Len(lines))
  OBVIOUS
<1>2. IsFiniteSet(D) /\ \E s \in SetToSeqs(D) : Ascends(s)
  <2> HIDE DEF D
  <2> QED
    BY <1>1, CanAscend
<1>3. at \in SetToSeqs(D)
  <2> HIDE DEF D, Ascends
  <2> QED
    BY <1>2
<1>4. c \in Nat /\ at \in [1 .. c -> D] /\ \A i, j \in 1 .. c : i # j => at[i] # at[j]
  <2> HIDE DEF at
  <2>1. c \in Nat
    BY <1>2, FS_CardinalityType
  <2> QED
    BY <1>3, <2>1 DEF SetToSeqs
<1>5. Kept(lines, cut) = [n \in DOMAIN at |-> lines[at[n]]]
  BY DEF Kept
<1> HIDE DEF at, c
<1>6. Kept(lines, cut) = [n \in 1 .. c |-> lines[at[n]]]
  BY <1>4, <1>5
<1>7. \A n \in 1 .. c : at[n] \in DOMAIN lines /\ lines[at[n]] \in S
  BY <1>4
<1>8. Kept(lines, cut) \in [1 .. c -> S]
  BY <1>6, <1>7
<1>9. Kept(lines, cut) \in Seq(S)
  BY <1>4, <1>8
<1>10. DOMAIN Kept(lines, cut) = 1 .. c /\ \A n \in 1 .. c : Kept(lines, cut)[n] = lines[at[n]]
  BY <1>6
<1>11. \A i, j \in 1 .. c : at[i] = at[j] => i = j
  BY <1>4
<1> QED
  BY <1>7, <1>9, <1>10, <1>11

\* A line of a sequence, and that it has each once.
Once(s) == \A m, n \in DOMAIN s : s[m] = s[n] => m = n

LEMMA JoinedIs ==
  ASSUME NEW S, NEW s \in Seq(S), NEW t \in Seq(S), Once(s), Once(t),
         \A m \in DOMAIN s, n \in DOMAIN t : s[m] # t[n]
  PROVE  /\ s \o t \in Seq(S) /\ Once(s \o t)
         /\ \A n \in DOMAIN (s \o t) : (s \o t)[n] \in Range(s) \cup Range(t)
<1>1. PICK a \in Nat, b \in Nat : a = Len(s) /\ b = Len(t)
  OBVIOUS
<1> DEFINE u == s \o t
<1>2. /\ u \in Seq(S) /\ DOMAIN u = 1 .. a + b /\ DOMAIN s = 1 .. a /\ DOMAIN t = 1 .. b
      /\ \A n \in 1 .. a + b : u[n] = IF n <= a THEN s[n] ELSE t[n - a]
  BY <1>1
<1> HIDE DEF u
<1>3. \A n \in 1 .. a + b : (n <= a /\ n \in 1 .. a) \/ (~(n <= a) /\ n - a \in 1 .. b)
  OBVIOUS
<1>4. ASSUME NEW m \in 1 .. a + b, NEW n \in 1 .. a + b, u[m] = u[n] PROVE m = n
  <2>1. CASE m <= a /\ n <= a
    BY <1>2, <1>3, <1>4, <2>1 DEF Once
  <2>2. CASE m <= a /\ ~(n <= a)
    BY <1>2, <1>3, <1>4, <2>2
  <2>3. CASE ~(m <= a) /\ n <= a
    BY <1>2, <1>3, <1>4, <2>3
  <2>4. CASE ~(m <= a) /\ ~(n <= a)
    <3>1. u[m] = t[m - a] /\ u[n] = t[n - a] /\ m - a \in 1 .. b /\ n - a \in 1 .. b
      BY <1>2, <1>3, <2>4
    <3>2. m - a = n - a
      BY <1>2, <1>4, <3>1 DEF Once
    <3> QED
      BY <3>2
  <2> QED
    BY <2>1, <2>2, <2>3, <2>4
<1>5. \A n \in 1 .. a + b : u[n] \in Range(s) \cup Range(t)
  BY <1>2, <1>3 DEF Range
<1>6. u \in Seq(S) /\ Once(u) /\ \A n \in DOMAIN u : u[n] \in Range(s) \cup Range(t)
  BY <1>2, <1>4, <1>5 DEF Once
<1> QED
  BY <1>6 DEF u

\* Lines of the first s commits, and a tree that has none twice.
Line(s) == (1 .. s) \X Path \X Nat

TreeOK(tree, s) ==
  /\ IsFiniteSet(DOMAIN tree) /\ DOMAIN tree \subseteq Path
  /\ \A p \in DOMAIN tree : tree[p] \in Seq(Line(s))
  /\ \A p, q \in DOMAIN tree : \A m \in DOMAIN tree[p], n \in DOMAIN tree[q] :
       tree[p][m] = tree[q][n] => p = q /\ m = n

LEMMA ContentIs ==
  ASSUME NEW tree, NEW s, TreeOK(tree, s), NEW p
  PROVE  /\ Content(tree, p) \in Seq(Line(s)) /\ Once(Content(tree, p))
         /\ \A q : Range(Content(tree, p)) \cap Range(Content(tree, q)) # {} => p = q
         /\ Range(Content(tree, p)) # {} => p \in DOMAIN tree /\ Content(tree, p) = tree[p]
<1>1. <<>> \in Seq(Line(s)) /\ DOMAIN <<>> = {} /\ Range(<<>>) = {}
  BY DEF Range
<1>2. p \notin DOMAIN tree => Content(tree, p) = <<>>
  BY DEF Content
<1>3. p \in DOMAIN tree => Content(tree, p) = tree[p]
  BY DEF Content
<1>4. Content(tree, p) \in Seq(Line(s)) /\ Once(Content(tree, p))
  <2>1. CASE p \in DOMAIN tree
    BY <1>3, <2>1 DEF TreeOK, Once
  <2>2. CASE p \notin DOMAIN tree
    BY <1>1, <1>2, <2>2 DEF Once
  <2> QED
    BY <2>1, <2>2
<1>5. ASSUME NEW q, Range(Content(tree, p)) \cap Range(Content(tree, q)) # {} PROVE p = q
  <2>1. q \in DOMAIN tree /\ Content(tree, q) = tree[q] /\ p \in DOMAIN tree
    BY <1>1, <1>2, <1>5 DEF Content
  <2>2. PICK m \in DOMAIN tree[p], n \in DOMAIN tree[q] : tree[p][m] = tree[q][n]
    BY <1>3, <1>5, <2>1 DEF Range
  <2> QED
    BY <2>1, <2>2 DEF TreeOK
<1> QED
  BY <1>1, <1>2, <1>3, <1>4, <1>5

-----------------------------------------------------------------------------
(* Trees *)

LEMMA LineIs ==
  ASSUME NEW s \in Nat, NEW l \in Line(s)
  PROVE  Blame(l) \in 1 .. s /\ l \in Line(s + 1)
BY DEF Line, Blame

\* An edited file has lines of the edit, and of the file before.
LEMMA EditedIs ==
  ASSUME NEW before, NEW s \in Nat, TreeOK(before, s), NEW e, e.from \in Path, e.adds \in Nat
  PROVE  /\ Edited(before, s + 1, e) \in Seq(Line(s + 1)) /\ Once(Edited(before, s + 1, e))
         /\ \A l \in Range(Edited(before, s + 1, e)) :
              \/ \E k \in Nat : l = <<s + 1, e.from, k>>
              \/ l \in Range(Content(before, e.from))
<1> DEFINE new == [k \in 1 .. e.adds |-> <<s + 1, e.from, k>>]
           was == Content(before, e.from)
           old == Kept(was, e.cut)
<1>1. \A k \in 1 .. e.adds : <<s + 1, e.from, k>> \in Line(s + 1) /\ k \in Nat
  BY DEF Line
<1>2. new \in [1 .. e.adds -> Line(s + 1)]
  BY <1>1
<1>3. new \in Seq(Line(s + 1)) /\ DOMAIN new = 1 .. e.adds
  <2> HIDE DEF new
  <2> QED
    BY <1>2
<1>4. Once(new) /\ \A l \in Range(new) : \E k \in Nat : l = <<s + 1, e.from, k>>
  BY <1>1 DEF Once, Range
<1>5. was \in Seq(Line(s)) /\ Once(was)
  BY ContentIs
<1>6. PICK at : /\ old \in Seq(Line(s))
                /\ \A n \in DOMAIN old : at[n] \in DOMAIN was /\ old[n] = was[at[n]]
                /\ \A m, n \in DOMAIN old : at[m] = at[n] => m = n
  <2> HIDE DEF was
  <2> QED
    BY <1>5, KeptIs, SMTT(30)
<1> HIDE DEF old, was
<1>7. Once(old) /\ \A l \in Range(old) : l \in Range(was)
  BY <1>5, <1>6 DEF Once, Range
<1>8. old \in Seq(Line(s + 1)) /\ \A n \in DOMAIN old : Blame(old[n]) \in 1 .. s
  <2>1. \A l \in Line(s) : l \in Line(s + 1) /\ Blame(l) \in 1 .. s
    BY LineIs
  <2>2. \A n \in DOMAIN old : old[n] \in Line(s)
    BY <1>6
  <2>3. Line(s) \in SUBSET Line(s + 1)
    BY <2>1
  <2>4. old \in Seq(Line(s + 1))
    BY <1>6, <2>3
  <2> QED
    BY <2>1, <2>2, <2>4
<1>9. \A n \in DOMAIN new : Blame(new[n]) = s + 1
  BY DEF Blame
<1> HIDE DEF new
<1>10. \A m \in DOMAIN new, n \in DOMAIN old : new[m] # old[n]
  BY <1>8, <1>9
<1>11. \A n \in DOMAIN old, m \in DOMAIN new : old[n] # new[m]
  BY <1>10
<1>12. /\ new \o old \in Seq(Line(s + 1)) /\ Once(new \o old)
       /\ \A n \in DOMAIN (new \o old) : (new \o old)[n] \in Range(new) \cup Range(old)
  BY <1>3, <1>4, <1>7, <1>8, <1>10, JoinedIs
<1>13. /\ old \o new \in Seq(Line(s + 1)) /\ Once(old \o new)
       /\ \A n \in DOMAIN (old \o new) : (old \o new)[n] \in Range(old) \cup Range(new)
  BY <1>3, <1>4, <1>7, <1>8, <1>11, JoinedIs
<1>14. PICK u : /\ u = Edited(before, s + 1, e) /\ u \in Seq(Line(s + 1)) /\ Once(u)
                /\ \A n \in DOMAIN u : u[n] \in Range(new) \cup Range(old)
  <2>1. Edited(before, s + 1, e) \in {new \o old, old \o new}
    BY DEF Edited, new, old, was
  <2> QED
    BY <1>12, <1>13, <2>1
<1>15. \A l \in Range(u) : l \in Range(new) \/ l \in Range(old)
  BY <1>14 DEF Range
<1> QED
  BY <1>4, <1>7, <1>14, <1>15 DEF was

EditsOK(edits) ==
  /\ IsFiniteSet(edits)
  /\ \A e \in edits : e.from \in Path /\ e.to \in Path /\ e.adds \in Nat
  /\ \A e, g \in edits : e.from = g.from => e = g

\* A file of the next tree is one of the last, or one an edit left.
FileIs(before, sha, edits, tree, p) ==
  \/ p \in DOMAIN before /\ (\A e \in edits : e.from # p) /\ tree[p] = before[p]
  \/ \E e \in edits : e.to = p /\ tree[p] = Edited(before, sha, e)

LEMMA FilesAre ==
  ASSUME NEW before, NEW sha, NEW edits, NEW tree, tree = Tree(before, sha, edits)
  PROVE  /\ \A p \in DOMAIN tree : FileIs(before, sha, edits, tree, p)
         /\ DOMAIN tree \subseteq DOMAIN before \cup {e.to : e \in edits}
<1> DEFINE left == DOMAIN before \ {e.from : e \in edits}
           full == {e \in edits : Edited(before, sha, e) # <<>>}
           EditOf(p) == CHOOSE e \in full : e.to = p
<1>1. tree = [p \in left \cup {e.to : e \in full} |->
                IF p \in left THEN before[p] ELSE Edited(before, sha, EditOf(p))]
  BY DEF Tree
<1>2. ASSUME NEW p \in DOMAIN tree PROVE FileIs(before, sha, edits, tree, p)
  <2>1. CASE p \in left
    <3>1. tree[p] = before[p] /\ p \in DOMAIN before /\ \A e \in edits : e.from # p
      BY <1>1, <2>1
    <3> QED
      BY <3>1 DEF FileIs
  <2>2. CASE p \notin left
    <3>1. \E e \in full : e.to = p
      BY <1>1, <2>2
    <3>2. EditOf(p) \in full /\ EditOf(p).to = p
      BY <3>1
    <3>3. tree[p] = Edited(before, sha, EditOf(p))
      BY <1>1, <2>2
    <3>4. PICK e \in full : e = EditOf(p)
      BY <3>2
    <3> HIDE DEF EditOf
    <3>5. e \in edits /\ e.to = p /\ tree[p] = Edited(before, sha, e)
      BY <3>2, <3>3, <3>4
    <3> QED
      BY <3>5 DEF FileIs
  <2> QED
    BY <2>1, <2>2
<1>3. DOMAIN tree \subseteq DOMAIN before \cup {e.to : e \in edits}
  BY <1>1
<1> QED
  BY <1>2, <1>3

\* Whose line it is in a file of the next tree: of the edit, or of the file it was in.
LEMMA LineWas ==
  ASSUME NEW before, NEW s \in Nat, TreeOK(before, s), NEW edits, EditsOK(edits),
         NEW tree, tree = Tree(before, s + 1, edits), NEW p \in DOMAIN tree,
         NEW l \in Range(tree[p])
  PROVE  \/ /\ p \in DOMAIN before /\ (\A e \in edits : e.from # p)
            /\ l \in Range(before[p]) /\ tree[p] = before[p]
         \/ \E e \in edits : /\ e.to = p /\ tree[p] = Edited(before, s + 1, e)
                             /\ \/ \E k \in Nat : l = <<s + 1, e.from, k>>
                                \/ e.from \in DOMAIN before /\ l \in Range(before[e.from])
<1>1. FileIs(before, s + 1, edits, tree, p)
  BY FilesAre
<1>2. CASE \E e \in edits : e.to = p /\ tree[p] = Edited(before, s + 1, e)
  <2>1. PICK e \in edits : e.to = p /\ tree[p] = Edited(before, s + 1, e)
    BY <1>2
  <2>2. e.from \in Path /\ e.adds \in Nat
    BY DEF EditsOK
  <2>3. (\E k \in Nat : l = <<s + 1, e.from, k>>) \/ l \in Range(Content(before, e.from))
    BY <2>1, <2>2, EditedIs
  <2>4. l \in Range(Content(before, e.from)) =>
          e.from \in DOMAIN before /\ l \in Range(before[e.from])
    BY ContentIs
  <2> QED
    BY <2>1, <2>3, <2>4
<1> QED
  BY <1>1, <1>2 DEF FileIs

LEMMA OldLine ==
  ASSUME NEW before, NEW s \in Nat, TreeOK(before, s), NEW p \in DOMAIN before,
         NEW l \in Range(before[p])
  PROVE  /\ Blame(l) \in 1 .. s /\ \A x, k : l # <<s + 1, x, k>>
         /\ \A q \in DOMAIN before : l \in Range(before[q]) => q = p
<1>1. PICK m \in DOMAIN before[p] : l = before[p][m]
  BY DEF Range
<1>2. l \in Line(s)
  BY <1>1 DEF TreeOK
<1>3. Blame(l) \in 1 .. s
  BY <1>2, LineIs
<1>4. \A x, k : Blame(<<s + 1, x, k>>) = s + 1
  BY DEF Blame
<1>5. \A q \in DOMAIN before : l \in Range(before[q]) => q = p
  BY <1>1 DEF TreeOK, Range
<1> QED
  BY <1>3, <1>4, <1>5

\* Whose edit it is that a new line came from, no other edit has it.
LEMMA TreeGrows ==
  ASSUME NEW before, NEW s \in Nat, TreeOK(before, s), NEW edits, EditsOK(edits),
         NEW tree, tree = Tree(before, s + 1, edits)
  PROVE  TreeOK(tree, s + 1)
<1>1. IsFiniteSet(DOMAIN tree) /\ DOMAIN tree \subseteq Path
  <2> DEFINE Tos == {e.to : e \in edits}
  <2>1. IsFiniteSet(Tos)
    <3>1. [e \in edits |-> e.to] \in Surjection(edits, Tos)
      BY DEF Surjection
    <3> HIDE DEF Tos
    <3> QED
      BY <3>1, FS_Surjection DEF EditsOK
  <2>2. DOMAIN tree \subseteq DOMAIN before \cup Tos
    BY FilesAre
  <2>3. Tos \subseteq Path
    BY DEF EditsOK
  <2>4. IsFiniteSet(DOMAIN before) /\ DOMAIN before \subseteq Path
    BY DEF TreeOK
  <2> HIDE DEF Tos
  <2>5. IsFiniteSet(DOMAIN before \cup Tos)
    BY <2>1, <2>4, FS_Union
  <2> QED
    BY <2>2, <2>3, <2>4, <2>5, FS_Subset
<1>2. ASSUME NEW p \in DOMAIN tree PROVE tree[p] \in Seq(Line(s + 1)) /\ Once(tree[p])
  <2>1. CASE \E e \in edits : e.to = p /\ tree[p] = Edited(before, s + 1, e)
    <3>1. PICK e \in edits : e.to = p /\ tree[p] = Edited(before, s + 1, e)
      BY <2>1
    <3>2. e.from \in Path /\ e.adds \in Nat
      BY DEF EditsOK
    <3> QED
      BY <3>1, <3>2, EditedIs
  <2>2. CASE p \in DOMAIN before /\ tree[p] = before[p]
    <3>1. before[p] \in Seq(Line(s)) /\ Once(before[p])
      BY <2>2 DEF TreeOK, Once
    <3>2. Line(s) \in SUBSET Line(s + 1)
      BY LineIs
    <3> QED
      BY <2>2, <3>1, <3>2
  <2> QED
    BY <2>1, <2>2, FilesAre DEF FileIs
<1>3. ASSUME NEW p \in DOMAIN tree, NEW q \in DOMAIN tree, NEW l \in Range(tree[p]),
             l \in Range(tree[q])
      PROVE  p = q
  <2> DEFINE Stayed(f) == /\ f \in DOMAIN before /\ (\A e \in edits : e.from # f)
                          /\ l \in Range(before[f]) /\ tree[f] = before[f]
             Came(f) == \E e \in edits : /\ e.to = f /\ tree[f] = Edited(before, s + 1, e)
                             /\ \/ \E k \in Nat : l = <<s + 1, e.from, k>>
                                \/ e.from \in DOMAIN before /\ l \in Range(before[e.from])
  <2>1. Stayed(p) \/ Came(p)
    BY LineWas
  <2>2. Stayed(q) \/ Came(q)
    BY <1>3, LineWas
  <2>3. CASE Stayed(p) /\ Stayed(q)
    BY <2>3, OldLine
  <2>4. ASSUME NEW a, NEW b, Stayed(a), Came(b) PROVE FALSE
    <3>1. PICK e \in edits : \/ \E k \in Nat : l = <<s + 1, e.from, k>>
                             \/ e.from \in DOMAIN before /\ l \in Range(before[e.from])
      BY <2>4
    <3>2. a \in DOMAIN before /\ l \in Range(before[a]) /\ e.from # a
      BY <2>4
    <3>3. \A x, k : l # <<s + 1, x, k>>
      BY <3>2, OldLine
    <3>4. e.from \in DOMAIN before => ~(l \in Range(before[e.from]))
      BY <3>2, OldLine
    <3> QED
      BY <3>1, <3>3, <3>4
  <2>5. CASE Came(p) /\ Came(q)
    <3>1. PICK e \in edits : /\ e.to = p
                             /\ \/ \E k \in Nat : l = <<s + 1, e.from, k>>
                                \/ e.from \in DOMAIN before /\ l \in Range(before[e.from])
      BY <2>5
    <3>2. PICK g \in edits : /\ g.to = q
                             /\ \/ \E k \in Nat : l = <<s + 1, g.from, k>>
                                \/ g.from \in DOMAIN before /\ l \in Range(before[g.from])
      BY <2>5
    <3>3. e.from = g.from
      <4>1. CASE e.from \in DOMAIN before /\ l \in Range(before[e.from])
        <5>1. \A x, k : l # <<s + 1, x, k>>
          BY <4>1, OldLine
        <5>2. g.from \in DOMAIN before /\ l \in Range(before[g.from])
          BY <3>2, <5>1
        <5> QED
          BY <4>1, <5>2, OldLine
      <4>2. CASE g.from \in DOMAIN before /\ l \in Range(before[g.from])
        <5>1. \A x, k : l # <<s + 1, x, k>>
          BY <4>2, OldLine
        <5>2. e.from \in DOMAIN before /\ l \in Range(before[e.from])
          BY <3>1, <5>1
        <5> QED
          BY <4>2, <5>2, OldLine
      <4>3. CASE (\E k \in Nat : l = <<s + 1, e.from, k>>) /\ \E k \in Nat : l = <<s + 1, g.from, k>>
        BY <4>3
      <4> QED
        BY <3>1, <3>2, <4>1, <4>2, <4>3
    <3>4. e = g
      BY <3>3 DEF EditsOK
    <3> QED
      BY <3>1, <3>2, <3>4
  <2> HIDE DEF Stayed, Came
  <2> QED
    BY <2>1, <2>2, <2>3, <2>4, <2>5
<1>4. ASSUME NEW p \in DOMAIN tree, NEW q \in DOMAIN tree,
             NEW m \in DOMAIN tree[p], NEW n \in DOMAIN tree[q], tree[p][m] = tree[q][n]
      PROVE  p = q /\ m = n
  <2>1. tree[p][m] \in Range(tree[p]) /\ tree[p][m] \in Range(tree[q])
    BY <1>4 DEF Range
  <2>2. p = q
    BY <1>3, <2>1
  <2> QED
    BY <1>2, <1>4, <2>2 DEF Once
<1> QED
  BY <1>1, <1>2, <1>4 DEF TreeOK

\* A rename is of a file that was there to one that was not.
RenamesOK(before, edits) ==
  \A e \in edits : e.to # e.from => e.from \in DOMAIN before /\ e.to \notin DOMAIN before

\* A line that is left is in the file it was in, or in what that was renamed to.
LEMMA LinesMove ==
  ASSUME NEW before, NEW s \in Nat, TreeOK(before, s), NEW edits, EditsOK(edits),
         RenamesOK(before, edits), NEW tree, tree = Tree(before, s + 1, edits),
         NEW p \in DOMAIN before, NEW q \in DOMAIN tree,
         NEW l \in Range(before[p]), l \in Range(tree[q])
  PROVE  q = p \/ (p \notin DOMAIN tree /\ \E e \in edits : e.to = q /\ e.to # e.from)
<1>1. CASE q \in DOMAIN before /\ l \in Range(before[q])
  BY <1>1, OldLine
<1>2. CASE \E e \in edits : e.to = q /\ e.from \in DOMAIN before /\ l \in Range(before[e.from])
  <2>1. PICK e \in edits : e.to = q /\ e.from \in DOMAIN before /\ l \in Range(before[e.from])
    BY <1>2
  <2>2. e.from = p
    BY <2>1, OldLine
  <2>3. SUFFICES ASSUME q # p, p \in DOMAIN tree PROVE FALSE
    BY <2>1, <2>2
  <2>4. PICK g \in edits : g.to = p
    BY <2>2, <2>3, FilesAre DEF FileIs
  <2>5. g.to = g.from
    BY <2>4 DEF RenamesOK
  <2>6. g = e
    BY <2>2, <2>4, <2>5 DEF EditsOK
  <2> QED
    BY <2>1, <2>3, <2>4, <2>6
<1>3. \A x, k : l # <<s + 1, x, k>>
  BY OldLine
<1> QED
  BY <1>1, <1>2, <1>3, LineWas

-----------------------------------------------------------------------------
(* What a fix cut, and what is traced of it *)

\* The runs of lines that are gone are of lines that are gone, and of all of them.
LEMMA RunsEnd ==
  ASSUME NEW N \in Nat, NEW gone \in SUBSET (1 .. N), NEW n \in gone
  PROVE  \E m \in gone : n <= m /\ n .. m \subseteq gone /\ m + 1 \notin gone
<1> DEFINE Beyond == {k \in Nat : k >= n /\ k \notin gone}
<1>1. N + 1 \in Beyond
  OBVIOUS
<1>2. PICK k \in Beyond : \A j \in Beyond : k <= j
  <2>1. Beyond \in SUBSET Nat /\ Beyond # {}
    BY <1>1
  <2> HIDE DEF Beyond
  <2> QED
    BY <2>1, LeastNatural
<1>3. PICK m \in Nat : m = k - 1 /\ m >= n
  <2>1. n \in Nat /\ k \in Nat /\ k >= n /\ k # n
    BY <1>2
  <2>2. k - 1 \in Nat /\ k - 1 >= n
    BY <2>1
  <2> QED
    BY <2>2
<1>4. \A j \in n .. m : j \in gone
  <2>1. SUFFICES ASSUME NEW j \in n .. m, j \notin gone PROVE FALSE
    OBVIOUS
  <2>2. j \in Nat /\ j >= n /\ j < k
    BY <1>2, <1>3
  <2> QED
    BY <1>2, <2>1, <2>2
<1>5. m \in gone /\ m + 1 \notin gone
  <2>1. m \in n .. m /\ m + 1 = k
    BY <1>2, <1>3
  <2> QED
    BY <1>2, <1>4, <2>1
<1> QED
  BY <1>3, <1>4, <1>5

LEMMA HunksAre ==
  ASSUME NEW S, NEW old \in Seq(S), NEW new
  PROVE  /\ \A r \in Hunks(old, new) : r.count > 0 =>
              \A n \in r.start .. LastLine(r) : n \in DOMAIN old /\ old[n] \notin Range(new)
         /\ \A m \in DOMAIN old : old[m] \notin Range(new) =>
              \E r \in Hunks(old, new) : r.count > 0 /\ m \in r.start .. LastLine(r)
<1> DEFINE gone == {n \in DOMAIN old : old[n] \notin Range(new)}
           starts == {n \in gone : n - 1 \notin gone}
           Ends(n, m) == n <= m /\ n .. m \subseteq gone /\ m + 1 \notin gone
           End(n) == CHOOSE m \in gone : Ends(n, m)
           Run(n) == [start |-> n, count |-> End(n) - n + 1]
           none == IF gone = {} /\ new # old THEN {[start |-> 0, count |-> 0]} ELSE {}
<1>1. Hunks(old, new) = {Run(n) : n \in starts} \cup none
  BY DEF Hunks
<1>2. PICK N \in Nat : DOMAIN old = 1 .. N
  OBVIOUS
<1>3. gone \in SUBSET (1 .. N)
  BY <1>2
<1>4. ASSUME NEW n \in gone PROVE End(n) \in gone /\ Ends(n, End(n))
  <2>1. \E m \in gone : Ends(n, m)
    <3> HIDE DEF gone
    <3> QED
      BY <1>3, RunsEnd
  <2> HIDE DEF Ends, gone
  <2> QED
    BY <2>1
<1> HIDE DEF End
<1>5. ASSUME NEW n \in gone
      PROVE  /\ Run(n).start = n /\ LastLine(Run(n)) = End(n)
             /\ Run(n).count = End(n) - n + 1 /\ n \in Nat /\ End(n) \in Nat
  <2>1. n \in 1 .. N /\ End(n) \in 1 .. N
    <3> HIDE DEF gone, Ends
    <3> QED
      BY <1>3, <1>4
  <2>2. n + (End(n) - n + 1) - 1 = End(n)
    BY <2>1
  <2> QED
    BY <2>1, <2>2 DEF LastLine
<1>6. ASSUME NEW r \in Hunks(old, new), r.count > 0, NEW n \in r.start .. LastLine(r)
      PROVE  n \in gone
  <2>1. r \notin none
    <3>1. ~([start |-> 0, count |-> 0].count > 0)
      OBVIOUS
    <3> HIDE DEF gone
    <3> QED
      BY <1>6, <3>1
  <2>2. PICK m \in starts : r = Run(m)
    BY <1>1, <2>1
  <2>3. m \in gone /\ n \in m .. End(m)
    BY <1>5, <2>2
  <2> HIDE DEF gone, Run
  <2> QED
    BY <1>4, <2>3
<1>7. ASSUME NEW m \in gone
      PROVE  \E r \in Hunks(old, new) : r.count > 0 /\ m \in r.start .. LastLine(r)
  <2> DEFINE Froms == {k \in Nat : k .. m \subseteq gone}
  <2>1. m \in Nat /\ m >= 1 /\ m \in Froms
    <3>1. m \in 1 .. N
      BY <1>3
    <3>2. \A j \in m .. m : j = m
      BY <3>1
    <3> HIDE DEF gone
    <3> QED
      BY <3>1, <3>2
  <2>2. PICK k \in Froms : \A j \in Froms : k <= j
    <3>1. Froms \in SUBSET Nat /\ Froms # {}
      BY <2>1
    <3> HIDE DEF Froms
    <3> QED
      BY <3>1, LeastNatural
  <2>3. k \in Nat /\ k <= m /\ k .. m \subseteq gone
    BY <2>1, <2>2
  <2>4. k \in gone
    BY <2>1, <2>3
  <2>5. k - 1 \notin gone
    <3>1. SUFFICES ASSUME k - 1 \in gone PROVE FALSE
      OBVIOUS
    <3>2. k - 1 \in Nat
      <4> HIDE DEF gone
      <4> QED
        BY <1>3, <3>1
    <3>3. \A j \in k - 1 .. m : j \in gone
      <4>1. \A j \in k - 1 .. m : j = k - 1 \/ j \in k .. m
        BY <2>1, <2>3, <3>2
      <4> HIDE DEF gone
      <4> QED
        BY <2>3, <3>1, <4>1
    <3>4. k - 1 \in Froms
      BY <3>2, <3>3
    <3> HIDE DEF Froms
    <3> QED
      BY <2>2, <2>3, <3>2, <3>4
  <2>6. Run(k) \in Hunks(old, new)
    BY <1>1, <2>4, <2>5
  <2>7. m <= End(k)
    <3>1. SUFFICES ASSUME ~(m <= End(k)) PROVE FALSE
      OBVIOUS
    <3>2. End(k) + 1 \in k .. m
      <4>1. End(k) \in Nat /\ k <= End(k)
        BY <1>4, <1>5, <2>4
      <4> QED
        BY <2>1, <2>3, <3>1, <4>1
    <3> QED
      BY <1>4, <2>3, <2>4, <3>2
  <2>8. Run(k).count > 0 /\ m \in Run(k).start .. LastLine(Run(k))
    BY <1>5, <2>1, <2>3, <2>4, <2>7
  <2> QED
    BY <2>6, <2>8
<1> QED
  BY <1>6, <1>7

LinesOfTree(tree) == UNION {Range(tree[p]) : p \in DOMAIN tree}

LEMMA LinesFinite ==
  ASSUME NEW s, NEW tree, TreeOK(tree, s)
  PROVE  IsFiniteSet(LinesOfTree(tree)) /\ LinesOfTree(tree) \subseteq Line(s)
<1> DEFINE RangeAt(p) == Range(tree[p])
           Ranges == {RangeAt(p) : p \in DOMAIN tree}
<1>1. ASSUME NEW p \in DOMAIN tree PROVE IsFiniteSet(RangeAt(p)) /\ RangeAt(p) \subseteq Line(s)
  <2>1. PICK t \in Seq(Line(s)) : t = tree[p]
    BY DEF TreeOK
  <2>2. DOMAIN t = 1 .. Len(t) /\ Len(t) \in Nat /\ Range(t) \subseteq Line(s)
    BY DEF Range
  <2>3. PICK n \in Nat : n = Len(t)
    BY <2>2
  <2>4. IsFiniteSet(1 .. n)
    <3>1. 1 \in Int /\ n \in Int
      OBVIOUS
    <3> QED
      BY <3>1, FS_Interval
  <2>5. IsFiniteSet(DOMAIN t)
    BY <2>2, <2>3, <2>4
  <2>6. [k \in DOMAIN t |-> t[k]] \in Surjection(DOMAIN t, Range(t))
    BY DEF Surjection, Range
  <2>7. IsFiniteSet(Range(t))
    BY <2>5, <2>6, FS_Surjection
  <2> QED
    BY <2>1, <2>2, <2>7
<1>2. IsFiniteSet(Ranges)
  <2>1. [p \in DOMAIN tree |-> RangeAt(p)] \in Surjection(DOMAIN tree, Ranges)
    BY DEF Surjection
  <2>2. IsFiniteSet(DOMAIN tree)
    BY DEF TreeOK
  <2> HIDE DEF Ranges, RangeAt
  <2> QED
    BY <2>1, <2>2, FS_Surjection
<1>3. \A r \in Ranges : IsFiniteSet(r) /\ r \subseteq Line(s)
  BY <1>1
<1>4. LinesOfTree(tree) = UNION Ranges
  BY DEF LinesOfTree
<1> HIDE DEF Ranges
<1>5. IsFiniteSet(UNION Ranges)
  BY <1>2, <1>3, FS_UNION
<1> QED
  BY <1>3, <1>4, <1>5

\* What a commit is: the trees before and after it, and where lines went.
CommitOK(c, s) ==
  /\ TreeOK(c.before, s - 1) /\ TreeOK(c.tree, s)
  /\ c.renamed \cap DOMAIN c.before = {}
  /\ \A p \in DOMAIN c.before, q \in DOMAIN c.tree : \A l \in Range(c.before[p]) :
       l \in Range(c.tree[q]) => q = p \/ (p \notin DOMAIN c.tree /\ q \in c.renamed)

\* The lines a commit cut.
Cut(c) == {l \in LinesOfTree(c.before) : \A p \in DOMAIN c.tree : l \notin Range(c.tree[p])}

LinesBy(lines, i) == {l \in lines : Blame(l) = i}

LEMMA CutIs ==
  ASSUME NEW f, NEW i PROVE CutBy(i, f) = Cardinality(LinesBy(Cut(Made(f)), i))
<1>1. {l \in UNION {Range(Made(f).before[p]) : p \in DOMAIN Made(f).before} :
         Blame(l) = i /\ \A p \in DOMAIN Made(f).tree : l \notin Range(Made(f).tree[p])} =
      LinesBy(Cut(Made(f)), i)
  BY DEF Cut, LinesOfTree, LinesBy
<1> QED
  BY <1>1 DEF CutBy

LEMMA ChangedFinite ==
  ASSUME NEW f \in Nat, CommitOK(Made(f), f)
  PROVE  /\ IsFiniteSet(Changed(f)) /\ Cardinality(Changed(f)) \in Nat
         /\ \A p \in Changed(f) : p \in Path /\ (p \in DOMAIN Made(f).before \/ p \in DOMAIN Made(f).tree)
<1>1. \A p \in Changed(f) : p \in Path /\ (p \in DOMAIN Made(f).before \/ p \in DOMAIN Made(f).tree)
  BY DEF Changed, Content
<1>2. IsFiniteSet(DOMAIN Made(f).before \cup DOMAIN Made(f).tree)
  BY FS_Union DEF CommitOK, TreeOK
<1>3. Changed(f) \in SUBSET (DOMAIN Made(f).before \cup DOMAIN Made(f).tree)
  BY <1>1
<1> QED
  BY <1>1, <1>2, <1>3, FS_Subset, FS_CardinalityType

\* The files a fix is traced by, and their runs of lines that are gone.
LEMMA RangesAre ==
  ASSUME NEW f \in Nat, CommitOK(Made(f), f)
  PROVE  /\ \A p \in DOMAIN parseDeletedRanges(f) :
              /\ p \in Changed(f)
              /\ p \in DOMAIN Made(f).tree \/ Made(f).renamed = {}
              /\ p \notin Made(f).renamed => parseDeletedRanges(f)[p] =
                   {r \in Hunks(Content(Made(f).before, p), Content(Made(f).tree, p)) : r.count > 0}
         /\ Made(f).renamed = {} => DOMAIN parseDeletedRanges(f) = Changed(f)
<1> DEFINE before == Made(f).before
           tree == Made(f).tree
           Source(p) == IF p \in Made(f).renamed
                        THEN CHOOSE q \in DOMAIN before : q \notin DOMAIN tree ELSE p
           paths == (Changed(f) \cap DOMAIN tree)
                      \cup {p \in Changed(f) \ DOMAIN tree : Made(f).renamed = {}}
<1>1. parseDeletedRanges(f) =
        [p \in paths |-> {r \in Hunks(Content(before, Source(p)), Content(tree, p)) : r.count > 0}]
  BY DEF parseDeletedRanges
<1>2. \A p \in paths : p \notin Made(f).renamed => Source(p) = p
  OBVIOUS
<1> HIDE DEF Source
<1>3. DOMAIN parseDeletedRanges(f) = paths
  BY <1>1
<1>4. \A p \in paths : p \notin Made(f).renamed => parseDeletedRanges(f)[p] =
        {r \in Hunks(Content(before, p), Content(tree, p)) : r.count > 0}
  BY <1>1, <1>2
<1>5. \A p \in paths : p \in Changed(f) /\ (p \in DOMAIN tree \/ Made(f).renamed = {})
  OBVIOUS
<1>6. Made(f).renamed = {} => paths = Changed(f)
  OBVIOUS
<1> HIDE DEF paths
<1> QED
  BY <1>3, <1>4, <1>5, <1>6

TraceLines(sha, files) ==
  UNION {UNION {BlamedLines(sha, p, r) : r \in parseDeletedRanges(sha)[p]} : p \in files}

LEMMA TraceIs ==
  ASSUME NEW f, NEW files
  PROVE  /\ DOMAIN traceFix(f, files) = {Blame(l) : l \in TraceLines(f, files)} \X {f}
         /\ \A k \in DOMAIN traceFix(f, files) :
              traceFix(f, files)[k] = Cardinality(LinesBy(TraceLines(f, files), k[1]))
BY DEF traceFix, TraceLines, LinesBy

LEMMA TraceAt ==
  ASSUME NEW f, NEW files, NEW k \in DOMAIN traceFix(f, files)
  PROVE  traceFix(f, files)[k] = Cardinality(LinesBy(TraceLines(f, files), k[1]))
BY TraceIs, ZenonT(60)

\* A line of a run of lines that are gone was cut.
LEMMA TracedWasCut ==
  ASSUME NEW f \in Nat, CommitOK(Made(f), f), NEW p \in DOMAIN parseDeletedRanges(f),
         NEW r \in parseDeletedRanges(f)[p], NEW l \in BlamedLines(f, p, r)
  PROVE  l \in Cut(Made(f))
<1> DEFINE before == Made(f).before
           tree == Made(f).tree
           old == Content(before, p)
<1>1. TreeOK(before, f - 1) /\ TreeOK(tree, f)
  BY DEF CommitOK
<1>2. PICK n \in DOMAIN old : n \in r.start .. LastLine(r) /\ l = old[n]
  BY DEF BlamedLines, BlamedRange
<1>3. l \in Range(old)
  BY <1>2 DEF Range
<1>4. p \in DOMAIN before /\ l \in Range(before[p]) /\ old = before[p]
  BY <1>1, <1>3, ContentIs
<1>5. p \notin Made(f).renamed
  BY <1>4 DEF CommitOK
<1>6. r \in Hunks(old, Content(tree, p)) /\ r.count > 0
  BY <1>5, RangesAre
<1>7. l \notin Range(Content(tree, p))
  <2>1. old \in Seq(Line(f - 1))
    BY <1>1, ContentIs
  <2> HIDE DEF old, tree
  <2> QED
    BY <1>2, <1>6, <2>1, HunksAre
<1>8. ASSUME NEW q \in DOMAIN tree, l \in Range(tree[q]) PROVE FALSE
  <2>1. q = p \/ (p \notin DOMAIN tree /\ q \in Made(f).renamed)
    BY <1>4, <1>8 DEF CommitOK
  <2>2. q # p
    BY <1>7, <1>8 DEF Content
  <2> QED
    BY <2>1, <2>2, RangesAre
<1> QED
  BY <1>4, <1>8 DEF Cut, LinesOfTree

\* What a fix is traced to is earlier, and no more than it cut.
LEMMA AttributionIs ==
  ASSUME NEW f \in Nat \ {0}, CommitOK(Made(f), f),
         NEW files \in SUBSET DOMAIN parseDeletedRanges(f), NEW k \in DOMAIN traceFix(f, files)
  PROVE  /\ k[2] = f /\ k[1] \in 1 .. (f - 1) /\ k = <<k[1], f>>
         /\ traceFix(f, files)[k] \in 1 .. CutBy(k[1], f)
<1> DEFINE L == TraceLines(f, files)
           C == Cut(Made(f))
           With(S) == LinesBy(S, k[1])
<1>1. L \subseteq C
  BY TracedWasCut DEF TraceLines
<1>2. C \subseteq Line(f - 1) /\ IsFiniteSet(C)
  <2>1. TreeOK(Made(f).before, f - 1)
    BY DEF CommitOK
  <2>2. IsFiniteSet(LinesOfTree(Made(f).before)) /\ LinesOfTree(Made(f).before) \subseteq Line(f - 1)
    BY <2>1, LinesFinite
  <2>3. C \subseteq LinesOfTree(Made(f).before)
    BY DEF Cut
  <2> HIDE DEF C
  <2> QED
    BY <2>2, <2>3, FS_Subset
<1>3. PICK l \in L : k = <<Blame(l), f>> /\ k[1] = Blame(l) /\ k[2] = f
  <2>1. k \in {Blame(l) : l \in L} \X {f}
    BY TraceIs
  <2> HIDE DEF L
  <2> QED
    BY <2>1
<1>4. k[1] \in 1 .. (f - 1)
  <2>1. f - 1 \in Nat
    OBVIOUS
  <2>2. l \in Line(f - 1)
    BY <1>1, <1>2
  <2> QED
    BY <1>3, <2>1, <2>2, LineIs
<1>5. traceFix(f, files)[k] = Cardinality(With(L)) /\ CutBy(k[1], f) = Cardinality(With(C))
  <2>1. traceFix(f, files)[k] = Cardinality(With(L))
    BY TraceAt
  <2>2. CutBy(k[1], f) = Cardinality(With(C))
    BY CutIs
  <2> QED
    BY <2>1, <2>2
<1>6. l \in With(L) /\ With(L) \subseteq With(C) /\ With(C) \subseteq C
  BY <1>1, <1>3 DEF LinesBy
<1> HIDE DEF L, C, With
<1>7. IsFiniteSet(With(C)) /\ IsFiniteSet(With(L))
  BY <1>2, <1>6, FS_Subset
<1>8. /\ Cardinality(With(L)) \in Nat /\ Cardinality(With(C)) \in Nat
      /\ Cardinality(With(L)) <= Cardinality(With(C)) /\ Cardinality(With(L)) # 0
  <2>1. Cardinality(With(L)) \in Nat /\ Cardinality(With(C)) \in Nat
    BY <1>7, FS_CardinalityType
  <2>2. Cardinality(With(L)) <= Cardinality(With(C))
    BY <1>6, <1>7, FS_Subset
  <2>3. Cardinality(With(L)) # 0
    BY <1>6, <1>7, FS_EmptySet
  <2> QED
    BY <2>1, <2>2, <2>3
<1> QED
  BY <1>3, <1>4, <1>5, <1>8

\* A fix that renamed nothing is traced to all it cut.
LEMMA CutIsTraced ==
  ASSUME NEW f \in Nat, CommitOK(Made(f), f), Made(f).renamed = {}, NEW files,
         \A p \in DOMAIN parseDeletedRanges(f) : parseDeletedRanges(f)[p] # {} => p \in files,
         NEW l \in Cut(Made(f))
  PROVE  l \in TraceLines(f, files)
<1> DEFINE before == Made(f).before
           tree == Made(f).tree
           old(p) == Content(before, p)
<1>1. TreeOK(before, f - 1) /\ TreeOK(tree, f)
  BY DEF CommitOK
<1>2. PICK p \in DOMAIN before : l \in Range(before[p])
  BY DEF Cut, LinesOfTree
<1>3. old(p) = before[p] /\ p \in Path
  BY <1>1 DEF Content, TreeOK
<1>4. l \notin Range(Content(tree, p))
  <2>1. Range(Content(tree, p)) # {} => p \in DOMAIN tree /\ Content(tree, p) = tree[p]
    BY <1>1, ContentIs
  <2> QED
    BY <2>1 DEF Cut
<1>5. PICK m \in DOMAIN old(p) : l = old(p)[m]
  BY <1>2, <1>3 DEF Range
<1>6. p \in Changed(f)
  <2>1. old(p) # Content(tree, p)
    BY <1>2, <1>3, <1>4
  <2> QED
    BY <1>3, <2>1 DEF Changed
<1>7. p \in DOMAIN parseDeletedRanges(f)
      /\ parseDeletedRanges(f)[p] = {r \in Hunks(old(p), Content(tree, p)) : r.count > 0}
  BY <1>6, RangesAre
<1>8. PICK r \in Hunks(old(p), Content(tree, p)) : r.count > 0 /\ m \in r.start .. LastLine(r)
  <2>1. old(p) \in Seq(Line(f - 1))
    BY <1>1, ContentIs
  <2> HIDE DEF old
  <2> QED
    BY <1>4, <1>5, <2>1, HunksAre
<1>9. r \in parseDeletedRanges(f)[p] /\ p \in files
  BY <1>7, <1>8
<1>10. l \in BlamedLines(f, p, r)
  BY <1>5, <1>8 DEF BlamedLines, BlamedRange
<1> QED
  BY <1>9, <1>10 DEF TraceLines

\* So a small enough one is attributed in full.
LEMMA WholeTraced ==
  ASSUME NEW f \in Nat \ {0}, CommitOK(Made(f), f), Made(f).renamed = {},
         Cardinality(Changed(f)) <= maxFilesPerFix, NEW files \in TracedFiles(f),
         NEW i, CutBy(i, f) > 0
  PROVE  /\ <<i, f>> \in DOMAIN traceFix(f, files)
         /\ traceFix(f, files)[<<i, f>>] = CutBy(i, f)
<1> DEFINE ranges == parseDeletedRanges(f)
           paths == {p \in DOMAIN ranges : ranges[p] # {}}
<1>1. files = paths
  <2>1. IsFiniteSet(Changed(f)) /\ Cardinality(Changed(f)) \in Nat /\ paths \subseteq Changed(f)
    BY ChangedFinite, RangesAre
  <2>2. IsFiniteSet(paths) /\ Cardinality(paths) <= Cardinality(Changed(f)) /\ Cardinality(paths) \in Nat
    <3> HIDE DEF paths
    <3> QED
      BY <2>1, FS_Subset, FS_CardinalityType
  <2>3. maxFilesPerFix \in Nat
    BY AnalysisAssumption
  <2>4. Cardinality(paths) <= maxFilesPerFix
    <3> HIDE DEF paths
    <3> QED
      BY <2>1, <2>2, <2>3
  <2> QED
    BY <2>4 DEF TracedFiles
<1>2. paths \subseteq DOMAIN ranges
  OBVIOUS
<1>3. TraceLines(f, files) = Cut(Made(f))
  <2>1. \A l \in TraceLines(f, files) : l \in Cut(Made(f))
    <3>1. \A p \in files : p \in DOMAIN ranges
      BY <1>1
    <3> QED
      BY <3>1, TracedWasCut DEF TraceLines
  <2>2. \A p \in DOMAIN parseDeletedRanges(f) : parseDeletedRanges(f)[p] # {} => p \in files
    BY <1>1
  <2>3. \A l \in Cut(Made(f)) : l \in TraceLines(f, files)
    BY <2>2, CutIsTraced
  <2> QED
    BY <2>1, <2>3
<1>4. CutBy(i, f) = Cardinality(LinesBy(Cut(Made(f)), i))
  BY CutIs
<1>5. PICK l \in Cut(Made(f)) : Blame(l) = i
  <2>1. CASE LinesBy(Cut(Made(f)), i) = {}
    <3>1. Cardinality({}) = 0
      BY FS_EmptySet
    <3> QED
      BY <1>4, <2>1, <3>1
  <2> QED
    BY <2>1 DEF LinesBy
<1>6. <<i, f>> \in DOMAIN traceFix(f, files)
  <2>1. DOMAIN traceFix(f, files) = {Blame(n) : n \in TraceLines(f, files)} \X {f}
    BY TraceIs
  <2> QED
    BY <1>3, <1>5, <2>1
<1>7. <<i, f>>[1] = i
  OBVIOUS
<1>8. traceFix(f, files)[<<i, f>>] = Cardinality(LinesBy(TraceLines(f, files), <<i, f>>[1]))
  BY <1>6, TraceIs, ZenonT(60)
<1> QED
  BY <1>3, <1>4, <1>6, <1>7, <1>8

-----------------------------------------------------------------------------
(* History *)

\* Commits are only added.
MoreCommits == Shas \subseteq Shas' /\ \A s \in Shas : Made(s)' = Made(s)

\* A line at the head of a history is of a commit in it.
Chain(h) ==
  /\ h \in Seq(Shas)
  /\ \A n \in DOMAIN h : \A l \in LinesOfTree(Made(h[n]).tree) : \E m \in 1 .. n : h[m] = Blame(l)

\* The commit that introduced a line had it.
Born(tree) == \A l \in LinesOfTree(tree) : Blame(l) \in Shas /\ l \in LinesOfTree(Made(Blame(l)).tree)

CommitsOK ==
  /\ commits_made \in Seq(Range(commits_made)) /\ Len(commits_made) <= MaxSha
  /\ \A s \in Shas :
       /\ Made(s).author \in Committer /\ Made(s).kind \in {"plain", "fix", "merge"}
       /\ CommitOK(Made(s), s) /\ Born(Made(s).tree)

LEMMA ShasAre ==
  ASSUME CommitsOK
  PROVE  Shas = 1 .. Len(commits_made) /\ Len(commits_made) \in Nat /\ Shas \subseteq Nat \ {0}
BY DEF CommitsOK, Shas

LEMMA SameCommit ==
  ASSUME MoreCommits, NEW s \in Shas
  PROVE  /\ s \in Shas' /\ Made(s)' = Made(s) /\ Changed(s)' = Changed(s)
         /\ \A i : CutBy(i, s)' = CutBy(i, s)
         /\ \A p : Gained(s, p)' = Gained(s, p)
<1>1. s \in Shas' /\ Made(s)' = Made(s)
  BY DEF MoreCommits
<1>2. Changed(s)' = Changed(s)
  BY <1>1 DEF Changed, Content
<1>3. \A i : CutBy(i, s)' = CutBy(i, s)
  BY <1>1 DEF CutBy
<1>4. \A p : Gained(s, p)' = Gained(s, p)
  BY <1>1 DEF Gained, Content
<1> QED
  BY <1>1, <1>2, <1>3, <1>4

LEMMA LastIs ==
  ASSUME NEW S, NEW h \in Seq(S), h # <<>>
  PROVE  Len(h) \in DOMAIN h /\ Last(h) = h[Len(h)] /\ Last(h) \in S /\ Last(h) \in Range(h)
<1>1. Len(h) \in DOMAIN h
  OBVIOUS
<1> QED
  BY <1>1 DEF Last, Range

LEMMA HeadLines ==
  ASSUME NEW h, Chain(h)
  PROVE  \A l \in LinesOfTree(Head_(h)) : Blame(l) \in Range(h) /\ Blame(l) \in Shas
<1>1. h \in Seq(Shas)
  BY DEF Chain
<1>2. CASE h = <<>>
  BY <1>2 DEF Head_, NoTree, LinesOfTree
<1>3. CASE h # <<>>
  <2>1. Head_(h) = Made(h[Len(h)]).tree /\ Len(h) \in DOMAIN h
    BY <1>1, <1>3, LastIs DEF Head_
  <2>2. ASSUME NEW l \in LinesOfTree(Head_(h)) PROVE Blame(l) \in Range(h) /\ Blame(l) \in Shas
    <3>1. PICK m \in 1 .. Len(h) : h[m] = Blame(l)
      BY <2>1 DEF Chain
    <3>2. m \in DOMAIN h /\ h[m] \in Shas
      BY <1>1, <3>1
    <3> QED
      BY <3>1, <3>2 DEF Range
  <2> QED
    BY <2>2
<1> QED
  BY <1>2, <1>3

LEMMA SameHistory ==
  ASSUME MoreCommits, NEW h \in Seq(Shas)
  PROVE  /\ h \in Seq(Shas') /\ Range(h) \subseteq Shas /\ Head_(h)' = Head_(h)
         /\ Logged(h)' = Logged(h) /\ findFixCommits(h)' = findFixCommits(h)
         /\ Chain(h) => Chain(h)'
<1>1. Range(h) \subseteq Shas
  BY DEF Range
<1>2. h \in Seq(Shas')
  <2>1. \A s \in Shas : s \in Shas'
    BY DEF MoreCommits
  <2> QED
    BY <2>1
<1>3. Head_(h)' = Head_(h)
  <2>1. CASE h = <<>>
    BY <2>1 DEF Head_, NoTree
  <2>2. CASE h # <<>>
    BY <2>2, LastIs, SameCommit DEF Head_
  <2> QED
    BY <2>1, <2>2
<1>4. \A s \in Range(h) : Made(s)' = Made(s)
  BY <1>1, SameCommit
<1>5. Logged(h)' = Logged(h) /\ findFixCommits(h)' = findFixCommits(h)
  BY <1>4 DEF Logged, findFixCommits
<1>6. ASSUME Chain(h) PROVE Chain(h)'
  <2>1. \A n \in DOMAIN h : h[n] \in Shas
    OBVIOUS
  <2>2. \A n \in DOMAIN h : Made(h[n])' = Made(h[n])
    BY <2>1 DEF MoreCommits
  <2> QED
    BY <1>2, <1>6, <2>2 DEF Chain, LinesOfTree, Blame, Made
<1> QED
  BY <1>1, <1>2, <1>3, <1>5, <1>6

\* The lines somebody has at the head.
LinesOfOne(h, a) == {l \in LinesOfTree(Head_(h)) : Made(Blame(l)).author = a}

LEMMA LinesAtIs ==
  ASSUME NEW h, NEW a PROVE LinesAt(h, a) = Cardinality(LinesOfOne(h, a))
<1>1. {l \in UNION {Range(Head_(h)[p]) : p \in DOMAIN Head_(h)} : Made(Blame(l)).author = a} =
      LinesOfOne(h, a)
  BY DEF LinesOfOne, LinesOfTree
<1> QED
  BY <1>1 DEF LinesAt

LEMMA SameLines ==
  ASSUME MoreCommits, NEW h, Chain(h), NEW a
  PROVE  LinesAt(h, a)' = LinesAt(h, a)
<1>1. Head_(h)' = Head_(h)
  BY SameHistory DEF Chain
<1>2. \A l \in LinesOfTree(Head_(h)) : Made(Blame(l))' = Made(Blame(l))
  BY HeadLines, SameCommit
<1>3. \A l \in UNION {Range(Head_(h)[p]) : p \in DOMAIN Head_(h)} :
        Made(Blame(l))'.author = Made(Blame(l)).author
  BY <1>2 DEF LinesOfTree
<1> QED
  BY <1>1, <1>3 DEF LinesAt

-----------------------------------------------------------------------------
(* What authors wrote *)

\* The row of a file that a commit touched.
RowOf(sha, p) ==
  [sha |-> sha, path |-> p, mail |-> Made(sha).author, adds |-> Gained(sha, p),
   test |-> IsTestPath(p)]
RowsOf(h, a) == {f \in collectCommitFiles(h) : f.mail = a}
GainedLines(s, p) == Range(Content(Made(s).tree, p)) \ Range(Content(Made(s).before, p))

LEMMA FileRowsAre ==
  ASSUME NEW h, NEW f
  PROVE  f \in collectCommitFiles(h) <=> \E sha \in Logged(h) : \E p \in Changed(sha) : f = RowOf(sha, p)
BY DEF collectCommitFiles, RowOf

LEMMA GainedIs ==
  ASSUME NEW s \in Nat, CommitOK(Made(s), s), NEW p
  PROVE  /\ IsFiniteSet(GainedLines(s, p)) /\ Gained(s, p) = Cardinality(GainedLines(s, p))
         /\ Gained(s, p) \in Nat
<1>1. TreeOK(Made(s).tree, s)
  BY DEF CommitOK
<1>2. IsFiniteSet(LinesOfTree(Made(s).tree))
  BY <1>1, LinesFinite
<1>3. GainedLines(s, p) \subseteq LinesOfTree(Made(s).tree)
  <2>1. Range(Content(Made(s).tree, p)) # {} =>
          p \in DOMAIN Made(s).tree /\ Content(Made(s).tree, p) = Made(s).tree[p]
    BY <1>1, ContentIs
  <2> QED
    BY <2>1 DEF GainedLines, LinesOfTree
<1>4. IsFiniteSet(GainedLines(s, p)) /\ Cardinality(GainedLines(s, p)) \in Nat
  BY <1>2, <1>3, FS_Subset, FS_CardinalityType
<1> QED
  BY <1>4 DEF Gained, GainedLines

LEMMA RowIs ==
  ASSUME CommitsOK, NEW s \in Shas, NEW p \in Changed(s)
  PROVE  /\ RowOf(s, p).sha = s /\ RowOf(s, p).path = p /\ p \in Path
         /\ RowOf(s, p).mail = Made(s).author /\ RowOf(s, p).mail \in Committer
         /\ RowOf(s, p).adds = Gained(s, p) /\ Gained(s, p) \in Nat
<1>1. s \in Nat /\ CommitOK(Made(s), s) /\ Made(s).author \in Committer
  BY ShasAre DEF CommitsOK
<1>2. Gained(s, p) \in Nat
  BY <1>1, GainedIs
<1>3. p \in Path
  BY DEF Changed
<1> QED
  BY <1>1, <1>2, <1>3 DEF RowOf

LEMMA LoggedAre ==
  ASSUME NEW h \in Seq(Shas)
  PROVE  Logged(h) \subseteq Shas /\ findFixCommits(h) \subseteq Logged(h) /\ Range(h) \subseteq Shas
BY DEF Logged, findFixCommits, Range

LEMMA FilesFinite ==
  ASSUME CommitsOK, NEW h \in Seq(Shas)
  PROVE  IsFiniteSet(collectCommitFiles(h))
<1> DEFINE RowsAt(s) == {RowOf(s, p) : p \in Changed(s)}
           Parts == {RowsAt(s) : s \in Logged(h)}
<1>1. ASSUME NEW s \in Logged(h) PROVE IsFiniteSet(RowsAt(s))
  <2>1. s \in Nat /\ CommitOK(Made(s), s)
    BY ShasAre, LoggedAre DEF CommitsOK
  <2>2. IsFiniteSet(Changed(s))
    BY <2>1, ChangedFinite
  <2>3. [p \in Changed(s) |-> RowOf(s, p)] \in Surjection(Changed(s), RowsAt(s))
    BY DEF Surjection
  <2> HIDE DEF RowsAt
  <2> QED
    BY <2>2, <2>3, FS_Surjection
<1> HIDE DEF RowsAt
<1>2. IsFiniteSet(Parts)
  <2>1. PICK n \in Nat : n = Len(commits_made) /\ Shas = 1 .. n
    BY ShasAre
  <2>2. IsFiniteSet(1 .. n)
    <3>1. 1 \in Int /\ n \in Int
      OBVIOUS
    <3> QED
      BY <3>1, FS_Interval
  <2>3. IsFiniteSet(Logged(h))
    BY <2>1, <2>2, LoggedAre, FS_Subset
  <2>4. [s \in Logged(h) |-> RowsAt(s)] \in Surjection(Logged(h), Parts)
    BY DEF Surjection
  <2> HIDE DEF Parts
  <2> QED
    BY <2>3, <2>4, FS_Surjection
<1>3. \A t \in Parts : IsFiniteSet(t)
  BY <1>1
<1>4. collectCommitFiles(h) = UNION Parts
  BY FileRowsAre DEF RowsAt
<1> HIDE DEF Parts
<1> QED
  BY <1>2, <1>3, <1>4, FS_UNION

\* A line that lives was new in a file of the commit that introduced it.
LEMMA LineWasNew ==
  ASSUME CommitsOK, NEW h, Chain(h), NEW l \in LinesOfTree(Head_(h))
  PROVE  \E p \in Changed(Blame(l)) : l \in GainedLines(Blame(l), p)
<1> DEFINE s == Blame(l)
<1>1. s \in Range(h) /\ s \in Shas
  BY HeadLines
<1>2. h \in Seq(Shas) /\ h # <<>>
  BY <1>1 DEF Chain, Range
<1>3. Last(h) \in Shas /\ Head_(h) = Made(Last(h)).tree
  BY <1>2, LastIs DEF Head_
<1>4. l \in LinesOfTree(Made(s).tree)
  BY <1>3 DEF CommitsOK, Born
<1>5. PICK p \in DOMAIN Made(s).tree : l \in Range(Made(s).tree[p])
  BY <1>4 DEF LinesOfTree
<1>6. s \in Nat /\ s - 1 \in Nat /\ CommitOK(Made(s), s)
  BY <1>1, ShasAre DEF CommitsOK
<1>7. TreeOK(Made(s).before, s - 1) /\ TreeOK(Made(s).tree, s) /\ p \in Path
  BY <1>5, <1>6 DEF CommitOK, TreeOK
<1>8. Content(Made(s).tree, p) = Made(s).tree[p]
  BY <1>5 DEF Content
<1>9. l \notin Range(Content(Made(s).before, p))
  <2>1. Content(Made(s).before, p) \in Seq(Line(s - 1))
    BY <1>7, ContentIs
  <2>2. ASSUME l \in Range(Content(Made(s).before, p)) PROVE FALSE
    <3>1. l \in Line(s - 1)
      BY <2>1, <2>2 DEF Range
    <3>2. Blame(l) \in 1 .. (s - 1)
      BY <1>6, <3>1, LineIs
    <3> QED
      BY <1>6, <3>2
  <2> QED
    BY <2>2
<1>10. l \in GainedLines(s, p)
  BY <1>5, <1>8, <1>9 DEF GainedLines
<1>11. p \in Changed(s)
  <2>1. Content(Made(s).before, p) # Content(Made(s).tree, p)
    BY <1>5, <1>8, <1>9
  <2> QED
    BY <1>7, <2>1 DEF Changed
<1> QED
  BY <1>10, <1>11

\* Where a line of an author was new.
BirthOf(l) == CHOOSE p \in Changed(Blame(l)) : l \in GainedLines(Blame(l), p)
BirthRow(l) == RowOf(Blame(l), BirthOf(l))

LEMMA BirthIs ==
  ASSUME CommitsOK, NEW h, Chain(h), NEW a, NEW l \in LinesOfOne(h, a),
         \A sha \in Range(h) : Made(sha).author = a => Made(sha).kind # "merge"
  PROVE  BirthRow(l) \in RowsOf(h, a) /\ l \in GainedLines(BirthRow(l).sha, BirthRow(l).path)
<1>1. l \in LinesOfTree(Head_(h)) /\ Made(Blame(l)).author = a
  BY DEF LinesOfOne
<1>2. \E p \in Changed(Blame(l)) : l \in GainedLines(Blame(l), p)
  BY <1>1, LineWasNew
<1>3. BirthOf(l) \in Changed(Blame(l)) /\ l \in GainedLines(Blame(l), BirthOf(l))
  BY <1>2 DEF BirthOf
<1>4. Blame(l) \in Range(h) /\ Blame(l) \in Shas
  BY <1>1, HeadLines
<1>5. Blame(l) \in Logged(h)
  BY <1>1, <1>4 DEF Logged
<1>6. BirthRow(l) \in collectCommitFiles(h)
  BY <1>3, <1>5, FileRowsAre DEF BirthRow
<1>7. BirthRow(l).mail = a /\ BirthRow(l).sha = Blame(l) /\ BirthRow(l).path = BirthOf(l)
  BY <1>1, <1>3, <1>4, RowIs DEF BirthRow
<1> QED
  BY <1>3, <1>6, <1>7 DEF RowsOf

LEMMA LinesFew ==
  ASSUME CommitsOK, NEW h, Chain(h), NEW a
  PROVE  /\ IsFiniteSet(LinesOfTree(Head_(h))) /\ IsFiniteSet(LinesOfOne(h, a))
         /\ LinesAt(h, a) = Cardinality(LinesOfOne(h, a)) /\ LinesAt(h, a) \in Nat
<1>1. h \in Seq(Shas)
  BY DEF Chain
<1>2. IsFiniteSet(LinesOfTree(Head_(h)))
  <2>1. CASE h = <<>>
    <3>1. LinesOfTree(Head_(h)) = {}
      BY <2>1 DEF Head_, NoTree, LinesOfTree
    <3> QED
      BY <3>1, FS_EmptySet
  <2>2. CASE h # <<>>
    <3>1. Last(h) \in Shas /\ Head_(h) = Made(Last(h)).tree
      BY <1>1, <2>2, LastIs DEF Head_
    <3>2. TreeOK(Head_(h), Last(h))
      BY <3>1 DEF CommitsOK, CommitOK
    <3> QED
      BY <3>2, LinesFinite
  <2> QED
    BY <2>1, <2>2
<1>3. LinesOfOne(h, a) \subseteq LinesOfTree(Head_(h))
  BY DEF LinesOfOne
<1>4. IsFiniteSet(LinesOfOne(h, a)) /\ Cardinality(LinesOfOne(h, a)) \in Nat
  BY <1>2, <1>3, FS_Subset, FS_CardinalityType
<1> QED
  BY <1>2, <1>4, LinesAtIs

LEMMA RowsOfOne ==
  ASSUME CommitsOK, NEW h, Chain(h), NEW a
  PROVE  /\ IsFiniteSet(RowsOf(h, a))
         /\ \A d \in RowsOf(h, a) : /\ d.sha \in Shas /\ d.path \in Path /\ d.mail = a
                                    /\ d.adds = Gained(d.sha, d.path) /\ d.adds \in Nat
<1>1. h \in Seq(Shas)
  BY DEF Chain
<1>2. RowsOf(h, a) \subseteq collectCommitFiles(h)
  BY DEF RowsOf
<1>3. IsFiniteSet(RowsOf(h, a))
  BY <1>1, <1>2, FilesFinite, FS_Subset
<1>4. ASSUME NEW d \in RowsOf(h, a)
      PROVE  /\ d.sha \in Shas /\ d.path \in Path /\ d.mail = a
             /\ d.adds = Gained(d.sha, d.path) /\ d.adds \in Nat
  <2>1. PICK sha \in Logged(h) : \E p \in Changed(sha) : d = RowOf(sha, p)
    BY <1>2, FileRowsAre
  <2>2. PICK p \in Changed(sha) : d = RowOf(sha, p)
    BY <2>1
  <2>3. sha \in Shas /\ d.mail = a
    BY <1>1, LoggedAre DEF RowsOf
  <2> QED
    BY <2>2, <2>3, RowIs
<1> QED
  BY <1>3, <1>4

\* No more lines of an author live than his commits added, if none of them is a merge.
LEMMA SurvivorsWritten ==
  ASSUME CommitsOK, NEW h, Chain(h), NEW a,
         \A sha \in Range(h) : Made(sha).author = a => Made(sha).kind # "merge",
         NEW added, \A d \in RowsOf(h, a) : added[d] = d.adds
  PROVE  LinesAt(h, a) <= Total(added, RowsOf(h, a))
<1> DEFINE N == LinesOfOne(h, a)
           D == RowsOf(h, a)
           box == [l \in N |-> BirthRow(l)]
           born == [d \in D |-> Cardinality({l \in N : box[l] = d})]
<1>1. IsFiniteSet(N) /\ IsFiniteSet(D) /\ LinesAt(h, a) = Cardinality(N)
  BY LinesFew, RowsOfOne
<1>2. \A l \in N : box[l] \in D /\ l \in GainedLines(box[l].sha, box[l].path)
  BY BirthIs
<1>3. ASSUME NEW d \in D
      PROVE  born[d] \in Nat /\ added[d] \in Nat /\ born[d] <= added[d]
  <2>1. /\ d.sha \in Shas /\ d.adds = Gained(d.sha, d.path) /\ d.adds \in Nat /\ added[d] = d.adds
    BY RowsOfOne
  <2>2. d.sha \in Nat /\ CommitOK(Made(d.sha), d.sha)
    BY <2>1, ShasAre DEF CommitsOK
  <2>3. /\ IsFiniteSet(GainedLines(d.sha, d.path))
        /\ Gained(d.sha, d.path) = Cardinality(GainedLines(d.sha, d.path))
    BY <2>2, GainedIs
  <2>4. born[d] = Cardinality({l \in N : box[l] = d})
    OBVIOUS
  <2> HIDE DEF N, D, box, born
  <2>5. {l \in N : box[l] = d} \in SUBSET GainedLines(d.sha, d.path)
    BY <1>2
  <2>6. /\ Cardinality({l \in N : box[l] = d}) \in Nat
        /\ Cardinality({l \in N : box[l] = d}) <= Cardinality(GainedLines(d.sha, d.path))
    BY <2>3, <2>5, FS_Subset, FS_CardinalityType
  <2> QED
    BY <2>1, <2>3, <2>4, <2>6
<1>4. Total(born, D) = Cardinality(Boxed(N, box, D))
  <2>1. BoxSizes(born, D, N, box)
    BY DEF BoxSizes
  <2> HIDE DEF N, D, box, born
  <2> QED
    BY <1>1, <2>1, CountedByBox
<1>5. Boxed(N, box, D) = N
  <2> HIDE DEF N, D, box
  <2> QED
    BY <1>2 DEF Boxed
<1>6. Total(born, D) <= Total(added, D)
  <2> HIDE DEF N, D, box, born
  <2>1. Amounts(born, D) /\ Amounts(added, D) /\ D \in SUBSET D
    BY <1>3 DEF Amounts
  <2> QED
    BY <1>1, <1>3, <2>1, TotalMost
<1> HIDE DEF N, D, box, born
<1>7. LinesAt(h, a) <= Total(added, D)
  BY <1>1, <1>4, <1>5, <1>6
<1> QED
  BY <1>7 DEF D

-----------------------------------------------------------------------------
(* Results *)

FilesTrue(files) == \A f \in files : \E sha \in Shas : \E p \in Changed(sha) : f = RowOf(sha, p)
BugsTrue(bugs) ==
  \A k \in DOMAIN bugs :
    /\ k[2] \in Shas /\ k[1] \in 1 .. (k[2] - 1) /\ k = <<k[1], k[2]>>
    /\ Made(k[2]).kind = "fix" /\ bugs[k] \in 1 .. CutBy(k[1], k[2])
BugsWhole(h, bugs) ==
  \A f \in findFixCommits(h), i \in Shas :
    (Made(f).renamed = {} /\ Cardinality(Changed(f)) <= maxFilesPerFix /\ CutBy(i, f) > 0) =>
      <<i, f>> \in DOMAIN bugs /\ bugs[<<i, f>>] = CutBy(i, f)
AuthorWhole(h, survival, a) ==
  /\ a \in DOMAIN survival
  /\ survival[a].surviving = LinesAt(h, a)
  /\ (\A sha \in Range(h) : Made(sha).author = a => Made(sha).kind # "merge") =>
       survival[a].surviving <= survival[a].authored
SurvivalWhole(h, survival) ==
  \A a \in Committer :
    LinesAt(h, a) > 0 \/ (\E sha \in Logged(h) : Made(sha).author = a /\ Changed(sha) # {}) =>
      AuthorWhole(h, survival, a)

\* What an analysis found is true, and when git answered everything it is all of it.
ResultOK(h, whole, files, survival, bugs) ==
  /\ Chain(h) /\ FilesTrue(files) /\ BugsTrue(bugs) /\ DOMAIN survival \subseteq Committer
  /\ whole => BugsWhole(h, bugs) /\ SurvivalWhole(h, survival)

LEMMA FixesAre ==
  ASSUME CommitsOK, NEW h \in Seq(Shas), NEW f \in findFixCommits(h)
  PROVE  /\ f \in Shas /\ f \in Nat \ {0} /\ CommitOK(Made(f), f) /\ Made(f).kind = "fix"
BY ShasAre, LoggedAre DEF findFixCommits, CommitsOK

\* Only what was there can be cut.
LEMMA CutEarlier ==
  ASSUME CommitsOK, NEW f \in Shas, NEW i, CutBy(i, f) > 0
  PROVE  i \in Shas
<1>1. f \in Nat /\ f - 1 \in Nat /\ CommitOK(Made(f), f) /\ Shas = 1 .. Len(commits_made)
      /\ Len(commits_made) \in Nat /\ f <= Len(commits_made)
  BY ShasAre DEF CommitsOK
<1>2. LinesOfTree(Made(f).before) \subseteq Line(f - 1)
  BY <1>1, LinesFinite DEF CommitOK
<1>3. PICK l \in Cut(Made(f)) : Blame(l) = i
  <2>1. CASE LinesBy(Cut(Made(f)), i) = {}
    <3>1. Cardinality({}) = 0
      BY FS_EmptySet
    <3> QED
      BY <2>1, <3>1, CutIs
  <2> QED
    BY <2>1 DEF LinesBy
<1>4. l \in Line(f - 1)
  BY <1>2 DEF Cut
<1>5. i \in 1 .. (f - 1)
  BY <1>1, <1>3, <1>4, LineIs
<1> QED
  BY <1>1, <1>5

LEMMA SameRow ==
  ASSUME MoreCommits, NEW sha \in Shas, NEW p
  PROVE  RowOf(sha, p)' = RowOf(sha, p)
<1>1. Made(sha)' = Made(sha) /\ Gained(sha, p)' = Gained(sha, p)
  BY SameCommit
<1> QED
  BY <1>1 DEF RowOf, IsTestPath

\* What was found stays so when more is committed.
LEMMA SameResult ==
  ASSUME CommitsOK, MoreCommits, NEW h, NEW whole, NEW files, NEW survival, NEW bugs,
         ResultOK(h, whole, files, survival, bugs)
  PROVE  ResultOK(h, whole, files, survival, bugs)'
<1>1. Chain(h) /\ FilesTrue(files) /\ BugsTrue(bugs) /\ DOMAIN survival \subseteq Committer
  BY DEF ResultOK
<1>2. h \in Seq(Shas)
  BY <1>1 DEF Chain
<1>3. Chain(h)'
  BY <1>1, <1>2, SameHistory
<1>4. FilesTrue(files)'
  <2>1. ASSUME NEW f \in files PROVE \E sha \in Shas' : \E p \in Changed(sha)' : f = RowOf(sha, p)'
    <3>1. PICK sha \in Shas : \E p \in Changed(sha) : f = RowOf(sha, p)
      BY <1>1 DEF FilesTrue
    <3>2. PICK p \in Changed(sha) : f = RowOf(sha, p)
      BY <3>1
    <3>3. sha \in Shas' /\ p \in Changed(sha)'
      BY SameCommit
    <3>4. f = RowOf(sha, p)'
      BY <3>2, SameRow
    <3> QED
      BY <3>3, <3>4
  <2> QED
    BY <2>1 DEF FilesTrue
<1>5. BugsTrue(bugs)'
  <2>1. ASSUME NEW k \in DOMAIN bugs
        PROVE  /\ k[2] \in Shas' /\ k[1] \in 1 .. (k[2] - 1) /\ k = <<k[1], k[2]>>
               /\ Made(k[2])'.kind = "fix" /\ bugs[k] \in 1 .. CutBy(k[1], k[2])'
    <3>1. k[2] \in Shas
      BY <1>1 DEF BugsTrue
    <3>2. k[2] \in Shas' /\ Made(k[2])' = Made(k[2]) /\ CutBy(k[1], k[2])' = CutBy(k[1], k[2])
      BY <3>1, SameCommit
    <3> QED
      BY <1>1, <3>2 DEF BugsTrue
  <2> QED
    BY <2>1 DEF BugsTrue
<1>6. ASSUME whole PROVE BugsWhole(h, bugs)'
  <2>1. ASSUME NEW f \in findFixCommits(h)', NEW i \in Shas', (Made(f).renamed = {})',
               (Cardinality(Changed(f)) <= maxFilesPerFix)', (CutBy(i, f) > 0)'
        PROVE  <<i, f>> \in DOMAIN bugs /\ bugs[<<i, f>>] = CutBy(i, f)'
    <3>1. f \in findFixCommits(h) /\ f \in Shas
      BY <1>2, <2>1, SameHistory, FixesAre
    <3>2. Made(f)' = Made(f) /\ Changed(f)' = Changed(f) /\ CutBy(i, f)' = CutBy(i, f)
      BY <3>1, SameCommit
    <3>3. i \in Shas
      BY <2>1, <3>1, <3>2, CutEarlier
    <3> QED
      BY <1>6, <2>1, <3>1, <3>2, <3>3 DEF ResultOK, BugsWhole
  <2> QED
    BY <2>1 DEF BugsWhole
<1>7. ASSUME whole PROVE SurvivalWhole(h, survival)'
  <2>1. /\ Range(h) \subseteq Shas /\ Logged(h)' = Logged(h) /\ Logged(h) \subseteq Shas
    BY <1>2, SameHistory, LoggedAre
  <2>2. ASSUME NEW a \in Committer,
               \/ (LinesAt(h, a) > 0)'
               \/ \E sha \in Logged(h)' : Made(sha)'.author = a /\ Changed(sha)' # {}
        PROVE  /\ a \in DOMAIN survival
               /\ survival[a].surviving = LinesAt(h, a)'
               /\ (\A sha \in Range(h) : Made(sha)'.author = a => Made(sha)'.kind # "merge") =>
                    survival[a].surviving <= survival[a].authored
    <3>1. LinesAt(h, a)' = LinesAt(h, a)
      BY <1>1, SameLines
    <3>2. \A sha \in Shas : Made(sha)' = Made(sha) /\ Changed(sha)' = Changed(sha)
      BY SameCommit
    <3>3. LinesAt(h, a) > 0 \/ \E sha \in Logged(h) : Made(sha).author = a /\ Changed(sha) # {}
      BY <2>1, <2>2, <3>1, <3>2
    <3>4. AuthorWhole(h, survival, a)
      BY <1>7, <3>3 DEF ResultOK, SurvivalWhole
    <3> QED
      BY <2>1, <3>1, <3>2, <3>4 DEF AuthorWhole
  <2> QED
    BY <2>2 DEF SurvivalWhole, AuthorWhole
<1> QED
  BY <1>1, <1>3, <1>4, <1>5, <1>6, <1>7 DEF ResultOK

\* Storing keeps what was there, and what comes replaces it.
LEMMA StoredResult ==
  ASSUME NEW h0, NEW w0, NEW F0, NEW S0, NEW B0, ResultOK(h0, w0, F0, S0, B0),
         NEW h, NEW w, NEW F, NEW S, NEW B, ResultOK(h, w, F, S, B)
  PROVE  ResultOK(h, w, F0 \cup F, Upsert(S0, S), Upsert(B0, B))
<1>1. /\ DOMAIN Upsert(S0, S) = DOMAIN S0 \cup DOMAIN S
      /\ \A x \in DOMAIN S : Upsert(S0, S)[x] = S[x]
  BY DEF Upsert
<1>2. /\ DOMAIN Upsert(B0, B) = DOMAIN B0 \cup DOMAIN B
      /\ \A x \in DOMAIN B : Upsert(B0, B)[x] = B[x]
      /\ \A x \in DOMAIN B0 \ DOMAIN B : Upsert(B0, B)[x] = B0[x]
  BY DEF Upsert
<1>3. FilesTrue(F0 \cup F)
  BY DEF ResultOK, FilesTrue
<1>4. BugsTrue(Upsert(B0, B))
  <2>1. BugsTrue(B0) /\ BugsTrue(B)
    BY DEF ResultOK
  <2>2. ASSUME NEW k \in DOMAIN Upsert(B0, B)
        PROVE  /\ k[2] \in Shas /\ k[1] \in 1 .. (k[2] - 1) /\ k = <<k[1], k[2]>>
               /\ Made(k[2]).kind = "fix" /\ Upsert(B0, B)[k] \in 1 .. CutBy(k[1], k[2])
    <3>1. CASE k \in DOMAIN B
      BY <1>2, <2>1, <3>1 DEF BugsTrue
    <3>2. CASE k \in DOMAIN B0 \ DOMAIN B
      BY <1>2, <2>1, <3>2 DEF BugsTrue
    <3> QED
      BY <1>2, <3>1, <3>2
  <2> QED
    BY <2>2 DEF BugsTrue
<1>5. ASSUME w PROVE BugsWhole(h, Upsert(B0, B))
  BY <1>2, <1>5 DEF ResultOK, BugsWhole
<1>6. ASSUME w PROVE SurvivalWhole(h, Upsert(S0, S))
  <2>1. SurvivalWhole(h, S)
    BY <1>6 DEF ResultOK
  <2>2. \A a : AuthorWhole(h, S, a) => AuthorWhole(h, Upsert(S0, S), a)
    BY <1>1 DEF AuthorWhole
  <2> QED
    BY <2>1, <2>2 DEF SurvivalWhole
<1> QED
  BY <1>1, <1>3, <1>4, <1>5, <1>6 DEF ResultOK

LEMMA AuthoredIs ==
  ASSUME NEW h, NEW files, files = collectCommitFiles(h)
  PROVE  /\ DOMAIN Authored(files) = {f.mail : f \in files}
         /\ \A a \in DOMAIN Authored(files) :
              Authored(files)[a] = Total([f \in files |-> f.adds], RowsOf(h, a))
<1>1. \A a : {f \in files : f.mail = a} = RowsOf(h, a)
  BY DEF RowsOf
<1> QED
  BY <1>1 DEF Authored, Total

Survivors(h, blamed, a) ==
  {l \in UNION {Range(Content(Head_(h), p)) : p \in blamed} : Made(Blame(l)).author = a}

FoundOf(h, blamed, authored, a) ==
  [surviving |-> Cardinality(Survivors(h, blamed, a)),
   authored |-> IF a \in DOMAIN authored THEN authored[a] ELSE 0]
LivingAt(h, blamed) == {a \in Committer : Cardinality(Survivors(h, blamed, a)) > 0}

LEMMA SurvivalIs ==
  ASSUME NEW h, NEW blamed, NEW authored
  PROVE  DOMAIN collectSurvival(h, blamed, authored) = LivingAt(h, blamed) \cup DOMAIN authored
BY DEF collectSurvival, Survivors, LivingAt

LEMMA FoundIs ==
  ASSUME NEW h, NEW blamed, NEW authored, NEW a \in DOMAIN collectSurvival(h, blamed, authored)
  PROVE  collectSurvival(h, blamed, authored)[a] = FoundOf(h, blamed, authored, a)
BY DEF collectSurvival, Survivors, FoundOf

LEMMA AllBlamed ==
  ASSUME NEW h, NEW a PROVE Survivors(h, DOMAIN Head_(h), a) = LinesOfOne(h, a)
<1>1. {Range(Content(Head_(h), p)) : p \in DOMAIN Head_(h)} =
      {Range(Head_(h)[p]) : p \in DOMAIN Head_(h)}
  BY DEF Content
<1> QED
  BY <1>1 DEF Survivors, LinesOfOne, LinesOfTree

LEMMA FilesAreTrue ==
  ASSUME CommitsOK, NEW h \in Seq(Shas)
  PROVE  /\ FilesTrue(collectCommitFiles(h))
         /\ \A f \in collectCommitFiles(h) : f.mail \in Committer
<1>1. FilesTrue(collectCommitFiles(h))
  BY FileRowsAre, LoggedAre DEF FilesTrue
<1>2. \A f \in collectCommitFiles(h) : f.mail \in Committer
  <2>1. ASSUME NEW f \in collectCommitFiles(h) PROVE f.mail \in Committer
    <3>1. PICK sha \in Shas : \E p \in Changed(sha) : f = RowOf(sha, p)
      BY <1>1 DEF FilesTrue
    <3>2. PICK p \in Changed(sha) : f = RowOf(sha, p)
      BY <3>1
    <3> QED
      BY <3>2, RowIs
  <2> QED
    BY <2>1
<1> QED
  BY <1>1, <1>2

\* With every file blamed and the log read, the survival of everybody is found.
LEMMA SurvivalFound ==
  ASSUME CommitsOK, NEW h, Chain(h), NEW found,
         found = collectSurvival(h, DOMAIN Head_(h), Authored(collectCommitFiles(h)))
  PROVE  SurvivalWhole(h, found)
<1> DEFINE files == collectCommitFiles(h)
           authored == Authored(files)
           added == [f \in files |-> f.adds]
<1>1. h \in Seq(Shas)
  BY DEF Chain
<1>2. found = collectSurvival(h, DOMAIN Head_(h), authored)
  OBVIOUS
<1>3. /\ DOMAIN authored = {f.mail : f \in files}
      /\ \A c \in DOMAIN authored : authored[c] = Total(added, RowsOf(h, c))
  BY AuthoredIs
<1> HIDE DEF authored, added, files
<1>4. DOMAIN found = LivingAt(h, DOMAIN Head_(h)) \cup DOMAIN authored
  BY <1>2, SurvivalIs
<1>5. ASSUME NEW a \in Committer,
             LinesAt(h, a) > 0 \/ \E sha \in Logged(h) : Made(sha).author = a /\ Changed(sha) # {}
      PROVE  AuthorWhole(h, found, a)
  <2>1. Cardinality(Survivors(h, DOMAIN Head_(h), a)) = LinesAt(h, a) /\ LinesAt(h, a) \in Nat
    BY AllBlamed, LinesFew
  <2>2. a \in DOMAIN found
    <3>1. CASE LinesAt(h, a) > 0
      BY <1>4, <2>1, <3>1 DEF LivingAt
    <3>2. CASE \E sha \in Logged(h) : Made(sha).author = a /\ Changed(sha) # {}
      <4>1. PICK sha \in Logged(h) : Made(sha).author = a /\ Changed(sha) # {}
        BY <3>2
      <4>2. PICK p \in Changed(sha) : TRUE
        BY <4>1
      <4>3. RowOf(sha, p) \in files /\ RowOf(sha, p).mail = a
        <5>1. RowOf(sha, p) \in collectCommitFiles(h)
          BY FileRowsAre
        <5>2. sha \in Shas
          BY <1>1, LoggedAre
        <5> QED
          BY <4>1, <5>1, <5>2, RowIs DEF files
      <4> QED
        BY <1>4, <1>3, <4>3
    <3> QED
      BY <1>5, <3>1, <3>2
  <2>3. /\ found[a].surviving = LinesAt(h, a)
        /\ found[a].authored = IF a \in DOMAIN authored THEN authored[a] ELSE 0
    <3>1. found[a] = FoundOf(h, DOMAIN Head_(h), authored, a)
      BY <1>2, <2>2, FoundIs
    <3> QED
      BY <2>1, <3>1 DEF FoundOf
  <2>4. ASSUME \A sha \in Range(h) : Made(sha).author = a => Made(sha).kind # "merge"
        PROVE  found[a].surviving <= found[a].authored
    <3>1. \A d \in RowsOf(h, a) : added[d] = d.adds
      BY DEF RowsOf, added, files
    <3>2. LinesAt(h, a) <= Total(added, RowsOf(h, a))
      BY <2>4, <3>1, SurvivorsWritten
    <3>3. CASE a \in DOMAIN authored
      BY <1>3, <2>3, <3>2, <3>3
    <3>4. CASE a \notin DOMAIN authored
      <4>1. RowsOf(h, a) = {}
        BY <1>3, <3>4 DEF RowsOf, files
      <4>2. LinesAt(h, a) <= 0
        BY <3>2, <4>1, TotalEmpty
      <4> QED
        BY <2>1, <2>3, <3>4, <4>2
    <3> QED
      BY <3>3, <3>4
  <2> QED
    BY <2>2, <2>3, <2>4 DEF AuthorWhole
<1> QED
  BY <1>5 DEF SurvivalWhole

LEMMA TracedAreNamed ==
  ASSUME NEW f, NEW files \in TracedFiles(f)
  PROVE  files \in SUBSET DOMAIN parseDeletedRanges(f)
BY DEF TracedFiles, kSubset

LEMMA SZZKeys ==
  ASSUME NEW choice, NEW k
  PROVE  k \in DOMAIN collectSZZ(choice) <=>
           \E sha \in DOMAIN choice : k \in DOMAIN traceFix(sha, choice[sha])
<1> DEFINE traced == [sha \in DOMAIN choice |-> traceFix(sha, choice[sha])]
           keys == UNION {DOMAIN traced[sha] : sha \in DOMAIN traced}
<1>1. DOMAIN collectSZZ(choice) = keys
  BY DEF collectSZZ
<1>2. k \in keys <=> \E sha \in DOMAIN choice : k \in DOMAIN traceFix(sha, choice[sha])
  OBVIOUS
<1> QED
  BY <1>1, <1>2

LEMMA SZZValue ==
  ASSUME NEW choice, NEW k \in DOMAIN collectSZZ(choice), k[2] \in DOMAIN choice
  PROVE  collectSZZ(choice)[k] = traceFix(k[2], choice[k[2]])[k]
BY DEF collectSZZ

\* What the traced fixes are attributed to is true, and all of it if all were traced.
LEMMA BugsFound ==
  ASSUME CommitsOK, NEW h \in Seq(Shas), NEW fixes \in SUBSET findFixCommits(h),
         NEW choice, DOMAIN choice = fixes, \A sha \in fixes : choice[sha] \in TracedFiles(sha)
  PROVE  /\ BugsTrue(collectSZZ(choice))
         /\ fixes = findFixCommits(h) => BugsWhole(h, collectSZZ(choice))
<1>1. ASSUME NEW f \in fixes
      PROVE  /\ f \in Shas /\ f \in Nat \ {0} /\ CommitOK(Made(f), f) /\ Made(f).kind = "fix"
             /\ choice[f] \in SUBSET DOMAIN parseDeletedRanges(f)
  <2>1. choice[f] \in SUBSET DOMAIN parseDeletedRanges(f)
    BY TracedAreNamed
  <2>2. f \in findFixCommits(h)
    OBVIOUS
  <2> QED
    BY <2>1, <2>2, FixesAre
<1>2. ASSUME NEW k \in DOMAIN collectSZZ(choice)
      PROVE  /\ k[2] \in Shas /\ k[1] \in 1 .. (k[2] - 1) /\ k = <<k[1], k[2]>>
             /\ Made(k[2]).kind = "fix" /\ collectSZZ(choice)[k] \in 1 .. CutBy(k[1], k[2])
  <2>1. PICK f \in fixes : k \in DOMAIN traceFix(f, choice[f])
    BY SZZKeys
  <2>2. /\ k[2] = f /\ k[1] \in 1 .. (f - 1) /\ k = <<k[1], f>>
        /\ traceFix(f, choice[f])[k] \in 1 .. CutBy(k[1], f)
    <3>1. f \in Nat \ {0} /\ CommitOK(Made(f), f) /\ choice[f] \in SUBSET DOMAIN parseDeletedRanges(f)
      BY <1>1
    <3> QED
      BY <2>1, <3>1, AttributionIs
  <2>3. collectSZZ(choice)[k] = traceFix(f, choice[f])[k]
    BY <2>2, SZZValue
  <2> QED
    BY <1>1, <2>2, <2>3
<1>3. BugsTrue(collectSZZ(choice))
  BY <1>2 DEF BugsTrue
<1>4. ASSUME fixes = findFixCommits(h), NEW f \in findFixCommits(h), NEW i \in Shas,
             Made(f).renamed = {}, Cardinality(Changed(f)) <= maxFilesPerFix, CutBy(i, f) > 0
      PROVE  <<i, f>> \in DOMAIN collectSZZ(choice) /\ collectSZZ(choice)[<<i, f>>] = CutBy(i, f)
  <2>1. f \in Nat \ {0} /\ CommitOK(Made(f), f) /\ choice[f] \in TracedFiles(f)
    BY <1>1, <1>4
  <2>2. /\ <<i, f>> \in DOMAIN traceFix(f, choice[f])
        /\ traceFix(f, choice[f])[<<i, f>>] = CutBy(i, f)
    BY <1>4, <2>1, WholeTraced
  <2>3. <<i, f>> \in DOMAIN collectSZZ(choice)
    BY <1>4, <2>2, SZZKeys
  <2>4. <<i, f>>[2] = f
    OBVIOUS
  <2>5. collectSZZ(choice)[<<i, f>>] = traceFix(f, choice[f])[<<i, f>>]
    BY <1>4, <2>3, <2>4, SZZValue
  <2> QED
    BY <2>2, <2>3, <2>5
<1>5. fixes = findFixCommits(h) => BugsWhole(h, collectSZZ(choice))
  BY <1>4 DEF BugsWhole
<1> QED
  BY <1>3, <1>5

\* Whatever fails, only fixes of the history are traced.
LEMMA AnswersAre ==
  ASSUME NEW answers \in Answers
  PROVE  answers.fixes \subseteq findFixCommits(history)
<1> DEFINE fixes == findFixCommits(history)
           all == [log |-> TRUE, blamed |-> DOMAIN Head_(history), fixes |-> fixes]
<1>1. \/ answers = all
      \/ answers = [all EXCEPT !.log = FALSE]
      \/ answers = [all EXCEPT !.blamed = {}]
      \/ \E p \in all.blamed : answers = [all EXCEPT !.blamed = @ \ {p}]
      \/ \E p \in all.blamed : answers = [all EXCEPT !.blamed = @ \ {p}, !.fixes = {}]
      \/ \E f \in fixes : answers = [all EXCEPT !.fixes = @ \ {f}]
  BY Zenon DEF Answers
<1>2. all.fixes = fixes /\ DOMAIN all = {"log", "blamed", "fixes"}
  OBVIOUS
<1> HIDE DEF all, fixes
<1>3. answers.fixes = fixes \/ answers.fixes = {} \/ \E f \in fixes : answers.fixes = fixes \ {f}
  <2>1. CASE answers = all
    BY <1>2, <2>1
  <2>2. CASE answers = [all EXCEPT !.log = FALSE]
    BY <1>2, <2>2
  <2>3. CASE answers = [all EXCEPT !.blamed = {}]
    BY <1>2, <2>3
  <2>4. CASE \E p \in all.blamed : answers = [all EXCEPT !.blamed = @ \ {p}]
    BY <1>2, <2>4
  <2>5. CASE \E p \in all.blamed : answers = [all EXCEPT !.blamed = @ \ {p}, !.fixes = {}]
    BY <1>2, <2>5
  <2>6. CASE \E f \in fixes : answers = [all EXCEPT !.fixes = @ \ {f}]
    BY <1>2, <2>6
  <2> QED
    BY <1>1, <2>1, <2>2, <2>3, <2>4, <2>5, <2>6
<1> QED
  BY <1>3 DEF fixes

-----------------------------------------------------------------------------
(* Every step *)

FoundOK(res) == ResultOK(res.history, res.whole, res.files, res.survival, res.bugs)

AnalysisInv ==
  /\ CommitsOK /\ Chain(history) /\ DOMAIN analysing \subseteq Deep
  /\ \A d \in DOMAIN analysing : FoundOK(analysing[d])
  /\ ResultOK(last_stored.history, last_stored.whole, commit_files, author_survival,
              bug_introductions)

LEMMA TreeLater ==
  ASSUME NEW a \in Nat, NEW b \in Nat, a <= b, NEW tree, TreeOK(tree, a)
  PROVE  TreeOK(tree, b)
<1>1. Line(a) \subseteq Line(b)
  BY DEF Line
<1>2. \A p \in DOMAIN tree : tree[p] \in Seq(Line(b))
  BY <1>1 DEF TreeOK
<1> QED
  BY <1>2 DEF TreeOK

LEMMA HeadOK ==
  ASSUME CommitsOK, NEW h, Chain(h)
  PROVE  TreeOK(Head_(h), Len(commits_made)) /\ Born(Head_(h))
<1>1. h \in Seq(Shas)
  BY DEF Chain
<1>2. CASE h = <<>>
  <2>1. Head_(h) = NoTree /\ DOMAIN Head_(h) = {} /\ LinesOfTree(Head_(h)) = {}
    BY <1>2 DEF Head_, NoTree, LinesOfTree
  <2> QED
    BY <2>1, FS_EmptySet DEF TreeOK, Born
<1>3. CASE h # <<>>
  <2>1. Last(h) \in Shas /\ Head_(h) = Made(Last(h)).tree
    BY <1>1, <1>3, LastIs DEF Head_
  <2>2. TreeOK(Head_(h), Last(h)) /\ Born(Head_(h))
    BY <2>1 DEF CommitsOK, CommitOK
  <2>3. Last(h) \in Nat /\ Len(commits_made) \in Nat /\ Last(h) <= Len(commits_made)
    BY <2>1, ShasAre
  <2> QED
    BY <2>2, <2>3, TreeLater
<1> QED
  BY <1>2, <1>3

LEMMA LineIsNewOrOld ==
  ASSUME NEW before, NEW s \in Nat, TreeOK(before, s), NEW edits, EditsOK(edits),
         NEW tree, tree = Tree(before, s + 1, edits), NEW l \in LinesOfTree(tree)
  PROVE  Blame(l) = s + 1 \/ l \in LinesOfTree(before)
<1>1. PICK p \in DOMAIN tree : l \in Range(tree[p])
  BY DEF LinesOfTree
<1>2. CASE p \in DOMAIN before /\ l \in Range(before[p])
  BY <1>2 DEF LinesOfTree
<1>3. ASSUME NEW e \in edits, NEW k \in Nat, l = <<s + 1, e.from, k>> PROVE Blame(l) = s + 1
  BY <1>3 DEF Blame
<1>4. ASSUME NEW e \in edits, e.from \in DOMAIN before /\ l \in Range(before[e.from])
      PROVE  l \in LinesOfTree(before)
  BY <1>4 DEF LinesOfTree
<1> QED
  BY <1>1, <1>2, <1>3, <1>4, LineWas

LEMMA ChainFront ==
  ASSUME NEW h, Chain(h), Len(h) > 1
  PROVE  Chain(Front(h))
<1>1. h \in Seq(Shas)
  BY DEF Chain
<1>2. /\ Front(h) \in Seq(Shas) /\ Len(Front(h)) = Len(h) - 1
      /\ \A n \in 1 .. Len(h) - 1 : Front(h)[n] = h[n]
  BY <1>1 DEF Front
<1>3. ASSUME NEW n \in DOMAIN Front(h), NEW l \in LinesOfTree(Made(Front(h)[n]).tree)
      PROVE  \E m \in 1 .. n : Front(h)[m] = Blame(l)
  <2>1. n \in 1 .. Len(h) - 1 /\ n \in DOMAIN h /\ Front(h)[n] = h[n]
    BY <1>1, <1>2
  <2>2. PICK m \in 1 .. n : h[m] = Blame(l)
    BY <1>3, <2>1 DEF Chain
  <2> QED
    BY <1>1, <1>2, <2>1, <2>2
<1> QED
  BY <1>2, <1>3 DEF Chain

\* A commit on a head that is in order is in order.
LEMMA CommitIsOK ==
  ASSUME NEW s \in Nat, NEW c, TreeOK(c.before, s), NEW edits, EditsOK(edits),
         RenamesOK(c.before, edits), c.tree = Tree(c.before, s + 1, edits),
         c.renamed = {e.to : e \in {e \in edits : e.to # e.from}}
  PROVE  CommitOK(c, s + 1)
<1>1. TreeOK(c.tree, s + 1)
  BY TreeGrows
<1>2. c.renamed \cap DOMAIN c.before = {}
  BY DEF RenamesOK
<1>3. ASSUME NEW p \in DOMAIN c.before, NEW q \in DOMAIN c.tree, NEW l \in Range(c.before[p]),
             l \in Range(c.tree[q])
      PROVE  q = p \/ (p \notin DOMAIN c.tree /\ q \in c.renamed)
  <2>1. q = p \/ (p \notin DOMAIN c.tree /\ \E e \in edits : e.to = q /\ e.to # e.from)
    BY <1>3, LinesMove
  <2> QED
    BY <2>1
<1>4. (s + 1) - 1 = s
  OBVIOUS
<1> QED
  BY <1>1, <1>2, <1>3, <1>4 DEF CommitOK

\* A history with one more commit.
LEMMA HistoryGrows ==
  ASSUME CommitsOK, Chain(history), NEW c, NEW sha, sha = Len(commits_made) + 1, sha <= MaxSha,
         c.author \in Committer, c.kind \in {"plain", "fix", "merge"}, c.before = Head_(history),
         CommitOK(c, sha), \A l \in LinesOfTree(c.tree) : Blame(l) = sha \/ l \in LinesOfTree(c.before),
         commits_made' = Append(commits_made, c), history' = Append(history, sha)
  PROVE  MoreCommits /\ CommitsOK' /\ Chain(history)'
<1>1. history \in Seq(Shas) /\ Born(c.before)
  BY HeadOK DEF Chain
<1>2. PICK N \in Nat : N = Len(commits_made) /\ Shas = 1 .. N /\ sha = N + 1
  BY ShasAre
<1>3. /\ Shas' = 1 .. sha /\ Len(commits_made)' = sha /\ commits_made'[sha] = c
      /\ \A s \in Shas : commits_made'[s] = commits_made[s]
      /\ commits_made' \in Seq(Range(commits_made'))
  <2>1. commits_made \in Seq(Range(commits_made))
    BY DEF CommitsOK
  <2>2. PICK S : commits_made \in Seq(S) /\ c \in S
    <3>1. commits_made \in Seq(Range(commits_made) \cup {c})
      BY <2>1
    <3> QED
      BY <3>1
  <2>3. /\ commits_made' \in Seq(S) /\ Len(commits_made') = sha /\ commits_made'[sha] = c
        /\ \A s \in 1 .. N : commits_made'[s] = commits_made[s]
    BY <1>2, <2>2
  <2>4. commits_made' \in Seq(Range(commits_made'))
    BY <2>3 DEF Range
  <2>5. DOMAIN commits_made' = 1 .. sha
    BY <2>3
  <2> QED
    BY <1>2, <2>3, <2>4, <2>5 DEF Shas
<1>4. Made(sha)' = c /\ \A s \in Shas : Made(s)' = Made(s)
  BY <1>3 DEF Made
<1>5. MoreCommits /\ sha \in Shas' /\ \A s \in Shas' : s \in Shas \/ s = sha
  BY <1>2, <1>3, <1>4 DEF MoreCommits
<1>6. ASSUME NEW l \in LinesOfTree(c.before)
      PROVE  Blame(l) \in Shas' /\ l \in LinesOfTree(Made(Blame(l))'.tree)
  <2>1. Blame(l) \in Shas /\ l \in LinesOfTree(Made(Blame(l)).tree)
    BY <1>1 DEF Born
  <2> QED
    BY <1>5, <2>1, SameCommit
<1>7. Born(Made(sha).tree)'
  <2>1. ASSUME NEW l \in LinesOfTree(c.tree)
        PROVE  Blame(l) \in Shas' /\ l \in LinesOfTree(Made(Blame(l))'.tree)
    <3>1. CASE l \in LinesOfTree(c.before)
      BY <1>6, <3>1
    <3>2. CASE Blame(l) = sha
      BY <1>4, <1>5, <3>2
    <3> QED
      BY <3>1, <3>2
  <2> QED
    BY <1>4, <2>1 DEF Born, LinesOfTree, Blame
<1>8. ASSUME NEW s \in Shas PROVE Born(Made(s).tree)'
  <2>1. Born(Made(s).tree) /\ Made(s)' = Made(s)
    BY <1>4 DEF CommitsOK
  <2>2. ASSUME NEW l \in LinesOfTree(Made(s).tree)
        PROVE  Blame(l) \in Shas' /\ l \in LinesOfTree(Made(Blame(l))'.tree)
    <3>1. Blame(l) \in Shas /\ l \in LinesOfTree(Made(Blame(l)).tree)
      BY <2>1, <2>2 DEF Born
    <3> QED
      BY <1>5, <3>1, SameCommit
  <2> QED
    BY <2>1, <2>2 DEF Born, LinesOfTree, Blame
<1>9. CommitsOK'
  <2>1. ASSUME NEW s \in Shas'
        PROVE  /\ Made(s)'.author \in Committer /\ Made(s)'.kind \in {"plain", "fix", "merge"}
               /\ CommitOK(Made(s)', s) /\ Born(Made(s).tree)'
    <3>1. CASE s \in Shas
      <4>1. /\ Made(s).author \in Committer /\ Made(s).kind \in {"plain", "fix", "merge"}
            /\ CommitOK(Made(s), s) /\ Made(s)' = Made(s)
        BY <1>4, <3>1 DEF CommitsOK
      <4> QED
        BY <1>8, <3>1, <4>1
    <3>2. CASE s = sha
      BY <1>4, <1>7, <3>2
    <3> QED
      BY <1>5, <2>1, <3>1, <3>2
  <2> QED
    BY <1>3, <2>1 DEF CommitsOK, CommitOK, TreeOK, Line
<1>10. Chain(history)'
  <2>1. PICK n \in Nat : n = Len(history)
    BY <1>1
  <2>2. history \in Seq(Shas')
    BY <1>1, <1>5, SameHistory
  <2>3. /\ history' \in Seq(Shas') /\ DOMAIN history' = 1 .. (n + 1) /\ history'[n + 1] = sha
        /\ \A m \in 1 .. n : history'[m] = history[m] /\ history[m] \in Shas
    BY <1>1, <1>5, <2>1, <2>2
  <2>4. ASSUME NEW k \in 1 .. n, NEW l \in LinesOfTree(commits_made[history[k]].tree)
        PROVE  \E m \in 1 .. k : history'[m] = Blame(l)
    <3>1. PICK m \in 1 .. k : history[m] = Blame(l)
      BY <1>1, <2>1, <2>4 DEF Chain, Made
    <3> QED
      BY <2>3, <3>1
  <2>5. ASSUME NEW l \in LinesOfTree(c.before)
        PROVE  \E m \in 1 .. (n + 1) : history'[m] = Blame(l)
    <3>1. Blame(l) \in Range(history)
      BY HeadLines
    <3>2. PICK m \in DOMAIN history : history[m] = Blame(l)
      BY <3>1 DEF Range
    <3> QED
      BY <1>1, <2>1, <2>3, <3>2
  <2>6. ASSUME NEW k \in 1 .. (n + 1), NEW l \in LinesOfTree(commits_made'[history'[k]].tree)
        PROVE  \E m \in 1 .. k : history'[m] = Blame(l)
    <3>1. CASE k \in 1 .. n
      <4>1. commits_made'[history'[k]] = commits_made[history[k]]
        BY <1>3, <2>3, <3>1
      <4> QED
        BY <2>4, <2>6, <3>1, <4>1
    <3>2. CASE k = n + 1
      <4>1. l \in LinesOfTree(c.tree)
        BY <1>3, <2>3, <2>6, <3>2
      <4>2. CASE Blame(l) = sha
        BY <2>3, <3>2, <4>2
      <4>3. CASE l \in LinesOfTree(c.before)
        BY <2>5, <3>2, <4>3
      <4> QED
        BY <4>1, <4>2, <4>3
    <3>3. k \in 1 .. n \/ k = n + 1
      OBVIOUS
    <3> QED
      BY <3>1, <3>2, <3>3
  <2> QED
    BY <2>3, <2>6, ZenonT(60) DEF Chain, LinesOfTree, Blame, Made
<1> QED
  BY <1>5, <1>9, <1>10

LEMMA CommitKeeps ==
  ASSUME AnalysisInv, NEW author \in Committer, NEW shape \in Shape, MakeCommit(author, shape)
  PROVE  AnalysisInv'
<1>1. CommitsOK /\ Chain(history)
  BY DEF AnalysisInv
<1>2. PICK N : N = Len(commits_made)
  OBVIOUS
<1>3. PICK before : before = Head_(history)
  OBVIOUS
<1>4. PICK tree : tree = Tree(before, N + 1, shape.edits)
  OBVIOUS
<1>5. PICK root : root = (history = <<>>)
  OBVIOUS
<1> DEFINE c == [author |-> author, kind |-> shape.kind, root |-> root,
                 before |-> before, tree |-> tree,
                 renamed |-> {e.to : e \in {e \in shape.edits : e.to # e.from}}]
<1>6. /\ N + 1 <= (IF Overlapping THEN OverlapSha ELSE MaxSha)
      /\ commits_made' = Append(commits_made, c) /\ history' = Append(history, N + 1)
      /\ UNCHANGED <<analysing, commit_files, author_survival, bug_introductions, last_stored>>
      /\ RenamesOK(before, shape.edits)
  BY <1>2, <1>3, <1>4, <1>5 DEF MakeCommit, RenamesOK
<1>7. N \in Nat
  BY <1>1, <1>2, ShasAre
<1>8. N + 1 <= MaxSha
  <2>1. OverlapSha \in Nat /\ MaxSha \in Nat /\ OverlapSha <= MaxSha
    BY AnalysisAssumption
  <2> QED
    BY <1>6, <1>7, <2>1
<1>9. EditsOK(shape.edits) /\ shape.kind \in {"plain", "fix", "merge"}
  BY AnalysisAssumption DEF EditsOK
<1>10. TreeOK(before, N)
  BY <1>1, <1>2, <1>3, HeadOK
<1>11. /\ c.author = author /\ c.kind = shape.kind /\ c.before = before /\ c.tree = tree
       /\ c.renamed = {e.to : e \in {e \in shape.edits : e.to # e.from}}
  OBVIOUS
<1> HIDE DEF c
<1>12. CommitOK(c, N + 1)
  BY <1>4, <1>6, <1>7, <1>9, <1>10, <1>11, CommitIsOK
<1>13. \A l \in LinesOfTree(c.tree) : Blame(l) = N + 1 \/ l \in LinesOfTree(c.before)
  BY <1>4, <1>7, <1>9, <1>10, <1>11, LineIsNewOrOld
<1>14. MoreCommits /\ CommitsOK' /\ Chain(history)'
  BY <1>1, <1>2, <1>3, <1>6, <1>8, <1>9, <1>11, <1>12, <1>13, HistoryGrows
<1>15. \A d \in DOMAIN analysing : FoundOK(analysing[d])'
  <2>1. ASSUME NEW d \in DOMAIN analysing PROVE FoundOK(analysing[d])'
    <3>1. PICK res : res = analysing[d]
      OBVIOUS
    <3>2. FoundOK(res)
      BY <2>1, <3>1 DEF AnalysisInv
    <3>3. FoundOK(res)'
      BY <1>1, <1>14, <3>2, SameResult DEF FoundOK
    <3>4. analysing'[d] = res
      BY <1>6, <3>1
    <3> QED
      BY <3>3, <3>4
  <2> QED
    BY <2>1
<1>16. ResultOK(last_stored.history, last_stored.whole, commit_files, author_survival,
                bug_introductions)'
  <2>1. PICK st, F, S, B : st = last_stored /\ F = commit_files /\ S = author_survival
                           /\ B = bug_introductions
    OBVIOUS
  <2>2. ResultOK(st.history, st.whole, F, S, B)
    BY <2>1 DEF AnalysisInv
  <2>3. ResultOK(st.history, st.whole, F, S, B)'
    BY <1>1, <1>14, <2>2, SameResult
  <2>4. last_stored' = st /\ commit_files' = F /\ author_survival' = S /\ bug_introductions' = B
    BY <1>6, <2>1
  <2> QED
    BY <2>3, <2>4
<1> QED
  BY <1>6, <1>14, <1>15, <1>16 DEF AnalysisInv

\* A step that leaves the commits alone, and what is stored, is about results and HEAD.
LEMMA RestStays ==
  ASSUME AnalysisInv, UNCHANGED commits_made, Chain(history'),
         \A x \in DOMAIN analysing' : x \in Deep /\ FoundOK(analysing'[x]),
         ResultOK(last_stored'.history, last_stored'.whole, commit_files', author_survival',
                  bug_introductions')
  PROVE  AnalysisInv'
<1>1. Shas' = Shas /\ \A s : Made(s)' = Made(s)
  BY DEF Shas, Made
<1>2. MoreCommits
  BY <1>1 DEF MoreCommits
<1>3. CommitsOK /\ CommitsOK'
  <2>1. CommitsOK
    BY DEF AnalysisInv
  <2>2. commits_made' \in Seq(Range(commits_made')) /\ Len(commits_made') <= MaxSha
    BY <2>1 DEF CommitsOK
  <2>3. ASSUME NEW s \in Shas
        PROVE  /\ Made(s)'.author \in Committer /\ Made(s)'.kind \in {"plain", "fix", "merge"}
               /\ CommitOK(Made(s)', s) /\ Born(Made(s).tree)'
    <3>1. /\ Made(s).author \in Committer /\ Made(s).kind \in {"plain", "fix", "merge"}
          /\ CommitOK(Made(s), s) /\ Born(Made(s).tree)
      BY <2>1 DEF CommitsOK
    <3>2. Made(s)' = Made(s)
      BY <1>1
    <3>3. Born(Made(s).tree)'
      BY <1>1, <3>1 DEF Born, LinesOfTree, Blame
    <3> QED
      BY <3>1, <3>2, <3>3
  <2> QED
    BY <1>1, <2>1, <2>2, <2>3 DEF CommitsOK, CommitOK, TreeOK, Line
<1>4. Chain(history)'
  <2>1. PICK h : h = history'
    OBVIOUS
  <2>2. Chain(h)'
    BY <1>2, <2>1, SameHistory DEF Chain
  <2> QED
    BY <2>1, <2>2
<1>5. \A x \in DOMAIN analysing' : x \in Deep /\ FoundOK(analysing[x])'
  <2>1. ASSUME NEW x \in DOMAIN analysing' PROVE x \in Deep /\ FoundOK(analysing[x])'
    <3>1. PICK res : res = analysing'[x]
      OBVIOUS
    <3>2. FoundOK(res)
      BY <3>1
    <3>3. FoundOK(res)'
      BY <1>2, <1>3, <3>2, SameResult DEF FoundOK
    <3> QED
      BY <3>1, <3>3
  <2> QED
    BY <2>1
<1>6. ResultOK(last_stored.history, last_stored.whole, commit_files, author_survival,
               bug_introductions)'
  <2>1. PICK st, F, S, B : st = last_stored' /\ F = commit_files' /\ S = author_survival'
                           /\ B = bug_introductions'
    OBVIOUS
  <2>2. ResultOK(st.history, st.whole, F, S, B)
    BY <2>1
  <2>3. ResultOK(st.history, st.whole, F, S, B)'
    BY <1>2, <1>3, <2>2, SameResult
  <2> QED
    BY <2>1, <2>3
<1> QED
  BY <1>3, <1>4, <1>5, <1>6 DEF AnalysisInv

LEMMA AnalyzeKeeps ==
  ASSUME AnalysisInv, NEW d \in Deep, NEW answers \in Answers, Analyze(d, answers)
  PROVE  AnalysisInv'
<1>1. CommitsOK /\ Chain(history) /\ history \in Seq(Shas)
  BY DEF AnalysisInv, Chain
<1> DEFINE files == IF answers.log THEN collectCommitFiles(history) ELSE {}
           Result(choice) ==
             [files |-> files,
              survival |-> collectSurvival(history, answers.blamed, Authored(files)),
              bugs |-> collectSZZ(choice), history |-> history,
              whole |-> /\ answers.log /\ answers.blamed = DOMAIN Head_(history)
                        /\ answers.fixes = findFixCommits(history)]
<1>2. PICK choice \in [answers.fixes -> SUBSET Path] :
        /\ \A sha \in answers.fixes : choice[sha] \in TracedFiles(sha)
        /\ analysing' = [x \in DOMAIN analysing \cup {d} |->
                           IF x # d THEN analysing[x] ELSE Result(choice)]
  BY DEF Analyze
<1>3. UNCHANGED <<commits_made, history, commit_files, author_survival, bug_introductions,
                  last_stored>>
  BY DEF Analyze
<1>4. answers.fixes \in SUBSET findFixCommits(history) /\ DOMAIN choice = answers.fixes
  BY AnswersAre
<1> DEFINE res == Result(choice)
<1>5. /\ res.history = history /\ res.files = files /\ res.bugs = collectSZZ(choice)
      /\ res.survival = collectSurvival(history, answers.blamed, Authored(files))
      /\ res.whole = (/\ answers.log /\ answers.blamed = DOMAIN Head_(history)
                      /\ answers.fixes = findFixCommits(history))
  OBVIOUS
<1>6. FilesTrue(files) /\ \A f \in files : f.mail \in Committer
  BY <1>1, FilesAreTrue DEF FilesTrue
<1>7. BugsTrue(collectSZZ(choice))
      /\ (answers.fixes = findFixCommits(history) => BugsWhole(history, collectSZZ(choice)))
  BY <1>1, <1>2, <1>4, BugsFound
<1>8. DOMAIN collectSurvival(history, answers.blamed, Authored(files)) \subseteq Committer
  <2>1. DOMAIN Authored(files) = {f.mail : f \in files}
    BY DEF Authored
  <2> HIDE DEF files
  <2>2. DOMAIN Authored(files) \subseteq Committer
    BY <1>6, <2>1
  <2>3. DOMAIN collectSurvival(history, answers.blamed, Authored(files)) =
          LivingAt(history, answers.blamed) \cup DOMAIN Authored(files)
    BY SurvivalIs
  <2>4. LivingAt(history, answers.blamed) \subseteq Committer
    BY DEF LivingAt
  <2> QED
    BY <2>2, <2>3, <2>4
<1>9. ASSUME res.whole PROVE SurvivalWhole(history, res.survival)
  <2>1. answers.log /\ answers.blamed = DOMAIN Head_(history)
    BY <1>5, <1>9
  <2>2. res.survival =
          collectSurvival(history, DOMAIN Head_(history), Authored(collectCommitFiles(history)))
    BY <2>1
  <2> HIDE DEF res
  <2> QED
    BY <1>1, <2>2, SurvivalFound
<1> HIDE DEF files, Result, res
<1>10. FoundOK(res)
  <2>1. BugsTrue(res.bugs) /\ (res.whole => BugsWhole(history, res.bugs))
    BY <1>5, <1>7
  <2>2. FilesTrue(res.files) /\ DOMAIN res.survival \subseteq Committer /\ Chain(res.history)
    BY <1>1, <1>5, <1>6, <1>8
  <2> QED
    BY <1>5, <1>9, <2>1, <2>2 DEF FoundOK, ResultOK
<1>11. \A x \in DOMAIN analysing' : x \in Deep /\ FoundOK(analysing'[x])
  <2>1. ASSUME NEW x \in DOMAIN analysing' PROVE x \in Deep /\ FoundOK(analysing'[x])
    <3>1. CASE x = d
      <4>1. analysing'[x] = res
        BY <1>2, <3>1 DEF res
      <4> QED
        BY <1>10, <3>1, <4>1
    <3>2. CASE x # d
      <4>1. x \in DOMAIN analysing /\ analysing'[x] = analysing[x]
        BY <1>2, <3>2
      <4> QED
        BY <4>1 DEF AnalysisInv
    <3> QED
      BY <3>1, <3>2
  <2> QED
    BY <2>1
<1>12. Chain(history')
  BY <1>1, <1>3
<1>13. ResultOK(last_stored'.history, last_stored'.whole, commit_files', author_survival',
                bug_introductions')
  BY <1>3 DEF AnalysisInv
<1> QED
  BY <1>3, <1>11, <1>12, <1>13, RestStays

LEMMA LessIsFound ==
  ASSUME AnalysisInv, NEW d \in DOMAIN analysing,
         analysing' = Restrict(analysing, DOMAIN analysing \ {d})
  PROVE  \A x \in DOMAIN analysing' : x \in Deep /\ FoundOK(analysing'[x])
<1>1. DOMAIN analysing' = DOMAIN analysing \ {d} /\ \A x \in DOMAIN analysing' : analysing'[x] = analysing[x]
  BY DEF Restrict
<1> QED
  BY <1>1 DEF AnalysisInv

LEMMA StoreKeeps ==
  ASSUME AnalysisInv, NEW d \in Deep, StoreResult(d)
  PROVE  AnalysisInv'
<1>1. PICK res : res = analysing[d]
  OBVIOUS
<1>2. /\ d \in DOMAIN analysing
      /\ commit_files' = commit_files \cup res.files
      /\ author_survival' = Upsert(author_survival, res.survival)
      /\ bug_introductions' = Upsert(bug_introductions, res.bugs)
      /\ last_stored' = [history |-> res.history, whole |-> res.whole]
      /\ analysing' = Restrict(analysing, DOMAIN analysing \ {d})
      /\ UNCHANGED commits_made /\ UNCHANGED history
  BY <1>1 DEF StoreResult
<1>3. ResultOK(res.history, res.whole, res.files, res.survival, res.bugs)
  BY <1>1, <1>2 DEF AnalysisInv, FoundOK
<1>4. ResultOK(last_stored.history, last_stored.whole, commit_files, author_survival,
               bug_introductions)
  BY DEF AnalysisInv
<1>5. ResultOK(res.history, res.whole, commit_files \cup res.files,
               Upsert(author_survival, res.survival), Upsert(bug_introductions, res.bugs))
  BY <1>3, <1>4, StoredResult
<1>6. last_stored'.history = res.history /\ last_stored'.whole = res.whole
  BY <1>2
<1>7. ResultOK(last_stored'.history, last_stored'.whole, commit_files', author_survival',
               bug_introductions')
  BY <1>2, <1>5, <1>6
<1>8. \A x \in DOMAIN analysing' : x \in Deep /\ FoundOK(analysing'[x])
  BY <1>2, LessIsFound
<1>9. Chain(history')
  BY <1>2 DEF AnalysisInv
<1> QED
  BY <1>2, <1>7, <1>8, <1>9, RestStays

LEMMA GiveUpKeeps ==
  ASSUME AnalysisInv, NEW d \in Deep, GiveUp(d)
  PROVE  AnalysisInv'
<1>1. /\ d \in DOMAIN analysing /\ analysing' = Restrict(analysing, DOMAIN analysing \ {d})
      /\ UNCHANGED <<commits_made, history, commit_files, author_survival, bug_introductions,
                     last_stored>>
  BY DEF GiveUp
<1>2. \A x \in DOMAIN analysing' : x \in Deep /\ FoundOK(analysing'[x])
  BY <1>1, LessIsFound
<1>3. /\ Chain(history')
      /\ ResultOK(last_stored'.history, last_stored'.whole, commit_files', author_survival',
                  bug_introductions')
  BY <1>1 DEF AnalysisInv
<1> QED
  BY <1>1, <1>2, <1>3, RestStays

LEMMA PushKeeps ==
  ASSUME AnalysisInv, ForcePush
  PROVE  AnalysisInv'
<1>1. /\ Len(history) > 1 /\ history' = Front(history)
      /\ UNCHANGED <<commits_made, analysing, commit_files, author_survival,
                     bug_introductions, last_stored>>
  BY DEF ForcePush
<1>2. Chain(history')
  BY <1>1, ChainFront DEF AnalysisInv
<1>3. /\ \A x \in DOMAIN analysing' : x \in Deep /\ FoundOK(analysing'[x])
      /\ ResultOK(last_stored'.history, last_stored'.whole, commit_files', author_survival',
                  bug_introductions')
  BY <1>1 DEF AnalysisInv
<1> QED
  BY <1>1, <1>2, <1>3, RestStays

LEMMA AnalysisStarts == AnalysisInit => AnalysisInv
<1> SUFFICES ASSUME AnalysisInit PROVE AnalysisInv
  OBVIOUS
<1>1. /\ commits_made = <<>> /\ history = <<>> /\ DOMAIN analysing = {}
      /\ commit_files = {} /\ DOMAIN author_survival = {} /\ DOMAIN bug_introductions = {}
      /\ last_stored = [history |-> <<>>, whole |-> FALSE]
  BY DEF AnalysisInit
<1>2. last_stored.history = <<>> /\ ~last_stored.whole
  BY <1>1
<1>3. CommitsOK
  <2>1. MaxSha \in Nat
    BY AnalysisAssumption
  <2> QED
    BY <1>1, <2>1 DEF CommitsOK, Shas, Range
<1>4. Chain(<<>>)
  BY DEF Chain
<1> QED
  BY <1>1, <1>2, <1>3, <1>4 DEF AnalysisInv, ResultOK, FilesTrue, BugsTrue

LEMMA AnalysisSteps == AnalysisInv /\ [AnalysisNext]_analysisVars => AnalysisInv'
<1> SUFFICES ASSUME AnalysisInv, [AnalysisNext]_analysisVars PROVE AnalysisInv'
  OBVIOUS
<1>1. ASSUME NEW author \in Committer, NEW shape \in Shape, MakeCommit(author, shape)
      PROVE  AnalysisInv'
  BY <1>1, CommitKeeps
<1>2. CASE ForcePush
  BY <1>2, PushKeeps
<1>3. ASSUME NEW d \in Deep, NEW answers \in Answers, Analyze(d, answers) PROVE AnalysisInv'
  BY <1>3, AnalyzeKeeps
<1>4. ASSUME NEW d \in Deep, StoreResult(d) PROVE AnalysisInv'
  BY <1>4, StoreKeeps
<1>5. ASSUME NEW d \in Deep, GiveUp(d) PROVE AnalysisInv'
  BY <1>5, GiveUpKeeps
<1>6. CASE UNCHANGED analysisVars
  <2>1. /\ UNCHANGED commits_made /\ UNCHANGED history /\ UNCHANGED analysing
        /\ UNCHANGED commit_files /\ UNCHANGED author_survival
        /\ UNCHANGED bug_introductions /\ UNCHANGED last_stored
    BY <1>6 DEF analysisVars
  <2> QED
    BY <2>1, RestStays DEF AnalysisInv
<1> QED
  BY <1>1, <1>2, <1>3, <1>4, <1>5, <1>6 DEF AnalysisNext

LEMMA AnalysisHolds == AnalysisSpec => []AnalysisInv
BY AnalysisStarts, AnalysisSteps, PTL DEF AnalysisSpec

LEMMA StoredIsTrue == AnalysisInv => AttributionsTrue
<1> SUFFICES ASSUME AnalysisInv PROVE AttributionsTrue
  OBVIOUS
<1>1. CommitsOK /\ FilesTrue(commit_files) /\ BugsTrue(bug_introductions)
  BY DEF AnalysisInv, ResultOK
<1>2. ASSUME NEW k \in DOMAIN bug_introductions
      PROVE  /\ Made(k[2]).kind = "fix" /\ k[1] < k[2]
             /\ bug_introductions[k] \in 1 .. CutBy(k[1], k[2])
  <2>1. k[2] \in Shas /\ k[1] \in 1 .. (k[2] - 1)
    BY <1>1 DEF BugsTrue
  <2>2. k[2] \in Nat
    BY <1>1, <2>1, ShasAre
  <2> QED
    BY <1>1, <2>1, <2>2 DEF BugsTrue
<1>3. ASSUME NEW f \in commit_files
      PROVE  f = RowOf(f.sha, f.path) /\ f.sha \in Shas /\ f.path \in Path /\ f.adds \in Nat
  <2>1. PICK sha \in Shas : \E p \in Changed(sha) : f = RowOf(sha, p)
    BY <1>1 DEF FilesTrue
  <2>2. PICK p \in Changed(sha) : f = RowOf(sha, p)
    BY <2>1
  <2> QED
    BY <1>1, <2>2, RowIs
<1> QED
  BY <1>2, <1>3 DEF AttributionsTrue

LEMMA StoredIsWhole == AnalysisInv => WholeIsComplete
BY DEF AnalysisInv, ResultOK, WholeIsComplete, BugsWhole, SurvivalWhole, AuthorWhole

\* What is stored of a repository's history, from analyses that overlapped, were cut short or
\* met a history that had been rewritten, is true of it; and after one that git answered in
\* full it is all of it: each fix that is small enough and renamed nothing is traced to every
\* line it cut, and everybody's lines at HEAD are counted, no more than were written
\* (internal/gitanalysis/gitanalysis.go, internal/store/gitanalysis.go).
THEOREM HistoryIsTrue == AnalysisSpec => []GitAnalysisSound
<1>1. AnalysisInv => GitAnalysisSound
  BY StoredIsTrue, StoredIsWhole DEF GitAnalysisSound
<1> QED
  BY <1>1, AnalysisHolds, PTL

LEMMA AnalysisTyped == AnalysisInv => AnalysisTypeOK
<1> SUFFICES ASSUME AnalysisInv PROVE AnalysisTypeOK
  OBVIOUS
<1>1. /\ CommitsOK /\ Chain(history) /\ FilesTrue(commit_files) /\ BugsTrue(bug_introductions)
      /\ DOMAIN analysing \subseteq Deep /\ DOMAIN author_survival \subseteq Committer
  BY DEF AnalysisInv, ResultOK
<1>2. Shas = 1 .. Len(commits_made) /\ Len(commits_made) \in Nat
  BY <1>1, ShasAre
<1>3. ASSUME NEW f \in commit_files PROVE f.sha \in Shas /\ f.path \in Path /\ f.adds \in Nat
  <2>1. PICK sha \in Shas : \E p \in Changed(sha) : f = RowOf(sha, p)
    BY <1>1 DEF FilesTrue
  <2>2. PICK p \in Changed(sha) : f = RowOf(sha, p)
    BY <2>1
  <2> QED
    BY <1>1, <2>2, RowIs
<1>4. ASSUME NEW k \in DOMAIN bug_introductions PROVE k \in Shas \X Shas
  <2>1. k[2] \in Shas /\ k[1] \in 1 .. (k[2] - 1) /\ k = <<k[1], k[2]>>
    BY <1>1 DEF BugsTrue
  <2>2. k[1] \in Shas
    BY <1>2, <2>1
  <2> QED
    BY <2>1, <2>2
<1>5. Range(history) \subseteq Shas
  BY <1>1 DEF Chain, Range
<1> QED
  BY <1>1, <1>2, <1>3, <1>4, <1>5 DEF AnalysisTypeOK, CommitsOK

\* The variables keep their types: rows and attributions name commits that were made.
THEOREM AnalysisTypeCorrect == AnalysisSpec => []AnalysisTypeOK
BY AnalysisTyped, AnalysisHolds, PTL
=============================================================================
