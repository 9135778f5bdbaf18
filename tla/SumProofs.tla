------------------------------ MODULE SumProofs ------------------------------
(***************************************************************************)
(* Finite sums: what SumFunctionOnSet is over every finite set, by         *)
(* induction.  Induction is over a set of numbers, or of subsets, rather   *)
(* than over a predicate: the set of those for which the claim holds.      *)
(***************************************************************************)
EXTENDS Integers, FiniteSets, Functions, FiniteSetTheorems, WellFoundedInduction, TLAPS

\* A set with zero and every successor has every natural number: what it
\* lacks would have a least element.
LEMMA SetInduction ==
    ASSUME NEW T, 0 \in T, \A n \in Nat : n \in T => n + 1 \in T
    PROVE  Nat \subseteq T
<1> DEFINE L == Nat \ T
           R == OpToRel(<, Nat)
<1>1. \A m, n \in Nat : m < n => <<m, n>> \in R
  BY DEF OpToRel
<1>2. IsWellFoundedOn(R, Nat)  BY NatLessThanWellFounded
<1> HIDE DEF R
<1>3. ASSUME L # {}  PROVE FALSE
  <2>1. PICK n \in L : \A m \in L : ~(<<m, n>> \in R)
    <3>1. L \subseteq Nat  OBVIOUS
    <3> HIDE DEF L
    <3> QED  BY <1>2, <1>3, <3>1, WFMin
  <2>2. n # 0  OBVIOUS
  <2>3. n - 1 \in Nat /\ n - 1 < n  BY <2>1, <2>2
  <2>4. n - 1 \in L  BY <2>1, <2>3
  <2> QED  BY <1>1, <2>1, <2>3, <2>4
<1> QED  BY <1>3

\* The subsets of a finite set and their sizes.
LEMMA SubsetSizes ==
    ASSUME NEW S, IsFiniteSet(S)
    PROVE  \A s \in SUBSET S :
               /\ IsFiniteSet(s)
               /\ Cardinality(s) \in Nat
               /\ Cardinality(s) = 0 <=> s = {}
               /\ \A x \in s : Cardinality(s \ {x}) = Cardinality(s) - 1
<1> SUFFICES ASSUME NEW s \in SUBSET S
             PROVE  /\ IsFiniteSet(s)
                    /\ Cardinality(s) \in Nat
                    /\ Cardinality(s) = 0 <=> s = {}
                    /\ \A x \in s : Cardinality(s \ {x}) = Cardinality(s) - 1
  OBVIOUS
<1>1. IsFiniteSet(s)  BY FS_Subset
<1>2. Cardinality(s) \in Nat /\ (Cardinality(s) = 0 <=> s = {})
  BY <1>1, FS_CardinalityType, FS_EmptySet
<1>3. \A x \in s : Cardinality(s \ {x}) = Cardinality(s) - 1
  BY <1>1, FS_RemoveElement
<1> QED  BY <1>1, <1>2, <1>3

\* A set with the empty set, and every set made from one of its own by adding
\* an element of S, has every subset of a finite S.
LEMMA SubsetInduction ==
    ASSUME NEW S, IsFiniteSet(S), NEW P, {} \in P,
           \A s \in SUBSET S : \A x \in S \ s : s \in P => s \cup {x} \in P
    PROVE  SUBSET S \subseteq P
<1> DEFINE T == {n \in Nat : \A s \in SUBSET S : Cardinality(s) = n => s \in P}
<1>1. \A s \in SUBSET S :
        /\ IsFiniteSet(s)
        /\ Cardinality(s) \in Nat
        /\ Cardinality(s) = 0 <=> s = {}
        /\ \A x \in s : Cardinality(s \ {x}) = Cardinality(s) - 1
  BY SubsetSizes
<1>2. 0 \in T  BY <1>1
<1>3. ASSUME NEW n \in Nat, n \in T  PROVE n + 1 \in T
  <2> SUFFICES ASSUME NEW s \in SUBSET S, Cardinality(s) = n + 1  PROVE s \in P
    OBVIOUS
  <2>1. s # {}  BY <1>1
  <2>2. PICK x \in s : TRUE  BY <2>1
  <2>3. Cardinality(s \ {x}) = n  BY <1>1
  <2>4. s \ {x} \in P  BY <1>3, <2>3
  <2>5. s = (s \ {x}) \cup {x}  OBVIOUS
  <2> QED  BY <2>4, <2>5
<1> HIDE DEF T
<1>4. Nat \subseteq T  BY <1>2, <1>3, SetInduction
<1> QED  BY <1>1, <1>4 DEF T

-----------------------------------------------------------------------------
(* The recursive function inside SumFunctionOnSet.                         *)

Chosen(s) == CHOOSE x \in s : TRUE

SumStep(f, g, s) == IF s = {} THEN 0 ELSE f[Chosen(s)] + g[s \ {Chosen(s)}]

\* g is the table of the sums of f over the members of D.
SumTable(f, D, g) == g = [s \in D |-> SumStep(f, g, s)]

LEMMA SumDef ==
    ASSUME NEW f, NEW S
    PROVE  SumFunctionOnSet(f, S) = (CHOOSE g : SumTable(f, SUBSET S, g))[S]
  BY Zenon DEF SumFunctionOnSet, FoldFunctionOnSet, MapThenFoldSet, SumTable, SumStep, Chosen

LEMMA ChosenIn == ASSUME NEW s, s # {}  PROVE Chosen(s) \in s
  BY DEF Chosen

\* A table exists, and is made one cardinality after the other.
LEMMA TableExists ==
    ASSUME NEW f, NEW S, IsFiniteSet(S)
    PROVE  \E g : SumTable(f, SUBSET S, g)
<1> DEFINE D(n) == {s \in SUBSET S : Cardinality(s) <= n}
           T == {n \in Nat : \E g : SumTable(f, D(n), g)}
<1>1. \A s \in SUBSET S :
        /\ IsFiniteSet(s)
        /\ Cardinality(s) \in Nat
        /\ Cardinality(s) = 0 <=> s = {}
        /\ \A x \in s : Cardinality(s \ {x}) = Cardinality(s) - 1
  BY SubsetSizes
<1>2. \A s \in SUBSET S : s # {} =>
        /\ Chosen(s) \in s /\ s \ {Chosen(s)} \in SUBSET S
        /\ Cardinality(s \ {Chosen(s)}) = Cardinality(s) - 1
  BY <1>1, ChosenIn
<1>3. 0 \in T
  <2> DEFINE g == [s \in D(0) |-> 0]
  <2>1. \A s \in D(0) : s = {}  BY <1>1, FS_EmptySet
  <2>2. \A s \in D(0) : SumStep(f, g, s) = 0  BY <2>1 DEF SumStep
  <2>3. SumTable(f, D(0), g)  BY <2>2 DEF SumTable
  <2> QED  BY <2>3
<1>4. ASSUME NEW n \in Nat, n \in T  PROVE n + 1 \in T
  <2>1. PICK g : SumTable(f, D(n), g)  BY <1>4
  <2> DEFINE h == [s \in D(n + 1) |-> SumStep(f, g, s)]
  <2>2. \A s \in D(n) : s \in D(n + 1) /\ g[s] = SumStep(f, g, s)
    BY <1>1, <2>1 DEF SumTable
  <2>3. \A s \in D(n) : h[s] = g[s]  BY <2>2
  <2>4. \A s \in D(n + 1) : s # {} => s \ {Chosen(s)} \in D(n)  BY <1>1, <1>2
  <2> HIDE DEF D
  <2>5. \A s \in D(n + 1) : SumStep(f, h, s) = SumStep(f, g, s)
    <3> HIDE DEF h
    <3> SUFFICES ASSUME NEW s \in D(n + 1), s # {}  PROVE SumStep(f, h, s) = SumStep(f, g, s)
      BY DEF SumStep
    <3>1. h[s \ {Chosen(s)}] = g[s \ {Chosen(s)}]  BY <2>3, <2>4
    <3> QED  BY <3>1 DEF SumStep
  <2>6. SumTable(f, D(n + 1), h)
    <3>1. h = [s \in D(n + 1) |-> SumStep(f, h, s)]  BY <2>5
    <3> HIDE DEF h
    <3> QED  BY <3>1 DEF SumTable
  <2> QED  BY <2>6
<1> HIDE DEF T
<1>5. Cardinality(S) \in T  BY <1>1, <1>3, <1>4, SetInduction
<1>6. \A s \in SUBSET S : Cardinality(s) <= Cardinality(S)  BY FS_Subset
<1>7. D(Cardinality(S)) = SUBSET S  BY <1>6
<1> QED  BY <1>5, <1>7 DEF T

\* Two tables agree where both have an entry.
LEMMA TableUnique ==
    ASSUME NEW f, NEW S, IsFiniteSet(S), NEW Q \in SUBSET S
    PROVE  \A g, h : SumTable(f, SUBSET S, g) /\ SumTable(f, SUBSET Q, h) =>
                        \A s \in SUBSET Q : g[s] = h[s]
<1> SUFFICES ASSUME NEW g, SumTable(f, SUBSET S, g), NEW h, SumTable(f, SUBSET Q, h)
             PROVE  \A s \in SUBSET Q : g[s] = h[s]
  OBVIOUS
<1> DEFINE T == {n \in Nat : \A s \in SUBSET Q : Cardinality(s) = n => g[s] = h[s]}
<1>1. \A s \in SUBSET Q :
        /\ IsFiniteSet(s)
        /\ Cardinality(s) \in Nat
        /\ Cardinality(s) = 0 <=> s = {}
        /\ \A x \in s : Cardinality(s \ {x}) = Cardinality(s) - 1
  BY FS_Subset, SubsetSizes
<1>2. \A s \in SUBSET Q : g[s] = SumStep(f, g, s) /\ h[s] = SumStep(f, h, s)
  BY DEF SumTable
<1>3. 0 \in T  BY <1>1, <1>2, FS_EmptySet DEF SumStep
<1>4. ASSUME NEW n \in Nat, n \in T  PROVE n + 1 \in T
  <2> SUFFICES ASSUME NEW s \in SUBSET Q, Cardinality(s) = n + 1  PROVE g[s] = h[s]
    OBVIOUS
  <2>1. s # {}  BY <1>1
  <2>2. Chosen(s) \in s  BY <2>1, ChosenIn
  <2>3. Cardinality(s \ {Chosen(s)}) = n  BY <1>1, <2>2
  <2>4. g[s \ {Chosen(s)}] = h[s \ {Chosen(s)}]  BY <1>4, <2>3
  <2> QED  BY <1>2, <2>4 DEF SumStep
<1> HIDE DEF T
<1>5. Nat \subseteq T  BY <1>3, <1>4, SetInduction
<1> QED  BY <1>1, <1>5 DEF T

-----------------------------------------------------------------------------
(* Sums.                                                                   *)

LEMMA SumEmpty == ASSUME NEW f  PROVE SumFunctionOnSet(f, {}) = 0
<1>1. \E g : SumTable(f, SUBSET {}, g)  BY TableExists, FS_EmptySet
<1> DEFINE g == CHOOSE g : SumTable(f, SUBSET {}, g)
<1>2. SumTable(f, SUBSET {}, g)  BY <1>1
<1>3. SumFunctionOnSet(f, {}) = g[{}]  BY SumDef
<1> HIDE DEF g
<1> QED  BY <1>2, <1>3 DEF SumTable, SumStep

LEMMA SumChosen ==
    ASSUME NEW f, NEW S, IsFiniteSet(S), S # {}
    PROVE  SumFunctionOnSet(f, S) = f[Chosen(S)] + SumFunctionOnSet(f, S \ {Chosen(S)})
<1> DEFINE Q == S \ {Chosen(S)}
           g == CHOOSE g : SumTable(f, SUBSET S, g)
           h == CHOOSE h : SumTable(f, SUBSET Q, h)
<1>1. IsFiniteSet(Q) /\ Q \in SUBSET S  BY FS_RemoveElement, ChosenIn
<1>2. SumTable(f, SUBSET S, g) /\ SumTable(f, SUBSET Q, h)
  <2> HIDE DEF Q
  <2>1. \E x : SumTable(f, SUBSET S, x)  BY TableExists
  <2>2. \E x : SumTable(f, SUBSET Q, x)  BY <1>1, TableExists
  <2> QED  BY <2>1, <2>2
<1>3. SumFunctionOnSet(f, S) = g[S] /\ SumFunctionOnSet(f, Q) = h[Q]
  <2> HIDE DEF Q
  <2> QED  BY SumDef
<1> HIDE DEF g, h
<1>4. g[Q] = h[Q]
  <2> HIDE DEF Q
  <2>1. \A s \in SUBSET Q : g[s] = h[s]  BY <1>1, <1>2, TableUnique
  <2> QED  BY <2>1
<1>5. g[S] = SumStep(f, g, S)  BY <1>2 DEF SumTable
<1> QED  BY <1>3, <1>4, <1>5 DEF SumStep

\* A sum of integers is an integer.
LEMMA SumInt ==
    ASSUME NEW f, NEW S, IsFiniteSet(S), \A x \in S : f[x] \in Int
    PROVE  SumFunctionOnSet(f, S) \in Int
<1> DEFINE T == {n \in Nat : \A s \in SUBSET S : Cardinality(s) = n =>
                                 SumFunctionOnSet(f, s) \in Int}
<1>1. \A s \in SUBSET S :
        /\ IsFiniteSet(s)
        /\ Cardinality(s) \in Nat
        /\ Cardinality(s) = 0 <=> s = {}
        /\ \A x \in s : Cardinality(s \ {x}) = Cardinality(s) - 1
  BY SubsetSizes
<1>2. 0 \in T  BY <1>1, FS_EmptySet, SumEmpty
<1>3. ASSUME NEW n \in Nat, n \in T  PROVE n + 1 \in T
  <2> SUFFICES ASSUME NEW s \in SUBSET S, Cardinality(s) = n + 1
               PROVE  SumFunctionOnSet(f, s) \in Int
    OBVIOUS
  <2>1. s # {}  BY <1>1
  <2>2. Chosen(s) \in s  BY <2>1, ChosenIn
  <2>3. Cardinality(s \ {Chosen(s)}) = n  BY <1>1, <2>2
  <2>4. SumFunctionOnSet(f, s \ {Chosen(s)}) \in Int  BY <1>3, <2>3
  <2>5. f[Chosen(s)] \in Int  BY <2>2
  <2>6. SumFunctionOnSet(f, s) = f[Chosen(s)] + SumFunctionOnSet(f, s \ {Chosen(s)})
    BY <1>1, <2>1, SumChosen
  <2> QED  BY <2>4, <2>5, <2>6
<1> HIDE DEF T
<1>4. Nat \subseteq T  BY <1>2, <1>3, SetInduction
<1> QED  BY <1>1, <1>4 DEF T

\* Any element can be taken out first.
LEMMA SumRemove ==
    ASSUME NEW f, NEW S, IsFiniteSet(S), \A x \in S : f[x] \in Int, NEW x \in S
    PROVE  SumFunctionOnSet(f, S) = f[x] + SumFunctionOnSet(f, S \ {x})
<1> DEFINE Sum(s) == SumFunctionOnSet(f, s)
           T == {n \in Nat : \A s \in SUBSET S : Cardinality(s) = n =>
                                 \A y \in s : Sum(s) = f[y] + Sum(s \ {y})}
<1>1. \A s \in SUBSET S :
        /\ IsFiniteSet(s)
        /\ Cardinality(s) \in Nat
        /\ Cardinality(s) = 0 <=> s = {}
        /\ \A y \in s : Cardinality(s \ {y}) = Cardinality(s) - 1
  BY SubsetSizes
<1>2. \A s \in SUBSET S : Sum(s) \in Int  BY <1>1, SumInt
<1>3. \A s \in SUBSET S : s # {} =>
          Chosen(s) \in s /\ Sum(s) = f[Chosen(s)] + Sum(s \ {Chosen(s)})
  BY <1>1, ChosenIn, SumChosen
<1> HIDE DEF Sum
<1>4. 0 \in T  BY <1>1
<1>5. ASSUME NEW n \in Nat, n \in T  PROVE n + 1 \in T
  <2> SUFFICES ASSUME NEW s \in SUBSET S, Cardinality(s) = n + 1, NEW y \in s
               PROVE  Sum(s) = f[y] + Sum(s \ {y})
    OBVIOUS
  <2> DEFINE z == Chosen(s)
  <2>1. z \in s /\ Sum(s) = f[z] + Sum(s \ {z})  BY <1>3
  <2> HIDE DEF z
  <2>2. CASE y = z  BY <2>1, <2>2
  <2>3. CASE y # z
    <3> DEFINE u == s \ {z}
               v == s \ {y}
               w == s \ {y, z}
    <3>1. Cardinality(u) = n /\ Cardinality(v) = n  BY <1>1, <2>1
    <3>2. y \in u /\ z \in v /\ u \in SUBSET S /\ v \in SUBSET S  BY <2>1, <2>3
    <3>3. u \ {y} = w /\ v \ {z} = w  OBVIOUS
    <3> HIDE DEF u, v, w
    <3>4. Sum(u) = f[y] + Sum(w) /\ Sum(v) = f[z] + Sum(w)  BY <1>5, <3>1, <3>2, <3>3
    <3>5. f[y] \in Int /\ f[z] \in Int /\ Sum(w) \in Int  BY <1>2, <2>1 DEF w
    <3>6. Sum(s) = f[z] + Sum(u)  BY <2>1 DEF u
    <3> QED  BY <3>4, <3>5, <3>6 DEF v
  <2> QED  BY <2>2, <2>3
<1> HIDE DEF T
<1>6. Nat \subseteq T  BY <1>4, <1>5, SetInduction
<1> QED  BY <1>1, <1>6 DEF T, Sum

\* An element more adds its value.
LEMMA SumAdd ==
    ASSUME NEW f, NEW S, IsFiniteSet(S), NEW x, x \notin S,
           \A y \in S \cup {x} : f[y] \in Int
    PROVE  SumFunctionOnSet(f, S \cup {x}) = f[x] + SumFunctionOnSet(f, S)
<1> DEFINE Q == S \cup {x}
<1>1. IsFiniteSet(Q)  BY FS_AddElement
<1>2. x \in Q /\ Q \ {x} = S  OBVIOUS
<1> HIDE DEF Q
<1> QED  BY <1>1, <1>2, SumRemove DEF Q

\* Values that are not less have a sum that is not less.
LEMMA SumMonotonic ==
    ASSUME NEW f, NEW g, NEW S, IsFiniteSet(S),
           \A x \in S : f[x] \in Int /\ g[x] \in Int /\ f[x] <= g[x]
    PROVE  SumFunctionOnSet(f, S) <= SumFunctionOnSet(g, S)
<1> DEFINE F(s) == SumFunctionOnSet(f, s)
           G(s) == SumFunctionOnSet(g, s)
           P == {s \in SUBSET S : F(s) <= G(s)}
<1>1. \A s \in SUBSET S : IsFiniteSet(s)  BY SubsetSizes
<1>2. \A s \in SUBSET S : F(s) \in Int /\ G(s) \in Int  BY <1>1, SumInt
<1>3. F({}) = 0 /\ G({}) = 0  BY SumEmpty
<1>4. \A s \in SUBSET S : \A x \in S \ s :
        F(s \cup {x}) = f[x] + F(s) /\ G(s \cup {x}) = g[x] + G(s)
  BY <1>1, SumAdd
<1> HIDE DEF F, G
<1>5. {} \in P  BY <1>3
<1>6. \A s \in SUBSET S : \A x \in S \ s : s \in P => s \cup {x} \in P
  BY <1>2, <1>4
<1> HIDE DEF P
<1>7. S \in P  BY <1>5, <1>6, SubsetInduction
<1> QED  BY <1>7 DEF P, F, G

\* Equal values have an equal sum.
LEMMA SumSame ==
    ASSUME NEW f, NEW g, NEW S, IsFiniteSet(S), \A x \in S : f[x] \in Int /\ g[x] = f[x]
    PROVE  SumFunctionOnSet(g, S) = SumFunctionOnSet(f, S)
<1>1. SumFunctionOnSet(f, S) <= SumFunctionOnSet(g, S)  BY SumMonotonic
<1>2. SumFunctionOnSet(g, S) <= SumFunctionOnSet(f, S)  BY SumMonotonic
<1>3. SumFunctionOnSet(f, S) \in Int /\ SumFunctionOnSet(g, S) \in Int  BY SumInt
<1> QED  BY <1>1, <1>2, <1>3

\* A value that changes changes the sum by as much.
LEMMA SumChange ==
    ASSUME NEW f, NEW g, NEW S, IsFiniteSet(S), NEW x \in S,
           \A y \in S : f[y] \in Int /\ g[y] \in Int,
           \A y \in S \ {x} : g[y] = f[y]
    PROVE  SumFunctionOnSet(g, S) = SumFunctionOnSet(f, S) + (g[x] - f[x])
<1>0. IsFiniteSet(S \ {x})  BY FS_RemoveElement
<1>1. SumFunctionOnSet(g, S \ {x}) = SumFunctionOnSet(f, S \ {x})  BY <1>0, SumSame
<1>2. SumFunctionOnSet(f, S \ {x}) \in Int  BY <1>0, SumInt
<1>3. /\ SumFunctionOnSet(f, S) = f[x] + SumFunctionOnSet(f, S \ {x})
      /\ SumFunctionOnSet(g, S) = g[x] + SumFunctionOnSet(g, S \ {x})
  BY SumRemove
<1> QED  BY <1>1, <1>2, <1>3

\* A sum of numbers that are not negative is not less than any one of them.
LEMMA SumCovers ==
    ASSUME NEW f, NEW S, IsFiniteSet(S), \A y \in S : f[y] \in Nat
    PROVE  /\ SumFunctionOnSet(f, S) \in Nat
           /\ \A x \in S : f[x] <= SumFunctionOnSet(f, S)
<1> DEFINE z == [y \in S |-> 0]
           P == {s \in SUBSET S : SumFunctionOnSet(f, s) \in Nat}
<1>1. \A s \in SUBSET S : IsFiniteSet(s)  BY SubsetSizes
<1>2. {} \in P  BY SumEmpty
<1>3. \A s \in SUBSET S : \A x \in S \ s : s \in P => s \cup {x} \in P
  BY <1>1, SumAdd
<1>4. \A s \in SUBSET S : s \in P
  <2> HIDE DEF P
  <2> QED  BY <1>2, <1>3, SubsetInduction
<1>5. ASSUME NEW x \in S  PROVE f[x] <= SumFunctionOnSet(f, S)
  <2>1. SumFunctionOnSet(f, S) = f[x] + SumFunctionOnSet(f, S \ {x})  BY SumRemove
  <2>2. SumFunctionOnSet(f, S \ {x}) \in Nat  BY <1>4
  <2> QED  BY <2>1, <2>2
<1> QED  BY <1>4, <1>5

\* A sum of zeros.
LEMMA SumZero ==
    ASSUME NEW f, NEW S, IsFiniteSet(S), \A x \in S : f[x] = 0
    PROVE  SumFunctionOnSet(f, S) = 0
<1> DEFINE P == {s \in SUBSET S : SumFunctionOnSet(f, s) = 0}
<1>1. \A s \in SUBSET S : IsFiniteSet(s)  BY SubsetSizes
<1>2. {} \in P  BY SumEmpty
<1>3. \A s \in SUBSET S : \A x \in S \ s : s \in P => s \cup {x} \in P
  BY <1>1, SumAdd
<1> HIDE DEF P
<1>4. S \in P  BY <1>2, <1>3, SubsetInduction
<1> QED  BY <1>4 DEF P

LEMMA SumSingle ==
    ASSUME NEW f, NEW x, f[x] \in Int
    PROVE  SumFunctionOnSet(f, {x}) = f[x]
<1>1. IsFiniteSet({}) /\ {} \cup {x} = {x}  BY FS_EmptySet
<1>2. SumFunctionOnSet(f, {} \cup {x}) = f[x] + SumFunctionOnSet(f, {})  BY <1>1, SumAdd
<1> QED  BY <1>1, <1>2, SumEmpty

\* The sum over two sets without a common element is that of the two sums.
LEMMA SumDisjoint ==
    ASSUME NEW f, NEW A, NEW B, IsFiniteSet(A), IsFiniteSet(B), A \cap B = {},
           \A x \in A \cup B : f[x] \in Int
    PROVE  SumFunctionOnSet(f, A \cup B) = SumFunctionOnSet(f, A) + SumFunctionOnSet(f, B)
<1> DEFINE F(s) == SumFunctionOnSet(f, s)
           P == {s \in SUBSET B : F(A \cup s) = F(A) + F(s)}
<1>1. \A s \in SUBSET B : IsFiniteSet(s) /\ IsFiniteSet(A \cup s)  BY SubsetSizes, FS_Union
<1>2. \A s \in SUBSET B : F(s) \in Int /\ F(A \cup s) \in Int /\ F(A) \in Int
  BY <1>1, SumInt
<1>3. {} \in P
  <2>1. A \cup {} = A /\ {} \in SUBSET B  OBVIOUS
  <2> QED  BY <1>2, <2>1, SumEmpty
<1>4. \A s \in SUBSET B : \A x \in B \ s : s \in P => s \cup {x} \in P
  <2> SUFFICES ASSUME NEW s \in SUBSET B, NEW x \in B \ s, s \in P  PROVE s \cup {x} \in P
    OBVIOUS
  <2>1. F(s \cup {x}) = f[x] + F(s)  BY <1>1, SumAdd
  <2>2. /\ IsFiniteSet(A \cup s) /\ x \notin A \cup s
        /\ \A y \in (A \cup s) \cup {x} : f[y] \in Int
    BY <1>1
  <2>3. F((A \cup s) \cup {x}) = f[x] + F(A \cup s)  BY <2>2, SumAdd
  <2>4. (A \cup s) \cup {x} = A \cup (s \cup {x})  OBVIOUS
  <2>5. f[x] \in Int /\ F(A \cup s) = F(A) + F(s)  OBVIOUS
  <2>6. F(A \cup (s \cup {x})) = F(A) + F(s \cup {x})
    <3> HIDE DEF F
    <3> QED  BY <1>2, <2>1, <2>3, <2>4, <2>5
  <2> QED  BY <2>6
<1> HIDE DEF P
<1>5. SUBSET B \subseteq P  BY <1>3, <1>4, SubsetInduction
<1>6. B \in P  BY <1>5
<1> QED  BY <1>6 DEF P

\* Every element of S has a class in E, and g is the sum of each class.
SumsByClass(f, S, E, c, g) ==
    /\ IsFiniteSet(S) /\ \A x \in S : f[x] \in Int
    /\ IsFiniteSet(E) /\ \A x \in S : c[x] \in E
    /\ \A e \in E : g[e] = SumFunctionOnSet(f, {x \in S : c[x] = e})

\* What is counted class by class adds up to the whole.
LEMMA SumPartition ==
    ASSUME NEW f, NEW S, NEW E, NEW c, NEW g, SumsByClass(f, S, E, c, g)
    PROVE  SumFunctionOnSet(g, E) = SumFunctionOnSet(f, S)
<1> USE DEF SumsByClass
<1> DEFINE Of(G) == {x \in S : c[x] \in G}
           P == {G \in SUBSET E : SumFunctionOnSet(g, G) = SumFunctionOnSet(f, Of(G))}
<1>1. \A s \in SUBSET S : IsFiniteSet(s) /\ SumFunctionOnSet(f, s) \in Int
  BY SubsetSizes, SumInt
<1>2. \A e \in E : g[e] \in Int
  BY <1>1
<1>3. \A G \in SUBSET E : IsFiniteSet(G)  BY SubsetSizes
<1>4. {} \in P
  <2>1. Of({}) = {}  OBVIOUS
  <2> QED  BY <2>1, SumEmpty
<1>5. \A G \in SUBSET E : \A e \in E \ G : G \in P => G \cup {e} \in P
  <2> SUFFICES ASSUME NEW G \in SUBSET E, NEW e \in E \ G, G \in P  PROVE G \cup {e} \in P
    OBVIOUS
  <2> DEFINE A == Of(G)
             B == {x \in S : c[x] = e}
  <2>1. SumFunctionOnSet(g, G \cup {e}) = g[e] + SumFunctionOnSet(g, G)  BY <1>2, <1>3, SumAdd
  <2>2. Of(G \cup {e}) = A \cup B /\ A \cap B = {}  OBVIOUS
  <2>3. IsFiniteSet(A) /\ IsFiniteSet(B) /\ \A x \in A \cup B : f[x] \in Int  BY <1>1
  <2>4. SumFunctionOnSet(g, G) = SumFunctionOnSet(f, A) /\ g[e] = SumFunctionOnSet(f, B)  OBVIOUS
  <2>5. SumFunctionOnSet(f, A) \in Int /\ SumFunctionOnSet(f, B) \in Int  BY <1>1
  <2>6. SumFunctionOnSet(f, A \cup B) = SumFunctionOnSet(f, A) + SumFunctionOnSet(f, B)
    <3> HIDE DEF A, B
    <3> QED  BY <2>2, <2>3, SumDisjoint
  <2>7. SumFunctionOnSet(g, G \cup {e}) = SumFunctionOnSet(f, A \cup B)
    <3> HIDE DEF A, B
    <3> QED  BY <2>1, <2>4, <2>5, <2>6
  <2> QED  BY <2>2, <2>7
<1> HIDE DEF P
<1>6. E \in P  BY <1>4, <1>5, SubsetInduction
<1>7. Of(E) = S  OBVIOUS
<1> QED  BY <1>6, <1>7 DEF P

\* Elements are counted by adding ones.
LEMMA SumOnes ==
    ASSUME NEW f, NEW S, IsFiniteSet(S), \A x \in S : f[x] = 1
    PROVE  SumFunctionOnSet(f, S) = Cardinality(S)
<1> DEFINE P == {s \in SUBSET S : SumFunctionOnSet(f, s) = Cardinality(s)}
<1>1. \A s \in SUBSET S : IsFiniteSet(s) /\ Cardinality(s) \in Nat  BY SubsetSizes
<1>2. {} \in P  BY SumEmpty, FS_EmptySet
<1>3. \A s \in SUBSET S : \A x \in S \ s : s \in P => s \cup {x} \in P
  <2> SUFFICES ASSUME NEW s \in SUBSET S, NEW x \in S \ s, s \in P  PROVE s \cup {x} \in P
    OBVIOUS
  <2>1. SumFunctionOnSet(f, s \cup {x}) = f[x] + SumFunctionOnSet(f, s)  BY <1>1, SumAdd
  <2>2. Cardinality(s \cup {x}) = Cardinality(s) + 1  BY <1>1, FS_AddElement
  <2> QED  BY <1>1, <2>1, <2>2
<1> HIDE DEF P
<1>4. S \in P  BY <1>2, <1>3, SubsetInduction
<1> QED  BY <1>4 DEF P

\* A difference is added up by its two sides.
LEMMA SumMinus ==
    ASSUME NEW f, NEW g, NEW h, NEW S, IsFiniteSet(S),
           \A x \in S : f[x] \in Int /\ g[x] \in Int /\ h[x] = f[x] - g[x]
    PROVE  SumFunctionOnSet(h, S) = SumFunctionOnSet(f, S) - SumFunctionOnSet(g, S)
<1> DEFINE F(s) == SumFunctionOnSet(f, s)
           G(s) == SumFunctionOnSet(g, s)
           H(s) == SumFunctionOnSet(h, s)
           P == {s \in SUBSET S : H(s) = F(s) - G(s)}
<1>1. \A s \in SUBSET S : IsFiniteSet(s)  BY SubsetSizes
<1>2. \A s \in SUBSET S : F(s) \in Int /\ G(s) \in Int  BY <1>1, SumInt
<1>3. {} \in P  BY SumEmpty
<1>4. \A s \in SUBSET S : \A x \in S \ s : s \in P => s \cup {x} \in P
  <2> SUFFICES ASSUME NEW s \in SUBSET S, NEW x \in S \ s, s \in P  PROVE s \cup {x} \in P
    OBVIOUS
  <2>1. F(s \cup {x}) = f[x] + F(s) /\ G(s \cup {x}) = g[x] + G(s)  BY <1>1, SumAdd
  <2>2. \A y \in s \cup {x} : h[y] \in Int  OBVIOUS
  <2>3. H(s \cup {x}) = h[x] + H(s)  BY <1>1, <2>2, SumAdd
  <2>4. f[x] \in Int /\ g[x] \in Int /\ h[x] = f[x] - g[x] /\ H(s) = F(s) - G(s)  OBVIOUS
  <2>5. H(s \cup {x}) = F(s \cup {x}) - G(s \cup {x})
    <3> HIDE DEF F, G, H
    <3> QED  BY <1>2, <2>1, <2>3, <2>4
  <2> QED  BY <2>5
<1> HIDE DEF P
<1>5. S \in P  BY <1>3, <1>4, SubsetInduction
<1> QED  BY <1>5 DEF P
=============================================================================
