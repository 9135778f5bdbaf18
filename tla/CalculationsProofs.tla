-------------------------- MODULE CalculationsProofs -------------------------
(***************************************************************************)
(* Theorems about the calculations: what is paid adds up, for all          *)
(* salaries, contract dates, allowances, tax rules and brackets, and what  *)
(* the policy engine, the closing of a period and the reports read adds    *)
(* up, for all the documents that can be stored.  A question never         *)
(* changes, so the whole proof of an answer is about the operators: the    *)
(* loops are followed by induction over the numbers up to a length, the    *)
(* sums by the lemmas of SumProofs.                                        *)
(***************************************************************************)
EXTENDS Calculations, SumProofs, SequenceTheorems, TLAPS

-----------------------------------------------------------------------------
(* Finite orders.                                                           *)

\* A finite set that has an element has one whose number is the least.
LEMMA LeastExists ==
    ASSUME NEW S, IsFiniteSet(S), S # {}, NEW key, \A x \in S : key[x] \in Int
    PROVE  \E x \in S : \A y \in S : key[x] <= key[y]
<1> DEFINE P == {s \in SUBSET S : s = {} \/ \E x \in s : \A y \in s : key[x] <= key[y]}
<1>1. {} \in P  OBVIOUS
<1>2. \A s \in SUBSET S : \A x \in S \ s : s \in P => s \cup {x} \in P
  <2> SUFFICES ASSUME NEW s \in SUBSET S, NEW x \in S \ s, s \in P
               PROVE  \E z \in s \cup {x} : \A y \in s \cup {x} : key[z] <= key[y]
    OBVIOUS
  <2>1. CASE s = {}  BY <2>1
  <2>2. CASE s # {}
    <3>1. PICK z \in s : \A y \in s : key[z] <= key[y]  BY <2>2
    <3>2. CASE key[z] <= key[x]  BY <3>1, <3>2
    <3>3. CASE key[x] <= key[z]
      <4>1. \A y \in s \cup {x} : key[x] <= key[y]  BY <3>1, <3>3
      <4> QED  BY <4>1
    <3> QED  BY <3>2, <3>3
  <2> QED  BY <2>1, <2>2
<1> HIDE DEF P
<1>3. SUBSET S \subseteq P  BY <1>1, <1>2, SubsetInduction
<1> QED  BY <1>3 DEF P

\* When every part of a finite set has a first element, the set can be
\* listed in order.
LEMMA Listed ==
    ASSUME NEW S, IsFiniteSet(S), NEW R,
           \A s \in SUBSET S : s # {} => \E x \in s : \A y \in s \ {x} : <<x, y>> \in R
    PROVE  \E o \in [1 .. Cardinality(S) -> S] :
              \A i, j \in 1 .. Cardinality(S) : i < j => o[i] # o[j] /\ <<o[i], o[j]>> \in R
<1> DEFINE Lists(s, o) ==
              /\ o \in [1 .. Cardinality(s) -> s]
              /\ \A i, j \in 1 .. Cardinality(s) : i < j => o[i] # o[j] /\ <<o[i], o[j]>> \in R
           T == {n \in Nat : \A s \in SUBSET S : Cardinality(s) = n => \E o : Lists(s, o)}
<1>1. \A s \in SUBSET S :
        /\ IsFiniteSet(s)
        /\ Cardinality(s) \in Nat
        /\ Cardinality(s) = 0 <=> s = {}
        /\ \A x \in s : Cardinality(s \ {x}) = Cardinality(s) - 1
  BY SubsetSizes
<1>2. 0 \in T
  <2> SUFFICES ASSUME NEW s \in SUBSET S, Cardinality(s) = 0  PROVE \E o : Lists(s, o)
    OBVIOUS
  <2>1. Lists(s, [i \in 1 .. 0 |-> s])  OBVIOUS
  <2> QED  BY <2>1
<1>3. ASSUME NEW n \in Nat, n \in T  PROVE n + 1 \in T
  <2> SUFFICES ASSUME NEW s \in SUBSET S, Cardinality(s) = n + 1  PROVE \E o : Lists(s, o)
    OBVIOUS
  <2>1. s # {}  BY <1>1
  <2>2. PICK x \in s : \A y \in s \ {x} : <<x, y>> \in R  BY <2>1
  <2>3. Cardinality(s \ {x}) = n /\ s \ {x} \in SUBSET S  BY <1>1
  <2>4. PICK o : Lists(s \ {x}, o)  BY <1>3, <2>3
  <2> DEFINE p == [i \in 1 .. n + 1 |-> IF i = 1 THEN x ELSE o[i - 1]]
  <2>5. \A i \in 1 .. n + 1 : i # 1 => i - 1 \in 1 .. n /\ p[i] = o[i - 1] /\ p[i] \in s \ {x}
    <3>1. o \in [1 .. n -> s \ {x}]  BY <2>3, <2>4
    <3>2. \A i \in 1 .. n + 1 : i # 1 => i - 1 \in 1 .. n  OBVIOUS
    <3> QED  BY <3>1, <3>2
  <2>6. p \in [1 .. n + 1 -> s]
    BY <2>5
  <2>7. ASSUME NEW i \in 1 .. n + 1, NEW j \in 1 .. n + 1, i < j
        PROVE  p[i] # p[j] /\ <<p[i], p[j]>> \in R
    <3>1. j # 1 /\ p[j] \in s \ {x} /\ p[j] = o[j - 1] /\ j - 1 \in 1 .. n  BY <2>5, <2>7
    <3>2. CASE i = 1
      <4>1. p[i] = x  BY <3>2
      <4> QED  BY <2>2, <3>1, <4>1
    <3>3. CASE i # 1
      <4>1. p[i] = o[i - 1] /\ i - 1 \in 1 .. n  BY <2>5, <3>3
      <4>2. i - 1 < j - 1  BY <2>7
      <4> HIDE DEF p
      <4> QED  BY <2>3, <2>4, <3>1, <4>1, <4>2
    <3> QED  BY <3>2, <3>3
  <2> HIDE DEF p
  <2>8. Lists(s, p)  BY <2>6, <2>7
  <2> QED  BY <2>8
<1> HIDE DEF T
<1>4. Nat \subseteq T  BY <1>2, <1>3, SetInduction
<1>5. Cardinality(S) \in T  BY <1>1, <1>4
<1> QED  BY <1>5 DEF T

-----------------------------------------------------------------------------
(* The policy in force.                                                     *)

\* The latest of some policies is one of them.
LEMMA LatestIsOne ==
    ASSUME NEW S, IsFiniteSet(S), S # {}, \A p \in S : p.createdAt \in Int
    PROVE  Latest(S) \in S
<1> DEFINE key == [p \in S |-> -p.createdAt]
<1>1. \A p \in S : key[p] \in Int  OBVIOUS
<1>2. PICK p \in S : \A q \in S : key[p] <= key[q]
  <2> HIDE DEF key
  <2> QED  BY <1>1, LeastExists
<1>3. \A q \in S : q.createdAt <= p.createdAt  BY <1>2
<1> QED  BY <1>3 DEF Latest

\* The four cases of the query are the plain reading of the two dates.
LEMMA InForceMeans ==
    ASSUME NEW p, NEW date
    PROVE  InForce(p, date) <=> /\ p.effectiveFrom = None \/ p.effectiveFrom <= date
                                /\ p.effectiveTo = None \/ p.effectiveTo >= date
BY DEF InForce

\* For all policies, employees and dates.
LEMMA PolicyFound ==
    ASSUME NEW policies, ArePolicies(policies), NEW employee, NEW date \in Int
    PROVE  PolicyIsRight(policies, employee, date)
<1> DEFINE found(scope) == {p \in policies : p.scope = scope /\ p.active /\ InForce(p, date)}
           own == {p \in found("EMPLOYEE") : p.employeeId = employee}
           applies(p) ==
             /\ p.active
             /\ p.effectiveFrom = None \/ p.effectiveFrom <= date
             /\ p.effectiveTo = None \/ date <= p.effectiveTo
             /\ p.scope = "GLOBAL" \/ (p.scope = "EMPLOYEE" /\ p.employeeId = employee)
           policy == getApplicablePolicy(policies, employee, date)
<1>1. \A p \in policies : applies(p) <=> p \in own \/ p \in found("GLOBAL")
  <2> SUFFICES ASSUME NEW p \in policies
               PROVE  applies(p) <=> p \in own \/ p \in found("GLOBAL")
    OBVIOUS
  <2>1. p.effectiveTo = None \/ (p.effectiveTo >= date <=> date <= p.effectiveTo)
    BY DEF ArePolicies
  <2> QED  BY <2>1, InForceMeans
<1>2. /\ IsFiniteSet(own) /\ own \subseteq policies
      /\ IsFiniteSet(found("GLOBAL")) /\ found("GLOBAL") \subseteq policies
  BY FS_Subset DEF ArePolicies
<1>3. own # {} => Latest(own) \in own
  <2> HIDE DEF own
  <2> QED  BY <1>2, LatestIsOne DEF ArePolicies
<1>4. found("GLOBAL") # {} => Latest(found("GLOBAL")) \in found("GLOBAL")
  <2> DEFINE G == found("GLOBAL")
  <2> HIDE DEF found
  <2> QED  BY <1>2, LatestIsOne DEF ArePolicies
<1>5. None \notin policies  BY DEF ArePolicies
<1>6. policy = IF own # {} THEN Latest(own)
               ELSE IF found("GLOBAL") # {} THEN Latest(found("GLOBAL")) ELSE None
  BY DEF getApplicablePolicy
<1>7. PolicyIsRight(policies, employee, date) <=>
         IF policy = None THEN \A p \in policies : ~applies(p)
         ELSE /\ applies(policy)
              /\ policy.scope = "GLOBAL" => \A p \in policies : applies(p) => p.scope = "GLOBAL"
  BY DEF PolicyIsRight
<1>8. /\ \A p \in own : p.scope = "EMPLOYEE"
      /\ \A p \in found("GLOBAL") : p.scope = "GLOBAL"
  OBVIOUS
<1> HIDE DEF own, found, applies, policy
<1>9. CASE own # {}
  <2>1. policy = Latest(own) /\ policy \in own /\ policy # None  BY <1>2, <1>3, <1>5, <1>6, <1>9
  <2> QED  BY <1>1, <1>2, <1>7, <1>8, <2>1
<1>10. CASE own = {} /\ found("GLOBAL") # {}
  <2>1. policy \in found("GLOBAL") /\ policy # None  BY <1>2, <1>4, <1>5, <1>6, <1>10
  <2> QED  BY <1>1, <1>2, <1>7, <1>8, <1>10, <2>1
<1>11. CASE own = {} /\ found("GLOBAL") = {}
  <2>1. policy = None  BY <1>6, <1>11
  <2> QED  BY <1>1, <1>7, <1>11, <2>1
<1> QED  BY <1>9, <1>10, <1>11

-----------------------------------------------------------------------------
(* The minutes worked.                                                      *)

\* What is known of punches.
LEMMA PunchTypes ==
    ASSUME NEW punches \in Seq(Punch)
    PROVE  /\ Len(punches) \in Nat
           /\ DOMAIN punches = 1 .. Len(punches)
           /\ \A i \in DOMAIN punches : punches[i] \in Punch /\ punches[i].time \in Int
<1>1. Len(punches) \in Nat /\ DOMAIN punches = 1 .. Len(punches)
  OBVIOUS
<1>2. \A i \in DOMAIN punches : punches[i] \in Punch
  OBVIOUS
<1> QED  BY <1>1, <1>2 DEF Punch

PunchOrder(punches, o) ==
    /\ o \in [DOMAIN punches -> DOMAIN punches]
    /\ \A i, j \in DOMAIN punches : i < j => Before(punches, o[i], o[j])

\* Punches can be put in order, also when some have the same time.
LEMMA PunchOrderExists ==
    ASSUME NEW punches \in Seq(Punch)
    PROVE  \E o : PunchOrder(punches, o)
<1> DEFINE n == Len(punches)
           D == 1 .. n
           R == {p \in D \X D : Before(punches, p[1], p[2])}
<1>1. n \in Nat /\ DOMAIN punches = D /\ \A i \in D : punches[i].time \in Int
  BY PunchTypes
<1>2. IsFiniteSet(D) /\ Cardinality(D) = n
  BY <1>1, FS_Interval
<1>3. ASSUME NEW s \in SUBSET D, s # {}
      PROVE  \E x \in s : \A y \in s \ {x} : <<x, y>> \in R
  <2> DEFINE time == [i \in s |-> punches[i].time]
             index == [i \in s |-> i]
  <2>1. IsFiniteSet(s)  BY <1>2, FS_Subset
  <2>2. \A i \in s : time[i] \in Int  BY <1>1
  <2>3. PICK t \in s : \A y \in s : time[t] <= time[y]
    <3> HIDE DEF time
    <3> QED  BY <1>3, <2>1, <2>2, LeastExists
  <2> DEFINE first == {i \in s : time[i] = time[t]}
  <2>4. first # {} /\ IsFiniteSet(first)  BY <2>1, FS_Subset
  <2>5. \A i \in first : index[i] \in Int  OBVIOUS
  <2>6. PICK x \in first : \A y \in first : index[x] <= index[y]
    <3> HIDE DEF first, index
    <3> QED  BY <2>4, <2>5, LeastExists
  <2>7. ASSUME NEW y \in s \ {x}  PROVE Before(punches, x, y)
    <3>1. x \in s /\ time[x] = time[t] /\ time[t] <= time[y]  BY <2>3
    <3>2. /\ time[x] = punches[x].time /\ time[y] = punches[y].time
          /\ time[x] \in Int /\ time[y] \in Int
      BY <2>2, <3>1
    <3>3. CASE time[x] < time[y]  BY <3>2, <3>3 DEF Before
    <3>4. CASE time[x] = time[y]
      <4>1. y \in first  BY <3>1, <3>4
      <4>2. index[x] <= index[y] /\ index[x] = x /\ index[y] = y  BY <2>6, <3>1, <4>1
      <4>3. x \in Int /\ y \in Int /\ x # y  BY <3>1
      <4> QED  BY <3>2, <3>4, <4>2, <4>3 DEF Before
    <3> HIDE DEF time
    <3> QED  BY <3>1, <3>2, <3>3, <3>4
  <2>8. x \in s  OBVIOUS
  <2> QED  BY <2>7, <2>8
<1> HIDE DEF R, D
<1>4. PICK o \in [1 .. Cardinality(D) -> D] :
         \A i, j \in 1 .. Cardinality(D) : i < j => o[i] # o[j] /\ <<o[i], o[j]>> \in R
  BY <1>2, <1>3, Listed
<1>5. 1 .. Cardinality(D) = D  BY <1>2 DEF D
<1>6. PunchOrder(punches, o)  BY <1>1, <1>4, <1>5 DEF PunchOrder, R
<1> QED  BY <1>6

\* The order is strict and leaves no punch out.
LEMMA PunchOrderStrict ==
    ASSUME NEW punches \in Seq(Punch), NEW o, PunchOrder(punches, o)
    PROVE  /\ \A i, j \in DOMAIN punches : Before(punches, o[i], o[j]) <=> i < j
           /\ \A k \in DOMAIN punches : \E i \in DOMAIN punches : o[i] = k
<1> DEFINE D == DOMAIN punches
<1>1. D = 1 .. Len(punches) /\ Len(punches) \in Nat /\ \A i \in D : punches[i].time \in Int
  BY PunchTypes
<1>2. \A i, j \in D : Before(punches, i, j) => ~Before(punches, j, i)
  BY <1>1 DEF Before
<1>3. \A i \in D : ~Before(punches, i, i)
  BY <1>1 DEF Before
<1>4. o \in [D -> D] /\ \A i, j \in D : i < j => Before(punches, o[i], o[j])
  BY DEF PunchOrder
<1>5. \A i, j \in D : i < j \/ i = j \/ j < i  BY <1>1
<1>6. ASSUME NEW i \in D, NEW j \in D  PROVE Before(punches, o[i], o[j]) <=> i < j
  <2>1. o[i] \in D /\ o[j] \in D  BY <1>4
  <2>2. CASE i < j  BY <1>4, <2>2
  <2>3. CASE i = j
    <3>1. ~(i < j)  BY <1>1, <2>3
    <3> QED  BY <1>3, <2>1, <2>3, <3>1
  <2>4. CASE j < i
    <3>1. ~(i < j)  BY <1>1, <2>4
    <3>2. Before(punches, o[j], o[i])  BY <1>4, <2>4
    <3> QED  BY <1>2, <2>1, <3>1, <3>2
  <2> QED  BY <1>5, <2>2, <2>3, <2>4
<1>7. \A i, j \in D : o[i] = o[j] => i = j
  <2> SUFFICES ASSUME NEW i \in D, NEW j \in D, o[i] = o[j]  PROVE i = j
    OBVIOUS
  <2>1. o[i] \in D  BY <1>4
  <2>2. ~(i < j) /\ ~(j < i)  BY <1>3, <1>6, <2>1
  <2> QED  BY <1>5, <2>2
<1>8. IsFiniteSet(D)
  <2>1. IsFiniteSet(1 .. Len(punches))  BY <1>1, FS_Interval
  <2> QED  BY <1>1, <2>1
<1>9. o \in Injection(D, D)  BY <1>4, <1>7 DEF Injection, IsInjective
<1> HIDE DEF D
<1>10. o \in Surjection(D, D)  BY <1>8, <1>9, FS_Injection
<1>11. \A k \in D : \E i \in D : o[i] = k  BY <1>10 DEF Surjection
<1> QED  BY <1>6, <1>11 DEF D

\* The loop over the punches, round by round.
IsLoop(s, n, g) ==
    g = [k \in 0 .. n |->
            IF k = 0 THEN [total |-> 0, lastIn |-> None] ELSE WithPunch(g[k - 1], s[k])]

\* The loop has a result after each punch.
LEMMA LoopExists ==
    ASSUME NEW s, NEW n \in Nat
    PROVE  \E g : IsLoop(s, n, g)
<1> DEFINE T == {k \in Nat : \E g : IsLoop(s, k, g)}
           none == [total |-> 0, lastIn |-> None]
<1>1. 0 \in T
  <2>1. IsLoop(s, 0, [k \in 0 .. 0 |-> none])  BY DEF IsLoop
  <2> QED  BY <2>1
<1>2. ASSUME NEW k \in Nat, k \in T  PROVE k + 1 \in T
  <2>1. PICK g : IsLoop(s, k, g)  BY <1>2
  <2> DEFINE h == [i \in 0 .. k + 1 |-> IF i = k + 1 THEN WithPunch(g[k], s[i]) ELSE g[i]]
  <2>2. \A i \in 0 .. k : g[i] = IF i = 0 THEN none ELSE WithPunch(g[i - 1], s[i])
    BY <2>1 DEF IsLoop
  <2>3. \A i \in 0 .. k + 1 : h[i] = IF i = 0 THEN none ELSE WithPunch(h[i - 1], s[i])
    <3> SUFFICES ASSUME NEW i \in 0 .. k + 1
                 PROVE  h[i] = IF i = 0 THEN none ELSE WithPunch(h[i - 1], s[i])
      OBVIOUS
    <3>1. CASE i = k + 1
      <4>1. h[i] = WithPunch(g[k], s[i]) /\ i # 0 /\ i - 1 = k /\ h[k] = g[k]  BY <3>1
      <4> QED  BY <4>1
    <3>2. CASE i = 0
      <4>1. h[i] = g[0] /\ 0 \in 0 .. k  BY <3>2
      <4> QED  BY <2>2, <3>2, <4>1
    <3>3. CASE i # 0 /\ i # k + 1
      <4>1. i \in 0 .. k /\ i - 1 \in 0 .. k + 1 /\ i - 1 # k + 1  BY <3>3
      <4>2. h[i] = g[i] /\ h[i - 1] = g[i - 1]  BY <3>3, <4>1
      <4> HIDE DEF h
      <4> QED  BY <2>2, <3>3, <4>1, <4>2
    <3> QED  BY <3>1, <3>2, <3>3
  <2>4. h = [i \in 0 .. k + 1 |-> h[i]]  OBVIOUS
  <2> HIDE DEF h
  <2>5. IsLoop(s, k + 1, h)  BY <2>3, <2>4, Zenon DEF IsLoop
  <2> QED  BY <2>5
<1> HIDE DEF T
<1>3. Nat \subseteq T  BY <1>1, <1>2, SetInduction
<1> QED  BY <1>3 DEF T

\* The INs among the first k punches that an OUT follows.
Stretches(s, k) == {i \in 1 .. k - 1 : s[i].type = "IN" /\ s[i + 1].type = "OUT"}

\* The time between an IN and the OUT after it, among the first k.
Covered(s, k) ==
    UNION {s[i].time .. s[i + 1].time - 1 :
              i \in {i \in 1 .. k - 1 : s[i].type = "IN" /\ s[i + 1].type = "OUT"}}

Open(s, k) == IF k # 0 /\ s[k].type = "IN" THEN s[k].time ELSE None

\* Of c, m parts of it rounded down to whole minutes, t minutes are counted.
Counts(t, c, m) ==
    /\ t \in Nat
    /\ t * PerMinute <= c
    /\ c <= t * PerMinute + m * (PerMinute - 1)

\* What the loop has after k punches.
After(s, k, r) ==
    /\ r = [total |-> r.total, lastIn |-> Open(s, k)]
    /\ Counts(r.total, Cardinality(Covered(s, k)), Cardinality(Stretches(s, k)))

\* Some more time counts its whole minutes.
LEMMA CountsMore ==
    ASSUME NEW t, NEW c \in Nat, NEW m \in Nat, Counts(t, c, m), NEW b \in Nat
    PROVE  Counts(t + (b \div PerMinute), c + b, m + 1)
<1> DEFINE u == PerMinute
           q == b \div u
<1>1. u \in Nat \ {0} /\ t \in Nat  BY PerMinuteAssumption DEF Counts
<1>2. t * u <= c /\ c <= t * u + m * (u - 1)  BY DEF Counts
<1> HIDE DEF u
<1>3. q \in Nat /\ q * u <= b /\ b <= q * u + (u - 1)  BY <1>1
<1> HIDE DEF q
<1>4. (t + q) * u = t * u + q * u  BY <1>1, <1>3
<1>5. (m + 1) * (u - 1) = m * (u - 1) + (u - 1)  BY <1>1
<1>6. t * u \in Nat /\ q * u \in Nat /\ m * (u - 1) \in Nat /\ u - 1 \in Nat  BY <1>1, <1>3
<1>7. (t + q) * u <= c + b /\ c + b <= (t + q) * u + (m + 1) * (u - 1)
  BY <1>2, <1>3, <1>4, <1>5, <1>6
<1> QED  BY <1>1, <1>3, <1>7 DEF Counts, u, q

\* Enough of it makes up the minutes that are due.
LEMMA CountsEnough ==
    ASSUME NEW t, NEW c \in Nat, NEW m \in Nat, Counts(t, c, m), NEW d \in Int,
           c >= d * PerMinute + m * (PerMinute - 1)
    PROVE  t >= d
<1> DEFINE u == PerMinute
           e == m * (u - 1)
<1>1. u \in Nat \ {0} /\ t \in Nat /\ e \in Int  BY PerMinuteAssumption DEF Counts
<1>2. c <= t * u + e /\ c >= d * u + e  BY DEF Counts
<1> HIDE DEF u, e
<1>3. t * u \in Int /\ d * u \in Int  BY <1>1
<1>4. d * u <= t * u  BY <1>1, <1>2, <1>3
<1>5. ASSUME t < d  PROVE FALSE
  <2>1. d - t \in Nat \ {0} /\ (d - t) * u = d * u - t * u  BY <1>1, <1>5
  <2>2. (d - t) * u >= u  BY <1>1, <2>1
  <2> QED  BY <1>1, <1>3, <1>4, <2>1, <2>2
<1> QED  BY <1>1, <1>5

\* What the next punch adds to the time covered.
LEMMA CoveredNext ==
    ASSUME NEW n \in Nat, NEW s \in [1 .. n -> Punch], NEW k \in 0 .. n - 1
    PROVE  Covered(s, k + 1) =
              IF k # 0 /\ s[k].type = "IN" /\ s[k + 1].type = "OUT"
              THEN Covered(s, k) \cup (s[k].time .. s[k + 1].time - 1) ELSE Covered(s, k)
<1> DEFINE I(j) == {i \in 1 .. j - 1 : s[i].type = "IN" /\ s[i + 1].type = "OUT"}
           F(i) == s[i].time .. s[i + 1].time - 1
<1>1. \A j : Covered(s, j) = UNION {F(i) : i \in I(j)}  BY DEF Covered
<1>2. I(k + 1) = IF k # 0 /\ s[k].type = "IN" /\ s[k + 1].type = "OUT" THEN I(k) \cup {k} ELSE I(k)
  <2>1. CASE k = 0
    <3>1. 1 .. k + 1 - 1 = {} /\ 1 .. k - 1 = {}  BY <2>1
    <3> QED  BY <2>1, <3>1
  <2>2. CASE k # 0
    <3>1. 1 .. k + 1 - 1 = (1 .. k - 1) \cup {k}  BY <2>2
    <3> QED  BY <2>2, <3>1
  <2> QED  BY <2>1, <2>2
<1> HIDE DEF F, I
<1>3. UNION {F(i) : i \in I(k) \cup {k}} = (UNION {F(i) : i \in I(k)}) \cup F(k)  OBVIOUS
<1> QED  BY <1>1, <1>2, <1>3 DEF F

LEMMA StretchesNext ==
    ASSUME NEW n \in Nat, NEW s \in [1 .. n -> Punch], NEW k \in 0 .. n - 1
    PROVE  /\ IsFiniteSet(Stretches(s, k)) /\ k \notin Stretches(s, k)
           /\ Stretches(s, k + 1) =
                 IF k # 0 /\ s[k].type = "IN" /\ s[k + 1].type = "OUT"
                 THEN Stretches(s, k) \cup {k} ELSE Stretches(s, k)
<1>1. Stretches(s, k) \in SUBSET (1 .. k - 1)  BY DEF Stretches
<1>2. IsFiniteSet(1 .. k - 1)  BY FS_Interval
<1>3. IsFiniteSet(Stretches(s, k))  BY <1>1, <1>2, FS_Subset
<1>4. k \notin 1 .. k - 1  OBVIOUS
<1>5. CASE k = 0
  <2>1. 1 .. k + 1 - 1 = {} /\ 1 .. k - 1 = {}  BY <1>5
  <2> QED  BY <1>1, <1>3, <1>4, <1>5, <2>1 DEF Stretches
<1>6. CASE k # 0
  <2>1. 1 .. k + 1 - 1 = (1 .. k - 1) \cup {k}  BY <1>6
  <2> QED  BY <1>1, <1>3, <1>4, <1>6, <2>1 DEF Stretches
<1> QED  BY <1>5, <1>6

\* What is covered lies before the last of the punches.
LEMMA CoveredBefore ==
    ASSUME NEW n \in Nat, NEW s \in [1 .. n -> Punch], NEW k \in 0 .. n,
           \A i, j \in 1 .. n : i < j => s[i].time <= s[j].time
    PROVE  /\ IsFiniteSet(Covered(s, k))
           /\ \A m \in Covered(s, k) : m \in Int /\ k # 0 /\ m < s[k].time
<1> DEFINE I == {i \in 1 .. k - 1 : s[i].type = "IN" /\ s[i + 1].type = "OUT"}
           F(i) == s[i].time .. s[i + 1].time - 1
           f == [i \in I |-> F(i)]
<1>1. \A i \in 1 .. n : s[i].time \in Int  BY DEF Punch
<1>2. \A i \in I : i \in 1 .. n /\ i + 1 \in 1 .. n  OBVIOUS
<1>3. ASSUME NEW m \in Covered(s, k)  PROVE m \in Int /\ k # 0 /\ m < s[k].time
  <2>1. PICK i \in I : m \in F(i)  BY DEF Covered
  <2>2. m \in Int /\ m < s[i + 1].time  BY <1>1, <1>2, <2>1
  <2>3. k # 0 /\ k \in 1 .. n /\ (i + 1 = k \/ i + 1 < k)  BY <2>1
  <2>4. s[i + 1].time <= s[k].time  BY <1>1, <1>2, <2>3
  <2> QED  BY <1>1, <1>2, <2>2, <2>3, <2>4
<1>4. IsFiniteSet(Covered(s, k))
  <2>1. IsFiniteSet(I)
    <3>1. IsFiniteSet(1 .. k - 1)  BY FS_Interval
    <3> QED  BY <3>1, FS_Subset
  <2>2. ASSUME NEW i \in I  PROVE IsFiniteSet(F(i))
    <3>1. s[i].time \in Int /\ s[i + 1].time - 1 \in Int  BY <1>1, <1>2
    <3> QED  BY <3>1, FS_Interval
  <2> DEFINE Z == {F(i) : i \in I}
  <2>3. f \in Surjection(I, Z)  BY DEF Surjection
  <2>4. IsFiniteSet(Z)
    <3> HIDE DEF I, f, Z
    <3> QED  BY <2>1, <2>3, FS_Surjection
  <2>5. \A z \in Z : IsFiniteSet(z)  BY <2>2
  <2>6. IsFiniteSet(UNION Z)
    <3> HIDE DEF Z
    <3> QED  BY <2>4, <2>5, FS_UNION
  <2> QED  BY <2>6 DEF Covered
<1> QED  BY <1>3, <1>4

\* The loop counts what is covered, but for less than a minute of each stretch.
LEMMA LoopCounts ==
    ASSUME None \notin Int, NEW n \in Nat, NEW s \in [1 .. n -> Punch], NEW g, IsLoop(s, n, g),
           \A i, j \in 1 .. n : i < j => s[i].time <= s[j].time
    PROVE  After(s, n, g[n])
<1> DEFINE T == {k \in Nat : k <= n => After(s, k, g[k])}
<1>1. \A k \in 0 .. n : g[k] = IF k = 0 THEN [total |-> 0, lastIn |-> None]
                               ELSE WithPunch(g[k - 1], s[k])
  BY DEF IsLoop
<1>2. \A i \in 1 .. n : s[i].time \in Int /\ s[i].type \in {"IN", "OUT"} /\ s[i].time # None
  BY DEF Punch
<1>3. 0 \in T
  <2>1. Covered(s, 0) = {} /\ Stretches(s, 0) = {}  BY DEF Covered, Stretches
  <2>2. Cardinality({}) = 0  BY FS_EmptySet
  <2>3. g[0] = [total |-> 0, lastIn |-> Open(s, 0)]  BY <1>1 DEF Open
  <2>4. Counts(0, 0, 0)
    <3>1. 0 * PerMinute = 0 /\ 0 * (PerMinute - 1) = 0  BY PerMinuteAssumption
    <3> QED  BY <3>1 DEF Counts
  <2>5. g[0].total = 0  BY <2>3
  <2>6. After(s, 0, g[0])  BY <2>1, <2>2, <2>3, <2>4, <2>5, Zenon DEF After
  <2> QED  BY <2>6
<1>4. ASSUME NEW k \in Nat, k \in T  PROVE k + 1 \in T
  <2> SUFFICES ASSUME k + 1 <= n  PROVE After(s, k + 1, g[k + 1])
    OBVIOUS
  <2> DEFINE C == Covered(s, k)
             B == s[k].time .. s[k + 1].time - 1
             S == Stretches(s, k)
             c == Cardinality(C)
             m == Cardinality(S)
             t == g[k].total
             closes == k # 0 /\ s[k].type = "IN" /\ s[k + 1].type = "OUT"
  <2>1. k \in 0 .. n - 1 /\ k + 1 \in 1 .. n /\ k + 1 \in 0 .. n /\ k \in 0 .. n
    OBVIOUS
  <2>2. After(s, k, g[k])  BY <1>4
  <2>3. g[k] = [total |-> t, lastIn |-> Open(s, k)] /\ Counts(t, c, m)
    BY <2>2, Zenon DEF After
  <2>4. g[k + 1] = WithPunch(g[k], s[k + 1])
    <3>1. k + 1 # 0 /\ k + 1 - 1 = k  OBVIOUS
    <3> QED  BY <1>1, <2>1, <3>1
  <2>5. Covered(s, k + 1) = IF closes THEN C \cup B ELSE C
    BY <2>1, CoveredNext
  <2>6. /\ IsFiniteSet(S) /\ k \notin S
        /\ Stretches(s, k + 1) = IF closes THEN S \cup {k} ELSE S
    BY <2>1, StretchesNext
  <2>7. s[k + 1].type \in {"IN", "OUT"} /\ s[k + 1].time \in Int  BY <1>2, <2>1
  <2>8. Open(s, k + 1) = IF s[k + 1].type = "IN" THEN s[k + 1].time ELSE None  BY DEF Open
  <2>9. IsFiniteSet(C) /\ \A x \in C : x \in Int /\ k # 0 /\ x < s[k].time  BY <2>1, CoveredBefore
  <2>10. c \in Nat /\ m \in Nat  BY <2>6, <2>9, FS_CardinalityType
  <2>11. CASE ~closes
    <3>1. Covered(s, k + 1) = C /\ Stretches(s, k + 1) = S  BY <2>5, <2>6, <2>11
    <3>2. g[k + 1] = [total |-> t, lastIn |-> Open(s, k + 1)]
      <4>1. CASE s[k + 1].type = "IN"
        <5> HIDE DEF t
        <5> QED  BY <2>3, <2>4, <2>8, <4>1 DEF WithPunch
      <4>2. CASE s[k + 1].type = "OUT"
        <5>1. Open(s, k) = None  BY <2>11, <4>2 DEF Open
        <5>2. Open(s, k + 1) = None  BY <2>8, <4>2
        <5> HIDE DEF t
        <5> QED  BY <2>3, <2>4, <4>2, <5>1, <5>2 DEF WithPunch
      <4> QED  BY <2>7, <4>1, <4>2
    <3> HIDE DEF t
    <3>3. g[k + 1].total = t  BY <3>2
    <3> QED  BY <2>3, <3>1, <3>2, <3>3, Zenon DEF After
  <2>12. CASE closes
    <3> DEFINE b == s[k + 1].time - s[k].time
    <3>1. k \in 1 .. n /\ s[k].time \in Int /\ s[k].time # None /\ s[k].time <= s[k + 1].time
      BY <1>2, <2>1, <2>12
    <3>2. b \in Nat  BY <2>7, <3>1
    <3>3. IsFiniteSet(B) /\ Cardinality(B) = b
      <4>1. s[k + 1].time - 1 \in Int  BY <2>7
      <4>2. /\ IsFiniteSet(B)
            /\ Cardinality(B) = IF s[k].time > s[k + 1].time - 1 THEN 0
                                ELSE s[k + 1].time - 1 - s[k].time + 1
        BY <3>1, <4>1, FS_Interval
      <4> QED  BY <2>7, <3>1, <4>2
    <3>4. Cardinality(Covered(s, k + 1)) = c + b
      <4>1. C \cap B = {}  BY <2>7, <2>9, <3>1
      <4>2. Cardinality(C \cup B) = Cardinality(C) + Cardinality(B) - Cardinality(C \cap B)
        BY <2>9, <3>3, FS_Union
      <4>3. Cardinality(C \cap B) = 0  BY <4>1, FS_EmptySet
      <4>4. Cardinality(Covered(s, k + 1)) = Cardinality(C \cup B)
        <5>1. Covered(s, k + 1) = C \cup B  BY <2>5, <2>12
        <5> HIDE DEF C, B
        <5> QED  BY <5>1
      <4>5. c = Cardinality(C)  OBVIOUS
      <4> DEFINE whole == Cardinality(C \cup B)
                 both == Cardinality(C \cap B)
      <4>6. whole = c + b - both /\ both = 0  BY <3>3, <4>2, <4>3, <4>5
      <4>7. Cardinality(Covered(s, k + 1)) = whole  BY <4>4
      <4> HIDE DEF whole, both, c, b
      <4> QED  BY <2>10, <3>2, <4>6, <4>7
    <3>5. Cardinality(Stretches(s, k + 1)) = m + 1
      <4>1. Stretches(s, k + 1) = S \cup {k}  BY <2>6, <2>12
      <4>2. Cardinality(S \cup {k}) = Cardinality(S) + 1  BY <2>6, FS_AddElement
      <4> QED  BY <4>1, <4>2
    <3>6. Counts(t + (b \div PerMinute), c + b, m + 1)
      <4> HIDE DEF t, c, m, b
      <4> QED  BY <2>3, <2>10, <3>2, CountsMore
    <3>7. g[k + 1] = [total |-> t + (b \div PerMinute), lastIn |-> Open(s, k + 1)]
      <4>1. g[k] = [total |-> t, lastIn |-> s[k].time]  BY <2>3, <2>12, Zenon DEF Open
      <4>2. Open(s, k + 1) = None  BY <2>8, <2>12
      <4> HIDE DEF t
      <4>3. g[k].total = t /\ g[k].lastIn = s[k].time  BY <4>1
      <4> QED  BY <2>4, <2>12, <3>1, <4>2, <4>3 DEF WithPunch
    <3> HIDE DEF t, c, m, b
    <3>8. g[k + 1].total = t + (b \div PerMinute)  BY <3>7
    <3> QED  BY <3>4, <3>5, <3>6, <3>7, <3>8, Zenon DEF After
  <2> QED  BY <2>11, <2>12
<1> HIDE DEF T
<1>5. Nat \subseteq T  BY <1>3, <1>4, SetInduction
<1> QED  BY <1>5 DEF T

\* For every sequence of punches: the minutes counted are those present, but for
\* the floors, and the stretches that are floored are the pairs.
LEMMA MinutesCount ==
    ASSUME None \notin Int, NEW punches \in Seq(Punch)
    PROVE  /\ Cardinality(Present(punches)) \in Nat /\ Cardinality(Pairs(punches)) \in Nat
           /\ Counts(calculateWorkedMinutes(punches), Cardinality(Present(punches)),
                     Cardinality(Pairs(punches)))
<1> DEFINE n == Len(punches)
           D == DOMAIN punches
           o == CHOOSE o \in [D -> D] : \A i, j \in D : i < j => Before(punches, o[i], o[j])
           s == [i \in D |-> punches[o[i]]]
           g == CHOOSE g : IsLoop(ByTime(punches), n, g)
           I == Stretches(s, n)
           P == Pairs(punches)
           span(p) == punches[p[1]].time .. punches[p[2]].time - 1
           gap(i) == s[i].time .. s[i + 1].time - 1
<1>1. n \in Nat /\ D = 1 .. n /\ \A i \in D : punches[i] \in Punch
  OBVIOUS
<1>2. PunchOrder(punches, o)
  <2>1. \E p \in [D -> D] : \A i, j \in D : i < j => Before(punches, p[i], p[j])
    BY PunchOrderExists, Zenon DEF PunchOrder
  <2> QED  BY <2>1, Zenon DEF PunchOrder
<1>3. ByTime(punches) = s  BY Zenon DEF ByTime
<1>4. calculateWorkedMinutes(punches) = g[n].total
  BY Zenon DEF calculateWorkedMinutes, IsLoop
<1>5. IsLoop(s, n, g)
  <2>1. IsLoop(ByTime(punches), n, g)
    <3> HIDE DEF n
    <3> QED  BY <1>1, LoopExists
  <2> HIDE DEF s
  <2> QED  BY <1>3, <2>1
<1> HIDE DEF o, g
<1>6. s \in [1 .. n -> Punch]  BY <1>1, <1>2 DEF PunchOrder
<1>7. /\ \A i, j \in D : Before(punches, o[i], o[j]) <=> i < j
      /\ \A k \in D : \E i \in D : o[i] = k
  BY <1>2, PunchOrderStrict
<1>8. \A i \in D : o[i] \in D /\ s[i] = punches[o[i]] /\ punches[o[i]].time \in Int
  BY <1>1, <1>2 DEF PunchOrder, Punch
<1>9. \A i, j \in 1 .. n : i < j => s[i].time <= s[j].time
  <2> SUFFICES ASSUME NEW i \in D, NEW j \in D, i < j  PROVE s[i].time <= s[j].time
    BY <1>1
  <2>1. Before(punches, o[i], o[j])  BY <1>7
  <2> QED  BY <1>8, <2>1 DEF Before
<1>10. After(s, n, g[n])
  <2> HIDE DEF s, n
  <2> QED  BY <1>1, <1>5, <1>6, <1>9, LoopCounts
<1> DEFINE f == [i \in I |-> <<o[i], o[i + 1]>>]
<1>11. ASSUME NEW i \in I
       PROVE  i \in D /\ i + 1 \in D /\ <<o[i], o[i + 1]>> \in P /\ span(f[i]) = gap(i)
  <2>1. i \in D /\ i + 1 \in D /\ i < i + 1 /\ s[i].type = "IN" /\ s[i + 1].type = "OUT"
    BY <1>1 DEF Stretches
  <2>2. Before(punches, o[i], o[i + 1])  BY <1>7, <2>1
  <2>3. ASSUME NEW k \in D, Before(punches, o[i], k), Before(punches, k, o[i + 1])  PROVE FALSE
    <3>1. PICK l \in D : o[l] = k  BY <1>7
    <3>2. i < l /\ l < i + 1  BY <1>7, <2>1, <2>3, <3>1
    <3> QED  BY <1>1, <2>1, <3>1, <3>2
  <2>4. o[i] \in D /\ o[i + 1] \in D /\ s[i] = punches[o[i]] /\ s[i + 1] = punches[o[i + 1]]
    BY <1>8, <2>1
  <2> HIDE DEF s, I
  <2>5. Paired(punches, o[i], o[i + 1])  BY <2>1, <2>2, <2>3, <2>4 DEF Paired
  <2>6. <<o[i], o[i + 1]>> \in P  BY <2>4, <2>5 DEF Pairs
  <2>7. f[i] = <<o[i], o[i + 1]>>  OBVIOUS
  <2>8. span(f[i]) = gap(i)
    <3> HIDE DEF f
    <3> QED  BY <2>4, <2>7
  <2> QED  BY <2>1, <2>6, <2>8
<1>12. ASSUME NEW p \in P  PROVE \E i \in I : f[i] = p
  <2> DEFINE a == p[1]
             b == p[2]
  <2>0. p = <<a, b>> /\ a \in D /\ b \in D /\ Paired(punches, a, b)  BY DEF Pairs
  <2> HIDE DEF a, b
  <2>1. PICK i \in D : o[i] = a  BY <1>7, <2>0
  <2>2. PICK j \in D : o[j] = b  BY <1>7, <2>0
  <2>3. i < j  BY <1>7, <2>0, <2>1, <2>2 DEF Paired
  <2>4. i + 1 \in D /\ i < i + 1  BY <1>1, <2>1, <2>2, <2>3
  <2>5. ~(i + 1 < j)
    <3> SUFFICES ASSUME i + 1 < j  PROVE FALSE
      OBVIOUS
    <3>1. Before(punches, a, o[i + 1]) /\ Before(punches, o[i + 1], b)
      BY <1>7, <2>1, <2>2, <2>4
    <3> QED  BY <1>8, <2>0, <2>4, <3>1 DEF Paired
  <2>6. j = i + 1 /\ i \in 1 .. n - 1  BY <1>1, <2>3, <2>5
  <2>7. s[i].type = "IN" /\ s[i + 1].type = "OUT"
    <3>1. s[i] = punches[a] /\ s[i + 1] = punches[b]  BY <1>8, <2>1, <2>2, <2>6
    <3> HIDE DEF s
    <3> QED  BY <2>0, <3>1 DEF Paired
  <2>8. i \in I  BY <2>6, <2>7 DEF Stretches
  <2>9. f[i] = <<a, b>>
    <3> HIDE DEF I
    <3> QED  BY <2>1, <2>2, <2>6, <2>8
  <2> HIDE DEF I, f
  <2> QED  BY <2>0, <2>8, <2>9
<1>13. IsFiniteSet(I)
  <2>1. I \in SUBSET (1 .. n - 1)  BY DEF Stretches
  <2>2. IsFiniteSet(1 .. n - 1)  BY <1>1, FS_Interval
  <2> HIDE DEF I
  <2> QED  BY <2>1, <2>2, FS_Subset
<1>14. f \in Surjection(I, P)
  <2> HIDE DEF I, P
  <2>1. f \in [I -> P]  BY <1>11
  <2> HIDE DEF f
  <2> QED  BY <1>12, <2>1 DEF Surjection
<1>15. f \in Injection(I, P)
  <2>1. ASSUME NEW i \in I, NEW j \in I, f[i] = f[j]  PROVE i = j
    <3>1. i \in D /\ j \in D  BY <1>11
    <3>2. f[i] = <<o[i], o[i + 1]>> /\ f[j] = <<o[j], o[j + 1]>>
      <4> HIDE DEF I
      <4> QED  OBVIOUS
    <3> HIDE DEF I, f
    <3>3. o[i] = o[j]
      <4>1. <<o[i], o[i + 1]>> = <<o[j], o[j + 1]>>  BY <2>1, <3>2, Zenon
      <4> QED  BY <4>1
    <3>4. ~(i < j) /\ ~(j < i)
      <4>1. ~Before(punches, o[i], o[i])
        <5>1. ~(i < i)  BY <1>1, <3>1
        <5> QED  BY <1>7, <3>1, <5>1
      <4> QED  BY <1>7, <3>1, <3>3, <4>1
    <3> QED  BY <1>1, <3>1, <3>4
  <2> HIDE DEF f, I, P
  <2> QED  BY <1>14, <2>1 DEF Surjection, Injection, IsInjective
<1>16. Cardinality(P) = Cardinality(I) /\ Cardinality(P) \in Nat
  <2> HIDE DEF f, I, P
  <2>1. IsFiniteSet(P) /\ (Cardinality(P) = Cardinality(I) <=> f \in Injection(I, P))
    BY <1>13, <1>14, FS_Surjection
  <2> QED  BY <1>15, <2>1, FS_CardinalityType
<1>17. Covered(s, n) = Present(punches)
  <2>1. Covered(s, n) = UNION {gap(i) : i \in I}  BY DEF Covered, Stretches
  <2>2. Present(punches) = UNION {span(p) : p \in P}  BY DEF Present
  <2> HIDE DEF I, P
  <2>3. \A i \in I : f[i] \in P  BY <1>11
  <2>4. \A i \in I : span(f[i]) = gap(i)  BY <1>11
  <2>5. \A p \in P : \E i \in I : f[i] = p  BY <1>12
  <2> HIDE DEF f, span, gap
  <2>6. {gap(i) : i \in I} = {span(p) : p \in P}
    <3>1. ASSUME NEW z \in {gap(i) : i \in I}  PROVE z \in {span(p) : p \in P}
      <4>1. PICK i \in I : z = gap(i)  OBVIOUS
      <4> QED  BY <2>3, <2>4, <4>1
    <3>2. ASSUME NEW z \in {span(p) : p \in P}  PROVE z \in {gap(i) : i \in I}
      <4>1. PICK p \in P : z = span(p)  OBVIOUS
      <4>2. PICK i \in I : f[i] = p  BY <2>5
      <4> QED  BY <2>4, <4>1, <4>2
    <3> QED  BY <3>1, <3>2
  <2> QED  BY <2>1, <2>2, <2>6
<1>18. Cardinality(Covered(s, n)) \in Nat
  <2> HIDE DEF s, n
  <2>1. n \in 0 .. n  BY <1>1
  <2>2. IsFiniteSet(Covered(s, n))  BY <1>1, <1>6, <1>9, <2>1, CoveredBefore
  <2> QED  BY <2>2, FS_CardinalityType
<1>19. Counts(g[n].total, Cardinality(Covered(s, n)), Cardinality(I))  BY <1>10 DEF After
<1> HIDE DEF s, n, D, I, P
<1> QED  BY <1>4, <1>16, <1>17, <1>18, <1>19 DEF P

LEMMA MinutesPaired ==
    ASSUME None \notin Int, NEW punches \in Seq(Punch)
    PROVE  WorkedIsPaired(punches) /\ calculateWorkedMinutes(punches) \in Nat
  BY MinutesCount DEF Counts, WorkedIsPaired, Floored

-----------------------------------------------------------------------------
(* What a day comes to.                                                     *)

\* Rounding up never takes minutes away.
LEMMA RoundedUp ==
    ASSUME NEW m \in Int, NEW i \in Nat \ {0}
    PROVE  -((-m) \div i) * i >= m
<1> DEFINE q == (-m) \div i
<1>1. q \in Int /\ q * i <= -m  OBVIOUS
<1>2. (-q) * i = -(q * i) /\ q * i \in Int  BY <1>1
<1> HIDE DEF q
<1>3. (-q) * i >= m  BY <1>1, <1>2
<1> QED  BY <1>3 DEF q

\* Rounded minutes are minutes.
LEMMA RoundingType ==
    ASSUME NEW m \in Int, NEW i \in Nat,
           NEW rule \in {"NONE", "ROUND_UP", "ROUND_DOWN", "ROUND_NEAREST"}
    PROVE  /\ applyRounding(m, rule, i) \in Int
           /\ rule \in {"NONE", "ROUND_UP"} => applyRounding(m, rule, i) >= m
<1> DEFINE r == applyRounding(m, rule, i)
<1>1. CASE i = 0
  <2>1. r = m  BY <1>1 DEF applyRounding
  <2> HIDE DEF r
  <2>2. r \in Int /\ r >= m  BY <2>1
  <2> QED  BY <2>2 DEF r
<1>2. CASE i # 0
  <2>0. i \in Nat \ {0}  BY <1>2
  <2>1. CASE rule = "NONE"
    <3>1. r = m  BY <1>2, <2>1 DEF applyRounding
    <3> HIDE DEF r
    <3>2. r \in Int /\ r >= m  BY <3>1
    <3> QED  BY <3>2 DEF r
  <2>2. CASE rule = "ROUND_UP"
    <3>1. r = -((-m) \div i) * i  BY <1>2, <2>2 DEF applyRounding
    <3> HIDE DEF r
    <3>2. r >= m  BY <2>0, <3>1, RoundedUp
    <3>3. -((-m) \div i) \in Int  BY <2>0
    <3>4. r \in Int  BY <2>0, <3>1, <3>3
    <3> QED  BY <3>2, <3>4 DEF r
  <2>3. CASE rule = "ROUND_DOWN"
    <3>1. r = (m \div i) * i  BY <1>2, <2>3 DEF applyRounding
    <3> HIDE DEF r
    <3>2. r \in Int  BY <2>0, <3>1
    <3> QED  BY <2>3, <3>2 DEF r
  <2>4. CASE rule = "ROUND_NEAREST"
    <3>1. r = ((2 * m + i) \div (2 * i)) * i  BY <1>2, <2>4 DEF applyRounding
    <3> HIDE DEF r
    <3>2. 2 * m + i \in Int /\ 2 * i \in Nat \ {0}  BY <2>0
    <3>3. (2 * m + i) \div (2 * i) \in Int  BY <3>2
    <3>4. r \in Int  BY <2>0, <3>1, <3>3
    <3> QED  BY <2>4, <3>4 DEF r
  <2> QED  BY <2>1, <2>2, <2>3, <2>4
<1> QED  BY <1>1, <1>2

\* What is held at 0 and what is held at a cap.
LEMMA AtLeastType == ASSUME NEW n \in Int  PROVE AtLeast0(n) \in Nat
BY DEF AtLeast0

LEMMA CappedType ==
    ASSUME NEW n \in Int, NEW limit \in Int
    PROVE  Capped(n, limit) \in Int /\ (limit > 0 => Capped(n, limit) <= limit)
BY DEF Capped

\* Lateness is a number of minutes.
LEMMA LatenessType ==
    ASSUME NEW punches \in Seq(Punch), NEW start \in Int,
           NEW rule \in LatenessRule \cup {None}
    PROVE  calculateLateness(punches, start, rule) \in Int
<1> DEFINE ins == {i \in DOMAIN punches : punches[i].type = "IN"}
           grace == IF rule = None THEN 0 ELSE rule.gracePeriodMinutes
           key == [i \in ins |-> i]
           n == Len(punches)
<1>1. grace \in Int
  <2>1. CASE rule = None  BY <2>1
  <2>2. CASE rule # None /\ rule \in LatenessRule  BY <2>2 DEF LatenessRule
  <2> QED  BY <2>1, <2>2
<1>2. n \in Nat /\ DOMAIN punches = 1 .. n /\ \A i \in ins : punches[i].time \in Int
  BY PunchTypes
<1>3. CASE ins = {}
  <2>1. calculateLateness(punches, start, rule) = 0  BY <1>3 DEF calculateLateness
  <2> QED  BY <2>1
<1>4. CASE ins # {}
  <2>1. IsFiniteSet(ins)
    <3>1. IsFiniteSet(1 .. n)  BY <1>2, FS_Interval
    <3> QED  BY <1>2, <3>1, FS_Subset
  <2>2. \A i \in ins : key[i] \in Int /\ key[i] = i  BY <1>2
  <2>3. \E x \in ins : \A y \in ins : key[x] <= key[y]
    <3> HIDE DEF ins, key
    <3> QED  BY <1>4, <2>1, <2>2, LeastExists
  <2>4. \E x \in ins : \A y \in ins : x <= y  BY <2>2, <2>3
  <2>5. Min(ins) \in ins
    <3> HIDE DEF ins
    <3> QED  BY <2>4 DEF Min
  <2> DEFINE late == AtLeast0(punches[Min(ins)].time - start - grace * PerMinute)
  <2>6. punches[Min(ins)].time - start - grace * PerMinute \in Int
    <3>1. grace * PerMinute \in Int  BY <1>1, PerMinuteAssumption
    <3> HIDE DEF ins, grace
    <3> QED  BY <1>2, <2>5, <3>1
  <2>7. calculateLateness(punches, start, rule) = late \div PerMinute
    BY <1>4, Zenon DEF calculateLateness
  <2>8. late \in Nat  BY <2>6, AtLeastType
  <2> HIDE DEF late
  <2>9. late \div PerMinute \in Int  BY <2>8, PerMinuteAssumption
  <2> QED  BY <2>7, <2>9
<1> QED  BY <1>3, <1>4

\* Present for what was scheduled, and for what the floors may cost.
FullDay(day) ==
    Cardinality(Present(day.punches)) >= day.scheduledMinutes * PerMinute + Floored(day.punches)

\* The minutes of a day are numbers, whoever is late, and nobody is short who
\* was there for a full day.
LEMMA ValuesAre ==
    ASSUME None \notin Int, NEW day, IsDay(day), NEW p, IsPolicy(p)
    PROVE  LET v == Values(day, p)
           IN  /\ v.late \in Int /\ v.short \in Nat /\ v.over \in Nat
               /\ v.short = 0 \/ v.over = 0
               /\ FullDay(day) /\ p.roundingRule \in {"NONE", "ROUND_UP"} => v.short = 0
<1> DEFINE m == calculateWorkedMinutes(day.punches)
           w == applyRounding(m, p.roundingRule, p.roundingIntervalMinutes)
           d == day.scheduledMinutes
           v == Values(day, p)
<1>1. /\ day.punches \in Seq(Punch) /\ d \in Int /\ day.scheduledStart \in Int \cup {None}
      /\ p.latenessRule \in LatenessRule \cup {None}
  BY DEF IsDay, IsPolicy
<1>2. m \in Nat  BY <1>1, MinutesPaired
<1>3. w \in Int /\ (p.roundingRule \in {"NONE", "ROUND_UP"} => w >= m)
  <2>1. /\ p.roundingRule \in {"NONE", "ROUND_UP", "ROUND_DOWN", "ROUND_NEAREST"}
        /\ p.roundingIntervalMinutes \in Nat
    BY DEF IsPolicy
  <2>2. m \in Int  BY <1>2
  <2> DEFINE rule == p.roundingRule
             i == p.roundingIntervalMinutes
  <2>3. rule \in {"NONE", "ROUND_UP", "ROUND_DOWN", "ROUND_NEAREST"} /\ i \in Nat  BY <2>1
  <2> HIDE DEF m, rule, i
  <2>4. /\ applyRounding(m, rule, i) \in Int
        /\ rule \in {"NONE", "ROUND_UP"} => applyRounding(m, rule, i) >= m
    BY <2>2, <2>3, RoundingType
  <2> QED  BY <2>4, Zenon DEF rule, i
<1>4. /\ v.late = IF day.scheduledStart # None /\ day.startDate = day.recordDate
                  THEN calculateLateness(day.punches, day.scheduledStart, p.latenessRule) ELSE 0
      /\ v.short = IF d = 0 THEN 0 ELSE AtLeast0(d - w)
      /\ v.over = IF d = 0 THEN 0 ELSE AtLeast0(w - d)
  BY DEF Values
<1>5. v.late \in Int
  <2>1. CASE day.scheduledStart # None
    <3>1. calculateLateness(day.punches, day.scheduledStart, p.latenessRule) \in Int
      BY <1>1, <2>1, LatenessType
    <3> HIDE DEF v
    <3> QED  BY <1>4, <3>1
  <2>2. CASE day.scheduledStart = None
    <3> HIDE DEF v
    <3> QED  BY <1>4, <2>2
  <2> QED  BY <2>1, <2>2
<1> HIDE DEF m, w, d, v
<1>6. v.short \in Nat /\ v.over \in Nat /\ (v.short = 0 \/ v.over = 0)
  BY <1>1, <1>3, <1>4 DEF AtLeast0
<1>7. FullDay(day) => m >= d
  <2> SUFFICES ASSUME FullDay(day)  PROVE m >= d
    OBVIOUS
  <2> DEFINE c == Cardinality(Present(day.punches))
             k == Cardinality(Pairs(day.punches))
  <2>1. c \in Nat /\ k \in Nat /\ Counts(m, c, k)  BY <1>1, MinutesCount DEF m
  <2>2. c >= d * PerMinute + k * (PerMinute - 1)  BY DEF FullDay, Floored, d
  <2> HIDE DEF c, k
  <2> QED  BY <1>1, <2>1, <2>2, CountsEnough
<1>8. m >= d /\ p.roundingRule \in {"NONE", "ROUND_UP"} => v.short = 0
  BY <1>1, <1>2, <1>3, <1>4 DEF AtLeast0
<1> QED  BY <1>5, <1>6, <1>7, <1>8 DEF v

\* Penalties by kind, and the cap.
LEMMA LatenessCapped ==
    ASSUME NEW p, IsPolicy(p), NEW v, v.late \in Int
    PROVE  /\ v.late = 0 => LatenessPenalty(p, v) = {}
           /\ \A x \in LatenessPenalty(p, v) :
                 /\ x.type = "LATENESS"
                 /\ p.penaltyCapPerDay > 0 => x.amount <= p.penaltyCapPerDay
<1> DEFINE a == Capped(v.late * p.latenessRule.deductionPerMinute,
                       p.latenessRule.maxDeductionPerDay)
           amount == Capped(a, p.penaltyCapPerDay)
<1>1. LatenessPenalty(p, v) = IF p.latenessRule # None /\ v.late > 0 /\ amount > 0
                              THEN {Penalty("LATENESS", amount, v.late)} ELSE {}
  BY DEF LatenessPenalty
<1>2. CASE p.latenessRule = None  BY <1>1, <1>2
<1>3. CASE p.latenessRule # None
  <2>1. p.latenessRule \in LatenessRule /\ p.penaltyCapPerDay \in Int  BY <1>3 DEF IsPolicy
  <2>2. /\ v.late * p.latenessRule.deductionPerMinute \in Int
        /\ p.latenessRule.maxDeductionPerDay \in Int
    <3>1. /\ p.latenessRule.deductionPerMinute \in Int
          /\ p.latenessRule.maxDeductionPerDay \in Int
      BY <2>1 DEF LatenessRule
    <3> QED  BY <3>1
  <2>3. a \in Int  BY <2>2, CappedType
  <2> HIDE DEF a
  <2>4. amount \in Int /\ (p.penaltyCapPerDay > 0 => amount <= p.penaltyCapPerDay)
    BY <2>1, <2>3, CappedType
  <2> HIDE DEF amount
  <2> QED  BY <1>1, <2>4 DEF Penalty
<1> QED  BY <1>2, <1>3

\* A penalty for short time is neither negative nor above the cap.
LEMMA ShortTimeCapped ==
    ASSUME NEW p, IsPolicy(p), NEW v, v.short \in Nat
    PROVE  /\ v.short = 0 => ShortTimePenalty(p, v) = {}
           /\ \A x \in ShortTimePenalty(p, v) :
                 /\ x.type = "SHORT_TIME"
                 /\ p.penaltyCapPerDay > 0 => x.amount <= p.penaltyCapPerDay
<1> DEFINE e == AtLeast0(v.short - p.shortTimeRule.gracePeriodMinutes)
           amount == Capped(e * p.shortTimeRule.penaltyPerMinute, p.penaltyCapPerDay)
<1>1. ShortTimePenalty(p, v) = IF p.shortTimeRule # None /\ v.short > 0 /\ amount > 0
                               THEN {Penalty("SHORT_TIME", amount, e)} ELSE {}
  BY DEF ShortTimePenalty
<1>2. CASE p.shortTimeRule = None  BY <1>1, <1>2
<1>3. CASE p.shortTimeRule # None
  <2>1. p.shortTimeRule \in ShortTimeRule /\ p.penaltyCapPerDay \in Int  BY <1>3 DEF IsPolicy
  <2>2. p.shortTimeRule.gracePeriodMinutes \in Int /\ p.shortTimeRule.penaltyPerMinute \in Int
    BY <2>1 DEF ShortTimeRule
  <2>3. e \in Nat
    <3>1. v.short - p.shortTimeRule.gracePeriodMinutes \in Int  BY <2>2
    <3> QED  BY <3>1, AtLeastType
  <2> HIDE DEF e
  <2>4. e * p.shortTimeRule.penaltyPerMinute \in Int  BY <2>2, <2>3
  <2>5. amount \in Int /\ (p.penaltyCapPerDay > 0 => amount <= p.penaltyCapPerDay)
    BY <2>1, <2>4, CappedType
  <2> HIDE DEF amount
  <2> QED  BY <1>1, <2>5 DEF Penalty
<1> QED  BY <1>2, <1>3

\* For every day and policy.
LEMMA FairResults ==
    ASSUME None \notin Int, NEW day, IsDay(day), NEW p, IsPolicy(p)
    PROVE  ResultsAreFair(day, p)
<1> DEFINE u == Values(day, p)
           v == applyExceptions(day.approved, u)
           late == LatenessPenalty(p, v)
           short == ShortTimePenalty(p, v)
           missed == IF day.hasMissedPunch THEN {Penalty("MISSED_PUNCH", 0, 0)} ELSE {}
           P == computePenalties(day, p, v)
           O == computeOvertime(day, p, v)
           is(type) == {x \in P : x.type = type}
           capped == \A x \in P : x.amount <= p.penaltyCapPerDay
<1>1. /\ u.late \in Int /\ u.short \in Nat /\ u.over \in Nat
      /\ u.short = 0 \/ u.over = 0
      /\ FullDay(day) /\ p.roundingRule \in {"NONE", "ROUND_UP"} => u.short = 0
  BY ValuesAre
<1>2. /\ v.late = IF "LATE" \in day.approved THEN 0 ELSE u.late
      /\ v.short = IF "SHORT_TIME" \in day.approved THEN 0 ELSE u.short
      /\ v.over = u.over
  <2>1. u = [worked |-> u.worked, late |-> u.late, short |-> u.short, over |-> u.over]
    BY DEF Values
  <2> HIDE DEF u
  <2> QED  BY <2>1 DEF applyExceptions
<1> HIDE DEF u, v
<1>3. v.late \in Int /\ v.short \in Nat  BY <1>1, <1>2
<1>4. /\ v.late = 0 => late = {}
      /\ \A x \in late : /\ x.type = "LATENESS"
                         /\ p.penaltyCapPerDay > 0 => x.amount <= p.penaltyCapPerDay
  BY <1>3, LatenessCapped
<1>5. /\ v.short = 0 => short = {}
      /\ \A x \in short : /\ x.type = "SHORT_TIME"
                          /\ p.penaltyCapPerDay > 0 => x.amount <= p.penaltyCapPerDay
  BY <1>3, ShortTimeCapped
<1>6. \A x \in missed : x.type = "MISSED_PUNCH" /\ x.amount = 0  BY DEF Penalty
<1>7. P = late \cup short \cup missed  BY DEF computePenalties
<1>8. O = {} \/ v.over > 0  BY DEF computeOvertime
<1>9. p.penaltyCapPerDay \in Int  BY DEF IsPolicy
<1> HIDE DEF late, short, missed, P, O
<1>10. v.late = 0 => is("LATENESS") = {}  BY <1>4, <1>5, <1>6, <1>7
<1>11. v.short = 0 => is("SHORT_TIME") = {}  BY <1>4, <1>5, <1>6, <1>7
<1>12. p.penaltyCapPerDay > 0 => capped  BY <1>4, <1>5, <1>6, <1>7, <1>9
<1>13. O = {} \/ v.short = 0  BY <1>1, <1>2, <1>8
<1>14. computePolicyResults(day, p) = [values |-> v, penalties |-> P, overtime |-> O]
  BY Zenon DEF computePolicyResults, u, v, P, O
<1>15. ResultsAreFair(day, p) <=>
          /\ FullDay(day) /\ p.roundingRule \in {"NONE", "ROUND_UP"} => is("SHORT_TIME") = {}
          /\ "LATE" \in day.approved => is("LATENESS") = {}
          /\ "SHORT_TIME" \in day.approved => is("SHORT_TIME") = {}
          /\ O = {} \/ is("SHORT_TIME") = {}
          /\ p.penaltyCapPerDay > 0 => capped
  BY <1>14 DEF ResultsAreFair, FullDay
<1> HIDE DEF is, capped
<1> QED  BY <1>1, <1>2, <1>10, <1>11, <1>12, <1>13, <1>15

-----------------------------------------------------------------------------
(* The closing of a period.                                                 *)

\* A sum over some of the results.
Amounts0(results) == [x \in results |-> x.amount]

LEMMA AmountsTotal ==
    ASSUME NEW results, AreResults(results), NEW S \in SUBSET results
    PROVE  /\ Total(S, LAMBDA x : x.amount) = SumFunctionOnSet(Amounts0(results), S)
           /\ SumFunctionOnSet(Amounts0(results), S) \in Int
<1> DEFINE f == Amounts0(results)
           g == [x \in S |-> x.amount]
<1>1. IsFiniteSet(S)  BY FS_Subset DEF AreResults
<1>2. \A x \in S : f[x] \in Int /\ g[x] = f[x]  BY DEF AreResults, Amounts0
<1>3. Total(S, LAMBDA x : x.amount) = SumFunctionOnSet(g, S)  BY DEF Total
<1> HIDE DEF f, g
<1>4. SumFunctionOnSet(g, S) = SumFunctionOnSet(f, S)  BY <1>1, <1>2, SumSame
<1>5. SumFunctionOnSet(f, S) \in Int  BY <1>1, <1>2, SumInt
<1> QED  BY <1>3, <1>4, <1>5 DEF f

\* The finite image of a function.
LEMMA ImageFinite ==
    ASSUME NEW S, IsFiniteSet(S), NEW f
    PROVE  IsFiniteSet({f[x] : x \in S})
<1> DEFINE T == {f[x] : x \in S}
           g == [x \in S |-> f[x]]
<1>1. g \in Surjection(S, T)  BY DEF Surjection
<1> HIDE DEF T, g
<1>2. IsFiniteSet(T)  BY <1>1, FS_Surjection
<1> QED  BY <1>2 DEF T

\* The approved results of a kind on some records.
Approved(records, results, kind) ==
    UNION {ResultsOf(results, r, kind, "APPROVED") : r \in records}

Employees(records) == {r.employee : r \in records}

RecordsOf(records, e) == {r \in records : r.employee = e}

\* Added up employee by employee they are all there, once.
LEMMA ByEmployee ==
    ASSUME NEW sent, IsFiniteSet(sent), \A r, s \in sent : r.id = s.id => r = s,
           NEW results, AreResults(results), NEW kind,
           NEW g, \A e \in Employees(sent) :
                     g[e] = SumFunctionOnSet(Amounts0(results),
                                             Approved(RecordsOf(sent, e), results, kind))
    PROVE  SumFunctionOnSet(g, Employees(sent))
              = SumFunctionOnSet(Amounts0(results), Approved(sent, results, kind))
<1> DEFINE S == Approved(sent, results, kind)
           A(e) == Approved(RecordsOf(sent, e), results, kind)
           E == Employees(sent)
           f == Amounts0(results)
           owner(x) == CHOOSE r \in sent : r.id = x.record
           c == [x \in S |-> owner(x).employee]
<1>1. S \subseteq results  BY DEF Approved, ResultsOf
<1>2. IsFiniteSet(S)  BY <1>1, FS_Subset DEF AreResults
<1>3. \A x \in S : f[x] \in Int  BY <1>1 DEF AreResults, Amounts0
<1>4. IsFiniteSet(E)
  <2> DEFINE employee == [r \in sent |-> r.employee]
  <2>1. E = {employee[r] : r \in sent}  BY DEF Employees
  <2> HIDE DEF employee
  <2>2. IsFiniteSet({employee[r] : r \in sent})  BY ImageFinite
  <2> QED  BY <2>1, <2>2
<1>5. \A x \in S : \E r \in sent : r.id = x.record /\ x \in ResultsOf(results, r, kind, "APPROVED")
  BY DEF Approved, ResultsOf
<1>6. \A x \in S : owner(x) \in sent /\ owner(x).id = x.record  BY <1>5
<1>7. ASSUME NEW e \in E  PROVE A(e) = {x \in S : c[x] = e}
  <2>1. ASSUME NEW x \in S, c[x] = e  PROVE x \in A(e)
    <3>1. owner(x) \in sent /\ owner(x).employee = e /\ owner(x).id = x.record  BY <1>6, <2>1
    <3>2. x \in ResultsOf(results, owner(x), kind, "APPROVED")  BY <1>5, <3>1 DEF ResultsOf
    <3> HIDE DEF owner
    <3> QED  BY <3>1, <3>2 DEF Approved, RecordsOf
  <2>2. ASSUME NEW x \in A(e)  PROVE x \in S /\ c[x] = e
    <3>1. PICK r \in sent : r.employee = e /\ x \in ResultsOf(results, r, kind, "APPROVED")
      BY DEF Approved, RecordsOf
    <3>2. x \in S  BY <3>1 DEF Approved
    <3>3. r.id = x.record  BY <3>1 DEF ResultsOf
    <3>4. owner(x) = r  BY <1>6, <3>2, <3>3
    <3> HIDE DEF owner
    <3> QED  BY <3>1, <3>2, <3>4
  <2> HIDE DEF A, S, c
  <2> QED  BY <2>1, <2>2
<1>8. \A x \in S : c[x] \in E  BY <1>6 DEF Employees
<1>9. \A e \in E : g[e] = SumFunctionOnSet(f, {x \in S : c[x] = e})  BY <1>7
<1> HIDE DEF S, f, c, E
<1>10. SumsByClass(f, S, E, c, g)  BY <1>2, <1>3, <1>4, <1>8, <1>9 DEF SumsByClass
<1>11. SumFunctionOnSet(g, E) = SumFunctionOnSet(f, S)  BY <1>10, SumPartition
<1> QED  BY <1>11 DEF S, f, E

\* For all records, results, exceptions, periods and deadlines.
LEMMA ValidComplete ==
    ASSUME NEW records, AreRecords(records), NEW results, AreResults(results),
           NEW exceptions, IsFiniteSet(exceptions), NEW from, NEW to, NEW deadline
    PROVE  ValidMeansComplete(records, results, exceptions, from, to, deadline)
<1> DEFINE due == {r \in records : Within(r.recordDate, from, to)}
           standing(kind) == {x \in results : /\ x.kind = kind
                                              /\ x.status \notin {"REJECTED", "OVERRIDDEN"}
                                              /\ \E r \in due : x.record = r.id}
           payload == generatePayrollPayload(records, results, from, to, {})
           valid == validatePrePayroll(records, results, exceptions, from, to).isValid
           sent == Sent(records, from, to, {})
           E == Employees(sent)
           f == Amounts0(results)
           A(kind) == Approved(sent, results, kind)
           B(e, kind) == Approved(RecordsOf(sent, e), results, kind)
           over == [e \in E |-> SumFunctionOnSet(f, B(e, "OVERTIME"))]
           pen == [e \in E |-> SumFunctionOnSet(f, B(e, "PENALTY"))]
           h == [e \in E |-> over[e] - pen[e]]
<1> SUFFICES ASSUME DatedAsRecorded(records, results), valid
             PROVE  /\ payload.totalRecords = Cardinality(due)
                    /\ payload.totalAmount = Total(standing("OVERTIME"), LAMBDA x : x.amount)
                                                - Total(standing("PENALTY"), LAMBDA x : x.amount)
                    /\ checkAndEscalate(results, from, to, deadline) = {}
  BY DEF ValidMeansComplete
<1>1. /\ Pending(results, "OVERTIME", from, to) = {}
      /\ Pending(results, "PENALTY", from, to) = {}
      /\ \A r \in due : r.finalisedForPayroll
  <2> DEFINE a == Pending(results, "OVERTIME", from, to)
             b == Pending(results, "PENALTY", from, to)
             o == {r \in due : ~r.finalisedForPayroll}
             u == [r \in due |-> Cardinality(Unresolved(exceptions, r))]
             t == SumFunctionOnSet(u, due)
  <2>1. Cardinality(a) + Cardinality(b) = 0 /\ t + Cardinality(o) = 0
    BY DEF validatePrePayroll, Total
  <2>2. IsFiniteSet(a) /\ IsFiniteSet(b)
    <3>1. a \in SUBSET results /\ b \in SUBSET results  BY DEF Pending
    <3> HIDE DEF a, b
    <3> QED  BY <3>1, FS_Subset DEF AreResults
  <2>3. IsFiniteSet(due) /\ IsFiniteSet(o)  BY FS_Subset DEF AreRecords
  <2>4. ASSUME NEW r \in due  PROVE u[r] \in Nat
    <3>1. Unresolved(exceptions, r) \in SUBSET exceptions  BY DEF Unresolved
    <3>2. Cardinality(Unresolved(exceptions, r)) \in Nat  BY <3>1, FS_Subset, FS_CardinalityType
    <3> QED  BY <3>2
  <2> HIDE DEF a, b, u
  <2>5. t \in Nat  BY <2>3, <2>4, SumCovers
  <2>6. Cardinality(a) \in Nat /\ Cardinality(b) \in Nat /\ Cardinality(o) \in Nat
    BY <2>2, <2>3, FS_CardinalityType
  <2> HIDE DEF t, o
  <2>7. Cardinality(a) = 0 /\ Cardinality(b) = 0 /\ Cardinality(o) = 0  BY <2>1, <2>5, <2>6
  <2>8. a = {} /\ b = {} /\ o = {}  BY <2>2, <2>3, <2>7, FS_EmptySet
  <2> QED  BY <2>8 DEF a, b, o
<1>2. sent = due  BY <1>1 DEF Sent
<1>3. checkAndEscalate(results, from, to, deadline) = {}  BY <1>1 DEF checkAndEscalate
<1>4. ASSUME NEW kind \in {"OVERTIME", "PENALTY"}  PROVE standing(kind) = A(kind)
  <2>1. ASSUME NEW x \in standing(kind)  PROVE x \in A(kind)
    <3>1. PICK r \in due : x.record = r.id  OBVIOUS
    <3>2. x.recordDate = r.recordDate  BY <3>1 DEF DatedAsRecorded
    <3>3. x.status # "PENDING"
      <4>1. x \notin Pending(results, kind, from, to)  BY <1>1
      <4>2. Within(x.recordDate, from, to)  BY <3>1, <3>2
      <4> QED  BY <4>1, <4>2 DEF Pending
    <3>4. x.status = "APPROVED"  BY <3>3 DEF AreResults
    <3>5. x \in ResultsOf(results, r, kind, "APPROVED")  BY <3>1, <3>4 DEF ResultsOf
    <3> HIDE DEF due, sent
    <3> QED  BY <1>2, <3>1, <3>5 DEF Approved
  <2>2. ASSUME NEW x \in A(kind)  PROVE x \in standing(kind)
    <3>1. PICK r \in sent : x \in ResultsOf(results, r, kind, "APPROVED")  BY DEF Approved
    <3>2. r \in due  BY <1>2
    <3> HIDE DEF due, sent
    <3> QED  BY <3>1, <3>2 DEF ResultsOf
  <2> HIDE DEF standing, A
  <2> QED  BY <2>1, <2>2
<1>5. IsFiniteSet(sent) /\ \A r, s \in sent : r.id = s.id => r = s
  <2>1. IsFiniteSet(due)  BY FS_Subset DEF AreRecords
  <2> QED  BY <1>2, <2>1 DEF AreRecords
<1>6. \A e, kind : B(e, kind) \in SUBSET results  BY DEF Approved, ResultsOf
<1>7. \A kind : A(kind) \in SUBSET results  BY DEF Approved, ResultsOf
<1>8. \A e \in E : over[e] \in Int /\ pen[e] \in Int /\ h[e] = over[e] - pen[e]
  <2>1. \A e, kind : SumFunctionOnSet(f, B(e, kind)) \in Int
    <3> HIDE DEF f, B
    <3> QED  BY <1>6, AmountsTotal DEF f
  <2> HIDE DEF f, B
  <2> QED  BY <2>1
<1>9. payload.totalAmount = SumFunctionOnSet(h, E)
  <2> DEFINE row(e) == Totals(RecordsOf(sent, e), results)
             rows == [e \in E |-> row(e)]
  <2>1. payload = [rows |-> rows, totalRecords |-> Cardinality(sent),
                   totalAmount |-> Total(DOMAIN rows, LAMBDA e : rows[e].overtime - rows[e].penalties)]
    BY DEF generatePayrollPayload, RecordsOf, Employees
  <2>2. ASSUME NEW e \in E  PROVE rows[e].overtime = over[e] /\ rows[e].penalties = pen[e]
    <3>1. /\ row(e).overtime = Total(B(e, "OVERTIME"), LAMBDA x : x.amount)
          /\ row(e).penalties = Total(B(e, "PENALTY"), LAMBDA x : x.amount)
      BY DEF Totals, Approved
    <3>2. /\ Total(B(e, "OVERTIME"), LAMBDA x : x.amount) = over[e]
          /\ Total(B(e, "PENALTY"), LAMBDA x : x.amount) = pen[e]
      <4> HIDE DEF B
      <4> QED  BY <1>6, AmountsTotal
    <3>3. rows[e] = row(e)  OBVIOUS
    <3> HIDE DEF rows, row, over, pen
    <3> QED  BY <3>1, <3>2, <3>3
  <2> DEFINE k == [e \in E |-> rows[e].overtime - rows[e].penalties]
  <2>3. payload.totalAmount = SumFunctionOnSet(k, E)
    <3>1. DOMAIN rows = E  OBVIOUS
    <3> HIDE DEF rows, payload
    <3> QED  BY <2>1, <3>1 DEF Total
  <2>4. k = h
    <3> HIDE DEF rows, over, pen
    <3> QED  BY <2>2
  <2> QED  BY <2>3, <2>4
<1>10. payload.totalRecords = Cardinality(due)
  BY <1>2 DEF generatePayrollPayload
<1>11. IsFiniteSet(E)
  <2> DEFINE employee == [r \in sent |-> r.employee]
  <2>1. E = {employee[r] : r \in sent}  BY DEF Employees
  <2> HIDE DEF employee, sent
  <2>2. IsFiniteSet({employee[r] : r \in sent})  BY <1>5, ImageFinite
  <2> HIDE DEF E
  <2> QED  BY <2>1, <2>2
<1>12. SumFunctionOnSet(h, E) = SumFunctionOnSet(over, E) - SumFunctionOnSet(pen, E)
  <2> HIDE DEF h, E, over, pen
  <2> QED  BY <1>8, <1>11, SumMinus
<1>13. /\ SumFunctionOnSet(over, E) = SumFunctionOnSet(f, A("OVERTIME"))
       /\ SumFunctionOnSet(pen, E) = SumFunctionOnSet(f, A("PENALTY"))
  <2>1. /\ \A e \in E : over[e] = SumFunctionOnSet(Amounts0(results),
                                    Approved(RecordsOf(sent, e), results, "OVERTIME"))
        /\ \A e \in E : pen[e] = SumFunctionOnSet(Amounts0(results),
                                    Approved(RecordsOf(sent, e), results, "PENALTY"))
    OBVIOUS
  <2> HIDE DEF over, pen, sent
  <2> QED  BY <1>5, <2>1, ByEmployee
<1>14. \A kind \in {"OVERTIME", "PENALTY"} :
          Total(standing(kind), LAMBDA x : x.amount) = SumFunctionOnSet(f, A(kind))
  <2> SUFFICES ASSUME NEW kind \in {"OVERTIME", "PENALTY"}
               PROVE  Total(standing(kind), LAMBDA x : x.amount) = SumFunctionOnSet(f, A(kind))
    OBVIOUS
  <2>1. Total(A(kind), LAMBDA x : x.amount) = SumFunctionOnSet(f, A(kind))
    <3> HIDE DEF A
    <3> QED  BY <1>7, AmountsTotal
  <2>2. standing(kind) = A(kind)  BY <1>4
  <2> HIDE DEF standing, A, f
  <2> QED  BY <2>1, <2>2
<1> HIDE DEF standing, A, payload, h, over, pen, E, f, due
<1>15. payload.totalAmount = Total(standing("OVERTIME"), LAMBDA x : x.amount)
                                - Total(standing("PENALTY"), LAMBDA x : x.amount)
  BY <1>9, <1>12, <1>13, <1>14
<1> QED  BY <1>3, <1>10, <1>15

-----------------------------------------------------------------------------
(* Months, years and certificates.                                          *)

MonthOf(t, year) == t \div 4 - 12 * year + 1

\* A moment that is not in the last second of a month is in one month.
LEMMA InOneMonth ==
    ASSUME NEW t \in Int, NEW year \in Int, t % 4 # 3
    PROVE  /\ MonthOf(t, year) \in Int
           /\ \A m \in Int :
                 MonthBegins(year, m) <= t /\ t <= LastSecond(year, m) <=> MonthOf(t, year) = m
           /\ MonthBegins(year, 1) <= t /\ t <= LastSecond(year, 12) <=> MonthOf(t, year) \in Months
<1> DEFINE q == t \div 4
           r == t % 4
<1>1. q \in Int /\ r \in 0 .. 2 /\ t = 4 * q + r  OBVIOUS
<1>2. MonthOf(t, year) = q - 12 * year + 1  BY DEF MonthOf
<1> HIDE DEF q, r
<1>3. MonthOf(t, year) \in Int  BY <1>1, <1>2
<1>4. \A m \in Int :
         MonthBegins(year, m) <= t /\ t <= LastSecond(year, m) <=> MonthOf(t, year) = m
  BY <1>1, <1>2 DEF MonthBegins, LastSecond, Instant
<1>5. MonthBegins(year, 1) <= t /\ t <= LastSecond(year, 12) <=> MonthOf(t, year) \in Months
  BY <1>1, <1>2 DEF MonthBegins, LastSecond, Instant, Months
<1> QED  BY <1>3, <1>4, <1>5

\* What is dated from one moment to another.
Between(S, at, from, to) == {x \in S : at[x] >= from /\ at[x] <= to}

\* g is the sum of f over what is dated in each month.
SumsByMonth(S, at, f, year, g) ==
    /\ IsFiniteSet(S) /\ year \in Int
    /\ \A x \in S : at[x] \in Int /\ at[x] % 4 # 3 /\ f[x] \in Int
    /\ \A m \in Months :
          g[m] = SumFunctionOnSet(f, Between(S, at, MonthBegins(year, m), LastSecond(year, m)))

\* The sums of the months add up to the sum of the year.
LEMMA MonthsAddUp ==
    ASSUME NEW S, NEW at, NEW f, NEW year, NEW g, SumsByMonth(S, at, f, year, g)
    PROVE  SumFunctionOnSet(g, Months)
              = SumFunctionOnSet(f, Between(S, at, MonthBegins(year, 1), LastSecond(year, 12)))
<1> USE DEF SumsByMonth
<1> DEFINE Y == Between(S, at, MonthBegins(year, 1), LastSecond(year, 12))
           c == [x \in Y |-> MonthOf(at[x], year)]
<1>1. IsFiniteSet(Y) /\ Y \subseteq S  BY FS_Subset DEF Between
<1>2. \A m \in Months : m \in Int /\ MonthBegins(year, m) \in Int /\ LastSecond(year, m) \in Int
  BY DEF Months, MonthBegins, LastSecond, Instant
<1>3. MonthBegins(year, 1) \in Int /\ LastSecond(year, 12) \in Int  BY <1>2 DEF Months
<1>4. \A x \in S : x \in Y <=> MonthOf(at[x], year) \in Months
  <2> SUFFICES ASSUME NEW x \in S  PROVE x \in Y <=> MonthOf(at[x], year) \in Months
    OBVIOUS
  <2> DEFINE t == at[x]
  <2>1. t \in Int /\ t % 4 # 3  OBVIOUS
  <2>2. x \in Y <=> MonthBegins(year, 1) <= t /\ t <= LastSecond(year, 12)
    BY <1>3, <2>1 DEF Between
  <2> HIDE DEF t
  <2>3. x \in Y <=> MonthOf(t, year) \in Months  BY <2>1, <2>2, InOneMonth
  <2> QED  BY <2>3 DEF t
<1>5. ASSUME NEW m \in Months
      PROVE  Between(S, at, MonthBegins(year, m), LastSecond(year, m)) = {x \in Y : c[x] = m}
  <2> SUFFICES ASSUME NEW x \in S
               PROVE  /\ at[x] >= MonthBegins(year, m) /\ at[x] <= LastSecond(year, m)
                            <=> MonthOf(at[x], year) = m
                      /\ MonthOf(at[x], year) = m => x \in Y
    BY <1>1 DEF Between
  <2> DEFINE t == at[x]
  <2>1. t \in Int /\ t % 4 # 3  OBVIOUS
  <2>2. t >= MonthBegins(year, m) <=> MonthBegins(year, m) <= t  BY <1>2, <2>1
  <2> HIDE DEF t
  <2>3. MonthBegins(year, m) <= t /\ t <= LastSecond(year, m) <=> MonthOf(t, year) = m
    BY <1>2, <2>1, InOneMonth
  <2> QED  BY <1>4, <2>2, <2>3 DEF t
<1>6. IsFiniteSet(Months)
  <2>1. \A n \in Int : IsFiniteSet(1 .. n)  BY FS_Interval
  <2>2. 12 \in Int  OBVIOUS
  <2> QED  BY <2>1, <2>2, Zenon DEF Months
<1>7. \A x \in Y : f[x] \in Int /\ c[x] \in Months  BY <1>1, <1>4
<1>8. \A m \in Months : g[m] = SumFunctionOnSet(f, {x \in Y : c[x] = m})  BY <1>5
<1> HIDE DEF Y, c
<1>9. SumsByClass(f, Y, Months, c, g)  BY <1>1, <1>6, <1>7, <1>8 DEF SumsByClass
<1>10. SumFunctionOnSet(g, Months) = SumFunctionOnSet(f, Y)  BY <1>9, SumPartition
<1> QED  BY <1>10 DEF Y

\* What a summary counts and adds up, as functions of the documents.
One(S) == [x \in S |-> 1]
PaidFor(runs) == [r \in runs |-> r.payrollPeriod]
MadeAt(slips) == [p \in slips |-> p.createdAt]
EmployeesPaid(runs) == [r \in runs |-> r.employees]
NetPaid(runs) == [r \in runs |-> r.totalnetpay]
GrossOf(slips) == [p \in slips |-> p.totalGrossSalary]
DeductionsOf(slips) == [p \in slips |-> p.totaDeductions]

\* A summary is three sums over what was paid.
LEMMA SummaryIs ==
    ASSUME None \notin Int, NEW slips, ArePayslips(slips), NEW runs, AreRuns(runs),
           NEW from \in Int, NEW to \in Int
    PROVE  LET s == Summary(slips, runs, from, to)
               paid == Between(runs, PaidFor(runs), from, to)
               made == Between(slips, MadeAt(slips), from, to)
           IN  s = [totalPayrollRuns |-> SumFunctionOnSet(One(runs), paid),
                    totalEmployees |-> SumFunctionOnSet(EmployeesPaid(runs), paid),
                    totalNetPay |-> SumFunctionOnSet(NetPaid(runs), paid),
                    totalGrossSalary |-> SumFunctionOnSet(GrossOf(slips), made),
                    totalDeductions |-> SumFunctionOnSet(DeductionsOf(slips), made)]
<1> DEFINE paid == Between(runs, PaidFor(runs), from, to)
           made == Between(slips, MadeAt(slips), from, to)
           e == [r \in paid |-> r.employees]
           n == [r \in paid |-> r.totalnetpay]
           g == [p \in made |-> p.totalGrossSalary]
           d == [p \in made |-> p.totaDeductions]
<1>1. from # None /\ to # None  OBVIOUS
<1>2. RunsOf(runs, from, to) = paid  BY <1>1 DEF RunsOf, Between, PaidFor
<1>3. Created(slips, from, to) = made  BY <1>1 DEF Created, Between, MadeAt
<1>4. Summary(slips, runs, from, to) =
         [totalPayrollRuns |-> Cardinality(paid), totalEmployees |-> SumFunctionOnSet(e, paid),
          totalNetPay |-> SumFunctionOnSet(n, paid), totalGrossSalary |-> SumFunctionOnSet(g, made),
          totalDeductions |-> SumFunctionOnSet(d, made)]
  <2> HIDE DEF paid, made
  <2> QED  BY <1>2, <1>3 DEF Summary, Total
<1>5. IsFiniteSet(paid) /\ paid \subseteq runs /\ IsFiniteSet(made) /\ made \subseteq slips
  BY FS_Subset DEF Between, AreRuns, ArePayslips
<1>6. /\ \A r \in paid : /\ One(runs)[r] = 1
                         /\ EmployeesPaid(runs)[r] \in Int /\ e[r] = EmployeesPaid(runs)[r]
                         /\ NetPaid(runs)[r] \in Int /\ n[r] = NetPaid(runs)[r]
      /\ \A p \in made : /\ GrossOf(slips)[p] \in Int /\ g[p] = GrossOf(slips)[p]
                         /\ DeductionsOf(slips)[p] \in Int /\ d[p] = DeductionsOf(slips)[p]
  BY <1>5 DEF One, EmployeesPaid, NetPaid, GrossOf, DeductionsOf, AreRuns, ArePayslips
<1> HIDE DEF paid, made, e, n, g, d
<1>7. SumFunctionOnSet(One(runs), paid) = Cardinality(paid)  BY <1>5, <1>6, SumOnes
<1>8. SumFunctionOnSet(e, paid) = SumFunctionOnSet(EmployeesPaid(runs), paid)  BY <1>5, <1>6, SumSame
<1>9. SumFunctionOnSet(n, paid) = SumFunctionOnSet(NetPaid(runs), paid)  BY <1>5, <1>6, SumSame
<1>10. SumFunctionOnSet(g, made) = SumFunctionOnSet(GrossOf(slips), made)  BY <1>5, <1>6, SumSame
<1>11. SumFunctionOnSet(d, made) = SumFunctionOnSet(DeductionsOf(slips), made)
  BY <1>5, <1>6, SumSame
<1> QED  BY <1>4, <1>7, <1>8, <1>9, <1>10, <1>11 DEF paid, made

\* The lines of a report of taxes or insurance.
Lines(p, kind) == {[payslipId |-> p.id, item |-> i] : i \in p[kind]}

\* The lines of a report on taxes or insurance are those of its payslips.
LEMMA BreakdownIs ==
    ASSUME NEW slips, NEW from, NEW to
    PROVE  /\ getTaxReport(slips, from, to).breakdown
                 = UNION {Lines(p, "taxes") : p \in Created(slips, from, to)}
           /\ getInsuranceReport(slips, from, to).breakdown
                 = UNION {Lines(p, "insurances") : p \in Created(slips, from, to)}
BY DEF getTaxReport, getInsuranceReport, Itemised, Lines

\* For all payslips, runs and years.
LEMMA YearOfMonths ==
    ASSUME None \notin Int, NEW slips, ArePayslips(slips), NEW runs, AreRuns(runs), NEW year \in Int
    PROVE  MonthsMakeTheYear(slips, runs, year)
<1> DEFINE first(m) == MonthBegins(year, m)
           last(m) == LastSecond(year, m)
           y == getYearEndSummary(slips, runs, year)
           month(m) == getMonthEndSummary(slips, runs, year, m)
           items(from, to) == getTaxReport(slips, from, to).breakdown
                                 \cup getInsuranceReport(slips, from, to).breakdown
           paid(from, to) == Between(runs, PaidFor(runs), from, to)
           made(from, to) == Between(slips, MadeAt(slips), from, to)
<1> SUFFICES ASSUME \A p \in slips : Dated(p, p.createdAt), \A r \in runs : Dated(r, r.payrollPeriod)
             PROVE  /\ \A f \in DOMAIN y.total :
                          y.total[f] = Total(Months, LAMBDA m : y.monthlyBreakdown[m][f])
                    /\ \A m \in Months : getDepartmentReport(runs, first(m), last(m)).totalNetPay
                                            = y.monthlyBreakdown[m].totalNetPay
                    /\ items(first(1), last(12)) = UNION {items(first(m), last(m)) : m \in Months}
  BY Zenon DEF MonthsMakeTheYear
<1>1. \A m \in Months : m \in Int /\ first(m) \in Int /\ last(m) \in Int
  BY DEF Months, MonthBegins, LastSecond, Instant
<1>2. first(1) \in Int /\ last(12) \in Int  BY <1>1 DEF Months
<1>3. /\ y.total = Summary(slips, runs, first(1), last(12))
      /\ \A m \in Months : /\ y.monthlyBreakdown[m] = month(m)
                           /\ month(m) = Summary(slips, runs, first(m), last(m))
  BY DEF getYearEndSummary, getMonthEndSummary
<1>4. /\ IsFiniteSet(runs) /\ IsFiniteSet(slips)
      /\ \A r \in runs : /\ PaidFor(runs)[r] \in Int /\ PaidFor(runs)[r] % 4 # 3
                         /\ One(runs)[r] \in Int /\ EmployeesPaid(runs)[r] \in Int
                         /\ NetPaid(runs)[r] \in Int
      /\ \A p \in slips : /\ MadeAt(slips)[p] \in Int /\ MadeAt(slips)[p] % 4 # 3
                          /\ GrossOf(slips)[p] \in Int /\ DeductionsOf(slips)[p] \in Int
  BY DEF PaidFor, MadeAt, One, EmployeesPaid, NetPaid, GrossOf, DeductionsOf, AreRuns, ArePayslips,
         Dated
<1> HIDE DEF y, month, first, last
<1> DEFINE sums(from, to) ==
              [totalPayrollRuns |-> SumFunctionOnSet(One(runs), paid(from, to)),
               totalEmployees |-> SumFunctionOnSet(EmployeesPaid(runs), paid(from, to)),
               totalNetPay |-> SumFunctionOnSet(NetPaid(runs), paid(from, to)),
               totalGrossSalary |-> SumFunctionOnSet(GrossOf(slips), made(from, to)),
               totalDeductions |-> SumFunctionOnSet(DeductionsOf(slips), made(from, to))]
<1>5. \A from, to \in Int : Summary(slips, runs, from, to) = sums(from, to)
  BY SummaryIs
<1>6. y.total = sums(first(1), last(12)) /\ \A m \in Months : y.monthlyBreakdown[m] = sums(first(m), last(m))
  <2> HIDE DEF sums
  <2> QED  BY <1>1, <1>2, <1>3, <1>5
<1>7. DOMAIN y.total = {"totalPayrollRuns", "totalEmployees", "totalNetPay", "totalGrossSalary",
                        "totalDeductions"}
  BY <1>6
<1>8. ASSUME NEW f \in DOMAIN y.total
      PROVE  y.total[f] = Total(Months, LAMBDA m : y.monthlyBreakdown[m][f])
  <2> DEFINE g == [m \in Months |-> y.monthlyBreakdown[m][f]]
  <2>1. Total(Months, LAMBDA m : y.monthlyBreakdown[m][f]) = SumFunctionOnSet(g, Months)
    BY DEF Total
  <2>2. \A m \in Months : g[m] = sums(first(m), last(m))[f]  BY <1>6
  <2>3. y.total[f] = sums(first(1), last(12))[f]  BY <1>6
  <2> HIDE DEF g
  <2>4. CASE f = "totalPayrollRuns"
    <3>1. \A m \in Months : g[m] = SumFunctionOnSet(One(runs), paid(first(m), last(m)))
      BY <2>2, <2>4
    <3>2. SumsByMonth(runs, PaidFor(runs), One(runs), year, g)
      BY <1>4, <3>1 DEF first, last, SumsByMonth
    <3>3. SumFunctionOnSet(g, Months) = SumFunctionOnSet(One(runs), paid(first(1), last(12)))
      BY <3>2, MonthsAddUp DEF first, last
    <3> QED  BY <2>1, <2>3, <2>4, <3>3
  <2>5. CASE f = "totalEmployees"
    <3>1. \A m \in Months : g[m] = SumFunctionOnSet(EmployeesPaid(runs), paid(first(m), last(m)))
      BY <2>2, <2>5
    <3>2. SumsByMonth(runs, PaidFor(runs), EmployeesPaid(runs), year, g)
      BY <1>4, <3>1 DEF first, last, SumsByMonth
    <3>3. SumFunctionOnSet(g, Months) = SumFunctionOnSet(EmployeesPaid(runs), paid(first(1), last(12)))
      BY <3>2, MonthsAddUp DEF first, last
    <3> QED  BY <2>1, <2>3, <2>5, <3>3
  <2>6. CASE f = "totalNetPay"
    <3>1. \A m \in Months : g[m] = SumFunctionOnSet(NetPaid(runs), paid(first(m), last(m)))
      BY <2>2, <2>6
    <3>2. SumsByMonth(runs, PaidFor(runs), NetPaid(runs), year, g)
      BY <1>4, <3>1 DEF first, last, SumsByMonth
    <3>3. SumFunctionOnSet(g, Months) = SumFunctionOnSet(NetPaid(runs), paid(first(1), last(12)))
      BY <3>2, MonthsAddUp DEF first, last
    <3> QED  BY <2>1, <2>3, <2>6, <3>3
  <2>7. CASE f = "totalGrossSalary"
    <3>1. \A m \in Months : g[m] = SumFunctionOnSet(GrossOf(slips), made(first(m), last(m)))
      BY <2>2, <2>7
    <3>2. SumsByMonth(slips, MadeAt(slips), GrossOf(slips), year, g)
      BY <1>4, <3>1 DEF first, last, SumsByMonth
    <3>3. SumFunctionOnSet(g, Months) = SumFunctionOnSet(GrossOf(slips), made(first(1), last(12)))
      BY <3>2, MonthsAddUp DEF first, last
    <3> QED  BY <2>1, <2>3, <2>7, <3>3
  <2>8. CASE f = "totalDeductions"
    <3>1. \A m \in Months : g[m] = SumFunctionOnSet(DeductionsOf(slips), made(first(m), last(m)))
      BY <2>2, <2>8
    <3>2. SumsByMonth(slips, MadeAt(slips), DeductionsOf(slips), year, g)
      BY <1>4, <3>1 DEF first, last, SumsByMonth
    <3>3. SumFunctionOnSet(g, Months) = SumFunctionOnSet(DeductionsOf(slips), made(first(1), last(12)))
      BY <3>2, MonthsAddUp DEF first, last
    <3> QED  BY <2>1, <2>3, <2>8, <3>3
  <2> QED  BY <1>7, <2>4, <2>5, <2>6, <2>7, <2>8
<1>9. ASSUME NEW m \in Months
      PROVE  getDepartmentReport(runs, first(m), last(m)).totalNetPay = y.monthlyBreakdown[m].totalNetPay
  <2>1. y.monthlyBreakdown[m].totalNetPay = Summary(slips, runs, first(m), last(m)).totalNetPay
    BY <1>3
  <2> QED  BY <2>1 DEF getDepartmentReport, Summary
<1>10. items(first(1), last(12)) = UNION {items(first(m), last(m)) : m \in Months}
  <2> DEFINE all(p) == Lines(p, "taxes") \cup Lines(p, "insurances")
             made1(m) == Created(slips, first(m), last(m))
  <2>1. \A from, to : items(from, to) = UNION {all(p) : p \in Created(slips, from, to)}
    BY BreakdownIs
  <2>2. ASSUME NEW p \in slips
        PROVE  p \in Created(slips, first(1), last(12)) <=> \E m \in Months : p \in made1(m)
    <3> DEFINE t == p.createdAt
    <3>1. t \in Int /\ t % 4 # 3  BY DEF ArePayslips, Dated
    <3>2. /\ p \in Created(slips, first(1), last(12)) <=> first(1) <= t /\ t <= last(12)
          /\ \A m \in Months : p \in made1(m) <=> first(m) <= t /\ t <= last(m)
      BY <1>1, <1>2, <3>1 DEF Created
    <3> HIDE DEF t, made1
    <3>3. /\ first(1) <= t /\ t <= last(12) <=> MonthOf(t, year) \in Months
          /\ \A m \in Months : first(m) <= t /\ t <= last(m) <=> MonthOf(t, year) = m
      BY <1>1, <3>1, InOneMonth DEF first, last
    <3> QED  BY <3>2, <3>3
  <2>3. Created(slips, first(1), last(12)) \subseteq slips /\ \A m : made1(m) \subseteq slips
    BY DEF Created
  <2> DEFINE Y == Created(slips, first(1), last(12))
  <2>4. items(first(1), last(12)) = UNION {all(p) : p \in Y}  BY <2>1
  <2>5. \A m : items(first(m), last(m)) = UNION {all(p) : p \in made1(m)}  BY <2>1
  <2> HIDE DEF items, all, made1, Y
  <2>6. ASSUME NEW x \in items(first(1), last(12))
        PROVE  x \in UNION {items(first(m), last(m)) : m \in Months}
    <3>1. PICK p \in Y : x \in all(p)  BY <2>4
    <3>2. PICK m \in Months : p \in made1(m)  BY <2>2, <2>3, <3>1 DEF Y
    <3>3. x \in items(first(m), last(m))  BY <2>5, <3>1, <3>2
    <3> QED  BY <3>3
  <2>7. ASSUME NEW x \in UNION {items(first(m), last(m)) : m \in Months}
        PROVE  x \in items(first(1), last(12))
    <3>1. PICK m \in Months : x \in items(first(m), last(m))  OBVIOUS
    <3>2. PICK p \in made1(m) : x \in all(p)  BY <2>5, <3>1
    <3>3. p \in Y  BY <2>2, <2>3, <3>2 DEF Y
    <3> QED  BY <2>4, <3>2, <3>3
  <2> QED  BY <2>6, <2>7
<1> QED  BY <1>8, <1>9, <1>10

\* For all payslips and years.
LEMMA CertifiedInOneYear ==
    ASSUME None \notin Int, NEW slips, ArePayslips(slips), NEW years, years \subseteq Int
    PROVE  CertifiedOnce(slips, years)
<1> SUFFICES ASSUME NEW p \in slips
             PROVE  LET certified == {y \in years : p \in OfYear(slips, p.employeeId, y)}
                    IN  /\ Cardinality(certified) <= 1
                        /\ (\E y \in years : p.createdAt \in MonthBegins(y, 1) .. LastDayBegins(y, 12) - 1)
                               => Cardinality(certified) = 1
  BY DEF CertifiedOnce
<1> DEFINE C == {y \in years : p \in OfYear(slips, p.employeeId, y)}
           t == p.createdAt
<1>1. t \in Int  BY DEF ArePayslips
<1>2. \A y \in years : y \in C <=> 48 * y <= t /\ t <= 48 * y + 45
  BY <1>1 DEF OfYear, Created, MonthBegins, LastDayBegins, Instant
<1>3. C \subseteq years  OBVIOUS
<1>4. \A y \in years : t \in MonthBegins(y, 1) .. LastDayBegins(y, 12) - 1 => y \in C
  BY <1>1, <1>2 DEF MonthBegins, LastDayBegins, Instant
<1> HIDE DEF C, t
<1>5. \A y, z \in C : y = z  BY <1>1, <1>2, <1>3
<1>6. CASE C = {}
  <2>1. Cardinality(C) = 0  BY <1>6, FS_EmptySet
  <2> QED  BY <1>4, <1>6, <2>1 DEF C, t
<1>7. CASE C # {}
  <2>1. PICK y : y \in C  BY <1>7
  <2>2. C = {y}  BY <1>5, <2>1
  <2>3. Cardinality(C) = 1  BY <2>2, FS_Singleton
  <2> QED  BY <2>3 DEF C
<1> QED  BY <1>6, <1>7

-----------------------------------------------------------------------------
(* Reports, page by page.                                                   *)

\* A list of all the records, each once.
IsListing(s, S) ==
    /\ s \in [1 .. Cardinality(S) -> S]
    /\ \A i, j \in 1 .. Cardinality(S) : i # j => s[i] # s[j]
    /\ \A r \in S : \E i \in 1 .. Cardinality(S) : s[i] = r

\* An injective list as long as the set is has the whole set.
LEMMA ListsAll ==
    ASSUME NEW S, IsFiniteSet(S), NEW s \in [1 .. Cardinality(S) -> S],
           \A i, j \in 1 .. Cardinality(S) : i < j => s[i] # s[j]
    PROVE  IsListing(s, S)
<1> DEFINE n == Cardinality(S)
           D == 1 .. n
           T == {s[i] : i \in D}
<1>1. n \in Nat  BY FS_CardinalityType
<1>2. \A i, j \in D : i # j => s[i] # s[j]
  <2> SUFFICES ASSUME NEW i \in D, NEW j \in D, i # j  PROVE s[i] # s[j]
    OBVIOUS
  <2>1. CASE i < j  BY <2>1
  <2>2. CASE j < i  BY <2>2
  <2> QED  BY <1>1, <2>1, <2>2
<1>3. IsFiniteSet(D) /\ Cardinality(D) = n
  <2>1. IsFiniteSet(1 .. n) /\ Cardinality(1 .. n) = IF 1 > n THEN 0 ELSE n - 1 + 1
    <3> HIDE DEF n
    <3> QED  BY <1>1, FS_Interval
  <2> HIDE DEF n
  <2> QED  BY <1>1, <2>1
<1>4. s \in Surjection(D, T) /\ s \in Injection(D, T)
  <2>1. s \in [D -> T] /\ \A t \in T : \E i \in D : s[i] = t  OBVIOUS
  <2> HIDE DEF n, D, T
  <2> QED  BY <1>2, <2>1 DEF Injection, Surjection, IsInjective
<1>5. T \subseteq S  OBVIOUS
<1> HIDE DEF D, T
<1>6. Cardinality(T) = Cardinality(S)  BY <1>3, <1>4, FS_Surjection
<1>7. T = S  BY <1>5, <1>6, FS_Subset
<1> QED  BY <1>2, <1>7 DEF D, T, IsListing

\* The sort of a finite set of dated records lists them.
LEMMA SortedLists ==
    ASSUME NEW S, IsFiniteSet(S), \A r \in S : r.recordDate \in Int
    PROVE  IsListing(Sorted(S), S)
<1> DEFINE n == Cardinality(S)
           R == {p \in S \X S : p[1].recordDate >= p[2].recordDate}
           key == [r \in S |-> -r.recordDate]
           InOrder(s) == \A i, j \in DOMAIN s : i < j => s[i] # s[j] /\ s[i].recordDate >= s[j].recordDate
<1>1. ASSUME NEW t \in SUBSET S, t # {}
      PROVE  \E x \in t : \A y \in t \ {x} : <<x, y>> \in R
  <2>1. IsFiniteSet(t)  BY FS_Subset
  <2>2. \A x \in t : key[x] \in Int  OBVIOUS
  <2>3. \E x \in t : \A y \in t : key[x] <= key[y]
    <3> HIDE DEF key
    <3> QED  BY <1>1, <2>1, <2>2, LeastExists
  <2>4. PICK x \in t : \A y \in t : key[x] <= key[y]  BY <2>3
  <2>5. \A y \in t : <<x, y>> \in R
    <3> SUFFICES ASSUME NEW y \in t  PROVE <<x, y>> \in R
      OBVIOUS
    <3>1. x \in S /\ y \in S /\ -x.recordDate <= -y.recordDate  BY <2>4
    <3>2. x.recordDate >= y.recordDate  BY <3>1
    <3> QED  BY <3>1, <3>2
  <2> QED  BY <2>5
<1>2. \E s \in [1 .. n -> S] : \A i, j \in 1 .. n : i < j => s[i] # s[j] /\ <<s[i], s[j]>> \in R
  <2> HIDE DEF R
  <2> QED  BY <1>1, Listed
<1>3. \E s \in [1 .. n -> S] : InOrder(s)
  <2>1. PICK s \in [1 .. n -> S] :
           \A i, j \in 1 .. n : i < j => s[i] # s[j] /\ <<s[i], s[j]>> \in R
    BY <1>2
  <2>2. InOrder(s)
    <3> HIDE DEF n
    <3> QED  BY <2>1
  <2> QED  BY <2>2
<1>4. Sorted(S) = CHOOSE s \in [1 .. n -> S] : InOrder(s)
  BY Zenon DEF Sorted
<1>5. Sorted(S) \in [1 .. n -> S] /\ InOrder(Sorted(S))
  <2> HIDE DEF InOrder, n
  <2> QED  BY <1>3, <1>4
<1>6. \A i, j \in 1 .. n : i < j => Sorted(S)[i] # Sorted(S)[j]
  <2> HIDE DEF n
  <2> QED  BY <1>5
<1> QED  BY <1>5, <1>6, ListsAll

\* The amounts of a set of records, and those on a list.
Amounting(S) == Total(S, LAMBDA r : r.amount)

AmountListed(s) == Total(DOMAIN s, LAMBDA i : s[i].amount)

\* A listing adds up to what its set does.
LEMMA ListingTotal ==
    ASSUME NEW S, IsFiniteSet(S), \A r \in S : r.amount \in Int, NEW s, IsListing(s, S)
    PROVE  Amounting(S) = AmountListed(s)
<1> DEFINE n == Cardinality(S)
           D == 1 .. n
           f == [i \in D |-> s[i].amount]
           g == [r \in S |-> r.amount]
<1>1. n \in Nat  BY FS_CardinalityType
<1>2. IsFiniteSet(D)
  <2> HIDE DEF n
  <2> QED  BY <1>1, FS_Interval
<1>3. \A i \in D : s[i] \in S /\ f[i] \in Int  BY DEF IsListing
<1>4. ASSUME NEW r \in S  PROVE g[r] = SumFunctionOnSet(f, {i \in D : s[i] = r})
  <2>1. PICK i \in D : s[i] = r  BY DEF IsListing
  <2>2. {k \in D : s[k] = r} = {i}  BY <2>1 DEF IsListing
  <2>3. f[i] \in Int /\ f[i] = r.amount /\ g[r] = r.amount  BY <1>3, <2>1
  <2> HIDE DEF f, D, g
  <2>4. SumFunctionOnSet(f, {i}) = f[i]  BY <2>3, SumSingle
  <2> QED  BY <2>2, <2>3, <2>4
<1>5. Amounting(S) = SumFunctionOnSet(g, S) /\ AmountListed(s) = SumFunctionOnSet(f, D)
  <2>1. Amounting(S) = SumFunctionOnSet(g, S)  BY DEF Total, Amounting
  <2>2. DOMAIN s = D  BY DEF IsListing
  <2>3. AmountListed(s) = SumFunctionOnSet([i \in DOMAIN s |-> s[i].amount], DOMAIN s)
    BY DEF Total, AmountListed
  <2> HIDE DEF D
  <2> QED  BY <2>1, <2>2, <2>3
<1> HIDE DEF D, f, g
<1>6. SumsByClass(f, D, S, s, g)  BY <1>2, <1>3, <1>4 DEF SumsByClass
<1>7. SumFunctionOnSet(g, S) = SumFunctionOnSet(f, D)  BY <1>6, SumPartition
<1> QED  BY <1>5, <1>7

\* As many pages as are announced hold n records, and none of them is empty.
LEMMA Announced ==
    ASSUME NEW n \in Nat, NEW limit \in Nat \ {0}
    PROVE  /\ (n + limit - 1) \div limit \in Nat
           /\ ((n + limit - 1) \div limit) * limit >= n
           /\ \A k \in 1 .. (n + limit - 1) \div limit : (k - 1) * limit \in Nat /\ (k - 1) * limit < n
<1> DEFINE m == n + limit - 1
           T == m \div limit
<1>1. m \in Nat /\ m = n + limit - 1  OBVIOUS
<1> HIDE DEF m
<1>2. T \in Nat /\ m = limit * T + (m % limit) /\ m % limit \in 0 .. limit - 1  BY <1>1
<1> HIDE DEF T
<1>3. T * limit = limit * T /\ limit * T \in Nat  BY <1>2
<1>4. T * limit >= n  BY <1>1, <1>2, <1>3
<1>5. ASSUME NEW k \in 1 .. T  PROVE (k - 1) * limit \in Nat /\ (k - 1) * limit < n
  <2>1. (T - k) \in Nat /\ k - 1 \in Nat  BY <1>2
  <2>2. (T - k) * limit \in Nat /\ (k - 1) * limit \in Nat  BY <2>1
  <2>3. (T - k) * limit + (k - 1) * limit = T * limit - limit  BY <1>2
  <2> QED  BY <1>1, <1>2, <1>3, <2>2, <2>3
<1> QED  BY <1>2, <1>4, <1>5 DEF T, m

\* The pages up to page k joined, for k up to T.
Joined(s, limit, T, g) ==
    g = [k \in 0 .. T |-> IF k = 0 THEN <<>> ELSE g[k - 1] \o PageOf(s, k, limit)]

\* How far the pages up to page k reach.
Reach(n, limit, k) == IF k * limit <= n THEN k * limit ELSE n

\* A page goes on where the pages before it end.
LEMMA PageIsNext ==
    ASSUME NEW S, NEW s \in Seq(S), NEW limit \in Nat \ {0}, NEW k \in Nat \ {0},
           (k - 1) * limit \in Nat, (k - 1) * limit < Len(s)
    PROVE  /\ SubSeq(s, 1, Reach(Len(s), limit, k))
                 = SubSeq(s, 1, Reach(Len(s), limit, k - 1)) \o PageOf(s, k, limit)
           /\ PageOf(s, k, limit) # <<>>
<1> DEFINE a == (k - 1) * limit
           b == Reach(Len(s), limit, k)
<1>1. Len(s) \in Nat  OBVIOUS
<1>2. k * limit \in Nat /\ k * limit = a + limit  OBVIOUS
<1>3. b \in Nat /\ a < b /\ b <= Len(s)  BY <1>1, <1>2 DEF Reach
<1>4. Reach(Len(s), limit, k - 1) = a  BY DEF Reach
<1>5. PageOf(s, k, limit) = SubSeq(s, a + 1, b)  BY DEF PageOf, Reach
<1> HIDE DEF a, b
<1>6. a \in Nat  BY DEF a
<1>7. /\ 1 \in 1 .. Len(s) + 1 /\ a \in 1 - 1 .. Len(s) /\ b \in a .. Len(s)
  BY <1>1, <1>3, <1>6
<1>8. SubSeq(s, 1, a) \o SubSeq(s, a + 1, b) = SubSeq(s, 1, b)
  BY <1>7, ConcatAdjacentSubSeq
<1>9. Len(SubSeq(s, a + 1, b)) = b - a
  <2>1. a + 1 \in Int /\ b \in Int /\ \A i \in a + 1 .. b : s[i] \in S
    <3>1. \A i \in 1 .. Len(s) : s[i] \in S  OBVIOUS
    <3> QED  BY <1>1, <1>3, <1>6, <3>1
  <2>2. Len(SubSeq(s, a + 1, b)) = IF a + 1 <= b THEN b - (a + 1) + 1 ELSE 0
    BY <2>1, SubSeqProperties
  <2> QED  BY <1>3, <1>6, <2>2
<1>10. SubSeq(s, a + 1, b) # <<>>
  <2>1. Len(<<>>) = 0  OBVIOUS
  <2> QED  BY <1>3, <1>6, <1>9, <2>1
<1> QED  BY <1>4, <1>5, <1>8, <1>10 DEF b

\* The announced pages joined are the list.
LEMMA PagesJoin ==
    ASSUME NEW S, NEW s \in Seq(S), NEW limit \in Nat \ {0}, NEW T \in Nat, T * limit >= Len(s),
           \A k \in 1 .. T : (k - 1) * limit \in Nat /\ (k - 1) * limit < Len(s)
    PROVE  /\ \E g : Joined(s, limit, T, g)
           /\ \A g : Joined(s, limit, T, g) => g[T] = s
           /\ \A k \in 1 .. T : PageOf(s, k, limit) # <<>>
<1> DEFINE n == Len(s)
           h == [k \in 0 .. T |-> SubSeq(s, 1, Reach(n, limit, k))]
<1>1. n \in Nat  OBVIOUS
<1>2. \A k \in 1 .. T : /\ SubSeq(s, 1, Reach(n, limit, k))
                              = SubSeq(s, 1, Reach(n, limit, k - 1)) \o PageOf(s, k, limit)
                        /\ PageOf(s, k, limit) # <<>>
  <2> SUFFICES ASSUME NEW k \in 1 .. T
               PROVE  /\ SubSeq(s, 1, Reach(n, limit, k))
                            = SubSeq(s, 1, Reach(n, limit, k - 1)) \o PageOf(s, k, limit)
                      /\ PageOf(s, k, limit) # <<>>
    OBVIOUS
  <2>1. k \in Nat \ {0} /\ (k - 1) * limit \in Nat /\ (k - 1) * limit < Len(s)  OBVIOUS
  <2> QED  BY <2>1, PageIsNext
<1>3. SubSeq(s, 1, Reach(n, limit, 0)) = <<>>
  <2>1. Reach(n, limit, 0) = 0  BY <1>1 DEF Reach
  <2>2. SubSeq(s, 1, 0) = <<>>  BY SubSeqEmpty
  <2> QED  BY <2>1, <2>2
<1>4. SubSeq(s, 1, Reach(n, limit, T)) = s
  <2>1. T * limit \in Nat /\ T * limit >= n  OBVIOUS
  <2>2. Reach(n, limit, T) = n  BY <1>1, <2>1 DEF Reach
  <2> QED  BY <2>2, SubSeqFull
<1> HIDE DEF n
<1>5. Joined(s, limit, T, h)
  <2>1. \A k \in 0 .. T : h[k] = IF k = 0 THEN <<>> ELSE h[k - 1] \o PageOf(s, k, limit)
    <3> SUFFICES ASSUME NEW k \in 0 .. T
                 PROVE  h[k] = IF k = 0 THEN <<>> ELSE h[k - 1] \o PageOf(s, k, limit)
      OBVIOUS
    <3>1. CASE k = 0  BY <1>3, <3>1
    <3>2. CASE k # 0
      <4>1. k \in 1 .. T /\ k - 1 \in 0 .. T  BY <3>2
      <4>2. /\ h[k] = SubSeq(s, 1, Reach(n, limit, k))
            /\ h[k - 1] = SubSeq(s, 1, Reach(n, limit, k - 1))
        BY <4>1
      <4> HIDE DEF h
      <4> QED  BY <1>2, <3>2, <4>1, <4>2
    <3> QED  BY <3>1, <3>2
  <2>2. h = [k \in 0 .. T |-> h[k]]  OBVIOUS
  <2> HIDE DEF h
  <2>3. h = [k \in 0 .. T |-> IF k = 0 THEN <<>> ELSE h[k - 1] \o PageOf(s, k, limit)]
    BY <2>1, <2>2
  <2> QED  BY <2>3, Zenon DEF Joined
<1>6. ASSUME NEW g, Joined(s, limit, T, g)  PROVE g[T] = s
  <2> DEFINE K == {k \in Nat : k <= T => g[k] = SubSeq(s, 1, Reach(n, limit, k))}
  <2>1. \A k \in 0 .. T : g[k] = IF k = 0 THEN <<>> ELSE g[k - 1] \o PageOf(s, k, limit)
    BY <1>6 DEF Joined
  <2>2. 0 \in K
    <3>1. g[0] = <<>>  BY <2>1
    <3> QED  BY <1>3, <3>1
  <2>3. ASSUME NEW k \in Nat, k \in K  PROVE k + 1 \in K
    <3> SUFFICES ASSUME k + 1 <= T  PROVE g[k + 1] = SubSeq(s, 1, Reach(n, limit, k + 1))
      OBVIOUS
    <3>1. g[k] = SubSeq(s, 1, Reach(n, limit, k))  BY <2>3
    <3>2. k + 1 \in 1 .. T /\ k + 1 \in 0 .. T /\ k + 1 # 0 /\ (k + 1) - 1 = k  OBVIOUS
    <3>3. g[k + 1] = g[k] \o PageOf(s, k + 1, limit)  BY <2>1, <3>2
    <3>4. SubSeq(s, 1, Reach(n, limit, k + 1))
             = SubSeq(s, 1, Reach(n, limit, k)) \o PageOf(s, k + 1, limit)
      BY <1>2, <3>2
    <3> QED  BY <3>1, <3>3, <3>4
  <2> HIDE DEF K
  <2>4. Nat \subseteq K  BY <2>2, <2>3, SetInduction
  <2>5. T \in K  BY <2>4
  <2>6. g[T] = SubSeq(s, 1, Reach(n, limit, T))  BY <2>5 DEF K
  <2> QED  BY <1>4, <2>6
<1>7. \E g : Joined(s, limit, T, g)  BY <1>5
<1>8. \A k \in 1 .. T : PageOf(s, k, limit) # <<>>  BY <1>2
<1> QED  BY <1>6, <1>7, <1>8

\* The pages of a report up to page k joined, for k up to the last announced.
ReportJoined(records, filter, limit, g) ==
    g = [k \in 0 .. getReport(records, filter, 1, limit).totalPages |->
            IF k = 0 THEN <<>> ELSE g[k - 1] \o getReport(records, filter, k, limit).data]

\* For all records, filters and page lengths.
LEMMA PagesAreReport ==
    ASSUME NEW records, AreReported(records), NEW filter, NEW limit \in Nat \ {0}
    PROVE  PagesMakeTheReport(records, filter, limit)
<1> DEFINE found == buildQuery(records, filter)
           s == Sorted(found)
           n == Cardinality(found)
           T == (n + limit - 1) \div limit
           report(k) == getReport(records, filter, k, limit)
           g == CHOOSE g : ReportJoined(records, filter, limit, g)
           all == g[T]
<1>0. /\ exportCSV(records, filter) = s
      /\ \A k : /\ report(k).data = PageOf(s, k, limit)
                /\ report(k).totalAmount = Amounting(found)
                /\ report(k).totalPages = T
  <2>1. exportCSV(records, filter) = s  BY DEF exportCSV
  <2>2. \A k : report(k) =
                  [data |-> PageOf(s, k, limit), totalAmount |-> Amounting(found),
                   count |-> n, total |-> n, totalPages |-> T]
    BY Zenon DEF getReport, Amounting
  <2> HIDE DEF found, s, n, T, report
  <2> QED  BY <2>1, <2>2
<1>1. found \subseteq records  BY DEF buildQuery
<1>2. PagesMakeTheReport(records, filter, limit) <=>
          ((\A r, t \in records : r.recordDate = t.recordDate => r = t) =>
             /\ g[report(1).totalPages] = exportCSV(records, filter)
             /\ report(1).totalAmount = AmountListed(g[report(1).totalPages])
             /\ \A k \in 1 .. report(1).totalPages : report(k).data # <<>>)
  BY Zenon DEF PagesMakeTheReport, ReportJoined, AmountListed
<1> HIDE DEF found
<1>3. IsFiniteSet(found) /\ \A r \in found : r.recordDate \in Int /\ r.amount \in Int
  BY <1>1, FS_Subset DEF AreReported
<1>4. n \in Nat  BY <1>3, FS_CardinalityType
<1>5. IsListing(s, found)  BY <1>3, SortedLists
<1> HIDE DEF s
<1>6. s \in Seq(found) /\ Len(s) = n /\ DOMAIN s = 1 .. n
  <2>1. s \in [1 .. n -> found]  BY <1>5 DEF IsListing
  <2> HIDE DEF n
  <2> QED  BY <1>4, <2>1
<1>7. T \in Nat /\ T * limit >= n /\ \A k \in 1 .. T : (k - 1) * limit \in Nat /\ (k - 1) * limit < n
  <2> HIDE DEF n
  <2> QED  BY <1>4, Announced
<1>8. Amounting(found) = AmountListed(s)
  <2>1. \A r \in found : r.amount \in Int  BY <1>3
  <2> QED  BY <1>3, <1>5, <2>1, ListingTotal
<1> HIDE DEF n, T, report
<1>9. /\ \E x : Joined(s, limit, T, x)
      /\ \A x : Joined(s, limit, T, x) => x[T] = s
      /\ \A k \in 1 .. T : PageOf(s, k, limit) # <<>>
  <2>1. T * limit >= Len(s) /\ \A k \in 1 .. T : (k - 1) * limit \in Nat /\ (k - 1) * limit < Len(s)
    BY <1>6, <1>7
  <2> QED  BY <1>6, <1>7, <2>1, PagesJoin
<1>10. \A x : ReportJoined(records, filter, limit, x) <=> Joined(s, limit, T, x)
  <2> SUFFICES ASSUME NEW x
               PROVE  ReportJoined(records, filter, limit, x) <=> Joined(s, limit, T, x)
    OBVIOUS
  <2>1. ReportJoined(records, filter, limit, x) <=>
           x = [k \in 0 .. report(1).totalPages |->
                   IF k = 0 THEN <<>> ELSE x[k - 1] \o report(k).data]
    BY Zenon DEF ReportJoined, report
  <2>2. [k \in 0 .. report(1).totalPages |-> IF k = 0 THEN <<>> ELSE x[k - 1] \o report(k).data]
           = [k \in 0 .. T |-> IF k = 0 THEN <<>> ELSE x[k - 1] \o PageOf(s, k, limit)]
    BY <1>0
  <2> QED  BY <2>1, <2>2, Zenon DEF Joined
<1>11. g[T] = s
  <2>1. \E x : ReportJoined(records, filter, limit, x)  BY <1>9, <1>10
  <2>2. ReportJoined(records, filter, limit, g)  BY <2>1
  <2> HIDE DEF g
  <2> QED  BY <1>9, <1>10, <2>2
<1> HIDE DEF g
<1> QED  BY <1>0, <1>2, <1>8, <1>9, <1>11

-----------------------------------------------------------------------------
(* Days paid.                                                               *)

\* The days of the month from the one at f to the one at u are an interval.
LEMMA DaysCounted ==
    ASSUME NEW f \in Int, NEW u \in Int
    PROVE  Cardinality({d \in 1 .. Days : f <= d /\ d <= u}) =
              LET lo == Greatest(1, f)
                  hi == Least(Days, u)
              IN  IF lo > hi THEN 0 ELSE hi - lo + 1
<1> DEFINE lo == Greatest(1, f)
           hi == Least(Days, u)
<1>1. lo \in Int /\ hi \in Int
  BY PayAssumption DEF Greatest, Least
<1>2. {d \in 1 .. Days : f <= d /\ d <= u} = lo .. hi
  BY PayAssumption DEF Greatest, Least
<1>3. Cardinality(lo .. hi) = IF lo > hi THEN 0 ELSE hi - lo + 1
  <2> HIDE DEF lo, hi
  <2> QED BY <1>1, FS_Interval
<1> QED BY <1>2, <1>3

\* Between two midnights, the last day included.
LEMMA DaysBetweenMidnights ==
    ASSUME NEW f \in Int, NEW t \in Int, f % 2 = 0, t % 2 = 0
    PROVE  DaysBetween(f, t) = IF t >= f THEN t \div 2 - f \div 2 + 1 ELSE 0
BY DEF DaysBetween

\* The first day paid for by a contract, and the last.
From(c) == IF c.startDate # NoDate THEN c.startDate \div 2 ELSE 1

Until(c) == IF ContractEnd(c) # NoDate THEN ContractEnd(c) \div 2 ELSE Days

\* The dates of a contract.
LEMMA EndType ==
    ASSUME NEW c \in Case
    PROVE  /\ ContractEnd(c) \in Int \cup {NoDate}
           /\ c.startDate \in Int \cup {NoDate}
BY DEF Case, ContractEnd

\* The days paid are those from the first to the last.
LEMMA FromUntil ==
    ASSUME NEW c \in Case, Midnight(c.startDate), Midnight(ContractEnd(c))
    PROVE  /\ From(c) \in Int /\ Until(c) \in Int
           /\ PaidDays(c) = LET lo == Greatest(1, From(c))
                                hi == Least(Days, Until(c))
                            IN  IF lo > hi THEN 0 ELSE hi - lo + 1
<1> DEFINE s == c.startDate
           e == ContractEnd(c)
<1>1. s \in Int \cup {NoDate} /\ e \in Int \cup {NoDate}
  BY EndType
<1>2. CASE s # NoDate /\ e # NoDate
  <2>1. s \in Int /\ e \in Int /\ s % 2 = 0 /\ e % 2 = 0
    BY <1>1, <1>2 DEF Midnight
  <2> HIDE DEF s, e
  <2>2. /\ PaidDays(c) = Greatest(0, Least(Days,
               IF s > 2 THEN DaysBetween(s, IF e < 2 * Days THEN e ELSE 2 * Days)
               ELSE IF e < 2 * Days THEN DaysBetween(2, e) ELSE Days))
        /\ From(c) = s \div 2 /\ Until(c) = e \div 2
    BY <1>2 DEF s, e, PaidDays, WorkedDays, StartsWithin, EndsWithin, PeriodStart, PeriodEnd,
                From, Until
  <2> QED BY <2>1, <2>2, PayAssumption DEF DaysBetween, Greatest, Least
<1>3. CASE s # NoDate /\ e = NoDate
  <2>1. s \in Int /\ s % 2 = 0
    BY <1>1, <1>3 DEF Midnight
  <2> HIDE DEF s, e
  <2>2. /\ PaidDays(c) = Greatest(0, Least(Days, IF s > 2 THEN DaysBetween(s, 2 * Days) ELSE Days))
        /\ From(c) = s \div 2 /\ Until(c) = Days
    BY <1>3 DEF s, e, PaidDays, WorkedDays, StartsWithin, EndsWithin, PeriodStart, PeriodEnd,
                From, Until
  <2> QED BY <2>1, <2>2, PayAssumption DEF DaysBetween, Greatest, Least
<1>4. CASE s = NoDate /\ e # NoDate
  <2>1. e \in Int /\ e % 2 = 0
    BY <1>1, <1>4 DEF Midnight
  <2> HIDE DEF s, e
  <2>2. /\ PaidDays(c) = Greatest(0, Least(Days, IF e < 2 * Days THEN DaysBetween(2, e) ELSE Days))
        /\ From(c) = 1 /\ Until(c) = e \div 2
    BY <1>4 DEF s, e, PaidDays, WorkedDays, StartsWithin, EndsWithin, PeriodStart, PeriodEnd,
                From, Until
  <2> QED BY <2>1, <2>2, PayAssumption DEF DaysBetween, Greatest, Least
<1>5. CASE s = NoDate /\ e = NoDate
  BY <1>5, PayAssumption DEF PaidDays, WorkedDays, StartsWithin, EndsWithin, From, Until,
                             Greatest, Least
<1> QED BY <1>2, <1>3, <1>4, <1>5

\* The days paid are the days of the month that the contract covers.
LEMMA CoveredDays ==
    ASSUME NEW c \in Case, Midnight(c.startDate), Midnight(ContractEnd(c))
    PROVE  PaidDays(c) = Cardinality({d \in 1 .. Days :
                             /\ c.startDate # NoDate => c.startDate <= 2 * d
                             /\ ContractEnd(c) # NoDate => 2 * d <= ContractEnd(c)})
<1>1. \A d \in 1 .. Days : (c.startDate # NoDate => c.startDate <= 2 * d) <=> From(c) <= d
  <2>1. CASE c.startDate = NoDate
    BY <2>1, PayAssumption DEF From
  <2>2. CASE c.startDate # NoDate
    <3>1. c.startDate \in Int /\ c.startDate % 2 = 0 /\ From(c) = c.startDate \div 2
      BY <2>2, EndType DEF From, Midnight
    <3> QED BY <2>2, <3>1, PayAssumption
  <2> QED BY <2>1, <2>2
<1>2. \A d \in 1 .. Days : (ContractEnd(c) # NoDate => 2 * d <= ContractEnd(c)) <=> d <= Until(c)
  <2>1. CASE ContractEnd(c) = NoDate
    BY <2>1, PayAssumption DEF Until
  <2>2. CASE ContractEnd(c) # NoDate
    <3>1. /\ ContractEnd(c) \in Int /\ ContractEnd(c) % 2 = 0
          /\ Until(c) = ContractEnd(c) \div 2
      BY <2>2, EndType DEF Until, Midnight
    <3> QED BY <2>2, <3>1, PayAssumption
  <2> QED BY <2>1, <2>2
<1>3. {d \in 1 .. Days : /\ c.startDate # NoDate => c.startDate <= 2 * d
                         /\ ContractEnd(c) # NoDate => 2 * d <= ContractEnd(c)}
         = {d \in 1 .. Days : From(c) <= d /\ d <= Until(c)}
  BY <1>1, <1>2
<1> QED BY <1>3, FromUntil, DaysCounted

-----------------------------------------------------------------------------
(* The stages.                                                              *)

\* Each amount once its stage is over, in terms of those before it.
Steps ==
    /\ stage \in {"penalties", "settle", "done"} =>
          pay.afterLeave = pay.gross - pay.taxes - pay.insurance - pay.unpaid
    /\ stage \in {"settle", "done"} => pay.applied = AppliedPenalties(of, pay.afterLeave)
    /\ stage = "done" =>
          /\ pay.netPay = Greatest(Minimum(of),
                                   pay.afterLeave - pay.applied - of.recoveries + of.refunds)
          /\ pay.deductions = pay.taxes + pay.insurance + pay.unpaid + pay.applied + of.recoveries

PayInv == PayTypeOK /\ Steps

\* The fields of a case.
LEMMA CaseTypes ==
    ASSUME NEW c \in Cases
    PROVE  /\ c \in Case /\ Minimum(c) \in Nat
           /\ c.grossSalary \in Nat /\ c.recoveries \in Nat /\ c.refunds \in Nat
           /\ c.penalties \in Int /\ c.unpaidLeaveDays \in Nat
BY PayAssumption DEF Case, Minimum

\* Cents, days and percentages stay whole numbers.
LEMMA RoundType ==
    ASSUME NEW a \in Int, NEW b \in Nat \ {0}
    PROVE  Round(a, b) \in Int
<1>1. 2 * a + b \in Int /\ 2 * b \in Nat \ {0}
  OBVIOUS
<1> QED BY <1>1 DEF Round

LEMMA PaidDaysType ==
    ASSUME NEW c \in Case
    PROVE  PaidDays(c) \in Int
<1>1. WorkedDays(c) \in Int
  BY PayAssumption, EndType DEF WorkedDays, DaysBetween, StartsWithin, EndsWithin, PeriodStart, PeriodEnd
<1> QED BY <1>1, PayAssumption DEF PaidDays, Greatest, Least

LEMMA ProratedType ==
    ASSUME NEW c \in Case, NEW a \in Nat
    PROVE  Prorated(a, c) \in Int
<1>1. a * PaidDays(c) \in Int
  BY PaidDaysType
<1> QED BY <1>1, PayAssumption, RoundType DEF Prorated

LEMMA PercentType ==
    ASSUME NEW a \in Int, NEW r \in Nat
    PROVE  Percent(a, r) \in Int
<1>1. a * r \in Int
  OBVIOUS
<1> QED BY <1>1, RoundType DEF Percent

LEMMA AppliedType ==
    ASSUME NEW c \in Cases, NEW a \in Int
    PROVE  AppliedPenalties(c, a) \in Int
BY CaseTypes DEF AppliedPenalties, Greatest, Least

\* A step changes the amounts to amounts, and makes those of its stage so.
LEMMA PayInvStep == PayInv /\ [PayNext]_payVars => PayInv'
<1> SUFFICES ASSUME PayInv, [PayNext]_payVars PROVE PayInv'
  OBVIOUS
<1>0. of \in Cases /\ of \in Case /\ pay \in Amounts
  BY CaseTypes DEF PayInv, PayTypeOK
<1> USE DEF PayInv, PayTypeOK, Stages
<1>1. CASE validateEmployeeForPayroll
  BY <1>1 DEF validateEmployeeForPayroll, Steps
<1>2. CASE prorateBaseSalary
  <2>1. Prorated(of.grossSalary, of) \in Int
    BY <1>0, CaseTypes, ProratedType
  <2>2. pay' \in Amounts
    BY <1>0, <1>2, <2>1, Zenon DEF prorateBaseSalary, Amounts
  <2> QED BY <1>2, <2>2 DEF prorateBaseSalary, Steps
<1>3. ASSUME NEW a \in Allowances, addAllowance(a) PROVE PayInv'
  <2>1. Prorated(AmountOf[a], of) \in Int
    BY <1>0, ProratedType, PayAssumption
  <2>2. pay' \in Amounts
    BY <1>0, <1>3, <2>1 DEF addAllowance, Amounts
  <2> QED BY <1>3, <2>2 DEF addAllowance, Steps
<1>4. CASE sumGrossSalary
  <2>1. pay' \in Amounts
    BY <1>0, <1>4 DEF sumGrossSalary, Amounts
  <2> QED BY <1>4, <2>1 DEF sumGrossSalary, Steps
<1>5. ASSUME NEW r \in TaxRules, deductTax(r) PROVE PayInv'
  <2>1. pay.gross \in Int
    BY <1>0 DEF Amounts
  <2>2. Percent(pay.gross, TaxRate[r]) \in Int
    BY <2>1, PercentType, PayAssumption
  <2>3. pay' \in Amounts
    BY <1>0, <1>5, <2>2 DEF deductTax, Amounts
  <2> QED BY <1>5, <2>3 DEF deductTax, Steps
<1>6. CASE endTaxes
  BY <1>6 DEF endTaxes, Steps
<1>7. ASSUME NEW b \in Brackets, deductInsurance(b) PROVE PayInv'
  <2>1. pay.gross \in Int /\ BracketOf[b].employeeRate \in Nat
    BY <1>0, PayAssumption DEF Amounts
  <2>2. Percent(pay.gross, BracketOf[b].employeeRate) \in Int
    BY <2>1, PercentType
  <2>3. pay' \in Amounts
    BY <1>0, <1>7, <2>2 DEF deductInsurance, Amounts
  <2> QED BY <1>7, <2>3 DEF deductInsurance, Steps
<1>8. CASE sumNetSalary
  <2> DEFINE net == pay.gross - pay.taxes - pay.insurance
             unpaid == Round(of.unpaidLeaveDays * pay.gross, 30)
  <2>1. net \in Int /\ of.unpaidLeaveDays * pay.gross \in Int
    BY <1>0, CaseTypes DEF Amounts
  <2>2. unpaid \in Int
    BY <2>1, RoundType
  <2>3. pay' = [pay EXCEPT !.net = net, !.unpaid = unpaid, !.afterLeave = net - unpaid]
    BY <1>8 DEF sumNetSalary
  <2> DEFINE afterLeave == net - unpaid
  <2>4. afterLeave \in Int /\ afterLeave = pay.gross - pay.taxes - pay.insurance - unpaid
    BY <2>1, <2>2
  <2> HIDE DEF net, unpaid, afterLeave
  <2>5. /\ pay' \in Amounts /\ pay'.afterLeave = afterLeave /\ pay'.unpaid = unpaid
        /\ pay'.gross = pay.gross /\ pay'.taxes = pay.taxes
        /\ pay'.insurance = pay.insurance
    BY <1>0, <2>1, <2>2, <2>3, <2>4 DEF Amounts, afterLeave
  <2>6. stage' = "penalties" /\ of' = of /\ left' = left
    BY <1>8 DEF sumNetSalary
  <2> QED BY <2>4, <2>5, <2>6 DEF Steps
<1>9. CASE applyPenalties
  <2>1. AppliedPenalties(of, pay.afterLeave) \in Int
    BY <1>0, AppliedType DEF Amounts
  <2> DEFINE applied == AppliedPenalties(of, pay.afterLeave)
  <2>2. pay' = [pay EXCEPT !.applied = applied]
    BY <1>9 DEF applyPenalties
  <2> HIDE DEF applied
  <2>3. /\ pay' \in Amounts /\ pay'.applied = applied /\ pay'.afterLeave = pay.afterLeave
        /\ pay'.gross = pay.gross /\ pay'.taxes = pay.taxes
        /\ pay'.insurance = pay.insurance /\ pay'.unpaid = pay.unpaid
    BY <1>0, <2>1, <2>2 DEF Amounts, applied
  <2>4. stage = "penalties" /\ stage' = "settle" /\ of' = of /\ left' = left
    BY <1>9 DEF applyPenalties
  <2>5. pay'.applied = AppliedPenalties(of', pay'.afterLeave)
    BY <2>3, <2>4 DEF applied
  <2> QED BY <2>3, <2>4, <2>5 DEF Steps
<1>10. CASE settle
  <2> DEFINE netPay == Greatest(Minimum(of),
                                pay.afterLeave - pay.applied - of.recoveries + of.refunds)
             deductions == pay.taxes + pay.insurance + pay.unpaid + pay.applied + of.recoveries
  <2>1. netPay \in Int /\ deductions \in Int
    BY <1>0, CaseTypes DEF Amounts, Greatest
  <2>2. pay' = [pay EXCEPT !.netPay = netPay, !.deductions = deductions]
    BY <1>10 DEF settle
  <2>3. stage = "settle" /\ stage' = "done" /\ of' = of /\ left' = left
    BY <1>10 DEF settle
  <2> HIDE DEF netPay, deductions
  <2>4. /\ pay' \in Amounts /\ pay'.netPay = netPay /\ pay'.deductions = deductions
        /\ pay'.afterLeave = pay.afterLeave /\ pay'.applied = pay.applied
        /\ pay'.gross = pay.gross /\ pay'.taxes = pay.taxes
        /\ pay'.insurance = pay.insurance /\ pay'.unpaid = pay.unpaid
    BY <1>0, <2>1, <2>2 DEF Amounts
  <2> QED BY <2>3, <2>4 DEF Steps, netPay, deductions
<1>11. CASE UNCHANGED payVars
  BY <1>11 DEF payVars, Steps
<1> QED
  BY <1>1, <1>2, <1>3, <1>4, <1>5, <1>6, <1>7, <1>8, <1>9, <1>10, <1>11 DEF PayNext

\* The invariant of the pay, from the first state on.
LEMMA PayInitInv == PayInit => PayInv
BY DEF PayInit, PayInv, PayTypeOK, Steps, Stages, Nothing0, Amounts

LEMMA PayInvariant == PaySpec => []PayInv
BY PayInitInv, PayInvStep, PTL DEF PaySpec

\* What holds of the stages makes the pay add up.
LEMMA AddsUp == PayInv => PayAddsUp
<1> SUFFICES ASSUME PayInv PROVE PayAddsUp
  OBVIOUS
<1>1. /\ of \in Cases /\ of \in Case /\ pay \in Amounts /\ Minimum(of) \in Nat
      /\ of.penalties \in Int /\ of.recoveries \in Nat /\ of.refunds \in Nat
  BY CaseTypes DEF PayInv, PayTypeOK
<1>2. NetPayExplained
  BY <1>1 DEF PayInv, Steps, NetPayExplained, Amounts
<1>3. PenaltiesSpareMinimum
  BY <1>1 DEF PayInv, Steps, PenaltiesSpareMinimum, AppliedPenalties, Greatest, Least, Amounts
<1>4. PaidDaysAreCovered
  BY <1>1, CoveredDays DEF PaidDaysAreCovered
<1> QED BY <1>2, <1>3, <1>4 DEF PayAddsUp

-----------------------------------------------------------------------------
(* The questions.                                                           *)

\* What can be asked is answered right.
LEMMA Answered ==
    ASSUME IsQuestion(asked) \/ asked = Pay
    PROVE  ReadingsAddUp
<1>0. None \notin Int  BY CalculationsAssumption
<1>1. ASSUME asked.about = "punches"  PROVE WorkedIsPaired(asked.punches)
  <2>1. asked.punches \in Seq(Punch)  BY <1>1 DEF IsQuestion, Pay
  <2> QED  BY <1>0, <2>1, MinutesPaired
<1>2. ASSUME asked.about = "day"  PROVE ResultsAreFair(asked.day, asked.policy)
  <2>1. IsDay(asked.day) /\ IsPolicy(asked.policy)  BY <1>2 DEF IsQuestion, Pay
  <2> QED  BY <1>0, <2>1, FairResults
<1>3. ASSUME asked.about = "policy"
      PROVE  PolicyIsRight(asked.policies, asked.employee, asked.date)
  <2>1. ArePolicies(asked.policies) /\ asked.date \in Int  BY <1>3 DEF IsQuestion, Pay
  <2> QED  BY <2>1, PolicyFound
<1>4. ASSUME asked.about = "closing"
      PROVE  ValidMeansComplete(asked.records, asked.results, asked.exceptions,
                                asked.from, asked.to, asked.deadline)
  <2>1. AreRecords(asked.records) /\ AreResults(asked.results) /\ IsFiniteSet(asked.exceptions)
    BY <1>4 DEF IsQuestion, Pay
  <2> QED  BY <2>1, ValidComplete
<1>5. ASSUME asked.about = "slips"  PROVE MonthsMakeTheYear(asked.slips, asked.runs, asked.year)
  <2>1. ArePayslips(asked.slips) /\ AreRuns(asked.runs) /\ asked.year \in Int
    BY <1>5 DEF IsQuestion, Pay
  <2> QED  BY <1>0, <2>1, YearOfMonths
<1>6. ASSUME asked.about = "certificates"  PROVE CertifiedOnce(asked.slips, asked.years)
  <2>1. ArePayslips(asked.slips) /\ asked.years \subseteq Int  BY <1>6 DEF IsQuestion, Pay
  <2> QED  BY <1>0, <2>1, CertifiedInOneYear
<1>7. ASSUME asked.about = "pages"
      PROVE  PagesMakeTheReport(asked.records, asked.filter, asked.limit)
  <2>1. AreReported(asked.records) /\ asked.limit \in Nat \ {0}  BY <1>7 DEF IsQuestion, Pay
  <2> QED  BY <2>1, PagesAreReport
<1> QED  BY <1>1, <1>2, <1>3, <1>4, <1>5, <1>6, <1>7 DEF ReadingsAddUp

\* What is asked stays what it was.
Asking == asked = Pay \/ asked \in Questions

LEMMA AskingInvariant == CalculationsSpec => []Asking
<1>1. CalculationsInit => Asking  BY DEF CalculationsInit, Asking
<1>2. Asking /\ [CalculationsNext]_calculationVars => Asking'
  BY DEF CalculationsNext, calculationVars, Asking
<1> QED  BY <1>1, <1>2, PTL DEF CalculationsSpec

\* While a question is asked, nothing is calculated of an employee.
LEMMA CalculationsPay == CalculationsSpec => []PayInv
<1>1. CalculationsInit => PayInv
  <2>1. (CHOOSE c \in Cases : TRUE) \in Cases  BY CalculationsAssumption
  <2>2. ASSUME stage = "refused", of = (CHOOSE c \in Cases : TRUE), left = {}, pay = Nothing0
        PROVE  PayInv
    BY <2>1, <2>2 DEF PayInv, PayTypeOK, Steps, Stages, Nothing0, Amounts
  <2> QED  BY <2>2, PayInitInv DEF CalculationsInit
<1>2. PayInv /\ [CalculationsNext]_calculationVars => PayInv'
  <2>1. [CalculationsNext]_calculationVars => [PayNext]_payVars
    BY DEF CalculationsNext, calculationVars, payVars
  <2> QED  BY <2>1, PayInvStep
<1> QED  BY <1>1, <1>2, PTL DEF CalculationsSpec

-----------------------------------------------------------------------------
\* The calculation is at a known stage of a known case, and amounts are whole
\* (calculateEmployeePayroll).
THEOREM PayTypeCorrect == PaySpec => []PayTypeOK
<1>1. PayInv => PayTypeOK
  BY DEF PayInv
<1> QED BY <1>1, PayInvariant, PTL

\* For every contract, amount, rule, bracket and length of the month: the net
\* pay is what gross and deductions leave, or the minimum wage; penalties never
\* take anybody below the minimum wage; and between midnights the days paid are
\* the days the contract covers (calculateEmployeePayroll).
THEOREM PayAlwaysAddsUp == PaySpec => []PayAddsUp
BY PayInvariant, AddsUp, PTL

\* The same wherever the pay is calculated beside the other calculations.
THEOREM PayAddsUpBesideQuestions == CalculationsSpec => []PayAddsUp
BY CalculationsPay, AddsUp, PTL

\* For all documents that can be stored, and whatever is asked of them: the
\* minutes worked are those between an IN and the OUT after it; no penalty is
\* above the cap of a day, for what is excused or for time that was worked; the
\* policy found is in force and the employee's own before a global one; a
\* validation without findings leaves nothing out of the payload; the months make
\* the year; no payslip is certified for two years; and the pages make the report
\* (PolicyEngineService, PayrollService, PrePayrollService,
\* PayrollTrackingService, ReportingService).
THEOREM ReadingsAlwaysAddUp == CalculationsSpec => []ReadingsAddUp
<1>1. Asking => ReadingsAddUp
  <2>1. ASSUME asked \in Questions  PROVE IsQuestion(asked)
    BY <2>1, CalculationsAssumption
  <2> QED  BY <2>1, Answered DEF Asking
<1> QED  BY <1>1, AskingInvariant, PTL
=============================================================================
