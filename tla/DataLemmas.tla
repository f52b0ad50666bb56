---------------------------- MODULE DataLemmas ----------------------------
(***************************************************************************)
(* Induction for the proofs about data.  The induction theorems of the     *)
(* library have an operator as a parameter, which the provers cannot       *)
(* instantiate; here it is a set that contains 0 and every successor, and  *)
(* what a recursive definition computes follows from it.                   *)
(***************************************************************************)
EXTENDS Filters, FiniteSets, Functions, TLAPS, WellFoundedInduction, FiniteSetTheorems, SequenceTheorems

\* Every set of numbers has a smallest one.
LEMMA SmallestNumber ==
    ASSUME NEW B \in SUBSET Nat, B # {}
    PROVE  \E m \in B : \A n \in B : m <= n
<1> DEFINE Less == {ss \in Nat \X Nat : ss[1] < ss[2]}
<1>1. IsWellFoundedOn(Less, Nat)
  BY NatLessThanWellFounded DEF OpToRel
<1> HIDE DEF Less
<1>2. PICK m \in B : \A n \in B : ~ (<<n, m>> \in Less)
  BY <1>1, WFMin
<1>3. \A n \in B : ~ (n < m)
  BY <1>2 DEF Less
<1>4. QED
  BY <1>3

\* Induction up to n.
LEMMA InductionUpTo ==
    ASSUME NEW n \in Nat, NEW P, 0 \in P,
           \A i \in 0..(n - 1) : i \in P => i + 1 \in P
    PROVE  0..n \subseteq P
<1> DEFINE Bad == {i \in 0..n : i \notin P}
<1> SUFFICES ASSUME Bad # {}
             PROVE  FALSE
  OBVIOUS
<1>1. Bad \in SUBSET Nat
  OBVIOUS
<1>2. PICK m \in Bad : \A i \in Bad : m <= i
  BY <1>1, SmallestNumber
<1>3. m # 0 /\ m - 1 \in 0..(n - 1) /\ m - 1 \notin Bad
  BY <1>2
<1>4. (m - 1) + 1 \in P
  BY <1>3
<1>5. QED
  BY <1>2, <1>4

\* A value that is changed n times, by steps that stay within H, has a history.
History(f, H, h, n, op) ==
    f \in [0..n -> H] /\ f[0] = h /\ \A i \in 1..n : f[i] = op[i][f[i - 1]]

\* A finite list of operations can be applied one after the other: the values in between form a function.
LEMMA Iterates ==
    ASSUME NEW H, NEW h \in H, NEW n \in Nat, NEW op \in [1..n -> [H -> H]]
    PROVE  \E f : History(f, H, h, n, op)
<1> DEFINE Up(k, f) == History(f, H, h, k, op)
           P == {k \in 0..n : \E f : Up(k, f)}
<1>1. \E f : Up(0, f)
  <2>1. Up(0, [i \in 0..0 |-> h])
    BY DEF History
  <2>2. QED
    BY <2>1
<1>2. ASSUME NEW k \in 0..(n - 1), NEW g, Up(k, g)
      PROVE  \E f : Up(k + 1, f)
  <2> DEFINE f == [i \in 0..(k + 1) |-> IF i = k + 1 THEN op[i][g[k]] ELSE g[i]]
  <2>1. k + 1 \in 1..n /\ g[k] \in H
    BY <1>2 DEF History
  <2>2. op[k + 1][g[k]] \in H
    BY <2>1
  <2>3. f \in [0..(k + 1) -> H] /\ f[0] = h
    BY <1>2, <2>2 DEF History
  <2>4. \A i \in 1..(k + 1) : f[i] = op[i][f[i - 1]]
    BY <1>2 DEF History
  <2> HIDE DEF f
  <2>5. Up(k + 1, f)
    BY <2>3, <2>4 DEF History
  <2>6. QED
    BY <2>5
<1> HIDE DEF Up
<1>3. 0 \in P
  BY <1>1
<1>4. \A k \in 0..(n - 1) : k \in P => k + 1 \in P
  BY <1>2
<1> HIDE DEF P
<1>5. 0..n \subseteq P
  BY <1>3, <1>4, InductionUpTo
<1>6. n \in 0..n
  OBVIOUS
<1>7. QED
  BY <1>5, <1>6 DEF P, Up

-----------------------------------------------------------------------------
\* Filter keeps what it says, and nothing else, once each if s is without repetition.

Distinct(s) == \A i, j \in DOMAIN s : s[i] = s[j] => i = j

Filtering(s, keep, f) ==
    f = [i \in 0..Len(s) |-> IF i = 0 THEN <<>>
            ELSE IF i \in keep THEN Append(f[i - 1], s[i]) ELSE f[i - 1]]

\* Filter is the last value of the function that it chooses.
LEMMA FilterExpanded ==
    ASSUME NEW s, NEW keep
    PROVE  Filter(s, keep) = (CHOOSE f : Filtering(s, keep, f))[Len(s)]
  BY DEF Filter, Filtering

\* There is such a function.
LEMMA FilteringExists ==
    ASSUME NEW S, NEW s \in Seq(S), NEW keep
    PROVE  \E f : Filtering(s, keep, f)
<1> DEFINE op == [i \in 1..Len(s) |->
                     [h \in Seq(S) |-> IF i \in keep THEN Append(h, s[i]) ELSE h]]
<1>1. Len(s) \in Nat /\ <<>> \in Seq(S)
  OBVIOUS
<1>2. op \in [1..Len(s) -> [Seq(S) -> Seq(S)]]
  OBVIOUS
<1>3. PICK f : History(f, Seq(S), <<>>, Len(s), op)
  <2> DEFINE n == Len(s)
             H == Seq(S)
             h == <<>>
  <2>1. n \in Nat /\ h \in H /\ op \in [1..n -> [H -> H]]
    BY <1>1, <1>2
  <2> HIDE DEF op, n, H, h
  <2>2. \E f : History(f, H, h, n, op)
    BY <2>1, Iterates
  <2>3. QED
    BY <2>2 DEF n, H, h
<1>4. ASSUME NEW i \in 1..Len(s)
      PROVE  f[i] = IF i \in keep THEN Append(f[i - 1], s[i]) ELSE f[i - 1]
  <2>1. f[i - 1] \in Seq(S)
    BY <1>3 DEF History
  <2>2. op[i][f[i - 1]] = IF i \in keep THEN Append(f[i - 1], s[i]) ELSE f[i - 1]
    BY <2>1
  <2>3. QED
    BY <1>3, <2>2 DEF History
<1>5. f = [i \in 0..Len(s) |-> f[i]]
  BY <1>3 DEF History
<1>6. ASSUME NEW i \in 0..Len(s)
      PROVE  f[i] = IF i = 0 THEN <<>>
                    ELSE IF i \in keep THEN Append(f[i - 1], s[i]) ELSE f[i - 1]
  <2>1. CASE i = 0
    BY <1>3, <2>1 DEF History
  <2>2. CASE i # 0
    <3>1. i \in 1..Len(s)
      BY <2>2
    <3>2. QED
      BY <1>4, <2>2, <3>1
  <2>3. QED
    BY <2>1, <2>2
<1>7. QED
  BY <1>5, <1>6 DEF Filtering

\* Filter keeps the elements at the positions asked for, in number, and once if they were once.
LEMMA FilterFacts ==
    ASSUME NEW S, NEW s \in Seq(S), NEW keep
    PROVE  /\ Filter(s, keep) \in Seq(S)
           /\ \A e : (\E i \in DOMAIN Filter(s, keep) : Filter(s, keep)[i] = e) <=>
                      \E j \in DOMAIN s \cap keep : s[j] = e
           /\ Len(Filter(s, keep)) = Cardinality(keep \cap DOMAIN s)
           /\ Distinct(s) => Distinct(Filter(s, keep))
<1> DEFINE f == CHOOSE g : Filtering(s, keep, g)
<1>1. Filtering(s, keep, f)
  BY FilteringExists
<1>2. Filter(s, keep) = f[Len(s)]
  BY FilterExpanded
<1> HIDE DEF f
<1> DEFINE Good(n) == /\ f[n] \in Seq(S)
                      /\ \A e : (\E i \in DOMAIN f[n] : f[n][i] = e) <=>
                                  \E j \in (1..n) \cap keep : s[j] = e
                      /\ Len(f[n]) = Cardinality(keep \cap (1..n))
                      /\ IsFiniteSet(keep \cap (1..n))
                      /\ Distinct(s) => Distinct(f[n])
           P == {n \in 0..Len(s) : Good(n)}
<1>3. Good(0)
  <2>1. f[0] = <<>>
    BY <1>1 DEF Filtering
  <2>2. keep \cap (1..0) = {}
    OBVIOUS
  <2>3. QED
    BY <2>1, <2>2, FS_EmptySet DEF Distinct
<1>4. ASSUME NEW n \in 0..Len(s), n < Len(s), Good(n)
      PROVE  Good(n + 1)
  <2>1. f[n + 1] = IF n + 1 \in keep THEN Append(f[n], s[n + 1]) ELSE f[n]
    <3>1. n + 1 \in 0..Len(s) /\ n + 1 # 0 /\ (n + 1) - 1 = n
      BY <1>4
    <3>2. \A i \in 0..Len(s) :
              f[i] = IF i = 0 THEN <<>>
                     ELSE IF i \in keep THEN Append(f[i - 1], s[i]) ELSE f[i - 1]
      BY <1>1 DEF Filtering
    <3>3. QED
      BY <3>1, <3>2
  <2>2. CASE n + 1 \in keep
    <3>1. f[n + 1] = Append(f[n], s[n + 1]) /\ s[n + 1] \in S
      BY <2>1, <2>2, <1>4
    <3>2. keep \cap (1..(n + 1)) = (keep \cap (1..n)) \cup {n + 1} /\ n + 1 \notin keep \cap (1..n)
      BY <2>2
    <3>3. /\ Cardinality(keep \cap (1..(n + 1))) = Cardinality(keep \cap (1..n)) + 1
          /\ IsFiniteSet(keep \cap (1..(n + 1)))
      <4>1. IsFiniteSet(keep \cap (1..n))
        BY <1>4
      <4> DEFINE K == keep \cap (1..n)
      <4>2. n + 1 \notin K /\ IsFiniteSet(K)
        BY <4>1
      <4>3. keep \cap (1..(n + 1)) = K \cup {n + 1}
        BY <3>2
      <4> HIDE DEF K
      <4>4. /\ Cardinality(K \cup {n + 1}) = Cardinality(K) + 1
            /\ IsFiniteSet(K \cup {n + 1})
        BY <4>2, FS_AddElement
      <4>5. QED
        BY <4>3, <4>4 DEF K
    <3>4. f[n + 1] \in Seq(S) /\ Len(f[n + 1]) = Len(f[n]) + 1
      BY <3>1, <1>4
    <3>5. ASSUME NEW e
          PROVE  (\E i \in DOMAIN f[n + 1] : f[n + 1][i] = e) <=>
                     \E j \in (1..(n + 1)) \cap keep : s[j] = e
      <4>1. (\E i \in DOMAIN f[n + 1] : f[n + 1][i] = e) <=>
               (\E i \in DOMAIN f[n] : f[n][i] = e) \/ s[n + 1] = e
        <5>1. /\ f[n] \in Seq(S) /\ f[n + 1] = Append(f[n], s[n + 1])
              /\ Len(f[n + 1]) = Len(f[n]) + 1 /\ f[n + 1][Len(f[n]) + 1] = s[n + 1]
              /\ \A i \in 1..Len(f[n]) : f[n + 1][i] = f[n][i]
          <6>1. f[n] \in Seq(S) /\ f[n + 1] = Append(f[n], s[n + 1]) /\ s[n + 1] \in S
            BY <3>1, <1>4
          <6> DEFINE a == f[n]
                     b == f[n + 1]
          <6>2. /\ Len(b) = Len(a) + 1 /\ b[Len(a) + 1] = s[n + 1]
                /\ \A i \in 1..Len(a) : b[i] = a[i]
            <7> HIDE DEF a, b
            <7>1. a \in Seq(S) /\ b = Append(a, s[n + 1]) /\ s[n + 1] \in S
              BY <6>1 DEF a, b
            <7>2. QED
              BY <7>1, AppendProperties
          <6>3. QED
            BY <6>1, <6>2
        <5>2. DOMAIN f[n + 1] = 1..(Len(f[n]) + 1) /\ DOMAIN f[n] = 1..Len(f[n])
          BY <5>1, <3>4
        <5>3. QED
          BY <5>1, <5>2
      <4>2. (\E j \in (1..(n + 1)) \cap keep : s[j] = e) <=>
               (\E j \in (1..n) \cap keep : s[j] = e) \/ s[n + 1] = e
        BY <2>2
      <4>3. QED
        BY <4>1, <4>2, <1>4
    <3>6. ASSUME Distinct(s)
          PROVE  Distinct(f[n + 1])
      <4>1. \A i \in DOMAIN f[n] : f[n][i] # s[n + 1]
        <5>1. \A j \in 1..n : s[j] # s[n + 1]
          BY <3>6, <1>4 DEF Distinct
        <5>2. ASSUME NEW i \in DOMAIN f[n]
              PROVE  \E j \in 1..n : s[j] = f[n][i]
          BY <1>4
        <5>3. QED
          BY <5>1, <5>2
      <4>2. Distinct(f[n]) /\ f[n] \in Seq(S)
        BY <3>6, <1>4
      <4>3. QED
        BY <4>1, <4>2, <3>1 DEF Distinct
    <3>7. QED
      BY <3>3, <3>4, <3>5, <3>6, <1>4
  <2>3. CASE n + 1 \notin keep
    <3>1. f[n + 1] = f[n] /\ keep \cap (1..(n + 1)) = keep \cap (1..n)
      BY <2>1, <2>3
    <3>2. QED
      BY <3>1, <1>4
  <2>4. QED
    BY <2>2, <2>3
<1> HIDE DEF Good
<1>5. 0..Len(s) \subseteq P
  <2>1. 0 \in P
    BY <1>3
  <2>2. \A i \in 0..(Len(s) - 1) : i \in P => i + 1 \in P
    BY <1>4
  <2>3. Len(s) \in Nat
    OBVIOUS
  <2> HIDE DEF P
  <2>4. QED
    BY <2>1, <2>2, <2>3, InductionUpTo
<1>6. Good(Len(s))
  BY <1>5
<1>7. /\ DOMAIN s \cap keep = (1..Len(s)) \cap keep
      /\ keep \cap DOMAIN s = keep \cap (1..Len(s))
  OBVIOUS
<1>8. QED
  BY <1>2, <1>6, <1>7 DEF Good

-----------------------------------------------------------------------------
\* Finite sets and sums over them.

\* Induction on the subsets of a finite set.
LEMMA GrowTo ==
    ASSUME NEW U, IsFiniteSet(U), NEW P, {} \in P,
           \A T \in SUBSET U : T \in P => \A x \in U \ T : T \cup {x} \in P
    PROVE  SUBSET U \subseteq P
<1> DEFINE n == Cardinality(U)
           Q == {k \in 0..n : \A T \in SUBSET U : Cardinality(T) = k => T \in P}
<1>1. n \in Nat /\ \A T \in SUBSET U : IsFiniteSet(T) /\ Cardinality(T) \in 0..n
  BY FS_CardinalityType, FS_Subset
<1>2. 0 \in Q
  BY <1>1, FS_EmptySet
<1>3. ASSUME NEW k \in 0..(n - 1), k \in Q
      PROVE  k + 1 \in Q
  <2>1. k + 1 \in 0..n
    BY <1>1
  <2>2. ASSUME NEW T \in SUBSET U, Cardinality(T) = k + 1
        PROVE  T \in P
    <3>1. T # {}
      BY <1>1, <2>2, FS_EmptySet
    <3>2. PICK x \in T : TRUE
      BY <3>1
    <3>3. Cardinality(T \ {x}) = k /\ T \ {x} \in SUBSET U
      <4>1. IsFiniteSet(T) /\ x \in T
        BY <1>1
      <4>2. Cardinality(T \ {x}) = Cardinality(T) - 1
        BY ONLY <4>1, FS_RemoveElement
      <4>3. QED
        BY <1>1, <2>2, <4>2
    <3>4. T \ {x} \in P /\ x \in U \ (T \ {x}) /\ (T \ {x}) \cup {x} = T
      BY <1>3, <3>3
    <3>5. QED
      BY <3>4
  <2>3. QED
    BY <2>1, <2>2
<1>4. 0..n \subseteq Q
  <2> HIDE DEF Q, n
  <2>1. QED
    BY <1>1, <1>2, <1>3, InductionUpTo
<1>5. QED
  BY <1>1, <1>4

\* The value of step[g] at a set depends on the values of g at the set without one element.
OneByOne(step, S, R) ==
    /\ IsFiniteSet(S) /\ R # {}
    /\ step \in [[SUBSET S -> R] -> [SUBSET S -> R]]
    /\ \A g, h \in [SUBSET S -> R] : \A s \in SUBSET S :
           (\A x \in s : g[s \ {x}] = h[s \ {x}]) => step[g][s] = step[h][s]

FixedBy(f, step) == f = step[f]

\* A recursive function of the subsets of a finite set exists, if it goes one by one.
LEMMA SetRecursion ==
    ASSUME NEW S, NEW R, NEW step, OneByOne(step, S, R)
    PROVE  \E f \in [SUBSET S -> R] : FixedBy(f, step)
<1> DEFINE n == Cardinality(S)
           H == [SUBSET S -> R]
           op == [i \in 1..(n + 1) |-> step]
<1>1. n \in Nat /\ \A s \in SUBSET S : IsFiniteSet(s) /\ Cardinality(s) \in 0..n
  BY FS_CardinalityType, FS_Subset DEF OneByOne
<1>2. PICK h \in H : TRUE
  <2>1. PICK r \in R : TRUE
    BY DEF OneByOne
  <2>2. [s \in SUBSET S |-> r] \in H
    OBVIOUS
  <2>3. QED
    BY <2>2
<1>3. step \in [H -> H] /\ step[h] \in H
  BY <1>2 DEF OneByOne
<1>4. ASSUME NEW f \in H, NEW g \in H, NEW s \in SUBSET S, \A x \in s : f[s \ {x}] = g[s \ {x}]
      PROVE  step[f][s] = step[g][s]
  BY <1>4 DEF OneByOne
<1> HIDE DEF H
<1>5. PICK F : History(F, H, step[h], n + 1, op)
  <2> DEFINE m == n + 1
             first == step[h]
  <2>1. m \in Nat /\ op \in [1..m -> [H -> H]] /\ first \in H
    <3>1. m \in Nat
      BY <1>1
    <3> HIDE DEF n, m
    <3>2. op \in [1..m -> [H -> H]]
      BY <1>3 DEF m
    <3>3. QED
      BY <1>3, <3>1, <3>2
  <2> HIDE DEF op, m, first
  <2>2. \E F : History(F, H, first, m, op)
    BY <2>1, Iterates
  <2>3. QED
    BY <2>2 DEF m, first
<1>6. /\ F \in [0..(n + 1) -> H] /\ F[0] = step[h]
      /\ \A i \in 1..(n + 1) : F[i] = step[F[i - 1]]
  BY <1>5 DEF History
<1> DEFINE P == {i \in 0..n : \A s \in SUBSET S : Cardinality(s) <= i => F[i + 1][s] = F[i][s]}
<1>7. \A i \in 0..n : /\ i \in 0..(n + 1) /\ i + 1 \in 0..(n + 1)
                      /\ F[i] \in H /\ F[i + 1] \in H /\ F[i + 1] = step[F[i]]
  <2> TAKE i \in 0..n
  <2>1. i \in 0..(n + 1) /\ i + 1 \in 0..(n + 1) /\ i + 1 \in 1..(n + 1) /\ (i + 1) - 1 = i
    BY <1>1
  <2> HIDE DEF n
  <2>2. F[i] \in H /\ F[i + 1] \in H
    BY <1>6, <2>1
  <2>3. F[i + 1] = step[F[i]]
    BY <1>6, <2>1
  <2>4. QED
    BY <2>1, <2>2, <2>3
<1>8. 0 \in P
  <2>1. ASSUME NEW s \in SUBSET S, Cardinality(s) <= 0
        PROVE  F[0 + 1][s] = F[0][s]
    <3>1. s = {}
      BY <1>1, <2>1, FS_EmptySet
    <3>2. F[0] \in H /\ F[0 + 1] = step[F[0]]
      <4>1. 0 \in 0..n
        BY <1>1
      <4> HIDE DEF n
      <4>2. QED
        BY <1>7, <4>1
    <3>3. step[F[0]][s] = step[h][s]
      BY <1>2, <1>4, <3>1, <3>2
    <3>4. QED
      BY <1>6, <3>2, <3>3
  <2>2. QED
    BY <1>1, <2>1
<1>9. ASSUME NEW i \in 0..(n - 1), i \in P
      PROVE  i + 1 \in P
  <2>1. i \in 0..n /\ i + 1 \in 0..n
    BY <1>1
  <2>2. ASSUME NEW s \in SUBSET S, Cardinality(s) <= i + 1
        PROVE  F[i + 1 + 1][s] = F[i + 1][s]
    <3>1. ASSUME NEW x \in s
          PROVE  F[i + 1][s \ {x}] = F[i][s \ {x}]
      <4>1. IsFiniteSet(s) /\ Cardinality(s \ {x}) = Cardinality(s) - 1
        BY <1>1, FS_RemoveElement
      <4>2. Cardinality(s \ {x}) <= i /\ s \ {x} \in SUBSET S
        BY <1>1, <2>2, <4>1
      <4>3. QED
        BY <1>9, <4>2
    <3>2. step[F[i + 1]][s] = step[F[i]][s]
      <4>1. F[i] \in H /\ F[i + 1] \in H
        BY <1>7, <2>1
      <4> HIDE DEF n
      <4>2. QED
        BY <1>4, <3>1, <4>1
    <3>3. QED
      BY <1>7, <2>1, <3>2
  <2>3. QED
    BY <2>1, <2>2
<1>10. 0..n \subseteq P
  <2> HIDE DEF P, n
  <2>1. QED
    BY <1>1, <1>8, <1>9, InductionUpTo
<1>11. n \in 0..n
  BY <1>1
<1>12. \A s \in SUBSET S : F[n + 1][s] = F[n][s]
  BY <1>1, <1>10, <1>11
<1>13. F[n] \in H /\ F[n + 1] \in H /\ F[n + 1] = step[F[n]]
  BY <1>7, <1>11
<1>14. F[n + 1] = F[n]
  <2> DEFINE f == F[n]
             g == F[n + 1]
  <2>1. f \in [SUBSET S -> R] /\ g \in [SUBSET S -> R] /\ \A s \in SUBSET S : f[s] = g[s]
    BY <1>12, <1>13 DEF H
  <2> HIDE DEF f, g
  <2>2. f = g
    BY <2>1
  <2>3. QED
    BY <2>2 DEF f, g
<1>15. QED
  BY <1>13, <1>14 DEF H, FixedBy

\* Visits to the elements of a set one after the other, in any order: the states that
\* a step for each of them may lead to.
Visiting(f, ids, x, op) ==
    f = [done \in SUBSET ids |->
           IF done = {} THEN {x}
           ELSE UNION {UNION {op[b][y] : y \in f[done \ {b}]} : b \in done}]

\* They exist, for steps that stay in a set of states.
LEMMA VisitsExist ==
    ASSUME NEW ids, IsFiniteSet(ids), NEW W, NEW x \in W, NEW op \in [ids -> [W -> SUBSET W]]
    PROVE  \E f \in [SUBSET ids -> SUBSET W] : Visiting(f, ids, x, op)
<1> DEFINE R == SUBSET W
           At(g, done) == IF done = {} THEN {x}
                          ELSE UNION {UNION {op[b][y] : y \in g[done \ {b}]} : b \in done}
           step == [g \in [SUBSET ids -> R] |-> [done \in SUBSET ids |-> At(g, done)]]
<1>1. ASSUME NEW g \in [SUBSET ids -> R], NEW done \in SUBSET ids
      PROVE  At(g, done) \in R
  <2>1. ASSUME NEW b \in done, NEW y \in g[done \ {b}], NEW z \in op[b][y]
        PROVE  z \in W
    <3>1. b \in ids /\ done \ {b} \in SUBSET ids
      OBVIOUS
    <3>2. y \in W
      BY <3>1
    <3>3. op[b] \in [W -> SUBSET W]
      BY <3>1
    <3>4. QED
      BY <2>1, <3>2, <3>3
  <2>2. ASSUME NEW z \in At(g, done)
        PROVE  z \in W
    <3>1. CASE done = {}
      BY <3>1
    <3>2. CASE done # {}
      <4>1. z \in UNION {UNION {op[b][y] : y \in g[done \ {b}]} : b \in done}
        BY <3>2
      <4>a. PICK b \in done : z \in UNION {op[b][y] : y \in g[done \ {b}]}
        BY <4>1
      <4>b. PICK y \in g[done \ {b}] : z \in op[b][y]
        BY <4>a
      <4>2. QED
        BY <2>1, <4>b
    <3>3. QED
      BY <3>1, <3>2
  <2>3. QED
    BY <2>2
<1>2. ASSUME NEW g, NEW h, NEW s \in SUBSET ids, \A b \in s : g[s \ {b}] = h[s \ {b}]
      PROVE  At(g, s) = At(h, s)
  <2> DEFINE Seen(k) == {UNION {op[b][y] : y \in k[s \ {b}]} : b \in s}
  <2>1. ASSUME NEW b \in s
        PROVE  UNION {op[b][y] : y \in g[s \ {b}]} = UNION {op[b][y] : y \in h[s \ {b}]}
    BY <1>2
  <2>2. Seen(g) \subseteq Seen(h) /\ Seen(h) \subseteq Seen(g)
    BY <2>1, Zenon
  <2>3. Seen(g) = Seen(h)
    <3> HIDE DEF Seen
    <3>1. QED
      BY <2>2
  <2>4. QED
    BY <2>3
<1> HIDE DEF At
<1>3. step \in [[SUBSET ids -> R] -> [SUBSET ids -> R]]
  BY <1>1
<1>4. \A g, h \in [SUBSET ids -> R] : \A s \in SUBSET ids :
        (\A z \in s : g[s \ {z}] = h[s \ {z}]) => step[g][s] = step[h][s]
  <2>1. ASSUME NEW g \in [SUBSET ids -> R], NEW s \in SUBSET ids
        PROVE  step[g][s] = At(g, s)
    OBVIOUS
  <2> HIDE DEF step
  <2>2. QED
    BY <1>2, <2>1
<1>a. R # {}
  OBVIOUS
<1> HIDE DEF step, R
<1>5. \E f \in [SUBSET ids -> R] : FixedBy(f, step)
  <2>1. OneByOne(step, ids, R)
    BY <1>3, <1>4, <1>a DEF OneByOne
  <2>2. QED
    BY <2>1, SetRecursion
<1>6. QED
  <2>1. PICK f \in [SUBSET ids -> R] : FixedBy(f, step)
    BY <1>5
  <2>2. f = [done \in SUBSET ids |-> At(f, done)]
    BY <2>1 DEF step, FixedBy
  <2>3. QED
    BY <2>2 DEF R, At, Visiting

\* A process that visits the elements of a set one after the other, in any order, stays
\* within what V says of the elements that it has visited.
LEMMA VisitsStay ==
    ASSUME NEW U, IsFiniteSet(U), NEW f, NEW V, f[{}] \subseteq V[{}],
           \A S \in SUBSET U : S # {} =>
               \A z \in f[S] : \E b \in S : \E y \in f[S \ {b}] : y \in V[S \ {b}] => z \in V[S]
    PROVE  f[U] \subseteq V[U]
<1> DEFINE n == Cardinality(U)
           P == {k \in 0..n : \A S \in SUBSET U : Cardinality(S) = k => f[S] \subseteq V[S]}
<1>1. n \in Nat /\ \A S \in SUBSET U : IsFiniteSet(S) /\ Cardinality(S) \in 0..n
  BY FS_CardinalityType, FS_Subset
<1>2. 0 \in P
  BY <1>1, FS_EmptySet
<1>3. ASSUME NEW k \in 0..(n - 1), k \in P
      PROVE  k + 1 \in P
  <2>1. k + 1 \in 0..n
    BY <1>1
  <2>2. ASSUME NEW S \in SUBSET U, Cardinality(S) = k + 1, NEW z \in f[S]
        PROVE  z \in V[S]
    <3>1. S # {}
      BY <1>1, <2>2, FS_EmptySet
    <3>2. PICK b \in S : \E y \in f[S \ {b}] : y \in V[S \ {b}] => z \in V[S]
      BY <2>2, <3>1
    <3>3. IsFiniteSet(S) /\ Cardinality(S \ {b}) = Cardinality(S) - 1
      BY <1>1, FS_RemoveElement
    <3>4. Cardinality(S \ {b}) = k /\ S \ {b} \in SUBSET U
      BY <1>1, <2>2, <3>3
    <3>5. f[S \ {b}] \subseteq V[S \ {b}]
      BY <1>3, <3>4
    <3>6. QED
      BY <3>2, <3>5
  <2>3. QED
    BY <2>1, <2>2
<1>4. 0..n \subseteq P
  <2> HIDE DEF P, n
  <2>1. QED
    BY <1>1, <1>2, <1>3, InductionUpTo
<1>5. QED
  BY <1>1, <1>4

\* What SumFunctionOnSet computes: the set is taken apart one element after the other.
First(s) == CHOOSE x \in s : TRUE
Summing(w, S, f) ==
    f = [s \in SUBSET S |-> IF s = {} THEN 0 ELSE w[First(s)] + f[s \ {First(s)}]]

\* A sum is the value, at the set, of the function that it chooses.
LEMMA SumExpanded ==
    ASSUME NEW w, NEW S
    PROVE  SumFunctionOnSet(w, S) = (CHOOSE f : Summing(w, S, f))[S]
  BY DEF SumFunctionOnSet, FoldFunctionOnSet, MapThenFoldSet, Summing, First

\* There is such a function.
LEMMA SummingExists ==
    ASSUME NEW S, IsFiniteSet(S), NEW w \in [S -> Nat]
    PROVE  \E f \in [SUBSET S -> Nat] : Summing(w, S, f)
<1> DEFINE n == Cardinality(S)
           H == [SUBSET S -> Nat]
           h == [s \in SUBSET S |-> 0]
           Sum(g) == [s \in SUBSET S |-> IF s = {} THEN 0 ELSE w[First(s)] + g[s \ {First(s)}]]
           op == [i \in 1..(n + 1) |-> [g \in H |-> Sum(g)]]
<1>1. n \in Nat /\ \A s \in SUBSET S : IsFiniteSet(s) /\ Cardinality(s) \in 0..n
  BY FS_CardinalityType, FS_Subset
<1>2. \A s \in SUBSET S : s # {} => First(s) \in s
  BY DEF First
<1>3. \A g \in H : Sum(g) \in H
  BY <1>2
<1>4. h \in H
  OBVIOUS
<1> HIDE DEF Sum, h
<1>5. op \in [1..(n + 1) -> [H -> H]]
  <2> HIDE DEF H, n
  <2>1. QED
    BY <1>3
<1>6. PICK F : History(F, H, h, n + 1, op)
  <2> DEFINE m == n + 1
  <2>1. m \in Nat /\ op \in [1..m -> [H -> H]]
    <3> HIDE DEF H, op, n
    <3>1. QED
      BY <1>1, <1>5
  <2> HIDE DEF H, op, m
  <2>2. \E F : History(F, H, h, m, op)
    BY <1>4, <2>1, Iterates
  <2>3. QED
    BY <2>2 DEF m
<1>7. F \in [0..(n + 1) -> H] /\ \A i \in 1..(n + 1) : F[i] = Sum(F[i - 1])
  <2> HIDE DEF H
  <2>1. \A i \in 1..(n + 1) : i - 1 \in 0..(n + 1)
    BY <1>1
  <2>2. QED
    BY <1>6, <2>1 DEF History
<1> DEFINE P == {i \in 0..n : \A s \in SUBSET S : Cardinality(s) <= i => F[i + 1][s] = F[i][s]}
<1>8. 0 \in P
  <2>1. F[1] = Sum(F[0]) /\ F[0] = h
    BY <1>1, <1>6, <1>7 DEF History
  <2>2. \A s \in SUBSET S : Cardinality(s) <= 0 => s = {}
    BY <1>1, FS_EmptySet
  <2>3. {} \in SUBSET S
    OBVIOUS
  <2>4. F[1][{}] = F[0][{}]
    BY <2>1, <2>3 DEF Sum, h
  <2>5. 0 \in 0..n /\ 0 + 1 = 1
    BY <1>1
  <2>6. QED
    BY <2>2, <2>4, <2>5
<1>9. ASSUME NEW i \in 0..(n - 1), i \in P
      PROVE  i + 1 \in P
  <2>1. i + 1 \in 0..n /\ F[i + 1] = Sum(F[i]) /\ F[i + 1 + 1] = Sum(F[i + 1])
    BY <1>1, <1>7
  <2>2. ASSUME NEW s \in SUBSET S, Cardinality(s) <= i + 1
        PROVE  Sum(F[i + 1])[s] = Sum(F[i])[s]
    <3>1. CASE s = {}
      BY <3>1 DEF Sum
    <3>2. CASE s # {}
      <4>1. Cardinality(s \ {First(s)}) = Cardinality(s) - 1
        BY <1>1, <1>2, <3>2, FS_RemoveElement
      <4>2. Cardinality(s \ {First(s)}) <= i
        BY <1>1, <2>2, <4>1
      <4>3. F[i + 1][s \ {First(s)}] = F[i][s \ {First(s)}]
        BY <1>9, <4>2
      <4>4. QED
        BY <3>2, <4>3 DEF Sum
    <3>3. QED
      BY <3>1, <3>2
  <2>3. QED
    BY <2>1, <2>2
<1>10. 0..n \subseteq P
  <2> HIDE DEF P, n
  <2>1. QED
    BY <1>1, <1>8, <1>9, InductionUpTo
<1>11. F[n] \in H /\ F[n + 1] \in H /\ F[n + 1] = Sum(F[n])
  <2>1. n \in 0..(n + 1) /\ n + 1 \in 0..(n + 1) /\ n + 1 \in 1..(n + 1) /\ (n + 1) - 1 = n
    BY <1>1
  <2> HIDE DEF H, n
  <2>2. QED
    BY <1>7, <2>1
<1>12. \A s \in SUBSET S : F[n + 1][s] = F[n][s]
  BY <1>1, <1>10
<1>13. F[n + 1] = F[n]
  BY <1>11, <1>12
<1>14. Summing(w, S, F[n])
  BY <1>11, <1>13 DEF Summing, Sum
<1>15. QED
  BY <1>11, <1>14

\* f adds w[x] for a new element x, whatever was there before.
Adds(w, S, f) == \A T \in SUBSET S : \A x \in S \ T : f[T \cup {x}] = w[x] + f[T]

\* The order in which the elements are taken does not matter.
LEMMA SummingAdds ==
    ASSUME NEW S, IsFiniteSet(S), NEW w \in [S -> Nat],
           NEW f \in [SUBSET S -> Nat], Summing(w, S, f)
    PROVE  Adds(w, S, f)
<1> DEFINE n == Cardinality(S)
           P == {k \in 0..n : \A T \in SUBSET S : Cardinality(T) <= k =>
                                  \A x \in S \ T : f[T \cup {x}] = w[x] + f[T]}
<1>1. n \in Nat /\ \A s \in SUBSET S : IsFiniteSet(s) /\ Cardinality(s) \in 0..n
  BY FS_CardinalityType, FS_Subset
<1>2. \A s \in SUBSET S : s # {} => First(s) \in s /\ f[s] = w[First(s)] + f[s \ {First(s)}]
  BY DEF First, Summing
<1>3. ASSUME NEW T \in SUBSET S, NEW x \in S \ T, First(T \cup {x}) = x
      PROVE  f[T \cup {x}] = w[x] + f[T]
  <2>1. T \cup {x} \in SUBSET S /\ T \cup {x} # {} /\ (T \cup {x}) \ {x} = T
    OBVIOUS
  <2>2. QED
    BY <1>2, <1>3, <2>1
<1>4. 0 \in P
  <2>1. \A T \in SUBSET S : Cardinality(T) <= 0 => T = {}
    BY <1>1, FS_EmptySet
  <2>2. \A x \in S : First({} \cup {x}) = x
    <3> TAKE x \in S
    <3>1. {} \cup {x} \in SUBSET S /\ {} \cup {x} # {}
      OBVIOUS
    <3>2. First({} \cup {x}) \in {} \cup {x}
      BY <1>2, <3>1
    <3>3. QED
      BY <3>2
  <2>3. QED
    BY <1>1, <1>3, <2>1, <2>2
<1>5. ASSUME NEW k \in 0..(n - 1), k \in P
      PROVE  k + 1 \in P
  <2>1. k + 1 \in 0..n
    BY <1>1
  <2>2. ASSUME NEW T \in SUBSET S, Cardinality(T) <= k + 1, NEW x \in S \ T
        PROVE  f[T \cup {x}] = w[x] + f[T]
    <3> DEFINE c == First(T \cup {x})
    <3>1. CASE c = x
      BY <1>3, <3>1
    <3>2. CASE c # x
      <4>1. c \in T
        <5>1. T \cup {x} \in SUBSET S /\ T \cup {x} # {}
          OBVIOUS
        <5>2. c \in T \cup {x}
          BY <1>2, <5>1
        <5>3. QED
          BY <3>2, <5>2
      <4> HIDE DEF c
      <4>2. Cardinality(T \ {c}) <= k
        <5>1. IsFiniteSet(T)
          BY <1>1
        <5>2. Cardinality(T \ {c}) = Cardinality(T) - 1
          BY ONLY <4>1, <5>1, FS_RemoveElement
        <5>3. QED
          BY <1>1, <2>2, <5>2
      <4>3. (T \ {c}) \cup {c} = T /\ c \in S \ (T \ {c}) /\ T \ {c} \in SUBSET S
        BY <4>1
      <4>4. f[T] = w[c] + f[T \ {c}]
        BY <1>5, <4>2, <4>3
      <4>5. x \in S \ (T \ {c})
        OBVIOUS
      <4>6. f[(T \ {c}) \cup {x}] = w[x] + f[T \ {c}]
        BY <1>5, <4>2, <4>3, <4>5
      <4>7. f[T \cup {x}] = w[c] + f[(T \cup {x}) \ {c}]
        <5>1. T \cup {x} \in SUBSET S /\ T \cup {x} # {}
          OBVIOUS
        <5>2. QED
          BY <1>2, <5>1 DEF c
      <4>8. (T \cup {x}) \ {c} = (T \ {c}) \cup {x}
        BY <3>2
      <4>9. w[c] \in Nat /\ w[x] \in Nat /\ f[T \ {c}] \in Nat
        BY <4>1
      <4> DEFINE rest == f[T \ {c}]
      <4>10. f[T \cup {x}] = w[c] + (w[x] + rest) /\ f[T] = w[c] + rest
        BY <4>4, <4>6, <4>7, <4>8
      <4>11. rest \in Nat
        BY <4>9
      <4> HIDE DEF rest
      <4>12. QED
        BY <4>9, <4>10, <4>11
    <3>3. QED
      BY <3>1, <3>2
  <2>3. QED
    BY <2>1, <2>2
<1>6. 0..n \subseteq P
  <2> HIDE DEF P, n
  <2>1. QED
    BY <1>1, <1>4, <1>5, InductionUpTo
<1>7. n \in P /\ \A T \in SUBSET S : Cardinality(T) <= n
  BY <1>1, <1>6
<1>8. QED
  BY <1>7 DEF Adds

\* The sum over a subset, computed for the subset alone or on the way to a larger set.
LEMMA SumOfSubset ==
    ASSUME NEW S, IsFiniteSet(S), NEW T \in SUBSET S, NEW w \in [S -> Nat], NEW v,
           \A x \in T : v[x] = w[x],
           NEW f \in [SUBSET S -> Nat], Summing(w, S, f)
    PROVE  SumFunctionOnSet(v, T) = f[T]
<1> DEFINE u == [x \in T |-> w[x]]
           g == CHOOSE a : Summing(v, T, a)
<1>1. IsFiniteSet(T)
  BY FS_Subset
<1>2. u \in [T -> Nat]
  OBVIOUS
<1>3. PICK a \in [SUBSET T -> Nat] : Summing(u, T, a)
  <2> HIDE DEF u
  <2>1. QED
    BY <1>1, <1>2, SummingExists
<1>4. \A s \in SUBSET T : s # {} => First(s) \in s
  BY DEF First
<1>5. Summing(v, T, a)
  <2>1. \A s \in SUBSET T : s # {} => u[First(s)] = v[First(s)]
    BY <1>4
  <2> HIDE DEF u
  <2>2. a = [s \in SUBSET T |-> IF s = {} THEN 0 ELSE u[First(s)] + a[s \ {First(s)}]]
    BY <1>3 DEF Summing
  <2>3. a = [s \in SUBSET T |-> IF s = {} THEN 0 ELSE v[First(s)] + a[s \ {First(s)}]]
    BY <2>1, <2>2
  <2>4. QED
    BY <2>3 DEF Summing
<1>6. Summing(v, T, g)
  BY <1>5
<1>7. SumFunctionOnSet(v, T) = g[T]
  BY SumExpanded
<1> HIDE DEF g
<1> DEFINE n == Cardinality(T)
           P == {k \in 0..n : \A s \in SUBSET T : Cardinality(s) <= k => g[s] = f[s]}
<1>8. n \in Nat /\ \A s \in SUBSET T : IsFiniteSet(s) /\ Cardinality(s) \in 0..n
  BY <1>1, FS_CardinalityType, FS_Subset
<1>9. \A s \in SUBSET T : /\ g[s] = IF s = {} THEN 0 ELSE v[First(s)] + g[s \ {First(s)}]
                          /\ f[s] = IF s = {} THEN 0 ELSE w[First(s)] + f[s \ {First(s)}]
  BY <1>6 DEF Summing
<1>10. 0 \in P
  <2>1. \A s \in SUBSET T : Cardinality(s) <= 0 => s = {}
    BY <1>8, FS_EmptySet
  <2>2. {} \in SUBSET T
    OBVIOUS
  <2>3. g[{}] = f[{}]
    BY <1>9, <2>2
  <2>4. 0 \in 0..n
    BY <1>8
  <2>5. \A s \in SUBSET T : Cardinality(s) <= 0 => g[s] = f[s]
    BY <2>1, <2>3
  <2>6. QED
    BY <2>4, <2>5
<1>11. ASSUME NEW k \in 0..(n - 1), k \in P
       PROVE  k + 1 \in P
  <2>1. k + 1 \in 0..n
    BY <1>8
  <2>2. ASSUME NEW s \in SUBSET T, Cardinality(s) <= k + 1
        PROVE  g[s] = f[s]
    <3>1. CASE s = {}
      BY <1>9, <3>1
    <3>2. CASE s # {}
      <4>1. IsFiniteSet(s) /\ First(s) \in s
        BY <1>4, <1>8, <3>2
      <4>2. Cardinality(s \ {First(s)}) = Cardinality(s) - 1
        BY ONLY <4>1, FS_RemoveElement
      <4>3. Cardinality(s \ {First(s)}) <= k /\ s \ {First(s)} \in SUBSET T
        BY <1>8, <2>2, <4>2
      <4>4. g[s \ {First(s)}] = f[s \ {First(s)}]
        BY <1>11, <4>3
      <4>5. QED
        BY <1>9, <3>2, <4>1, <4>4
    <3>3. QED
      BY <3>1, <3>2
  <2>3. QED
    BY <2>1, <2>2
<1>12. 0..n \subseteq P
  <2> HIDE DEF P, n
  <2>1. QED
    BY <1>8, <1>10, <1>11, InductionUpTo
<1>13. QED
  BY <1>7, <1>8, <1>12

\* The sum over a set does not depend on which such function is chosen.
LEMMA SumOfWhole ==
    ASSUME NEW S, IsFiniteSet(S), NEW w \in [S -> Nat], NEW v, \A x \in S : v[x] = w[x],
           NEW f \in [SUBSET S -> Nat], Summing(w, S, f)
    PROVE  SumFunctionOnSet(v, S) = f[S]
<1>1. S \in SUBSET S
  OBVIOUS
<1>2. QED
  BY <1>1, SumOfSubset

\* What sums obey: this is all that the proofs use of them.
LEMMA SumIsNatural ==
    ASSUME NEW S, IsFiniteSet(S), NEW w, \A x \in S : w[x] \in Nat
    PROVE  SumFunctionOnSet(w, S) \in Nat
<1> DEFINE u == [x \in S |-> w[x]]
<1>1. u \in [S -> Nat] /\ \A x \in S : w[x] = u[x]
  OBVIOUS
<1> HIDE DEF u
<1>2. PICK f \in [SUBSET S -> Nat] : Summing(u, S, f)
  BY <1>1, SummingExists
<1>3. S \in SUBSET S
  OBVIOUS
<1>4. SumFunctionOnSet(w, S) = f[S]
  BY <1>1, <1>2, <1>3, SumOfSubset
<1>5. QED
  BY <1>4

\* Nothing adds up to zero.
LEMMA SumOfNone ==
    ASSUME NEW w
    PROVE  SumFunctionOnSet(w, {}) = 0
<1> DEFINE S == {}
           u == [x \in S |-> 0]
<1>1. u \in [S -> Nat] /\ \A x \in S : w[x] = u[x]
  OBVIOUS
<1>2. IsFiniteSet(S)
  BY FS_EmptySet
<1>3. S = {}
  OBVIOUS
<1> HIDE DEF u, S
<1>4. PICK f \in [SUBSET S -> Nat] : Summing(u, S, f)
  BY <1>1, <1>2, SummingExists
<1>5. S \in SUBSET S
  OBVIOUS
<1>6. SumFunctionOnSet(w, S) = f[S]
  BY <1>1, <1>2, <1>4, <1>5, SumOfSubset
<1>7. f[S] = 0
  BY <1>3, <1>4 DEF Summing
<1>8. QED
  BY <1>3, <1>6, <1>7

\* Only the values on the set count.
LEMMA SumAgrees ==
    ASSUME NEW S, IsFiniteSet(S), NEW w, NEW v, \A x \in S : w[x] \in Nat /\ v[x] = w[x]
    PROVE  SumFunctionOnSet(v, S) = SumFunctionOnSet(w, S)
<1> DEFINE u == [x \in S |-> w[x]]
<1>1. u \in [S -> Nat] /\ \A x \in S : w[x] = u[x] /\ v[x] = u[x]
  OBVIOUS
<1> HIDE DEF u
<1>2. PICK f \in [SUBSET S -> Nat] : Summing(u, S, f)
  BY <1>1, SummingExists
<1>3. S \in SUBSET S
  OBVIOUS
<1>4. SumFunctionOnSet(w, S) = f[S] /\ SumFunctionOnSet(v, S) = f[S]
  BY <1>1, <1>2, <1>3, SumOfSubset
<1>5. QED
  BY <1>4

\* An element more adds its value.
LEMMA SumWithOne ==
    ASSUME NEW S, IsFiniteSet(S), NEW y, y \notin S, NEW w,
           \A x \in S \cup {y} : w[x] \in Nat
    PROVE  SumFunctionOnSet(w, S \cup {y}) = w[y] + SumFunctionOnSet(w, S)
<1> DEFINE all == S \cup {y}
           u == [x \in all |-> w[x]]
<1>1. IsFiniteSet(all)
  BY FS_AddElement
<1>2. u \in [all -> Nat] /\ \A x \in all : w[x] = u[x]
  OBVIOUS
<1>3. S \in SUBSET all /\ all \in SUBSET all /\ y \in all \ S /\ all = S \cup {y}
  OBVIOUS
<1> HIDE DEF u, all
<1>4. PICK f \in [SUBSET all -> Nat] : Summing(u, all, f)
  BY <1>1, <1>2, SummingExists
<1>5. SumFunctionOnSet(w, all) = f[all]
  BY <1>1, <1>2, <1>4, SumOfWhole
<1>8. SumFunctionOnSet(w, S) = f[S]
  <2>1. \A x \in S : w[x] = u[x]
    BY <1>2, <1>3
  <2>2. QED
    BY <1>1, <1>2, <1>3, <1>4, <2>1, SumOfSubset
<1>6. f[S \cup {y}] = u[y] + f[S]
  <2>1. Adds(u, all, f)
    BY <1>1, <1>2, <1>4, SummingAdds
  <2>2. QED
    BY ONLY <1>3, <2>1 DEF Adds
<1>7. QED
  BY <1>2, <1>3, <1>5, <1>6, <1>8

\* Sums over disjoint sets add up.
LEMMA SumOfUnion ==
    ASSUME NEW A, IsFiniteSet(A), NEW B, IsFiniteSet(B), A \cap B = {},
           NEW w, \A x \in A \cup B : w[x] \in Nat
    PROVE  SumFunctionOnSet(w, A \cup B) = SumFunctionOnSet(w, A) + SumFunctionOnSet(w, B)
<1> DEFINE Good(T) == /\ IsFiniteSet(T) /\ IsFiniteSet(A \cup T)
                      /\ SumFunctionOnSet(w, A \cup T) =
                            SumFunctionOnSet(w, A) + SumFunctionOnSet(w, T)
           P == {T \in SUBSET B : Good(T)}
<1>1. SumFunctionOnSet(w, A) \in Nat
  BY SumIsNatural
<1>2. {} \in P
  <2>1. A \cup {} = A /\ SumFunctionOnSet(w, {}) = 0 /\ IsFiniteSet({})
    BY SumOfNone, FS_EmptySet
  <2>2. QED
    BY <1>1, <2>1
<1>3. ASSUME NEW T \in SUBSET B, T \in P, NEW x \in B \ T
      PROVE  T \cup {x} \in P
  <2>1. IsFiniteSet(T) /\ IsFiniteSet(A \cup T) /\ x \notin A \cup T /\ x \notin T
    BY <1>3
  <2>2. IsFiniteSet(T \cup {x}) /\ IsFiniteSet((A \cup T) \cup {x})
    BY <2>1, FS_AddElement
  <2>3. /\ SumFunctionOnSet(w, T \cup {x}) = w[x] + SumFunctionOnSet(w, T)
        /\ SumFunctionOnSet(w, (A \cup T) \cup {x}) = w[x] + SumFunctionOnSet(w, A \cup T)
    <3>1. (\A y \in T \cup {x} : w[y] \in Nat) /\ \A y \in (A \cup T) \cup {x} : w[y] \in Nat
      OBVIOUS
    <3>2. QED
      BY <2>1, <3>1, SumWithOne
  <2>4. (A \cup T) \cup {x} = A \cup (T \cup {x})
    OBVIOUS
  <2>5. SumFunctionOnSet(w, T) \in Nat /\ w[x] \in Nat
    BY <2>1, SumIsNatural
  <2>6. SumFunctionOnSet(w, A \cup T) = SumFunctionOnSet(w, A) + SumFunctionOnSet(w, T)
    BY <1>3
  <2>7. SumFunctionOnSet(w, A \cup (T \cup {x})) =
            SumFunctionOnSet(w, A) + SumFunctionOnSet(w, T \cup {x})
    BY <1>1, <2>3, <2>4, <2>5, <2>6
  <2>8. QED
    BY <2>2, <2>4, <2>7
<1> HIDE DEF P
<1>4. SUBSET B \subseteq P
  BY <1>2, <1>3, GrowTo
<1>5. QED
  BY <1>4 DEF P

\* Elements may be renamed.
LEMMA SumOfImage ==
    ASSUME NEW A, IsFiniteSet(A), NEW m, \A x, y \in A : m[x] = m[y] => x = y,
           NEW w, NEW v, \A x \in A : w[x] \in Nat /\ v[m[x]] = w[x]
    PROVE  /\ IsFiniteSet({m[x] : x \in A})
           /\ SumFunctionOnSet(v, {m[x] : x \in A}) = SumFunctionOnSet(w, A)
<1> DEFINE I(T) == {m[x] : x \in T}
           P == {T \in SUBSET A : /\ IsFiniteSet(T) /\ IsFiniteSet(I(T))
                                  /\ SumFunctionOnSet(v, I(T)) = SumFunctionOnSet(w, T)}
<1>1. {} \in P
  <2>1. I({}) = {} /\ SumFunctionOnSet(v, {}) = 0 /\ SumFunctionOnSet(w, {}) = 0
    BY SumOfNone
  <2>2. QED
    BY <2>1, FS_EmptySet
<1>2. ASSUME NEW T \in SUBSET A, T \in P, NEW x \in A \ T
      PROVE  T \cup {x} \in P
  <2>1. I(T \cup {x}) = I(T) \cup {m[x]} /\ m[x] \notin I(T) /\ x \notin T
    BY <1>2
  <2>2. \A z \in I(T) \cup {m[x]} : v[z] \in Nat
    BY <1>2
  <2>3. /\ IsFiniteSet(T) /\ IsFiniteSet(I(T))
        /\ SumFunctionOnSet(v, I(T)) = SumFunctionOnSet(w, T)
    BY <1>2
  <2> HIDE DEF I
  <2>4. IsFiniteSet(T \cup {x}) /\ IsFiniteSet(I(T) \cup {m[x]})
    BY <2>3, FS_AddElement
  <2>5. SumFunctionOnSet(v, I(T) \cup {m[x]}) = v[m[x]] + SumFunctionOnSet(v, I(T))
    BY <2>1, <2>2, <2>3, SumWithOne
  <2>6. SumFunctionOnSet(w, T \cup {x}) = w[x] + SumFunctionOnSet(w, T)
    BY <2>1, <2>3, SumWithOne
  <2>7. v[m[x]] = w[x]
    OBVIOUS
  <2>8. QED
    BY <2>1, <2>3, <2>4, <2>5, <2>6, <2>7
<1> HIDE DEF P
<1>3. SUBSET A \subseteq P
  BY <1>1, <1>2, GrowTo
<1>4. QED
  BY <1>3 DEF P

\* Zeros add up to zero.
LEMMA SumOfZeros ==
    ASSUME NEW S, IsFiniteSet(S), NEW w, \A x \in S : w[x] = 0
    PROVE  SumFunctionOnSet(w, S) = 0
<1> DEFINE P == {T \in SUBSET S : IsFiniteSet(T) /\ SumFunctionOnSet(w, T) = 0}
<1>1. {} \in P
  BY SumOfNone, FS_EmptySet
<1>2. ASSUME NEW T \in SUBSET S, T \in P, NEW x \in S \ T
      PROVE  T \cup {x} \in P
  <2>1. IsFiniteSet(T) /\ x \notin T /\ \A y \in T \cup {x} : w[y] \in Nat
    BY <1>2
  <2>2. SumFunctionOnSet(w, T \cup {x}) = w[x] + SumFunctionOnSet(w, T)
    BY <2>1, SumWithOne
  <2>3. IsFiniteSet(T \cup {x})
    BY <2>1, FS_AddElement
  <2>4. QED
    BY <1>2, <2>2, <2>3
<1> HIDE DEF P
<1>3. SUBSET S \subseteq P
  BY <1>1, <1>2, GrowTo
<1>4. QED
  BY <1>3 DEF P

\* Elements that count nothing may be left out.
LEMMA SumOfPart ==
    ASSUME NEW S, IsFiniteSet(S), NEW T \in SUBSET S, NEW w, \A x \in S : w[x] \in Nat,
           \A x \in S \ T : w[x] = 0
    PROVE  SumFunctionOnSet(w, S) = SumFunctionOnSet(w, T)
<1> DEFINE rest == S \ T
<1>1. IsFiniteSet(T) /\ IsFiniteSet(rest)
  BY FS_Subset
<1>2. S = T \cup rest /\ T \cap rest = {}
  OBVIOUS
<1>7. \A x \in rest : w[x] = 0
  OBVIOUS
<1> HIDE DEF rest
<1>3. SumFunctionOnSet(w, T \cup rest) = SumFunctionOnSet(w, T) + SumFunctionOnSet(w, rest)
  <2>1. \A x \in T \cup rest : w[x] \in Nat
    BY <1>2
  <2>2. QED
    BY <1>1, <1>2, <2>1, SumOfUnion
<1>4. SumFunctionOnSet(w, rest) = 0
  BY <1>1, <1>7, SumOfZeros
<1>5. SumFunctionOnSet(w, T) \in Nat
  BY <1>1, SumIsNatural
<1>6. QED
  BY ONLY <1>2, <1>3, <1>4, <1>5

\* w is a table over A \X B, of the rows row[a] with the sums u[a].
Table(w, row, u, A, B) ==
    /\ \A a \in A : \A b \in B : w[<<a, b>>] \in Nat /\ row[a][b] = w[<<a, b>>]
    /\ \A a \in A : u[a] = SumFunctionOnSet(row[a], B)

\* A table summed row by row.
LEMMA SumOfRows ==
    ASSUME NEW A, IsFiniteSet(A), NEW B, IsFiniteSet(B),
           NEW w, NEW row, NEW u, Table(w, row, u, A, B)
    PROVE  IsFiniteSet(A \X B) /\ SumFunctionOnSet(w, A \X B) = SumFunctionOnSet(u, A)
<1> USE DEF Table
<1> DEFINE Good(T) == /\ IsFiniteSet(T) /\ IsFiniteSet(T \X B)
                      /\ SumFunctionOnSet(w, T \X B) = SumFunctionOnSet(u, T)
           P == {T \in SUBSET A : Good(T)}
<1>0. \A a \in A : u[a] \in Nat
  <2> TAKE a \in A
  <2>1. \A b \in B : row[a][b] \in Nat
    OBVIOUS
  <2>2. SumFunctionOnSet(row[a], B) \in Nat
    BY <2>1, SumIsNatural
  <2>3. QED
    BY <2>2
<1>1. {} \in P
  <2>1. {} \X B = {} /\ IsFiniteSet({})
    BY FS_EmptySet
  <2>2. SumFunctionOnSet(w, {}) = 0 /\ SumFunctionOnSet(u, {}) = 0
    BY SumOfNone
  <2>3. QED
    BY <2>1, <2>2
<1>2. ASSUME NEW T \in SUBSET A, T \in P, NEW x \in A \ T
      PROVE  T \cup {x} \in P
  <2>1. IsFiniteSet(T) /\ IsFiniteSet(T \X B) /\ SumFunctionOnSet(w, T \X B) = SumFunctionOnSet(u, T)
    BY <1>2
  <2> DEFINE m == [b \in B |-> <<x, b>>]
             R == {m[b] : b \in B}
  <2>2. /\ (T \cup {x}) \X B = (T \X B) \cup R /\ (T \X B) \cap R = {}
    OBVIOUS
  <2>3. \A b, c \in B : m[b] = m[c] => b = c
    OBVIOUS
  <2>4. \A b \in B : row[x][b] \in Nat /\ w[m[b]] = row[x][b]
    OBVIOUS
  <2>5. \A p \in (T \X B) \cup R : w[p] \in Nat
    OBVIOUS
  <2> HIDE DEF m
  <2>6. IsFiniteSet(R) /\ SumFunctionOnSet(w, R) = SumFunctionOnSet(row[x], B)
    <3> DEFINE r == row[x]
    <3>1. IsFiniteSet(B) /\ \A b \in B : r[b] \in Nat /\ w[m[b]] = r[b]
      BY <2>4
    <3> HIDE DEF r
    <3>2. IsFiniteSet({m[b] : b \in B}) /\ SumFunctionOnSet(w, {m[b] : b \in B}) = SumFunctionOnSet(r, B)
      BY ONLY <2>3, <3>1, SumOfImage
    <3>3. QED
      BY <3>2 DEF r
  <2> HIDE DEF R
  <2>7. IsFiniteSet((T \X B) \cup R)
    BY <2>1, <2>6, FS_Union
  <2>8. SumFunctionOnSet(w, (T \X B) \cup R) = SumFunctionOnSet(w, T \X B) + SumFunctionOnSet(w, R)
    BY <2>1, <2>2, <2>5, <2>6, SumOfUnion
  <2>9. IsFiniteSet(T \cup {x}) /\ \A y \in T \cup {x} : u[y] \in Nat
    BY <1>0, <2>1, FS_AddElement
  <2>10. SumFunctionOnSet(u, T \cup {x}) = u[x] + SumFunctionOnSet(u, T)
    BY <2>1, <2>9, SumWithOne
  <2>11. SumFunctionOnSet(w, T \X B) \in Nat /\ u[x] \in Nat
    BY <1>0, <2>1, <2>5, SumIsNatural
  <2>12. SumFunctionOnSet(w, (T \cup {x}) \X B) = SumFunctionOnSet(u, T \cup {x})
    <3>1. SumFunctionOnSet(w, R) = u[x]
      BY <2>6
    <3>2. SumFunctionOnSet(w, (T \cup {x}) \X B) = SumFunctionOnSet(w, (T \X B) \cup R)
      BY <2>2
    <3>3. QED
      BY ONLY <2>1, <2>8, <2>10, <2>11, <3>1, <3>2
  <2>13. IsFiniteSet((T \cup {x}) \X B) /\ T \cup {x} \in SUBSET A
    BY <2>2, <2>7
  <2>14. QED
    BY <2>9, <2>12, <2>13
<1> HIDE DEF P
<1>3. SUBSET A \subseteq P
  BY <1>1, <1>2, GrowTo
<1>4. QED
  BY <1>3 DEF P

\* The sum over one element is its value.
LEMMA SumOfOne ==
    ASSUME NEW x, NEW w, w[x] \in Nat
    PROVE  SumFunctionOnSet(w, {x}) = w[x]
<1>1. IsFiniteSet({}) /\ x \notin {} /\ {} \cup {x} = {x} /\ \A y \in {} \cup {x} : w[y] \in Nat
  BY FS_EmptySet
<1>2. SumFunctionOnSet(w, {} \cup {x}) = w[x] + SumFunctionOnSet(w, {})
  BY ONLY <1>1, SumWithOne
<1>3. QED
  BY <1>1, <1>2, SumOfNone

=============================================================================
