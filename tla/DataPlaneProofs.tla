-------------------------- MODULE DataPlaneProofs --------------------------
(***************************************************************************)
(* Proofs about the data plane, for every profile, request, quota and      *)
(* number of transfers and relays: what the planner gives to a path, what  *)
(* the blocks record of it and what the worker and the client copy.        *)
(*                                                                         *)
(* The first parts are about the operators.  Sequences are weighed by      *)
(* sums over their positions, so that bytes and chunks of a concatenation  *)
(* are sums.  Ranges are cut into chunks that write the same bytes.        *)
(* Pressures, costs and weights are natural numbers, so that a path is     *)
(* chosen by cross-multiplied loads, and spreading the chunks keeps        *)
(* Balanced and Placed: a path has at most a chunk more than its share,    *)
(* and every chunk is on exactly one path.  DecisionFacts gathers this for *)
(* the whole planner.                                                      *)
(*                                                                         *)
(* DataPlaneInv has a part about the daemon's tables (Sound), which each   *)
(* table that a handler passes through also satisfies, and one about the   *)
(* workers and clients (GoodWorker).  Refreshed promotes the delayed       *)
(* transfers in an arbitrary order: it is a fold over a set, and what      *)
(* holds of every promotion holds at its end (VisitsExist, VisitsStay).    *)
(* The last part shows that no transfer waits alone when each fits into    *)
(* the quota of its session.                                               *)
(***************************************************************************)
EXTENDS DataPlane, DataLemmas

-----------------------------------------------------------------------------
\* Sequences: what FlattenSeq computes, prefix by prefix.

\* The first n elements.
FirstOf(s, n) == [i \in 1..n |-> s[i]]

\* The function that FlattenSeq folds with.
Flattening(ss, f) ==
    f = [i \in 1..Len(ss) |-> IF i = 1 THEN ss[i] ELSE f[i - 1] \o ss[i]]

\* A sequence is flattened from the front.
LEMMA FlattenExpanded ==
    ASSUME NEW ss, Len(ss) # 0
    PROVE  FlattenSeq(ss) = (CHOOSE f : Flattening(ss, f))[Len(ss)]
  BY DEF FlattenSeq, Flattening

\* There is such a function.
LEMMA FlatteningExists ==
    ASSUME NEW S, NEW ss \in Seq(Seq(S))
    PROVE  \E f : Flattening(ss, f) /\ f \in [1..Len(ss) -> Seq(S)]
<1> DEFINE op == [i \in 1..Len(ss) |->
                     [h \in Seq(S) |-> IF i = 1 THEN ss[i] ELSE h \o ss[i]]]
<1>1. Len(ss) \in Nat /\ <<>> \in Seq(S)
  OBVIOUS
<1>2. op \in [1..Len(ss) -> [Seq(S) -> Seq(S)]]
  <2>1. \A i \in 1..Len(ss) : ss[i] \in Seq(S)
    OBVIOUS
  <2>2. \A i \in 1..Len(ss), h \in Seq(S) : h \o ss[i] \in Seq(S)
    BY <2>1
  <2>3. QED
    BY <2>1, <2>2
<1>3. PICK f : History(f, Seq(S), <<>>, Len(ss), op)
  <2> DEFINE n == Len(ss)
             H == Seq(S)
             h == <<>>
  <2>1. n \in Nat /\ h \in H /\ op \in [1..n -> [H -> H]]
    BY <1>1, <1>2
  <2> HIDE DEF op, n, H, h
  <2>2. \E f : History(f, H, h, n, op)
    BY <2>1, Iterates
  <2>3. QED
    BY <2>2 DEF n, H, h
<1> DEFINE g == [i \in 1..Len(ss) |-> f[i]]
<1>4. ASSUME NEW i \in 1..Len(ss)
      PROVE  f[i] = IF i = 1 THEN ss[i] ELSE f[i - 1] \o ss[i]
  <2>a. i - 1 \in 0..Len(ss)
    BY <1>1
  <2>1. f[i - 1] \in Seq(S)
    <3> HIDE DEF op
    <3>1. QED
      BY <1>3, <2>a DEF History
  <2>2. op[i][f[i - 1]] = IF i = 1 THEN ss[i] ELSE f[i - 1] \o ss[i]
    BY <2>1
  <2>3. QED
    BY <1>3, <2>2 DEF History
<1>5. ASSUME NEW i \in 1..Len(ss)
      PROVE  g[i] = IF i = 1 THEN ss[i] ELSE g[i - 1] \o ss[i]
  <2>1. CASE i = 1
    BY <1>4, <2>1
  <2>2. CASE i # 1
    <3>1. i - 1 \in 1..Len(ss) /\ i \in 1..Len(ss)
      BY <2>2
    <3>2. g[i - 1] = f[i - 1] /\ g[i] = f[i]
      BY <3>1
    <3> HIDE DEF g
    <3>3. QED
      BY <1>4, <2>2, <3>2
  <2>3. QED
    BY <2>1, <2>2
<1>6. g \in [1..Len(ss) -> Seq(S)]
  BY <1>3 DEF History
<1>7. Flattening(ss, g)
  <2> HIDE DEF g
  <2>1. g = [i \in 1..Len(ss) |-> g[i]]
    BY <1>6
  <2>2. QED
    BY <1>5, <2>1 DEF Flattening
<1>8. QED
  BY <1>6, <1>7

\* A sequence is its prefixes; each is the one before with an element appended.
LEMMA PrefixFacts ==
    ASSUME NEW S, NEW s \in Seq(S)
    PROVE  /\ FirstOf(s, 0) = <<>> /\ FirstOf(s, Len(s)) = s
           /\ \A n \in 0..Len(s) : FirstOf(s, n) \in Seq(S) /\ Len(FirstOf(s, n)) = n
           /\ \A n \in 0..(Len(s) - 1) :
                 FirstOf(s, n + 1) = Append(FirstOf(s, n), s[n + 1]) /\ s[n + 1] \in S
<1>1. FirstOf(s, 0) = <<>> /\ FirstOf(s, Len(s)) = s
  BY DEF FirstOf
<1>2. ASSUME NEW n \in 0..Len(s)
      PROVE  FirstOf(s, n) \in Seq(S) /\ Len(FirstOf(s, n)) = n
  BY DEF FirstOf
<1>3. ASSUME NEW n \in 0..(Len(s) - 1)
      PROVE  FirstOf(s, n + 1) = Append(FirstOf(s, n), s[n + 1]) /\ s[n + 1] \in S
  <2>1. s[n + 1] \in S
    OBVIOUS
  <2>2. FirstOf(s, n) \in Seq(S) /\ FirstOf(s, n + 1) \in Seq(S)
        /\ Len(FirstOf(s, n)) = n /\ Len(FirstOf(s, n + 1)) = n + 1
    <3>1. n \in 0..Len(s) /\ n + 1 \in 0..Len(s)
      OBVIOUS
    <3>2. QED
      BY <1>2, <3>1
  <2>3. \A i \in 1..(n + 1) : FirstOf(s, n + 1)[i] = s[i]
    BY DEF FirstOf
  <2>4. \A i \in 1..n : FirstOf(s, n)[i] = s[i]
    BY DEF FirstOf
  <2> DEFINE a == FirstOf(s, n)
             b == FirstOf(s, n + 1)
             c == Append(a, s[n + 1])
  <2>5. c \in Seq(S) /\ Len(c) = n + 1 /\ c[n + 1] = s[n + 1] /\ \A i \in 1..n : c[i] = a[i]
    BY <2>1, <2>2
  <2>6. \A i \in 1..(n + 1) : b[i] = c[i]
    BY <2>3, <2>4, <2>5
  <2> HIDE DEF a, b, c
  <2>7. b = c
    BY <2>2, <2>5, <2>6 DEF b
  <2>8. QED
    BY <2>1, <2>7 DEF a, b, c
<1>4. QED
  BY <1>1, <1>2, <1>3

\* Two functions that satisfy the equation of FlattenSeq on a prefix agree there.
LEMMA FlattenAppend ==
    ASSUME NEW S, NEW ss \in Seq(Seq(S)), NEW s \in Seq(S)
    PROVE  /\ FlattenSeq(ss) \in Seq(S)
           /\ FlattenSeq(Append(ss, s)) = FlattenSeq(ss) \o s
<1> DEFINE tt == Append(ss, s)
           f == CHOOSE h : Flattening(ss, h)
           g == CHOOSE h : Flattening(tt, h)
           n == Len(ss)
<1>1. tt \in Seq(Seq(S)) /\ Len(tt) = n + 1 /\ n \in Nat
      /\ tt[n + 1] = s /\ \A i \in 1..n : tt[i] = ss[i]
  OBVIOUS
<1>2. Flattening(ss, f) /\ Flattening(tt, g)
  <2>1. \E h : Flattening(ss, h)
    BY FlatteningExists
  <2>2. \E h : Flattening(tt, h)
    <3> HIDE DEF tt
    <3>1. QED
      BY <1>1, FlatteningExists
  <2>3. QED
    BY <2>1, <2>2
<1>3. FlattenSeq(tt) = g[n + 1]
  <2>1. Len(tt) # 0
    BY <1>1
  <2> HIDE DEF tt, n
  <2>2. QED
    BY <1>1, <2>1, FlattenExpanded
<1> HIDE DEF f, g, tt
<1>4. \A i \in 1..n : f[i] = IF i = 1 THEN ss[i] ELSE f[i - 1] \o ss[i]
  BY <1>2 DEF Flattening
<1>5. \A i \in 1..(n + 1) : g[i] = IF i = 1 THEN tt[i] ELSE g[i - 1] \o tt[i]
  <2>1. g = [i \in 1..Len(tt) |-> IF i = 1 THEN tt[i] ELSE g[i - 1] \o tt[i]]
    BY <1>2 DEF Flattening
  <2>2. QED
    BY <1>1, <2>1
<1> DEFINE Good(i) == i # 0 => f[i] \in Seq(S) /\ g[i] = f[i]
           P == {i \in 0..n : Good(i)}
<1>6. ASSUME NEW i \in 0..(n - 1), Good(i)
      PROVE  Good(i + 1)
  <2>1. i + 1 \in 1..n /\ i + 1 \in 1..(n + 1) /\ (i + 1) - 1 = i
    BY <1>1
  <2>2. ss[i + 1] \in Seq(S) /\ tt[i + 1] = ss[i + 1]
    BY <1>1, <2>1
  <2>3. CASE i = 0
    BY <1>4, <1>5, <2>1, <2>2, <2>3
  <2>4. CASE i # 0
    <3>a. i + 1 # 1
      BY <2>4
    <3>b. f[i + 1] = IF i + 1 = 1 THEN ss[i + 1] ELSE f[(i + 1) - 1] \o ss[i + 1]
      BY <1>4, <2>1
    <3>c. g[i + 1] = IF i + 1 = 1 THEN tt[i + 1] ELSE g[(i + 1) - 1] \o tt[i + 1]
      BY <1>5, <2>1
    <3>1. f[i + 1] = f[i] \o ss[i + 1]
      BY <2>1, <3>a, <3>b
    <3>2. g[i + 1] = g[i] \o tt[i + 1]
      BY <2>1, <3>a, <3>c
    <3>3. f[i] \in Seq(S) /\ g[i] = f[i]
      BY <1>6, <2>4
    <3>4. f[i] \o ss[i + 1] \in Seq(S)
      BY <2>2, <3>3
    <3>5. QED
      BY <2>2, <3>1, <3>2, <3>3, <3>4
  <2>5. QED
    BY <2>3, <2>4
<1>7. 0..n \subseteq P
  <2>1. 0 \in P /\ \A i \in 0..(n - 1) : i \in P => i + 1 \in P
    BY <1>1, <1>6
  <2> HIDE DEF P
  <2>2. QED
    BY <1>1, <2>1, InductionUpTo
<1>8. Good(n)
  BY <1>1, <1>7
<1>9. CASE n = 0
  <2>1. ss = <<>>
    BY <1>9
  <2>2. FlattenSeq(ss) = <<>>
    BY <2>1 DEF FlattenSeq
  <2>3. g[n + 1] = s
    BY <1>1, <1>5, <1>9
  <2>4. <<>> \o s = s
    OBVIOUS
  <2>5. QED
    BY <1>3, <2>2, <2>3, <2>4 DEF tt
<1>10. CASE n # 0
  <2>1. FlattenSeq(ss) = f[n]
    BY <1>10, FlattenExpanded DEF f
  <2>2. g[n + 1] = g[n] \o s
    <3>1. n + 1 \in 1..(n + 1) /\ n + 1 # 1 /\ (n + 1) - 1 = n
      BY <1>1, <1>10
    <3>2. QED
      BY <1>1, <1>5, <3>1
  <2>3. QED
    BY <1>3, <1>8, <1>10, <2>1, <2>2 DEF tt
<1>11. QED
  BY <1>9, <1>10

\* Nothing flattens to nothing.
LEMMA FlattenNone == FlattenSeq(<<>>) = <<>>
  BY DEF FlattenSeq

\* Induction over the sequences: what holds of the empty one and stays with an element more.
LEMMA SequencesAll ==
    ASSUME NEW S, NEW P, <<>> \in P,
           \A s \in Seq(S) : s \in P => \A e \in S : Append(s, e) \in P
    PROVE  Seq(S) \subseteq P
<1> SUFFICES ASSUME NEW s \in Seq(S)
             PROVE  s \in P
  OBVIOUS
<1> DEFINE Q == {n \in 0..Len(s) : FirstOf(s, n) \in P}
<1>1. Len(s) \in Nat
  OBVIOUS
<1>2. 0 \in Q
  BY <1>1, PrefixFacts
<1>3. ASSUME NEW n \in 0..(Len(s) - 1), n \in Q
      PROVE  n + 1 \in Q
  <2>1. n \in 0..Len(s) /\ n + 1 \in 0..Len(s)
    BY <1>1
  <2>2. FirstOf(s, n + 1) = Append(FirstOf(s, n), s[n + 1]) /\ s[n + 1] \in S
        /\ FirstOf(s, n) \in Seq(S)
    BY <2>1, PrefixFacts
  <2>3. QED
    BY <1>3, <2>1, <2>2
<1>4. 0..Len(s) \subseteq Q
  <2> HIDE DEF Q
  <2>1. QED
    BY <1>1, <1>2, <1>3, InductionUpTo
<1>5. QED
  BY <1>1, <1>4, PrefixFacts

\* The elements of sequences that are joined.
LEMMA ElementsOfAppend ==
    ASSUME NEW S, NEW s \in Seq(S), NEW e \in S
    PROVE  ToSet(Append(s, e)) = ToSet(s) \cup {e}
<1> DEFINE t == Append(s, e)
<1>1. t \in Seq(S) /\ Len(t) = Len(s) + 1 /\ t[Len(s) + 1] = e /\ \A i \in 1..Len(s) : t[i] = s[i]
  OBVIOUS
<1>2. DOMAIN t = 1..(Len(s) + 1) /\ DOMAIN s = 1..Len(s) /\ Len(s) \in Nat
  BY <1>1
<1> HIDE DEF t
<1>3. ToSet(t) \subseteq ToSet(s) \cup {e}
  BY <1>1, <1>2 DEF ToSet
<1>4. ToSet(s) \cup {e} \subseteq ToSet(t)
  BY <1>1, <1>2 DEF ToSet
<1>5. QED
  BY <1>3, <1>4 DEF t

\* The elements of two sequences, one after the other.
LEMMA ElementsOfConcat ==
    ASSUME NEW S, NEW s \in Seq(S), NEW t \in Seq(S)
    PROVE  ToSet(s \o t) = ToSet(s) \cup ToSet(t)
<1> DEFINE u == s \o t
<1>1. u \in Seq(S) /\ Len(u) = Len(s) + Len(t)
      /\ \A i \in 1..Len(u) : u[i] = IF i <= Len(s) THEN s[i] ELSE t[i - Len(s)]
  OBVIOUS
<1>2. /\ DOMAIN u = 1..(Len(s) + Len(t)) /\ DOMAIN s = 1..Len(s) /\ DOMAIN t = 1..Len(t)
      /\ Len(s) \in Nat /\ Len(t) \in Nat
  BY <1>1
<1> HIDE DEF u
<1>3. ASSUME NEW i \in DOMAIN u
      PROVE  u[i] \in ToSet(s) \cup ToSet(t)
  <2>1. CASE i <= Len(s)
    BY <1>1, <1>2, <2>1 DEF ToSet
  <2>2. CASE ~(i <= Len(s))
    <3>1. i - Len(s) \in DOMAIN t /\ u[i] = t[i - Len(s)]
      BY <1>1, <1>2, <2>2
    <3>2. QED
      BY <3>1 DEF ToSet
  <2>3. QED
    BY <2>1, <2>2
<1>4. ToSet(s) \subseteq ToSet(u)
  BY <1>1, <1>2 DEF ToSet
<1>5. ASSUME NEW i \in DOMAIN t
      PROVE  t[i] \in ToSet(u)
  <2>1. i + Len(s) \in DOMAIN u /\ u[i + Len(s)] = t[i]
    BY <1>1, <1>2
  <2>2. QED
    BY <2>1 DEF ToSet
<1>6. QED
  BY <1>3, <1>4, <1>5 DEF u, ToSet

\* Flattening keeps the elements.
LEMMA ElementsOfFlat ==
    ASSUME NEW S, NEW ss \in Seq(Seq(S))
    PROVE  /\ FlattenSeq(ss) \in Seq(S)
           /\ \A e : e \in ToSet(FlattenSeq(ss)) <=> \E i \in DOMAIN ss : e \in ToSet(ss[i])
<1> DEFINE Good(tt) == /\ FlattenSeq(tt) \in Seq(S)
                       /\ \A e : e \in ToSet(FlattenSeq(tt)) <=> \E i \in DOMAIN tt : e \in ToSet(tt[i])
           P == {tt \in Seq(Seq(S)) : Good(tt)}
<1>1. <<>> \in P
  <2>1. FlattenSeq(<<>>) = <<>> /\ <<>> \in Seq(S) /\ <<>> \in Seq(Seq(S))
    BY FlattenNone
  <2>2. ToSet(<<>>) = {} /\ DOMAIN <<>> = {}
    BY DEF ToSet
  <2>3. QED
    BY <2>1, <2>2
<1>2. ASSUME NEW tt \in Seq(Seq(S)), Good(tt), NEW s \in Seq(S)
      PROVE  Good(Append(tt, s))
  <2> DEFINE uu == Append(tt, s)
  <2>1. /\ DOMAIN uu = 1..(Len(tt) + 1) /\ DOMAIN tt = 1..Len(tt) /\ Len(tt) \in Nat
        /\ uu[Len(tt) + 1] = s /\ \A i \in 1..Len(tt) : uu[i] = tt[i]
    OBVIOUS
  <2>2. FlattenSeq(uu) = FlattenSeq(tt) \o s
    BY FlattenAppend
  <2> HIDE DEF uu
  <2>3. FlattenSeq(uu) \in Seq(S) /\ ToSet(FlattenSeq(uu)) = ToSet(FlattenSeq(tt)) \cup ToSet(s)
    BY <1>2, <2>2, ElementsOfConcat
  <2>4. ASSUME NEW e
        PROVE  e \in ToSet(FlattenSeq(uu)) <=> \E i \in DOMAIN uu : e \in ToSet(uu[i])
    <3>1. ASSUME NEW i \in DOMAIN uu, e \in ToSet(uu[i])
          PROVE  (\E j \in DOMAIN tt : e \in ToSet(tt[j])) \/ e \in ToSet(s)
      <4>1. CASE i = Len(tt) + 1
        BY <2>1, <3>1, <4>1
      <4>2. CASE i # Len(tt) + 1
        <5>1. i \in DOMAIN tt /\ uu[i] = tt[i]
          BY <2>1, <4>2
        <5>2. QED
          BY <3>1, <5>1
      <4>3. QED
        BY <4>1, <4>2
    <3>3. ASSUME NEW j \in DOMAIN tt, e \in ToSet(tt[j])
          PROVE  \E i \in DOMAIN uu : e \in ToSet(uu[i])
      <4>1. j \in DOMAIN uu /\ uu[j] = tt[j]
        BY <2>1
      <4>2. QED
        BY <3>3, <4>1
    <3>4. Len(tt) + 1 \in DOMAIN uu /\ uu[Len(tt) + 1] = s
      BY <2>1
    <3>2. QED
      BY <1>2, <2>3, <3>1, <3>3, <3>4
  <2>5. QED
    BY <2>3, <2>4 DEF uu
<1>3. \A tt \in Seq(Seq(S)) : tt \in P => \A s \in Seq(S) : Append(tt, s) \in P
  <2> HIDE DEF Good
  <2>1. QED
    BY <1>2
<1>4. Seq(Seq(S)) \subseteq P
  <2> HIDE DEF P
  <2>1. QED
    BY <1>1, <1>3, SequencesAll
<1>5. QED
  BY <1>4

-----------------------------------------------------------------------------
\* Images of sequences.

\* A sequence with g applied to each element.
Image(g, s) == [i \in DOMAIN s |-> g[s[i]]]

\* An image is a sequence of values, as long; it is taken element by element.
LEMMA ImageType ==
    ASSUME NEW S, NEW T, NEW g, \A x \in S : g[x] \in T, NEW s \in Seq(S)
    PROVE  Image(g, s) \in Seq(T)
  BY DEF Image

\* The image of a sequence, value by value.
LEMMA ImageValues ==
    ASSUME NEW S, NEW g, NEW s \in Seq(S)
    PROVE  Len(Image(g, s)) = Len(s) /\ \A i \in 1..Len(s) : Image(g, s)[i] = g[s[i]]
  BY DEF Image

\* The image of nothing is nothing.
LEMMA ImageOfNone ==
    ASSUME NEW g
    PROVE  Image(g, <<>>) = <<>>
  BY DEF Image

\* The image of a longer sequence.
LEMMA ImageOfAppend ==
    ASSUME NEW S, NEW g, NEW s \in Seq(S), NEW e \in S
    PROVE  Image(g, Append(s, e)) = Append(Image(g, s), g[e])
<1> DEFINE T == {g[x] : x \in S}
           t == Append(s, e)
           a == Image(g, t)
           b == Append(Image(g, s), g[e])
<1>b. \A x \in S : g[x] \in T
  OBVIOUS
<1> HIDE DEF T
<1>a. ASSUME NEW z \in Seq(S)
      PROVE  /\ Image(g, z) \in Seq(T) /\ Len(Image(g, z)) = Len(z)
             /\ \A i \in 1..Len(z) : Image(g, z)[i] = g[z[i]]
  <2>1. Image(g, z) \in Seq(T)
    BY <1>b, ImageType
  <2>2. QED
    BY <2>1, ImageValues
<1>1. /\ t \in Seq(S) /\ Len(t) = Len(s) + 1 /\ t[Len(s) + 1] = e
      /\ \A i \in 1..Len(s) : t[i] = s[i]
  OBVIOUS
<1>2. a \in Seq(T) /\ Len(a) = Len(s) + 1
  <2> HIDE DEF t
  <2>1. QED
    BY <1>a, <1>1
<1>3. /\ b \in Seq(T) /\ Len(b) = Len(s) + 1 /\ b[Len(s) + 1] = g[e]
      /\ \A i \in 1..Len(s) : b[i] = Image(g, s)[i]
  <2>1. Image(g, s) \in Seq(T) /\ Len(Image(g, s)) = Len(s) /\ g[e] \in T
    BY <1>a, <1>b
  <2>2. QED
    BY <2>1
<1>4. \A i \in 1..Len(s) : Image(g, s)[i] = g[s[i]]
  BY DEF Image
<1>5. \A i \in 1..(Len(s) + 1) : a[i] = g[t[i]]
  <2> HIDE DEF t
  <2>1. QED
    BY <1>1 DEF Image
<1> HIDE DEF a, b, t
<1>6. a = b
  <2>1. \A i \in 1..(Len(s) + 1) : a[i] = b[i]
    BY <1>1, <1>3, <1>4, <1>5
  <2>2. QED
    BY <1>2, <1>3, <2>1
<1>7. QED
  BY <1>6 DEF a, b, t

\* The image of two sequences, one after the other.
LEMMA ImageOfConcat ==
    ASSUME NEW S, NEW g, NEW s \in Seq(S), NEW t \in Seq(S)
    PROVE  Image(g, s \o t) = Image(g, s) \o Image(g, t)
<1> DEFINE T == {g[x] : x \in S}
           u == s \o t
           a == Image(g, u)
           c == Image(g, s)
           d == Image(g, t)
           b == c \o d
<1>b. \A x \in S : g[x] \in T
  OBVIOUS
<1> HIDE DEF T
<1>a. ASSUME NEW z \in Seq(S)
      PROVE  /\ Image(g, z) \in Seq(T) /\ Len(Image(g, z)) = Len(z)
             /\ \A i \in 1..Len(z) : Image(g, z)[i] = g[z[i]]
  <2>1. Image(g, z) \in Seq(T)
    BY <1>b, ImageType
  <2>2. QED
    BY <2>1, ImageValues
<1>1. /\ u \in Seq(S) /\ Len(u) = Len(s) + Len(t) /\ Len(s) \in Nat /\ Len(t) \in Nat
      /\ \A i \in 1..Len(u) : u[i] = IF i <= Len(s) THEN s[i] ELSE t[i - Len(s)]
  OBVIOUS
<1>2. /\ c \in Seq(T) /\ Len(c) = Len(s) /\ d \in Seq(T) /\ Len(d) = Len(t)
      /\ (\A i \in 1..Len(s) : c[i] = g[s[i]]) /\ \A i \in 1..Len(t) : d[i] = g[t[i]]
  BY <1>a DEF Image
<1>3. a \in Seq(T) /\ Len(a) = Len(u) /\ \A i \in 1..Len(u) : a[i] = g[u[i]]
  <2> HIDE DEF u
  <2>1. QED
    BY <1>a, <1>1 DEF Image
<1> HIDE DEF a, c, d, u
<1>4. /\ b \in Seq(T) /\ Len(b) = Len(s) + Len(t)
      /\ \A i \in 1..(Len(s) + Len(t)) : b[i] = IF i <= Len(s) THEN c[i] ELSE d[i - Len(s)]
  <2>1. c \in Seq(T) /\ d \in Seq(T)
    BY <1>2
  <2>2. /\ b \in Seq(T) /\ Len(b) = Len(c) + Len(d)
        /\ \A i \in 1..(Len(c) + Len(d)) : b[i] = IF i <= Len(c) THEN c[i] ELSE d[i - Len(c)]
    BY <2>1
  <2> HIDE DEF b
  <2>3. QED
    BY <1>2, <2>2
<1> HIDE DEF b
<1>5. \A i \in 1..Len(u) : a[i] = b[i]
  <2> SUFFICES ASSUME NEW i \in 1..Len(u)
               PROVE  a[i] = b[i]
    OBVIOUS
  <2>a. /\ i \in 1..(Len(s) + Len(t)) /\ a[i] = g[u[i]]
        /\ u[i] = (IF i <= Len(s) THEN s[i] ELSE t[i - Len(s)])
        /\ b[i] = (IF i <= Len(s) THEN c[i] ELSE d[i - Len(s)])
    BY <1>1, <1>3, <1>4
  <2>1. CASE i <= Len(s)
    <3>1. i \in 1..Len(s)
      BY <1>1, <2>1
    <3>2. QED
      BY <1>2, <2>a, <2>1, <3>1
  <2>2. CASE ~(i <= Len(s))
    <3>1. i - Len(s) \in 1..Len(t)
      BY <1>1, <2>2
    <3>2. QED
      BY <1>2, <2>a, <2>2, <3>1
  <2>3. QED
    BY <2>1, <2>2
<1>6. a = b
  <2>1. Len(a) = Len(b) /\ \A i \in 1..Len(a) : a[i] = b[i]
    BY <1>1, <1>3, <1>4, <1>5
  <2>2. QED
    BY <1>3, <1>4, <2>1
<1>7. QED
  BY <1>6 DEF a, b, c, d, u

\* An image of a flattened sequence.
LEMMA FlattenImage ==
    ASSUME NEW S, NEW g, NEW h, \A s \in Seq(S) : h[s] = Image(g, s), NEW ss \in Seq(Seq(S))
    PROVE  Image(g, FlattenSeq(ss)) = FlattenSeq(Image(h, ss))
<1> DEFINE T == {g[x] : x \in S}
           Good(tt) == Image(g, FlattenSeq(tt)) = FlattenSeq(Image(h, tt))
           P == {tt \in Seq(Seq(S)) : Good(tt)}
<1>a. \A x \in S : g[x] \in T
  OBVIOUS
<1> HIDE DEF T
<1>1. \A s \in Seq(S) : h[s] \in Seq(T)
  <2>1. \A s \in Seq(S) : Image(g, s) \in Seq(T)
    BY <1>a, ImageType
  <2>2. QED
    BY <2>1
<1>2. <<>> \in P
  <2>1. Image(h, <<>>) = <<>> /\ Image(g, <<>>) = <<>>
    BY DEF Image
  <2>2. QED
    BY <2>1, FlattenNone
<1>3. ASSUME NEW tt \in Seq(Seq(S)), Good(tt), NEW s \in Seq(S)
      PROVE  Good(Append(tt, s))
  <2>1. h[s] = Image(g, s) /\ h[s] \in Seq(T)
    BY <1>1
  <2>2. Image(h, Append(tt, s)) = Append(Image(h, tt), h[s]) /\ Image(h, tt) \in Seq(Seq(T))
    <3> DEFINE A == Seq(S)
               B == Seq(T)
    <3>1. (\A x \in A : h[x] \in B) /\ tt \in Seq(A) /\ s \in A
      BY <1>1, <1>3
    <3> HIDE DEF A, B
    <3>a. Image(h, tt) \in Seq(B)
      BY <3>1, ImageType
    <3>2. Image(h, Append(tt, s)) = Append(Image(h, tt), h[s]) /\ Image(h, tt) \in Seq(B)
      BY <3>1, <3>a, ImageOfAppend
    <3>3. QED
      BY <3>2 DEF B
  <2>3. FlattenSeq(Append(Image(h, tt), h[s])) = FlattenSeq(Image(h, tt)) \o h[s]
    BY <2>1, <2>2, FlattenAppend
  <2>4. FlattenSeq(Append(tt, s)) = FlattenSeq(tt) \o s /\ FlattenSeq(tt) \in Seq(S)
    BY FlattenAppend
  <2>5. Image(g, FlattenSeq(tt) \o s) = Image(g, FlattenSeq(tt)) \o Image(g, s)
    <3>1. FlattenSeq(tt) \in Seq(S)
      BY <2>4
    <3>2. QED
      BY <3>1, ImageOfConcat
  <2>6. QED
    BY <1>3, <2>1, <2>2, <2>3, <2>4, <2>5
<1>4. \A tt \in Seq(Seq(S)) : tt \in P => \A s \in Seq(S) : Append(tt, s) \in P
  <2> HIDE DEF Good
  <2>1. QED
    BY <1>3
<1>5. Seq(Seq(S)) \subseteq P
  <2> HIDE DEF P
  <2>1. QED
    BY <1>2, <1>4, SequencesAll
<1>6. Good(ss)
  <2> HIDE DEF Good
  <2>1. QED
    BY <1>5
<1>7. QED
  BY <1>6

\* Filter takes one element after the other.
LEMMA FilterAppend ==
    ASSUME NEW S, NEW s \in Seq(S), NEW e \in S, NEW keep
    PROVE  Filter(Append(s, e), keep) =
               IF Len(s) + 1 \in keep THEN Append(Filter(s, keep), e) ELSE Filter(s, keep)
<1> DEFINE t == Append(s, e)
           f == CHOOSE h : Filtering(s, keep, h)
           g == CHOOSE h : Filtering(t, keep, h)
           n == Len(s)
<1>1. t \in Seq(S) /\ Len(t) = n + 1 /\ n \in Nat /\ t[n + 1] = e /\ \A i \in 1..n : t[i] = s[i]
  OBVIOUS
<1> HIDE DEF t
<1>2. Filtering(s, keep, f) /\ Filtering(t, keep, g)
  BY <1>1, FilteringExists
<1>3. Filter(s, keep) = f[n] /\ Filter(t, keep) = g[n + 1]
  BY <1>1, FilterExpanded
<1> HIDE DEF f, g
<1>4. \A i \in 0..n : f[i] = IF i = 0 THEN <<>>
                             ELSE IF i \in keep THEN Append(f[i - 1], s[i]) ELSE f[i - 1]
  BY <1>2 DEF Filtering
<1>5. \A i \in 0..(n + 1) : g[i] = IF i = 0 THEN <<>>
                             ELSE IF i \in keep THEN Append(g[i - 1], t[i]) ELSE g[i - 1]
  <2>1. g = [i \in 0..Len(t) |-> IF i = 0 THEN <<>>
                             ELSE IF i \in keep THEN Append(g[i - 1], t[i]) ELSE g[i - 1]]
    BY <1>2 DEF Filtering
  <2>2. QED
    BY <1>1, <2>1
<1> DEFINE P == {i \in 0..n : g[i] = f[i]}
<1>6. 0 \in P
  BY <1>1, <1>4, <1>5
<1>7. ASSUME NEW i \in 0..(n - 1), g[i] = f[i]
      PROVE  g[i + 1] = f[i + 1]
  <2>1. i + 1 \in 0..n /\ i + 1 \in 0..(n + 1) /\ i + 1 \in 1..n /\ (i + 1) - 1 = i /\ i + 1 # 0
    BY <1>1
  <2>2. f[i + 1] = IF i + 1 \in keep THEN Append(f[i], s[i + 1]) ELSE f[i]
    BY <1>4, <2>1
  <2>3. g[i + 1] = IF i + 1 \in keep THEN Append(g[i], t[i + 1]) ELSE g[i]
    BY <1>5, <2>1
  <2>4. QED
    BY <1>1, <1>7, <2>1, <2>2, <2>3
<1>8. 0..n \subseteq P
  <2>1. \A i \in 0..(n - 1) : i \in P => i + 1 \in P
    BY <1>1, <1>7
  <2> HIDE DEF P, n
  <2>2. QED
    BY <1>1, <1>6, <2>1, InductionUpTo
<1>9. g[n] = f[n]
  BY <1>1, <1>8
<1>10. g[n + 1] = IF n + 1 \in keep THEN Append(g[n], t[n + 1]) ELSE g[n]
  <2>1. n + 1 \in 0..(n + 1) /\ n + 1 # 0 /\ (n + 1) - 1 = n
    BY <1>1
  <2>2. QED
    BY <1>5, <2>1
<1>11. QED
  BY <1>1, <1>3, <1>9, <1>10 DEF t

\* What flattens to nothing may be filtered out before.
LEMMA FlattenFilter ==
    ASSUME NEW S, NEW T, NEW h, \A x \in S : h[x] \in Seq(T), NEW s \in Seq(S), NEW keep,
           \A i \in DOMAIN s \ keep : h[s[i]] = <<>>
    PROVE  FlattenSeq(Image(h, Filter(s, keep))) = FlattenSeq(Image(h, s))
<1> DEFINE Good(t) == (\A i \in DOMAIN t \ keep : h[t[i]] = <<>>) =>
                          FlattenSeq(Image(h, Filter(t, keep))) = FlattenSeq(Image(h, t))
           P == {t \in Seq(S) : Good(t)}
<1>1. <<>> \in P
  <2>1. Filter(<<>>, keep) = <<>>
    <3>1. <<>> \in Seq(S) /\ Len(<<>>) = 0
      OBVIOUS
    <3>2. Filter(<<>>, keep) = (CHOOSE f : Filtering(<<>>, keep, f))[0]
      BY <3>1, FilterExpanded
    <3>3. Filtering(<<>>, keep, CHOOSE f : Filtering(<<>>, keep, f))
      BY <3>1, FilteringExists
    <3> DEFINE g == CHOOSE f : Filtering(<<>>, keep, f)
    <3> HIDE DEF g
    <3>4. g[0] = <<>>
      BY <3>3 DEF Filtering, g
    <3>5. QED
      BY <3>2, <3>4 DEF g
  <2>2. QED
    BY <2>1
<1>2. ASSUME NEW t \in Seq(S), Good(t), NEW e \in S
      PROVE  Good(Append(t, e))
  <2> DEFINE u == Append(t, e)
  <2>1. /\ u \in Seq(S) /\ DOMAIN u = 1..(Len(t) + 1) /\ DOMAIN t = 1..Len(t) /\ Len(t) \in Nat
        /\ u[Len(t) + 1] = e /\ \A i \in 1..Len(t) : u[i] = t[i]
    OBVIOUS
  <2>2. Filter(u, keep) = IF Len(t) + 1 \in keep THEN Append(Filter(t, keep), e) ELSE Filter(t, keep)
    BY FilterAppend
  <2>3. Filter(t, keep) \in Seq(S)
    BY FilterFacts
  <2>4. Image(h, u) = Append(Image(h, t), h[e])
    BY ImageOfAppend
  <2>5. Image(h, t) \in Seq(Seq(T)) /\ Image(h, Filter(t, keep)) \in Seq(Seq(T)) /\ h[e] \in Seq(T)
    BY <2>3, ImageType
  <2>6. FlattenSeq(Image(h, u)) = FlattenSeq(Image(h, t)) \o h[e] /\ FlattenSeq(Image(h, t)) \in Seq(T)
    BY <2>4, <2>5, FlattenAppend
  <2> HIDE DEF u
  <2>7. ASSUME \A i \in DOMAIN u \ keep : h[u[i]] = <<>>
        PROVE  FlattenSeq(Image(h, Filter(u, keep))) = FlattenSeq(Image(h, u))
    <3>1. \A i \in DOMAIN t \ keep : h[t[i]] = <<>>
      BY <2>1, <2>7
    <3>2. FlattenSeq(Image(h, Filter(t, keep))) = FlattenSeq(Image(h, t))
      BY <1>2, <3>1
    <3>3. CASE Len(t) + 1 \in keep
      <4>1. Image(h, Filter(u, keep)) = Append(Image(h, Filter(t, keep)), h[e])
        BY <2>2, <2>3, <3>3, ImageOfAppend
      <4>2. FlattenSeq(Append(Image(h, Filter(t, keep)), h[e])) =
                FlattenSeq(Image(h, Filter(t, keep))) \o h[e]
        BY <2>5, FlattenAppend
      <4>3. QED
        BY <2>6, <3>2, <4>1, <4>2
    <3>4. CASE Len(t) + 1 \notin keep
      <4>1. h[e] = <<>>
        <5>1. Len(t) + 1 \in DOMAIN u \ keep
          BY <2>1, <3>4
        <5>2. QED
          BY <2>1, <2>7, <5>1
      <4>2. FlattenSeq(Image(h, t)) \o <<>> = FlattenSeq(Image(h, t))
        <5> DEFINE a == FlattenSeq(Image(h, t))
        <5>1. a \in Seq(T)
          BY <2>6
        <5> HIDE DEF a
        <5>2. a \o <<>> = a
          BY <5>1
        <5>3. QED
          BY <5>2 DEF a
      <4>3. QED
        BY <2>2, <2>6, <3>2, <3>4, <4>1, <4>2
    <3>5. QED
      BY <3>3, <3>4
  <2>8. QED
    BY <2>7 DEF u
<1>3. \A t \in Seq(S) : t \in P => \A e \in S : Append(t, e) \in P
  <2> HIDE DEF Good
  <2>1. QED
    BY <1>2
<1>4. Seq(S) \subseteq P
  <2> HIDE DEF P
  <2>1. QED
    BY <1>1, <1>3, SequencesAll
<1>5. QED
  BY <1>4

-----------------------------------------------------------------------------
\* Sums over sequences.

\* The sum of g over a sequence.
Weight(g, s) == SumFunction(Image(g, s))

\* The sum of what is weighed is one over the positions.
LEMMA WeightIsSum ==
    ASSUME NEW S, NEW g, \A x \in S : g[x] \in Nat, NEW s \in Seq(S)
    PROVE  /\ Weight(g, s) = SumFunctionOnSet(Image(g, s), 1..Len(s))
           /\ Weight(g, s) \in Nat
<1>1. DOMAIN Image(g, s) = 1..Len(s)
  BY DEF Image
<1>2. Weight(g, s) = SumFunctionOnSet(Image(g, s), 1..Len(s))
  BY <1>1 DEF Weight, SumFunction
<1>3. \A i \in 1..Len(s) : Image(g, s)[i] \in Nat
  BY ImageValues
<1>4. IsFiniteSet(1..Len(s))
  <2>1. 1 \in Int /\ Len(s) \in Int
    OBVIOUS
  <2>2. QED
    BY <2>1, FS_Interval
<1>5. QED
  BY <1>2, <1>3, <1>4, SumIsNatural

\* Nothing weighs nothing.
LEMMA WeightOfNone ==
    ASSUME NEW g
    PROVE  Weight(g, <<>>) = 0
<1>1. Image(g, <<>>) = <<>> /\ DOMAIN <<>> = {}
  BY ImageOfNone
<1>2. QED
  BY <1>1, SumOfNone DEF Weight, SumFunction

\* One element more adds its weight.
LEMMA WeightOfAppend ==
    ASSUME NEW S, NEW g, \A x \in S : g[x] \in Nat, NEW s \in Seq(S), NEW e \in S
    PROVE  Weight(g, Append(s, e)) = Weight(g, s) + g[e]
<1> DEFINE t == Append(s, e)
           n == Len(s)
           a == Image(g, s)
           b == Image(g, t)
<1>1. t \in Seq(S) /\ Len(t) = n + 1 /\ t[n + 1] = e /\ n \in Nat /\ \A i \in 1..n : t[i] = s[i]
  OBVIOUS
<1>2. /\ \A i \in 1..n : a[i] = g[s[i]] /\ a[i] \in Nat
      /\ \A i \in 1..(n + 1) : b[i] = g[t[i]] /\ b[i] \in Nat
  <2>1. \A i \in 1..n : a[i] = g[s[i]] /\ a[i] \in Nat
    BY ImageValues
  <2> HIDE DEF t
  <2>2. \A i \in 1..(n + 1) : b[i] = g[t[i]] /\ b[i] \in Nat
    BY <1>1, ImageValues
  <2>3. QED
    BY <2>1, <2>2
<1>3. Weight(g, s) = SumFunctionOnSet(a, 1..n) /\ Weight(g, t) = SumFunctionOnSet(b, 1..(n + 1))
  <2> HIDE DEF t
  <2>1. QED
    BY <1>1, WeightIsSum
<1> HIDE DEF a, b, t, n
<1>4. 1..(n + 1) = (1..n) \cup {n + 1} /\ n + 1 \notin 1..n
  BY <1>1
<1>5. IsFiniteSet(1..n)
  BY <1>1, FS_Interval
<1>6. SumFunctionOnSet(b, (1..n) \cup {n + 1}) = b[n + 1] + SumFunctionOnSet(b, 1..n)
  <2>1. \A i \in (1..n) \cup {n + 1} : b[i] \in Nat
    BY <1>2, <1>4
  <2> DEFINE m == n + 1
             N == 1..n
  <2>2. m \notin N /\ IsFiniteSet(N) /\ \A i \in N \cup {m} : b[i] \in Nat
    BY <1>4, <1>5, <2>1
  <2> HIDE DEF m, N
  <2>3. SumFunctionOnSet(b, N \cup {m}) = b[m] + SumFunctionOnSet(b, N)
    BY <2>2, SumWithOne
  <2>4. QED
    BY <2>3 DEF m, N
<1>7. SumFunctionOnSet(b, 1..n) = SumFunctionOnSet(a, 1..n)
  <2>1. \A i \in 1..n : a[i] \in Nat /\ b[i] = a[i]
    BY <1>1, <1>2
  <2> DEFINE N == 1..n
  <2>2. IsFiniteSet(N) /\ \A i \in N : a[i] \in Nat /\ b[i] = a[i]
    BY <1>5, <2>1
  <2> HIDE DEF N
  <2>3. SumFunctionOnSet(b, N) = SumFunctionOnSet(a, N)
    BY <2>2, SumAgrees
  <2>4. QED
    BY <2>3 DEF N
<1>8. SumFunctionOnSet(a, 1..n) \in Nat /\ b[n + 1] = g[e] /\ g[e] \in Nat
  <2>1. \A i \in 1..n : a[i] \in Nat
    BY <1>2
  <2>2. n + 1 \in 1..(n + 1)
    BY <1>1
  <2>3. QED
    BY <1>1, <1>2, <1>5, <2>1, <2>2, SumIsNatural
<1>9. SumFunctionOnSet(b, 1..(n + 1)) = SumFunctionOnSet(b, (1..n) \cup {n + 1})
  BY <1>4, Zenon
<1>10. Weight(g, t) = g[e] + Weight(g, s) /\ Weight(g, s) \in Nat /\ g[e] \in Nat
  BY <1>3, <1>6, <1>7, <1>8, <1>9
<1>11. QED
  BY <1>10 DEF t

\* An element can be appended before or after two sequences are joined.
LEMMA ConcatAppend ==
    ASSUME NEW S, NEW s \in Seq(S), NEW t \in Seq(S), NEW e \in S
    PROVE  s \o Append(t, e) = Append(s \o t, e)
<1>1. Append(t, e) = t \o <<e>> /\ <<e>> \in Seq(S)
  BY AppendIsConcat
<1>2. s \o (t \o <<e>>) = (s \o t) \o <<e>>
  BY <1>1, ConcatAssociative
<1>3. s \o t \in Seq(S)
  BY ConcatProperties
<1>4. Append(s \o t, e) = (s \o t) \o <<e>>
  BY <1>3, AppendIsConcat
<1>5. QED
  BY <1>1, <1>2, <1>4

\* Two sequences weigh the sum of both.
LEMMA WeightOfConcat ==
    ASSUME NEW S, NEW g, \A x \in S : g[x] \in Nat, NEW s \in Seq(S), NEW t \in Seq(S)
    PROVE  Weight(g, s \o t) = Weight(g, s) + Weight(g, t)
<1> DEFINE P == {u \in Seq(S) : Weight(g, s \o u) = Weight(g, s) + Weight(g, u)}
<1>1. <<>> \in P
  <2>1. s \o <<>> = s
    BY ConcatEmptySeq
  <2>2. Weight(g, <<>>) = 0 /\ Weight(g, s) \in Nat
    BY WeightOfNone, WeightIsSum
  <2>3. QED
    BY <2>1, <2>2
<1>2. ASSUME NEW u \in Seq(S), u \in P, NEW e \in S
      PROVE  Append(u, e) \in P
  <2>1. s \o Append(u, e) = Append(s \o u, e) /\ s \o u \in Seq(S)
    BY ConcatAppend, ConcatProperties
  <2>2. Weight(g, Append(s \o u, e)) = Weight(g, s \o u) + g[e]
    BY <2>1, WeightOfAppend
  <2>3. Weight(g, Append(u, e)) = Weight(g, u) + g[e]
    BY WeightOfAppend
  <2>4. Weight(g, s) \in Nat /\ Weight(g, u) \in Nat /\ g[e] \in Nat
    BY WeightIsSum
  <2>5. Append(u, e) \in Seq(S)
    OBVIOUS
  <2>6. Weight(g, s \o Append(u, e)) = Weight(g, s) + Weight(g, Append(u, e))
    BY <1>2, <2>1, <2>2, <2>3, <2>4
  <2>7. QED
    BY <2>5, <2>6
<1>3. Seq(S) \subseteq P
  <2> HIDE DEF P
  <2>1. QED
    BY <1>1, <1>2, SequencesAll
<1>4. QED
  BY <1>3

\* What is weighed may be grouped.
LEMMA WeightOfFlat ==
    ASSUME NEW S, NEW g, \A x \in S : g[x] \in Nat, NEW ss \in Seq(Seq(S)),
           NEW k, \A s \in Seq(S) : k[s] = Weight(g, s)
    PROVE  Weight(g, FlattenSeq(ss)) = Weight(k, ss)
<1> DEFINE P == {tt \in Seq(Seq(S)) : Weight(g, FlattenSeq(tt)) = Weight(k, tt)}
<1>1. <<>> \in P
  BY FlattenNone, WeightOfNone
<1>2. \A s \in Seq(S) : k[s] \in Nat
  BY WeightIsSum
<1>3. ASSUME NEW tt \in Seq(Seq(S)), tt \in P, NEW s \in Seq(S)
      PROVE  Append(tt, s) \in P
  <2>1. FlattenSeq(Append(tt, s)) = FlattenSeq(tt) \o s /\ FlattenSeq(tt) \in Seq(S)
    BY FlattenAppend
  <2>2. Weight(g, FlattenSeq(tt) \o s) = Weight(g, FlattenSeq(tt)) + Weight(g, s)
    BY <2>1, WeightOfConcat
  <2>3. Weight(k, Append(tt, s)) = Weight(k, tt) + k[s]
    <3> DEFINE A == Seq(S)
    <3>1. (\A x \in A : k[x] \in Nat) /\ tt \in Seq(A) /\ s \in A
      BY <1>2
    <3> HIDE DEF A
    <3>2. QED
      BY <3>1, WeightOfAppend
  <2>4. Append(tt, s) \in Seq(Seq(S))
    OBVIOUS
  <2>5. Weight(g, FlattenSeq(Append(tt, s))) = Weight(k, Append(tt, s))
    BY <1>3, <2>1, <2>2, <2>3
  <2>6. QED
    BY <2>4, <2>5
<1>4. Seq(Seq(S)) \subseteq P
  <2> DEFINE A == Seq(S)
  <2>1. <<>> \in P /\ \A tt \in Seq(A) : tt \in P => \A s \in A : Append(tt, s) \in P
    BY <1>1, <1>3
  <2> HIDE DEF A, P
  <2>2. Seq(A) \subseteq P
    BY <2>1, SequencesAll
  <2>3. QED
    BY <2>2 DEF A
<1>5. QED
  BY <1>4

\* What weighs one each weighs its length.
LEMMA WeightOfOnes ==
    ASSUME NEW S, NEW g, \A x \in S : g[x] = 1, NEW s \in Seq(S)
    PROVE  Weight(g, s) = Len(s)
<1> DEFINE P == {t \in Seq(S) : Weight(g, t) = Len(t)}
<1>1. <<>> \in P
  BY WeightOfNone
<1>2. ASSUME NEW t \in Seq(S), t \in P, NEW e \in S
      PROVE  Append(t, e) \in P
  <2>1. \A x \in S : g[x] \in Nat
    OBVIOUS
  <2>2. Weight(g, Append(t, e)) = Weight(g, t) + g[e]
    BY <2>1, WeightOfAppend
  <2>3. Append(t, e) \in Seq(S) /\ Len(Append(t, e)) = Len(t) + 1
    OBVIOUS
  <2>4. QED
    BY <1>2, <2>2, <2>3
<1>3. Seq(S) \subseteq P
  <2> HIDE DEF P
  <2>1. QED
    BY <1>1, <1>2, SequencesAll
<1>4. QED
  BY <1>3

\* Another element at one position.
SameBut(s, t, i) ==
    Len(t) = Len(s) /\ i \in 1..Len(s) /\ \A j \in 1..Len(s) : j # i => t[j] = s[j]

\* An element replaced by another changes the weight by their difference.
LEMMA WeightOfUpdate ==
    ASSUME NEW S, NEW g, \A x \in S : g[x] \in Nat, NEW s \in Seq(S), NEW t \in Seq(S),
           NEW i, SameBut(s, t, i)
    PROVE  Weight(g, t) + g[s[i]] = Weight(g, s) + g[t[i]]
<1> USE DEF SameBut
<1> DEFINE n == Len(s)
           e == t[i]
           M == (1..n) \ {i}
           a == Image(g, s)
           b == Image(g, t)
<1>1. /\ t \in Seq(S) /\ Len(t) = n /\ t[i] = e /\ \A j \in M : t[j] = s[j]
      /\ n \in Nat /\ s[i] \in S
  OBVIOUS
<1>2. (\A j \in 1..n : a[j] = g[s[j]]) /\ \A j \in 1..n : b[j] = g[t[j]]
  BY <1>1, ImageValues
<1>3. Weight(g, s) = SumFunctionOnSet(a, 1..n) /\ Weight(g, t) = SumFunctionOnSet(b, 1..n)
  BY <1>1, WeightIsSum
<1>4. 1..n = M \cup {i} /\ i \notin M /\ IsFiniteSet(M)
  <2>1. IsFiniteSet(1..n)
    BY <1>1, FS_Interval
  <2>2. QED
    BY <2>1, FS_Subset
<1>5. (\A j \in 1..n : a[j] \in Nat /\ b[j] \in Nat) /\ \A j \in M : b[j] = a[j]
  <2>1. \A j \in 1..n : s[j] \in S /\ t[j] \in S
    OBVIOUS
  <2> HIDE DEF a, b
  <2>2. QED
    BY <1>1, <1>2, <2>1
<1>6. a[i] = g[s[i]] /\ b[i] = g[e] /\ g[s[i]] \in Nat /\ g[e] \in Nat
  <2> HIDE DEF a, b
  <2>1. QED
    BY <1>1, <1>2
<1> HIDE DEF a, b
<1>7. \A j \in M \cup {i} : a[j] \in Nat /\ b[j] \in Nat
  BY <1>5
<1>8. \A j \in M : a[j] \in Nat /\ b[j] = a[j]
  BY <1>5
<1> HIDE DEF M
<1>9. /\ SumFunctionOnSet(a, M \cup {i}) = a[i] + SumFunctionOnSet(a, M)
      /\ SumFunctionOnSet(b, M \cup {i}) = b[i] + SumFunctionOnSet(b, M)
  BY <1>4, <1>7, SumWithOne
<1>10. SumFunctionOnSet(b, M) = SumFunctionOnSet(a, M) /\ SumFunctionOnSet(a, M) \in Nat
  BY <1>4, <1>8, SumAgrees, SumIsNatural
<1>11. /\ SumFunctionOnSet(a, 1..n) = SumFunctionOnSet(a, M \cup {i})
       /\ SumFunctionOnSet(b, 1..n) = SumFunctionOnSet(b, M \cup {i})
  BY <1>4, Zenon
<1>12. Weight(g, t) + g[s[i]] = Weight(g, s) + g[e]
  BY <1>3, <1>6, <1>9, <1>10, <1>11
<1>13. QED
  BY <1>12

-----------------------------------------------------------------------------
\* The bytes of chunks.

\* The bytes of a chunk, as a function to weigh with.
bytesOf == [c \in Chunk |-> c.bytes]

\* The bytes of chunks are their weight by bytes (BytesOf).
LEMMA BytesAreWeight ==
    ASSUME NEW s \in Seq(Chunk)
    PROVE  BytesOf(s) = Weight(bytesOf, s) /\ BytesOf(s) \in Nat
<1>1. \A i \in DOMAIN s : s[i] \in Chunk
  OBVIOUS
<1>2. [i \in DOMAIN s |-> s[i].bytes] = Image(bytesOf, s)
  BY <1>1 DEF Image, bytesOf
<1>3. \A c \in Chunk : bytesOf[c] \in Nat
  BY DEF bytesOf, Chunk
<1>4. QED
  BY <1>2, <1>3, WeightIsSum DEF BytesOf, Weight

\* What BytesOf says of none, of one chunk more, of two sequences.
LEMMA BytesFacts ==
    /\ BytesOf(<<>>) = 0
    /\ \A s \in Seq(Chunk), c \in Chunk : BytesOf(Append(s, c)) = BytesOf(s) + c.bytes
    /\ \A s, t \in Seq(Chunk) : BytesOf(s \o t) = BytesOf(s) + BytesOf(t)
    /\ \A s \in Seq(Chunk) : BytesOf(s) \in Nat /\ (s # <<>> => BytesOf(s) > 0)
<1>1. \A c \in Chunk : bytesOf[c] = c.bytes /\ bytesOf[c] \in Nat \ {0}
  BY DEF bytesOf, Chunk
<1>2. BytesOf(<<>>) = 0
  <2>1. <<>> \in Seq(Chunk)
    OBVIOUS
  <2>2. QED
    BY <2>1, BytesAreWeight, WeightOfNone
<1>3. ASSUME NEW s \in Seq(Chunk), NEW c \in Chunk
      PROVE  BytesOf(Append(s, c)) = BytesOf(s) + c.bytes
  <2>1. Append(s, c) \in Seq(Chunk)
    OBVIOUS
  <2>2. Weight(bytesOf, Append(s, c)) = Weight(bytesOf, s) + bytesOf[c]
    BY <1>1, WeightOfAppend
  <2>3. QED
    BY <1>1, <2>1, <2>2, BytesAreWeight
<1>4. ASSUME NEW s \in Seq(Chunk), NEW t \in Seq(Chunk)
      PROVE  BytesOf(s \o t) = BytesOf(s) + BytesOf(t)
  <2>1. s \o t \in Seq(Chunk)
    BY ConcatProperties
  <2>2. Weight(bytesOf, s \o t) = Weight(bytesOf, s) + Weight(bytesOf, t)
    BY <1>1, WeightOfConcat
  <2>3. QED
    BY <2>1, <2>2, BytesAreWeight
<1> DEFINE P == {s \in Seq(Chunk) : s # <<>> => BytesOf(s) > 0}
<1>5. ASSUME NEW s \in Seq(Chunk), s \in P, NEW c \in Chunk
      PROVE  Append(s, c) \in P
  <2>1. BytesOf(Append(s, c)) = BytesOf(s) + c.bytes /\ BytesOf(s) \in Nat /\ c.bytes \in Nat \ {0}
    BY <1>1, <1>3, BytesAreWeight
  <2>2. Append(s, c) \in Seq(Chunk)
    OBVIOUS
  <2>3. BytesOf(Append(s, c)) > 0
    BY <2>1
  <2>4. QED
    BY <2>2, <2>3
<1>6. Seq(Chunk) \subseteq P
  <2>1. <<>> \in P
    OBVIOUS
  <2> HIDE DEF P
  <2>2. QED
    BY <1>5, <2>1, SequencesAll
<1>7. QED
  BY <1>2, <1>3, <1>4, <1>6, BytesAreWeight

\* The bytes of chunks that are put together.
LEMMA BytesOfFlat ==
    ASSUME NEW ss \in Seq(Seq(Chunk)), NEW k, \A s \in Seq(Chunk) : k[s] = BytesOf(s)
    PROVE  FlattenSeq(ss) \in Seq(Chunk) /\ BytesOf(FlattenSeq(ss)) = Weight(k, ss)
<1>1. FlattenSeq(ss) \in Seq(Chunk)
  BY ElementsOfFlat
<1>2. \A s \in Seq(Chunk) : k[s] = Weight(bytesOf, s)
  BY BytesAreWeight
<1>3. \A c \in Chunk : bytesOf[c] \in Nat
  BY DEF bytesOf, Chunk
<1>4. Weight(bytesOf, FlattenSeq(ss)) = Weight(k, ss)
  <2> DEFINE g == bytesOf
             S == Chunk
  <2>1. (\A x \in S : g[x] \in Nat) /\ ss \in Seq(Seq(S)) /\ \A s \in Seq(S) : k[s] = Weight(g, s)
    BY <1>2, <1>3
  <2> HIDE DEF g, S
  <2>2. Weight(g, FlattenSeq(ss)) = Weight(k, ss)
    BY <2>1, WeightOfFlat
  <2>3. QED
    BY <2>2 DEF g
<1>5. QED
  BY <1>1, <1>4, BytesAreWeight

\* The image weighs as much as what it is an image of, if each element does.
LEMMA WeightOfImage ==
    ASSUME NEW m, NEW g, NEW k, NEW s, \A i \in DOMAIN s : k[m[s[i]]] = g[s[i]]
    PROVE  Weight(k, Image(m, s)) = Weight(g, s)
<1>2. DOMAIN Image(m, s) = DOMAIN s /\ \A i \in DOMAIN s : Image(m, s)[i] = m[s[i]]
  BY DEF Image
<1>3. Image(k, Image(m, s)) = Image(g, s)
  <2> DEFINE t == Image(m, s)
  <2> HIDE DEF t
  <2>1. DOMAIN t = DOMAIN s /\ \A i \in DOMAIN s : k[t[i]] = g[s[i]]
    BY <1>2 DEF t
  <2>2. Image(k, t) = Image(g, s)
    BY <2>1 DEF Image
  <2>3. QED
    BY <2>2 DEF t
<1>4. QED
  BY <1>3 DEF Weight

-----------------------------------------------------------------------------
\* Cutting the ranges.

\* The k-th byte of a chunk: where it is written to, and where it comes from.
Spot(c, k) == <<c.dst + k, c.src + k>>

\* What a sequence of chunks writes is what each of them writes (Written).
LEMMA WrittenSpots ==
    ASSUME NEW s, NEW p
    PROVE  p \in Written(s) <=> \E c \in ToSet(s) : \E k \in 0..(c.bytes - 1) : p = Spot(c, k)
  BY DEF Written, Spot

\* How many chunks a range is cut into.
Pieces(range, size) == (range.bytes + size - 1) \div size

\* As many pieces as are needed cover a range, and no more (chunks of a range in
\* planner_engine.py are counted by rounding up).
LEMMA PiecesCover ==
    ASSUME NEW range \in Chunk, NEW size \in Nat \ {0}
    PROVE  /\ Pieces(range, size) \in Nat \ {0}
           /\ (Pieces(range, size) - 1) * size < range.bytes
           /\ range.bytes <= Pieces(range, size) * size
<1> DEFINE b == range.bytes
           a == b + size - 1
           n == a \div size
<1>1. b \in Nat \ {0}
  BY DEF Chunk
<1> HIDE DEF b
<1>2. a \in Nat /\ a >= size
  BY <1>1
<1>a. a = b + size - 1
  OBVIOUS
<1> HIDE DEF a
<1>3. n \in Nat /\ n * size <= a /\ a < n * size + size
  BY <1>2
<1> HIDE DEF n
<1>4. n # 0
  <2>1. n = 0 => n * size = 0
    BY <1>3
  <2>2. QED
    BY <1>2, <1>3, <2>1
<1>5. (n - 1) * size = n * size - size /\ n * size \in Nat
  BY <1>3
<1>6. (n - 1) * size < b /\ b <= n * size
  BY <1>1, <1>3, <1>5, <1>a
<1>7. QED
  BY <1>3, <1>4, <1>6 DEF n, a, b, Pieces

\* A position in the range is in one of the pieces.
LEMMA PieceOfByte ==
    ASSUME NEW o \in Nat, NEW size \in Nat \ {0}, NEW n \in Nat, o < n * size
    PROVE  \E k \in 1..n : \E j \in 0..(size - 1) : o = (k - 1) * size + j
<1> DEFINE q == o \div size
<1>1. q \in Nat /\ q * size <= o /\ o < q * size + size
  OBVIOUS
<1> HIDE DEF q
<1>2. q < n
  <2>1. SUFFICES ASSUME n <= q
                 PROVE  FALSE
    BY <1>1
  <2>2. n * size <= q * size
    BY <1>1, <2>1
  <2>3. n * size \in Nat /\ q * size \in Nat
    BY <1>1
  <2>4. QED
    BY <1>1, <2>2, <2>3
<1>3. q + 1 \in 1..n /\ (q + 1) - 1 = q
  BY <1>1, <1>2
<1>4. o - q * size \in 0..(size - 1) /\ o = q * size + (o - q * size)
  <2>1. q * size \in Nat
    BY <1>1
  <2>2. QED
    BY <1>1, <2>1
<1>5. QED
  BY <1>3, <1>4

\* The chunks that a range is cut into are positive, of the chunk size at most, and side by
\* side (planner_engine.py, the chunks of a range).
LEMMA CutRangeType ==
    ASSUME NEW range \in Chunk, NEW size \in Nat \ {0}
    PROVE  /\ CutRange(range, size) \in Seq(Chunk)
           /\ Len(CutRange(range, size)) = Pieces(range, size)
           /\ \A k \in 1..Pieces(range, size) :
                 LET c == CutRange(range, size)[k]
                 IN /\ c.src = range.src + (k - 1) * size /\ c.dst = range.dst + (k - 1) * size
                    /\ c.bytes = UpTo(size, range.bytes - (k - 1) * size)
                    /\ c.bytes \in 1..size /\ (k - 1) * size \in Nat
                    /\ (k - 1) * size + c.bytes <= range.bytes
<1> DEFINE n == Pieces(range, size)
           s == CutRange(range, size)
           At(k) == [src |-> range.src + (k - 1) * size, dst |-> range.dst + (k - 1) * size,
                     bytes |-> UpTo(size, range.bytes - (k - 1) * size)]
<1>1. s = [k \in 1..n |-> At(k)]
  BY DEF CutRange, Pieces
<1>2. n \in Nat \ {0} /\ (n - 1) * size < range.bytes
  BY PiecesCover
<1> HIDE DEF n, s
<1>3. range.bytes \in Nat \ {0} /\ range.src \in Nat /\ range.dst \in Nat
  BY DEF Chunk
<1>4. ASSUME NEW k \in 1..n
      PROVE  /\ (k - 1) * size \in Nat
             /\ UpTo(size, range.bytes - (k - 1) * size) \in 1..size
             /\ (k - 1) * size + UpTo(size, range.bytes - (k - 1) * size) <= range.bytes
             /\ At(k) \in Chunk
  <2>1. k - 1 \in Nat /\ n - 1 \in Nat /\ k - 1 <= n - 1
    BY <1>2
  <2>2. (k - 1) * size \in Nat /\ (k - 1) * size <= (n - 1) * size /\ (n - 1) * size \in Nat
    <3> DEFINE u == k - 1
               v == n - 1
    <3>1. u \in Nat /\ v \in Nat /\ u <= v
      BY <2>1
    <3> HIDE DEF u, v
    <3>2. u * size \in Nat /\ u * size <= v * size /\ v * size \in Nat
      BY <3>1
    <3>3. QED
      BY <3>2 DEF u, v
  <2> DEFINE m == (k - 1) * size
  <2>3. m \in Nat /\ m < range.bytes
    BY <1>2, <1>3, <2>2
  <2> HIDE DEF m
  <2>4. UpTo(size, range.bytes - m) \in 1..size /\ m + UpTo(size, range.bytes - m) <= range.bytes
    BY <1>3, <2>3 DEF UpTo
  <2>5. [src |-> range.src + m, dst |-> range.dst + m, bytes |-> UpTo(size, range.bytes - m)] \in Chunk
    BY <1>3, <2>3, <2>4 DEF Chunk
  <2>6. QED
    BY <2>3, <2>4, <2>5 DEF m
<1>5. s \in Seq(Chunk) /\ Len(s) = n
  <2>1. \A k \in 1..n : At(k) \in Chunk
    BY <1>4
  <2> HIDE DEF At
  <2>2. QED
    BY <1>1, <1>2, <2>1
<1>6. \A k \in 1..n : s[k] = At(k)
  BY <1>1
<1>7. ASSUME NEW k \in 1..n
      PROVE  /\ s[k].src = range.src + (k - 1) * size /\ s[k].dst = range.dst + (k - 1) * size
             /\ s[k].bytes = UpTo(size, range.bytes - (k - 1) * size)
  <2> DEFINE x == range.src + (k - 1) * size
             y == range.dst + (k - 1) * size
             z == UpTo(size, range.bytes - (k - 1) * size)
  <2>1. s[k] = [src |-> x, dst |-> y, bytes |-> z]
    BY <1>6
  <2> HIDE DEF x, y, z
  <2>2. s[k].src = x /\ s[k].dst = y /\ s[k].bytes = z
    BY <2>1
  <2>3. QED
    BY <2>2 DEF x, y, z
<1>8. QED
  BY <1>4, <1>5, <1>7 DEF n, s

\* The pieces of a range are the range.
LEMMA CutRangeWhole ==
    ASSUME NEW range \in Chunk, NEW size \in Nat \ {0}
    PROVE  BytesOf(CutRange(range, size)) = range.bytes
<1> DEFINE n == Pieces(range, size)
           s == CutRange(range, size)
           b == range.bytes
           P == {k \in 0..n : BytesOf(FirstOf(s, k)) = UpTo(k * size, b)}
<1>1. n \in Nat \ {0} /\ (n - 1) * size < b /\ b <= n * size
  BY PiecesCover
<1>2. s \in Seq(Chunk) /\ Len(s) = n
  BY CutRangeType
<1>3. \A k \in 1..n : s[k].bytes = UpTo(size, b - (k - 1) * size) /\ (k - 1) * size \in Nat
  BY CutRangeType
<1>4. b \in Nat \ {0}
  BY DEF Chunk
<1> HIDE DEF n, s, b
<1>5. 0 \in P
  <2>1. FirstOf(s, 0) = <<>>
    BY <1>2, PrefixFacts
  <2>2. UpTo(0 * size, b) = 0
    BY <1>4 DEF UpTo
  <2>3. QED
    BY <1>1, <2>1, <2>2, BytesFacts
<1>6. ASSUME NEW k \in 0..(n - 1), k \in P
      PROVE  k + 1 \in P
  <2>1. k + 1 \in 1..n /\ (k + 1) - 1 = k /\ k \in 0..n /\ k \in Nat
    BY <1>1
  <2>2. /\ FirstOf(s, k + 1) = Append(FirstOf(s, k), s[k + 1]) /\ s[k + 1] \in Chunk
        /\ FirstOf(s, k) \in Seq(Chunk)
    BY <1>2, <2>1, PrefixFacts
  <2>3. BytesOf(FirstOf(s, k + 1)) = BytesOf(FirstOf(s, k)) + s[k + 1].bytes
    BY <2>2, BytesFacts
  <2>4. s[k + 1].bytes = UpTo(size, b - k * size)
    BY <1>3, <2>1
  <2>5. k * size \in Nat /\ k * size <= (n - 1) * size /\ (k + 1) * size = k * size + size
        /\ (n - 1) * size \in Nat
    <3> DEFINE v == n - 1
    <3>1. v \in Nat /\ k <= v
      BY <1>1
    <3> HIDE DEF v
    <3>2. k * size <= v * size /\ v * size \in Nat /\ k * size \in Nat
      BY <2>1, <3>1
    <3>3. (k + 1) * size = k * size + size
      BY <2>1
    <3>4. QED
      BY <3>2, <3>3 DEF v
  <2> DEFINE m == k * size
  <2>6. m \in Nat /\ m < b /\ (k + 1) * size = m + size
    BY <1>1, <1>4, <2>5
  <2>7. BytesOf(FirstOf(s, k + 1)) = UpTo(m, b) + UpTo(size, b - m)
    BY <1>6, <2>3, <2>4
  <2> HIDE DEF m
  <2>8. UpTo(m, b) + UpTo(size, b - m) = UpTo(m + size, b)
    BY <1>4, <2>6 DEF UpTo
  <2>9. BytesOf(FirstOf(s, k + 1)) = UpTo((k + 1) * size, b)
    BY <2>6, <2>7, <2>8
  <2>10. k + 1 \in 0..n
    BY <2>1
  <2>11. QED
    BY <2>9, <2>10
<1>7. 0..n \subseteq P
  <2> HIDE DEF P
  <2>1. QED
    BY <1>1, <1>5, <1>6, InductionUpTo
<1>8. BytesOf(FirstOf(s, n)) = UpTo(n * size, b)
  BY <1>1, <1>7
<1>9. UpTo(n * size, b) = b /\ FirstOf(s, n) = s
  <2>1. n * size \in Nat
    BY <1>1
  <2>2. QED
    BY <1>1, <1>2, <1>4, <2>1, PrefixFacts DEF UpTo
<1>10. QED
  BY <1>8, <1>9 DEF s, b

\* Cutting a range changes nothing of what is written.
LEMMA CutRangeSpots ==
    ASSUME NEW range \in Chunk, NEW size \in Nat \ {0}, NEW p
    PROVE  p \in Written(CutRange(range, size)) <=> \E o \in 0..(range.bytes - 1) : p = Spot(range, o)
<1> DEFINE n == Pieces(range, size)
           s == CutRange(range, size)
<1>1. n \in Nat \ {0} /\ range.bytes <= n * size
  BY PiecesCover
<1>2. s \in Seq(Chunk) /\ Len(s) = n
  BY CutRangeType
<1>3. \A k \in 1..n : /\ s[k].src = range.src + (k - 1) * size
                      /\ s[k].dst = range.dst + (k - 1) * size
                      /\ s[k].bytes = UpTo(size, range.bytes - (k - 1) * size)
                      /\ s[k].bytes \in 1..size /\ (k - 1) * size \in Nat
                      /\ (k - 1) * size + s[k].bytes <= range.bytes
  BY CutRangeType
<1>4. range.bytes \in Nat \ {0} /\ range.src \in Nat /\ range.dst \in Nat
  BY DEF Chunk
<1> HIDE DEF n, s
<1>5. ASSUME NEW k \in 1..n, NEW j \in 0..(s[k].bytes - 1)
      PROVE  (k - 1) * size + j \in 0..(range.bytes - 1) /\ Spot(s[k], j) = Spot(range, (k - 1) * size + j)
  <2> DEFINE m == (k - 1) * size
  <2>1. m \in Nat /\ s[k].bytes \in Nat /\ m + s[k].bytes <= range.bytes
        /\ s[k].src = range.src + m /\ s[k].dst = range.dst + m
    BY <1>3
  <2> HIDE DEF m
  <2>2. m + j \in 0..(range.bytes - 1) /\ s[k].src + j = range.src + (m + j)
        /\ s[k].dst + j = range.dst + (m + j)
    BY <1>4, <2>1
  <2>3. QED
    BY <2>2 DEF Spot, m
<1>6. ASSUME NEW o \in 0..(range.bytes - 1)
      PROVE  \E k \in 1..n : \E j \in 0..(s[k].bytes - 1) : o = (k - 1) * size + j
  <2>1. o \in Nat /\ o < n * size /\ n \in Nat
    <3>1. n * size \in Nat
      BY <1>1
    <3>2. QED
      BY <1>1, <1>4, <3>1
  <2>2. PICK k \in 1..n, j \in 0..(size - 1) : o = (k - 1) * size + j
    BY <2>1, PieceOfByte
  <2> DEFINE m == (k - 1) * size
  <2>3. s[k].bytes = UpTo(size, range.bytes - m) /\ m \in Nat /\ o = m + j
    BY <1>3, <2>2
  <2> HIDE DEF m
  <2>4. j \in 0..(s[k].bytes - 1)
    BY <1>4, <2>3 DEF UpTo
  <2>5. QED
    BY <2>2, <2>4
<1>7. ToSet(s) = {s[k] : k \in 1..n}
  BY <1>2 DEF ToSet
<1>8. ASSUME p \in Written(s)
      PROVE  \E o \in 0..(range.bytes - 1) : p = Spot(range, o)
  <2>1. PICK c \in ToSet(s) : \E j \in 0..(c.bytes - 1) : p = Spot(c, j)
    BY <1>8, WrittenSpots
  <2>2. PICK k \in 1..n : c = s[k]
    BY <1>7
  <2>3. PICK j \in 0..(s[k].bytes - 1) : p = Spot(s[k], j)
    BY <2>1, <2>2
  <2>4. QED
    BY <1>5, <2>3
<1>9. ASSUME NEW o \in 0..(range.bytes - 1), p = Spot(range, o)
      PROVE  p \in Written(s)
  <2>1. PICK k \in 1..n : \E j \in 0..(s[k].bytes - 1) : o = (k - 1) * size + j
    BY <1>6
  <2>2. PICK j \in 0..(s[k].bytes - 1) : o = (k - 1) * size + j
    BY <2>1
  <2>3. p = Spot(s[k], j) /\ s[k] \in ToSet(s)
    BY <1>5, <1>7, <1>9, <2>2
  <2>4. QED
    BY <2>2, <2>3, WrittenSpots
<1>10. QED
  BY <1>8, <1>9 DEF s

\* The chunks of a request are its ranges, cut to size.
LEMMA ChunksFacts ==
    ASSUME NEW req \in Request
    PROVE  /\ Chunks(req) \in Seq(Chunk)
           /\ \A c \in ToSet(Chunks(req)) : c \in Chunk /\ c.bytes <= req.chunk
           /\ BytesOf(Chunks(req)) = BytesOf(req.ranges)
           /\ Written(Chunks(req)) = Written(req.ranges)
<1> DEFINE size == req.chunk
           ranges == req.ranges
           cut == [r \in Chunk |-> CutRange(r, size)]
           k == [s \in Seq(Chunk) |-> BytesOf(s)]
           ss == Image(cut, ranges)
<1>1. size \in Nat \ {0} /\ ranges \in Seq(Chunk)
  BY DEF Request
<1> HIDE DEF size, ranges
<1>2. \A r \in Chunk : cut[r] \in Seq(Chunk) /\ cut[r] = CutRange(r, size)
  BY <1>1, CutRangeType
<1>3. ss \in Seq(Seq(Chunk)) /\ Len(ss) = Len(ranges) /\ \A i \in 1..Len(ranges) : ss[i] = cut[ranges[i]]
  <2> HIDE DEF cut
  <2>1. \A r \in Chunk : cut[r] \in Seq(Chunk)
    BY <1>2
  <2> DEFINE T == Seq(Chunk)
  <2>2. \A r \in Chunk : cut[r] \in T
    BY <2>1
  <2> HIDE DEF T
  <2>3. ss \in Seq(T)
    BY <1>1, <2>2, ImageType
  <2>4. QED
    BY <1>1, <2>3, ImageValues DEF T
<1>4. Chunks(req) = FlattenSeq(ss)
  <2>1. \A i \in DOMAIN ranges : cut[ranges[i]] = CutRange(ranges[i], size)
    BY <1>1, <1>2
  <2> HIDE DEF cut
  <2>2. [i \in DOMAIN ranges |-> CutRange(ranges[i], size)] = Image(cut, ranges)
    BY <2>1 DEF Image
  <2>3. QED
    BY <2>2 DEF Chunks, size, ranges
<1> HIDE DEF cut, ss
<1>5. /\ FlattenSeq(ss) \in Seq(Chunk)
      /\ \A c : c \in ToSet(FlattenSeq(ss)) <=> \E i \in DOMAIN ss : c \in ToSet(ss[i])
  BY <1>3, ElementsOfFlat
<1>6. DOMAIN ss = 1..Len(ranges) /\ \A i \in 1..Len(ranges) : ranges[i] \in Chunk
  BY <1>1, <1>3
<1>7. ASSUME NEW c \in ToSet(FlattenSeq(ss))
      PROVE  c \in Chunk /\ c.bytes <= size
  <2>1. PICK i \in 1..Len(ranges) : c \in ToSet(ss[i])
    BY <1>5, <1>6
  <2>2. ss[i] = CutRange(ranges[i], size) /\ ranges[i] \in Chunk
    BY <1>2, <1>3, <1>6
  <2> DEFINE r == ranges[i]
             s == CutRange(r, size)
  <2>3. /\ s \in Seq(Chunk) /\ Len(s) = Pieces(r, size)
        /\ \A j \in 1..Pieces(r, size) : s[j].bytes \in 1..size
    BY <1>1, <2>2, CutRangeType
  <2> HIDE DEF r, s
  <2>4. c \in ToSet(s)
    BY <2>1, <2>2 DEF s, r
  <2>5. PICK j \in DOMAIN s : c = s[j]
    BY <2>4 DEF ToSet
  <2>6. j \in 1..Pieces(r, size)
    BY <2>3
  <2>7. QED
    BY <1>1, <2>3, <2>5, <2>6
<1>8. BytesOf(FlattenSeq(ss)) = BytesOf(ranges)
  <2>1. BytesOf(FlattenSeq(ss)) = Weight(k, ss)
    BY <1>3, BytesOfFlat
  <2>2. \A r \in Chunk : cut[r] \in Seq(Chunk) /\ k[cut[r]] = bytesOf[r]
    <3> SUFFICES ASSUME NEW r \in Chunk
                 PROVE  cut[r] \in Seq(Chunk) /\ k[cut[r]] = bytesOf[r]
      OBVIOUS
    <3>1. cut[r] \in Seq(Chunk) /\ cut[r] = CutRange(r, size)
      BY <1>2
    <3>2. BytesOf(CutRange(r, size)) = r.bytes
      BY <1>1, CutRangeWhole
    <3>3. QED
      BY <3>1, <3>2 DEF bytesOf
  <2> HIDE DEF k
  <2>3. Weight(k, Image(cut, ranges)) = Weight(bytesOf, ranges)
    <3>1. \A i \in DOMAIN ranges : k[cut[ranges[i]]] = bytesOf[ranges[i]]
      BY <1>6, <2>2
    <3>2. QED
      BY <3>1, WeightOfImage
  <2>4. BytesOf(ranges) = Weight(bytesOf, ranges)
    BY <1>1, BytesAreWeight
  <2>5. QED
    BY <2>1, <2>3, <2>4 DEF ss
<1>9. Written(FlattenSeq(ss)) \subseteq Written(ranges)
  <2> SUFFICES ASSUME NEW p \in Written(FlattenSeq(ss))
               PROVE  p \in Written(ranges)
    OBVIOUS
  <2>1. PICK c \in ToSet(FlattenSeq(ss)) : \E j \in 0..(c.bytes - 1) : p = Spot(c, j)
    BY WrittenSpots
  <2>2. PICK i \in 1..Len(ranges) : c \in ToSet(ss[i])
    BY <1>5, <1>6
  <2>3. ss[i] = CutRange(ranges[i], size) /\ ranges[i] \in Chunk
    BY <1>2, <1>3, <1>6
  <2>4. p \in Written(CutRange(ranges[i], size))
    BY <2>1, <2>2, <2>3, WrittenSpots
  <2>5. \E o \in 0..(ranges[i].bytes - 1) : p = Spot(ranges[i], o)
    BY <1>1, <2>3, <2>4, CutRangeSpots
  <2>6. ranges[i] \in ToSet(ranges)
    BY <1>1 DEF ToSet
  <2>7. QED
    BY <2>5, <2>6, WrittenSpots
<1>10. Written(ranges) \subseteq Written(FlattenSeq(ss))
  <2> SUFFICES ASSUME NEW p \in Written(ranges)
               PROVE  p \in Written(FlattenSeq(ss))
    OBVIOUS
  <2>1. PICK r \in ToSet(ranges) : \E o \in 0..(r.bytes - 1) : p = Spot(r, o)
    BY WrittenSpots
  <2>2. PICK i \in 1..Len(ranges) : r = ranges[i]
    BY <1>1 DEF ToSet
  <2>3. ss[i] = CutRange(ranges[i], size) /\ ranges[i] \in Chunk
    BY <1>2, <1>3, <1>6
  <2>4. p \in Written(CutRange(ranges[i], size))
    BY <1>1, <2>1, <2>2, <2>3, CutRangeSpots
  <2>5. PICK c \in ToSet(ss[i]) : \E j \in 0..(c.bytes - 1) : p = Spot(c, j)
    BY <2>3, <2>4, WrittenSpots
  <2>6. c \in ToSet(FlattenSeq(ss))
    BY <1>5, <1>6, <2>5
  <2>7. QED
    BY <2>5, <2>6, WrittenSpots
<1>11. QED
  BY <1>4, <1>5, <1>7, <1>8, <1>9, <1>10 DEF size, ranges

-----------------------------------------------------------------------------
\* Pressures and weights.

\* Arithmetic of thousandths.
LEMMA UpToBounds ==
    ASSUME NEW n \in Nat, NEW cap \in Nat
    PROVE  UpTo(n, cap) \in 0..cap /\ UpTo(n, cap) <= n /\ UpTo(n, cap) \in Nat
  BY DEF UpTo

\* A capped share is a natural number within the cap; nothing has no share.
LEMMA ShareBounds ==
    ASSUME NEW a \in Nat, NEW b \in Nat, NEW cap \in Nat
    PROVE  /\ Share(a, b, cap) \in Nat /\ Share(a, b, cap) <= 1000 * cap
           /\ a = 0 => Share(a, b, cap) = 0
<1> DEFINE d == AtLeast(b, 1)
           n == 1000 * a
           q == n \div d
<1>1. d \in Nat \ {0} /\ n \in Nat /\ (a = 0 => n = 0)
  BY DEF AtLeast
<1> HIDE DEF d, n
<1>2. q \in Nat /\ (n = 0 => q = 0)
  BY <1>1
<1> HIDE DEF q
<1>3. Share(a, b, cap) = UpTo(q, 1000 * cap)
  BY DEF Share, q, n, d
<1>4. 1000 * cap \in Nat
  OBVIOUS
<1>5. UpTo(q, 1000 * cap) \in 0..(1000 * cap) /\ UpTo(q, 1000 * cap) <= q
  BY <1>2, <1>4, UpToBounds
<1>6. QED
  BY <1>1, <1>2, <1>3, <1>5

\* A capped share is a natural number.
LEMMA ShareIsNat ==
    ASSUME NEW a \in Nat, NEW b \in Nat, NEW cap \in Nat
    PROVE  Share(a, b, cap) \in Nat
  BY ShareBounds

\* A part of a sum of thousandths.
LEMMA ScaledDown ==
    ASSUME NEW n \in Nat, NEW k \in Nat, NEW d \in Nat \ {0}
    PROVE  (k * n) \div d \in Nat
<1> DEFINE m == k * n
<1>1. m \in Nat
  OBVIOUS
<1> HIDE DEF m
<1>2. m \div d \in Nat
  BY <1>1
<1>3. QED
  BY <1>2 DEF m

\* A finite sum of natural numbers is one.
LEMMA SumIsNat ==
    ASSUME NEW f, IsFiniteSet(DOMAIN f), \A x \in DOMAIN f : f[x] \in Nat
    PROVE  SumFunction(f) \in Nat
  BY SumIsNatural DEF SumFunction

\* What a view shows of a transfer.
GoodRecord(r) ==
    /\ r.bytes \in Nat /\ IsFiniteSet(r.paths)
    /\ \A p \in r.paths : p.bytes \in Nat /\ p.chunks \in Nat
\* A view shows finitely many of them.
GoodView(view) == IsFiniteSet(view) /\ \A r \in view : GoodRecord(r)

\* A part of a view is a view, and it counts and weighs something natural.
LEMMA PartOfView ==
    ASSUME NEW view, GoodView(view), NEW part \in SUBSET view
    PROVE  GoodView(part) /\ Cardinality(part) \in Nat /\ BytesIn(part) \in Nat
<1>1. IsFiniteSet(part)
  BY FS_Subset DEF GoodView
<1>2. Cardinality(part) \in Nat
  BY <1>1, FS_CardinalityType
<1>3. GoodView(part)
  BY <1>1 DEF GoodView
<1>4. BytesIn(part) \in Nat
  <2> DEFINE f == [r \in part |-> r.bytes]
  <2>1. DOMAIN f = part /\ \A r \in part : f[r] \in Nat
    BY DEF GoodView, GoodRecord
  <2> HIDE DEF f
  <2>2. SumFunction(f) \in Nat
    BY <1>1, <2>1, SumIsNat
  <2>3. QED
    BY <2>2 DEF BytesIn, f
<1>5. QED
  BY <1>2, <1>3, <1>4

\* What crosses a relay is counted in natural numbers.
LEMMA PathSums ==
    ASSUME NEW view, GoodView(view), NEW relay, NEW recs \in SUBSET Crossing(view, relay)
    PROVE  PathBytes(recs, relay) \in Nat /\ PathChunks(recs, relay) \in Nat
<1>1. recs \in SUBSET view
  BY DEF Crossing, Running, Loaded
<1>2. IsFiniteSet(recs) /\ \A r \in recs : GoodRecord(r)
  BY <1>1, FS_Subset DEF GoodView
<1>3. \A r \in recs : PathOn(r, relay) \in r.paths
  BY DEF PathOn, Crossing
<1>4. \A r \in recs : PathOn(r, relay).bytes \in Nat /\ PathOn(r, relay).chunks \in Nat
  BY <1>2, <1>3 DEF GoodRecord
<1>5. PathBytes(recs, relay) \in Nat
  <2> DEFINE f == [r \in recs |-> PathOn(r, relay).bytes]
  <2>1. DOMAIN f = recs /\ \A r \in recs : f[r] \in Nat
    BY <1>4
  <2> HIDE DEF f
  <2>2. SumFunction(f) \in Nat
    BY <1>2, <2>1, SumIsNat
  <2>3. QED
    BY <2>2 DEF PathBytes, f
<1>6. PathChunks(recs, relay) \in Nat
  <2> DEFINE f == [r \in recs |-> PathOn(r, relay).chunks]
  <2>1. DOMAIN f = recs /\ \A r \in recs : f[r] \in Nat
    BY <1>4
  <2> HIDE DEF f
  <2>2. SumFunction(f) \in Nat
    BY <1>2, <2>1, SumIsNat
  <2>3. QED
    BY <2>2 DEF PathChunks, f
<1>7. QED
  BY <1>5, <1>6

\* The parts of a view that the pressures count.
LEMMA ViewParts ==
    ASSUME NEW view, GoodView(view), NEW relay, NEW dir
    PROVE  /\ {Running(view), Admitted(view), Delayed(view), Active(view), Queued(view),
               Crossing(view, relay), Toward(Crossing(view, relay), dir),
               Toward(Active(view), dir), Toward(Queued(view), dir),
               {r \in view : relay \in r.leases}, {r \in view : relay \in r.staging},
               {r \in Running(view) : r.leases # {}}, {r \in Running(view) : r.leases = {}}}
                  \subseteq SUBSET view
           /\ Toward(Crossing(view, relay), dir) \in SUBSET Crossing(view, relay)
  BY DEF Running, Admitted, Delayed, Active, Queued, Crossing, Toward, Loaded

\* A capped count is within its cap.
LEMMA Counted ==
    ASSUME NEW view, GoodView(view), NEW part \in SUBSET view, NEW cap \in Nat
    PROVE  UpTo(Cardinality(part), cap) \in 0..cap
  BY PartOfView, UpToBounds

\* The share of a relay in the bytes under way.
LEMMA RelayPressureIsNat ==
    ASSUME NEW view, GoodView(view), NEW relay, NEW dir
    PROVE  RelayPressure(view, relay, dir) \in Nat
<1> DEFINE on == Toward(Crossing(view, relay), dir)
           a == UpTo(Cardinality(on), 8)
           b == UpTo(PathChunks(on, relay), 32)
           c == UpTo(LeasesOn(view, relay), 8)
           d == UpTo(StagingOn(view, relay), 8)
           e == WorkerShare \div 10
           f == (140 * Share(PathBytes(on, relay), BytesIn(Active(view)), 1)) \div 1000
           g == UpTo(Cardinality(Queued(view)), 8)
           h == UpTo(Cardinality(Admitted(view)), 8)
           k == UpTo(Cardinality(Delayed(view)), 8)
<1>1. on \in SUBSET view /\ on \in SUBSET Crossing(view, relay)
  BY ViewParts
<1>2. a \in Nat
  BY <1>1, Counted
<1>3. b \in Nat
  BY <1>1, PathSums, UpToBounds
<1>4. c \in Nat
  <2>1. {r \in view : relay \in r.leases} \in SUBSET view
    OBVIOUS
  <2>2. QED
    BY <2>1, Counted DEF LeasesOn
<1>5. d \in Nat
  <2>1. {r \in view : relay \in r.staging} \in SUBSET view
    OBVIOUS
  <2>2. QED
    BY <2>1, Counted DEF StagingOn
<1>6. e \in Nat
  BY LoadAssumption
<1>7. f \in Nat
  <2>1. PathBytes(on, relay) \in Nat /\ BytesIn(Active(view)) \in Nat
    BY <1>1, PathSums, PartOfView, ViewParts
  <2>2. Share(PathBytes(on, relay), BytesIn(Active(view)), 1) \in Nat
    BY <2>1, ShareIsNat
  <2>3. QED
    BY <2>2, ScaledDown
<1>8. g \in Nat /\ h \in Nat /\ k \in Nat
  BY ViewParts, Counted
<1>9. RelayPressure(view, relay, dir) =
          200 * a + 15 * b + (60 + 50) * c + 80 * d + e + f + 15 * g + 20 * h + 25 * k
  BY DEF RelayPressure
<1> HIDE DEF a, b, c, d, e, f, g, h, k
<1>10. QED
  BY <1>2, <1>3, <1>4, <1>5, <1>6, <1>7, <1>8, <1>9

\* The share of some bytes in those under way.
LEMMA BytesShare ==
    ASSUME NEW view, GoodView(view), NEW part \in SUBSET view, NEW cap \in Nat
    PROVE  Share(BytesIn(part), BytesIn(Active(view)), cap) \in Nat
<1>1. BytesIn(part) \in Nat /\ BytesIn(Active(view)) \in Nat
  BY PartOfView, ViewParts
<1>2. QED
  BY <1>1, ShareIsNat

\* The pressure on the direct path is a natural number.
LEMMA DirectPressureIsNat ==
    ASSUME NEW view, GoodView(view), NEW dir
    PROVE  DirectPressure(view, dir) \in Nat
<1> DEFINE total == BytesIn(Active(view))
           a == (80 * BackendShare) \div 1000
           b == UpTo(Cardinality(Running(view)), 8)
           c == UpTo(Cardinality(Queued(view)), 8)
           d == UpTo(Cardinality(Admitted(view)), 8)
           e == (120 * Share(BytesIn(Toward(Active(view), dir)), total, 1)) \div 1000
           f == (100 * Share(PathBytes(Crossing(view, Direct), Direct), total, 1)) \div 1000
<1>1. a \in Nat
  BY LoadAssumption, ScaledDown
<1>2. b \in Nat /\ c \in Nat /\ d \in Nat
  BY ViewParts, Counted
<1>3. e \in Nat
  <2>1. Toward(Active(view), dir) \in SUBSET view
    BY ViewParts
  <2>2. Share(BytesIn(Toward(Active(view), dir)), total, 1) \in Nat
    BY <2>1, BytesShare
  <2>3. QED
    BY <2>2, ScaledDown
<1>4. f \in Nat
  <2>1. PathBytes(Crossing(view, Direct), Direct) \in Nat /\ total \in Nat
    BY PathSums, PartOfView, ViewParts
  <2>2. Share(PathBytes(Crossing(view, Direct), Direct), total, 1) \in Nat
    BY <2>1, ShareIsNat
  <2>3. QED
    BY <2>2, ScaledDown
<1>5. DirectPressure(view, dir) = a + 20 * b + 10 * c + 15 * d + e + f
  BY DEF DirectPressure
<1> HIDE DEF a, b, c, d, e, f
<1>6. QED
  BY <1>1, <1>2, <1>3, <1>4, <1>5

\* The pressures of queue, directions, workers and backend.
LEMMA OtherPressuresAreNat ==
    ASSUME NEW view, GoodView(view), NEW dir
    PROVE  /\ QueuePressure(view) \in Nat /\ RunningPressure(view) \in Nat
           /\ DirectionPressure(view, dir) \in Nat
           /\ WorkerPressure(view) \in Nat /\ BackendPressure(view) \in Nat
<1>1. ASSUME NEW part \in SUBSET view
      PROVE  UpTo(Cardinality(part), 16) \in Nat
  BY Counted
<1>2. QueuePressure(view) \in Nat
  <2> DEFINE a == UpTo(Cardinality(Queued(view)), 16)
             b == UpTo(Cardinality(Admitted(view)), 16)
             c == UpTo(Cardinality(Delayed(view)), 16)
  <2>1. a \in Nat /\ b \in Nat /\ c \in Nat
    BY <1>1, ViewParts
  <2>2. QueuePressure(view) = 12 * a + 18 * b + 30 * c
    BY DEF QueuePressure
  <2> HIDE DEF a, b, c
  <2>3. QED
    BY <2>1, <2>2
<1>3. RunningPressure(view) \in Nat
  <2> DEFINE a == UpTo(Cardinality(Running(view)), 16)
             b == UpTo(Cardinality(Active(view)), 16)
  <2>1. a \in Nat /\ b \in Nat
    BY <1>1, ViewParts
  <2>2. RunningPressure(view) = 30 * a + 18 * b
    BY DEF RunningPressure
  <2> HIDE DEF a, b
  <2>3. QED
    BY <2>1, <2>2
<1>4. DirectionPressure(view, dir) \in Nat
  <2> DEFINE total == BytesIn(Active(view))
             a == Share(BytesIn(Toward(Active(view), dir)), total, 2)
             b == Share(BytesIn(Toward(Queued(view), dir)), total, 2)
  <2>1. a \in Nat /\ b \in Nat
    BY BytesShare, ViewParts
  <2>2. DirectionPressure(view, dir) = (80 * a + 50 * b) \div 1000
    BY DEF DirectionPressure
  <2> HIDE DEF a, b
  <2>3. QED
    BY <2>1, <2>2
<1>5. WorkerPressure(view) \in Nat
  <2> DEFINE a == Share(WorkerBytes(view), BytesIn(Active(view)), 2)
  <2>1. a \in Nat
    BY BytesShare, ViewParts DEF WorkerBytes
  <2>2. WorkerPressure(view) = (120 * WorkerShare + 80 * a) \div 1000
    BY DEF WorkerPressure
  <2> HIDE DEF a
  <2>3. QED
    BY <2>1, <2>2, LoadAssumption
<1>6. BackendPressure(view) \in Nat
  <2> DEFINE a == Share(BackendBytes(view), BytesIn(Active(view)), 2)
  <2>1. a \in Nat
    BY BytesShare, ViewParts DEF BackendBytes
  <2>2. BackendPressure(view) = (100 * BackendShare + 80 * a) \div 1000
    BY DEF BackendPressure
  <2> HIDE DEF a
  <2>3. QED
    BY <2>1, <2>2, LoadAssumption
<1>7. QED
  BY <1>2, <1>3, <1>4, <1>5, <1>6

\* The part of a request in what its job may have.
LEMMA OverageIsNat ==
    ASSUME NEW view, GoodView(view), NEW req \in Request
    PROVE  Overage(view, req) \in Nat
<1>1. ASSUME NEW part \in SUBSET view
      PROVE  FairBytes(part) \in Nat
  <2>1. Loaded(part, {"admitted", "running"}) \in SUBSET view /\ Delayed(part) \in SUBSET view
    BY DEF Loaded, Delayed
  <2>2. BytesIn(Loaded(part, {"admitted", "running"})) \in Nat /\ BytesIn(Delayed(part)) \in Nat
    BY <2>1, PartOfView
  <2>3. QED
    BY <2>2 DEF FairBytes
<1>2. Charge(req) \in Nat
  <2> DEFINE percent == CASE req.workload = "kv_cache" -> 75
                          [] req.workload \in {"training_state", "optimizer_state"} -> 125
                          [] OTHER -> 100
             d == 10 + UpTo(req.priority, 9)
             b == 10 * req.bytes
  <2>1. req.bytes \in Nat /\ req.priority \in Nat
    BY DEF Request
  <2>2. percent \in Nat
    OBVIOUS
  <2>3. d \in Nat \ {0} /\ b \in Nat
    BY <2>1 DEF UpTo
  <2> HIDE DEF percent, d, b
  <2>4. (b * percent) \div d \in Nat
    BY <2>2, <2>3, ScaledDown
  <2>5. QED
    BY <2>4 DEF Charge, percent, d, b
<1>3. TotalWeight \in Nat
  BY LoadAssumption, SumIsNat DEF TotalWeight
<1>4. JobWeight[req.job] \in Nat
  BY LoadAssumption DEF Request
<1> DEFINE f == FairBytes(OfJob(view, req.job))
           g == FairBytes(view)
           c == Charge(req)
           w == JobWeight[req.job]
<1>5. f \in Nat /\ g \in Nat /\ c \in Nat /\ w \in Nat
  BY <1>1, <1>2, <1>4 DEF OfJob
<1>6. Projected(view, req) = (f + c) * TotalWeight /\ Threshold(view, req) = (5 * (g + c) * w) \div 4
  BY DEF Projected, Threshold
<1> HIDE DEF f, g, c, w
<1>7. Projected(view, req) \in Nat
  BY <1>3, <1>5, <1>6
<1>8. Threshold(view, req) \in Nat
  <2>1. 5 * (g + c) \in Nat
    BY <1>5
  <2> DEFINE k == 5 * (g + c)
  <2>2. k \in Nat
    BY <2>1
  <2> HIDE DEF k
  <2>3. (k * w) \div 4 \in Nat
    BY <1>5, <2>2, ScaledDown
  <2>4. QED
    BY <1>6, <2>3 DEF k
<1>9. AtLeast(Projected(view, req) - Threshold(view, req), 0) \in Nat
  BY <1>7, <1>8 DEF AtLeast
<1>10. Share(AtLeast(Projected(view, req) - Threshold(view, req), 0), Threshold(view, req), 2) \in Nat
  BY <1>8, <1>9, ShareIsNat
<1>11. QED
  BY <1>10 DEF Overage

\* The pressure on a relay is a natural number.
LEMMA CostPressureIsNat ==
    ASSUME NEW view, GoodView(view), NEW req \in Request, NEW relay
    PROVE  CostPressure(view, req, relay) \in Nat
<1> DEFINE a == QueuePressure(view)
           b == RunningPressure(view)
           c == (250 * Overage(view, req)) \div 1000
           d == DirectPressure(view, req.dir) + DirectionPressure(view, req.dir) + BackendPressure(view)
           e == RelayPressure(view, relay, req.dir) + WorkerPressure(view)
<1>1. a \in Nat /\ b \in Nat
  BY OtherPressuresAreNat
<1>2. c \in Nat
  BY OverageIsNat, ScaledDown
<1>3. d \in Nat
  BY OtherPressuresAreNat, DirectPressureIsNat
<1>4. e \in Nat
  BY OtherPressuresAreNat, RelayPressureIsNat
<1>5. CostPressure(view, req, relay) = a + b + c + (IF relay = Direct THEN d ELSE e)
  BY DEF CostPressure
<1> HIDE DEF a, b, c, d, e
<1>6. QED
  BY <1>1, <1>2, <1>3, <1>4, <1>5

\* The bias of a workload is positive.
LEMMA BiasIsNat ==
    ASSUME NEW req, NEW relay
    PROVE  WorkloadBias(req, relay) \in Nat \ {0}
  BY DEF WorkloadBias

\* The multiplier of a cost is a natural number.
LEMMA MultiplierIsNat ==
    ASSUME NEW view, GoodView(view), NEW req \in Request, NEW relay, NEW deferred, NEW pressure \in Nat
    PROVE  Multiplier(view, req, relay, deferred, pressure) \in Nat
<1> DEFINE backlog == BacklogPenalty(view, relay, req.dir)
           over    == (200 * Overage(view, req)) \div 1000
           late    == IF deferred THEN 180 ELSE 0
           source  == IF relay = Direct THEN BackendPressure(view) ELSE WorkerPressure(view)
           idle    == IdleBonus(view, relay)
           bias    == WorkloadBias(req, relay)
           n       == (1000 + idle) * bias
           d       == 1000 + (pressure + backlog + over + late) + source
<1>1. backlog \in Nat
  <2>1. Cardinality(Running(view)) \in Nat
    BY PartOfView, ViewParts
  <2>2. Cardinality(Toward(Crossing(view, relay), req.dir)) \in Nat
    BY PartOfView, ViewParts
  <2>3. LeasesOn(view, relay) \in Nat
    <3>1. {r \in view : relay \in r.leases} \in SUBSET view
      OBVIOUS
    <3>2. QED
      BY <3>1, PartOfView DEF LeasesOn
  <2>4. StagingOn(view, relay) \in Nat
    <3>1. {r \in view : relay \in r.staging} \in SUBSET view
      OBVIOUS
    <3>2. QED
      BY <3>1, PartOfView DEF StagingOn
  <2> DEFINE k == Cardinality(Toward(Crossing(view, relay), req.dir)) + LeasesOn(view, relay)
                     + StagingOn(view, relay)
             j == Cardinality(Running(view))
  <2>5. UpTo(j, 16) \in Nat /\ UpTo(k, 16) \in Nat
    BY <2>1, <2>2, <2>3, <2>4 DEF UpTo
  <2>6. BacklogPenalty(view, relay, req.dir) = IF relay = Direct THEN 18 * UpTo(j, 16) ELSE 35 * UpTo(k, 16)
    BY DEF BacklogPenalty
  <2> HIDE DEF k, j
  <2>7. QED
    BY <2>5, <2>6
<1>2. over \in Nat
  BY OverageIsNat, ScaledDown
<1>3. late \in Nat
  OBVIOUS
<1>4. source \in Nat
  BY OtherPressuresAreNat
<1>5. idle \in Nat
  BY DEF IdleBonus
<1>6. bias \in Nat
  BY BiasIsNat
<1>7. Multiplier(view, req, relay, deferred, pressure) = AtLeast(n \div d, 50)
  BY DEF Multiplier
<1> HIDE DEF backlog, over, late, source, idle, bias
<1>8. n \in Nat
  BY <1>5, <1>6
<1>9. d \in Nat \ {0}
  BY <1>1, <1>2, <1>3, <1>4
<1> HIDE DEF n, d
<1>10. n \div d \in Nat
  BY <1>8, <1>9
<1>11. QED
  BY <1>7, <1>10 DEF AtLeast

\* The score of a cost is positive, so that dividing by it is safe.
LEMMA CostScoreIsNat ==
    ASSUME NEW req \in Request, NEW relay, NEW deferred, NEW pressure \in Nat
    PROVE  CostScore(req, relay, deferred, pressure) \in Nat \ {0}
<1> DEFINE admitted == ((1000 + UpTo(pressure, 4000)) * IF deferred THEN 1180 ELSE 1000) \div 1000
           discount == 100000 \div (100 + 8 * UpTo(req.priority, 9))
           bias == WorkloadBias(req, relay)
<1>1. admitted \in Nat
  <2> DEFINE a == 1000 + UpTo(pressure, 4000)
             b == IF deferred THEN 1180 ELSE 1000
  <2>1. a \in Nat /\ b \in Nat
    BY DEF UpTo
  <2> HIDE DEF a, b
  <2>2. (a * b) \div 1000 \in Nat
    BY <2>1, ScaledDown
  <2>3. QED
    BY <2>2 DEF a, b
<1>2. discount \in Nat
  <2> DEFINE d == 100 + 8 * UpTo(req.priority, 9)
  <2>1. d \in Nat \ {0}
    BY DEF UpTo, Request
  <2> HIDE DEF d
  <2>2. 100000 \div d \in Nat
    BY <2>1
  <2>3. QED
    BY <2>2 DEF d
<1>3. bias \in Nat \ {0}
  BY BiasIsNat
<1>4. CostScore(req, relay, deferred, pressure) = AtLeast((admitted * discount) \div bias, 1)
  BY DEF CostScore
<1> HIDE DEF admitted, discount, bias
<1>5. (admitted * discount) \div bias \in Nat
  BY <1>1, <1>2, <1>3, ScaledDown
<1> DEFINE q == (admitted * discount) \div bias
<1> HIDE DEF q
<1>6. AtLeast(q, 1) \in Nat \ {0}
  BY <1>5 DEF AtLeast, q
<1>7. QED
  BY <1>4, <1>6 DEF q

\* What the scheduler weighs a path with is a number, whatever the load.
LEMMA SchedulerWeightIsNat ==
    ASSUME NEW view, GoodView(view), NEW req \in Request, NEW relay, NEW deferred, NEW bandwidth \in Nat
    PROVE  SchedulerWeight(view, req, relay, deferred, bandwidth) \in Nat
<1> DEFINE pressure == CostPressure(view, req, relay)
           m == Multiplier(view, req, relay, deferred, pressure)
           s == CostScore(req, relay, deferred, pressure)
           k == 1000 * bandwidth
<1>1. pressure \in Nat
  BY CostPressureIsNat
<1> HIDE DEF pressure
<1>2. m \in Nat /\ s \in Nat \ {0}
  BY <1>1, MultiplierIsNat, CostScoreIsNat
<1>3. k \in Nat
  OBVIOUS
<1>4. SchedulerWeight(view, req, relay, deferred, bandwidth) = IF bandwidth = 0 THEN 0 ELSE (k * m) \div s
  BY DEF SchedulerWeight, Adjusted, pressure
<1> HIDE DEF m, s, k
<1>5. (k * m) \div s \in Nat
  BY <1>2, <1>3, ScaledDown
<1>6. QED
  BY <1>4, <1>5

-----------------------------------------------------------------------------
\* Paths.

\* A path of a plan, before it has chunks.
Path == [relay: Relays \cup {Direct}, weight: Nat]
GoodQuotas(q) == /\ q.assigned \subseteq Relays /\ q.session \in Nat
                 /\ \A r \in Relays : q.relay[r] \in Nat

\* The direct plan has one path, the direct one.
LEMMA DirectPathType ==
    ASSUME NEW view, GoodView(view), NEW req \in Request, NEW q
    PROVE  DirectPath(view, req, q) \in Seq(Path) /\ DirectPath(view, req, q) # <<>>
           /\ Len(DirectPath(view, req, q)) = 1
           /\ DirectPath(view, req, q)[1].relay = Direct
<1> DEFINE bandwidth == AtLeast(Bandwidth(Profile.direct, req.dir), 1)
           weight == IF RelaysKnown(req, q)
                     THEN SchedulerWeight(view, req, Direct, FALSE, bandwidth) ELSE 1000
<1>1. bandwidth \in Nat
  BY PlannerAssumption DEF Bandwidth, Link, AtLeast
<1> HIDE DEF bandwidth
<1>2. weight \in Nat
  <2> DEFINE no == FALSE
             known == RelaysKnown(req, q)
  <2> HIDE DEF no, known
  <2>1. SchedulerWeight(view, req, Direct, no, bandwidth) \in Nat
    BY <1>1, SchedulerWeightIsNat
  <2>2. (IF known THEN SchedulerWeight(view, req, Direct, no, bandwidth) ELSE 1000) \in Nat
    BY <2>1
  <2>3. QED
    BY <2>2 DEF no, known
<1>3. DirectPath(view, req, q) = <<[relay |-> Direct, weight |-> weight]>>
  BY DEF DirectPath, bandwidth
<1> HIDE DEF weight
<1>4. [relay |-> Direct, weight |-> weight] \in Path
  BY <1>2 DEF Path
<1> DEFINE p == [relay |-> Direct, weight |-> weight]
<1>5. p \in Path /\ p.relay = Direct
  BY <1>4
<1> HIDE DEF p
<1>6. <<p>> \in Seq(Path) /\ <<p>> # <<>> /\ Len(<<p>>) = 1 /\ <<p>>[1].relay = Direct
  BY <1>5
<1>7. QED
  BY <1>3, <1>6 DEF p

\* The paths over relays are paths.
LEMMA RelayPathsType ==
    ASSUME NEW view, GoodView(view), NEW req \in Request, NEW q
    PROVE  RelayPaths(view, req, q) \in Seq(Path)
<1> DEFINE keep == Worth(view, req, q)
           s == Filter(Profile.order, keep)
           late == Available(view, req, q) = {}
           W(i) == SchedulerWeight(view, req, s[i], late, Bandwidth(Profile.relay[s[i]], req.dir))
<1>1. s \in Seq(Relays)
  <2>1. Profile.order \in Seq(Relays)
    BY PlannerAssumption
  <2> DEFINE o == Profile.order
  <2>2. o \in Seq(Relays)
    BY <2>1
  <2> HIDE DEF o, keep
  <2>3. Filter(o, keep) \in Seq(Relays)
    BY <2>2, FilterFacts
  <2>4. QED
    BY <2>3 DEF o
<1>2. RelayPaths(view, req, q) = [i \in DOMAIN s |-> [relay |-> s[i], weight |-> W(i)]]
  BY DEF RelayPaths, PathsOver
<1> HIDE DEF s, late
<1>3. ASSUME NEW i \in DOMAIN s
      PROVE  W(i) \in Nat /\ s[i] \in Relays
  <2>1. s[i] \in Relays
    BY <1>1
  <2> DEFINE b == Bandwidth(Profile.relay[s[i]], req.dir)
  <2>2. b \in Nat
    BY <2>1, PlannerAssumption DEF Bandwidth, Link
  <2> HIDE DEF b
  <2>3. SchedulerWeight(view, req, s[i], late, b) \in Nat
    BY <2>2, SchedulerWeightIsNat
  <2>4. QED
    BY <2>1, <2>3 DEF b
<1> HIDE DEF W
<1>4. [i \in DOMAIN s |-> [relay |-> s[i], weight |-> W(i)]] \in Seq(Path)
  <2> DEFINE E(i) == [relay |-> s[i], weight |-> W(i)]
  <2>1. \A i \in DOMAIN s : E(i) \in Path
    BY <1>3 DEF Path
  <2>2. DOMAIN s = 1..Len(s) /\ Len(s) \in Nat
    BY <1>1
  <2> HIDE DEF E
  <2>3. [i \in DOMAIN s |-> E(i)] \in Seq(Path)
    BY <2>1, <2>2
  <2>4. QED
    BY <2>3 DEF E
<1>5. QED
  BY <1>2, <1>4

\* A request always has a path, and its weights are numbers.
LEMMA PathsType ==
    ASSUME NEW view, GoodView(view), NEW req \in Request, NEW q
    PROVE  Paths(view, req, q) \in Seq(Path) /\ Paths(view, req, q) # <<>>
<1> DEFINE d == DirectPath(view, req, q)
           r == RelayPaths(view, req, q)
           mode == PlanningMode(req)
           a == IF mode # "relay" /\ (~Profile.known \/ Bandwidth(Profile.direct, req.dir) > 0)
                THEN d ELSE <<>>
           b == IF mode = "direct" THEN <<>> ELSE r
<1>1. d \in Seq(Path) /\ d # <<>> /\ r \in Seq(Path)
  BY DirectPathType, RelayPathsType
<1>2. Paths(view, req, q) = OrElse(a \o b, d)
  BY DEF Paths
<1> HIDE DEF d, r, mode
<1>3. a \in Seq(Path) /\ b \in Seq(Path)
  BY <1>1
<1> HIDE DEF a, b
<1>4. a \o b \in Seq(Path)
  BY <1>3
<1>5. QED
  BY <1>1, <1>2, <1>4 DEF OrElse

-----------------------------------------------------------------------------
\* The least loaded path.

\* Loads are compared by cross products with the weights; a weight of zero makes a
\* path infinitely slow.
LEMMA SoonerIsTransitive ==
    ASSUME NEW a \in Nat \ {0}, NEW b \in Nat \ {0}, NEW c \in Nat \ {0},
           NEW u \in Nat, NEW v \in Nat, NEW w \in Nat,
           a * v <= b * u, b * w <= c * v
    PROVE  a * w <= c * u
<1>1. CASE v = 0
  <2>1. c * v = 0
    BY <1>1
  <2>2. b * w <= 0
    BY <2>1
  <2>3. w = 0
    <3>1. w > 0 => b * w > 0
      OBVIOUS
    <3>2. QED
      BY <2>2, <3>1
  <2>4. a * w = 0 /\ c * u \in Nat
    BY <2>3
  <2>5. QED
    BY <2>4
<1>2. CASE v > 0
  <2>1. (a * v) * w <= (b * u) * w
    BY <1>2
  <2>2. (b * w) * u <= (c * v) * u
    BY <1>2
  <2>3. (a * v) * w = (a * w) * v /\ (b * u) * w = (b * w) * u /\ (c * v) * u = (c * u) * v
    OBVIOUS
  <2> DEFINE x == a * w
             y == c * u
  <2>4. x \in Nat /\ y \in Nat
    OBVIOUS
  <2>5. x * v <= y * v
    <3>1. (b * u) * w \in Nat /\ (b * w) * u \in Nat /\ (a * v) * w \in Nat /\ (c * v) * u \in Nat
      OBVIOUS
    <3>2. QED
      BY <2>1, <2>2, <2>3, <3>1
  <2> HIDE DEF x, y
  <2>6. x <= y
    <3>1. x > y => x * v > y * v
      BY <1>2, <2>4
    <3>2. x * v \in Nat /\ y * v \in Nat
      BY <2>4
    <3>3. QED
      BY <2>4, <2>5, <3>1, <3>2
  <2>7. QED
    BY <2>6 DEF x, y
<1>3. QED
  BY <1>1, <1>2

\* Of n paths with loads and weights, one is at least as soon as all others.
LEMMA SoonestExists ==
    ASSUME NEW n \in Nat \ {0}, NEW amount, NEW weight,
           \A i \in 1..n : amount[i] \in Nat \ {0} /\ weight[i] \in Nat
    PROVE  \E i \in 1..n : \A j \in 1..n : amount[i] * weight[j] <= amount[j] * weight[i]
<1> DEFINE Soonest(i, k) == \A j \in 1..k : amount[i] * weight[j] <= amount[j] * weight[i]
           P == {k \in 0..n : k # 0 => \E i \in 1..k : Soonest(i, k)}
<1>1. 0 \in P
  OBVIOUS
<1>2. ASSUME NEW k \in 0..(n - 1), k \in P
      PROVE  k + 1 \in P
  <2>1. k + 1 \in 0..n /\ k + 1 \in 1..(k + 1) /\ k + 1 \in 1..n /\ k \in Nat
    OBVIOUS
  <2>2. amount[k + 1] \in Nat \ {0} /\ weight[k + 1] \in Nat
    BY <2>1
  <2>3. amount[k + 1] * weight[k + 1] <= amount[k + 1] * weight[k + 1]
    BY <2>2
  <2>4. CASE k = 0
    <3>1. Soonest(1, 1)
      BY <2>3, <2>4
    <3>2. QED
      BY <2>1, <2>4, <3>1
  <2>5. CASE k # 0
    <3>1. PICK i \in 1..k : Soonest(i, k)
      BY <1>2, <2>5
    <3>2. amount[i] \in Nat \ {0} /\ weight[i] \in Nat /\ i \in 1..(k + 1)
      BY <2>1
    <3>3. CASE amount[i] * weight[k + 1] <= amount[k + 1] * weight[i]
      <4>1. Soonest(i, k + 1)
        BY <2>1, <3>1, <3>3
      <4>2. QED
        BY <2>1, <3>2, <4>1
    <3>4. CASE ~(amount[i] * weight[k + 1] <= amount[k + 1] * weight[i])
      <4>1. amount[k + 1] * weight[i] <= amount[i] * weight[k + 1]
        <5>1. amount[k + 1] * weight[i] \in Nat /\ amount[i] * weight[k + 1] \in Nat
          BY <2>2, <3>2
        <5>2. QED
          BY <3>4, <5>1
      <4>2. ASSUME NEW j \in 1..k
            PROVE  amount[k + 1] * weight[j] <= amount[j] * weight[k + 1]
        <5>1. j \in 1..n
          BY <2>1
        <5>2. amount[j] \in Nat \ {0} /\ weight[j] \in Nat
          BY <5>1
        <5>3. amount[i] * weight[j] <= amount[j] * weight[i]
          BY <3>1
        <5>4. QED
          BY <2>2, <3>2, <4>1, <5>2, <5>3, SoonerIsTransitive
      <4>3. Soonest(k + 1, k + 1)
        BY <2>1, <2>3, <4>2
      <4>4. QED
        BY <2>1, <4>3
    <3>5. QED
      BY <3>3, <3>4
  <2>6. QED
    BY <2>4, <2>5
<1>3. 0..n \subseteq P
  <2> HIDE DEF P
  <2>1. QED
    BY <1>1, <1>2, InductionUpTo
<1>4. n \in P
  BY <1>3
<1>5. QED
  BY <1>4

\* _plan_chunks gives a chunk to a path that would end with it no later than any other.
LEMMA LeastLoadedFacts ==
    ASSUME NEW paths \in Seq(Path), paths # <<>>, NEW load, \A j \in DOMAIN paths : load[j] \in Nat,
           NEW bytes \in Nat \ {0}
    PROVE  LET i == LeastLoaded(paths, load, bytes)
           IN /\ i \in DOMAIN paths
              /\ \A j \in DOMAIN paths : (load[i] + bytes) * paths[j].weight
                                             <= (load[j] + bytes) * paths[i].weight
<1> DEFINE n == Len(paths)
           amount == [j \in 1..n |-> load[j] + bytes]
           weight == [j \in 1..n |-> paths[j].weight]
           M == {i \in 1..n : \A j \in 1..n : amount[i] * weight[j] <= amount[j] * weight[i]}
           First1(i) == \A j \in 1..n : \/ amount[i] * weight[j] < amount[j] * weight[i]
                                        \/ amount[i] * weight[j] = amount[j] * weight[i] /\ i <= j
<1>1. n \in Nat \ {0} /\ DOMAIN paths = 1..n
  OBVIOUS
<1>2. \A i \in 1..n : amount[i] \in Nat \ {0} /\ weight[i] \in Nat
  <2>1. ASSUME NEW i \in 1..n
        PROVE  load[i] + bytes \in Nat \ {0} /\ paths[i].weight \in Nat
    <3>1. load[i] \in Nat /\ paths[i] \in Path
      BY <1>1
    <3>2. QED
      BY <3>1 DEF Path
  <2>2. QED
    BY <2>1
<1>3. \A i \in 1..n : amount[i] = load[i] + bytes /\ weight[i] = paths[i].weight
  OBVIOUS
<1> HIDE DEF n, amount, weight
<1>4. M # {} /\ M \in SUBSET Nat
  <2>1. \E i \in 1..n : \A j \in 1..n : amount[i] * weight[j] <= amount[j] * weight[i]
    BY <1>1, <1>2, SoonestExists
  <2>2. M # {}
    BY <2>1
  <2>3. M \in SUBSET Nat
    BY <1>1
  <2>4. QED
    BY <2>2, <2>3
<1>5. PICK m \in M : \A k \in M : m <= k
  BY <1>4, SmallestNumber
<1>6. m \in 1..n /\ \A j \in 1..n : amount[m] * weight[j] <= amount[j] * weight[m]
  OBVIOUS
<1> HIDE DEF M
<1>7. ASSUME NEW j \in 1..n
      PROVE  \/ amount[m] * weight[j] < amount[j] * weight[m]
             \/ amount[m] * weight[j] = amount[j] * weight[m] /\ m <= j
  <2>1. amount[m] \in Nat \ {0} /\ weight[m] \in Nat /\ amount[j] \in Nat \ {0} /\ weight[j] \in Nat
    BY <1>2, <1>6
  <2>2. amount[m] * weight[j] \in Nat /\ amount[j] * weight[m] \in Nat
    BY <2>1
  <2>3. CASE amount[m] * weight[j] = amount[j] * weight[m]
    <3>1. amount[j] * weight[m] <= amount[m] * weight[j]
      BY <2>2, <2>3
    <3>2. ASSUME NEW k \in 1..n
          PROVE  amount[j] * weight[k] <= amount[k] * weight[j]
      <4>1. amount[k] \in Nat \ {0} /\ weight[k] \in Nat
        BY <1>2
      <4>2. amount[m] * weight[k] <= amount[k] * weight[m]
        BY <1>6
      <4>3. QED
        BY <2>1, <3>1, <4>1, <4>2, SoonerIsTransitive
    <3>3. j \in M
      BY <3>2 DEF M
    <3>4. QED
      BY <1>5, <2>3, <3>3
  <2>4. CASE amount[m] * weight[j] # amount[j] * weight[m]
    <3>1. amount[m] * weight[j] <= amount[j] * weight[m]
      BY <1>6
    <3>2. QED
      BY <2>2, <2>4, <3>1
  <2>5. QED
    BY <2>3, <2>4
<1>8. First1(m)
  BY <1>7
<1>9. LeastLoaded(paths, load, bytes) = CHOOSE i \in 1..n : First1(i)
  <2>1. LeastLoaded(paths, load, bytes) =
          CHOOSE i \in 1..n : \A j \in 1..n :
              \/ (load[i] + bytes) * paths[j].weight < (load[j] + bytes) * paths[i].weight
              \/ (load[i] + bytes) * paths[j].weight = (load[j] + bytes) * paths[i].weight /\ i <= j
    BY <1>1 DEF LeastLoaded
  <2>2. \A i \in 1..n : First1(i) <=> \A j \in 1..n :
              \/ (load[i] + bytes) * paths[j].weight < (load[j] + bytes) * paths[i].weight
              \/ (load[i] + bytes) * paths[j].weight = (load[j] + bytes) * paths[i].weight /\ i <= j
    BY <1>3
  <2> DEFINE A(i) == \A j \in 1..n :
              \/ (load[i] + bytes) * paths[j].weight < (load[j] + bytes) * paths[i].weight
              \/ (load[i] + bytes) * paths[j].weight = (load[j] + bytes) * paths[i].weight /\ i <= j
  <2>3. \A i \in 1..n : First1(i) <=> A(i)
    BY <2>2
  <2>4. LeastLoaded(paths, load, bytes) = CHOOSE i \in 1..n : A(i)
    BY <2>1
  <2> HIDE DEF A, First1
  <2>5. (CHOOSE i \in 1..n : A(i)) = CHOOSE i \in 1..n : First1(i)
    BY <2>3
  <2>6. QED
    BY <2>4, <2>5
<1> DEFINE i == LeastLoaded(paths, load, bytes)
<1>10. i \in 1..n /\ First1(i)
  <2> HIDE DEF First1
  <2>1. QED
    BY <1>6, <1>8, <1>9
<1> HIDE DEF i
<1>11. ASSUME NEW j \in 1..n
       PROVE  (load[i] + bytes) * paths[j].weight <= (load[j] + bytes) * paths[i].weight
  <2>1. amount[i] * weight[j] \in Nat /\ amount[j] * weight[i] \in Nat
    BY <1>2, <1>10
  <2>2. amount[i] * weight[j] <= amount[j] * weight[i]
    BY <1>10, <2>1
  <2>3. QED
    BY <1>3, <1>10, <2>2
<1>12. QED
  BY <1>1, <1>10, <1>11 DEF i

-----------------------------------------------------------------------------
\* Spreading the chunks.

\* What the paths have been given, path by path.
Givens(paths) == [DOMAIN paths -> Seq(Chunk)]
Loads(paths, given) == [j \in DOMAIN paths |-> BytesOf(given[j])]

\* A chunk is given to one path, and to none that would be loaded less with it, by
\* cross-multiplication (planner_engine.py, the least loaded path).
LEMMA PlaceFacts ==
    ASSUME NEW paths \in Seq(Path), paths # <<>>, NEW given \in Givens(paths), NEW c \in Chunk
    PROVE  LET i == LeastLoaded(paths, Loads(paths, given), c.bytes)
           IN /\ i \in DOMAIN paths
              /\ Place(paths, given, c) = [given EXCEPT ![i] = Append(given[i], c)]
              /\ Place(paths, given, c) \in Givens(paths)
              /\ \A j \in DOMAIN paths : (BytesOf(given[i]) + c.bytes) * paths[j].weight
                                             <= (BytesOf(given[j]) + c.bytes) * paths[i].weight
<1> DEFINE load == Loads(paths, given)
           i == LeastLoaded(paths, load, c.bytes)
<1>1. \A j \in DOMAIN paths : load[j] = BytesOf(given[j]) /\ load[j] \in Nat /\ given[j] \in Seq(Chunk)
  <2> SUFFICES ASSUME NEW j \in DOMAIN paths
               PROVE  load[j] = BytesOf(given[j]) /\ load[j] \in Nat /\ given[j] \in Seq(Chunk)
    OBVIOUS
  <2>1. given[j] \in Seq(Chunk)
    BY DEF Givens
  <2>2. QED
    BY <2>1, BytesFacts DEF Loads
<1>2. c.bytes \in Nat \ {0}
  BY DEF Chunk
<1>3. Place(paths, given, c) = [given EXCEPT ![i] = Append(@, c)]
  BY DEF Place, Loads
<1> DEFINE bytes == c.bytes
<1> HIDE DEF load, bytes
<1>4. /\ i \in DOMAIN paths
      /\ \A j \in DOMAIN paths : (load[i] + bytes) * paths[j].weight
                                     <= (load[j] + bytes) * paths[i].weight
  BY <1>1, <1>2, LeastLoadedFacts DEF bytes
<1> HIDE DEF i
<1>5. Place(paths, given, c) = [given EXCEPT ![i] = Append(given[i], c)]
  BY <1>3 DEF i, bytes
<1>6. Append(given[i], c) \in Seq(Chunk)
  BY <1>1, <1>4
<1>7. [given EXCEPT ![i] = Append(given[i], c)] \in Givens(paths)
  <2> DEFINE e == Append(given[i], c)
  <2> HIDE DEF e
  <2>1. [given EXCEPT ![i] = e] \in Givens(paths)
    BY <1>6 DEF Givens, e
  <2>2. QED
    BY <2>1 DEF e
<1>8. \A j \in DOMAIN paths : (BytesOf(given[i]) + c.bytes) * paths[j].weight
                                  <= (BytesOf(given[j]) + c.bytes) * paths[i].weight
  BY <1>1, <1>4 DEF bytes
<1>9. QED
  BY <1>4, <1>5, <1>7, <1>8 DEF i, load

\* The function that Spread folds with.
Giving(chunks, paths, f) ==
    f = [n \in 0..Len(chunks) |-> IF n = 0 THEN [j \in DOMAIN paths |-> <<>>]
                                  ELSE Place(paths, f[n - 1], chunks[n])]

\* Spread uses the last value of the function that it chooses.
LEMMA SpreadExpanded ==
    ASSUME NEW chunks, NEW paths
    PROVE  Spread(chunks, paths) = Assignments(paths, (CHOOSE f : Giving(chunks, paths, f))[Len(chunks)])
  BY DEF Spread, Giving

\* There is such a function.
LEMMA GivingExists ==
    ASSUME NEW chunks \in Seq(Chunk), NEW paths \in Seq(Path), paths # <<>>
    PROVE  \E f : Giving(chunks, paths, f) /\ f \in [0..Len(chunks) -> Givens(paths)]
<1> DEFINE H == Givens(paths)
           h == [j \in DOMAIN paths |-> <<>>]
           op == [n \in 1..Len(chunks) |-> [g \in H |-> Place(paths, g, chunks[n])]]
<1>1. Len(chunks) \in Nat /\ h \in H
  BY DEF Givens
<1>2. op \in [1..Len(chunks) -> [H -> H]]
  <2>1. ASSUME NEW n \in 1..Len(chunks), NEW g \in H
        PROVE  Place(paths, g, chunks[n]) \in H
    <3>1. chunks[n] \in Chunk
      OBVIOUS
    <3>2. QED
      BY <3>1, PlaceFacts
  <2> HIDE DEF H
  <2>2. QED
    BY <2>1
<1>3. PICK f : History(f, H, h, Len(chunks), op)
  <2> DEFINE n == Len(chunks)
  <2>1. n \in Nat /\ h \in H /\ op \in [1..n -> [H -> H]]
    BY <1>1, <1>2
  <2> HIDE DEF op, n, H, h
  <2>2. \E f : History(f, H, h, n, op)
    BY <2>1, Iterates
  <2>3. QED
    BY <2>2 DEF n
<1>4. ASSUME NEW n \in 1..Len(chunks)
      PROVE  f[n] = Place(paths, f[n - 1], chunks[n])
  <2>1. f[n - 1] \in H
    BY <1>3 DEF History
  <2> HIDE DEF H
  <2>2. op[n][f[n - 1]] = Place(paths, f[n - 1], chunks[n])
    BY <2>1
  <2>3. QED
    BY <1>3, <2>2 DEF History
<1>5. f = [n \in 0..Len(chunks) |-> f[n]] /\ f[0] = h /\ f \in [0..Len(chunks) -> H]
  BY <1>3 DEF History
<1>6. ASSUME NEW n \in 0..Len(chunks)
      PROVE  f[n] = IF n = 0 THEN h ELSE Place(paths, f[n - 1], chunks[n])
  <2>1. CASE n = 0
    BY <1>5, <2>1
  <2>2. CASE n # 0
    <3>1. n \in 1..Len(chunks)
      BY <2>2
    <3>2. QED
      BY <1>4, <2>2, <3>1
  <2>3. QED
    BY <2>1, <2>2
<1>7. Giving(chunks, paths, f)
  BY <1>5, <1>6 DEF Giving
<1>8. QED
  BY <1>5, <1>7

\* Multiplication grows.
LEMMA TimesGrows ==
    ASSUME NEW u \in Nat, NEW v \in Nat, NEW w \in Nat, u <= v
    PROVE  u * w <= v * w /\ u * w \in Nat /\ v * w \in Nat
  OBVIOUS

\* Weights of what a path has been given: by chunks, and by bytes.
lengthOf == [s \in Seq(Chunk) |-> Len(s)]
sizeOf == [s \in Seq(Chunk) |-> BytesOf(s)]

\* The length of a sequence in pieces is the sum of theirs.
LEMMA LengthOfFlat ==
    ASSUME NEW ss \in Seq(Seq(Chunk))
    PROVE  FlattenSeq(ss) \in Seq(Chunk) /\ Len(FlattenSeq(ss)) = Weight(lengthOf, ss)
<1> DEFINE one == [c \in Chunk |-> 1]
           S == Chunk
<1>1. FlattenSeq(ss) \in Seq(Chunk)
  BY ElementsOfFlat
<1>2. \A x \in S : one[x] = 1 /\ one[x] \in Nat
  OBVIOUS
<1> HIDE DEF one, S
<1>3. \A s \in Seq(S) : Weight(one, s) = Len(s)
  BY <1>2, WeightOfOnes
<1>4. \A s \in Seq(S) : lengthOf[s] = Weight(one, s)
  BY <1>3 DEF lengthOf, S
<1>5. Weight(one, FlattenSeq(ss)) = Weight(lengthOf, ss)
  <2>1. ss \in Seq(Seq(S))
    BY DEF S
  <2>2. QED
    BY <1>2, <1>4, <2>1, WeightOfFlat
<1>6. QED
  BY <1>1, <1>3, <1>5 DEF S

\* One more chunk, in one of the pieces.
LEMMA FlatWithOneMore ==
    ASSUME NEW ss \in Seq(Seq(Chunk)), NEW i \in DOMAIN ss, NEW c \in Chunk
    PROVE  LET tt == [ss EXCEPT ![i] = Append(ss[i], c)]
           IN /\ tt \in Seq(Seq(Chunk))
              /\ BytesOf(FlattenSeq(tt)) = BytesOf(FlattenSeq(ss)) + c.bytes
              /\ Len(FlattenSeq(tt)) = Len(FlattenSeq(ss)) + 1
              /\ ToSet(FlattenSeq(tt)) = ToSet(FlattenSeq(ss)) \cup {c}
<1> DEFINE e == Append(ss[i], c)
           tt == [ss EXCEPT ![i] = e]
           S == Seq(Chunk)
<1>1. i \in 1..Len(ss) /\ ss[i] \in Seq(Chunk) /\ c.bytes \in Nat
  BY DEF Chunk
<1>2. /\ e \in Seq(Chunk) /\ Len(e) = Len(ss[i]) + 1 /\ BytesOf(e) = BytesOf(ss[i]) + c.bytes
      /\ ToSet(e) = ToSet(ss[i]) \cup {c}
  BY <1>1, BytesFacts, ElementsOfAppend
<1> HIDE DEF e
<1>3. tt \in Seq(S) /\ DOMAIN tt = DOMAIN ss /\ tt[i] = e /\ \A j \in DOMAIN ss : j # i => tt[j] = ss[j]
  BY <1>2
<1>4. \A s \in S : lengthOf[s] \in Nat /\ sizeOf[s] \in Nat /\ lengthOf[s] = Len(s) /\ sizeOf[s] = BytesOf(s)
  BY BytesFacts DEF lengthOf, sizeOf
<1>5. ss \in Seq(S) /\ e \in S /\ ss[i] \in S
  BY <1>1, <1>2
<1>a. tt \in Seq(S) /\ tt[i] = e /\ SameBut(ss, tt, i)
  BY <1>1, <1>3 DEF SameBut
<1> HIDE DEF S, tt
<1>6. Weight(sizeOf, tt) + sizeOf[ss[i]] = Weight(sizeOf, ss) + sizeOf[tt[i]]
  <2>1. \A s \in S : sizeOf[s] \in Nat
    BY <1>4
  <2>2. QED
    BY <1>5, <2>1, <1>a, WeightOfUpdate
<1>7. Weight(lengthOf, tt) + lengthOf[ss[i]] = Weight(lengthOf, ss) + lengthOf[tt[i]]
  <2>1. \A s \in S : lengthOf[s] \in Nat
    BY <1>4
  <2>2. QED
    BY <1>5, <2>1, <1>a, WeightOfUpdate
<1>8. tt \in Seq(Seq(Chunk))
  BY <1>3 DEF S
<1> DEFINE a == FlattenSeq(ss)
           b == FlattenSeq(tt)
<1>9. /\ a \in Seq(Chunk) /\ b \in Seq(Chunk)
      /\ BytesOf(a) = Weight(sizeOf, ss) /\ BytesOf(b) = Weight(sizeOf, tt)
  <2>1. \A s \in Seq(Chunk) : sizeOf[s] = BytesOf(s)
    BY <1>4 DEF S
  <2>2. QED
    BY <1>8, <2>1, BytesOfFlat
<1>10. Len(a) = Weight(lengthOf, ss) /\ Len(b) = Weight(lengthOf, tt)
  BY <1>8, LengthOfFlat
<1>11. /\ \A x : x \in ToSet(a) <=> \E j \in DOMAIN ss : x \in ToSet(ss[j])
       /\ \A x : x \in ToSet(b) <=> \E j \in DOMAIN tt : x \in ToSet(tt[j])
  BY <1>8, ElementsOfFlat
<1> HIDE DEF a, b
<1>12. BytesOf(b) = BytesOf(a) + c.bytes
  <2>1. sizeOf[e] = sizeOf[ss[i]] + c.bytes /\ sizeOf[ss[i]] \in Nat
    BY <1>2, <1>4, <1>5
  <2>2. BytesOf(a) \in Nat /\ BytesOf(b) \in Nat
    BY <1>9, BytesFacts
  <2>3. QED
    <3> DEFINE p == BytesOf(b)
               q == BytesOf(a)
               y == sizeOf[ss[i]]
               k == c.bytes
    <3>1. p + y = q + (y + k)
      BY <1>6, <1>9, <1>a, <2>1
    <3>2. p \in Nat /\ q \in Nat /\ y \in Nat /\ k \in Nat
      BY <1>1, <2>1, <2>2
    <3> HIDE DEF p, q, y, k
    <3>3. p = q + k
      BY <3>1, <3>2
    <3>4. QED
      BY <3>3 DEF p, q, k
<1>13. Len(b) = Len(a) + 1
  <2>1. lengthOf[e] = lengthOf[ss[i]] + 1 /\ lengthOf[ss[i]] \in Nat
    BY <1>2, <1>4, <1>5
  <2>2. Len(a) \in Nat /\ Len(b) \in Nat
    BY <1>9
  <2>3. QED
    BY <1>7, <1>10, <1>a, <2>1, <2>2
<1>14. ToSet(b) = ToSet(a) \cup {c}
  <2>1. ASSUME NEW x \in ToSet(b)
        PROVE  x \in ToSet(a) \cup {c}
    <3>1. PICK j \in DOMAIN ss : x \in ToSet(tt[j])
      BY <1>3, <1>11
    <3>2. CASE j = i
      BY <1>2, <1>3, <1>11, <3>1, <3>2
    <3>3. CASE j # i
      BY <1>3, <1>11, <3>1, <3>3
    <3>4. QED
      BY <3>2, <3>3
  <2>2. ASSUME NEW x \in ToSet(a) \cup {c}
        PROVE  x \in ToSet(b)
    <3>1. CASE x = c
      BY <1>2, <1>3, <1>11, <3>1
    <3>2. CASE x \in ToSet(a)
      <4>1. PICK j \in DOMAIN ss : x \in ToSet(ss[j])
        BY <1>11, <3>2
      <4>2. x \in ToSet(tt[j])
        BY <1>2, <1>3, <4>1
      <4>3. QED
        BY <1>3, <1>11, <4>2
    <3>3. QED
      BY <3>1, <3>2
  <2>3. QED
    BY <2>1, <2>2
<1>15. QED
  BY <1>8, <1>12, <1>13, <1>14 DEF a, b, tt, e

\* The chunks that were placed, in even measure.
Balanced(paths, given, size) ==
    \A i, j \in DOMAIN paths :
        BytesOf(given[i]) * paths[j].weight <= (BytesOf(given[j]) + size) * paths[i].weight
Placed(given, chunks) ==
    /\ FlattenSeq(given) \in Seq(Chunk)
    /\ BytesOf(FlattenSeq(given)) = BytesOf(chunks) /\ Len(FlattenSeq(given)) = Len(chunks)
    /\ ToSet(FlattenSeq(given)) = ToSet(chunks)

\* A chunk given to the least loaded path leaves the paths in balance.
LEMMA BalanceStays ==
    ASSUME NEW paths \in Seq(Path), paths # <<>>, NEW given \in Givens(paths), NEW c \in Chunk,
           NEW size \in Nat, c.bytes <= size, Balanced(paths, given, size)
    PROVE  Balanced(paths, Place(paths, given, c), size)
<1> DEFINE i == LeastLoaded(paths, Loads(paths, given), c.bytes)
           new == Place(paths, given, c)
           b == [j \in DOMAIN paths |-> BytesOf(given[j])]
           w == [j \in DOMAIN paths |-> paths[j].weight]
           k == c.bytes
<1>1. /\ i \in DOMAIN paths /\ new = [given EXCEPT ![i] = Append(given[i], c)]
      /\ \A j \in DOMAIN paths : (b[i] + k) * w[j] <= (b[j] + k) * w[i]
  BY PlaceFacts
<1>2. ASSUME NEW j \in DOMAIN paths
      PROVE  b[j] \in Nat /\ w[j] \in Nat /\ given[j] \in Seq(Chunk) /\ j \in DOMAIN given
  <2>1. given[j] \in Seq(Chunk) /\ paths[j] \in Path /\ j \in DOMAIN given
    BY DEF Givens
  <2>2. BytesOf(given[j]) \in Nat
    BY <2>1, BytesFacts
  <2>3. QED
    BY <2>1, <2>2 DEF Path
<1>3. k \in Nat /\ k <= size
  BY DEF Chunk
<1>4. BytesOf(Append(given[i], c)) = b[i] + k
  BY <1>1, <1>2, BytesFacts
<1>5. \A j \in DOMAIN paths : BytesOf(new[j]) = IF j = i THEN b[j] + k ELSE b[j]
  BY <1>1, <1>2, <1>4
<1>6. \A j, l \in DOMAIN paths : b[j] * w[l] <= (b[l] + size) * w[j]
  BY DEF Balanced
<1>a. \A j \in DOMAIN paths : w[j] = paths[j].weight
  OBVIOUS
<1> HIDE DEF i, new, b, w, k
<1>7. ASSUME NEW j \in DOMAIN paths, NEW l \in DOMAIN paths
      PROVE  BytesOf(new[j]) * w[l] <= (BytesOf(new[l]) + size) * w[j]
  <2>1. b[j] \in Nat /\ b[l] \in Nat /\ w[j] \in Nat /\ w[l] \in Nat
    BY <1>2
  <2>2. b[j] * w[l] <= (b[l] + size) * w[j]
    BY <1>6
  <2>3. CASE j = i /\ l = i
    <3>1. BytesOf(new[j]) = b[j] + k /\ BytesOf(new[l]) = b[j] + k /\ w[l] = w[j]
      BY <1>5, <2>3
    <3> DEFINE u == b[j] + k
               v == u + size
    <3>2. u \in Nat /\ v \in Nat /\ u <= v
      BY <1>3, <2>1
    <3> HIDE DEF u, v
    <3>3. u * w[j] <= v * w[j]
      BY <2>1, <3>2, TimesGrows
    <3>4. QED
      BY <3>1, <3>3 DEF u, v
  <2>4. CASE j = i /\ l # i
    <3>1. (b[j] + k) * w[l] <= (b[l] + k) * w[j]
      BY <1>1, <2>4
    <3> DEFINE u == b[l] + k
               v == b[l] + size
    <3>2. u \in Nat /\ v \in Nat /\ u <= v
      BY <1>3, <2>1
    <3> HIDE DEF u, v
    <3>3. u * w[j] <= v * w[j]
      BY <2>1, <3>2, TimesGrows
    <3>4. (b[j] + k) * w[l] \in Nat /\ u * w[j] \in Nat /\ v * w[j] \in Nat
      <4>1. b[j] + k \in Nat
        BY <1>3, <2>1
      <4> DEFINE x == b[j] + k
                 y == w[l]
      <4>2. x \in Nat /\ y \in Nat
        BY <2>1, <4>1
      <4> HIDE DEF x, y
      <4>3. x * y \in Nat
        BY <4>2
      <4>4. u * w[j] \in Nat /\ v * w[j] \in Nat
        BY <2>1, <3>2, TimesGrows
      <4>5. QED
        BY <4>3, <4>4 DEF x, y
    <3>5. (b[j] + k) * w[l] <= v * w[j]
      BY <3>1, <3>3, <3>4 DEF u
    <3>6. QED
      BY <1>5, <2>4, <3>5 DEF v
  <2>5. CASE j # i /\ l = i
    <3> DEFINE u == b[l] + size
               v == (b[l] + k) + size
    <3>1. u \in Nat /\ v \in Nat /\ u <= v
      BY <1>3, <2>1
    <3> HIDE DEF u, v
    <3>2. u * w[j] <= v * w[j]
      BY <2>1, <3>1, TimesGrows
    <3>3. b[j] * w[l] \in Nat /\ u * w[j] \in Nat /\ v * w[j] \in Nat
      BY <2>1, <3>1, TimesGrows
    <3>4. b[j] * w[l] <= v * w[j]
      BY <2>2, <3>2, <3>3 DEF u
    <3>5. QED
      BY <1>5, <2>5, <3>4 DEF v
  <2>6. CASE j # i /\ l # i
    BY <1>5, <2>2, <2>6
  <2>7. QED
    BY <2>3, <2>4, <2>5, <2>6
<1>8. QED
  BY <1>7, <1>a DEF Balanced, new

\* What the paths have been given is a sequence of sequences of chunks.
LEMMA GivensAreSequences ==
    ASSUME NEW paths \in Seq(Path), NEW given \in Givens(paths)
    PROVE  given \in Seq(Seq(Chunk)) /\ DOMAIN given = DOMAIN paths /\ Len(given) = Len(paths)
<1> DEFINE n == Len(paths)
<1>1. DOMAIN paths = 1..n /\ n \in Nat
  OBVIOUS
<1> HIDE DEF n
<1>2. given \in [1..n -> Seq(Chunk)]
  BY <1>1 DEF Givens
<1>3. given \in Seq(Seq(Chunk)) /\ DOMAIN given = 1..n /\ Len(given) = n
  BY <1>1, <1>2
<1>4. QED
  BY <1>1, <1>3 DEF n

\* Before a chunk is placed the paths are in balance.
LEMMA NothingPlaced ==
    ASSUME NEW paths \in Seq(Path), NEW size \in Nat
    PROVE  LET g == [j \in DOMAIN paths |-> <<>>]
           IN g \in Givens(paths) /\ Balanced(paths, g, size) /\ Placed(g, <<>>)
<1> DEFINE g == [j \in DOMAIN paths |-> <<>>]
<1>1. g \in Givens(paths) /\ \A j \in DOMAIN paths : g[j] = <<>>
  BY DEF Givens
<1> HIDE DEF g
<1>2. g \in Seq(Seq(Chunk)) /\ DOMAIN g = DOMAIN paths
  BY <1>1, GivensAreSequences
<1> DEFINE s == FlattenSeq(g)
<1>3. s \in Seq(Chunk) /\ \A e : e \in ToSet(s) <=> \E i \in DOMAIN g : e \in ToSet(g[i])
  BY <1>2, ElementsOfFlat
<1> HIDE DEF s
<1>4. ToSet(<<>>) = {}
  BY DEF ToSet
<1>5. ToSet(s) = {}
  BY <1>1, <1>2, <1>3, <1>4
<1>6. s = <<>>
  <2>1. \A i \in 1..Len(s) : s[i] \in ToSet(s)
    BY <1>3 DEF ToSet
  <2>2. Len(s) = 0
    BY <1>3, <1>5, <2>1
  <2>3. QED
    BY <1>3, <2>2
<1>7. Placed(g, <<>>)
  BY <1>3, <1>6 DEF Placed, s
<1>8. Balanced(paths, g, size)
  <2>1. ASSUME NEW i \in DOMAIN paths, NEW j \in DOMAIN paths
        PROVE  BytesOf(g[i]) * paths[j].weight <= (BytesOf(g[j]) + size) * paths[i].weight
    <3>1. BytesOf(g[i]) = 0 /\ BytesOf(g[j]) = 0
      BY <1>1, BytesFacts
    <3>2. paths[i] \in Path /\ paths[j] \in Path
      OBVIOUS
    <3> DEFINE u == paths[i].weight
               v == paths[j].weight
    <3>3. u \in Nat /\ v \in Nat
      BY <3>2 DEF Path
    <3> HIDE DEF u, v
    <3>4. 0 * v <= (0 + size) * u
      BY <3>3
    <3>5. QED
      BY <3>1, <3>4 DEF u, v
  <2>2. QED
    BY <2>1 DEF Balanced
<1>9. QED
  BY <1>1, <1>7, <1>8 DEF g

\* The step of the induction over the chunks: one chunk more is placed, and balance stays.
LEMMA OneMorePlaced ==
    ASSUME NEW paths \in Seq(Path), paths # <<>>, NEW size \in Nat, NEW given \in Givens(paths),
           NEW chunks \in Seq(Chunk), NEW c \in Chunk, c.bytes <= size,
           Balanced(paths, given, size), Placed(given, chunks)
    PROVE  LET g == Place(paths, given, c)
           IN g \in Givens(paths) /\ Balanced(paths, g, size) /\ Placed(g, Append(chunks, c))
<1> DEFINE i == LeastLoaded(paths, Loads(paths, given), c.bytes)
           g == Place(paths, given, c)
<1>1. i \in DOMAIN paths /\ g = [given EXCEPT ![i] = Append(given[i], c)] /\ g \in Givens(paths)
  BY PlaceFacts
<1>2. Balanced(paths, g, size)
  BY BalanceStays
<1>3. given \in Seq(Seq(Chunk)) /\ DOMAIN given = DOMAIN paths
  BY GivensAreSequences
<1> HIDE DEF i, g
<1>4. /\ g \in Seq(Seq(Chunk))
      /\ BytesOf(FlattenSeq(g)) = BytesOf(FlattenSeq(given)) + c.bytes
      /\ Len(FlattenSeq(g)) = Len(FlattenSeq(given)) + 1
      /\ ToSet(FlattenSeq(g)) = ToSet(FlattenSeq(given)) \cup {c}
  BY <1>1, <1>3, FlatWithOneMore
<1>5. FlattenSeq(g) \in Seq(Chunk)
  BY <1>4, ElementsOfFlat
<1>6. /\ BytesOf(Append(chunks, c)) = BytesOf(chunks) + c.bytes /\ Len(Append(chunks, c)) = Len(chunks) + 1
      /\ ToSet(Append(chunks, c)) = ToSet(chunks) \cup {c}
  BY BytesFacts, ElementsOfAppend
<1>7. Placed(g, Append(chunks, c))
  BY <1>4, <1>5, <1>6 DEF Placed
<1>8. QED
  BY <1>1, <1>2, <1>7 DEF g

\* What Spread gives to the paths: every chunk to one of them, evenly.
LEMMA GivenFacts ==
    ASSUME NEW chunks \in Seq(Chunk), NEW paths \in Seq(Path), paths # <<>>, NEW size \in Nat,
           \A c \in ToSet(chunks) : c.bytes <= size
    PROVE  \E g \in Givens(paths) : /\ Spread(chunks, paths) = Assignments(paths, g)
                                    /\ Balanced(paths, g, size) /\ Placed(g, chunks)
<1> DEFINE f == CHOOSE h : Giving(chunks, paths, h)
           n == Len(chunks)
           Good(k) == /\ f[k] \in Givens(paths) /\ Balanced(paths, f[k], size)
                      /\ Placed(f[k], FirstOf(chunks, k))
           P == {k \in 0..n : Good(k)}
<1>1. Spread(chunks, paths) = Assignments(paths, f[n])
  BY SpreadExpanded
<1>2. Giving(chunks, paths, f)
  BY GivingExists
<1> HIDE DEF f
<1>3. n \in Nat
  OBVIOUS
<1>4. /\ f[0] = [j \in DOMAIN paths |-> <<>>]
      /\ \A k \in 0..(n - 1) : f[k + 1] = Place(paths, f[k], chunks[k + 1])
  <2>1. f = [k \in 0..n |-> IF k = 0 THEN [j \in DOMAIN paths |-> <<>>]
                             ELSE Place(paths, f[k - 1], chunks[k])]
    BY <1>2 DEF Giving
  <2> HIDE DEF n
  <2>2. 0 \in 0..n
    BY <1>3
  <2>3. f[0] = [j \in DOMAIN paths |-> <<>>]
    BY <2>1, <2>2
  <2>4. ASSUME NEW k \in 0..(n - 1)
        PROVE  f[k + 1] = Place(paths, f[k], chunks[k + 1])
    <3>1. k + 1 \in 0..n /\ k + 1 # 0 /\ (k + 1) - 1 = k
      BY <1>3
    <3>2. f[k + 1] = Place(paths, f[(k + 1) - 1], chunks[k + 1])
      BY <2>1, <3>1
    <3>3. QED
      BY <3>1, <3>2
  <2>5. QED
    BY <2>3, <2>4
<1>5. 0 \in P
  <2>1. FirstOf(chunks, 0) = <<>>
    BY PrefixFacts
  <2>2. Good(0)
    BY <1>4, <2>1, NothingPlaced
  <2>3. QED
    BY <1>3, <2>2
<1>6. ASSUME NEW k \in 0..(n - 1), k \in P
      PROVE  k + 1 \in P
  <2>1. k + 1 \in 0..n /\ k \in 0..n /\ k + 1 \in 1..n
    BY <1>3
  <2> DEFINE s == FirstOf(chunks, k)
             c == chunks[k + 1]
  <2>2. s \in Seq(Chunk) /\ FirstOf(chunks, k + 1) = Append(s, c) /\ c \in Chunk
    BY <2>1, PrefixFacts
  <2>3. c.bytes <= size
    <3>1. c \in ToSet(chunks)
      BY <2>1 DEF ToSet
    <3>2. QED
      BY <3>1
  <2>4. Good(k)
    BY <1>6
  <2>5. f[k + 1] = Place(paths, f[k], c)
    BY <1>4
  <2> HIDE DEF s, c
  <2>6. f[k] \in Givens(paths) /\ Balanced(paths, f[k], size) /\ Placed(f[k], s)
    BY <2>4 DEF s
  <2> DEFINE g == f[k]
  <2>7. g \in Givens(paths) /\ Balanced(paths, g, size) /\ Placed(g, s)
    BY <2>6
  <2> HIDE DEF g
  <2>8. LET e == Place(paths, g, c)
        IN e \in Givens(paths) /\ Balanced(paths, e, size) /\ Placed(e, Append(s, c))
    BY <2>2, <2>3, <2>7, OneMorePlaced
  <2>9. Good(k + 1)
    BY <2>2, <2>5, <2>8 DEF g
  <2>10. QED
    BY <2>1, <2>9
<1>7. 0..n \subseteq P
  <2> HIDE DEF P
  <2>1. QED
    BY <1>3, <1>5, <1>6, InductionUpTo
<1>8. Good(n) /\ FirstOf(chunks, n) = chunks
  BY <1>3, <1>7, PrefixFacts
<1>9. QED
  BY <1>1, <1>8

-----------------------------------------------------------------------------
\* Plans.

\* A path of a plan, with its chunks.
Assignment == [relay: Relays \cup {Direct}, weight: Nat, chunks: Seq(Chunk)]
\* The chunks of an assignment, if its relay is asked for.
chunksIn(relays) == [a \in Assignment |-> IF a.relay \in relays THEN a.chunks ELSE <<>>]

\* The chunks on some relays are the flattened chunks of their assignments (ChunksOn).
LEMMA ChunksAreFlat ==
    ASSUME NEW plan \in Seq(Assignment), NEW relays
    PROVE  /\ \A a \in Assignment : chunksIn(relays)[a] \in Seq(Chunk)
           /\ Image(chunksIn(relays), plan) \in Seq(Seq(Chunk))
           /\ ChunksOn(plan, relays) = FlattenSeq(Image(chunksIn(relays), plan))
           /\ ChunksOn(plan, relays) \in Seq(Chunk)
<1>1. \A a \in Assignment : chunksIn(relays)[a] \in Seq(Chunk)
  BY DEF chunksIn, Assignment
<1> DEFINE h == chunksIn(relays)
           T == Seq(Chunk)
<1>2. \A i \in DOMAIN plan : h[plan[i]] = IF plan[i].relay \in relays THEN plan[i].chunks ELSE <<>>
  BY DEF chunksIn
<1> HIDE DEF h
<1>3. Image(h, plan) = [i \in DOMAIN plan |-> IF plan[i].relay \in relays THEN plan[i].chunks ELSE <<>>]
  BY <1>2 DEF Image
<1>4. ChunksOn(plan, relays) = FlattenSeq(Image(h, plan))
  BY <1>3 DEF ChunksOn
<1>5. Image(h, plan) \in Seq(T)
  <2>1. \A a \in Assignment : h[a] \in T
    BY <1>1 DEF h
  <2> HIDE DEF T
  <2>2. QED
    BY <2>1, ImageType
<1>6. FlattenSeq(Image(h, plan)) \in Seq(Chunk)
  BY <1>5, ElementsOfFlat
<1>7. QED
  BY <1>1, <1>4, <1>5, <1>6 DEF h

\* Assignments that are left out take no chunks with them.
LEMMA ChunksOfPart ==
    ASSUME NEW plan \in Seq(Assignment), NEW relays, NEW keep,
           \A i \in DOMAIN plan \ keep : plan[i].relay \in relays => plan[i].chunks = <<>>
    PROVE  /\ Filter(plan, keep) \in Seq(Assignment)
           /\ ChunksOn(Filter(plan, keep), relays) = ChunksOn(plan, relays)
<1> DEFINE h == chunksIn(relays)
           S == Assignment
           T == Chunk
<1>1. \A i \in DOMAIN plan \ keep : h[plan[i]] = <<>>
  BY DEF chunksIn
<1>2. Filter(plan, keep) \in Seq(Assignment)
  BY FilterFacts
<1>3. \A x \in S : h[x] \in Seq(T)
  BY ChunksAreFlat
<1>4. plan \in Seq(S)
  OBVIOUS
<1> HIDE DEF h, S, T
<1>5. FlattenSeq(Image(h, Filter(plan, keep))) = FlattenSeq(Image(h, plan))
  BY <1>1, <1>3, <1>4, FlattenFilter
<1>6. QED
  BY <1>2, <1>5, ChunksAreFlat DEF h

\* A plan for some chunks: it has all of them and none twice, each path has some, and no path
\* has more than its share by more than a chunk.
PlanFor(plan, chunks, size) ==
    /\ plan \in Seq(Assignment)
    /\ \A a \in ToSet(plan) : a.chunks # <<>>
    /\ \A a, b \in ToSet(plan) :
          BytesOf(a.chunks) * b.weight <= (BytesOf(b.chunks) + size) * a.weight
    /\ BytesOf(ChunksOn(plan, Relays \cup {Direct})) = BytesOf(chunks)
    /\ Len(ChunksOn(plan, Relays \cup {Direct})) = Len(chunks)
    /\ ToSet(ChunksOn(plan, Relays \cup {Direct})) = ToSet(chunks)

\* What Filter keeps was there.
LEMMA FilterElements ==
    ASSUME NEW S, NEW s \in Seq(S), NEW keep
    PROVE  \A i \in DOMAIN Filter(s, keep) : \E j \in DOMAIN s \cap keep : s[j] = Filter(s, keep)[i]
<1>1. /\ Filter(s, keep) \in Seq(S)
      /\ \A e : (\E i \in DOMAIN Filter(s, keep) : Filter(s, keep)[i] = e) <=>
                   \E j \in DOMAIN s \cap keep : s[j] = e
      /\ Len(Filter(s, keep)) = Cardinality(keep \cap DOMAIN s)
      /\ Distinct(s) => Distinct(Filter(s, keep))
  BY FilterFacts
<1>2. \A e : (\E i \in DOMAIN Filter(s, keep) : Filter(s, keep)[i] = e) <=>
               \E j \in DOMAIN s \cap keep : s[j] = e
  BY <1>1
<1> DEFINE t == Filter(s, keep)
<1> HIDE DEF t
<1>3. ASSUME NEW i \in DOMAIN t
      PROVE  \E j \in DOMAIN s \cap keep : s[j] = t[i]
  <2>1. \E k \in DOMAIN t : t[k] = t[i]
    OBVIOUS
  <2>2. QED
    BY <1>2, <2>1 DEF t
<1>4. QED
  BY <1>3 DEF t

\* The paths that were given chunks make up a plan for these chunks.
LEMMA AssignmentsFacts ==
    ASSUME NEW paths \in Seq(Path), NEW size \in Nat, NEW chunks, NEW g \in Givens(paths),
           Balanced(paths, g, size), Placed(g, chunks)
    PROVE  /\ PlanFor(Assignments(paths, g), chunks, size)
           /\ \A a \in ToSet(Assignments(paths, g)) : \E j \in DOMAIN paths : a.relay = paths[j].relay
<1> DEFINE A(j) == [relay |-> paths[j].relay, weight |-> paths[j].weight, chunks |-> g[j]]
           all == [j \in DOMAIN paths |-> A(j)]
           keep == {j \in DOMAIN paths : g[j] # <<>>}
           plan == Filter(all, keep)
           R == Relays \cup {Direct}
<1>1. Assignments(paths, g) = plan
  BY DEF Assignments
<1>2. g \in Seq(Seq(Chunk)) /\ DOMAIN g = DOMAIN paths
  BY GivensAreSequences
<1>3. DOMAIN paths = 1..Len(paths) /\ Len(paths) \in Nat
  OBVIOUS
<1>4. ASSUME NEW j \in DOMAIN paths
      PROVE  A(j) \in Assignment
  <2>1. paths[j] \in Path /\ g[j] \in Seq(Chunk)
    BY <1>2
  <2>2. QED
    BY <2>1 DEF Path, Assignment
<1>5. \A j \in DOMAIN paths : all[j].relay = paths[j].relay /\ all[j].weight = paths[j].weight
                              /\ all[j].chunks = g[j] /\ all[j] = A(j)
  OBVIOUS
<1>6. all \in Seq(Assignment) /\ DOMAIN all = DOMAIN paths
  <2> HIDE DEF A
  <2>1. QED
    BY <1>3, <1>4
<1> HIDE DEF all, A
<1>7. plan \in Seq(Assignment) /\ ChunksOn(plan, R) = ChunksOn(all, R)
  <2>1. \A j \in DOMAIN all \ keep : all[j].chunks = <<>>
    BY <1>5, <1>6
  <2> HIDE DEF keep, R
  <2>2. QED
    BY <1>6, <2>1, ChunksOfPart
<1>8. ChunksOn(all, R) = FlattenSeq(g)
  <2>1. ChunksOn(all, R) = FlattenSeq([j \in DOMAIN all |-> IF all[j].relay \in R THEN all[j].chunks ELSE <<>>])
    BY DEF ChunksOn
  <2>2. \A j \in DOMAIN all : (IF all[j].relay \in R THEN all[j].chunks ELSE <<>>) = g[j]
    <3> SUFFICES ASSUME NEW j \in DOMAIN all
                 PROVE  (IF all[j].relay \in R THEN all[j].chunks ELSE <<>>) = g[j]
      OBVIOUS
    <3>1. all[j] \in Assignment /\ all[j].chunks = g[j]
      BY <1>5, <1>6
    <3>2. all[j].relay \in R
      BY <3>1 DEF Assignment
    <3>3. QED
      BY <3>1, <3>2
  <2>3. [j \in DOMAIN all |-> IF all[j].relay \in R THEN all[j].chunks ELSE <<>>] = g
    BY <1>2, <1>6, <2>2
  <2>4. QED
    BY <2>1, <2>3
<1>9. ASSUME NEW a \in ToSet(plan)
      PROVE  \E j \in keep : a = all[j]
  <2>1. PICK i \in DOMAIN plan : a = plan[i]
    BY DEF ToSet
  <2> DEFINE s == all
  <2>a. s \in Seq(Assignment)
    BY <1>6
  <2>b. plan = Filter(s, keep)
    OBVIOUS
  <2>c. \A j \in DOMAIN s \cap keep : j \in keep /\ s[j] = all[j]
    OBVIOUS
  <2> HIDE DEF s, keep, plan
  <2>2. \A k \in DOMAIN Filter(s, keep) : \E j \in DOMAIN s \cap keep : s[j] = Filter(s, keep)[k]
    BY <2>a, FilterElements
  <2>4. \E j \in DOMAIN s \cap keep : s[j] = a
    BY <2>1, <2>2, <2>b
  <2>5. QED
    BY <2>4, <2>c
<1> HIDE DEF plan, R
<1>10. \A a \in ToSet(plan) : a.chunks # <<>>
  BY <1>5, <1>9
<1>11. ASSUME NEW a \in ToSet(plan), NEW b \in ToSet(plan)
       PROVE  BytesOf(a.chunks) * b.weight <= (BytesOf(b.chunks) + size) * a.weight
  <2>1. PICK i \in DOMAIN paths : a = all[i]
    BY <1>9
  <2>2. PICK j \in DOMAIN paths : b = all[j]
    BY <1>9
  <2>3. BytesOf(g[i]) * paths[j].weight <= (BytesOf(g[j]) + size) * paths[i].weight
    BY DEF Balanced
  <2>4. QED
    BY <1>5, <2>1, <2>2, <2>3
<1>12. \A a \in ToSet(plan) : \E j \in DOMAIN paths : a.relay = paths[j].relay
  BY <1>5, <1>9
<1>13. /\ BytesOf(ChunksOn(plan, R)) = BytesOf(chunks) /\ Len(ChunksOn(plan, R)) = Len(chunks)
       /\ ToSet(ChunksOn(plan, R)) = ToSet(chunks)
  BY <1>7, <1>8 DEF Placed
<1>14. PlanFor(plan, chunks, size)
  BY <1>7, <1>10, <1>11, <1>13 DEF PlanFor, R
<1>15. QED
  BY <1>1, <1>12, <1>14

\* Spread makes a plan of all the chunks, on the paths it was given.
LEMMA SpreadFacts ==
    ASSUME NEW chunks \in Seq(Chunk), NEW paths \in Seq(Path), paths # <<>>, NEW size \in Nat,
           \A c \in ToSet(chunks) : c.bytes <= size
    PROVE  /\ PlanFor(Spread(chunks, paths), chunks, size)
           /\ \A a \in ToSet(Spread(chunks, paths)) : \E j \in DOMAIN paths : a.relay = paths[j].relay
<1>1. PICK g \in Givens(paths) : /\ Spread(chunks, paths) = Assignments(paths, g)
                                 /\ Balanced(paths, g, size) /\ Placed(g, chunks)
  BY GivenFacts
<1>2. QED
  BY <1>1, AssignmentsFacts

\* The plan of a request.
GoodPlan(plan, req) == PlanFor(plan, Chunks(req), req.chunk)
\* A decision: the plan of the request, with the leases that it needs.
GoodDecision(d, req, q) ==
    /\ GoodPlan(d.plan, req)
    /\ d.leases = {} \/ d.leases = LeasesFor(d.plan, q)
    /\ d.leases = {} => RelaysOf(d.plan) = {}
    /\ \A l \in d.leases : l.chunks # 0

\* Whatever the view and the quotas are, the planner decides on a plan for the request, and
\* its leases are those of the plan or none (planner_engine.py, server.py).
LEMMA DecisionFacts ==
    ASSUME NEW view, GoodView(view), NEW req \in Request, NEW q
    PROVE  GoodDecision(Decision(view, req, q), req, q)
<1> DEFINE plan == Spread(Chunks(req), Paths(view, req, q))
           direct == DirectPlan(view, req, q)
           leases == LeasesFor(plan, q)
           d == Decision(view, req, q)
<1>1. /\ Chunks(req) \in Seq(Chunk) /\ req.chunk \in Nat
      /\ \A c \in ToSet(Chunks(req)) : c.bytes <= req.chunk
  BY ChunksFacts DEF Request
<1>2. GoodPlan(plan, req)
  BY <1>1, PathsType, SpreadFacts DEF GoodPlan
<1>3. GoodPlan(direct, req) /\ \A a \in ToSet(direct) : a.relay = Direct
  <2> DEFINE p == DirectPath(view, req, q)
  <2>1. p \in Seq(Path) /\ p # <<>> /\ Len(p) = 1 /\ p[1].relay = Direct
    BY DirectPathType
  <2> HIDE DEF p
  <2>2. \A j \in DOMAIN p : p[j].relay = Direct
    BY <2>1
  <2>3. direct = Spread(Chunks(req), p)
    BY DEF DirectPlan, p
  <2>4. QED
    BY <1>1, <2>1, <2>2, <2>3, SpreadFacts DEF GoodPlan
<1>4. RelaysOf(direct) = {}
  BY <1>3 DEF RelaysOf, ToSet
<1>5. d = IF \/ \E l \in leases : l.chunks = 0
             \/ leases # {} /\ PrefersDirect(view, req)
          THEN [plan |-> direct, leases |-> {}]
          ELSE [plan |-> plan, leases |-> leases]
  BY DEF Decision, WithLeases, PlanOrDirect
<1>6. leases = {} => RelaysOf(plan) = {}
  BY DEF LeasesFor
<1> HIDE DEF plan, direct, leases, d
<1>7. CASE \/ \E l \in leases : l.chunks = 0
           \/ leases # {} /\ PrefersDirect(view, req)
  <2>1. d.plan = direct /\ d.leases = {}
    BY <1>5, <1>7
  <2>2. QED
    BY <1>3, <1>4, <2>1 DEF GoodDecision, d
<1>8. CASE ~(\/ \E l \in leases : l.chunks = 0
             \/ leases # {} /\ PrefersDirect(view, req))
  <2>1. d.plan = plan /\ d.leases = leases
    BY <1>5, <1>8
  <2>2. QED
    BY <1>2, <1>6, <1>8, <2>1 DEF GoodDecision, d, leases
<1>9. QED
  BY <1>7, <1>8

\* All paths, and what the blocks and leases on them are.
All == Relays \cup {Direct}

\* One assignment more adds its chunks, if its relay is asked for.
LEMMA ChunksOnAppend ==
    ASSUME NEW plan \in Seq(Assignment), NEW a \in Assignment, NEW relays
    PROVE  ChunksOn(Append(plan, a), relays)
               = ChunksOn(plan, relays) \o (IF a.relay \in relays THEN a.chunks ELSE <<>>)
<1> DEFINE h == chunksIn(relays)
<1>1. h[a] = IF a.relay \in relays THEN a.chunks ELSE <<>>
  BY DEF chunksIn
<1>2. Append(plan, a) \in Seq(Assignment)
  OBVIOUS
<1>3. /\ \A x \in Assignment : h[x] \in Seq(Chunk)
      /\ Image(h, plan) \in Seq(Seq(Chunk))
      /\ ChunksOn(plan, relays) = FlattenSeq(Image(h, plan))
      /\ ChunksOn(Append(plan, a), relays) = FlattenSeq(Image(h, Append(plan, a)))
  BY <1>2, ChunksAreFlat
<1> HIDE DEF h
<1>4. Image(h, Append(plan, a)) = Append(Image(h, plan), h[a])
  BY ImageOfAppend
<1>5. h[a] \in Seq(Chunk)
  BY <1>3
<1>6. FlattenSeq(Append(Image(h, plan), h[a])) = FlattenSeq(Image(h, plan)) \o h[a]
  BY <1>3, <1>5, FlattenAppend
<1>7. QED
  BY <1>1, <1>3, <1>4, <1>6

\* A plan whose relays copy all of its bytes has nothing on the direct path.
LEMMA RelaysCopyAll ==
    ASSUME NEW plan \in Seq(Assignment), \A i \in DOMAIN plan : plan[i].chunks # <<>>,
           BytesOf(ChunksOn(plan, Relays)) = BytesOf(ChunksOn(plan, All))
    PROVE  ChunksOn(plan, Relays) = ChunksOn(plan, All)
<1> DEFINE Part(p) == BytesOf(ChunksOn(p, Relays))
           Whole(p) == BytesOf(ChunksOn(p, All))
           Full(p) == \A i \in DOMAIN p : p[i].chunks # <<>>
           OnRelays(p) == \A i \in DOMAIN p : p[i].relay \in Relays
           Good(p) == /\ Part(p) \in Nat /\ Whole(p) \in Nat /\ Part(p) <= Whole(p)
                      /\ (Full(p) /\ Part(p) = Whole(p)) => OnRelays(p)
           P == {p \in Seq(Assignment) : Good(p)}
<1>1. <<>> \in P
  <2>1. ChunksOn(<<>>, Relays) = <<>> /\ ChunksOn(<<>>, All) = <<>>
    <3>1. \A R : ChunksOn(<<>>, R) = <<>>
      <4>1. \A R : [i \in DOMAIN <<>> |-> IF <<>>[i].relay \in R THEN <<>>[i].chunks ELSE <<>>] = <<>>
        OBVIOUS
      <4>2. QED
        BY <4>1, FlattenNone DEF ChunksOn
    <3>2. QED
      BY <3>1
  <2>2. Good(<<>>)
    BY <2>1, BytesFacts
  <2>3. QED
    BY <2>2
<1>2. ASSUME NEW p \in Seq(Assignment), p \in P, NEW a \in Assignment
      PROVE  Append(p, a) \in P
  <2> DEFINE q == Append(p, a)
             u == IF a.relay \in Relays THEN a.chunks ELSE <<>>
             v == IF a.relay \in All THEN a.chunks ELSE <<>>
  <2>1. /\ ChunksOn(q, Relays) = ChunksOn(p, Relays) \o u /\ ChunksOn(q, All) = ChunksOn(p, All) \o v
        /\ ChunksOn(p, Relays) \in Seq(Chunk) /\ ChunksOn(p, All) \in Seq(Chunk)
    <3>1. ChunksOn(p, Relays) \in Seq(Chunk) /\ ChunksOn(p, All) \in Seq(Chunk)
      BY ChunksAreFlat
    <3>2. ChunksOn(q, Relays) = ChunksOn(p, Relays) \o u
      BY ChunksOnAppend
    <3>3. ChunksOn(q, All) = ChunksOn(p, All) \o v
      BY ChunksOnAppend
    <3>4. QED
      BY <3>1, <3>2, <3>3
  <2>2. a.chunks \in Seq(Chunk) /\ a.relay \in All
    BY DEF Assignment, All
  <2>3. u \in Seq(Chunk) /\ v = a.chunks
    BY <2>2
  <2>4. q \in Seq(Assignment) /\ DOMAIN q = DOMAIN p \cup {Len(p) + 1} /\ q[Len(p) + 1] = a
        /\ \A i \in DOMAIN p : q[i] = p[i]
    OBVIOUS
  <2> HIDE DEF q, u, v
  <2>5. Part(q) = Part(p) + BytesOf(u) /\ Whole(q) = Whole(p) + BytesOf(v)
    BY <2>1, <2>2, <2>3, BytesFacts
  <2>6. BytesOf(u) \in Nat /\ BytesOf(v) \in Nat /\ (a.chunks # <<>> => BytesOf(v) > 0)
    BY <2>2, <2>3, BytesFacts
  <2>7. (a.relay \in Relays => u = v) /\ (a.relay \notin Relays => BytesOf(u) = 0)
    BY <2>2, BytesFacts DEF u, v
  <2>8. Part(p) \in Nat /\ Whole(p) \in Nat /\ Part(p) <= Whole(p)
        /\ ((Full(p) /\ Part(p) = Whole(p)) => OnRelays(p))
    BY <1>2
  <2> DEFINE x == Part(p)
             y == Whole(p)
             k == BytesOf(u)
             l == BytesOf(v)
  <2>9. x \in Nat /\ y \in Nat /\ x <= y /\ k \in Nat /\ l \in Nat /\ (a.relay \in Relays => k = l)
        /\ (a.relay \notin Relays => k = 0) /\ Part(q) = x + k /\ Whole(q) = y + l
    BY <2>5, <2>6, <2>7, <2>8
  <2>10. ASSUME Full(q), Part(q) = Whole(q)
         PROVE  OnRelays(q)
    <3>1. a.chunks # <<>> /\ Full(p)
      BY <2>4, <2>10
    <3>2. l > 0
      BY <2>6, <3>1
    <3>3. x + k = y + l
      BY <2>9, <2>10
    <3>4. a.relay \in Relays /\ x = y
      <4> HIDE DEF x, y, k, l
      <4>1. QED
        BY <2>9, <3>2, <3>3
    <3>5. OnRelays(p)
      BY <2>8, <3>1, <3>4
    <3>6. QED
      BY <2>4, <3>4, <3>5
  <2>11. Part(q) \in Nat /\ Whole(q) \in Nat /\ Part(q) <= Whole(q)
    <3> HIDE DEF x, y, k, l, Part, Whole
    <3>1. QED
      BY <2>9
  <2>12. Good(q)
    BY <2>10, <2>11
  <2>13. QED
    BY <2>4, <2>12 DEF q
<1>3. Seq(Assignment) \subseteq P
  <2> HIDE DEF P
  <2>1. QED
    BY <1>1, <1>2, SequencesAll
<1>4. OnRelays(plan)
  BY <1>3
<1>5. [i \in DOMAIN plan |-> IF plan[i].relay \in Relays THEN plan[i].chunks ELSE <<>>]
          = [i \in DOMAIN plan |-> IF plan[i].relay \in All THEN plan[i].chunks ELSE <<>>]
  BY <1>4 DEF All
<1>6. QED
  BY <1>5 DEF ChunksOn

-----------------------------------------------------------------------------
\* The plan at the worker.

\* The exact plan of a worker has the same chunks on the relays (cuda_executor.py).
LEMMA ExactChunks ==
    ASSUME NEW plan \in Seq(Assignment)
    PROVE  /\ ExactPlan(plan) \in Seq(Assignment)
           /\ ChunksOn(ExactPlan(plan), Relays) = ChunksOn(plan, Relays)
<1> DEFINE keep == {i \in DOMAIN plan : plan[i].relay # Direct}
<1>1. \A i \in DOMAIN plan \ keep : plan[i].relay \in Relays => plan[i].chunks = <<>>
  BY PlannerAssumption
<1>2. ExactPlan(plan) = Filter(plan, keep)
  BY DEF ExactPlan
<1> HIDE DEF keep
<1>3. QED
  BY <1>1, <1>2, ChunksOfPart

\* The plan of a ticket whose leases are for its relays passes the checks.
LEMMA PlanIsAccepted ==
    ASSUME NEW plan \in Seq(Assignment), NEW leases, leases # {},
           {l.relay : l \in leases} = RelaysOf(plan)
    PROVE  /\ LeasesMatch(plan, leases)
           /\ PlanAccepted(plan, RelaysOf(plan), RelayRanges(plan, RelaysOf(plan)))
<1> DEFINE keep == {i \in DOMAIN plan : plan[i].relay # Direct}
           exact == ExactPlan(plan)
           relays == RelaysOf(plan)
<1>1. exact = Filter(plan, keep)
  BY DEF ExactPlan
<1>2. ASSUME NEW i \in DOMAIN exact
      PROVE  exact[i].relay \in relays
  <2> HIDE DEF keep
  <2>1. PICK j \in DOMAIN plan \cap keep : plan[j] = exact[i]
    BY <1>1, FilterElements
  <2>2. plan[j].relay # Direct
    BY <2>1 DEF keep
  <2>3. QED
    BY <2>1, <2>2 DEF RelaysOf
<1>3. exact # <<>>
  <2>1. relays # {}
    OBVIOUS
  <2>2. PICK j \in DOMAIN plan : plan[j].relay # Direct
    BY <2>1 DEF RelaysOf
  <2>3. j \in DOMAIN plan \cap keep
    BY <2>2
  <2> HIDE DEF keep, relays
  <2>4. /\ Filter(plan, keep) \in Seq(Assignment)
        /\ \A e : (\E i \in DOMAIN Filter(plan, keep) : Filter(plan, keep)[i] = e) <=>
                     \E k \in DOMAIN plan \cap keep : plan[k] = e
        /\ Len(Filter(plan, keep)) = Cardinality(keep \cap DOMAIN plan)
        /\ Distinct(plan) => Distinct(Filter(plan, keep))
    BY FilterFacts
  <2>5. \E i \in DOMAIN Filter(plan, keep) : Filter(plan, keep)[i] = plan[j]
    BY <2>3, <2>4
  <2>6. DOMAIN exact # {}
    BY <1>1, <2>5
  <2>7. DOMAIN <<>> = {}
    OBVIOUS
  <2>8. QED
    BY <2>6, <2>7
<1>4. ChunksOn(exact, Relays) = ChunksOn(plan, relays)
  <2>1. ChunksOn(exact, Relays) = ChunksOn(plan, Relays)
    BY ExactChunks
  <2>2. \A i \in DOMAIN plan : plan[i].relay \in Relays <=> plan[i].relay \in relays
    <3> SUFFICES ASSUME NEW i \in DOMAIN plan
                 PROVE  plan[i].relay \in Relays <=> plan[i].relay \in relays
      OBVIOUS
    <3>1. plan[i] \in Assignment
      OBVIOUS
    <3>2. plan[i].relay \in Relays \cup {Direct} /\ Direct \notin Relays
      BY <3>1, PlannerAssumption DEF Assignment
    <3>3. QED
      BY <3>2 DEF RelaysOf
  <2>3. [i \in DOMAIN plan |-> IF plan[i].relay \in Relays THEN plan[i].chunks ELSE <<>>]
          = [i \in DOMAIN plan |-> IF plan[i].relay \in relays THEN plan[i].chunks ELSE <<>>]
    BY <2>2
  <2>4. QED
    BY <2>1, <2>3 DEF ChunksOn
<1>5. LeasesMatch(plan, leases)
  BY DEF LeasesMatch
<1>6. QED
  BY <1>2, <1>3, <1>4, <1>5 DEF PlanAccepted, RelayRanges

-----------------------------------------------------------------------------
\* The blocks of a plan.

Block == [relay: All, chunk: Chunk, state: {"queued", "running", "completed", "failed", "canceled"},
          generation: Nat]

\* The blocks of a plan are its chunks in order, queued, in the generation of the ticket
\* (block_runtime.py).
LEMMA BlocksOfPlan ==
    ASSUME NEW plan \in Seq(Assignment), NEW generation \in Nat
    PROVE  LET blocks == BlocksOf(plan, generation)
           IN /\ blocks \in Seq(Block)
              /\ [i \in DOMAIN blocks |-> blocks[i].chunk] = ChunksOn(plan, All)
              /\ \A b \in ToSet(blocks) : b.generation = generation /\ b.state = "queued"
<1> DEFINE B == [relay: All, chunk: Chunk]
           Row(i) == [k \in DOMAIN plan[i].chunks |-> [relay |-> plan[i].relay, chunk |-> plan[i].chunks[k]]]
           rows == [i \in DOMAIN plan |-> Row(i)]
           flat == BlockPlan(plan)
           chunkOf == [b \in B |-> b.chunk]
<1>1. flat = FlattenSeq(rows)
  BY DEF BlockPlan
<1>2. ASSUME NEW i \in DOMAIN plan
      PROVE  /\ plan[i].chunks \in Seq(Chunk) /\ plan[i].relay \in All
             /\ Row(i) \in Seq(B) /\ Image(chunkOf, Row(i)) = plan[i].chunks
  <2>1. plan[i] \in Assignment
    OBVIOUS
  <2> DEFINE s == plan[i].chunks
             r == plan[i].relay
  <2>2. s \in Seq(Chunk) /\ r \in All
    BY <2>1 DEF Assignment, All
  <2> HIDE DEF s, r
  <2> DEFINE row == [k \in DOMAIN s |-> [relay |-> r, chunk |-> s[k]]]
  <2>3. DOMAIN s = 1..Len(s) /\ Len(s) \in Nat /\ \A k \in DOMAIN s : s[k] \in Chunk
    BY <2>2
  <2>4. ASSUME NEW k \in DOMAIN s
        PROVE  [relay |-> r, chunk |-> s[k]] \in B /\ chunkOf[[relay |-> r, chunk |-> s[k]]] = s[k]
    <3>1. s[k] \in Chunk
      BY <2>3
    <3> DEFINE c == s[k]
    <3>2. c \in Chunk
      BY <3>1
    <3> HIDE DEF c
    <3>3. [relay |-> r, chunk |-> c] \in B
      BY <2>2, <3>2
    <3>4. chunkOf[[relay |-> r, chunk |-> c]] = c
      BY <3>3
    <3>5. QED
      BY <3>3, <3>4 DEF c
  <2> DEFINE E(k) == [relay |-> r, chunk |-> s[k]]
  <2> HIDE DEF E, B, chunkOf
  <2>5. \A k \in DOMAIN s : E(k) \in B /\ chunkOf[E(k)] = s[k]
    BY <2>4 DEF E
  <2>6. row = [k \in DOMAIN s |-> E(k)]
    BY DEF E
  <2> HIDE DEF row
  <2>7. row \in Seq(B)
    BY <2>3, <2>5, <2>6
  <2>8. Image(chunkOf, row) = s
    <3>1. DOMAIN row = DOMAIN s /\ \A k \in DOMAIN s : chunkOf[row[k]] = s[k]
      BY <2>5, <2>6
    <3>2. Image(chunkOf, row) = [k \in DOMAIN s |-> s[k]]
      BY <3>1 DEF Image
    <3>3. QED
      BY <2>2, <3>2
  <2>9. QED
    BY <2>2, <2>7, <2>8 DEF row, s, r
<1>3. chunkOf \in [B -> Chunk]
  OBVIOUS
<1>4. DOMAIN plan = 1..Len(plan) /\ Len(plan) \in Nat
  OBVIOUS
<1> DEFINE S == Seq(B)
<1> HIDE DEF Row, B, chunkOf
<1>5. rows \in Seq(S) /\ DOMAIN rows = DOMAIN plan /\ \A i \in DOMAIN plan : rows[i] = Row(i)
  <2>1. \A i \in DOMAIN plan : Row(i) \in S
    BY <1>2
  <2> HIDE DEF S
  <2>2. QED
    BY <1>4, <2>1
<1> HIDE DEF rows
<1> DEFINE h == [s \in Seq(B) |-> Image(chunkOf, s)]
<1>a. \A s \in Seq(B) : h[s] = Image(chunkOf, s)
  OBVIOUS
<1> HIDE DEF h
<1>6. Image(chunkOf, flat) = FlattenSeq(Image(h, rows))
  <2>1. rows \in Seq(Seq(B))
    BY <1>5 DEF S
  <2>2. QED
    BY <1>1, <1>a, <2>1, FlattenImage
<1>7. Image(h, rows) = [i \in DOMAIN plan |-> IF plan[i].relay \in All THEN plan[i].chunks ELSE <<>>]
  <2>1. \A i \in DOMAIN plan : h[rows[i]] = IF plan[i].relay \in All THEN plan[i].chunks ELSE <<>>
    <3> SUFFICES ASSUME NEW i \in DOMAIN plan
                 PROVE  h[rows[i]] = IF plan[i].relay \in All THEN plan[i].chunks ELSE <<>>
      OBVIOUS
    <3>1. rows[i] = Row(i) /\ Row(i) \in Seq(B) /\ plan[i].relay \in All
          /\ Image(chunkOf, Row(i)) = plan[i].chunks
      BY <1>2, <1>5
    <3>2. h[Row(i)] = plan[i].chunks
      BY <1>a, <3>1
    <3>3. QED
      BY <3>1, <3>2
  <2>2. QED
    BY <1>5, <2>1 DEF Image
<1>8. Image(chunkOf, flat) = ChunksOn(plan, All)
  BY <1>6, <1>7 DEF ChunksOn
<1>9. flat \in Seq(B)
  BY <1>1, <1>5, ElementsOfFlat DEF S
<1> DEFINE blocks == BlocksOf(plan, generation)
<1>10. blocks = [i \in DOMAIN flat |-> [relay |-> flat[i].relay, chunk |-> flat[i].chunk,
                                       state |-> "queued", generation |-> generation]]
  BY DEF BlocksOf
<1>c. blocks \in Seq(Block)
  <2> HIDE DEF flat, blocks
  <2> DEFINE E(i) == [relay |-> flat[i].relay, chunk |-> flat[i].chunk,
                      state |-> "queued", generation |-> generation]
  <2>1. ASSUME NEW i \in DOMAIN flat
        PROVE  E(i) \in Block
    <3>1. flat[i] \in B
      BY <1>9
    <3>2. flat[i].relay \in All /\ flat[i].chunk \in Chunk
      BY <3>1 DEF B
    <3>3. QED
      BY <3>2 DEF Block
  <2>2. blocks = [i \in DOMAIN flat |-> E(i)]
    BY <1>10
  <2> HIDE DEF E
  <2>3. DOMAIN flat = 1..Len(flat) /\ Len(flat) \in Nat
    BY <1>9
  <2>4. QED
    BY <2>1, <2>2, <2>3
<1> HIDE DEF blocks, flat
<1>11. DOMAIN blocks = DOMAIN flat
       /\ \A i \in DOMAIN flat : /\ blocks[i].chunk = flat[i].chunk /\ blocks[i].state = "queued"
                                 /\ blocks[i].generation = generation
  BY <1>10
<1>12. \A i \in DOMAIN flat : chunkOf[flat[i]] = flat[i].chunk
  <2>1. \A i \in DOMAIN flat : flat[i] \in B
    BY <1>9
  <2>2. QED
    BY <2>1 DEF chunkOf
<1>13. [i \in DOMAIN blocks |-> blocks[i].chunk] = Image(chunkOf, flat)
  BY <1>11, <1>12 DEF Image
<1>14. \A b \in ToSet(blocks) : b.generation = generation /\ b.state = "queued"
  BY <1>11 DEF ToSet
<1>15. QED
  BY <1>8, <1>13, <1>14, <1>c DEF blocks

-----------------------------------------------------------------------------
\* Sums.

\* A sum over smaller terms is at most as large.
LEMMA SumAtMost ==
    ASSUME NEW S, IsFiniteSet(S), NEW w, NEW v,
           \A x \in S : w[x] \in Nat /\ v[x] \in Nat /\ w[x] <= v[x]
    PROVE  SumFunctionOnSet(w, S) <= SumFunctionOnSet(v, S)
<1> DEFINE Good(T) == /\ IsFiniteSet(T) /\ SumFunctionOnSet(w, T) \in Nat
                      /\ SumFunctionOnSet(v, T) \in Nat
                      /\ SumFunctionOnSet(w, T) <= SumFunctionOnSet(v, T)
           P == {T \in SUBSET S : Good(T)}
<1>1. {} \in P
  <2>1. Good({})
    BY SumOfNone, FS_EmptySet
  <2>2. QED
    BY <2>1
<1>2. ASSUME NEW T \in SUBSET S, T \in P, NEW x \in S \ T
      PROVE  T \cup {x} \in P
  <2>1. Good(T)
    BY <1>2
  <2>2. w[x] \in Nat /\ v[x] \in Nat /\ w[x] <= v[x]
    OBVIOUS
  <2>3. SumFunctionOnSet(w, T \cup {x}) = w[x] + SumFunctionOnSet(w, T)
    <3>1. \A y \in T \cup {x} : w[y] \in Nat
      OBVIOUS
    <3>2. QED
      BY <2>1, <3>1, SumWithOne
  <2>4. SumFunctionOnSet(v, T \cup {x}) = v[x] + SumFunctionOnSet(v, T)
    <3>1. \A y \in T \cup {x} : v[y] \in Nat
      OBVIOUS
    <3>2. QED
      BY <2>1, <3>1, SumWithOne
  <2>5. IsFiniteSet(T \cup {x})
    BY <2>1, FS_AddElement
  <2>6. Good(T \cup {x})
    BY <2>1, <2>2, <2>3, <2>4, <2>5
  <2>7. QED
    BY <2>6
<1>3. SUBSET S \subseteq P
  <2> HIDE DEF P
  <2>1. QED
    BY <1>1, <1>2, GrowTo
<1>4. QED
  BY <1>3

\* A part of a sum.
LEMMA SumOfLess ==
    ASSUME NEW S, IsFiniteSet(S), NEW T \in SUBSET S, NEW w, \A x \in S : w[x] \in Nat
    PROVE  SumFunctionOnSet(w, T) <= SumFunctionOnSet(w, S)
<1> DEFINE v == [x \in S |-> IF x \in T THEN w[x] ELSE 0]
<1>1. \A x \in S : v[x] \in Nat /\ w[x] \in Nat /\ v[x] <= w[x]
  OBVIOUS
<1>2. (\A x \in S : v[x] \in Nat) /\ (\A x \in S \ T : v[x] = 0) /\ \A x \in T : w[x] \in Nat /\ v[x] = w[x]
  OBVIOUS
<1> HIDE DEF v
<1>3. SumFunctionOnSet(v, S) <= SumFunctionOnSet(w, S)
  BY <1>1, SumAtMost
<1>4. SumFunctionOnSet(v, S) = SumFunctionOnSet(v, T)
  BY <1>2, SumOfPart
<1>5. IsFiniteSet(T)
  BY FS_Subset
<1>6. SumFunctionOnSet(v, T) = SumFunctionOnSet(w, T)
  BY <1>2, <1>5, SumAgrees
<1>7. QED
  BY <1>3, <1>4, <1>6

-----------------------------------------------------------------------------
\* What is leased.

Lease == [relay: Relays, chunks: Nat, bytes: Nat]
\* What a transfer has leased on some relays.
LeasesIn(rec, relays) == {m \in rec.leases : m.relay \in relays}
Leased(rec, relays) == SumFunction([l \in LeasesIn(rec, relays) |-> l.chunks])
\* Leases that can be counted.
GoodLeases(rec) == rec.leases \in SUBSET Lease /\ IsFiniteSet(rec.leases)

AllLeasesGood(x) == \A t \in Transfers : GoodLeases(x[t])
\* The parts that the transfers have in a total.
Tallies(w, x, ts, relays) == \A t \in ts : w[t] = Leased(x[t], relays)

\* What a transfer has leased is a natural number, and none without leases.
LEMMA LeasedIsNat ==
    ASSUME NEW rec, GoodLeases(rec), NEW relays
    PROVE  Leased(rec, relays) \in Nat /\ (rec.leases = {} => Leased(rec, relays) = 0)
<1> DEFINE L == LeasesIn(rec, relays)
           f == [l \in L |-> l.chunks]
<1>1. IsFiniteSet(L)
  BY FS_Subset DEF LeasesIn, GoodLeases
<1>2. \A l \in L : l.chunks \in Nat
  BY DEF LeasesIn, GoodLeases, Lease
<1>3. DOMAIN f = L /\ \A l \in L : f[l] \in Nat
  BY <1>2
<1>4. rec.leases = {} => L = {}
  BY DEF LeasesIn
<1> HIDE DEF L, f
<1>5. SumFunction(f) \in Nat
  BY <1>1, <1>3, SumIsNat
<1>6. L = {} => SumFunction(f) = 0
  BY <1>3, SumOfNone DEF SumFunction
<1>7. QED
  BY <1>4, <1>5, <1>6 DEF Leased, L, f

\* What is leased in all is the sum over the transfers, whichever way their parts are written.
LEMMA ChunksLeasedFacts ==
    ASSUME NEW x, AllLeasesGood(x), NEW ts \in SUBSET Transfers, NEW relays,
           NEW w, Tallies(w, x, ts, relays)
    PROVE  /\ IsFiniteSet(ts) /\ \A t \in ts : w[t] \in Nat
           /\ ChunksLeased(x, ts, relays) = SumFunctionOnSet(w, ts)
           /\ ChunksLeased(x, ts, relays) \in Nat
<1> USE DEF AllLeasesGood, Tallies
<1> DEFINE f == [t \in ts |-> Leased(x[t], relays)]
<1>1. IsFiniteSet(ts)
  BY DataPlaneAssumption, FS_Subset
<1>2. \A t \in ts : w[t] \in Nat
  BY LeasedIsNat
<1>3. ChunksLeased(x, ts, relays) = SumFunction(f)
  BY DEF ChunksLeased, Leased, LeasesIn
<1>4. DOMAIN f = ts /\ \A t \in ts : w[t] \in Nat /\ f[t] = w[t]
  BY <1>2
<1> HIDE DEF f
<1>5. SumFunction(f) = SumFunctionOnSet(f, ts)
  BY <1>4 DEF SumFunction
<1>6. SumFunctionOnSet(f, ts) = SumFunctionOnSet(w, ts)
  BY <1>1, <1>4, SumAgrees
<1>7. SumFunctionOnSet(w, ts) \in Nat
  BY <1>1, <1>2, SumIsNatural
<1>8. QED
  BY <1>1, <1>2, <1>3, <1>5, <1>6, <1>7

\* Leases that go leave less leased.
LEMMA LessLeased ==
    ASSUME NEW x, NEW y, AllLeasesGood(x), AllLeasesGood(y),
           NEW ts \in SUBSET Transfers, NEW relays,
           \A t \in ts : y[t].leases = x[t].leases \/ y[t].leases = {}
    PROVE  ChunksLeased(y, ts, relays) <= ChunksLeased(x, ts, relays)
<1> DEFINE v == [t \in ts |-> Leased(x[t], relays)]
           w == [t \in ts |-> Leased(y[t], relays)]
<1>1. (\A t \in ts : v[t] = Leased(x[t], relays)) /\ \A t \in ts : w[t] = Leased(y[t], relays)
  OBVIOUS
<1>a. Tallies(v, x, ts, relays) /\ Tallies(w, y, ts, relays)
  BY <1>1 DEF Tallies
<1> HIDE DEF v, w
<1>2. /\ IsFiniteSet(ts) /\ \A t \in ts : v[t] \in Nat
      /\ ChunksLeased(x, ts, relays) = SumFunctionOnSet(v, ts)
  BY <1>a, ChunksLeasedFacts
<1>3. /\ \A t \in ts : w[t] \in Nat
      /\ ChunksLeased(y, ts, relays) = SumFunctionOnSet(w, ts)
  BY <1>a, ChunksLeasedFacts
<1>4. ASSUME NEW t \in ts
      PROVE  w[t] <= v[t]
  <2>1. CASE y[t].leases = x[t].leases
    <3>1. w[t] = v[t]
      BY <1>1, <2>1 DEF Leased, LeasesIn
    <3>2. QED
      BY <1>2, <3>1
  <2>2. CASE y[t].leases = {}
    <3>1. w[t] = 0
      BY <1>1, <2>2, LeasedIsNat DEF AllLeasesGood
    <3>2. QED
      BY <1>2, <3>1
  <2>3. QED
    BY <2>1, <2>2
<1>5. SumFunctionOnSet(w, ts) <= SumFunctionOnSet(v, ts)
  BY <1>2, <1>3, <1>4, SumAtMost
<1>6. QED
  BY <1>2, <1>3, <1>5

\* The leases of one transfer come to those of the others.
LEMMA MoreLeased ==
    ASSUME NEW x, NEW y, AllLeasesGood(x), AllLeasesGood(y),
           NEW ts \in SUBSET Transfers, NEW relays, NEW u \in ts, x[u].leases = {},
           \A t \in ts \ {u} : y[t].leases = x[t].leases
    PROVE  ChunksLeased(y, ts, relays) = ChunksLeased(x, ts, relays) + Leased(y[u], relays)
<1> DEFINE v == [t \in ts |-> Leased(x[t], relays)]
           w == [t \in ts |-> Leased(y[t], relays)]
           rest == ts \ {u}
<1>1. (\A t \in ts : v[t] = Leased(x[t], relays)) /\ \A t \in ts : w[t] = Leased(y[t], relays)
  OBVIOUS
<1>a. Tallies(v, x, ts, relays) /\ Tallies(w, y, ts, relays)
  BY <1>1 DEF Tallies
<1> HIDE DEF v, w
<1>2. /\ IsFiniteSet(ts) /\ \A t \in ts : v[t] \in Nat
      /\ ChunksLeased(x, ts, relays) = SumFunctionOnSet(v, ts)
  BY <1>a, ChunksLeasedFacts
<1>3. /\ \A t \in ts : w[t] \in Nat
      /\ ChunksLeased(y, ts, relays) = SumFunctionOnSet(w, ts)
  BY <1>a, ChunksLeasedFacts
<1>4. IsFiniteSet(rest) /\ u \notin rest /\ rest \cup {u} = ts
  BY <1>2, FS_Subset
<1>5. \A t \in rest : v[t] \in Nat /\ w[t] = v[t]
  BY <1>1, <1>2 DEF Leased, LeasesIn
<1>6. (\A t \in rest \cup {u} : v[t] \in Nat) /\ \A t \in rest \cup {u} : w[t] \in Nat
  BY <1>2, <1>3
<1> HIDE DEF rest
<1>7. SumFunctionOnSet(v, rest \cup {u}) = v[u] + SumFunctionOnSet(v, rest)
  BY <1>4, <1>6, SumWithOne
<1>8. SumFunctionOnSet(w, rest \cup {u}) = w[u] + SumFunctionOnSet(w, rest)
  BY <1>4, <1>6, SumWithOne
<1>9. SumFunctionOnSet(w, rest) = SumFunctionOnSet(v, rest) /\ SumFunctionOnSet(v, rest) \in Nat
  <2>1. \A t \in rest : v[t] \in Nat
    BY <1>5
  <2>2. QED
    BY <1>4, <1>5, <2>1, SumAgrees, SumIsNatural
<1>10. v[u] = 0 /\ w[u] = Leased(y[u], relays) /\ w[u] \in Nat
  BY <1>1, <1>3, LeasedIsNat DEF AllLeasesGood
<1>11. v[u] + SumFunctionOnSet(v, rest) = ChunksLeased(x, ts, relays)
  BY <1>2, <1>4, <1>7
<1>12. w[u] + SumFunctionOnSet(w, rest) = ChunksLeased(y, ts, relays)
  BY <1>3, <1>4, <1>8
<1>13. QED
  BY <1>9, <1>10, <1>11, <1>12

\* A relay of a plan has an assignment in it.
LEMMA OnFacts ==
    ASSUME NEW plan \in Seq(Assignment), NEW r \in RelaysOf(plan)
    PROVE  /\ r \in Relays /\ On(plan, r) \in Assignment /\ On(plan, r).relay = r
           /\ \E i \in DOMAIN plan : plan[i] = On(plan, r)
<1>1. PICK i \in DOMAIN plan : plan[i].relay = r
  BY DEF RelaysOf
<1>2. plan[i] \in ToSet(plan)
  BY DEF ToSet
<1>3. On(plan, r) \in ToSet(plan) /\ On(plan, r).relay = r
  BY <1>1, <1>2 DEF On
<1>4. \E j \in DOMAIN plan : plan[j] = On(plan, r)
  BY <1>3 DEF ToSet
<1>5. On(plan, r) \in Assignment
  BY <1>4
<1>6. r \in Relays
  BY <1>3, <1>5 DEF Assignment, RelaysOf
<1>7. QED
  BY <1>3, <1>4, <1>5, <1>6

\* One lease for every relay of the plan, with no more chunks than it has there.
LEMMA LeasesForFacts ==
    ASSUME NEW plan \in Seq(Assignment), NEW q, GoodQuotas(q)
    PROVE  LET leases == LeasesFor(plan, q)
           IN /\ leases \in SUBSET Lease /\ IsFiniteSet(leases)
              /\ {l.relay : l \in leases} = RelaysOf(plan)
              /\ \A l, m \in leases : l.relay = m.relay => l = m
              /\ \A l \in leases : l.chunks <= Len(On(plan, l.relay).chunks)
              /\ \A l \in leases : l.chunks <= AtLeast(SessionMaxChunks - q.session, 0)
                                   /\ l.chunks <= AtLeast(RelayMaxChunks - q.relay[l.relay], 0)
<1> DEFINE n(r) == LeaseChunks(Len(On(plan, r).chunks), r, q)
           b(r) == BytesOf(On(plan, r).chunks)
           L(r) == [relay |-> r, chunks |-> n(r), bytes |-> b(r)]
           leases == {L(r) : r \in RelaysOf(plan)}
<1>1. LeasesFor(plan, q) = leases
  BY DEF LeasesFor
<1>2. ASSUME NEW r \in RelaysOf(plan)
      PROVE  /\ r \in Relays /\ n(r) \in Nat /\ b(r) \in Nat /\ n(r) <= Len(On(plan, r).chunks)
             /\ n(r) <= AtLeast(SessionMaxChunks - q.session, 0)
             /\ n(r) <= AtLeast(RelayMaxChunks - q.relay[r], 0)
  <2>1. r \in Relays /\ On(plan, r) \in Assignment
    BY OnFacts
  <2> DEFINE s == On(plan, r).chunks
  <2>2. s \in Seq(Chunk)
    BY <2>1 DEF Assignment
  <2>3. Len(s) \in Nat /\ BytesOf(s) \in Nat
    BY <2>2, BytesFacts
  <2> DEFINE k == Len(s)
             u == AtLeast(SessionMaxChunks - q.session, 0)
             v == AtLeast(RelayMaxChunks - q.relay[r], 0)
  <2>4. q.session \in Nat /\ q.relay[r] \in Nat
    BY <2>1 DEF GoodQuotas
  <2>5. u \in Nat /\ v \in Nat
    BY <2>4, PlannerAssumption DEF AtLeast
  <2>6. LeaseChunks(k, r, q) = UpTo(UpTo(k, u), v)
    BY DEF LeaseChunks
  <2>7. k \in Nat
    BY <2>3
  <2> HIDE DEF k, u, v
  <2>8. /\ UpTo(UpTo(k, u), v) \in Nat /\ UpTo(UpTo(k, u), v) <= k /\ UpTo(UpTo(k, u), v) <= u
        /\ UpTo(UpTo(k, u), v) <= v
    BY <2>5, <2>7 DEF UpTo
  <2>9. QED
    BY <2>1, <2>3, <2>6, <2>8 DEF k, u, v
<1> HIDE DEF n, b
<1>3. \A r \in RelaysOf(plan) : L(r) \in Lease /\ L(r).relay = r /\ L(r).chunks = n(r)
  BY <1>2 DEF Lease
<1>4. leases \in SUBSET Lease
  BY <1>3
<1>5. IsFiniteSet(leases)
  <2>1. RelaysOf(plan) \subseteq Relays
    BY <1>2
  <2>2. IsFiniteSet(RelaysOf(plan))
    BY <2>1, PlannerAssumption, FS_Subset
  <2> DEFINE S == RelaysOf(plan)
  <2>3. IsFiniteSet(S)
    BY <2>2
  <2> HIDE DEF S, L
  <2> DEFINE m == [r \in S |-> L(r)]
             w == [r \in S |-> 0]
  <2>4. IsFiniteSet({m[r] : r \in S})
    <3>1. \A r, s \in S : m[r] = m[s] => r = s
      BY <1>3 DEF S
    <3> DEFINE v == [x \in {m[r] : r \in S} |-> 0]
    <3>2. \A r \in S : w[r] \in Nat /\ v[m[r]] = w[r]
      OBVIOUS
    <3> HIDE DEF m, w, v
    <3>3. /\ IsFiniteSet({m[r] : r \in S})
          /\ SumFunctionOnSet(v, {m[r] : r \in S}) = SumFunctionOnSet(w, S)
      BY ONLY <2>3, <3>1, <3>2, SumOfImage
    <3>4. QED
      BY <3>3
  <2>5. {m[r] : r \in S} = leases
    BY DEF S
  <2>6. QED
    BY <2>4, <2>5
<1> HIDE DEF L
<1>6. {l.relay : l \in leases} = RelaysOf(plan)
  BY <1>3
<1>7. \A l, m \in leases : l.relay = m.relay => l = m
  BY <1>3
<1>8. \A l \in leases : /\ l.chunks <= Len(On(plan, l.relay).chunks)
                        /\ l.chunks <= AtLeast(SessionMaxChunks - q.session, 0)
                        /\ l.chunks <= AtLeast(RelayMaxChunks - q.relay[l.relay], 0)
  <2> SUFFICES ASSUME NEW l \in leases
               PROVE  /\ l.chunks <= Len(On(plan, l.relay).chunks)
                      /\ l.chunks <= AtLeast(SessionMaxChunks - q.session, 0)
                      /\ l.chunks <= AtLeast(RelayMaxChunks - q.relay[l.relay], 0)
    OBVIOUS
  <2>1. PICK r \in RelaysOf(plan) : l = L(r)
    OBVIOUS
  <2>2. l.relay = r /\ l.chunks = n(r)
    BY <1>3, <2>1
  <2>3. QED
    BY <1>2, <2>2
<1>9. QED
  BY <1>1, <1>4, <1>5, <1>6, <1>7, <1>8

\* The leases of a plan have no more chunks, together, than the plan.
LEMMA LeasedChunksOfPlan ==
    ASSUME NEW plan \in Seq(Assignment), NEW q, GoodQuotas(q)
    PROVE  LET leases == LeasesFor(plan, q)
           IN /\ SumFunction([l \in leases |-> l.chunks]) \in Nat
              /\ SumFunction([l \in leases |-> l.chunks]) <= Len(ChunksOn(plan, All))
<1> DEFINE leases == LeasesFor(plan, q)
           at == [l \in leases |-> CHOOSE i \in DOMAIN plan : plan[i] = On(plan, l.relay)]
           c == [l \in leases |-> l.chunks]
           v == [i \in DOMAIN plan |-> Len(plan[i].chunks)]
           w == [l \in leases |-> v[at[l]]]
           n == Len(plan)
           I == {at[l] : l \in leases}
<1>1. /\ leases \in SUBSET Lease /\ IsFiniteSet(leases)
      /\ {l.relay : l \in leases} = RelaysOf(plan)
      /\ \A l, m \in leases : l.relay = m.relay => l = m
      /\ \A l \in leases : l.chunks <= Len(On(plan, l.relay).chunks)
  BY LeasesForFacts
<1> HIDE DEF leases
<1>2. \A l \in leases : at[l] \in DOMAIN plan /\ plan[at[l]] = On(plan, l.relay)
                        /\ On(plan, l.relay).relay = l.relay
  <2> SUFFICES ASSUME NEW l \in leases
               PROVE  at[l] \in DOMAIN plan /\ plan[at[l]] = On(plan, l.relay)
                      /\ On(plan, l.relay).relay = l.relay
    OBVIOUS
  <2>1. l.relay \in RelaysOf(plan)
    BY <1>1
  <2>2. (\E i \in DOMAIN plan : plan[i] = On(plan, l.relay)) /\ On(plan, l.relay).relay = l.relay
    BY <2>1, OnFacts
  <2>3. at[l] = CHOOSE i \in DOMAIN plan : plan[i] = On(plan, l.relay)
    OBVIOUS
  <2>4. QED
    BY <2>2, <2>3
<1>3. DOMAIN plan = 1..n /\ n \in Nat /\ IsFiniteSet(DOMAIN plan)
  BY FS_Interval
<1>4. \A i \in DOMAIN plan : plan[i].chunks \in Seq(Chunk) /\ v[i] = Len(plan[i].chunks) /\ v[i] \in Nat
  <2> SUFFICES ASSUME NEW i \in DOMAIN plan
               PROVE  plan[i].chunks \in Seq(Chunk) /\ v[i] = Len(plan[i].chunks) /\ v[i] \in Nat
    OBVIOUS
  <2>1. plan[i] \in Assignment
    OBVIOUS
  <2>2. plan[i].chunks \in Seq(Chunk)
    BY <2>1 DEF Assignment
  <2>3. QED
    BY <2>2
<1>5. \A l \in leases : c[l] = l.chunks /\ c[l] \in Nat
  BY <1>1 DEF Lease
<1>w. \A l \in leases : w[l] = v[at[l]]
  OBVIOUS
<1>c. DOMAIN c = leases
  OBVIOUS
<1> HIDE DEF at, v, c, w
<1>6. \A l \in leases : w[l] \in Nat /\ c[l] <= w[l]
  BY <1>1, <1>2, <1>4, <1>5, <1>w
<1>7. SumFunctionOnSet(c, leases) <= SumFunctionOnSet(w, leases)
  <2>1. \A l \in leases : c[l] \in Nat /\ w[l] \in Nat /\ c[l] <= w[l]
    BY <1>5, <1>6
  <2>2. QED
    BY <1>1, <2>1, SumAtMost
<1>8. SumFunctionOnSet(v, I) = SumFunctionOnSet(w, leases)
  <2>1. \A l, m \in leases : at[l] = at[m] => l = m
    BY <1>1, <1>2
  <2>2. \A l \in leases : w[l] \in Nat /\ v[at[l]] = w[l]
    BY <1>6, <1>w
  <2>3. IsFiniteSet(leases)
    BY <1>1
  <2>4. QED
    BY <2>1, <2>2, <2>3, SumOfImage
<1>9. I \in SUBSET DOMAIN plan
  BY <1>2
<1> HIDE DEF I
<1>10. SumFunctionOnSet(v, I) <= SumFunctionOnSet(v, DOMAIN plan)
  <2>1. \A i \in DOMAIN plan : v[i] \in Nat
    BY <1>4
  <2> DEFINE S == DOMAIN plan
  <2>2. IsFiniteSet(S) /\ I \in SUBSET S /\ \A i \in S : v[i] \in Nat
    BY <1>3, <1>9, <2>1
  <2> HIDE DEF S
  <2>3. SumFunctionOnSet(v, I) <= SumFunctionOnSet(v, S)
    BY <2>2, SumOfLess
  <2>4. QED
    BY <2>3 DEF S
<1>11. SumFunctionOnSet(v, DOMAIN plan) = Len(ChunksOn(plan, All))
  <2> DEFINE h == chunksIn(All)
             ss == Image(h, plan)
  <2>1. ss \in Seq(Seq(Chunk)) /\ ChunksOn(plan, All) = FlattenSeq(ss)
    BY ChunksAreFlat
  <2>2. ASSUME NEW i \in DOMAIN plan
        PROVE  h[plan[i]] = plan[i].chunks
    <3>1. plan[i] \in Assignment
      OBVIOUS
    <3>2. plan[i].relay \in All
      BY <3>1 DEF Assignment, All
    <3>3. QED
      BY <3>1, <3>2 DEF chunksIn
  <2> HIDE DEF h
  <2>3. DOMAIN ss = DOMAIN plan /\ \A i \in DOMAIN plan : ss[i] = plan[i].chunks
    BY <2>2 DEF Image
  <2> HIDE DEF ss
  <2>4. Len(FlattenSeq(ss)) = Weight(lengthOf, ss)
    BY <2>1, LengthOfFlat
  <2>5. \A s \in Seq(Chunk) : lengthOf[s] \in Nat /\ lengthOf[s] = Len(s)
    BY DEF lengthOf
  <2>6. Weight(lengthOf, ss) = SumFunctionOnSet(Image(lengthOf, ss), 1..Len(ss))
    <3> DEFINE S == Seq(Chunk)
    <3>1. ss \in Seq(S) /\ \A s \in S : lengthOf[s] \in Nat
      BY <2>1, <2>5
    <3> HIDE DEF S
    <3>2. QED
      BY <3>1, WeightIsSum
  <2>7. 1..Len(ss) = DOMAIN plan
    BY <2>1, <2>3
  <2>8. \A i \in DOMAIN plan : Image(lengthOf, ss)[i] = v[i]
    BY <1>4, <2>3, <2>5 DEF Image
  <2>9. SumFunctionOnSet(Image(lengthOf, ss), DOMAIN plan) = SumFunctionOnSet(v, DOMAIN plan)
    <3> DEFINE a == Image(lengthOf, ss)
               S == DOMAIN plan
    <3>1. IsFiniteSet(S) /\ \A i \in S : v[i] \in Nat /\ a[i] = v[i]
      BY <1>3, <1>4, <2>8
    <3> HIDE DEF a, S
    <3>2. SumFunctionOnSet(a, S) = SumFunctionOnSet(v, S)
      BY <3>1, SumAgrees
    <3>3. QED
      BY <3>2 DEF a, S
  <2>10. QED
    BY <2>1, <2>4, <2>6, <2>7, <2>9
<1>12. SumFunction(c) = SumFunctionOnSet(c, leases)
  BY <1>c DEF SumFunction
<1>13. SumFunctionOnSet(c, leases) \in Nat /\ SumFunctionOnSet(w, leases) \in Nat
       /\ SumFunctionOnSet(v, DOMAIN plan) \in Nat
  <2>1. SumFunctionOnSet(c, leases) \in Nat
    BY <1>1, <1>5, SumIsNatural
  <2>2. SumFunctionOnSet(w, leases) \in Nat
    BY <1>1, <1>6, SumIsNatural
  <2>3. SumFunctionOnSet(v, DOMAIN plan) \in Nat
    BY <1>3, <1>4, SumIsNatural
  <2>4. QED
    BY <2>1, <2>2, <2>3
<1>14. SumFunction(c) \in Nat /\ SumFunction(c) <= Len(ChunksOn(plan, All))
  BY <1>7, <1>8, <1>10, <1>11, <1>12, <1>13
<1>15. QED
  BY <1>14 DEF c, leases

-----------------------------------------------------------------------------
\* The invariant.

\* What the daemon and the worker keep of a transfer.
Transfer == [state: {"none", "delayed", "admitted", "running", "complete", "canceled"},
             plan: Seq(Assignment), leases: SUBSET Lease, staging: SUBSET Relays,
             generation: Nat, blocks: Seq(Block)]
WorkerRecord == [pc: {"idle", "accepted", "refused", "copying", "complete", "failed", "done"},
                 plan: Seq(Assignment), generation: Nat]

\* The blocks are the chunks of the plan, in the generation of the ticket.
FollowsPlan(rec) ==
    /\ [i \in DOMAIN rec.blocks |-> rec.blocks[i].chunk] = ChunksOn(rec.plan, All)
    /\ \A b \in ToSet(rec.blocks) : b.generation = rec.generation

\* What the daemon knows of one transfer.
GoodTransfer(rec, req) ==
    /\ rec \in Transfer /\ IsFiniteSet(rec.leases)
    /\ rec.state = "none" => rec = NoTransfer
    /\ rec.state = "delayed" => rec.staging = {}
    /\ rec.state # "none" => GoodPlan(rec.plan, req) /\ FollowsPlan(rec)
    /\ rec.leases # {} => /\ rec.state \in {"admitted", "running"}
                          /\ LeasedRelays(rec) = RelaysOf(rec.plan)
    /\ \A b \in ToSet(rec.blocks) : b.state = "completed" => rec.state = "complete"

\* What a worker and its client know of one transfer, and what they have copied.
GoodWorker(w, rec, chunks) ==
    /\ w.pc # "refused"
    /\ w.pc \in {"idle", "accepted", "copying"} => chunks = <<>>
    /\ rec.state \in {"none", "delayed"} => w.pc = "idle"
    /\ w.pc \in {"accepted", "copying", "complete", "failed"} =>
          w.plan = ExactPlan(rec.plan) /\ w.generation = rec.generation
    /\ w.pc = "complete" => chunks = ChunksOn(w.plan, Relays)
    /\ rec.state = "complete" => w.pc = "done" /\ chunks = ChunksOn(rec.plan, All)

\* Nobody has leased more than its quota.
WithinQuotas(x) ==
    /\ \A j \in DOMAIN JobWeight : ChunksLeased(x, OfSession(j), Relays) <= SessionMaxChunks
    /\ \A r \in Relays : ChunksLeased(x, Transfers, {r}) <= RelayMaxChunks

\* The tables that are promoted one transfer after the other.
Records == {x \in [Transfers -> Transfer] : AllLeasesGood(x)}

\* What the daemon knows of all transfers.
Sound(x) == /\ x \in [Transfers -> Transfer]
            /\ \A t \in Transfers : GoodTransfer(x[t], RequestOf[t])
            /\ WithinQuotas(x)

\* The inductive invariant.
DataPlaneInv ==
    /\ Sound(xfer) /\ worker \in [Transfers -> WorkerRecord] /\ copied \in [Transfers -> Seq(Chunk)]
    /\ \A t \in Transfers : GoodWorker(worker[t], xfer[t], copied[t])

-----------------------------------------------------------------------------
\* What the daemon knows when it plans.

\* The image of a finite set is finite.
LEMMA ImageIsFinite ==
    ASSUME NEW S, IsFiniteSet(S), NEW f
    PROVE  IsFiniteSet({f[x] : x \in S})
<1> DEFINE P == {T \in SUBSET S : IsFiniteSet({f[x] : x \in T})}
<1>1. {} \in P
  <2>1. {f[x] : x \in {}} = {}
    OBVIOUS
  <2>2. QED
    BY <2>1, FS_EmptySet
<1>2. ASSUME NEW T \in SUBSET S, T \in P, NEW x \in S \ T
      PROVE  T \cup {x} \in P
  <2>1. {f[y] : y \in T \cup {x}} = {f[y] : y \in T} \cup {f[x]}
    OBVIOUS
  <2>2. IsFiniteSet({f[y] : y \in T} \cup {f[x]})
    BY <1>2, FS_AddElement
  <2>3. QED
    BY <2>1, <2>2
<1>3. SUBSET S \subseteq P
  <2> HIDE DEF P
  <2>1. QED
    BY <1>1, <1>2, GrowTo
<1>4. QED
  BY <1>3

\* The runtime state is made of numbers and finite sets.
LEMMA ViewIsGood ==
    ASSUME NEW x \in [Transfers -> Transfer], NEW ts \in SUBSET Transfers
    PROVE  GoodView(View(x, ts))
<1> DEFINE P(a) == [relay |-> a.relay, chunks |-> Len(a.chunks), bytes |-> BytesOf(a.chunks)]
           paths(t) == {P(a) : a \in ToSet(x[t].plan)}
           R(t) == [id |-> t, job |-> RequestOf[t].job, dir |-> RequestOf[t].dir,
                    bytes |-> RequestOf[t].bytes, state |-> x[t].state, paths |-> paths(t),
                    leases |-> LeasedRelays(x[t]), staging |-> x[t].staging]
           m == [t \in ts |-> R(t)]
<1>1. View(x, ts) = {R(t) : t \in ts}
  BY DEF View
<1>2. ASSUME NEW t \in ts
      PROVE  IsFiniteSet(paths(t)) /\ \A p \in paths(t) : p.bytes \in Nat /\ p.chunks \in Nat
  <2>1. x[t].plan \in Seq(Assignment)
    BY DEF Transfer
  <2> DEFINE plan == x[t].plan
  <2>2. plan \in Seq(Assignment)
    BY <2>1
  <2> HIDE DEF plan
  <2>3. \A a \in ToSet(plan) : P(a).bytes \in Nat /\ P(a).chunks \in Nat
    <3> SUFFICES ASSUME NEW a \in ToSet(plan)
                 PROVE  P(a).bytes \in Nat /\ P(a).chunks \in Nat
      OBVIOUS
    <3>1. a \in Assignment
      BY <2>2 DEF ToSet
    <3>2. a.chunks \in Seq(Chunk)
      BY <3>1 DEF Assignment
    <3>3. BytesOf(a.chunks) \in Nat /\ Len(a.chunks) \in Nat
      BY <3>2, BytesFacts
    <3>4. QED
      BY <3>3
  <2> DEFINE I == DOMAIN plan
             f == [i \in I |-> P(plan[i])]
  <2>4. IsFiniteSet(I)
    <3>1. I = 1..Len(plan) /\ Len(plan) \in Nat
      BY <2>2
    <3>2. QED
      BY <3>1, FS_Interval
  <2> HIDE DEF P
  <2>5. {P(a) : a \in ToSet(plan)} = {f[i] : i \in I}
    BY DEF ToSet
  <2>6. IsFiniteSet({f[i] : i \in I})
    <3> HIDE DEF I, f
    <3>1. QED
      BY <2>4, ImageIsFinite
  <2>7. QED
    BY <2>3, <2>5, <2>6 DEF plan
<1> HIDE DEF paths
<1>3. ASSUME NEW t \in ts
      PROVE  GoodRecord(R(t))
  <2>1. RequestOf[t].bytes \in Nat
    BY DataPlaneAssumption DEF Request
  <2>2. QED
    BY <1>2, <2>1 DEF GoodRecord
<1>4. IsFiniteSet(ts)
  BY DataPlaneAssumption, FS_Subset
<1> HIDE DEF R
<1>5. {R(t) : t \in ts} = {m[t] : t \in ts}
  OBVIOUS
<1>6. IsFiniteSet({m[t] : t \in ts})
  <2> HIDE DEF m
  <2>1. QED
    BY <1>4, ImageIsFinite
<1>7. QED
  BY <1>1, <1>3, <1>5, <1>6 DEF GoodView

\* The chunks that are leased are a number.
LEMMA ChunksLeasedIsNat ==
    ASSUME NEW x, AllLeasesGood(x), NEW ts \in SUBSET Transfers, NEW relays
    PROVE  ChunksLeased(x, ts, relays) \in Nat
<1> DEFINE w == [t \in ts |-> Leased(x[t], relays)]
<1>1. Tallies(w, x, ts, relays)
  BY DEF Tallies
<1> HIDE DEF w
<1>2. QED
  BY <1>1, ChunksLeasedFacts

\* What is leased when the daemon plans are numbers.
LEMMA QuotasAreGood ==
    ASSUME NEW x, AllLeasesGood(x), NEW t \in Transfers
    PROVE  /\ GoodQuotas(QuotasFor(x, t))
           /\ QuotasFor(x, t).session = ChunksLeased(x, OfSession(RequestOf[t].job), Relays)
           /\ \A r \in Relays : QuotasFor(x, t).relay[r] = ChunksLeased(x, Transfers, {r})
<1> DEFINE a == ChunksLeased(x, OfSession(RequestOf[t].job), Relays)
           b(r) == ChunksLeased(x, Transfers, {r})
           q == QuotasFor(x, t)
<1>1. a \in Nat
  BY ChunksLeasedIsNat DEF OfSession
<1>2. \A r \in Relays : b(r) \in Nat
  BY ChunksLeasedIsNat
<1> HIDE DEF a, b
<1>3. q.session = a /\ q.assigned = Relays /\ \A r \in Relays : q.relay[r] = b(r)
  BY DEF QuotasFor, a, b
<1> HIDE DEF q
<1>4. GoodQuotas(q)
  BY <1>1, <1>2, <1>3 DEF GoodQuotas
<1>5. QED
  BY <1>3, <1>4 DEF a, b, q

-----------------------------------------------------------------------------
\* Issuing and delaying.

\* The leases of a decision are for the relays of its plan.
LEMMA DecisionLeases ==
    ASSUME NEW req, NEW q, GoodQuotas(q), NEW d, GoodDecision(d, req, q)
    PROVE  /\ d.leases \in SUBSET Lease /\ IsFiniteSet(d.leases)
           /\ d.leases # {} => {l.relay : l \in d.leases} = RelaysOf(d.plan)
           /\ \A l, m \in d.leases : l.relay = m.relay => l = m
<1>1. d.plan \in Seq(Assignment)
  BY DEF GoodDecision, GoodPlan, PlanFor
<1>2. CASE d.leases = {}
  BY <1>2, FS_EmptySet
<1>3. CASE d.leases = LeasesFor(d.plan, q)
  <2> DEFINE leases == LeasesFor(d.plan, q)
  <2>1. /\ leases \in SUBSET Lease /\ IsFiniteSet(leases)
        /\ {l.relay : l \in leases} = RelaysOf(d.plan)
        /\ \A l, m \in leases : l.relay = m.relay => l = m
    BY <1>1, LeasesForFacts
  <2> HIDE DEF leases
  <2>2. d.leases = leases
    BY <1>3 DEF leases
  <2>3. QED
    BY <2>1, <2>2
<1>4. QED
  BY <1>2, <1>3 DEF GoodDecision

\* The record of a transfer that gets a ticket.
LEMMA IssueFacts ==
    ASSUME NEW rec \in Transfer, NEW req, NEW q, GoodQuotas(q), NEW d, GoodDecision(d, req, q)
    PROVE  /\ GoodTransfer(Issue(rec, d), req)
           /\ Issue(rec, d).state = "admitted" /\ Issue(rec, d).leases = d.leases
<1> DEFINE g == rec.generation + 1
           blocks == BlocksOf(d.plan, g)
           new == Issue(rec, d)
<1>1. d.plan \in Seq(Assignment) /\ GoodPlan(d.plan, req)
  BY DEF GoodDecision, GoodPlan, PlanFor
<1>2. g \in Nat
  BY DEF Transfer
<1>3. /\ blocks \in Seq(Block)
      /\ [i \in DOMAIN blocks |-> blocks[i].chunk] = ChunksOn(d.plan, All)
      /\ \A b \in ToSet(blocks) : b.generation = g /\ b.state = "queued"
  BY <1>1, <1>2, BlocksOfPlan
<1>4. /\ new = [rec EXCEPT !.state = "admitted", !.plan = d.plan, !.leases = d.leases,
                           !.generation = g, !.blocks = blocks]
  BY DEF Issue
<1> HIDE DEF blocks, g, new
<1>5. d.leases \in SUBSET Lease
  BY DecisionLeases
<1>6. new \in Transfer
  BY <1>1, <1>2, <1>3, <1>4, <1>5 DEF Transfer
<1>7. /\ new.state = "admitted" /\ new.plan = d.plan /\ new.leases = d.leases
      /\ new.generation = g /\ new.blocks = blocks
  BY <1>4 DEF Transfer
<1>8. FollowsPlan(new)
  BY <1>3, <1>7 DEF FollowsPlan
<1>9. IsFiniteSet(new.leases) /\ (new.leases # {} => LeasedRelays(new) = RelaysOf(new.plan))
  BY <1>7, DecisionLeases DEF LeasedRelays
<1>10. GoodTransfer(new, req)
  BY <1>1, <1>3, <1>6, <1>7, <1>8, <1>9 DEF GoodTransfer
<1>11. QED
  BY <1>7, <1>10 DEF new

\* The record of a new transfer that is delayed.
LEMMA DelayFacts ==
    ASSUME NEW rec \in Transfer, rec.leases = {}, rec.staging = {}, NEW req, NEW q, GoodQuotas(q),
           NEW d, GoodDecision(d, req, q)
    PROVE  /\ GoodTransfer(Delay(rec, d), req)
           /\ Delay(rec, d).state = "delayed" /\ Delay(rec, d).leases = {}
<1> DEFINE g == rec.generation + 1
           blocks == BlocksOf(d.plan, g)
           new == Delay(rec, d)
<1>1. d.plan \in Seq(Assignment) /\ GoodPlan(d.plan, req)
  BY DEF GoodDecision, GoodPlan, PlanFor
<1>2. g \in Nat
  BY DEF Transfer
<1>3. /\ blocks \in Seq(Block)
      /\ [i \in DOMAIN blocks |-> blocks[i].chunk] = ChunksOn(d.plan, All)
      /\ \A b \in ToSet(blocks) : b.generation = g /\ b.state = "queued"
  BY <1>1, <1>2, BlocksOfPlan
<1>4. /\ new = [rec EXCEPT !.state = "delayed", !.plan = d.plan, !.generation = g, !.blocks = blocks]
  BY DEF Delay
<1> HIDE DEF blocks, g, new
<1>6. new \in Transfer
  BY <1>1, <1>2, <1>3, <1>4 DEF Transfer
<1>7. /\ new.state = "delayed" /\ new.plan = d.plan /\ new.leases = {} /\ new.staging = {}
      /\ new.generation = g /\ new.blocks = blocks
  BY <1>4 DEF Transfer
<1>8. FollowsPlan(new)
  BY <1>3, <1>7 DEF FollowsPlan
<1>9. IsFiniteSet(new.leases)
  BY <1>7, FS_EmptySet
<1>10. GoodTransfer(new, req)
  BY <1>1, <1>3, <1>6, <1>7, <1>8, <1>9 DEF GoodTransfer
<1>11. QED
  BY <1>7, <1>10 DEF new

\* What is leased of one relay.
LEMMA LeasedOnOne ==
    ASSUME NEW rec, NEW relay, NEW n \in Nat, GoodLeases(rec),
           \A l, m \in rec.leases : l.relay = m.relay => l = m,
           \A l \in rec.leases : l.relay = relay => l.chunks <= n
    PROVE  Leased(rec, {relay}) \in Nat /\ Leased(rec, {relay}) <= n
<1> DEFINE L == LeasesIn(rec, {relay})
           f == [l \in L |-> l.chunks]
<1>1. Leased(rec, {relay}) = SumFunctionOnSet(f, L)
  <2>1. DOMAIN f = L
    OBVIOUS
  <2>2. Leased(rec, {relay}) = SumFunction(f)
    BY DEF Leased
  <2> HIDE DEF f, L
  <2>3. QED
    BY <2>1, <2>2 DEF SumFunction
<1>2. L \in SUBSET rec.leases /\ (\A l \in L : l.relay = relay)
  BY DEF LeasesIn
<1>3. CASE L = {}
  <2>1. SumFunctionOnSet(f, {}) = 0
    BY SumOfNone
  <2> HIDE DEF f, L
  <2>2. QED
    BY <1>1, <1>3, <2>1
<1>4. CASE L # {}
  <2>1. PICK l \in L : TRUE
    BY <1>4
  <2>2. L = {l}
    BY <1>2, <2>1
  <2>3. f[l] = l.chunks /\ l.chunks \in Nat /\ l.chunks <= n
    BY <1>2, <2>1 DEF GoodLeases, Lease
  <2> HIDE DEF f, L
  <2>4. f[l] \in Nat
    BY <2>3
  <2>5. SumFunctionOnSet(f, {l}) = f[l]
    BY <2>4, SumOfOne
  <2>6. QED
    BY <1>1, <2>2, <2>3, <2>5
<1>5. QED
  BY <1>3, <1>4

\* All that a transfer has leased.
LEMMA LeasedInAll ==
    ASSUME NEW rec, GoodLeases(rec)
    PROVE  Leased(rec, Relays) = SumFunction([l \in rec.leases |-> l.chunks])
<1>1. LeasesIn(rec, Relays) = rec.leases
  BY DEF LeasesIn, GoodLeases, Lease
<1>2. QED
  BY <1>1 DEF Leased

\* A transfer that is not blocked stays within the quotas.
LEMMA IssueWithinQuotas ==
    ASSUME NEW x, Sound(x), NEW t \in Transfers, x[t].leases = {},
           NEW d, GoodDecision(d, RequestOf[t], QuotasFor(x, t)), NEW view, NEW fair,
           ~AdmissionBlocked(view, RequestOf[t], QuotasFor(x, t), d.leases, fair)
    PROVE  Sound([x EXCEPT ![t] = Issue(x[t], d)])
<1> DEFINE q == QuotasFor(x, t)
           req == RequestOf[t]
           new == Issue(x[t], d)
           y == [x EXCEPT ![t] = new]
<1>1. x \in [Transfers -> Transfer] /\ AllLeasesGood(x)
  BY DEF Sound, AllLeasesGood, GoodLeases, GoodTransfer, Transfer
<1>2. /\ GoodQuotas(q) /\ q.session = ChunksLeased(x, OfSession(req.job), Relays)
      /\ \A r \in Relays : q.relay[r] = ChunksLeased(x, Transfers, {r})
  BY <1>1, QuotasAreGood
<1>3. GoodTransfer(new, req) /\ new.leases = d.leases
  <2>1. x[t] \in Transfer
    BY <1>1
  <2>2. QED
    BY <1>2, <2>1, IssueFacts
<1>4. new \in Transfer /\ GoodLeases(new)
  BY <1>3 DEF GoodTransfer, GoodLeases, Transfer
<1> HIDE DEF new
<1>5. /\ y \in [Transfers -> Transfer] /\ y[t] = new /\ \A u \in Transfers \ {t} : y[u] = x[u]
  BY <1>1, <1>4
<1> HIDE DEF y, q
<1>6. AllLeasesGood(y)
  BY <1>1, <1>4, <1>5 DEF AllLeasesGood
<1>7. \A u \in Transfers : GoodTransfer(y[u], RequestOf[u])
  BY <1>3, <1>5 DEF Sound
<1>8. ~AdmissionBlocked(view, req, q, d.leases, fair)
  BY DEF q
<1>9. ASSUME NEW j \in DOMAIN JobWeight
      PROVE  ChunksLeased(y, OfSession(j), Relays) <= SessionMaxChunks
  <2> DEFINE ts == OfSession(j)
  <2>1. ts \in SUBSET Transfers /\ (t \in ts <=> req.job = j)
    BY DEF OfSession
  <2>2. ChunksLeased(x, ts, Relays) \in Nat /\ ChunksLeased(y, ts, Relays) \in Nat
        /\ ChunksLeased(x, ts, Relays) <= SessionMaxChunks
    BY <1>1, <1>6, <2>1, ChunksLeasedIsNat DEF Sound, WithinQuotas
  <2>a. SessionMaxChunks \in Nat
    BY PlannerAssumption
  <2>3. CASE t \notin ts \/ d.leases = {}
    <3>1. \A u \in ts : y[u].leases = x[u].leases \/ y[u].leases = {}
      BY <1>3, <1>5, <2>1, <2>3
    <3> HIDE DEF ts
    <3>2. ChunksLeased(y, ts, Relays) <= ChunksLeased(x, ts, Relays)
      BY <1>1, <1>6, <2>1, <3>1, LessLeased
    <3>3. QED
      BY <2>2, <2>a, <3>2 DEF ts
  <2>4. CASE t \in ts /\ d.leases # {}
    <3>1. q.session + SumFunction([l \in d.leases |-> l.chunks]) <= SessionMaxChunks
      <4> DEFINE a == SumFunction([l \in d.leases |-> l.chunks])
      <4>1. ~(q.session + a > SessionMaxChunks)
        BY <1>8, <2>4 DEF AdmissionBlocked
      <4>2. a = Leased(new, Relays)
        BY <1>3, <1>4, LeasedInAll
      <4>3. a \in Nat
        BY <1>4, <4>2, LeasedIsNat
      <4>4. q.session \in Nat
        BY <1>2 DEF GoodQuotas
      <4> HIDE DEF a
      <4>5. q.session + a <= SessionMaxChunks
        BY <2>a, <4>1, <4>3, <4>4
      <4>6. QED
        BY <4>5 DEF a
    <3>2. Leased(new, Relays) = SumFunction([l \in d.leases |-> l.chunks])
      BY <1>3, <1>4, LeasedInAll
    <3>3. \A u \in ts \ {t} : y[u].leases = x[u].leases
      BY <1>5, <2>1
    <3>4. ts = OfSession(req.job)
      BY <2>1, <2>4
    <3>5. q.session = ChunksLeased(x, ts, Relays)
      BY <1>2, <3>4
    <3>6. t \in ts
      BY <2>4
    <3> HIDE DEF ts
    <3>7. ChunksLeased(y, ts, Relays) = ChunksLeased(x, ts, Relays) + Leased(y[t], Relays)
      BY <1>1, <1>6, <2>1, <3>3, <3>6, MoreLeased
    <3>8. QED
      BY <1>5, <3>1, <3>2, <3>5, <3>7 DEF ts
  <2>5. QED
    BY <2>3, <2>4
<1>10. ASSUME NEW r \in Relays
       PROVE  ChunksLeased(y, Transfers, {r}) <= RelayMaxChunks
  <2>1. q.relay[r] = ChunksLeased(x, Transfers, {r}) /\ q.relay[r] \in Nat
        /\ q.relay[r] <= RelayMaxChunks
    BY <1>2 DEF GoodQuotas, Sound, WithinQuotas
  <2>2. RelayMaxChunks \in Nat
    BY PlannerAssumption
  <2> DEFINE n == RelayMaxChunks - q.relay[r]
  <2>3. n \in Nat
    BY <2>1, <2>2
  <2>4. ASSUME NEW l \in new.leases, l.relay = r
        PROVE  l.chunks <= n
    <3>1. ~(q.relay[l.relay] + l.chunks > RelayMaxChunks)
      BY <1>3, <1>8, <2>4 DEF AdmissionBlocked
    <3>2. l.chunks \in Nat
      BY <1>4 DEF GoodLeases, Lease
    <3>3. QED
      BY <2>1, <2>2, <2>4, <3>1, <3>2
  <2>5. \A l, m \in new.leases : l.relay = m.relay => l = m
    BY <1>2, <1>3, DecisionLeases DEF q
  <2> HIDE DEF n
  <2>6. Leased(new, {r}) \in Nat /\ Leased(new, {r}) <= n
    BY <1>4, <2>3, <2>4, <2>5, LeasedOnOne
  <2>7. \A u \in Transfers \ {t} : y[u].leases = x[u].leases
    BY <1>5
  <2>8. ChunksLeased(y, Transfers, {r}) = ChunksLeased(x, Transfers, {r}) + Leased(y[t], {r})
    BY <1>1, <1>6, <2>7, MoreLeased
  <2>9. QED
    BY <1>5, <2>1, <2>2, <2>6, <2>8 DEF n
<1>11. Sound(y)
  BY <1>5, <1>7, <1>9, <1>10 DEF Sound, WithinQuotas
<1>12. QED
  BY <1>11 DEF y, new

\* A transfer that ends gives back what it leased.
LEMMA LessIsSound ==
    ASSUME NEW x, Sound(x), NEW y \in [Transfers -> Transfer],
           \A t \in Transfers : GoodTransfer(y[t], RequestOf[t]),
           \A t \in Transfers : y[t].leases = x[t].leases \/ y[t].leases = {}
    PROVE  Sound(y)
<1>1. AllLeasesGood(x) /\ AllLeasesGood(y) /\ WithinQuotas(x)
  BY DEF Sound, AllLeasesGood, GoodLeases, GoodTransfer, Transfer
<1>2. ASSUME NEW ts \in SUBSET Transfers, NEW relays
      PROVE  /\ ChunksLeased(y, ts, relays) <= ChunksLeased(x, ts, relays)
             /\ ChunksLeased(y, ts, relays) \in Nat /\ ChunksLeased(x, ts, relays) \in Nat
  BY <1>1, LessLeased, ChunksLeasedIsNat
<1>3. ASSUME NEW j \in DOMAIN JobWeight
      PROVE  ChunksLeased(y, OfSession(j), Relays) <= SessionMaxChunks
  <2>1. OfSession(j) \in SUBSET Transfers
    BY DEF OfSession
  <2> DEFINE a == ChunksLeased(y, OfSession(j), Relays)
             b == ChunksLeased(x, OfSession(j), Relays)
  <2>2. a <= b /\ a \in Nat /\ b \in Nat
    BY <1>2, <2>1
  <2>3. b <= SessionMaxChunks /\ SessionMaxChunks \in Nat
    BY <1>1, PlannerAssumption DEF WithinQuotas
  <2> HIDE DEF a, b
  <2>4. a <= SessionMaxChunks
    BY <2>2, <2>3
  <2>5. QED
    BY <2>4 DEF a
<1>4. ASSUME NEW r \in Relays
      PROVE  ChunksLeased(y, Transfers, {r}) <= RelayMaxChunks
  <2> DEFINE a == ChunksLeased(y, Transfers, {r})
             b == ChunksLeased(x, Transfers, {r})
  <2>2. a <= b /\ a \in Nat /\ b \in Nat
    BY <1>2
  <2>3. b <= RelayMaxChunks /\ RelayMaxChunks \in Nat
    BY <1>1, PlannerAssumption DEF WithinQuotas
  <2> HIDE DEF a, b
  <2>4. a <= RelayMaxChunks
    BY <2>2, <2>3
  <2>5. QED
    BY <2>4 DEF a
<1>5. QED
  BY <1>3, <1>4 DEF Sound, WithinQuotas

-----------------------------------------------------------------------------
\* Promotion.

\* The transfers that wait.
Late(x) == {t \in Transfers : x[t].state = "delayed"}

\* A promotion, of whatever transfer, makes a record of the plan it decides on.
LEMMA PromotedType ==
    ASSUME NEW x \in Records, NEW t \in Transfers
    PROVE  Promoted(x, t) \in Records
<1> DEFINE q == QuotasFor(x, t)
           req == RequestOf[t]
           view == View(x, Unfinished(x) \ {t})
           d == Decision(view, req, q)
           new == Issue(x[t], d)
           z == Promoted(x, t)
<1>1. x \in [Transfers -> Transfer] /\ AllLeasesGood(x)
  BY DEF Records
<1>2. GoodQuotas(q)
  BY <1>1, QuotasAreGood
<1>3. GoodView(view)
  <2>1. Unfinished(x) \ {t} \in SUBSET Transfers
    BY DEF Unfinished
  <2>2. QED
    BY <1>1, <2>1, ViewIsGood
<1>4. req \in Request
  BY DataPlaneAssumption
<1> HIDE DEF q, req, view
<1>5. GoodDecision(d, req, q)
  BY <1>3, <1>4, DecisionFacts
<1>6. z = x \/ z = [x EXCEPT ![t] = new]
  BY DEF Promoted, PromotedBy, q, req, view
<1> HIDE DEF d, z
<1>7. GoodTransfer(new, req)
  <2>1. x[t] \in Transfer
    BY <1>1
  <2>2. QED
    BY <1>2, <1>5, <2>1, IssueFacts
<1>8. new \in Transfer /\ GoodLeases(new)
  BY <1>7 DEF GoodTransfer, GoodLeases, Transfer
<1> HIDE DEF new
<1>9. z \in [Transfers -> Transfer] /\ AllLeasesGood(z)
  BY <1>1, <1>6, <1>8 DEF AllLeasesGood
<1>10. QED
  BY <1>9 DEF Records, z

\* What the code visits: the delayed transfers, in any order.
Waiting(f, x) ==
    \A S \in SUBSET Late(x) :
        f[S] = IF S = {} THEN {x} ELSE UNION {{Promoted(y, t) : y \in f[S \ {t}]} : t \in S}

\* Refreshed is the last value of a function over the sets of delayed transfers.
LEMMA RefreshedExpanded ==
    ASSUME NEW x \in Records
    PROVE  \E f : Waiting(f, x) /\ Refreshed(x) = f[Late(x)]
<1> DEFINE ids == Late(x)
           Step(y, b) == {Promoted(y, b)}
           op == [b \in ids |-> [y \in Records |-> Step(y, b)]]
           To(g, done, b) == {Promoted(y, b) : y \in g[done \ {b}]}
           At(g, done) == IF done = {} THEN {x} ELSE UNION {To(g, done, b) : b \in done}
           After(g) == [done \in SUBSET ids |-> At(g, done)]
           f == CHOOSE g : g = After(g)
<1>1. IsFiniteSet(ids)
  BY DataPlaneAssumption, FS_Subset DEF Late
<1>2. op \in [ids -> [Records -> SUBSET Records]]
  BY PromotedType DEF Late
<1>3. \E g : g = After(g)
  <2>1. PICK g \in [SUBSET ids -> SUBSET Records] : Visiting(g, ids, x, op)
    <3> DEFINE W == Records
    <3>1. x \in W /\ op \in [ids -> [W -> SUBSET W]]
      BY <1>2
    <3> HIDE DEF op, ids, W
    <3>2. \E g \in [SUBSET ids -> SUBSET W] : Visiting(g, ids, x, op)
      BY <1>1, <3>1, VisitsExist
    <3>3. QED
      BY <3>2 DEF W
  <2> DEFINE By(done, b) == UNION {op[b][y] : y \in g[done \ {b}]}
             Bt(done) == IF done = {} THEN {x} ELSE UNION {By(done, b) : b \in done}
  <2>2. ASSUME NEW done \in SUBSET ids, NEW b \in done
        PROVE  By(done, b) = To(g, done, b)
    <3>1. b \in ids /\ g[done \ {b}] \subseteq Records
      BY <2>1
    <3>2. \A y \in g[done \ {b}] : op[b][y] = {Promoted(y, b)}
      BY <3>1
    <3> HIDE DEF op
    <3>3. ASSUME NEW z \in By(done, b)
          PROVE  z \in To(g, done, b)
      <4>1. PICK y \in g[done \ {b}] : z \in op[b][y]
        OBVIOUS
      <4>2. z = Promoted(y, b)
        BY <3>2, <4>1
      <4>3. QED
        BY <4>2
    <3>4. To(g, done, b) \subseteq By(done, b)
      BY <3>2
    <3>5. QED
      BY <3>3, <3>4
  <2>3. ASSUME NEW done \in SUBSET ids
        PROVE  Bt(done) = At(g, done)
    <3>1. \A b \in done : By(done, b) = To(g, done, b)
      BY <2>2
    <3> HIDE DEF By, To
    <3>2. {By(done, b) : b \in done} \subseteq {To(g, done, b) : b \in done}
      BY <3>1
    <3>3. {To(g, done, b) : b \in done} \subseteq {By(done, b) : b \in done}
      BY <3>1
    <3>4. {By(done, b) : b \in done} = {To(g, done, b) : b \in done}
      BY <3>2, <3>3
    <3>5. QED
      BY <3>4
  <2>4. g = [done \in SUBSET ids |-> Bt(done)]
    BY <2>1 DEF Visiting
  <2> HIDE DEF At, Bt
  <2>5. [done \in SUBSET ids |-> Bt(done)] = After(g)
    BY <2>3
  <2>6. QED
    BY <2>4, <2>5
<1>4. f = After(f)
  <2> HIDE DEF After
  <2>1. QED
    BY <1>3
<1>5. Refreshed(x) = f[ids]
  BY DEF Refreshed, Late
<1> HIDE DEF f
<1>6. \A S \in SUBSET ids : f[S] = At(f, S)
  <2> HIDE DEF At
  <2>1. QED
    BY <1>4
<1>7. Waiting(f, x)
  BY <1>6 DEF Waiting
<1>8. QED
  BY <1>5, <1>7

-----------------------------------------------------------------------------
\* Nobody waits for nothing.

\* A transfer is under way.
Busy(x) == \E t \in Transfers : x[t].state \in {"admitted", "running"}

\* Every transfer alone is within the quota of its session.
PlansFit == \A t \in Transfers : Len(Chunks(RequestOf[t])) <= SessionMaxChunks

\* Without leases nothing is leased.
LEMMA NothingLeased ==
    ASSUME NEW x, AllLeasesGood(x), NEW ts \in SUBSET Transfers, NEW relays,
           \A t \in ts : x[t].leases = {}
    PROVE  ChunksLeased(x, ts, relays) = 0
<1> DEFINE w == [t \in ts |-> Leased(x[t], relays)]
<1>1. Tallies(w, x, ts, relays)
  BY DEF Tallies
<1>2. \A t \in ts : w[t] = 0
  <2>1. \A t \in ts : GoodLeases(x[t]) /\ Leased(x[t], relays) = 0
    BY LeasedIsNat DEF AllLeasesGood
  <2>2. QED
    BY <2>1
<1> HIDE DEF w
<1>3. ChunksLeased(x, ts, relays) = SumFunctionOnSet(w, ts) /\ IsFiniteSet(ts)
  BY <1>1, ChunksLeasedFacts
<1>4. QED
  BY <1>2, <1>3, SumOfZeros

\* The delayed transfers hold nothing.
LEMMA LateHoldNothing ==
    ASSUME NEW x, Sound(x), NEW t \in Transfers, x[t].state \in {"none", "delayed"}
    PROVE  x[t].leases = {} /\ x[t].staging = {} /\ LeasedRelays(x[t]) = {}
<1>1. GoodTransfer(x[t], RequestOf[t])
  BY DEF Sound
<1>2. x[t].leases = {}
  BY <1>1 DEF GoodTransfer
<1>3. x[t].staging = {}
  BY <1>1 DEF GoodTransfer, NoTransfer
<1>4. QED
  BY <1>2, <1>3 DEF LeasedRelays

\* Relays that nobody uses are open, however many transfers wait.
LEMMA UnusedIsOpen ==
    ASSUME NEW x, Sound(x), ~Busy(x), NEW relay, NEW dir
    PROVE  ~RelayBlocked(View(x, Unfinished(x)), relay, dir)
<1> DEFINE view == View(x, Unfinished(x))
           on == Toward(Crossing(view, relay), dir)
           pressure == RelayPressure(view, relay, dir)
<1>1. GoodView(view)
  BY ViewIsGood DEF Sound, Unfinished
<1>2. ASSUME NEW r \in view
      PROVE  r.state = "delayed" /\ r.leases = {} /\ r.staging = {}
  <2>1. PICK t \in Unfinished(x) : r.state = x[t].state /\ r.leases = LeasedRelays(x[t])
                                   /\ r.staging = x[t].staging
    BY DEF View
  <2>2. t \in Transfers /\ x[t].state = "delayed"
    BY <2>1 DEF Unfinished, Busy
  <2>3. QED
    BY <2>1, <2>2, LateHoldNothing
<1> HIDE DEF view
<1>3. /\ Running(view) = {} /\ Admitted(view) = {} /\ Active(view) = {}
      /\ {r \in view : relay \in r.leases} = {} /\ {r \in view : relay \in r.staging} = {}
  BY <1>2 DEF Running, Admitted, Active, Loaded
<1>4. Crossing(view, relay) = {} /\ on = {}
  BY <1>3 DEF Crossing, Toward
<1>5. PathBytes({}, relay) = 0 /\ PathChunks({}, relay) = 0 /\ BytesIn({}) = 0
  <2>1. \A f : DOMAIN f = {} => SumFunction(f) = 0
    BY SumOfNone DEF SumFunction
  <2>2. PathBytes({}, relay) = 0
    BY <2>1 DEF PathBytes
  <2>3. PathChunks({}, relay) = 0
    BY <2>1 DEF PathChunks
  <2>4. BytesIn({}) = 0
    BY <2>1 DEF BytesIn
  <2>5. QED
    BY <2>2, <2>3, <2>4
<1>6. Cardinality({}) = 0
  BY FS_EmptySet
<1>7. LeasesOn(view, relay) = 0 /\ StagingOn(view, relay) = 0
  BY <1>3, <1>6 DEF LeasesOn, StagingOn
<1> DEFINE a == UpTo(Cardinality(Queued(view)), 8)
           b == UpTo(Cardinality(Delayed(view)), 8)
           c == Share(PathBytes({}, relay), BytesIn({}), 1)
<1>8. a \in 0..8 /\ b \in 0..8
  BY <1>1, ViewParts, Counted
<1>9. c = 0
  BY <1>5, ShareBounds
<1>10. WorkerShare \div 10 \in 0..100
  <2>1. WorkerShare \in 0..1000
    BY LoadAssumption
  <2>2. QED
    BY <2>1
<1>11. UpTo(0, 8) = 0 /\ UpTo(0, 32) = 0
  BY DEF UpTo
<1> DEFINE s == WorkerShare \div 10
<1>12. pressure = 200 * UpTo(0, 8) + 15 * UpTo(0, 32) + (60 + 50) * UpTo(0, 8)
                  + 80 * UpTo(0, 8) + s + (140 * c) \div 1000
                  + 15 * a + 20 * UpTo(0, 8) + 25 * b
  <2> HIDE DEF a, b, c, s, pressure
  <2>1. pressure = 200 * UpTo(Cardinality(on), 8) + 15 * UpTo(PathChunks(on, relay), 32)
       + (60 + 50) * UpTo(LeasesOn(view, relay), 8) + 80 * UpTo(StagingOn(view, relay), 8)
       + s
       + (140 * Share(PathBytes(on, relay), BytesIn(Active(view)), 1)) \div 1000
       + 15 * a + 20 * UpTo(Cardinality(Admitted(view)), 8)
       + 25 * b
    BY DEF RelayPressure, a, b, s, pressure
  <2>2. Cardinality(on) = 0 /\ PathChunks(on, relay) = 0 /\ Cardinality(Admitted(view)) = 0
        /\ Share(PathBytes(on, relay), BytesIn(Active(view)), 1) = c
    BY <1>3, <1>4, <1>5, <1>6 DEF c
  <2> HIDE DEF on
  <2>3. QED
    BY <1>7, <2>1, <2>2
<1> HIDE DEF a, b, c, s
<1>13. (140 * c) \div 1000 = 0
  BY <1>9
<1>14. pressure \in 0..420
  <2> HIDE DEF pressure
  <2>1. s \in 0..100
    BY <1>10 DEF s
  <2>2. pressure = s + 15 * a + 25 * b
    BY <1>8, <1>11, <1>12, <1>13, <2>1
  <2>3. QED
    BY <1>8, <2>1, <2>2
<1> HIDE DEF pressure, on
<1>15. ~PressureBlocks(view, relay, pressure)
  BY <1>14 DEF PressureBlocks
<1>16. ~RelayBlocked(view, relay, dir)
  BY <1>4, <1>15 DEF RelayBlocked, on, pressure
<1>17. QED
  BY <1>16 DEF view

\* While nothing is under way, no transfer that fits into its quota is blocked.
LEMMA Unblocked ==
    ASSUME NEW x, Sound(x), PlansFit, ~Busy(x), NEW t \in Transfers,
           NEW d, GoodDecision(d, RequestOf[t], QuotasFor(x, t)), NEW fair,
           fair => ~PrefersDirect(View(x, Unfinished(x)), RequestOf[t])
    PROVE  ~AdmissionBlocked(View(x, Unfinished(x)), RequestOf[t], QuotasFor(x, t), d.leases, fair)
<1> DEFINE q == QuotasFor(x, t)
           req == RequestOf[t]
           view == View(x, Unfinished(x))
<1>1. AllLeasesGood(x)
  BY DEF Sound, AllLeasesGood, GoodLeases, GoodTransfer, Transfer
<1>2. \A u \in Transfers : x[u].leases = {}
  <2> SUFFICES ASSUME NEW u \in Transfers
               PROVE  x[u].leases = {}
    OBVIOUS
  <2>1. GoodTransfer(x[u], RequestOf[u])
    BY DEF Sound
  <2>2. QED
    BY <2>1 DEF GoodTransfer, Busy
<1>3. /\ GoodQuotas(q) /\ q.session = 0 /\ \A r \in Relays : q.relay[r] = 0
      /\ q.assigned = Relays
  <2>1. OfSession(req.job) \in SUBSET Transfers
    BY DEF OfSession
  <2>2. ChunksLeased(x, OfSession(req.job), Relays) = 0
    BY <1>1, <1>2, <2>1, NothingLeased
  <2>3. \A r \in Relays : ChunksLeased(x, Transfers, {r}) = 0
    BY <1>1, <1>2, NothingLeased
  <2>4. /\ GoodQuotas(q) /\ q.session = ChunksLeased(x, OfSession(req.job), Relays)
        /\ \A r \in Relays : q.relay[r] = ChunksLeased(x, Transfers, {r})
    BY <1>1, QuotasAreGood
  <2>5. q.assigned = Relays
    BY DEF QuotasFor
  <2>6. QED
    BY <2>2, <2>3, <2>4, <2>5
<1>4. GoodDecision(d, req, q)
  OBVIOUS
<1>5. d.plan \in Seq(Assignment) /\ Len(ChunksOn(d.plan, All)) = Len(Chunks(req))
  BY <1>4 DEF GoodDecision, GoodPlan, PlanFor, All
<1>6. Len(Chunks(req)) <= SessionMaxChunks /\ Len(Chunks(req)) \in Nat
  <2>1. Chunks(req) \in Seq(Chunk)
    BY ChunksFacts, DataPlaneAssumption
  <2>2. QED
    BY <2>1 DEF PlansFit
<1>o. \A l \in d.leases : ~RelayBlocked(view, l.relay, req.dir)
  BY UnusedIsOpen
<1>p. fair => ~PrefersDirect(view, req)
  OBVIOUS
<1> HIDE DEF q, req, view
<1>7. CASE d.leases = {}
  BY <1>7 DEF AdmissionBlocked
<1>8. CASE d.leases # {}
  <2> DEFINE leases == LeasesFor(d.plan, q)
             n == SumFunction([l \in d.leases |-> l.chunks])
  <2>1. d.leases = leases
    BY <1>4, <1>8 DEF GoodDecision
  <2>2. SumFunction([l \in leases |-> l.chunks]) \in Nat
        /\ SumFunction([l \in leases |-> l.chunks]) <= Len(ChunksOn(d.plan, All))
    BY <1>3, <1>5, LeasedChunksOfPlan
  <2>3. /\ leases \in SUBSET Lease
        /\ \A l \in leases : l.chunks <= AtLeast(RelayMaxChunks - q.relay[l.relay], 0)
    BY <1>3, <1>5, LeasesForFacts
  <2> HIDE DEF leases
  <2>4. n \in Nat /\ n <= SessionMaxChunks
    <3>1. n \in Nat /\ n <= Len(ChunksOn(d.plan, All))
      BY <2>1, <2>2
    <3> HIDE DEF n
    <3>2. QED
      BY <1>5, <1>6, <3>1, PlannerAssumption
  <2>5. ~(q.session + n > SessionMaxChunks)
    <3> HIDE DEF n
    <3>1. QED
      BY <1>3, <2>4, PlannerAssumption
  <2>6. ASSUME NEW l \in d.leases
        PROVE  /\ l.relay \in q.assigned /\ ~(q.relay[l.relay] + l.chunks > RelayMaxChunks)
               /\ ~RelayBlocked(view, l.relay, req.dir)
    <3>1. l \in Lease /\ l.chunks <= AtLeast(RelayMaxChunks - q.relay[l.relay], 0)
      BY <2>1, <2>3
    <3>2. l.relay \in Relays /\ l.chunks \in Nat
      BY <3>1 DEF Lease
    <3>3. q.relay[l.relay] = 0
      BY <1>3, <3>2
    <3>4. l.chunks <= RelayMaxChunks
      BY <3>1, <3>2, <3>3, PlannerAssumption DEF AtLeast
    <3>5. QED
      BY <1>3, <1>o, <3>2, <3>3, <3>4, PlannerAssumption
  <2>7. ~AdmissionBlocked(view, req, q, d.leases, fair)
    BY <1>p, <2>5, <2>6 DEF AdmissionBlocked
  <2>8. QED
    BY <2>7 DEF q, req, view
<1>9. QED
  BY <1>7, <1>8

\* A delayed transfer may have been admitted; nothing else has changed.
Promotes(x, y) ==
    \A t \in Transfers : \/ y[t] = x[t]
                         \/ x[t].state = "delayed" /\ y[t].state = "admitted"

\* A delayed transfer waits for another.
NobodyWaits(x) == Busy(x) \/ Late(x) = {}

\* The promotion of one transfer.
LEMMA PromotionFacts ==
    ASSUME NEW x, Sound(x), NEW t \in Transfers, x[t].state = "delayed"
    PROVE  /\ Sound(Promoted(x, t))
           /\ \A u \in Transfers \ {t} : Promoted(x, t)[u] = x[u]
           /\ Promoted(x, t)[t] = x[t] \/ Promoted(x, t)[t].state = "admitted"
           /\ PlansFit /\ ~Busy(x) => Promoted(x, t)[t].state = "admitted"
<1> DEFINE q == QuotasFor(x, t)
           req == RequestOf[t]
           view == View(x, Unfinished(x))
           d == Decision(View(x, Unfinished(x) \ {t}), req, q)
           y == [x EXCEPT ![t] = Issue(x[t], d)]
           blocked == AdmissionBlocked(view, req, q, d.leases, FALSE)
<1>1. x \in [Transfers -> Transfer] /\ AllLeasesGood(x)
  BY DEF Sound, AllLeasesGood, GoodLeases, GoodTransfer, Transfer
<1>2. GoodDecision(d, req, q)
  <2>1. Unfinished(x) \ {t} \in SUBSET Transfers
    BY DEF Unfinished
  <2>2. GoodView(View(x, Unfinished(x) \ {t}))
    BY <1>1, <2>1, ViewIsGood
  <2>3. req \in Request
    BY DataPlaneAssumption
  <2> HIDE DEF q, req
  <2>4. QED
    BY <2>2, <2>3, DecisionFacts
<1> HIDE DEF d
<1>3. Promoted(x, t) = IF blocked THEN x ELSE y
  BY DEF Promoted, PromotedBy, d
<1>4. x[t].leases = {}
  BY LateHoldNothing
<1>5. ASSUME ~blocked
      PROVE  Sound(y)
  <2> DEFINE fair == FALSE
  <2>1. ~AdmissionBlocked(view, req, q, d.leases, fair)
    BY <1>5
  <2> HIDE DEF fair
  <2>2. QED
    BY <1>2, <1>4, <2>1, IssueWithinQuotas
<1>6. /\ \A u \in Transfers \ {t} : y[u] = x[u]
      /\ y[t].state = "admitted"
  <2>1. GoodQuotas(q)
    BY <1>1, QuotasAreGood
  <2>2. x[t] \in Transfer
    BY <1>1
  <2> HIDE DEF q
  <2>3. Issue(x[t], d).state = "admitted"
    BY <1>2, <2>1, <2>2, IssueFacts
  <2>4. QED
    BY <1>1, <2>3
<1>7. ASSUME PlansFit, ~Busy(x)
      PROVE  ~blocked
  <2> DEFINE fair == FALSE
  <2>1. fair => ~PrefersDirect(view, req)
    OBVIOUS
  <2>2. GoodDecision(d, req, q)
    BY <1>2
  <2>3. fair = FALSE
    OBVIOUS
  <2> HIDE DEF fair
  <2>4. ~AdmissionBlocked(view, req, q, d.leases, fair)
    BY <1>7, <2>1, <2>2, Unblocked
  <2>5. QED
    BY <2>3, <2>4
<1> HIDE DEF blocked, y
<1>8. QED
  BY <1>3, <1>5, <1>6, <1>7

\* Refreshing the admissions: sound, nothing but promotions, and nobody waits alone.
LEMMA RefreshedFacts ==
    ASSUME NEW x, Sound(x), NEW z \in Refreshed(x)
    PROVE  Sound(z) /\ Promotes(x, z) /\ (PlansFit => NobodyWaits(z))
<1> DEFINE ids == Late(x)
           Good(y, S) == /\ Sound(y) /\ Promotes(x, y)
                         /\ \A t \in Transfers \ S : y[t] = x[t]
                         /\ PlansFit /\ S # {} => Busy(y)
           W == [Transfers -> Transfer]
           V == [S \in SUBSET ids |-> {y \in W : Good(y, S)}]
<1>1. IsFiniteSet(ids) /\ ids \in SUBSET Transfers
  BY DataPlaneAssumption, FS_Subset DEF Late
<1>2. x \in Records
  BY DEF Sound, Records, AllLeasesGood, GoodLeases, GoodTransfer, Transfer
<1>3. PICK f : Waiting(f, x) /\ Refreshed(x) = f[ids]
  BY <1>2, RefreshedExpanded
<1>4. f[{}] \subseteq V[{}]
  <2>1. f[{}] = {x}
    BY <1>3 DEF Waiting
  <2>2. Good(x, {})
    BY DEF Promotes
  <2>3. QED
    BY <2>1, <2>2 DEF Sound
<1>5. ASSUME NEW S \in SUBSET ids, S # {}, NEW y \in f[S]
      PROVE  \E b \in S : \E u \in f[S \ {b}] : u \in V[S \ {b}] => y \in V[S]
  <2>1. y \in UNION {{Promoted(u, b) : u \in f[S \ {b}]} : b \in S}
    BY <1>3, <1>5 DEF Waiting
  <2>2. PICK b \in S : y \in {Promoted(u, b) : u \in f[S \ {b}]}
    BY <2>1
  <2>3. PICK u \in f[S \ {b}] : y = Promoted(u, b)
    BY <2>2
  <2>4. ASSUME u \in V[S \ {b}]
        PROVE  y \in V[S]
    <3>1. Good(u, S \ {b})
      BY <2>4
    <3>2. b \in Transfers /\ u[b] = x[b] /\ x[b].state = "delayed"
      BY <1>1, <3>1 DEF Late
    <3>3. /\ Sound(y) /\ \A t \in Transfers \ {b} : y[t] = u[t]
          /\ y[b] = u[b] \/ y[b].state = "admitted"
          /\ PlansFit /\ ~Busy(u) => y[b].state = "admitted"
      BY <2>3, <3>1, <3>2, PromotionFacts
    <3>4. Promotes(x, y)
      BY <3>1, <3>2, <3>3 DEF Promotes
    <3>5. \A t \in Transfers \ S : y[t] = x[t]
      BY <3>1, <3>3
    <3>6. ASSUME PlansFit
          PROVE  Busy(y)
      <4>1. CASE Busy(u)
        <5>1. PICK t \in Transfers : u[t].state \in {"admitted", "running"}
          BY <4>1 DEF Busy
        <5>2. t # b
          BY <3>2, <5>1
        <5>3. y[t] = u[t]
          BY <3>3, <5>2
        <5>4. QED
          BY <5>1, <5>3 DEF Busy
      <4>2. CASE ~Busy(u)
        <5>1. y[b].state = "admitted"
          BY <3>3, <3>6, <4>2
        <5>2. QED
          BY <3>2, <5>1 DEF Busy
      <4>3. QED
        BY <4>1, <4>2
    <3>7. Good(y, S)
      BY <3>3, <3>4, <3>5, <3>6
    <3>8. y \in W
      BY <3>3 DEF Sound
    <3> HIDE DEF Good, W
    <3>9. QED
      BY <3>7, <3>8
  <2>5. QED
    BY <2>3, <2>4
<1>6. f[ids] \subseteq V[ids]
  <2> HIDE DEF V, ids
  <2>1. QED
    BY <1>1, <1>4, <1>5, VisitsStay
<1>7. z \in V[ids]
  BY <1>3, <1>6
<1>8. Good(z, ids)
  BY <1>7
<1>9. ASSUME PlansFit
      PROVE  NobodyWaits(z)
  <2>1. CASE ids # {}
    BY <1>8, <1>9, <2>1 DEF NobodyWaits
  <2>2. CASE ids = {}
    <3>1. \A t \in Transfers : z[t] = x[t]
      BY <1>8, <2>2
    <3>2. Late(z) = {}
      BY <2>2, <3>1 DEF Late
    <3>3. QED
      BY <3>2 DEF NobodyWaits
  <2>3. QED
    BY <2>1, <2>2
<1>10. QED
  BY <1>8, <1>9

\* The admission of a new transfer.
LEMMA PlannedFacts ==
    ASSUME NEW x, Sound(x), NEW t \in Transfers, x[t].state = "none"
    PROVE  /\ Sound(Planned(x, t))
           /\ \A u \in Transfers \ {t} : Planned(x, t)[u] = x[u]
           /\ Planned(x, t)[t].state \in {"delayed", "admitted"}
           /\ PlansFit /\ NobodyWaits(x) => NobodyWaits(Planned(x, t))
<1> DEFINE q == QuotasFor(x, t)
           req == RequestOf[t]
           view == View(x, Unfinished(x))
           d == Decision(View(x, Unfinished(x)), req, q)
           fair == TRUE
           y == [x EXCEPT ![t] = Issue(x[t], d)]
           w == [x EXCEPT ![t] = Delay(x[t], d)]
           blocked == AdmissionBlocked(view, req, q, d.leases, fair)
           z == Planned(x, t)
<1>1. x \in [Transfers -> Transfer] /\ AllLeasesGood(x)
  BY DEF Sound, AllLeasesGood, GoodLeases, GoodTransfer, Transfer
<1>2. GoodDecision(d, req, q) /\ GoodQuotas(q)
  <2>1. Unfinished(x) \in SUBSET Transfers
    BY DEF Unfinished
  <2>2. GoodView(View(x, Unfinished(x)))
    BY <1>1, <2>1, ViewIsGood
  <2>3. req \in Request
    BY DataPlaneAssumption
  <2>4. GoodQuotas(q)
    BY <1>1, QuotasAreGood
  <2> HIDE DEF q, req
  <2>5. QED
    BY <2>2, <2>3, <2>4, DecisionFacts
<1> HIDE DEF d, fair
<1>3. z = IF blocked THEN w ELSE y
  <2>1. z = [x EXCEPT ![t] = IF blocked THEN Delay(x[t], d) ELSE Issue(x[t], d)]
    BY DEF Planned, AdmittedBy, d, fair
  <2> HIDE DEF blocked, z
  <2>2. QED
    BY <2>1
<1>4. x[t].leases = {} /\ x[t].staging = {} /\ x[t] \in Transfer
  BY <1>1, LateHoldNothing
<1>5. ASSUME ~blocked
      PROVE  Sound(y)
  BY <1>2, <1>4, <1>5, IssueWithinQuotas
<1>6. /\ y \in [Transfers -> Transfer] /\ (\A u \in Transfers \ {t} : y[u] = x[u])
      /\ y[t].state = "admitted"
  <2> HIDE DEF q
  <2>1. Issue(x[t], d).state = "admitted" /\ GoodTransfer(Issue(x[t], d), req)
    BY <1>2, <1>4, IssueFacts
  <2>2. Issue(x[t], d) \in Transfer
    BY <2>1 DEF GoodTransfer
  <2>3. QED
    BY <1>1, <2>1, <2>2
<1>7. /\ w \in [Transfers -> Transfer] /\ (\A u \in Transfers \ {t} : w[u] = x[u])
      /\ w[t].state = "delayed" /\ w[t].leases = {} /\ GoodTransfer(w[t], req)
  <2> HIDE DEF q, req
  <2>1. /\ Delay(x[t], d).state = "delayed" /\ Delay(x[t], d).leases = {}
        /\ GoodTransfer(Delay(x[t], d), req)
    BY <1>2, <1>4, DelayFacts
  <2>2. Delay(x[t], d) \in Transfer
    BY <2>1 DEF GoodTransfer
  <2>3. QED
    BY <1>1, <2>1, <2>2
<1>8. Sound(w)
  <2> HIDE DEF w
  <2>1. \A u \in Transfers : GoodTransfer(w[u], RequestOf[u])
    BY <1>7 DEF Sound
  <2>2. \A u \in Transfers : w[u].leases = x[u].leases \/ w[u].leases = {}
    BY <1>7
  <2>3. QED
    BY <1>7, <2>1, <2>2, LessIsSound
<1>9. ASSUME PlansFit, NobodyWaits(x), blocked
      PROVE  Busy(x)
  <2> SUFFICES ASSUME ~Busy(x)
               PROVE  FALSE
    OBVIOUS
  <2>1. Unfinished(x) = {}
    BY <1>9 DEF NobodyWaits, Busy, Unfinished, Late
  <2>2. view = {}
    BY <2>1 DEF View
  <2>3. fair => ~PrefersDirect(view, req)
    BY <2>2 DEF PrefersDirect
  <2>4. ~AdmissionBlocked(view, req, q, d.leases, fair)
    BY <1>2, <1>9, <2>3, Unblocked
  <2>5. QED
    BY <1>9, <2>4
<1>10. ASSUME PlansFit, NobodyWaits(x)
       PROVE  NobodyWaits(z)
  <2>1. CASE blocked
    <3>1. PICK u \in Transfers : x[u].state \in {"admitted", "running"}
      BY <1>9, <1>10, <2>1 DEF Busy
    <3>2. u # t
      BY <3>1
    <3>3. z[u] = x[u]
      BY <1>3, <1>7, <2>1, <3>2
    <3>4. QED
      BY <3>1, <3>3 DEF NobodyWaits, Busy
  <2>2. CASE ~blocked
    <3>1. z[t].state = "admitted"
      BY <1>3, <1>6, <2>2
    <3>2. QED
      BY <3>1 DEF NobodyWaits, Busy
  <2>3. QED
    BY <2>1, <2>2
<1> HIDE DEF blocked, y, w
<1>11. QED
  BY <1>3, <1>5, <1>6, <1>7, <1>8, <1>10

-----------------------------------------------------------------------------
\* The records of the blocks.

\* The same blocks, whatever their states.
SameBlocks(a, b) ==
    /\ a \in Seq(Block) /\ DOMAIN a = DOMAIN b
    /\ \A i \in DOMAIN a : a[i].chunk = b[i].chunk /\ a[i].generation = b[i].generation

\* Reports change nothing of a block but its state.
LEMMA BlockReports ==
    ASSUME NEW blocks \in Seq(Block)
    PROVE  /\ SameBlocks(BlocksRunning(blocks), blocks)
           /\ SameBlocks(BlocksCompleted(blocks), blocks)
           /\ \A i \in DOMAIN blocks : BlocksRunning(blocks)[i].state = "completed" =>
                                          blocks[i].state = "completed"
<1> DEFINE run(b) == IF b.state \in {"completed", "failed", "canceled"}
                     THEN b ELSE [b EXCEPT !.state = "running"]
           end(b) == [b EXCEPT !.state = "completed"]
<1>1. \A b \in Block : /\ run(b) \in Block /\ run(b).chunk = b.chunk
                       /\ run(b).generation = b.generation
                       /\ run(b).state = "completed" => b.state = "completed"
  BY DEF Block
<1>2. \A b \in Block : end(b) \in Block /\ end(b).chunk = b.chunk
                       /\ end(b).generation = b.generation
  BY DEF Block
<1>3. BlocksRunning(blocks) = [i \in DOMAIN blocks |-> run(blocks[i])]
  BY DEF BlocksRunning
<1>4. BlocksCompleted(blocks) = [i \in DOMAIN blocks |-> end(blocks[i])]
  BY DEF BlocksCompleted
<1>5. DOMAIN blocks = 1..Len(blocks) /\ Len(blocks) \in Nat
      /\ \A i \in DOMAIN blocks : blocks[i] \in Block
  OBVIOUS
<1> HIDE DEF run, end
<1> DEFINE u == [i \in DOMAIN blocks |-> run(blocks[i])]
           v == [i \in DOMAIN blocks |-> end(blocks[i])]
<1>6. u \in Seq(Block) /\ v \in Seq(Block)
  BY <1>1, <1>2, <1>5
<1>7. DOMAIN u = DOMAIN blocks /\ DOMAIN v = DOMAIN blocks
  OBVIOUS
<1>8. \A i \in DOMAIN blocks : u[i] = run(blocks[i]) /\ v[i] = end(blocks[i])
  OBVIOUS
<1> HIDE DEF u, v
<1>9. SameBlocks(u, blocks)
  BY <1>1, <1>5, <1>6, <1>7, <1>8 DEF SameBlocks
<1>10. SameBlocks(v, blocks)
  BY <1>2, <1>5, <1>6, <1>7, <1>8 DEF SameBlocks
<1>11. \A i \in DOMAIN blocks : u[i].state = "completed" => blocks[i].state = "completed"
  BY <1>1, <1>5, <1>8
<1>12. QED
  BY <1>3, <1>4, <1>9, <1>10, <1>11 DEF u, v

\* The blocks still follow the plan.
LEMMA StillFollows ==
    ASSUME NEW rec, NEW new, FollowsPlan(rec), SameBlocks(new.blocks, rec.blocks),
           new.plan = rec.plan, new.generation = rec.generation
    PROVE  FollowsPlan(new)
<1>1. \A i \in DOMAIN new.blocks : new.blocks[i].chunk = rec.blocks[i].chunk
                                   /\ new.blocks[i].generation = rec.blocks[i].generation
  BY DEF SameBlocks
<1>2. [i \in DOMAIN new.blocks |-> new.blocks[i].chunk] = [i \in DOMAIN rec.blocks |-> rec.blocks[i].chunk]
  BY <1>1 DEF SameBlocks
<1>3. \A i \in DOMAIN rec.blocks : rec.blocks[i].generation = rec.generation
  BY DEF FollowsPlan, ToSet
<1>4. \A b \in ToSet(new.blocks) : b.generation = new.generation
  BY <1>1, <1>3 DEF ToSet, SameBlocks
<1>5. QED
  BY <1>2, <1>4 DEF FollowsPlan

-----------------------------------------------------------------------------
\* The steps keep the invariant.

\* A report about a transfer, or its end.
LEMMA RecordChanges ==
    ASSUME NEW x, Sound(x), NEW t \in Transfers, x[t].state \in {"admitted", "running"},
           NEW new \in Transfer, new.state \in {"admitted", "running", "complete", "canceled"},
           new.plan = x[t].plan, new.generation = x[t].generation,
           SameBlocks(new.blocks, x[t].blocks),
           new.leases = {} \/ (new.leases = x[t].leases /\ new.state \in {"admitted", "running"}),
           new.state = "complete" \/ \A i \in DOMAIN x[t].blocks :
               new.blocks[i].state = "completed" => x[t].blocks[i].state = "completed"
    PROVE  Sound([x EXCEPT ![t] = new])
<1> DEFINE y == [x EXCEPT ![t] = new]
<1>1. x \in [Transfers -> Transfer] /\ GoodTransfer(x[t], RequestOf[t])
  BY DEF Sound
<1>2. y \in [Transfers -> Transfer] /\ y[t] = new /\ \A u \in Transfers \ {t} : y[u] = x[u]
  BY <1>1
<1>3. FollowsPlan(x[t]) /\ GoodPlan(x[t].plan, RequestOf[t])
  BY <1>1 DEF GoodTransfer
<1>4. FollowsPlan(new) /\ GoodPlan(new.plan, RequestOf[t])
  BY <1>3, StillFollows
<1>5. ASSUME NEW b \in ToSet(new.blocks), b.state = "completed"
      PROVE  new.state = "complete"
  <2>1. PICK i \in DOMAIN x[t].blocks : b = new.blocks[i]
    BY DEF ToSet, SameBlocks
  <2>2. x[t].blocks[i] \in ToSet(x[t].blocks)
    BY DEF ToSet
  <2>3. x[t].blocks[i].state # "completed"
    BY <1>1, <2>2 DEF GoodTransfer
  <2>4. QED
    BY <1>5, <2>1, <2>3
<1>6. IsFiniteSet(new.leases)
  BY <1>1, FS_EmptySet DEF GoodTransfer
<1>7. new.leases # {} => LeasedRelays(new) = RelaysOf(new.plan)
  BY <1>1 DEF GoodTransfer, LeasedRelays
<1>8. GoodTransfer(new, RequestOf[t])
  BY <1>4, <1>5, <1>6, <1>7 DEF GoodTransfer
<1> HIDE DEF y
<1>9. \A u \in Transfers : GoodTransfer(y[u], RequestOf[u])
  BY <1>2, <1>8 DEF Sound
<1>10. \A u \in Transfers : y[u].leases = x[u].leases \/ y[u].leases = {}
  BY <1>2
<1>11. Sound(y)
  BY <1>2, <1>9, <1>10, LessIsSound
<1>12. QED
  BY <1>11 DEF y

\* What Retired changes.
LEMMA RetiredIs ==
    ASSUME NEW x \in [Transfers -> Transfer], NEW t \in Transfers, NEW s \in {"canceled", "complete"}
    PROVE  Retired(x, t, s) = [x EXCEPT ![t] = [x[t] EXCEPT !.state = s, !.leases = {}, !.staging = {}]]
<1> DEFINE r == x[t]
           r1 == [r EXCEPT !.state = s]
           r2 == [r1 EXCEPT !.leases = {}]
           r3 == [r2 EXCEPT !.staging = {}]
           a == [x EXCEPT ![t] = r1]
           b == [a EXCEPT ![t] = r2]
           c == [b EXCEPT ![t] = r3]
<1>1. r \in Transfer
  OBVIOUS
<1>2. r1 \in Transfer /\ r2 \in Transfer /\ r3 \in Transfer
  BY <1>1 DEF Transfer
<1>3. Retired(x, t, s) = [[[x EXCEPT ![t].state = s] EXCEPT ![t].leases = {}] EXCEPT ![t].staging = {}]
  BY DEF Retired
<1>4. [x EXCEPT ![t].state = s] = a
  OBVIOUS
<1> HIDE DEF r1
<1>5. a[t] = r1 /\ a \in [Transfers -> Transfer]
  BY <1>2
<1> HIDE DEF a
<1>6. [a EXCEPT ![t].leases = {}] = b
  BY <1>5
<1> HIDE DEF r2
<1>7. b[t] = r2 /\ b \in [Transfers -> Transfer]
  BY <1>2, <1>5
<1>8. [b EXCEPT ![t].staging = {}] = c
  <2> HIDE DEF b
  <2>1. QED
    BY <1>7 DEF r3
<1>9. Retired(x, t, s) = c
  BY <1>3, <1>4, <1>6, <1>8
<1> HIDE DEF r3
<1>10. c = [x EXCEPT ![t] = r3]
  BY DEF a
<1>11. r3 = [x[t] EXCEPT !.state = s, !.leases = {}, !.staging = {}]
  BY DEF r1, r2, r3
<1>12. QED
  BY <1>9, <1>10, <1>11

\* The end of a transfer that leaves its blocks as they are.
LEMMA RetiredFacts ==
    ASSUME NEW x, Sound(x), NEW t \in Transfers, x[t].state \in {"admitted", "running"}
    PROVE  LET y == Retired(x, t, "canceled")
           IN /\ Sound(y) /\ \A u \in Transfers \ {t} : y[u] = x[u]
              /\ y[t].state = "canceled" /\ y[t].plan = x[t].plan
              /\ y[t].generation = x[t].generation
<1> DEFINE new == [x[t] EXCEPT !.state = "canceled", !.leases = {}, !.staging = {}]
           y == Retired(x, t, "canceled")
<1>1. x \in [Transfers -> Transfer]
  BY DEF Sound
<1>2. x[t] \in Transfer
  BY <1>1
<1>3. y = [x EXCEPT ![t] = new]
  BY <1>1, RetiredIs
<1>4. new \in Transfer
  BY <1>2 DEF Transfer
<1>5. /\ new.state = "canceled" /\ new.plan = x[t].plan /\ new.generation = x[t].generation
      /\ new.blocks = x[t].blocks /\ new.leases = {}
  BY <1>2 DEF Transfer
<1> HIDE DEF new
<1>6. SameBlocks(new.blocks, x[t].blocks)
  BY <1>2, <1>5 DEF SameBlocks, Transfer
<1>7. Sound([x EXCEPT ![t] = new])
  BY <1>4, <1>5, <1>6, RecordChanges
<1>8. QED
  BY <1>1, <1>3, <1>5, <1>7

\* The end of a transfer whose blocks are completed with it.
LEMMA CompletedFacts ==
    ASSUME NEW x, Sound(x), NEW t \in Transfers, x[t].state \in {"admitted", "running"}
    PROVE  LET y == [Retired(x, t, "complete") EXCEPT ![t].blocks = BlocksCompleted(@)]
           IN /\ Sound(y) /\ \A u \in Transfers \ {t} : y[u] = x[u]
              /\ y[t].state = "complete" /\ y[t].plan = x[t].plan
              /\ y[t].generation = x[t].generation
<1> DEFINE blocks == BlocksCompleted(x[t].blocks)
           new == [x[t] EXCEPT !.state = "complete", !.leases = {}, !.staging = {}, !.blocks = blocks]
           y == [Retired(x, t, "complete") EXCEPT ![t].blocks = BlocksCompleted(@)]
<1>1. x \in [Transfers -> Transfer]
  BY DEF Sound
<1>2. x[t] \in Transfer /\ x[t].blocks \in Seq(Block)
  <2>1. x[t] \in Transfer
    BY <1>1
  <2>2. QED
    BY <2>1 DEF Transfer
<1>a. SameBlocks(blocks, x[t].blocks)
  BY <1>2, BlockReports
<1>b. blocks \in Seq(Block)
  BY <1>a DEF SameBlocks
<1>3. y = [x EXCEPT ![t] = new]
  <2> DEFINE z == Retired(x, t, "complete")
             r == [x[t] EXCEPT !.state = "complete", !.leases = {}, !.staging = {}]
  <2>1. z = [x EXCEPT ![t] = r]
    BY <1>1, RetiredIs
  <2>2. z[t] = r /\ r.blocks = x[t].blocks /\ DOMAIN z = Transfers
    BY <1>1, <1>2, <2>1 DEF Transfer
  <2> HIDE DEF blocks, z
  <2>3. y = [z EXCEPT ![t] = [r EXCEPT !.blocks = blocks]]
    BY <2>2 DEF blocks, z
  <2>4. [r EXCEPT !.blocks = blocks] = new
    OBVIOUS
  <2> HIDE DEF new, r, y
  <2>5. y = [z EXCEPT ![t] = new]
    BY <2>3, <2>4
  <2>6. QED
    BY <2>1, <2>5
<1>4. new \in Transfer
  BY <1>2, <1>b DEF Transfer
<1>5. /\ new.state = "complete" /\ new.plan = x[t].plan /\ new.generation = x[t].generation
      /\ new.blocks = blocks /\ new.leases = {}
  BY <1>2 DEF Transfer
<1> HIDE DEF new, blocks
<1>6. SameBlocks(new.blocks, x[t].blocks)
  BY <1>5, <1>a
<1>7. Sound([x EXCEPT ![t] = new])
  BY <1>4, <1>5, <1>6, RecordChanges
<1>8. QED
  BY <1>1, <1>3, <1>5, <1>7

\* A worker of a transfer that the daemon admits, or that goes on.
LEMMA WorkerLater ==
    ASSUME NEW w, NEW rec, NEW c, GoodWorker(w, rec, c), NEW new,
           \/ new = rec
           \/ rec.state \in {"none", "delayed"} /\ new.state # "complete"
    PROVE  GoodWorker(w, new, c)
  BY DEF GoodWorker

\* A worker of a transfer whose plan stays as it is.
LEMMA WorkerAfter ==
    ASSUME NEW w, NEW rec, NEW c, GoodWorker(w, rec, c), NEW new,
           rec.state \in {"admitted", "running"},
           new.plan = rec.plan, new.generation = rec.generation,
           new.state \in {"admitted", "running", "canceled"}
    PROVE  GoodWorker(w, new, c)
  BY DEF GoodWorker

\* The workers of transfers that the daemon promotes.
LEMMA WorkersLater ==
    ASSUME NEW x, NEW y, Promotes(x, y), NEW w, NEW c,
           \A t \in Transfers : GoodWorker(w[t], x[t], c[t])
    PROVE  \A t \in Transfers : GoodWorker(w[t], y[t], c[t])
<1> SUFFICES ASSUME NEW t \in Transfers
             PROVE  GoodWorker(w[t], y[t], c[t])
  OBVIOUS
<1> DEFINE rec == x[t]
           new == y[t]
           v == w[t]
           d == c[t]
<1>1. GoodWorker(v, rec, d)
  OBVIOUS
<1>2. \/ new = rec
      \/ rec.state \in {"none", "delayed"} /\ new.state # "complete"
  BY DEF Promotes
<1> HIDE DEF rec, new, v, d
<1>3. GoodWorker(v, new, d)
  BY <1>1, <1>2, WorkerLater
<1>4. QED
  BY <1>3 DEF v, new, d

\* What the invariant says of one transfer.
LEMMA InvOfOne ==
    ASSUME DataPlaneInv, NEW t \in Transfers
    PROVE  /\ xfer[t] \in Transfer /\ GoodTransfer(xfer[t], RequestOf[t])
           /\ GoodWorker(worker[t], xfer[t], copied[t])
           /\ worker[t] \in WorkerRecord /\ copied[t] \in Seq(Chunk)
  BY DEF DataPlaneInv, Sound, GoodTransfer, GoodWorker

\* A step that leaves the workers alone.
LEMMA RefreshKeeps ==
    ASSUME DataPlaneInv, NEW y, Sound(y),
           \A t \in Transfers : GoodWorker(worker[t], y[t], copied[t]),
           xfer' \in Refreshed(y), UNCHANGED <<worker, copied>>
    PROVE  DataPlaneInv'
<1>1. Sound(xfer') /\ Promotes(y, xfer')
  BY RefreshedFacts
<1>2. \A t \in Transfers : GoodWorker(worker[t], xfer'[t], copied[t])
  BY <1>1, WorkersLater
<1> DEFINE z == xfer'
<1>3. Sound(z) /\ \A t \in Transfers : GoodWorker(worker[t], z[t], copied[t])
  BY <1>1, <1>2
<1>4. /\ worker' = worker /\ copied' = copied
      /\ worker \in [Transfers -> WorkerRecord] /\ copied \in [Transfers -> Seq(Chunk)]
  BY DEF DataPlaneInv
<1>5. QED
  BY <1>3, <1>4 DEF DataPlaneInv, Sound, WithinQuotas

\* A poll refreshes the delayed transfers and keeps the invariant.
LEMMA PollKeeps ==
    ASSUME DataPlaneInv, Poll
    PROVE  DataPlaneInv'
<1>1. Sound(xfer) /\ \A t \in Transfers : GoodWorker(worker[t], xfer[t], copied[t])
  BY DEF DataPlaneInv
<1>2. xfer' \in Refreshed(xfer) /\ UNCHANGED <<worker, copied>>
  BY DEF Poll
<1>3. QED
  BY <1>1, <1>2, RefreshKeeps

\* A submission plans and admits a transfer, or delays it, and keeps the invariant.
LEMMA SubmitKeeps ==
    ASSUME DataPlaneInv, NEW t \in Transfers, Submit(t)
    PROVE  DataPlaneInv'
<1>1. PICK x \in Refreshed(xfer) : xfer' = Planned(x, t)
  BY DEF Submit
<1>2. xfer[t].state = "none" /\ UNCHANGED <<worker, copied>>
  BY DEF Submit
<1>3. Sound(x) /\ Promotes(xfer, x)
  BY RefreshedFacts DEF DataPlaneInv
<1>4. x[t] = xfer[t]
  BY <1>2, <1>3 DEF Promotes
<1> DEFINE z == Planned(x, t)
<1>5. /\ Sound(z) /\ \A u \in Transfers \ {t} : z[u] = x[u]
      /\ z[t].state \in {"delayed", "admitted"}
  BY <1>2, <1>3, <1>4, PlannedFacts
<1> HIDE DEF z
<1>6. ASSUME NEW u \in Transfers
      PROVE  GoodWorker(worker[u], z[u], copied[u])
  <2>1. GoodWorker(worker[u], x[u], copied[u])
    <3>1. \A v \in Transfers : GoodWorker(worker[v], xfer[v], copied[v])
      BY DEF DataPlaneInv
    <3>2. \A v \in Transfers : GoodWorker(worker[v], x[v], copied[v])
      BY <1>3, <3>1, WorkersLater
    <3>3. QED
      BY <3>2
  <2> DEFINE w == worker[u]
             c == copied[u]
             rec == x[u]
             new == z[u]
  <2>2. GoodWorker(w, rec, c)
    BY <2>1
  <2>3. \/ new = rec
        \/ rec.state \in {"none", "delayed"} /\ new.state # "complete"
    BY <1>2, <1>4, <1>5
  <2> HIDE DEF w, c, rec, new
  <2>4. GoodWorker(w, new, c)
    BY <2>2, <2>3, WorkerLater
  <2>5. QED
    BY <2>4 DEF w, c, new
<1>7. xfer' = z
  BY <1>1 DEF z
<1>8. QED
  BY <1>2, <1>5, <1>6, <1>7 DEF DataPlaneInv, Sound, WithinQuotas

\* An expired transfer keeps the invariant (server.py, the expiry of leases).
LEMMA ExpireKeeps ==
    ASSUME DataPlaneInv, NEW t \in Transfers, Expire(t)
    PROVE  DataPlaneInv'
<1> DEFINE y == Retired(xfer, t, "canceled")
<1>1. xfer[t].state \in {"admitted", "running"} /\ xfer' \in Refreshed(y)
      /\ UNCHANGED <<worker, copied>>
  BY DEF Expire
<1>2. /\ Sound(y) /\ \A u \in Transfers \ {t} : y[u] = xfer[u]
      /\ y[t].state = "canceled" /\ y[t].plan = xfer[t].plan
      /\ y[t].generation = xfer[t].generation
  BY <1>1, RetiredFacts DEF DataPlaneInv
<1> HIDE DEF y
<1>3. \A u \in Transfers : GoodWorker(worker[u], xfer[u], copied[u])
  BY DEF DataPlaneInv
<1>4. GoodWorker(worker[t], y[t], copied[t])
  BY <1>1, <1>2, <1>3 DEF GoodWorker
<1>5. \A u \in Transfers : GoodWorker(worker[u], y[u], copied[u])
  BY <1>2, <1>3, <1>4
<1>6. QED
  BY <1>1, <1>2, <1>5, RefreshKeeps

\* A step of one worker about a record that the daemon keeps.
LEMMA OneWorkerKeeps ==
    ASSUME DataPlaneInv, NEW t \in Transfers, NEW new, NEW w \in WorkerRecord, NEW c \in Seq(Chunk),
           Sound([xfer EXCEPT ![t] = new]), GoodWorker(w, new, c),
           xfer' = [xfer EXCEPT ![t] = new], worker' = [worker EXCEPT ![t] = w],
           copied' = [copied EXCEPT ![t] = c]
    PROVE  DataPlaneInv'
<1>1. DOMAIN xfer = Transfers /\ DOMAIN worker = Transfers /\ DOMAIN copied = Transfers
      /\ \A u \in Transfers : GoodWorker(worker[u], xfer[u], copied[u])
  BY DEF DataPlaneInv, Sound
<1>2. \A u \in Transfers : GoodWorker(worker'[u], xfer'[u], copied'[u])
  <2> SUFFICES ASSUME NEW u \in Transfers
               PROVE  GoodWorker(worker'[u], xfer'[u], copied'[u])
    OBVIOUS
  <2>1. CASE u = t
    <3>1. worker'[u] = w /\ xfer'[u] = new /\ copied'[u] = c
      BY <1>1, <2>1
    <3>2. QED
      BY <3>1
  <2>2. CASE u # t
    <3>1. worker'[u] = worker[u] /\ xfer'[u] = xfer[u] /\ copied'[u] = copied[u]
      BY <1>1, <2>2
    <3>2. QED
      BY <1>1, <3>1
  <2>3. QED
    BY <2>1, <2>2
<1>3. worker' \in [Transfers -> WorkerRecord] /\ copied' \in [Transfers -> Seq(Chunk)]
  BY DEF DataPlaneInv
<1>4. Sound(xfer')
  OBVIOUS
<1>5. QED
  BY <1>2, <1>3, <1>4 DEF DataPlaneInv, Sound, WithinQuotas

\* The authorization of a worker hands it the plan of the ticket and keeps the invariant.
LEMMA AuthorizeKeeps ==
    ASSUME DataPlaneInv, NEW t \in Transfers, Authorize(t)
    PROVE  DataPlaneInv'
<1> DEFINE rec == xfer[t]
           relays == LeasedRelays(rec)
           taken == LeasesMatch(rec.plan, rec.leases)
                    /\ PlanAccepted(rec.plan, relays, RelayRanges(rec.plan, relays))
           new == [rec EXCEPT !.staging = relays]
           w == [pc |-> "accepted", plan |-> ExactPlan(rec.plan), generation |-> rec.generation]
           c == copied[t]
<1>1. /\ worker[t].pc = "idle" /\ rec.state = "admitted" /\ rec.leases # {}
      /\ xfer' = [xfer EXCEPT ![t].staging = relays]
      /\ worker' = [worker EXCEPT ![t] =
             [pc |-> IF taken THEN "accepted" ELSE "refused", plan |-> ExactPlan(rec.plan),
              generation |-> rec.generation]]
      /\ copied' = copied
  BY DEF Authorize
<1>2. rec \in Transfer /\ GoodTransfer(rec, RequestOf[t]) /\ GoodWorker(worker[t], rec, c)
  BY InvOfOne
<1>3. rec.plan \in Seq(Assignment) /\ rec.blocks \in Seq(Block) /\ rec.leases \in SUBSET Lease
      /\ rec.generation \in Nat
  BY <1>2 DEF Transfer
<1>4. relays = RelaysOf(rec.plan)
  BY <1>1, <1>2 DEF GoodTransfer
<1>5. taken
  <2>1. {l.relay : l \in rec.leases} = RelaysOf(rec.plan)
    BY <1>4 DEF LeasedRelays
  <2> DEFINE plan == rec.plan
             leases == rec.leases
  <2>2. plan \in Seq(Assignment) /\ leases # {} /\ {l.relay : l \in leases} = RelaysOf(plan)
    BY <1>1, <1>3, <2>1
  <2> HIDE DEF plan, leases
  <2>3. LeasesMatch(plan, leases) /\ PlanAccepted(plan, RelaysOf(plan), RelayRanges(plan, RelaysOf(plan)))
    BY <2>2, PlanIsAccepted
  <2>4. QED
    BY <1>4, <2>3 DEF plan, leases
<1>6. worker' = [worker EXCEPT ![t] = w]
  BY <1>1, <1>5
<1>7. relays \subseteq Relays
  BY <1>3 DEF LeasedRelays, Lease
<1> HIDE DEF relays, taken
<1>8. new \in Transfer
  BY <1>2, <1>7 DEF Transfer
<1>9. /\ new.state = "admitted" /\ new.plan = rec.plan /\ new.generation = rec.generation
      /\ new.blocks = rec.blocks /\ new.leases = rec.leases
  BY <1>1, <1>2 DEF Transfer
<1>a. xfer' = [xfer EXCEPT ![t] = new]
  BY <1>1
<1>10. SameBlocks(new.blocks, rec.blocks)
  BY <1>3, <1>9 DEF SameBlocks
<1> HIDE DEF new
<1>11. Sound([xfer EXCEPT ![t] = new])
  BY <1>1, <1>8, <1>9, <1>10, RecordChanges DEF DataPlaneInv
<1>12. ExactPlan(rec.plan) \in Seq(Assignment)
  BY <1>3, ExactChunks
<1>13. GoodWorker(w, new, c)
  <2>1. c = <<>>
    BY <1>1, <1>2 DEF GoodWorker
  <2>2. QED
    BY <1>9, <2>1 DEF GoodWorker
<1>14. copied' = [copied EXCEPT ![t] = c] /\ c \in Seq(Chunk)
  BY <1>1 DEF DataPlaneInv
<1>15. w \in WorkerRecord
  BY <1>3, <1>12 DEF WorkerRecord
<1> HIDE DEF w, c
<1>16. QED
  BY <1>15, <1>6, <1>a, <1>11, <1>13, <1>14, OneWorkerKeeps

\* A report of a running transfer keeps the invariant.
LEMMA ReportRunningKeeps ==
    ASSUME DataPlaneInv, NEW t \in Transfers, ReportRunning(t)
    PROVE  DataPlaneInv'
<1> DEFINE rec == xfer[t]
           c == copied[t]
<1>2. rec \in Transfer /\ GoodTransfer(rec, RequestOf[t]) /\ GoodWorker(worker[t], rec, c)
      /\ worker[t] \in WorkerRecord
  BY InvOfOne
<1>3. rec.blocks \in Seq(Block)
  BY <1>2 DEF Transfer
<1>4. copied' = [copied EXCEPT ![t] = c] /\ worker[t].pc = "accepted" /\ c \in Seq(Chunk)
  BY DEF ReportRunning, DataPlaneInv
<1>5. CASE Current(t)
  <2> DEFINE blocks == BlocksRunning(rec.blocks)
             new == [rec EXCEPT !.state = "running", !.blocks = blocks]
             w == [worker[t] EXCEPT !.pc = "copying"]
  <2>1. /\ xfer' = [xfer EXCEPT ![t].state = "running", ![t].blocks = BlocksRunning(@)]
        /\ worker' = [worker EXCEPT ![t].pc = "copying"]
    BY <1>5 DEF ReportRunning
  <2>2. rec.state \in {"admitted", "running"}
    BY <1>5 DEF Current
  <2>3. SameBlocks(blocks, rec.blocks) /\ \A i \in DOMAIN rec.blocks :
            blocks[i].state = "completed" => rec.blocks[i].state = "completed"
    BY <1>3, BlockReports
  <2>4. blocks \in Seq(Block)
    BY <2>3 DEF SameBlocks
  <2>5. xfer' = [xfer EXCEPT ![t] = new]
    <3> DEFINE r == [rec EXCEPT !.state = "running"]
               x == [xfer EXCEPT ![t] = r]
    <3>1. DOMAIN xfer = Transfers
      BY DEF DataPlaneInv, Sound
    <3>2. xfer' = [[xfer EXCEPT ![t].state = "running"] EXCEPT ![t].blocks = BlocksRunning(@)]
      BY <2>1
    <3>3. [xfer EXCEPT ![t].state = "running"] = x
      OBVIOUS
    <3>4. x[t] = r /\ r.blocks = rec.blocks
      BY <1>2, <3>1 DEF Transfer
    <3> HIDE DEF x, r, blocks
    <3>5. xfer' = [x EXCEPT ![t] = [r EXCEPT !.blocks = blocks]]
      BY <3>2, <3>3, <3>4 DEF blocks
    <3>6. [r EXCEPT !.blocks = blocks] = new
      BY DEF r
    <3> HIDE DEF new
    <3>7. QED
      BY <3>5, <3>6 DEF x
  <2>6. new \in Transfer
    BY <1>2, <2>4 DEF Transfer
  <2>7. /\ new.state = "running" /\ new.plan = rec.plan /\ new.generation = rec.generation
        /\ new.blocks = blocks /\ new.leases = rec.leases
    BY <1>2 DEF Transfer
  <2>8. worker' = [worker EXCEPT ![t] = w]
    BY <2>1
  <2> HIDE DEF new, blocks
  <2>9. Sound([xfer EXCEPT ![t] = new])
    BY <2>2, <2>3, <2>6, <2>7, RecordChanges DEF DataPlaneInv
  <2>10. GoodWorker(w, new, c)
    <3>1. w \in WorkerRecord /\ w.pc = "copying" /\ w.plan = worker[t].plan
          /\ w.generation = worker[t].generation
      BY <1>2 DEF WorkerRecord
    <3> HIDE DEF w
    <3>2. QED
      BY <1>2, <1>4, <2>7, <3>1 DEF GoodWorker
  <2>11. w \in WorkerRecord
    BY <1>2 DEF WorkerRecord
  <2> HIDE DEF w, c
  <2>12. QED
    BY <2>11, <1>4, <2>5, <2>8, <2>9, <2>10, OneWorkerKeeps
<1>6. CASE ~Current(t)
  <2> DEFINE w == [worker[t] EXCEPT !.pc = "failed"]
  <2>1. worker' = [worker EXCEPT ![t] = w] /\ xfer' = [xfer EXCEPT ![t] = rec]
    BY <1>6 DEF ReportRunning, DataPlaneInv, Sound
  <2>2. Sound([xfer EXCEPT ![t] = rec])
    <3>1. [xfer EXCEPT ![t] = rec] = xfer
      BY DEF DataPlaneInv, Sound
    <3>2. QED
      BY <3>1 DEF DataPlaneInv
  <2>3. GoodWorker(w, rec, c)
    <3>1. w \in WorkerRecord /\ w.pc = "failed" /\ w.plan = worker[t].plan
          /\ w.generation = worker[t].generation
      BY <1>2 DEF WorkerRecord
    <3> HIDE DEF w, rec
    <3>2. QED
      BY <1>2, <1>4, <3>1 DEF GoodWorker
  <2>4. w \in WorkerRecord
    BY <1>2 DEF WorkerRecord
  <2> HIDE DEF w, rec, c
  <2>5. QED
    BY <2>4, <1>4, <2>1, <2>2, <2>3, OneWorkerKeeps
<1>7. QED
  BY <1>5, <1>6

\* A step of one worker that the daemon does not see.
LEMMA UnseenKeeps ==
    ASSUME DataPlaneInv, NEW t \in Transfers, NEW w \in WorkerRecord, NEW c \in Seq(Chunk),
           GoodWorker(w, xfer[t], c), xfer' = xfer,
           worker' = [worker EXCEPT ![t] = w], copied' = [copied EXCEPT ![t] = c]
    PROVE  DataPlaneInv'
<1> DEFINE rec == xfer[t]
<1>1. xfer = [xfer EXCEPT ![t] = rec]
  BY DEF DataPlaneInv, Sound
<1>2. Sound([xfer EXCEPT ![t] = rec]) /\ xfer' = [xfer EXCEPT ![t] = rec]
  BY <1>1 DEF DataPlaneInv
<1>3. GoodWorker(w, rec, c)
  OBVIOUS
<1> HIDE DEF rec
<1>4. QED
  BY <1>2, <1>3, OneWorkerKeeps

\* A worker that copies keeps the invariant: its chunks are those of its plan on relays.
LEMMA CopyKeeps ==
    ASSUME DataPlaneInv, NEW t \in Transfers, Copy(t)
    PROVE  DataPlaneInv'
<1> DEFINE rec == xfer[t]
           chunks == ChunksOn(worker[t].plan, Relays)
           c == copied[t]
<1>1. /\ rec \in Transfer /\ GoodWorker(worker[t], rec, c)
      /\ worker[t] \in WorkerRecord /\ c \in Seq(Chunk)
  BY InvOfOne
<1>2. worker[t].plan \in Seq(Assignment)
  BY <1>1 DEF WorkerRecord
<1>3. chunks \in Seq(Chunk)
  <2> DEFINE plan == worker[t].plan
  <2>1. plan \in Seq(Assignment)
    BY <1>2
  <2> HIDE DEF plan
  <2>2. ChunksOn(plan, Relays) \in Seq(Chunk)
    BY <2>1, ChunksAreFlat
  <2>3. QED
    BY <2>2 DEF plan
<1>4. worker[t].pc = "copying" /\ xfer' = xfer /\ c = <<>>
  BY <1>1 DEF Copy, GoodWorker
<1>5. rec.state \notin {"none", "delayed", "complete"}
  BY <1>1, <1>4 DEF GoodWorker
<1>6. CASE /\ copied' = [copied EXCEPT ![t] = @ \o chunks]
           /\ worker' = [worker EXCEPT ![t].pc = "complete"]
  <2> DEFINE w == [worker[t] EXCEPT !.pc = "complete"]
  <2>1. worker' = [worker EXCEPT ![t] = w]
    BY <1>6
  <2>2. copied' = [copied EXCEPT ![t] = c \o chunks]
    BY <1>6
  <2>3. c \o chunks = chunks
    BY <1>3, <1>4
  <2>4. /\ w \in WorkerRecord /\ w.pc = "complete" /\ w.plan = worker[t].plan
        /\ w.generation = worker[t].generation
    BY <1>1 DEF WorkerRecord
  <2> HIDE DEF w
  <2>5. GoodWorker(w, rec, chunks)
    BY <1>1, <1>4, <1>5, <2>4 DEF GoodWorker
  <2>6. copied' = [copied EXCEPT ![t] = chunks]
    BY <2>2, <2>3
  <2> HIDE DEF chunks
  <2>7. QED
    BY <1>3, <1>4, <2>1, <2>4, <2>5, <2>6, UnseenKeeps
<1>7. ASSUME NEW k \in 0..(Len(chunks) - 1),
             copied' = [copied EXCEPT ![t] = @ \o SubSeq(chunks, 1, k)],
             worker' = [worker EXCEPT ![t].pc = "failed"]
      PROVE  DataPlaneInv'
  <2> DEFINE w == [worker[t] EXCEPT !.pc = "failed"]
             e == c \o SubSeq(chunks, 1, k)
  <2>1. worker' = [worker EXCEPT ![t] = w]
    BY <1>7
  <2>2. copied' = [copied EXCEPT ![t] = e]
    BY <1>7
  <2>3. e \in Seq(Chunk)
    <3>1. k \in Nat /\ k <= Len(chunks)
      BY <1>3
    <3>2. SubSeq(chunks, 1, k) \in Seq(Chunk)
      BY <1>3, <3>1
    <3>3. QED
      BY <1>1, <3>2
  <2>4. /\ w \in WorkerRecord /\ w.pc = "failed" /\ w.plan = worker[t].plan
        /\ w.generation = worker[t].generation
    BY <1>1 DEF WorkerRecord
  <2> HIDE DEF w, e
  <2>5. GoodWorker(w, rec, e)
    BY <1>1, <1>4, <1>5, <2>4 DEF GoodWorker
  <2>6. QED
    BY <1>4, <2>1, <2>2, <2>3, <2>4, <2>5, UnseenKeeps
<1>8. QED
  BY <1>6, <1>7 DEF Copy

\* A client that copies the direct chunks keeps the invariant.
LEMMA CopyDirectKeeps ==
    ASSUME DataPlaneInv, NEW t \in Transfers, CopyDirect(t)
    PROVE  DataPlaneInv'
<1> DEFINE rec == xfer[t]
           c == copied[t]
           e == c \o RequestOf[t].ranges
           w == [worker[t] EXCEPT !.pc = "done"]
<1>1. /\ GoodWorker(worker[t], rec, c) /\ worker[t] \in WorkerRecord /\ c \in Seq(Chunk)
  BY InvOfOne
<1>2. /\ rec.state = "admitted" /\ xfer' = xfer
      /\ copied' = [copied EXCEPT ![t] = e] /\ worker' = [worker EXCEPT ![t] = w]
  BY DEF CopyDirect
<1>3. e \in Seq(Chunk)
  <2>1. RequestOf[t].ranges \in Seq(Chunk)
    BY DataPlaneAssumption DEF Request
  <2>2. QED
    BY <1>1, <2>1
<1>4. w \in WorkerRecord /\ w.pc = "done"
  BY <1>1 DEF WorkerRecord
<1> HIDE DEF e, w
<1>5. GoodWorker(w, rec, e)
  BY <1>2, <1>4 DEF GoodWorker
<1>6. QED
  BY <1>2, <1>3, <1>4, <1>5, UnseenKeeps

\* The client's last step of a transfer: the worker is done with, and the daemon, if
\* the report is about its ticket, ends the transfer and looks at those that wait.
LEMMA LastStepKeeps ==
    ASSUME DataPlaneInv, NEW t \in Transfers, worker[t].pc \in {"failed", "refused", "complete"},
           worker' = [worker EXCEPT ![t].pc = "done"], copied' = copied, NEW y,
           Current(t) =>
               /\ Sound(y) /\ \A u \in Transfers \ {t} : y[u] = xfer[u]
               /\ \/ y[t].state = "canceled"
                  \/ y[t].state = "complete" /\ copied[t] = ChunksOn(y[t].plan, All)
               /\ xfer' \in Refreshed(y),
           ~Current(t) => xfer' = xfer
    PROVE  DataPlaneInv'
<1> DEFINE w == [worker[t] EXCEPT !.pc = "done"]
           v == [worker EXCEPT ![t] = w]
<1>1. /\ GoodWorker(worker[t], xfer[t], copied[t]) /\ worker[t] \in WorkerRecord
      /\ xfer[t] \in Transfer
  BY InvOfOne
<1>2. w \in WorkerRecord /\ w.pc = "done"
  BY <1>1 DEF WorkerRecord
<1> HIDE DEF w
<1>3. worker' = v /\ v \in [Transfers -> WorkerRecord] /\ v[t] = w
      /\ \A u \in Transfers \ {t} : v[u] = worker[u]
  BY <1>2 DEF DataPlaneInv, w
<1> HIDE DEF v
<1>4. \A u \in Transfers : GoodWorker(worker[u], xfer[u], copied[u])
  BY DEF DataPlaneInv
<1>5. CASE Current(t)
  <2>1. GoodWorker(w, y[t], copied[t])
    BY <1>2, <1>5 DEF GoodWorker
  <2>2. \A u \in Transfers : GoodWorker(v[u], y[u], copied[u])
    BY <1>3, <1>4, <1>5, <2>1
  <2> DEFINE z == xfer'
  <2>3. Sound(y) /\ z \in Refreshed(y)
    BY <1>5
  <2> HIDE DEF z
  <2>4. Sound(z) /\ Promotes(y, z)
    BY <2>3, RefreshedFacts
  <2>5. \A u \in Transfers : GoodWorker(v[u], z[u], copied[u])
    BY <2>2, <2>4, WorkersLater
  <2>6. xfer' = z
    BY DEF z
  <2>7. QED
    BY <1>3, <2>4, <2>5, <2>6 DEF DataPlaneInv, Sound, WithinQuotas
<1>6. CASE ~Current(t)
  <2>1. xfer[t].state \notin {"none", "delayed", "complete"}
    BY <1>1 DEF GoodWorker
  <2>2. GoodWorker(w, xfer[t], copied[t])
    BY <1>2, <2>1 DEF GoodWorker
  <2>3. \A u \in Transfers : GoodWorker(v[u], xfer[u], copied[u])
    BY <1>3, <1>4, <2>2
  <2>4. xfer' = xfer
    BY <1>6
  <2>5. QED
    BY <1>3, <2>3, <2>4 DEF DataPlaneInv, Sound, WithinQuotas
<1>7. QED
  BY <1>5, <1>6

\* A worker whose completion the client believes has copied the whole plan.
LEMMA BelievedCopies ==
    ASSUME DataPlaneInv, NEW t \in Transfers, WorkerCompletionValid(t)
    PROVE  copied[t] = ChunksOn(xfer[t].plan, All)
<1> DEFINE plan == xfer[t].plan
           req == RequestOf[t]
<1>1. /\ xfer[t] \in Transfer /\ GoodTransfer(xfer[t], req)
      /\ GoodWorker(worker[t], xfer[t], copied[t])
  BY InvOfOne
<1>2. worker[t].pc = "complete" /\ BytesOf(ChunksOn(worker[t].plan, Relays)) = req.bytes
  BY DEF WorkerCompletionValid
<1>3. worker[t].plan = ExactPlan(plan) /\ copied[t] = ChunksOn(worker[t].plan, Relays)
      /\ xfer[t].state \notin {"none", "delayed"}
  BY <1>1, <1>2 DEF GoodWorker
<1>4. GoodPlan(plan, req)
  BY <1>1, <1>3 DEF GoodTransfer
<1>5. req \in Request /\ req.bytes = BytesOf(req.ranges)
  BY DataPlaneAssumption
<1> HIDE DEF plan, req
<1>6. plan \in Seq(Assignment) /\ (\A i \in DOMAIN plan : plan[i].chunks # <<>>)
      /\ BytesOf(ChunksOn(plan, All)) = BytesOf(Chunks(req))
  BY <1>4 DEF GoodPlan, PlanFor, All, ToSet
<1>7. BytesOf(Chunks(req)) = BytesOf(req.ranges)
  BY <1>5, ChunksFacts
<1>8. ChunksOn(ExactPlan(plan), Relays) = ChunksOn(plan, Relays)
  BY <1>6, ExactChunks
<1>9. BytesOf(ChunksOn(plan, Relays)) = BytesOf(ChunksOn(plan, All))
  BY <1>2, <1>3, <1>5, <1>6, <1>7, <1>8
<1>10. ChunksOn(plan, Relays) = ChunksOn(plan, All)
  BY <1>6, <1>9, RelaysCopyAll
<1>11. QED
  BY <1>3, <1>8, <1>10 DEF plan

\* A report of completion keeps the invariant: it comes after both copies.
LEMMA ReportCompleteKeeps ==
    ASSUME DataPlaneInv, NEW t \in Transfers, ReportComplete(t)
    PROVE  DataPlaneInv'
<1> DEFINE y == [Retired(xfer, t, "complete") EXCEPT ![t].blocks = BlocksCompleted(@)]
<1>1. /\ WorkerCompletionValid(t) /\ worker' = [worker EXCEPT ![t].pc = "done"]
      /\ copied' = copied
      /\ Current(t) => xfer' \in Refreshed(y)
      /\ ~Current(t) => xfer' = xfer
  BY DEF ReportComplete
<1>2. copied[t] = ChunksOn(xfer[t].plan, All) /\ worker[t].pc = "complete"
  BY <1>1, BelievedCopies DEF WorkerCompletionValid
<1>3. Current(t) =>
        /\ Sound(y) /\ \A u \in Transfers \ {t} : y[u] = xfer[u]
        /\ y[t].state = "complete" /\ y[t].plan = xfer[t].plan
  BY CompletedFacts DEF DataPlaneInv, Current
<1> HIDE DEF y
<1>4. QED
  BY <1>1, <1>2, <1>3, LastStepKeeps

\* A transfer that is cleaned up after a failure keeps the invariant.
LEMMA CleanUpKeeps ==
    ASSUME DataPlaneInv, NEW t \in Transfers, CleanUp(t)
    PROVE  DataPlaneInv'
<1> DEFINE y == Retired(xfer, t, "canceled")
<1>1. /\ worker[t].pc \in {"failed", "refused", "complete"}
      /\ worker' = [worker EXCEPT ![t].pc = "done"]
      /\ copied' = copied
      /\ Current(t) => xfer' \in Refreshed(y)
      /\ ~Current(t) => xfer' = xfer
  BY DEF CleanUp
<1>2. Current(t) =>
        /\ Sound(y) /\ \A u \in Transfers \ {t} : y[u] = xfer[u]
        /\ y[t].state = "canceled"
  BY RetiredFacts DEF DataPlaneInv, Current
<1> HIDE DEF y
<1>3. QED
  BY <1>1, <1>2, LastStepKeeps

\* The invariant holds at first.
LEMMA InitIsSound ==
    ASSUME Init
    PROVE  DataPlaneInv
<1> DEFINE x == xfer
<1>1. x = [t \in Transfers |-> NoTransfer]
  BY DEF Init
<1> HIDE DEF x
<1>2. NoTransfer \in Transfer /\ NoTransfer.leases = {} /\ NoTransfer.blocks = <<>>
  BY DEF NoTransfer, Transfer
<1>3. x \in [Transfers -> Transfer] /\ \A t \in Transfers : x[t] = NoTransfer
  BY <1>1, <1>2
<1>4. GoodLeases(NoTransfer) /\ IsFiniteSet(NoTransfer.leases)
  BY <1>2, FS_EmptySet DEF GoodLeases
<1>5. AllLeasesGood(x)
  BY <1>3, <1>4 DEF AllLeasesGood
<1>6. \A b \in ToSet(NoTransfer.blocks) : FALSE
  BY <1>2 DEF ToSet
<1>7. \A t \in Transfers : GoodTransfer(x[t], RequestOf[t])
  <2>1. NoTransfer.state = "none"
    BY DEF NoTransfer
  <2>2. \A t \in Transfers : GoodTransfer(NoTransfer, RequestOf[t])
    BY <1>2, <1>4, <1>6, <2>1 DEF GoodTransfer
  <2>3. QED
    BY <1>3, <2>2
<1>8. WithinQuotas(x)
  <2>1. \A t \in Transfers : x[t].leases = {}
    BY <1>2, <1>3
  <2>2. \A j \in DOMAIN JobWeight : ChunksLeased(x, OfSession(j), Relays) = 0
    <3>1. \A j \in DOMAIN JobWeight : OfSession(j) \in SUBSET Transfers
      BY DEF OfSession
    <3>2. QED
      BY <1>5, <2>1, <3>1, NothingLeased
  <2>3. \A r \in Relays : ChunksLeased(x, Transfers, {r}) = 0
    BY <1>5, <2>1, NothingLeased
  <2>4. QED
    BY <2>2, <2>3, PlannerAssumption DEF WithinQuotas
<1>9. Sound(xfer)
  BY <1>3, <1>7, <1>8 DEF Sound, x
<1>10. /\ worker \in [Transfers -> WorkerRecord] /\ copied \in [Transfers -> Seq(Chunk)]
       /\ \A t \in Transfers : worker[t].pc = "idle" /\ copied[t] = <<>>
  <2>1. NoWorker \in WorkerRecord /\ NoWorker.pc = "idle" /\ <<>> \in Seq(Chunk)
    BY DEF NoWorker, WorkerRecord
  <2>2. worker = [t \in Transfers |-> NoWorker] /\ copied = [t \in Transfers |-> <<>>]
    BY DEF Init
  <2>3. QED
    BY <2>1, <2>2
<1>11. \A t \in Transfers : xfer[t].state = "none"
  BY <1>3 DEF x, NoTransfer
<1>12. \A t \in Transfers : GoodWorker(worker[t], xfer[t], copied[t])
  BY <1>10, <1>11 DEF GoodWorker
<1>13. QED
  BY <1>9, <1>10, <1>12 DEF DataPlaneInv

\* Every step keeps the invariant.
LEMMA NextKeepsData ==
    ASSUME DataPlaneInv, [Next]_vars
    PROVE  DataPlaneInv'
<1>1. CASE Poll
  BY <1>1, PollKeeps
<1>2. ASSUME NEW t \in Transfers, Submit(t)
      PROVE  DataPlaneInv'
  BY <1>2, SubmitKeeps
<1>3. ASSUME NEW t \in Transfers, Expire(t)
      PROVE  DataPlaneInv'
  BY <1>3, ExpireKeeps
<1>4. ASSUME NEW t \in Transfers, WorkerStep(t)
      PROVE  DataPlaneInv'
  BY <1>4, AuthorizeKeeps, ReportRunningKeeps, CopyKeeps DEF WorkerStep
<1>5. ASSUME NEW t \in Transfers, ClientStep(t)
      PROVE  DataPlaneInv'
  BY <1>5, ReportCompleteKeeps, CleanUpKeeps, CopyDirectKeeps DEF ClientStep
<1>6. CASE UNCHANGED vars
  BY <1>6 DEF vars, DataPlaneInv, Sound, WithinQuotas
<1>7. QED
  BY <1>1, <1>2, <1>3, <1>4, <1>5, <1>6 DEF Next

\* The plan, the leases, the blocks and the copied chunks of every transfer agree with
\* each other, in every state (server.py, block_runtime.py, cuda_executor.py).
THEOREM DataPlaneInvariance == Spec => []DataPlaneInv
<1>1. Init => DataPlaneInv
  BY InitIsSound
<1>2. DataPlaneInv /\ [Next]_vars => DataPlaneInv'
  BY NextKeepsData
<1>3. QED
  BY <1>1, <1>2, PTL DEF Spec

-----------------------------------------------------------------------------
\* What follows from it.

\* The invariant says that what is complete was copied.
LEMMA CompleteFollows ==
    ASSUME DataPlaneInv
    PROVE  CompleteMeansCopied
<1> SUFFICES ASSUME NEW t \in Transfers
             PROVE  /\ xfer[t].state = "complete" => CopiedOnce(t)
                    /\ \A b \in ToSet(xfer[t].blocks) :
                          b.state = "completed" => b.chunk \in ToSet(copied[t])
  BY DEF CompleteMeansCopied
<1> DEFINE rec == xfer[t]
           req == RequestOf[t]
           c == copied[t]
<1>1. /\ rec \in Transfer /\ GoodTransfer(rec, req) /\ GoodWorker(worker[t], rec, c)
  BY InvOfOne
<1>2. req \in Request /\ req.bytes = BytesOf(req.ranges)
  BY DataPlaneAssumption
<1>3. /\ BytesOf(Chunks(req)) = BytesOf(req.ranges) /\ Written(Chunks(req)) = Written(req.ranges)
  BY <1>2, ChunksFacts
<1> HIDE DEF rec, req, c
<1>4. ASSUME rec.state = "complete"
      PROVE  /\ c = ChunksOn(rec.plan, All)
             /\ BytesOf(c) = BytesOf(Chunks(req)) /\ ToSet(c) = ToSet(Chunks(req))
  BY <1>1, <1>4 DEF GoodWorker, GoodTransfer, GoodPlan, PlanFor, All
<1>5. ASSUME rec.state = "complete"
      PROVE  CopiedOnce(t)
  <2>1. Written(c) = Written(req.ranges)
    BY <1>3, <1>4, <1>5 DEF Written
  <2>2. BytesOf(c) = req.bytes
    BY <1>2, <1>3, <1>4, <1>5
  <2>3. QED
    BY <2>1, <2>2 DEF CopiedOnce, c, req
<1>6. ASSUME NEW b \in ToSet(rec.blocks), b.state = "completed"
      PROVE  b.chunk \in ToSet(c)
  <2>1. rec.state = "complete"
    BY <1>1, <1>6 DEF GoodTransfer
  <2>2. [i \in DOMAIN rec.blocks |-> rec.blocks[i].chunk] = c
    BY <1>1, <1>4, <2>1 DEF GoodTransfer, FollowsPlan
  <2>3. PICK i \in DOMAIN rec.blocks : b = rec.blocks[i]
    BY DEF ToSet
  <2>4. i \in DOMAIN c /\ c[i] = b.chunk
    BY <2>2, <2>3
  <2>5. QED
    BY <2>4 DEF ToSet
<1>7. QED
  BY <1>5, <1>6 DEF rec, c

\* The invariant says of every plan that its blocks, its worker, its balance and its leases
\* are right.
LEMMA PlansFollow ==
    ASSUME DataPlaneInv
    PROVE  BlocksFollowPlan /\ WorkerTakesPlan /\ PlansAreBalanced /\ LeasesWithinQuotas
<1>1. \A t \in Transfers : /\ GoodTransfer(xfer[t], RequestOf[t])
                           /\ GoodWorker(worker[t], xfer[t], copied[t])
  BY InvOfOne
<1>2. BlocksFollowPlan
  <2> SUFFICES ASSUME NEW t \in Transfers, xfer[t].state # "none"
               PROVE  FollowsPlan(xfer[t])
    BY DEF BlocksFollowPlan, FollowsPlan, All
  <2>1. QED
    BY <1>1 DEF GoodTransfer
<1>3. WorkerTakesPlan
  BY <1>1 DEF WorkerTakesPlan, GoodWorker
<1>4. PlansAreBalanced
  <2> SUFFICES ASSUME NEW t \in Transfers,
                      NEW a \in ToSet(xfer[t].plan), NEW b \in ToSet(xfer[t].plan)
               PROVE  BytesOf(a.chunks) * b.weight
                          <= (BytesOf(b.chunks) + RequestOf[t].chunk) * a.weight
    BY DEF PlansAreBalanced
  <2> DEFINE rec == xfer[t]
             req == RequestOf[t]
  <2>1. GoodTransfer(rec, req) /\ a \in ToSet(rec.plan) /\ b \in ToSet(rec.plan)
    BY <1>1
  <2> HIDE DEF rec, req
  <2>2. rec.state # "none"
    <3> SUFFICES ASSUME rec.state = "none"
                 PROVE  FALSE
      OBVIOUS
    <3>1. rec.plan = <<>>
      BY <2>1 DEF GoodTransfer, NoTransfer
    <3>2. QED
      BY <2>1, <3>1 DEF ToSet
  <2>3. BytesOf(a.chunks) * b.weight <= (BytesOf(b.chunks) + req.chunk) * a.weight
    BY <2>1, <2>2 DEF GoodTransfer, GoodPlan, PlanFor
  <2>4. QED
    BY <2>3 DEF req
<1>5. LeasesWithinQuotas
  BY DEF LeasesWithinQuotas, DataPlaneInv, Sound, WithinQuotas
<1>6. QED
  BY <1>2, <1>3, <1>4, <1>5

\* A transfer that the daemon calls complete was copied in full, and each of its blocks
\* that is called completed (block_runtime.py, _completed_record; intent_executor.py,
\* require_worker_completion_matches_request).
THEOREM CompleteIsCopied == Spec => []CompleteMeansCopied
<1>1. DataPlaneInv => CompleteMeansCopied
  BY CompleteFollows
<1>2. QED
  BY <1>1, DataPlaneInvariance, PTL

\* The blocks of a transfer are the chunks of its plan, in order and under the generation of
\* its ticket, whatever was promoted, reported or retired since (block_runtime.py).
THEOREM BlocksAreThePlan == Spec => []BlocksFollowPlan
<1>1. DataPlaneInv => BlocksFollowPlan
  BY PlansFollow
<1>2. QED
  BY <1>1, DataPlaneInvariance, PTL

\* A worker never refuses the plan that the daemon hands it: it is exact and consistent
\* (cuda_executor.py, the validation of an authorized plan).
THEOREM WorkersTakeThePlan == Spec => []WorkerTakesPlan
<1>1. DataPlaneInv => WorkerTakesPlan
  BY PlansFollow
<1>2. QED
  BY <1>1, DataPlaneInvariance, PTL

\* No path of a plan has more bytes for its weight than another by more than a chunk
\* (planner_engine.py, the least loaded path).
THEOREM PlansStayBalanced == Spec => []PlansAreBalanced
<1>1. DataPlaneInv => PlansAreBalanced
  BY PlansFollow
<1>2. QED
  BY <1>1, DataPlaneInvariance, PTL

\* The leases of a session and those on a relay stay within their quotas, also after the
\* promotion of transfers in any order (server.py, the admission of a plan).
THEOREM QuotasHold == Spec => []LeasesWithinQuotas
<1>1. DataPlaneInv => LeasesWithinQuotas
  BY PlansFollow
<1>2. QED
  BY <1>1, DataPlaneInvariance, PTL

-----------------------------------------------------------------------------
\* Nobody waits alone.

\* Nobody waits alone, said of the tables.
LEMMA NobodyWaitsThere ==
    NobodyWaitsAlone <=> NobodyWaits(xfer)
  BY DEF NobodyWaitsAlone, NobodyWaits, Busy, Late

\* No step leaves a delayed transfer waiting alone.
LEMMA NextLeavesNobody ==
    ASSUME PlansFit, DataPlaneInv, NobodyWaitsAlone, [Next]_vars
    PROVE  NobodyWaitsAlone'
<1> DEFINE x == xfer
           z == xfer'
<1>1. NobodyWaits(x) /\ Sound(x)
  BY NobodyWaitsThere DEF DataPlaneInv
<1>2. SUFFICES NobodyWaits(z)
  BY DEF NobodyWaitsAlone, NobodyWaits, Busy, Late
<1>a. ASSUME NEW y, Sound(y), z \in Refreshed(y)
      PROVE  NobodyWaits(z)
  BY <1>a, RefreshedFacts
<1>b. CASE xfer' = xfer
  BY <1>1, <1>b
<1>3. CASE Poll
  <2>1. z \in Refreshed(x)
    BY <1>3 DEF Poll
  <2>2. QED
    BY <1>1, <1>a, <2>1
<1>4. ASSUME NEW t \in Transfers, Submit(t)
      PROVE  NobodyWaits(z)
  <2>1. PICK y \in Refreshed(x) : z = Planned(y, t)
    BY <1>4 DEF Submit
  <2>2. x[t].state = "none"
    BY <1>4 DEF Submit
  <2>3. Sound(y) /\ Promotes(x, y) /\ NobodyWaits(y)
    BY <1>1, RefreshedFacts
  <2>4. y[t].state = "none"
    BY <2>2, <2>3 DEF Promotes
  <2>5. NobodyWaits(Planned(y, t))
    BY <2>3, <2>4, PlannedFacts
  <2>6. QED
    BY <2>1, <2>5
<1>5. ASSUME NEW t \in Transfers, Expire(t)
      PROVE  NobodyWaits(z)
  <2> DEFINE y == Retired(x, t, "canceled")
  <2>1. z \in Refreshed(y) /\ x[t].state \in {"admitted", "running"}
    BY <1>5 DEF Expire
  <2>2. Sound(y)
    BY <1>1, <2>1, RetiredFacts
  <2> HIDE DEF y
  <2>3. QED
    BY <1>a, <2>1, <2>2
<1>6. ASSUME NEW t \in Transfers, Authorize(t)
      PROVE  NobodyWaits(z)
  <2>1. xfer' = [xfer EXCEPT ![t].staging = LeasedRelays(xfer[t])]
    BY <1>6 DEF Authorize
  <2>2. xfer \in [Transfers -> Transfer]
    BY DEF DataPlaneInv, Sound
  <2>3. \A u \in Transfers : z[u].state = x[u].state
    BY <2>1, <2>2 DEF Transfer
  <2>4. QED
    BY <1>1, <2>3 DEF NobodyWaits, Busy, Late
<1>7. ASSUME NEW t \in Transfers, ReportRunning(t)
      PROVE  NobodyWaits(z)
  <2>1. CASE Current(t)
    <3>1. xfer' = [xfer EXCEPT ![t].state = "running", ![t].blocks = BlocksRunning(@)]
      BY <1>7, <2>1 DEF ReportRunning
    <3>2. xfer \in [Transfers -> Transfer]
      BY DEF DataPlaneInv, Sound
    <3>3. z[t].state = "running"
      BY <3>1, <3>2 DEF Transfer
    <3>4. QED
      BY <3>3 DEF NobodyWaits, Busy
  <2>2. CASE ~Current(t)
    BY <1>1, <1>7, <2>2 DEF ReportRunning
  <2>3. QED
    BY <2>1, <2>2
<1>8. ASSUME NEW t \in Transfers, Copy(t) \/ CopyDirect(t)
      PROVE  NobodyWaits(z)
  BY <1>1, <1>8 DEF Copy, CopyDirect
<1>9. ASSUME NEW t \in Transfers, ReportComplete(t)
      PROVE  NobodyWaits(z)
  <2> DEFINE y == [Retired(x, t, "complete") EXCEPT ![t].blocks = BlocksCompleted(@)]
  <2>1. Current(t) => z \in Refreshed(y)
    BY <1>9 DEF ReportComplete
  <2>2. ~Current(t) => xfer' = xfer
    BY <1>9 DEF ReportComplete
  <2>3. Current(t) => Sound(y)
    BY <1>1, CompletedFacts DEF Current
  <2> HIDE DEF y
  <2>4. QED
    BY <1>a, <1>b, <2>1, <2>2, <2>3
<1>10. ASSUME NEW t \in Transfers, CleanUp(t)
       PROVE  NobodyWaits(z)
  <2> DEFINE y == Retired(x, t, "canceled")
  <2>1. Current(t) => z \in Refreshed(y)
    BY <1>10 DEF CleanUp
  <2>2. ~Current(t) => xfer' = xfer
    BY <1>10 DEF CleanUp
  <2>3. Current(t) => Sound(y)
    BY <1>1, RetiredFacts DEF Current
  <2> HIDE DEF y
  <2>4. QED
    BY <1>a, <1>b, <2>1, <2>2, <2>3
<1>11. CASE UNCHANGED vars
  BY <1>b, <1>11 DEF vars
<1>12. QED
  BY <1>3, <1>4, <1>5, <1>6, <1>7, <1>8, <1>9, <1>10, <1>11 DEF Next, WorkerStep, ClientStep

\* If every transfer alone fits into the quota of its session, a delayed transfer waits
\* for another one that is under way (server.py, _promote_delayed_transfers_locked).
THEOREM NobodyIsForgotten ==
    (\A t \in Transfers : Len(Chunks(RequestOf[t])) <= SessionMaxChunks)
        => (Spec => []NobodyWaitsAlone)
<1> SUFFICES ASSUME PlansFit
             PROVE  Spec => []NobodyWaitsAlone
  BY DEF PlansFit
<1>1. Init => NobodyWaitsAlone
  BY DEF Init, NobodyWaitsAlone, NoTransfer
<1>2. DataPlaneInv /\ NobodyWaitsAlone /\ [Next]_vars => NobodyWaitsAlone'
  BY NextLeavesNobody
<1>3. QED
  BY <1>1, <1>2, DataPlaneInvariance, PTL DEF Spec

=============================================================================
