-------------------------- MODULE CircularBufferProofs --------------------------
(***************************************************************************)
(* Lemmas about the operators of the circular buffer, for every capacity   *)
(* and all entries, and the induction that they need.                      *)
(***************************************************************************)
EXTENDS CircularBuffer, SequencesExt, SequenceTheorems, WellFoundedInduction, TLAPS

-----------------------------------------------------------------------------
(* Induction on the natural numbers, for a set instead of a predicate.     *)

LEMMA LeastNatural ==
  ASSUME NEW S, S \subseteq Nat, S # {}
  PROVE  \E n \in S : \A m \in S : n <= m
<1> DEFINE less == {p \in Nat \X Nat : p[1] < p[2]}
<1>1. IsWellFoundedOn(less, Nat)
  BY NatLessThanWellFounded DEF OpToRel
<1>2. PICK n \in S : \A m \in S : <<m, n>> \notin less
  BY <1>1, WFMin
<1>3. ASSUME NEW m \in S PROVE n <= m
  <2>1. m \in Nat /\ n \in Nat /\ <<m, n>> \notin less
    BY <1>2
  <2>2. ~(m < n)
    BY <2>1
  <2> QED
    BY <2>1, <2>2
<1> QED
  BY <1>3

LEMMA NaturalInduction ==
  ASSUME NEW S, 0 \in S, \A n \in Nat : n \in S => n+1 \in S
  PROVE  Nat \subseteq S
<1> DEFINE Out == Nat \ S
<1> SUFFICES ASSUME Out # {} PROVE FALSE
  OBVIOUS
<1>1. Out \subseteq Nat
  OBVIOUS
<1>2. PICK n \in Out : \A m \in Out : n <= m
  <2> HIDE DEF Out
  <2> QED
    BY <1>1, LeastNatural
<1>3. n \in Nat /\ n # 0
  BY <1>2
<1>4. n-1 \in Nat /\ n-1 \notin Out
  BY <1>2, <1>3
<1>5. n-1 \in S
  BY <1>4
<1>6. (n-1) + 1 \in S
  BY <1>4, <1>5
<1> QED
  BY <1>2, <1>3, <1>6

-----------------------------------------------------------------------------
(* Running sums: where each of N pieces of the given sizes begins when     *)
(* they are put end to end.                                                *)

RunningSum(f, size, N) ==
  /\ f \in [0 .. N -> Nat]
  /\ f[0] = 0
  /\ \A i \in 1 .. N : f[i] = f[i-1] + size[i-1]

LEMMA RunningSumExists ==
  ASSUME NEW N \in Nat, NEW size \in [0 .. N-1 -> Nat]
  PROVE  \E f : RunningSum(f, size, N)
<1> DEFINE S == {n \in Nat : n <= N => \E f : RunningSum(f, size, n)}
<1>1. 0 \in S
  <2> DEFINE f == [i \in 0 .. 0 |-> 0]
  <2>1. RunningSum(f, size, 0)
    BY DEF RunningSum
  <2> QED
    BY <2>1
<1>2. ASSUME NEW n \in Nat, n \in S PROVE n+1 \in S
  <2> SUFFICES ASSUME n+1 <= N PROVE \E f : RunningSum(f, size, n+1)
    OBVIOUS
  <2>1. PICK f : RunningSum(f, size, n)
    BY <1>2
  <2> DEFINE g == [i \in 0 .. n+1 |-> IF i = n+1 THEN f[n] + size[n] ELSE f[i]]
  <2>2. f[n] \in Nat /\ size[n] \in Nat
    BY <2>1 DEF RunningSum
  <2>3. g \in [0 .. n+1 -> Nat]
    BY <2>1, <2>2 DEF RunningSum
  <2>4. g[0] = 0
    BY <2>1 DEF RunningSum
  <2>5. ASSUME NEW i \in 1 .. n+1 PROVE g[i] = g[i-1] + size[i-1]
    <3>1. g[i-1] = f[i-1]
      OBVIOUS
    <3>2. CASE i = n+1
      BY <3>1, <3>2
    <3>3. CASE i # n+1
      <4>1. i \in 1 .. n /\ g[i] = f[i]
        BY <3>3
      <4> QED
        BY <2>1, <3>1, <4>1 DEF RunningSum
    <3> QED
      BY <3>2, <3>3
  <2> QED
    BY <2>3, <2>4, <2>5 DEF RunningSum
<1>3. N \in S
  <2> HIDE DEF S
  <2> QED
    BY <1>1, <1>2, NaturalInduction
<1> QED
  BY <1>3

\* A function that satisfies the recursive equation is the running sum.
LEMMA RunningSumType ==
  ASSUME NEW N \in Nat, NEW size \in [0 .. N-1 -> Nat], NEW f,
         f = [i \in 0 .. N |-> IF i = 0 THEN 0 ELSE f[i-1] + size[i-1]]
  PROVE  RunningSum(f, size, N)
<1> DEFINE S == {n \in Nat : n <= N => f[n] \in Nat}
<1>1. f[0] = 0 /\ \A i \in 1 .. N : f[i] = f[i-1] + size[i-1]
  OBVIOUS
<1>2. 0 \in S
  BY <1>1
<1>3. ASSUME NEW n \in Nat, n \in S PROVE n+1 \in S
  <2> SUFFICES ASSUME n+1 <= N PROVE f[n+1] \in Nat
    OBVIOUS
  <2>1. f[n+1] = f[n] + size[n] /\ f[n] \in Nat /\ size[n] \in Nat
    BY <1>1, <1>3
  <2> QED
    BY <2>1
<1>4. \A n \in 0 .. N : f[n] \in Nat
  <2>1. Nat \subseteq S
    <3> HIDE DEF S
    <3> QED
      BY <1>2, <1>3, NaturalInduction
  <2>2. ASSUME NEW n \in 0 .. N PROVE f[n] \in Nat
    <3>1. n \in Nat /\ n <= N
      OBVIOUS
    <3> QED
      BY <2>1, <3>1
  <2> QED
    BY <2>2
<1> QED
  BY <1>1, <1>4 DEF RunningSum

LEMMA RunningSumUnique ==
  ASSUME NEW N \in Nat, NEW f, NEW g, NEW size, NEW long, NEW M \in Nat, N <= M,
         RunningSum(f, size, N), RunningSum(g, long, M),
         \A i \in 0 .. N-1 : long[i] = size[i]
  PROVE  \A n \in 0 .. N : g[n] = f[n]
<1> DEFINE S == {n \in Nat : n <= N => g[n] = f[n]}
<1>1. 0 \in S
  BY DEF RunningSum
<1>2. ASSUME NEW n \in Nat, n \in S PROVE n+1 \in S
  BY <1>2 DEF RunningSum
<1>3. Nat \subseteq S
  <2> HIDE DEF S
  <2> QED
    BY <1>1, <1>2, NaturalInduction
<1> QED
  BY <1>3

LEMMA RunningSumGrows ==
  ASSUME NEW N \in Nat, NEW size \in [0 .. N-1 -> Nat], NEW f, RunningSum(f, size, N),
         NEW i \in 0 .. N, NEW j \in i .. N
  PROVE  f[i] <= f[j]
<1> DEFINE S == {n \in Nat : i + n <= N => f[i] <= f[i+n]}
<1>1. 0 \in S
  BY DEF RunningSum
<1>2. ASSUME NEW n \in Nat, n \in S PROVE n+1 \in S
  <2> SUFFICES ASSUME i+(n+1) <= N PROVE f[i] <= f[i+(n+1)]
    OBVIOUS
  <2>1. f[i] <= f[i+n] /\ i+n \in 0 .. N /\ i+(n+1) \in 1 .. N
    BY <1>2
  <2>2. f[i+(n+1)] = f[i+n] + size[i+n] /\ size[i+n] \in Nat
    BY <2>1 DEF RunningSum
  <2>3. f[i] \in Nat /\ f[i+n] \in Nat
    BY <2>1 DEF RunningSum
  <2> QED
    BY <2>1, <2>2, <2>3
<1>3. Nat \subseteq S
  <2> HIDE DEF S
  <2> QED
    BY <1>1, <1>2, NaturalInduction
<1>4. j-i \in Nat /\ i + (j-i) = j /\ j <= N
  OBVIOUS
<1> QED
  BY <1>3, <1>4

\* Every position before the end is in one piece.
LEMMA RunningSumCovers ==
  ASSUME NEW N \in Nat, NEW size \in [0 .. N-1 -> Nat], NEW f, RunningSum(f, size, N),
         NEW p \in Nat, p < f[N]
  PROVE  \E k \in 1 .. N : f[k-1] <= p /\ p < f[k]
<1> DEFINE S == {n \in 0 .. N : p < f[n]}
<1>1. S \subseteq Nat /\ N \in S
  OBVIOUS
<1>2. PICK k \in S : \A m \in S : k <= m
  <2> HIDE DEF S
  <2> QED
    BY <1>1, LeastNatural
<1>3. k \in 0 .. N /\ p < f[k] /\ k # 0
  BY <1>2 DEF RunningSum
<1>4. k-1 \in 0 .. N /\ ~(p < f[k-1])
  BY <1>2, <1>3
<1>5. f[k-1] \in Nat
  BY <1>4 DEF RunningSum
<1> QED
  BY <1>3, <1>4, <1>5

-----------------------------------------------------------------------------
(* Sequences put end to end.                                               *)

Sizes(seqs) == [i \in 0 .. Len(seqs)-1 |-> Len(seqs[i+1])]

\* What FlattenSeq has put together after n pieces.
Flattened(cat, seqs, f, n, S) ==
  /\ cat \in Seq(S) /\ Len(cat) = f[n]
  /\ \A k \in 1 .. n : \A o \in 1 .. Len(seqs[k]) : cat[f[k-1] + o] = seqs[k][o]

LEMMA PieceFacts ==
  ASSUME NEW S, NEW seqs \in Seq(Seq(S)), NEW f, RunningSum(f, Sizes(seqs), Len(seqs))
  PROVE  /\ Len(seqs) \in Nat
         /\ Sizes(seqs) \in [0 .. Len(seqs)-1 -> Nat]
         /\ f[0] = 0 /\ f[Len(seqs)] \in Nat
         /\ \A k \in 1 .. Len(seqs) :
              /\ seqs[k] \in Seq(S) /\ Len(seqs[k]) \in Nat
              /\ f[k-1] \in Nat /\ f[k] \in Nat /\ f[k] = f[k-1] + Len(seqs[k])
<1>1. Len(seqs) \in Nat
  OBVIOUS
<1>2. ASSUME NEW k \in 1 .. Len(seqs) PROVE seqs[k] \in Seq(S) /\ Len(seqs[k]) \in Nat
  <2>1. seqs[k] \in Seq(S)
    OBVIOUS
  <2> QED
    BY <2>1
<1>3. Sizes(seqs) \in [0 .. Len(seqs)-1 -> Nat]
  <2>1. ASSUME NEW i \in 0 .. Len(seqs)-1 PROVE Len(seqs[i+1]) \in Nat
    <3>1. i+1 \in 1 .. Len(seqs)
      BY <1>1
    <3> QED
      BY <1>2, <3>1
  <2> QED
    BY <2>1 DEF Sizes
<1>4. ASSUME NEW k \in 1 .. Len(seqs)
      PROVE  f[k-1] \in Nat /\ f[k] \in Nat /\ f[k] = f[k-1] + Len(seqs[k])
  <2>1. k-1 \in 0 .. Len(seqs)-1 /\ (k-1)+1 = k
    BY <1>1
  <2>2. Sizes(seqs)[k-1] = Len(seqs[k])
    BY <2>1 DEF Sizes
  <2>3. f[k] = f[k-1] + Sizes(seqs)[k-1]
    BY DEF RunningSum
  <2>4. k-1 \in 0 .. Len(seqs) /\ k \in 0 .. Len(seqs)
    BY <1>1
  <2>5. f[k-1] \in Nat /\ f[k] \in Nat
    BY <2>4 DEF RunningSum
  <2> QED
    BY <2>2, <2>3, <2>5
<1> QED
  BY <1>1, <1>2, <1>3, <1>4 DEF RunningSum

LEMMA FlattenStep ==
  ASSUME NEW S, NEW seqs \in Seq(Seq(S)), NEW f, RunningSum(f, Sizes(seqs), Len(seqs)),
         NEW n \in 0 .. Len(seqs)-1, NEW cat, Flattened(cat, seqs, f, n, S)
  PROVE  Flattened(cat \o seqs[n+1], seqs, f, n+1, S)
<1> DEFINE s == seqs[n+1]
           new == cat \o s
<1>1. n+1 \in 1 .. Len(seqs) /\ Len(seqs) \in Nat /\ (n+1)-1 = n
  BY PieceFacts
<1>2. s \in Seq(S) /\ Len(s) \in Nat /\ f[n+1] = f[n] + Len(s) /\ f[n] \in Nat
  <2>1. \A k \in 1 .. Len(seqs) :
          /\ seqs[k] \in Seq(S) /\ Len(seqs[k]) \in Nat
          /\ f[k-1] \in Nat /\ f[k] \in Nat /\ f[k] = f[k-1] + Len(seqs[k])
    BY PieceFacts
  <2> QED
    BY <1>1, <2>1
<1>3. cat \in Seq(S) /\ Len(cat) = f[n]
  BY DEF Flattened
<1> HIDE DEF s
<1>4. /\ new \in Seq(S) /\ Len(new) = Len(cat) + Len(s)
      /\ \A i \in 1 .. Len(cat) + Len(s) : new[i] = IF i <= Len(cat) THEN cat[i] ELSE s[i - Len(cat)]
  BY <1>2, <1>3, ConcatProperties
<1> HIDE DEF new
<1>7. Len(cat) \in Nat
  BY <1>2, <1>3
<1>8. ASSUME NEW i \in 1 .. Len(cat) PROVE new[i] = cat[i]
  <2>1. i \in 1 .. Len(cat) + Len(s) /\ i <= Len(cat)
    BY <1>2, <1>7
  <2> QED
    BY <1>4, <2>1
<1>9. ASSUME NEW i \in 1 .. Len(s) PROVE new[Len(cat) + i] = s[i]
  <2>1. /\ Len(cat) + i \in 1 .. Len(cat) + Len(s) /\ ~(Len(cat) + i <= Len(cat))
        /\ (Len(cat) + i) - Len(cat) = i
    BY <1>2, <1>7
  <2>2. new[Len(cat) + i] = s[(Len(cat) + i) - Len(cat)]
    BY <1>4, <2>1
  <2> QED
    BY <2>1, <2>2
<1>5. ASSUME NEW k \in 1 .. n+1, NEW o \in 1 .. Len(seqs[k])
      PROVE  new[f[k-1] + o] = seqs[k][o]
  <2>1. CASE k = n+1
    <3>1. f[k-1] = Len(cat) /\ seqs[k] = s
      BY <1>1, <1>3, <2>1 DEF s
    <3>2. new[Len(cat) + o] = s[o]
      BY <1>9, <3>1
    <3> QED
      BY <3>1, <3>2
  <2>2. CASE k # n+1
    <3>1. /\ k \in 1 .. n /\ k \in 1 .. Len(seqs)
          /\ k \in 0 .. Len(seqs) /\ n \in k .. Len(seqs)
      BY <1>1, <2>2
    <3>2. f[k] = f[k-1] + Len(seqs[k]) /\ f[k-1] \in Nat /\ f[k] \in Nat /\ Len(seqs[k]) \in Nat
      BY <3>1, PieceFacts
    <3>3. f[k] <= f[n]
      <4>1. Sizes(seqs) \in [0 .. Len(seqs)-1 -> Nat]
        BY PieceFacts
      <4> QED
        BY <1>1, <3>1, <4>1, RunningSumGrows
    <3>4. f[k-1] + o \in 1 .. Len(cat)
      <4>1. ASSUME NEW x \in Nat, NEW y \in Nat, NEW z \in Nat, x + y <= z, NEW i \in 1 .. y
            PROVE  x + i \in 1 .. z
        BY <4>1
      <4>2. f[k-1] + Len(seqs[k]) <= Len(cat)
        BY <1>3, <3>2, <3>3
      <4> QED
        BY <1>7, <3>2, <4>1, <4>2
    <3>5. new[f[k-1] + o] = cat[f[k-1] + o]
      BY <1>8, <3>4
    <3> QED
      BY <3>1, <3>5 DEF Flattened
  <2> QED
    BY <2>1, <2>2
<1>6. Len(new) = f[n+1]
  BY <1>2, <1>3, <1>4
<1> QED
  BY <1>4, <1>5, <1>6 DEF Flattened, new, s

\* The function that FlattenSeq is made of exists.
Partial(g, seqs, n, S) ==
  /\ g \in [1 .. n -> Seq(S)]
  /\ n > 0 => g[1] = seqs[1]
  /\ \A i \in 2 .. n : g[i] = g[i-1] \o seqs[i]

LEMMA PartialStep ==
  ASSUME NEW S, NEW seqs \in Seq(Seq(S)), NEW n \in Nat, n+1 <= Len(seqs),
         NEW g, Partial(g, seqs, n, S)
  PROVE  \E h : Partial(h, seqs, n+1, S)
<1> DEFINE v == IF n = 0 THEN seqs[1] ELSE g[n] \o seqs[n+1]
           h == [i \in 1 .. n+1 |-> IF i = n+1 THEN v ELSE g[i]]
<1>1. n+1 \in 1 .. Len(seqs) /\ seqs[n+1] \in Seq(S)
  OBVIOUS
<1>2. v \in Seq(S)
  <2>1. CASE n = 0
    BY <1>1, <2>1
  <2>2. CASE n # 0
    <3>1. g[n] \in Seq(S)
      BY <2>2 DEF Partial
    <3> QED
      BY <1>1, <2>2, <3>1, ConcatProperties
  <2> QED
    BY <2>1, <2>2
<1>3. h \in [1 .. n+1 -> Seq(S)]
  <2> HIDE DEF v
  <2> QED
    BY <1>2 DEF Partial
<1>4. h[1] = seqs[1]
  BY DEF Partial
<1>5. ASSUME NEW i \in 2 .. n+1 PROVE h[i] = h[i-1] \o seqs[i]
  <2>1. h[i-1] = g[i-1]
    OBVIOUS
  <2>2. CASE i = n+1
    <3>1. h[i] = v /\ n # 0 /\ n = i-1
      BY <2>2
    <3> QED
      BY <2>1, <2>2, <3>1
  <2>3. CASE i # n+1
    <3>1. i \in 2 .. n /\ h[i] = g[i]
      BY <2>3
    <3> QED
      BY <2>1, <3>1 DEF Partial
  <2> QED
    BY <2>2, <2>3
<1> HIDE DEF h
<1> QED
  BY <1>3, <1>4, <1>5 DEF Partial

LEMMA PartialExists ==
  ASSUME NEW S, NEW seqs \in Seq(Seq(S))
  PROVE  \E g : Partial(g, seqs, Len(seqs), S)
<1> DEFINE T == {n \in Nat : n <= Len(seqs) => \E g : Partial(g, seqs, n, S)}
<1>1. 0 \in T
  <2>1. Partial([i \in 1 .. 0 |-> << >>], seqs, 0, S)
    BY DEF Partial
  <2> QED
    BY <2>1
<1>2. ASSUME NEW n \in Nat, n \in T PROVE n+1 \in T
  <2> SUFFICES ASSUME n+1 <= Len(seqs) PROVE \E g : Partial(g, seqs, n+1, S)
    OBVIOUS
  <2>1. n <= Len(seqs)
    OBVIOUS
  <2> QED
    BY <1>2, <2>1, PartialStep
<1>3. Len(seqs) \in Nat
  OBVIOUS
<1>4. Len(seqs) \in T
  <2> HIDE DEF T
  <2> QED
    BY <1>1, <1>2, <1>3, NaturalInduction
<1> QED
  BY <1>3, <1>4

LEMMA FlattenValue ==
  ASSUME NEW S, NEW seqs \in Seq(Seq(S)), NEW f, RunningSum(f, Sizes(seqs), Len(seqs))
  PROVE  Flattened(FlattenSeq(seqs), seqs, f, Len(seqs), S)
<1> DEFINE L == Len(seqs)
<1>0. L \in Nat
  OBVIOUS
<1>1. CASE L = 0
  <2>1. FlattenSeq(seqs) = << >>
    BY <1>1 DEF FlattenSeq
  <2> QED
    BY <1>1, <2>1 DEF Flattened, RunningSum
<1>2. CASE L # 0
  <2> DEFINE Rec(g) == g = [i \in 1 .. L |-> IF i = 1 THEN seqs[i] ELSE g[i-1] \o seqs[i]]
             flat == CHOOSE g : Rec(g)
  <2>1. \E g : Rec(g)
    <3>1. PICK g : Partial(g, seqs, L, S)
      BY PartialExists
    <3>2. \A i \in 1 .. L : g[i] = IF i = 1 THEN seqs[i] ELSE g[i-1] \o seqs[i]
      <4> SUFFICES ASSUME NEW i \in 1 .. L
                   PROVE  g[i] = IF i = 1 THEN seqs[i] ELSE g[i-1] \o seqs[i]
        OBVIOUS
      <4>1. CASE i = 1
        BY <1>0, <1>2, <3>1, <4>1 DEF Partial
      <4>2. CASE i # 1
        <5>1. i \in 2 .. L
          BY <1>0, <4>2
        <5> QED
          BY <3>1, <4>2, <5>1 DEF Partial
      <4> QED
        BY <4>1, <4>2
    <3>3. g = [i \in 1 .. L |-> g[i]]
      BY <3>1 DEF Partial
    <3>4. [i \in 1 .. L |-> g[i]] = [i \in 1 .. L |-> IF i = 1 THEN seqs[i] ELSE g[i-1] \o seqs[i]]
      BY <3>2
    <3>5. Rec(g)
      BY <3>3, <3>4
    <3> HIDE DEF Rec
    <3> QED
      BY <3>5
  <2>2. Rec(flat)
    <3> HIDE DEF Rec
    <3> QED
      BY <2>1
  <2>3. FlattenSeq(seqs) = flat[L]
    BY <1>2 DEF FlattenSeq
  <2> HIDE DEF flat
  <2>4. /\ 1 \in 1 .. L /\ flat[1] = seqs[1]
        /\ \A i \in 2 .. L : flat[i] = flat[i-1] \o seqs[i]
    <3>1. flat = [i \in 1 .. L |-> IF i = 1 THEN seqs[i] ELSE flat[i-1] \o seqs[i]]
      BY <2>2
    <3>2. 1 \in 1 .. L
      BY <1>0, <1>2
    <3>3. flat[1] = seqs[1]
      BY <3>1, <3>2
    <3>4. ASSUME NEW i \in 2 .. L PROVE flat[i] = flat[i-1] \o seqs[i]
      <4>1. i \in 1 .. L /\ i # 1
        BY <1>0
      <4> QED
        BY <3>1, <4>1
    <3> QED
      BY <3>2, <3>3, <3>4
  <2> HIDE DEF Rec
  <2> DEFINE U == {n \in Nat : n+1 <= L => Flattened(flat[n+1], seqs, f, n+1, S)}
  <2>5. 0 \in U
    <3>1. Flattened(<< >>, seqs, f, 0, S)
      BY DEF Flattened, RunningSum
    <3>2. seqs[1] \in Seq(S) /\ 0 \in 0 .. L-1
      BY <1>0, <2>4
    <3>3. Flattened(<< >> \o seqs[0+1], seqs, f, 0+1, S)
      BY <3>1, <3>2, FlattenStep
    <3>4. << >> \o seqs[0+1] = flat[0+1]
      BY <2>4, <3>2, ConcatEmptySeq
    <3> QED
      BY <3>3, <3>4
  <2>6. ASSUME NEW n \in Nat, n \in U PROVE n+1 \in U
    <3> SUFFICES ASSUME (n+1)+1 <= L PROVE Flattened(flat[(n+1)+1], seqs, f, (n+1)+1, S)
      OBVIOUS
    <3>1. n+1 \in 0 .. L-1 /\ n+1 <= L /\ (n+1)+1 \in 2 .. L /\ ((n+1)+1)-1 = n+1
      BY <1>0
    <3>2. Flattened(flat[n+1], seqs, f, n+1, S)
      BY <2>6, <3>1
    <3>3. flat[(n+1)+1] = flat[n+1] \o seqs[(n+1)+1]
      BY <2>4, <3>1
    <3>4. Flattened(flat[n+1] \o seqs[(n+1)+1], seqs, f, (n+1)+1, S)
      BY <3>1, <3>2, FlattenStep
    <3> QED
      BY <3>3, <3>4
  <2>7. L-1 \in Nat /\ (L-1)+1 = L
    BY <1>0, <1>2
  <2>8. L-1 \in U
    <3> HIDE DEF U
    <3> QED
      BY <2>5, <2>6, <2>7, NaturalInduction
  <2> QED
    BY <2>3, <2>7, <2>8
<1> QED
  BY <1>1, <1>2

\* The byte at a position of sequences put end to end, and its place in one of them.
LEMMA FlattenAt ==
  ASSUME NEW S, NEW seqs \in Seq(Seq(S)), NEW f, RunningSum(f, Sizes(seqs), Len(seqs)),
         NEW p \in Nat, p < Len(FlattenSeq(seqs))
  PROVE  \E k \in 1 .. Len(seqs) : /\ f[k-1] <= p /\ p < f[k]
                                   /\ p - f[k-1] \in 0 .. Len(seqs[k])-1
                                   /\ FlattenSeq(seqs)[p+1] = seqs[k][p - f[k-1] + 1]
<1>1. Flattened(FlattenSeq(seqs), seqs, f, Len(seqs), S)
  BY FlattenValue
<1>2. PICK k \in 1 .. Len(seqs) : f[k-1] <= p /\ p < f[k]
  <2>1. p < f[Len(seqs)]
    BY <1>1 DEF Flattened
  <2> QED
    BY <2>1, PieceFacts, RunningSumCovers
<1>3. f[k] = f[k-1] + Len(seqs[k]) /\ f[k-1] \in Nat /\ Len(seqs[k]) \in Nat
  BY PieceFacts
<1> DEFINE o == p - f[k-1] + 1
<1>4. o \in 1 .. Len(seqs[k]) /\ f[k-1] + o = p+1 /\ p - f[k-1] \in 0 .. Len(seqs[k])-1
  <2>1. ASSUME NEW x \in Nat, NEW y \in Nat, NEW z \in Nat, z = x + y, x <= p, p < z
        PROVE  p - x + 1 \in 1 .. y /\ x + (p - x + 1) = p+1 /\ p - x \in 0 .. y-1
    BY <2>1
  <2>2. f[k] \in Nat
    BY PieceFacts
  <2> QED
    BY <1>2, <1>3, <2>1, <2>2
<1> HIDE DEF o
<1>5. FlattenSeq(seqs)[f[k-1] + o] = seqs[k][o]
  BY <1>1, <1>4 DEF Flattened
<1> QED
  BY <1>2, <1>4, <1>5 DEF o

-----------------------------------------------------------------------------
(* The buffer: where its entries are, and what adding one does.            *)

\* The slot n places after slot i, without the remainder operator: offsets wrap
\* around the array at most once.
LEMMA AfterValue ==
  ASSUME NEW i \in Slot, NEW n \in 0..MAX
  PROVE  /\ After(i, n) = IF i + n < MAX THEN i + n ELSE i + n - MAX
         /\ After(i, n) \in Slot
<1>1. MAX \in Nat /\ MAX > 0 /\ i \in Nat /\ n \in Nat /\ i < MAX /\ n <= MAX
  BY CapacityAssumption DEF Slot
<1>2. CASE i + n < MAX
  <2>1. (i + n) % MAX = i + n
    BY <1>1, <1>2, Z3
  <2> QED
    BY <1>1, <1>2, <2>1 DEF After, Slot
<1>3. CASE ~(i + n < MAX)
  <2>1. (i + n) % MAX = i + n - MAX
    BY <1>1, <1>3, Z3
  <2> QED
    BY <1>1, <1>3, <2>1 DEF After, Slot
<1> QED
  BY <1>2, <1>3

\* The occupied slots are where the offsets and the full flag say.
WellShaped(b) ==
  /\ ~b.full => b.out_offs = 0
  /\ b.full  => b.in_offs = b.out_offs
  /\ \A i \in Slot : (b.entry[i] # NoEntry) <=> (b.full \/ i < b.in_offs)

LEMMA EmptyShape == EmptyBuffer \in Buffer /\ WellShaped(EmptyBuffer) /\ Contents(EmptyBuffer) = << >>
<1>1. 0 \in Slot /\ Slot \subseteq Nat
  BY CapacityAssumption DEF Slot
<1>2. EmptyBuffer \in Buffer /\ WellShaped(EmptyBuffer)
  BY <1>1 DEF EmptyBuffer, Buffer, WellShaped
<1>3. Count(EmptyBuffer) = 0
  BY DEF EmptyBuffer, Count
<1> QED
  BY <1>2, <1>3 DEF Contents

\* Adding an entry keeps the shape.
LEMMA AddKeepsShape ==
  ASSUME NEW b \in Buffer, WellShaped(b), NEW e \in Entry
  PROVE  AddEntry(b, e) \in Buffer /\ WellShaped(AddEntry(b, e))
<1> DEFINE in  == After(b.in_offs, 1)
           out == IF b.full THEN After(b.out_offs, 1) ELSE b.out_offs
           r   == AddEntry(b, e)
<1>0. /\ MAX \in Nat /\ MAX > 0
      /\ e \in Entry /\ e # NoEntry
  BY CapacityAssumption, NullAssumption DEF Entry, NoEntry
<1>1. /\ b.in_offs \in Slot /\ b.out_offs \in Slot
      /\ b.full \in BOOLEAN
      /\ b.entry \in [Slot -> Entry \cup {NoEntry}]
  BY DEF Buffer
<1>2. /\ in \in Slot
      /\ in = IF b.in_offs + 1 < MAX THEN b.in_offs + 1 ELSE 0
  BY <1>0, <1>1, AfterValue DEF Slot
<1>3. /\ out \in Slot
      /\ b.full => out = in
      /\ ~b.full => out = 0
  BY <1>1, <1>2, AfterValue, <1>0 DEF WellShaped, Slot
<1>4. /\ r.entry = [b.entry EXCEPT ![b.in_offs] = e]
      /\ r.in_offs = in
      /\ r.out_offs = out
      /\ r.full = (in = out)
      /\ r \in Buffer
  BY <1>0, <1>1, <1>2, <1>3 DEF AddEntry, Buffer
<1>5. \A i \in Slot : r.entry[i] = IF i = b.in_offs THEN e ELSE b.entry[i]
  BY <1>1, <1>4
<1>6. \A i \in Slot : (r.entry[i] # NoEntry) <=> (in = out \/ i < in)
  <2>1. CASE b.full
    BY <2>1, <1>0, <1>1, <1>3, <1>5 DEF WellShaped
  <2>2. CASE ~b.full
    <3> SUFFICES ASSUME NEW i \in Slot
                 PROVE  (r.entry[i] # NoEntry) <=> (in = out \/ i < in)
      OBVIOUS
    <3>1. (r.entry[i] # NoEntry) <=> (i = b.in_offs \/ i < b.in_offs)
      BY <2>2, <1>0, <1>5 DEF WellShaped
    <3>2. (in = out \/ i < in) <=> i < b.in_offs + 1
      <4> HIDE DEF in, out
      <4> QED
        BY <2>2, <1>0, <1>1, <1>2, <1>3 DEF Slot
    <3> QED
      BY <3>1, <3>2, <1>1 DEF Slot
  <2> QED
    BY <2>1, <2>2, <1>1
<1>7. WellShaped(r)
  BY <1>2, <1>3, <1>4, <1>6 DEF WellShaped
<1> QED
  BY <1>4, <1>7

\* What Contents is: a sequence whose k-th element is the slot k-1 after
\* out_offs.
LEMMA ContentsSeq ==
  ASSUME NEW b \in Buffer
  PROVE  /\ Contents(b) \in Seq(Entry \cup {NoEntry})
         /\ Len(Contents(b)) = Count(b)
         /\ Count(b) \in 0..MAX
         /\ \A k \in 1..Count(b) : Contents(b)[k] = b.entry[After(b.out_offs, k-1)]
<1>1. /\ MAX \in Nat /\ MAX > 0
      /\ b.in_offs \in Slot /\ b.out_offs \in Slot /\ b.full \in BOOLEAN
      /\ b.entry \in [Slot -> Entry \cup {NoEntry}]
  BY CapacityAssumption DEF Buffer
<1>2. Count(b) \in 0..MAX
  BY <1>1 DEF Count, Slot
<1>3. \A k \in 1..Count(b) : After(b.out_offs, k-1) \in Slot
  <2> SUFFICES ASSUME NEW k \in 1..Count(b) PROVE After(b.out_offs, k-1) \in Slot
    OBVIOUS
  <2>1. k-1 \in 0..MAX
    BY <1>1, <1>2
  <2> QED
    BY <1>1, <2>1, AfterValue
<1>4. Contents(b) \in [1..Count(b) -> Entry \cup {NoEntry}]
  BY <1>1, <1>3 DEF Contents
<1> QED
  BY <1>2, <1>4 DEF Contents

\* Adding an entry forgets the oldest one exactly when the buffer is full.
LEMMA AddRemembers ==
  ASSUME NEW b \in Buffer, WellShaped(b), NEW e \in Entry
  PROVE  Contents(AddEntry(b, e)) =
           IF Len(Contents(b)) < MAX THEN Append(Contents(b), e) ELSE Append(Tail(Contents(b)), e)
<1> DEFINE r   == AddEntry(b, e)
           old == Contents(b)
           new == Contents(r)
           p   == b.in_offs
           T   == Entry \cup {NoEntry}
<1>0. /\ MAX \in Nat /\ MAX > 0 /\ e \in T
      /\ b \in Buffer /\ r \in Buffer
  BY CapacityAssumption, AddKeepsShape
<1>1. /\ old \in Seq(T) /\ Len(old) = Count(b) /\ Count(b) \in 0..MAX
      /\ \A k \in 1..Count(b) : old[k] = b.entry[After(b.out_offs, k-1)]
  BY <1>0, ContentsSeq
<1>2. /\ new \in Seq(T) /\ Len(new) = Count(r)
      /\ \A k \in 1..Count(r) : new[k] = r.entry[After(r.out_offs, k-1)]
  BY <1>0, ContentsSeq
<1>3. /\ p \in Slot /\ b.out_offs \in Slot /\ b.full \in BOOLEAN
      /\ \A i \in Slot : r.entry[i] = IF i = p THEN e ELSE b.entry[i]
      /\ r.in_offs = After(p, 1)
      /\ r.out_offs = IF b.full THEN After(b.out_offs, 1)
                                           ELSE b.out_offs
      /\ r.full = (r.in_offs = r.out_offs)
  BY <1>0 DEF AddEntry, Buffer
<1>4. After(p, 1) = IF p + 1 < MAX THEN p + 1 ELSE 0
  BY <1>0, <1>3, AfterValue DEF Slot
<1>5. CASE ~b.full
  <2>1. b.out_offs = 0 /\ r.out_offs = 0 /\ Count(b) = p /\ p < MAX
    BY <1>0, <1>3, <1>5 DEF WellShaped, Count, Slot
  <2>2. Count(r) = p + 1
    <3>1. CASE p + 1 < MAX
      BY <1>0, <1>3, <1>4, <2>1, <3>1 DEF Count, Slot
    <3>2. CASE p + 1 = MAX
      BY <1>0, <1>3, <1>4, <2>1, <3>2 DEF Count, Slot
    <3> QED
      BY <1>0, <1>3, <3>1, <3>2 DEF Slot
  <2>3. \A k \in 1..p+1 : k-1 \in Slot /\ After(0, k-1) = k-1
    BY <1>0, <1>3, AfterValue DEF Slot
  <2>4. \A k \in 1..p+1 : new[k] = IF k = p+1 THEN e ELSE old[k]
    <3> SUFFICES ASSUME NEW k \in 1..p+1
                 PROVE  new[k] = IF k = p+1 THEN e ELSE old[k]
      OBVIOUS
    <3>1. /\ k-1 \in Slot
          /\ (k-1 = p) <=> (k = p+1)
          /\ new[k] = r.entry[k-1]
      <4>1. new[k] = r.entry[After(0, k-1)]
        BY <1>2, <2>1, <2>2
      <4>2. k-1 \in Slot /\ After(0, k-1) = k-1
        BY <2>3
      <4>3. (k-1 = p) <=> (k = p+1)
        BY <1>0, <1>3 DEF Slot
      <4> QED
        BY <4>1, <4>2, <4>3
    <3>2. k # p+1 => old[k] = b.entry[k-1]
      <4> SUFFICES ASSUME k # p+1 PROVE old[k] = b.entry[k-1]
        OBVIOUS
      <4>1. k \in 1..p
        BY <1>0, <1>3 DEF Slot
      <4>2. old[k] = b.entry[After(b.out_offs, k-1)]
        BY <1>1, <2>1, <4>1
      <4>3. After(b.out_offs, k-1) = k-1
        BY <2>1, <2>3
      <4> QED
        BY <4>2, <4>3
    <3>3. r.entry[k-1] = IF k-1 = p THEN e ELSE b.entry[k-1]
      BY <1>3, <3>1
    <3> HIDE DEF old, new, p, T
    <3> QED
      BY <3>1, <3>2, <3>3
  <2>5. new = Append(old, e)
    <3> HIDE DEF old, new, p, T
    <3>1. /\ Append(old, e) \in Seq(T) /\ Len(Append(old, e)) = p + 1
          /\ \A k \in 1..p+1 : Append(old, e)[k] = IF k = p+1 THEN e ELSE old[k]
      BY <1>0, <1>1, <2>1
    <3> QED
      BY <1>2, <2>2, <2>4, <3>1, SeqEqual
  <2> QED
    BY <1>1, <2>1, <2>5
<1>6. CASE b.full
  <2>1. b.out_offs = p /\ Count(b) = MAX /\ Count(r) = MAX
        /\ r.out_offs = After(p, 1)
    BY <1>3, <1>6 DEF WellShaped, Count
  <2>2. \A k \in 1..MAX : /\ After(After(p, 1), k-1) = After(p, k)
                          /\ After(p, k) \in Slot
                          /\ (After(p, k) = p) <=> (k = MAX)
    <3> SUFFICES ASSUME NEW k \in 1..MAX
                 PROVE  /\ After(After(p, 1), k-1) = After(p, k)
                        /\ After(p, k) \in Slot
                        /\ (After(p, k) = p) <=> (k = MAX)
      OBVIOUS
    <3>1. /\ k \in 0..MAX /\ k-1 \in 0..MAX /\ After(p, 1) \in Slot
      BY <1>0, <1>3, <1>4 DEF Slot
    <3>2. /\ After(p, k) = IF p + k < MAX THEN p + k ELSE p + k - MAX
          /\ After(p, k) \in Slot
      BY <1>3, <3>1, AfterValue
    <3>3. After(After(p, 1), k-1) = IF After(p, 1) + (k-1) < MAX
                                      THEN After(p, 1) + (k-1)
                                      ELSE After(p, 1) + (k-1) - MAX
      BY <3>1, AfterValue
    <3> QED
      BY <1>0, <1>3, <1>4, <3>1, <3>2, <3>3 DEF Slot
  <2>3. \A k \in 1..MAX : new[k] = IF k = MAX THEN e ELSE old[k+1]
    <3> SUFFICES ASSUME NEW k \in 1..MAX
                 PROVE  new[k] = IF k = MAX THEN e ELSE old[k+1]
      OBVIOUS
    <3>1. new[k] = IF After(p, k) = p THEN e ELSE b.entry[After(p, k)]
      BY <1>2, <1>3, <2>1, <2>2
    <3>2. CASE k = MAX
      BY <3>1, <3>2, <2>2
    <3>3. CASE k # MAX
      <4>1. k+1 \in 1..MAX /\ (k+1)-1 = k
        BY <1>0, <3>3
      <4> QED
        BY <1>1, <2>1, <2>2, <3>1, <3>3, <4>1
    <3> QED
      BY <3>2, <3>3
  <2>4. new = Append(Tail(old), e)
    <3> HIDE DEF old, new, p, T
    <3>1. /\ Append(Tail(old), e) \in Seq(T) /\ Len(Append(Tail(old), e)) = MAX
          /\ \A k \in 1..MAX : Append(Tail(old), e)[k] = IF k = MAX THEN e ELSE old[k+1]
      BY <1>0, <1>1, <2>1
    <3> QED
      BY <1>2, <2>1, <2>3, <3>1, SeqEqual
  <2> QED
    BY <1>0, <1>1, <2>1, <2>4
<1> QED
  BY <1>3, <1>5, <1>6

LEMMA ContentsEntries ==
  ASSUME NEW b \in Buffer, WellShaped(b)
  PROVE  /\ Contents(b) \in Seq(Entry)
         /\ \A i \in Slot : b.entry[After(b.out_offs, i)].buffptr # NULL <=> i < Count(b)
<1>1. /\ Slot = 0 .. MAX-1 /\ MAX \in Nat /\ MAX > 0
      /\ b.entry \in [Slot -> Entry \cup {NoEntry}] /\ b.full \in BOOLEAN
      /\ b.in_offs \in Slot /\ b.out_offs \in Slot
  BY CapacityAssumption DEF Slot, Buffer
<1>2. ASSUME NEW i \in Slot
      PROVE  /\ After(b.out_offs, i) \in Slot
             /\ b.entry[After(b.out_offs, i)] # NoEntry <=> i < Count(b)
  <2>1. i \in 0 .. MAX
    BY <1>1
  <2>2. After(b.out_offs, i) \in Slot
    BY <1>1, <2>1, AfterValue
  <2>3. CASE b.full
    BY <1>1, <2>2, <2>3 DEF WellShaped, Count
  <2>4. CASE ~b.full
    <3>1. b.out_offs = 0
      BY <2>4 DEF WellShaped
    <3>2. 0 + i < MAX /\ 0 \in Slot
      BY <1>1
    <3>3. After(b.out_offs, i) = i
      BY <2>1, <3>1, <3>2, <1>1, AfterValue
    <3> QED
      BY <2>2, <2>4, <3>3 DEF WellShaped, Count
  <2> QED
    BY <2>3, <2>4, <2>2
<1>3. \A j \in Slot : /\ b.entry[j] # NoEntry <=> b.entry[j].buffptr # NULL
                      /\ b.entry[j] # NoEntry => b.entry[j] \in Entry
  BY <1>1, NullAssumption DEF Entry, NoEntry
<1>4. \A i \in Slot : b.entry[After(b.out_offs, i)].buffptr # NULL <=> i < Count(b)
  BY <1>2, <1>3
<1>5. Count(b) \in 0 .. MAX
  BY ContentsSeq
<1>6. ASSUME NEW k \in 1 .. Count(b) PROVE b.entry[After(b.out_offs, k-1)] \in Entry
  <2>1. k-1 \in Slot /\ k-1 < Count(b)
    BY <1>1, <1>5
  <2> QED
    BY <1>2, <1>3, <2>1
<1>7. Contents(b) \in [1 .. Count(b) -> Entry]
  BY <1>6 DEF Contents
<1> QED
  BY <1>4, <1>5, <1>7

\* Where each entry of the buffer starts in the bytes of all of them.
EntrySize(b)  == [i \in 0 .. Count(b)-1 |-> b.entry[After(b.out_offs, i)].size]
Starts(b, f)  == RunningSum(f, EntrySize(b), Count(b))

LEMMA EntrySizeType ==
  ASSUME NEW b \in Buffer, WellShaped(b)
  PROVE  EntrySize(b) \in [0 .. Count(b)-1 -> Nat]
<1>1. ASSUME NEW i \in 0 .. Count(b)-1 PROVE b.entry[After(b.out_offs, i)].size \in Nat
  <2>1. /\ Contents(b) \in Seq(Entry) /\ Len(Contents(b)) = Count(b) /\ Count(b) \in Nat
        /\ \A k \in 1 .. Count(b) : Contents(b)[k] = b.entry[After(b.out_offs, k-1)]
    BY ContentsSeq, ContentsEntries
  <2>2. i+1 \in 1 .. Count(b) /\ (i+1)-1 = i
    BY <2>1
  <2>3. Contents(b)[i+1] \in Entry
    BY <2>1, <2>2
  <2> QED
    BY <2>1, <2>2, <2>3 DEF Entry
<1> QED
  BY <1>1 DEF EntrySize

\* aesd_circular_buffer_find_entry_offset_for_fpos finds every byte where the running
\* sum of the sizes says it is.
LEMMA FindsEntry ==
  ASSUME NEW b \in Buffer, WellShaped(b), NEW f, Starts(b, f), NEW p \in Nat
  PROVE  /\ p >= f[Count(b)] => FindEntry(b, p) = NotFound
         /\ \A k \in 1 .. Count(b) :
              f[k-1] <= p /\ p < f[k] =>
                FindEntry(b, p) = [slot |-> After(b.out_offs, k-1), offset |-> p - f[k-1]]
<1> DEFINE N          == Count(b)
           slot(i)    == After(b.out_offs, i)
           present(i) == b.entry[slot(i)].buffptr # NULL
           size(i)    == IF present(i) THEN b.entry[slot(i)].size ELSE 0
           Rec(g)     == g = [i \in 0..MAX |-> IF i = 0 THEN 0 ELSE g[i-1] + size(i-1)]
           before     == CHOOSE g : Rec(g)
           stopped(i) == ~b.full /\ \E j \in 1..i : slot(j) = b.in_offs
           hit(i)     == /\ ~stopped(i)
                         /\ present(i)
                         /\ Covers(p, before[i], size(i))
           hits       == {i \in Slot : hit(i)}
           first      == CHOOSE h \in hits : \A k \in hits : h <= k
           sz         == [i \in 0 .. MAX-1 |-> size(i)]
<1>1. FindEntry(b, p) = IF hits = {} THEN NotFound
                        ELSE [slot |-> slot(first), offset |-> p - before[first]]
  BY DEF FindEntry
<1>2. /\ Slot = 0 .. MAX-1 /\ MAX \in Nat /\ N \in 0 .. MAX
      /\ b.entry \in [Slot -> Entry \cup {NoEntry}]
  BY CapacityAssumption, ContentsSeq DEF Slot, Buffer
<1>3. /\ \A i \in Slot : present(i) <=> i < N
      /\ \A i \in Slot : size(i) \in Nat
  <2>1. \A i \in Slot : present(i) <=> i < N
    BY ContentsEntries
  <2>2. ASSUME NEW i \in Slot PROVE size(i) \in Nat
    <3>1. CASE present(i)
      <4>1. i \in 0 .. N-1
        BY <1>2, <2>1, <3>1
      <4>2. EntrySize(b)[i] \in Nat
        BY <4>1, EntrySizeType
      <4> QED
        BY <3>1, <4>1, <4>2 DEF EntrySize
    <3> QED
      BY <3>1
  <2> QED
    BY <2>1, <2>2
<1>4. ASSUME NEW i \in Slot, i < N PROVE ~stopped(i)
  <2> SUFFICES ASSUME ~b.full, NEW j \in 1 .. i, slot(j) = b.in_offs PROVE FALSE
    OBVIOUS
  <2>1. N = b.in_offs /\ b.out_offs = 0
    BY DEF Count, WellShaped
  <2>2. j \in 0 .. MAX /\ 0 + j < MAX /\ 0 \in Slot /\ j < N
    BY <1>2, <1>4
  <2>3. slot(j) = j
    <3>1. After(0, j) = IF 0 + j < MAX THEN 0 + j ELSE 0 + j - MAX
      BY <2>2, AfterValue
    <3> QED
      BY <2>1, <2>2, <3>1
  <2> QED
    BY <1>2, <2>1, <2>2, <2>3
<1>5. sz \in [0 .. MAX-1 -> Nat]
  BY <1>2, <1>3
<1>6. RunningSum(before, sz, MAX)
  <2>1. PICK g : RunningSum(g, sz, MAX)
    BY <1>2, <1>5, RunningSumExists
  <2>2. \A i \in 1 .. MAX : i-1 \in 0 .. MAX-1 /\ sz[i-1] = size(i-1)
    BY <1>2
  <2>3. Rec(g)
    <3> HIDE DEF sz, size
    <3>1. \A i \in 0 .. MAX : g[i] = IF i = 0 THEN 0 ELSE g[i-1] + size(i-1)
      BY <1>2, <2>1, <2>2 DEF RunningSum
    <3>2. g = [i \in 0 .. MAX |-> g[i]]
      BY <2>1 DEF RunningSum
    <3> QED
      BY <3>1, <3>2
  <2>4. Rec(before)
    <3> HIDE DEF Rec
    <3> QED
      BY <2>3
  <2>5. before = [i \in 0..MAX |-> IF i = 0 THEN 0 ELSE before[i-1] + sz[i-1]]
    <3> HIDE DEF before
    <3>1. before = [i \in 0..MAX |-> IF i = 0 THEN 0 ELSE before[i-1] + size(i-1)]
      BY <2>4
    <3> HIDE DEF sz, size
    <3>2. \A i \in 0 .. MAX : (IF i = 0 THEN 0 ELSE before[i-1] + size(i-1))
                              = (IF i = 0 THEN 0 ELSE before[i-1] + sz[i-1])
      BY <1>2, <2>2
    <3> QED
      BY <3>1, <3>2
  <2> HIDE DEF before, sz, Rec
  <2> QED
    BY <1>2, <1>5, <2>5, RunningSumType
<1>7. /\ \A n \in 0 .. N : before[n] = f[n]
      /\ \A n \in 0 .. N : f[n] \in Nat
  <2>1. \A i \in 0 .. N-1 : sz[i] = EntrySize(b)[i]
    <3> SUFFICES ASSUME NEW i \in 0 .. N-1 PROVE sz[i] = EntrySize(b)[i]
      OBVIOUS
    <3>1. i \in Slot /\ i < N /\ i \in 0 .. MAX-1
      BY <1>2
    <3> QED
      BY <1>3, <3>1 DEF EntrySize
  <2>2. RunningSum(f, EntrySize(b), N) /\ N \in Nat /\ N <= MAX
    BY <1>2 DEF Starts
  <2> HIDE DEF before, sz, N
  <2>3. \A n \in 0 .. N : before[n] = f[n]
    BY <1>2, <1>6, <2>1, <2>2, RunningSumUnique
  <2> QED
    BY <2>2, <2>3 DEF RunningSum
<1>8. ASSUME NEW i \in Slot PROVE i \in hits <=> i < N /\ p < f[i+1]
  <2>1. hit(i) => i < N
    BY <1>3
  <2>2. ASSUME i < N PROVE hit(i) <=> p < f[i+1]
    <3>1. i \in 0 .. N /\ i+1 \in 0 .. N /\ i+1 \in 1 .. MAX /\ (i+1)-1 = i
      BY <1>2, <2>2
    <3>2. sz[i] = size(i)
      BY <1>2
    <3>3. before[i+1] = before[i] + sz[i]
      <4> HIDE DEF before, sz
      <4>1. before[i+1] = before[(i+1)-1] + sz[(i+1)-1]
        BY <1>6, <3>1 DEF RunningSum
      <4> QED
        BY <3>1, <4>1
    <3>4. before[i] + size(i) = f[i+1]
      BY <1>7, <3>1, <3>2, <3>3
    <3> HIDE DEF before, size
    <3> QED
      BY <1>3, <1>4, <2>2, <3>4 DEF Covers
  <2> QED
    BY <2>1, <2>2
<1>9. hits \subseteq Slot
  OBVIOUS
<1> HIDE DEF hits, before
<1>10. EntrySize(b) \in [0 .. N-1 -> Nat] /\ RunningSum(f, EntrySize(b), N) /\ N \in Nat
  BY <1>2, EntrySizeType DEF Starts
<1>11. ASSUME p >= f[N] PROVE hits = {}
  <2> SUFFICES ASSUME NEW i \in hits PROVE FALSE
    OBVIOUS
  <2>1. i \in Slot /\ i < N /\ p < f[i+1]
    BY <1>8, <1>9
  <2>2. i+1 \in 0 .. N /\ N \in i+1 .. N
    BY <1>2, <2>1
  <2>3. f[i+1] <= f[N]
    <3> HIDE DEF N
    <3> QED
      BY <1>10, <2>2, RunningSumGrows
  <2>4. f[i+1] \in Nat /\ f[N] \in Nat
    BY <1>7, <1>10, <2>2
  <2> QED
    BY <1>11, <2>1, <2>3, <2>4
<1>12. ASSUME NEW k \in 1 .. N, f[k-1] <= p, p < f[k]
       PROVE  /\ hits # {} /\ first = k-1
  <2>1. k-1 \in Slot /\ k-1 < N /\ (k-1)+1 = k /\ k-1 \in 0 .. N
    BY <1>2
  <2>2. k-1 \in hits
    BY <1>8, <1>12, <2>1
  <2>3. ASSUME NEW h \in hits PROVE k-1 <= h
    <3>1. h \in Slot /\ h < N /\ p < f[h+1]
      BY <1>8, <1>9
    <3> SUFFICES ASSUME h < k-1 PROVE FALSE
      BY <1>2, <3>1
    <3>2. h+1 \in 0 .. N /\ k-1 \in h+1 .. N
      BY <1>2, <2>1, <3>1
    <3>3. f[h+1] <= f[k-1]
      <4> HIDE DEF N
      <4> QED
        BY <1>10, <3>2, RunningSumGrows
    <3>4. f[h+1] \in Nat /\ f[k-1] \in Nat
      BY <1>7, <2>1, <3>2
    <3> QED
      BY <1>12, <3>1, <3>3, <3>4
  <2>4. \A h \in hits : h \in Int
    BY <1>2, <1>9
  <2>5. \A h \in hits : (\A j \in hits : h <= j) => h = k-1
    BY <1>2, <1>9, <2>1, <2>2, <2>3, <2>4
  <2> QED
    BY <2>2, <2>3, <2>5
<1>13. \A k \in 1 .. N : k-1 \in 0 .. N
  BY <1>2
<1> HIDE DEF first
<1> QED
  BY <1>1, <1>7, <1>11, <1>12, <1>13
=============================================================================
