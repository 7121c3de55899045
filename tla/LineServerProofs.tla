--------------------------- MODULE LineServerProofs ---------------------------
(***************************************************************************)
(* The server is a server of lines, for any number of clients, any packets *)
(* and any capacity of the device, while nothing fails: each client's      *)
(* request takes effect at one step, between its arrival and its answer,   *)
(* and the answer is the lines that the device holds at that step.         *)
(*                                                                         *)
(* Strings.  A string is cut at its newlines; what that does to a string   *)
(* which is appended to another, and to the first line of one.             *)
(*                                                                         *)
(* Serving.  Where each worker is in its request when nothing fails: what  *)
(* is left to write, to seek or to send, and what was seen when it began.  *)
(*                                                                         *)
(* Steps.  A request takes effect when aesd_write has joined it to the     *)
(* unfinished line, or aesd_ioctl has stored the position; it is answered  *)
(* when the worker has sent the last byte and unlocks file_mutex.  What    *)
(* the clients see changes in no other step.                               *)
(*                                                                         *)
(* Own line.  A client's own line is in its answer as long as no more than *)
(* the capacity have written, each one line.                               *)
(***************************************************************************)
EXTENDS WorkersRefinement, WorkersProofs, FiniteSetTheorems

-----------------------------------------------------------------------------
(* Strings cut into lines.                                                 *)

\* How many lines the bytes of a string complete, byte after byte.
LEMMA CompletedStep ==
  ASSUME NEW s \in Seq(Byte), NEW n \in Nat
  PROVE  /\ S!Completed(s, n) \in Nat
         /\ S!Completed(s, 0) = 0
         /\ S!Completed(s, n+1) = S!Completed(s, n) + (IF s[n+1] = Newline THEN 1 ELSE 0)
<1> DEFINE C(m) == {i \in 1 .. m : s[i] = Newline}
<1>1. \A m \in Nat : IsFiniteSet(C(m)) /\ Cardinality(C(m)) \in Nat
  <2> SUFFICES ASSUME NEW m \in Nat PROVE IsFiniteSet(C(m)) /\ Cardinality(C(m)) \in Nat
    OBVIOUS
  <2>1. IsFiniteSet(1 .. m) /\ C(m) \subseteq 1 .. m
    BY FS_Interval
  <2> HIDE DEF C
  <2> QED
    BY <2>1, FS_Subset, FS_CardinalityType
<1>2. C(0) = {}
  OBVIOUS
<1>3. s[n+1] = Newline => C(n+1) = C(n) \cup {n+1} /\ n+1 \notin C(n)
  OBVIOUS
<1>4. s[n+1] # Newline => C(n+1) = C(n)
  OBVIOUS
<1>5. ASSUME NEW m PROVE S!Completed(s, m) = Cardinality(C(m))
  BY DEF S!Completed, S!Cardinality, Cardinality, S!IsFiniteSet, IsFiniteSet
<1> HIDE DEF C
<1>6. Cardinality(C(0)) = 0
  BY <1>2, FS_EmptySet
<1>7. s[n+1] = Newline => Cardinality(C(n+1)) = Cardinality(C(n)) + 1
  BY <1>1, <1>3, FS_AddElement
<1>8. /\ S!Completed(s, 0) = Cardinality(C(0)) /\ S!Completed(s, n) = Cardinality(C(n))
      /\ S!Completed(s, n+1) = Cardinality(C(n+1))
  BY <1>5
<1>9. Cardinality(C(n)) \in Nat
  BY <1>1
<1>10. S!Completed(s, n+1) = S!Completed(s, n) + (IF s[n+1] = Newline THEN 1 ELSE 0)
  <2>1. CASE s[n+1] = Newline
    BY <1>7, <1>8, <2>1
  <2>2. CASE s[n+1] # Newline
    BY <1>4, <1>8, <1>9, <2>2
  <2> QED
    BY <2>1, <2>2
<1> QED
  BY <1>6, <1>8, <1>9, <1>10

\* They complete no fewer lines the more they are.
LEMMA CompletedGrows ==
  ASSUME NEW s \in Seq(Byte), NEW m \in Nat, NEW n \in Nat, m <= n
  PROVE  S!Completed(s, m) <= S!Completed(s, n)
<1> DEFINE G == {k \in Nat : S!Completed(s, m) <= S!Completed(s, m+k)}
<1>1. 0 \in G
  BY CompletedStep
<1>2. ASSUME NEW k \in Nat, k \in G PROVE k+1 \in G
  <2>1. m+k \in Nat /\ m+(k+1) = (m+k)+1
    OBVIOUS
  <2>2. /\ S!Completed(s, m) \in Nat /\ S!Completed(s, m+k) \in Nat
        /\ S!Completed(s, m+(k+1)) = S!Completed(s, m+k) + (IF s[(m+k)+1] = Newline THEN 1 ELSE 0)
    BY <2>1, CompletedStep
  <2> QED
    BY <1>2, <2>2
<1>3. Nat \subseteq G
  <2> HIDE DEF G
  <2> QED
    BY <1>1, <1>2, NaturalInduction
<1>4. n-m \in Nat /\ m+(n-m) = n
  OBVIOUS
<1> QED
  BY <1>3, <1>4

\* Every line that is completed has an end, and only one.
LEMMA EndExists ==
  ASSUME NEW s \in Seq(Byte), NEW k \in 1 .. S!Completed(s, Len(s))
  PROVE  \E n \in 1 .. Len(s) : s[n] = Newline /\ S!Completed(s, n) = k
<1> DEFINE G == {m \in Nat : \A j \in 1 .. S!Completed(s, m) :
                    \E n \in 1 .. m : s[n] = Newline /\ S!Completed(s, n) = j}
<1>1. 0 \in G
  <2>1. S!Completed(s, 0) = 0
    BY CompletedStep
  <2> QED
    BY <2>1
<1>2. ASSUME NEW m \in Nat, m \in G PROVE m+1 \in G
  <2>1. /\ S!Completed(s, m) \in Nat
        /\ S!Completed(s, m+1) = S!Completed(s, m) + (IF s[m+1] = Newline THEN 1 ELSE 0)
    BY CompletedStep
  <2> SUFFICES ASSUME NEW j \in 1 .. S!Completed(s, m+1)
               PROVE  \E n \in 1 .. m+1 : s[n] = Newline /\ S!Completed(s, n) = j
    OBVIOUS
  <2>2. CASE j \in 1 .. S!Completed(s, m)
    <3>1. PICK n \in 1 .. m : s[n] = Newline /\ S!Completed(s, n) = j
      BY <1>2, <2>2
    <3> QED
      BY <3>1
  <2>3. CASE j \notin 1 .. S!Completed(s, m)
    <3>1. s[m+1] = Newline /\ j = S!Completed(s, m+1)
      BY <2>1, <2>3
    <3> QED
      BY <3>1
  <2> QED
    BY <2>2, <2>3
<1>3. Nat \subseteq G
  <2> HIDE DEF G
  <2> QED
    BY <1>1, <1>2, NaturalInduction
<1>4. Len(s) \in Nat
  OBVIOUS
<1> QED
  BY <1>3, <1>4

LEMMA EndUnique ==
  ASSUME NEW s \in Seq(Byte), NEW m \in Nat \ {0}, NEW n \in Nat \ {0},
         s[m] = Newline, s[n] = Newline, S!Completed(s, m) = S!Completed(s, n)
  PROVE  m = n
<1>1. ASSUME NEW i \in Nat \ {0}, NEW j \in Nat \ {0}, s[j] = Newline, i < j
      PROVE  S!Completed(s, i) < S!Completed(s, j)
  <2>1. i \in Nat /\ j-1 \in Nat /\ i <= j-1 /\ (j-1)+1 = j
    BY <1>1
  <2>2. S!Completed(s, i) <= S!Completed(s, j-1)
    BY <2>1, CompletedGrows
  <2>3. /\ S!Completed(s, j-1) \in Nat /\ S!Completed(s, i) \in Nat
        /\ S!Completed(s, (j-1)+1) = S!Completed(s, j-1) + (IF s[(j-1)+1] = Newline THEN 1 ELSE 0)
    BY <2>1, CompletedStep
  <2> QED
    BY <1>1, <2>1, <2>2, <2>3
<1>2. S!Completed(s, m) \in Nat
  BY CompletedStep
<1>3. m < n => S!Completed(s, m) < S!Completed(s, n)
  BY <1>1
<1>4. n < m => S!Completed(s, n) < S!Completed(s, m)
  BY <1>1
<1> QED
  BY <1>2, <1>3, <1>4

LEMMA EndFacts ==
  ASSUME NEW s \in Seq(Byte), NEW k \in 1 .. S!Completed(s, Len(s))
  PROVE  /\ S!End(s, k) \in 1 .. Len(s) /\ s[S!End(s, k)] = Newline
         /\ S!Completed(s, S!End(s, k)) = k
<1>1. k # 0
  <2>1. Len(s) \in Nat
    OBVIOUS
  <2>2. S!Completed(s, Len(s)) \in Nat
    BY <2>1, CompletedStep
  <2> QED
    BY <2>2
<1>2. S!End(s, k) = CHOOSE n \in 1 .. Len(s) : s[n] = Newline /\ S!Completed(s, n) = k
  BY <1>1 DEF S!End
<1>3. \E n \in 1 .. Len(s) : s[n] = Newline /\ S!Completed(s, n) = k
  BY EndExists
<1> QED
  BY <1>2, <1>3

\* A string without a newline: no line, and all of it left over.
LEMMA CutNothing ==
  ASSUME NEW s \in Seq(Byte), Newline \notin Range(s)
  PROVE  S!Cut(s) = << >> /\ S!Unended(s) = s
<1> DEFINE G == {n \in Nat : n <= Len(s) => S!Completed(s, n) = 0}
<1>0. Len(s) \in Nat /\ \A i \in 1 .. Len(s) : s[i] # Newline
  BY DEF Range
<1>1. 0 \in G
  BY CompletedStep
<1>2. ASSUME NEW n \in Nat, n \in G PROVE n+1 \in G
  <2> SUFFICES ASSUME n+1 <= Len(s) PROVE S!Completed(s, n+1) = 0
    OBVIOUS
  <2>1. n+1 \in 1 .. Len(s) /\ S!Completed(s, n) = 0
    BY <1>0, <1>2
  <2>2. S!Completed(s, n+1) = S!Completed(s, n) + (IF s[n+1] = Newline THEN 1 ELSE 0)
    BY CompletedStep
  <2> QED
    BY <1>0, <2>1, <2>2
<1>3. S!Completed(s, Len(s)) = 0
  <2>1. Nat \subseteq G
    <3> HIDE DEF G
    <3> QED
      BY <1>1, <1>2, NaturalInduction
  <2> QED
    BY <1>0, <2>1
<1>4. S!Cut(s) = << >>
  BY <1>3 DEF S!Cut
<1>5. S!Unended(s) = SubSeq(s, 0+1, Len(s))
  BY <1>3 DEF S!Unended, S!End
<1>6. SubSeq(s, 1, Len(s)) = s
  BY SubSeqFull
<1> QED
  BY <1>4, <1>5, <1>6

\* The first line of a string, and the string that follows it.
LEMMA CompletedAfter ==
  ASSUME NEW s \in Seq(Byte), NEW n \in 1 .. Len(s), s[n] = Newline,
         \A i \in 1 .. n-1 : s[i] # Newline
  PROVE  LET t == SubSeq(s, n+1, Len(s))
         IN  /\ t \in Seq(Byte) /\ Len(t) = Len(s) - n
             /\ \A j \in 1 .. Len(t) : t[j] = s[n+j]
             /\ S!Completed(s, n) = 1
             /\ \A j \in 0 .. Len(t) : S!Completed(s, n+j) = S!Completed(t, j) + 1
<1> DEFINE t == SubSeq(s, n+1, Len(s))
           G == {m \in Nat : m < n => S!Completed(s, m) = 0}
           H == {j \in Nat : j <= Len(t) => S!Completed(s, n+j) = S!Completed(t, j) + 1}
<1>0. Len(s) \in Nat /\ n \in Nat /\ n > 0 /\ n <= Len(s)
  OBVIOUS
<1>1. t \in Seq(Byte) /\ Len(t) = Len(s) - n /\ \A j \in 1 .. Len(t) : t[j] = s[n+j]
  <2>1. ASSUME NEW i \in (n+1) .. Len(s) PROVE s[i] \in Byte
    BY <1>0, ElementOfSeq
  <2>2. /\ SubSeq(s, n+1, Len(s)) \in Seq(Byte)
        /\ Len(SubSeq(s, n+1, Len(s))) = IF n+1 <= Len(s) THEN Len(s) - (n+1) + 1 ELSE 0
        /\ \A i \in 1 .. Len(s) - (n+1) + 1 : SubSeq(s, n+1, Len(s))[i] = s[(n+1) + i - 1]
    BY <1>0, <2>1, SubSeqProperties
  <2>3. t \in Seq(Byte) /\ Len(t) = Len(s) - n
    BY <1>0, <2>2
  <2>4. ASSUME NEW j \in 1 .. Len(t) PROVE t[j] = s[n+j]
    <3>1. j \in 1 .. Len(s) - (n+1) + 1 /\ (n+1) + j - 1 = n+j
      BY <1>0, <2>3
    <3> QED
      BY <2>2, <3>1
  <2> QED
    BY <2>3, <2>4
<1> HIDE DEF t
<1>2. S!Completed(s, n-1) = 0
  <2>1. 0 \in G
    BY CompletedStep
  <2>2. ASSUME NEW m \in Nat, m \in G PROVE m+1 \in G
    <3> SUFFICES ASSUME m+1 < n PROVE S!Completed(s, m+1) = 0
      OBVIOUS
    <3>1. m+1 \in 1 .. n-1 /\ S!Completed(s, m) = 0
      BY <1>0, <2>2
    <3>2. S!Completed(s, m+1) = S!Completed(s, m) + (IF s[m+1] = Newline THEN 1 ELSE 0)
      BY CompletedStep
    <3> QED
      BY <3>1, <3>2
  <2>3. Nat \subseteq G
    <3> HIDE DEF G
    <3> QED
      BY <2>1, <2>2, NaturalInduction
  <2>4. n-1 \in Nat /\ n-1 < n
    BY <1>0
  <2> QED
    BY <2>3, <2>4
<1>3. S!Completed(s, n) = 1
  <2>1. n-1 \in Nat /\ (n-1)+1 = n
    BY <1>0
  <2>2. S!Completed(s, (n-1)+1) = S!Completed(s, n-1) + (IF s[(n-1)+1] = Newline THEN 1 ELSE 0)
    BY <2>1, CompletedStep
  <2> QED
    BY <1>2, <2>1, <2>2
<1>4. 0 \in H
  <2>1. S!Completed(t, 0) = 0 /\ n+0 = n
    BY <1>0, <1>1, CompletedStep
  <2> QED
    BY <1>3, <2>1
<1>5. ASSUME NEW j \in Nat, j \in H PROVE j+1 \in H
  <2> SUFFICES ASSUME j+1 <= Len(t) PROVE S!Completed(s, n+(j+1)) = S!Completed(t, j+1) + 1
    OBVIOUS
  <2>1. j+1 \in 1 .. Len(t) /\ n+(j+1) = (n+j)+1 /\ n+j \in Nat /\ t[j+1] = s[(n+j)+1]
    BY <1>0, <1>1
  <2>2. S!Completed(s, n+j) = S!Completed(t, j) + 1
    BY <1>1, <1>5, <2>1
  <2>3. S!Completed(s, (n+j)+1) = S!Completed(s, n+j) + (IF s[(n+j)+1] = Newline THEN 1 ELSE 0)
    BY <2>1, CompletedStep
  <2>4. S!Completed(t, j) \in Nat /\ S!Completed(t, j+1) = S!Completed(t, j) + (IF t[j+1] = Newline THEN 1 ELSE 0)
    BY <1>1, CompletedStep
  <2> QED
    BY <2>1, <2>2, <2>3, <2>4
<1>6. \A j \in 0 .. Len(t) : S!Completed(s, n+j) = S!Completed(t, j) + 1
  <2>1. Nat \subseteq H
    <3> HIDE DEF H
    <3> QED
      BY <1>4, <1>5, NaturalInduction
  <2> QED
    BY <1>1, <2>1
<1> QED
  BY <1>1, <1>3, <1>6 DEF t

LEMMA CompletedLen == ASSUME NEW s \in Seq(Byte) PROVE Len(s) \in Nat /\ S!Completed(s, Len(s)) \in Nat
BY CompletedStep

\* Where the lines of a string begin and end.
LEMMA EndRange ==
  ASSUME NEW s \in Seq(Byte), NEW k \in 0 .. S!Completed(s, Len(s))
  PROVE  S!End(s, k) \in 0 .. Len(s)
<1>1. Len(s) \in Nat /\ S!Completed(s, Len(s)) \in Nat
  BY CompletedLen
<1>2. CASE k = 0
  BY <1>1, <1>2 DEF S!End
<1>3. CASE k # 0
  <2>1. k \in 1 .. S!Completed(s, Len(s))
    BY <1>1, <1>3
  <2> QED
    BY <1>1, <2>1, EndFacts
<1> QED
  BY <1>2, <1>3

\* Part of a string is a string.
LEMMA PartOfString ==
  ASSUME NEW s \in Seq(Byte), NEW m \in Nat, m > 0, NEW n \in 0 .. Len(s)
  PROVE  SubSeq(s, m, n) \in Seq(Byte)
<1>1. \A i \in m .. n : s[i] \in Byte
  <2>1. \A i \in m .. n : i \in 1 .. Len(s)
    OBVIOUS
  <2> QED
    BY <2>1, ElementOfSeq
<1> QED
  BY <1>1, SubSeqProperties

LEMMA CutShape ==
  ASSUME NEW s \in Seq(Byte)
  PROVE  /\ S!Cut(s) \in Seq(Seq(Byte)) /\ Len(S!Cut(s)) = S!Completed(s, Len(s))
         /\ \A k \in 1 .. S!Completed(s, Len(s)) : S!Cut(s)[k] = SubSeq(s, S!End(s, k-1) + 1, S!End(s, k))
<1> DEFINE N == S!Completed(s, Len(s))
<1>1. N \in Nat /\ Len(s) \in Nat
  BY CompletedLen
<1>2. ASSUME NEW k \in 1 .. N PROVE SubSeq(s, S!End(s, k-1) + 1, S!End(s, k)) \in Seq(Byte)
  <2>1. k-1 \in 0 .. N /\ k \in 0 .. N
    BY <1>1
  <2>2. S!End(s, k-1) \in 0 .. Len(s) /\ S!End(s, k) \in 0 .. Len(s)
    BY <2>1, EndRange
  <2> QED
    BY <1>1, <2>2, PartOfString
<1>3. S!Cut(s) = [k \in 1 .. N |-> SubSeq(s, S!End(s, k-1) + 1, S!End(s, k))]
  BY DEF S!Cut
<1> HIDE DEF N
<1>4. S!Cut(s) \in [1 .. N -> Seq(Byte)]
  BY <1>2, <1>3
<1>5. S!Cut(s) \in Seq(Seq(Byte)) /\ Len(S!Cut(s)) = N
  BY <1>1, <1>4
<1> QED
  BY <1>3, <1>5 DEF N

\* Part of a part.
LEMMA PartOfPart ==
  ASSUME NEW s \in Seq(Byte), NEW n \in 0 .. Len(s), NEW t \in Seq(Byte), Len(t) = Len(s) - n,
         \A j \in 1 .. Len(t) : t[j] = s[n+j],
         NEW x \in 0 .. Len(t), NEW y \in 0 .. Len(t)
  PROVE  SubSeq(s, (n+x)+1, n+y) = SubSeq(t, x+1, y)
<1>0. Len(s) \in Nat /\ Len(t) \in Nat /\ n \in Nat /\ x \in Nat /\ y \in Nat
  OBVIOUS
<1>1. /\ SubSeq(s, (n+x)+1, n+y) \in Seq(Byte)
      /\ Len(SubSeq(s, (n+x)+1, n+y)) = IF (n+x)+1 <= n+y THEN (n+y) - ((n+x)+1) + 1 ELSE 0
      /\ \A i \in 1 .. (n+y) - ((n+x)+1) + 1 : SubSeq(s, (n+x)+1, n+y)[i] = s[((n+x)+1) + i - 1]
  <2> DEFINE a == (n+x)+1
             b == n+y
  <2>1. a \in Nat /\ a >= 1 /\ b \in Nat /\ b <= Len(s)
    BY <1>0
  <2> HIDE DEF a, b
  <2>2. \A i \in a .. b : i \in 1 .. Len(s)
    BY <1>0, <2>1
  <2>3. \A i \in a .. b : s[i] \in Byte
    BY <2>2, ElementOfSeq
  <2>4. /\ SubSeq(s, a, b) \in Seq(Byte)
        /\ Len(SubSeq(s, a, b)) = IF a <= b THEN b - a + 1 ELSE 0
        /\ \A i \in 1 .. b - a + 1 : SubSeq(s, a, b)[i] = s[a + i - 1]
    BY <2>1, <2>3, SubSeqProperties
  <2> QED
    BY <2>4 DEF a, b
<1>2. /\ SubSeq(t, x+1, y) \in Seq(Byte)
      /\ Len(SubSeq(t, x+1, y)) = IF x+1 <= y THEN y - (x+1) + 1 ELSE 0
      /\ \A i \in 1 .. y - (x+1) + 1 : SubSeq(t, x+1, y)[i] = t[(x+1) + i - 1]
  <2> DEFINE a == x+1
  <2>1. a \in Nat /\ a >= 1 /\ y <= Len(t)
    BY <1>0
  <2> HIDE DEF a
  <2>2. \A i \in a .. y : i \in 1 .. Len(t)
    BY <1>0, <2>1
  <2>3. \A i \in a .. y : t[i] \in Byte
    BY <2>2, ElementOfSeq
  <2>4. /\ SubSeq(t, a, y) \in Seq(Byte)
        /\ Len(SubSeq(t, a, y)) = IF a <= y THEN y - a + 1 ELSE 0
        /\ \A i \in 1 .. y - a + 1 : SubSeq(t, a, y)[i] = t[a + i - 1]
    BY <1>0, <2>1, <2>3, SubSeqProperties
  <2> QED
    BY <2>4 DEF a
<1> DEFINE A == SubSeq(s, (n+x)+1, n+y)
           B == SubSeq(t, x+1, y)
<1>3. Len(A) = Len(B) /\ Len(B) \in Nat
  BY <1>0, <1>1, <1>2
<1>4. ASSUME NEW i \in 1 .. Len(B) PROVE A[i] = B[i]
  <2>1. i \in 1 .. y - (x+1) + 1 /\ i \in 1 .. (n+y) - ((n+x)+1) + 1
    BY <1>0, <1>2
  <2>2. A[i] = s[((n+x)+1) + i - 1] /\ B[i] = t[(x+1) + i - 1]
    BY <1>1, <1>2, <2>1
  <2>3. x+i \in 1 .. Len(t) /\ (x+1)+i-1 = x+i /\ ((n+x)+1) + i - 1 = n+(x+i)
    <3>1. i \in Nat /\ i >= 1 /\ i <= y - (x+1) + 1 /\ y <= Len(t)
      BY <1>0, <2>1
    <3>2. x+i >= 1 /\ x+i <= Len(t) /\ x+i \in Nat
      BY <1>0, <3>1
    <3>3. x+i \in 1 .. Len(t)
      BY <1>0, <3>2
    <3>4. (x+1)+i-1 = x+i /\ ((n+x)+1) + i - 1 = n+(x+i)
      BY <1>0, <3>1
    <3> QED
      BY <3>3, <3>4
  <2>4. t[x+i] = s[n+(x+i)]
    BY <2>3
  <2> QED
    BY <2>2, <2>3, <2>4
<1>5. A \in Seq(Byte) /\ B \in Seq(Byte)
  BY <1>1, <1>2
<1> HIDE DEF A, B
<1>6. A = B
  BY <1>3, <1>4, <1>5, SeqEqual
<1> QED
  BY <1>6 DEF A, B

\* Where the lines after the first end.
LEMMA EndAfter ==
  ASSUME NEW s \in Seq(Byte), NEW n \in 1 .. Len(s), s[n] = Newline,
         \A i \in 1 .. n-1 : s[i] # Newline
  PROVE  LET t == SubSeq(s, n+1, Len(s))
         IN  /\ S!Completed(s, Len(s)) = S!Completed(t, Len(t)) + 1
             /\ \A k \in 0 .. S!Completed(t, Len(t)) : S!End(s, k+1) = n + S!End(t, k)
<1> DEFINE t == SubSeq(s, n+1, Len(s))
<1>1. /\ t \in Seq(Byte) /\ Len(t) = Len(s) - n
      /\ \A j \in 1 .. Len(t) : t[j] = s[n+j]
      /\ S!Completed(s, n) = 1
      /\ \A j \in 0 .. Len(t) : S!Completed(s, n+j) = S!Completed(t, j) + 1
  BY CompletedAfter
<1> HIDE DEF t
<1>2. Len(s) \in Nat /\ Len(t) \in Nat /\ n \in Nat /\ n > 0 /\ n <= Len(s)
  BY <1>1
<1>3. S!Completed(s, Len(s)) = S!Completed(t, Len(t)) + 1 /\ S!Completed(t, Len(t)) \in Nat
  <2>1. Len(t) \in 0 .. Len(t) /\ n + Len(t) = Len(s)
    BY <1>1, <1>2
  <2> QED
    BY <1>1, <2>1, CompletedLen
<1>4. ASSUME NEW k \in 0 .. S!Completed(t, Len(t)) PROVE S!End(s, k+1) = n + S!End(t, k)
  <2> DEFINE m == n + S!End(t, k)
  <2>1. S!End(t, k) \in 0 .. Len(t)
    BY <1>1, EndRange
  <2>2. m \in 1 .. Len(s) /\ m \in Nat \ {0}
    BY <1>1, <1>2, <2>1
  <2>3. s[m] = Newline /\ S!Completed(s, m) = k+1
    <3>1. CASE k = 0
      <4>1. S!End(t, k) = 0
        BY <3>1 DEF S!End
      <4>2. m = n
        BY <1>2, <4>1
      <4> QED
        BY <1>1, <3>1, <4>2
    <3>2. CASE k # 0
      <4>1. k \in 1 .. S!Completed(t, Len(t))
        BY <1>3, <3>2
      <4>2. S!End(t, k) \in 1 .. Len(t) /\ t[S!End(t, k)] = Newline /\ S!Completed(t, S!End(t, k)) = k
        BY <1>1, <4>1, EndFacts
      <4> QED
        BY <1>1, <2>1, <4>2
    <3> QED
      BY <3>1, <3>2
  <2>4. k+1 \in 1 .. S!Completed(s, Len(s))
    BY <1>3
  <2>5. /\ S!End(s, k+1) \in 1 .. Len(s) /\ s[S!End(s, k+1)] = Newline
        /\ S!Completed(s, S!End(s, k+1)) = k+1
    BY <2>4, EndFacts
  <2>6. S!End(s, k+1) \in Nat \ {0}
    BY <1>2, <2>5
  <2> HIDE DEF m
  <2>7. S!End(s, k+1) = m
    BY <2>2, <2>3, <2>5, <2>6, EndUnique
  <2> QED
    BY <2>7 DEF m
<1> QED
  BY <1>3, <1>4 DEF t

\* A string begins with its first line: what follows it is cut as it would be alone.
LEMMA CutFirst ==
  ASSUME NEW s \in Seq(Byte), NEW n \in 1 .. Len(s), s[n] = Newline,
         \A i \in 1 .. n-1 : s[i] # Newline
  PROVE  LET t == SubSeq(s, n+1, Len(s))
         IN  /\ S!Cut(s) = <<SubSeq(s, 1, n)>> \o S!Cut(t)
             /\ S!Unended(s) = S!Unended(t)
             /\ t \in Seq(Byte)
<1> DEFINE t == SubSeq(s, n+1, Len(s))
           N == S!Completed(t, Len(t))
           l == SubSeq(s, 1, n)
<1>1. /\ t \in Seq(Byte) /\ Len(t) = Len(s) - n
      /\ \A j \in 1 .. Len(t) : t[j] = s[n+j]
  BY CompletedAfter
<1>2. /\ S!Completed(s, Len(s)) = N + 1
      /\ \A k \in 0 .. N : S!End(s, k+1) = n + S!End(t, k)
  BY EndAfter
<1> HIDE DEF t
<1>3. Len(s) \in Nat /\ Len(t) \in Nat /\ n \in 0 .. Len(s) /\ n \in Nat /\ N \in Nat
  BY <1>1, CompletedLen
<1>4. l \in Seq(Byte)
  BY <1>3, PartOfString
<1>5. /\ S!Cut(t) \in Seq(Seq(Byte)) /\ Len(S!Cut(t)) = N
      /\ \A k \in 1 .. N : S!Cut(t)[k] = SubSeq(t, S!End(t, k-1) + 1, S!End(t, k))
  BY <1>1, CutShape
<1>6. /\ S!Cut(s) \in Seq(Seq(Byte)) /\ Len(S!Cut(s)) = N + 1
      /\ \A k \in 1 .. N+1 : S!Cut(s)[k] = SubSeq(s, S!End(s, k-1) + 1, S!End(s, k))
  BY <1>2, CutShape
<1>7. S!Cut(s)[1] = l
  <2>1. S!End(s, 0) = 0 /\ S!End(t, 0) = 0
    BY DEF S!End
  <2>2. S!End(s, 0+1) = n + S!End(t, 0)
    BY <1>2, <1>3
  <2>3. 1 \in 1 .. N+1
    BY <1>3
  <2>4. S!Cut(s)[1] = SubSeq(s, S!End(s, 1-1) + 1, S!End(s, 1))
    BY <1>6, <2>3
  <2> QED
    BY <1>3, <2>1, <2>2, <2>4
<1>8. ASSUME NEW k \in 1 .. N PROVE S!Cut(s)[k+1] = S!Cut(t)[k]
  <2>1. k \in 0 .. N /\ k-1 \in 0 .. N /\ k+1 \in 1 .. N+1 /\ (k+1)-1 = (k-1)+1 /\ k = (k-1)+1
    BY <1>3
  <2>2. S!End(s, k+1) = n + S!End(t, k) /\ S!End(s, (k-1)+1) = n + S!End(t, k-1)
    BY <1>2, <2>1
  <2>3. S!Cut(s)[k+1] = SubSeq(s, S!End(s, (k+1)-1) + 1, S!End(s, k+1))
    BY <1>6, <2>1
  <2>4. S!Cut(s)[k+1] = SubSeq(s, (n + S!End(t, k-1)) + 1, n + S!End(t, k))
    BY <2>1, <2>2, <2>3
  <2>5. S!End(t, k-1) \in 0 .. Len(t) /\ S!End(t, k) \in 0 .. Len(t)
    BY <1>1, <2>1, EndRange
  <2>6. SubSeq(s, (n + S!End(t, k-1)) + 1, n + S!End(t, k)) = SubSeq(t, S!End(t, k-1) + 1, S!End(t, k))
    <3> DEFINE x == S!End(t, k-1)
               y == S!End(t, k)
    <3>1. x \in 0 .. Len(t) /\ y \in 0 .. Len(t)
      BY <2>5
    <3> HIDE DEF x, y
    <3>2. SubSeq(s, (n+x)+1, n+y) = SubSeq(t, x+1, y)
      BY <1>1, <1>3, <3>1, PartOfPart
    <3> QED
      BY <3>2 DEF x, y
  <2>7. S!Cut(t)[k] = SubSeq(t, S!End(t, k-1) + 1, S!End(t, k))
    BY <1>5
  <2> QED
    BY <2>4, <2>6, <2>7
<1> DEFINE R == <<l>> \o S!Cut(t)
<1>9. R \in Seq(Seq(Byte)) /\ Len(R) = N+1 /\ R[1] = l /\ \A k \in 1 .. N : R[k+1] = S!Cut(t)[k]
  <2> DEFINE C == S!Cut(t)
  <2>1. C \in Seq(Seq(Byte)) /\ Len(C) = N
    BY <1>5
  <2>2. <<l>> \in Seq(Seq(Byte)) /\ Len(<<l>>) = 1 /\ <<l>>[1] = l
    <3> HIDE DEF l
    <3> QED
      BY <1>4
  <2> HIDE DEF l, C, N
  <2>3. /\ <<l>> \o C \in Seq(Seq(Byte)) /\ Len(<<l>> \o C) = Len(<<l>>) + Len(C)
        /\ \A i \in 1 .. Len(<<l>>) + Len(C) : (<<l>> \o C)[i] = IF i <= Len(<<l>>) THEN <<l>>[i]
                                                                 ELSE C[i - Len(<<l>>)]
    BY <2>1, <2>2, ConcatProperties
  <2>4. Len(<<l>> \o C) = N+1 /\ (<<l>> \o C)[1] = l
    BY <1>3, <2>1, <2>2, <2>3
  <2>5. ASSUME NEW k \in 1 .. N PROVE (<<l>> \o C)[k+1] = C[k]
    <3>1. k+1 \in 1 .. Len(<<l>>) + Len(C) /\ ~(k+1 <= Len(<<l>>)) /\ (k+1) - Len(<<l>>) = k
      BY <1>3, <2>1, <2>2
    <3> QED
      BY <2>3, <3>1
  <2> QED
    BY <2>3, <2>4, <2>5 DEF C
<1>10. S!Cut(s) = R
  <2> DEFINE Q == S!Cut(s)
  <2>1. Q \in Seq(Seq(Byte)) /\ Len(Q) = Len(R) /\ R \in Seq(Seq(Byte)) /\ Len(R) = N+1
    BY <1>6, <1>9
  <2>2. ASSUME NEW i \in 1 .. Len(R) PROVE Q[i] = R[i]
    <3>1. CASE i = 1
      BY <1>7, <1>9, <3>1
    <3>2. CASE i # 1
      <4>1. i-1 \in 1 .. N /\ i = (i-1)+1
        BY <1>3, <2>1, <3>2
      <4>2. Q[(i-1)+1] = S!Cut(t)[i-1] /\ R[(i-1)+1] = S!Cut(t)[i-1]
        BY <1>8, <1>9, <4>1
      <4> QED
        BY <4>1, <4>2
    <3> QED
      BY <3>1, <3>2
  <2> HIDE DEF Q, R
  <2>3. Q = R
    BY <2>1, <2>2, SeqEqual
  <2> QED
    BY <2>3 DEF Q
<1>11. S!Unended(s) = S!Unended(t)
  <2>1. S!Unended(s) = SubSeq(s, S!End(s, N+1) + 1, Len(s))
    BY <1>2 DEF S!Unended
  <2>2. S!Unended(t) = SubSeq(t, S!End(t, N) + 1, Len(t))
    BY DEF S!Unended
  <2>3. N \in 0 .. N
    BY <1>3
  <2>4. S!End(s, N+1) = n + S!End(t, N) /\ S!End(t, N) \in 0 .. Len(t)
    BY <1>1, <1>2, <2>3, EndRange
  <2>5. Len(s) = n + Len(t) /\ Len(t) \in 0 .. Len(t)
    BY <1>1, <1>3
  <2>6. SubSeq(s, (n + S!End(t, N)) + 1, n + Len(t)) = SubSeq(t, S!End(t, N) + 1, Len(t))
    <3> DEFINE x == S!End(t, N)
               y == Len(t)
    <3>1. x \in 0 .. Len(t) /\ y \in 0 .. Len(t)
      BY <2>4, <2>5
    <3> HIDE DEF x, y
    <3>2. SubSeq(s, (n+x)+1, n+y) = SubSeq(t, x+1, y)
      BY <1>1, <1>3, <3>1, PartOfPart
    <3> QED
      BY <3>2 DEF x, y
  <2> QED
    BY <2>1, <2>2, <2>4, <2>5, <2>6
<1> QED
  BY <1>1, <1>10, <1>11 DEF t

-----------------------------------------------------------------------------
(* The lines that are kept.                                                *)

LEMMA LatestShape ==
  ASSUME NEW T, NEW x \in Seq(T)
  PROVE  LET d == IF Len(x) > MAX THEN Len(x) - MAX ELSE 0
         IN  /\ S!Latest(x) \in Seq(T) /\ Len(S!Latest(x)) = Len(x) - d
             /\ \A j \in 1 .. Len(x) - d : S!Latest(x)[j] = x[d+j]
<1> DEFINE d == IF Len(x) > MAX THEN Len(x) - MAX ELSE 0
           L == Len(x)
<1>1. MAX \in Nat /\ MAX > 0 /\ L \in Nat
  BY CapacityAssumption
<1>2. d \in 0 .. L /\ d \in Nat
  BY <1>1
<1>3. S!Latest(x) = SubSeq(x, d+1, L)
  BY <1>1 DEF S!Latest
<1> HIDE DEF d
<1>4. \A i \in d+1 .. L : x[i] \in T
  <2>1. \A i \in d+1 .. L : i \in 1 .. Len(x)
    BY <1>1, <1>2
  <2> QED
    BY <2>1, ElementOfSeq
<1>5. /\ SubSeq(x, d+1, L) \in Seq(T) /\ Len(SubSeq(x, d+1, L)) = IF d+1 <= L THEN L - (d+1) + 1 ELSE 0
      /\ \A i \in 1 .. L - (d+1) + 1 : SubSeq(x, d+1, L)[i] = x[(d+1) + i - 1]
  BY <1>1, <1>2, <1>4, SubSeqProperties
<1>6. (IF d+1 <= L THEN L - (d+1) + 1 ELSE 0) = L - d /\ L - (d+1) + 1 = L - d
  BY <1>1, <1>2
<1>7. ASSUME NEW j \in 1 .. L - d PROVE S!Latest(x)[j] = x[d+j]
  <2>1. (d+1) + j - 1 = d+j
    BY <1>1, <1>2
  <2>2. j \in 1 .. L - (d+1) + 1
    BY <1>6
  <2>3. SubSeq(x, d+1, L)[j] = x[(d+1) + j - 1]
    BY <1>5, <2>2
  <2> QED
    BY <1>3, <2>1, <2>3
<1> QED
  BY <1>3, <1>5, <1>6, <1>7 DEF d

\* No more lines than are kept.
LEMMA LatestAll ==
  ASSUME NEW T, NEW x \in Seq(T), Len(x) <= MAX
  PROVE  S!Latest(x) = x
<1>1. ~(Len(x) > MAX)
  <2>1. Len(x) \in Nat /\ MAX \in Nat
    BY CapacityAssumption
  <2> QED
    BY <2>1
<1>2. S!Latest(x) = SubSeq(x, 1, Len(x))
  BY <1>1 DEF S!Latest
<1>3. SubSeq(x, 1, Len(x)) = x
  BY SubSeqFull
<1> QED
  BY <1>2, <1>3

\* The oldest line is not missed when there are more than are kept.
LEMMA LatestTail ==
  ASSUME NEW T, NEW x \in Seq(T), NEW y \in Seq(T), Len(x) > MAX, Len(y) = Len(x) - 1,
         \A j \in 1 .. Len(y) : y[j] = x[j+1]
  PROVE  S!Latest(y) = S!Latest(x)
<1> DEFINE dx == Len(x) - MAX
           dy == IF Len(y) > MAX THEN Len(y) - MAX ELSE 0
<1>1. MAX \in Nat /\ MAX > 0 /\ Len(x) \in Nat /\ Len(y) \in Nat
  BY CapacityAssumption
<1>2. dy = dx - 1 /\ dx \in Nat /\ dy \in Nat /\ Len(x) - dx = MAX /\ Len(y) - dy = MAX
  BY <1>1
<1>3. /\ S!Latest(x) \in Seq(T) /\ Len(S!Latest(x)) = Len(x) - dx
      /\ \A j \in 1 .. Len(x) - dx : S!Latest(x)[j] = x[dx+j]
  BY LatestShape
<1>4. /\ S!Latest(y) \in Seq(T) /\ Len(S!Latest(y)) = Len(y) - dy
      /\ \A j \in 1 .. Len(y) - dy : S!Latest(y)[j] = y[dy+j]
  BY LatestShape
<1> HIDE DEF dx, dy
<1>5. ASSUME NEW j \in 1 .. MAX PROVE S!Latest(y)[j] = S!Latest(x)[j]
  <2>1. dy+j \in 1 .. Len(y) /\ (dy+j)+1 = dx+j
    BY <1>1, <1>2
  <2>2. y[dy+j] = x[(dy+j)+1]
    BY <2>1
  <2> QED
    BY <1>2, <1>3, <1>4, <2>1, <2>2
<1>6. /\ S!Latest(x) \in Seq(T) /\ S!Latest(y) \in Seq(T)
      /\ Len(S!Latest(y)) = MAX /\ Len(S!Latest(x)) = MAX
  BY <1>2, <1>3, <1>4
<1> QED
  BY <1>5, <1>6, SeqEqual

\* A line moved from what is to come to what is kept.
LEMMA LatestShifts ==
  ASSUME NEW T, NEW ls \in Seq(T), NEW l \in T, NEW c \in Seq(T), Len(ls) <= MAX
  PROVE  LET r == IF Len(ls) < MAX THEN Append(ls, l) ELSE Append(Tail(ls), l)
         IN  S!Latest(r \o c) = S!Latest(ls \o (<<l>> \o c))
<1> DEFINE x == ls \o (<<l>> \o c)
<1>1. MAX \in Nat /\ MAX > 0 /\ Len(ls) \in Nat /\ Len(c) \in Nat
  BY CapacityAssumption
<1>2. <<l>> \in Seq(T) /\ Len(<<l>>) = 1 /\ ls \o <<l>> = Append(ls, l)
  OBVIOUS
<1>3. x = Append(ls, l) \o c
  <2>1. (ls \o <<l>>) \o c = x
    BY <1>2, ConcatAssociative
  <2> QED
    BY <1>2, <2>1
<1>4. CASE Len(ls) < MAX
  BY <1>3, <1>4
<1>5. CASE ~(Len(ls) < MAX)
  <2> DEFINE tl == Tail(ls)
             y  == Append(tl, l) \o c
  <2>1. ls # << >>
    BY <1>1, <1>5
  <2>2. tl \in Seq(T) /\ Len(tl) = Len(ls) - 1 /\ \A j \in 1 .. Len(tl) : tl[j] = ls[j+1]
    BY <2>1, HeadTailProperties
  <2> HIDE DEF tl
  <2> DEFINE a == Append(ls, l)
             b == Append(tl, l)
  <2>3. a \in Seq(T) /\ Len(a) = Len(ls) + 1 /\ (\A j \in 1 .. Len(ls) : a[j] = ls[j]) /\ a[Len(ls)+1] = l
    BY AppendProperties
  <2>4. b \in Seq(T) /\ Len(b) = Len(tl) + 1 /\ (\A j \in 1 .. Len(tl) : b[j] = tl[j]) /\ b[Len(tl)+1] = l
    BY <2>2, AppendProperties
  <2>5. ASSUME NEW j \in 1 .. Len(b) PROVE b[j] = a[j+1]
    <3>1. CASE j = Len(tl) + 1
      <4>1. j+1 = Len(ls) + 1
        BY <1>1, <2>2, <3>1
      <4> QED
        BY <2>3, <2>4, <3>1, <4>1
    <3>2. CASE j # Len(tl) + 1
      <4>1. j \in 1 .. Len(tl) /\ j+1 \in 1 .. Len(ls)
        BY <1>1, <2>2, <2>4, <3>2
      <4> QED
        BY <2>2, <2>3, <2>4, <4>1
    <3> QED
      BY <3>1, <3>2
  <2> HIDE DEF a, b
  <2>6. /\ a \o c \in Seq(T) /\ Len(a \o c) = Len(a) + Len(c)
        /\ \A i \in 1 .. Len(a) + Len(c) : (a \o c)[i] = IF i <= Len(a) THEN a[i] ELSE c[i - Len(a)]
    BY <2>3, ConcatProperties
  <2>7. /\ b \o c \in Seq(T) /\ Len(b \o c) = Len(b) + Len(c)
        /\ \A i \in 1 .. Len(b) + Len(c) : (b \o c)[i] = IF i <= Len(b) THEN b[i] ELSE c[i - Len(b)]
    BY <2>4, ConcatProperties
  <2>8. Len(a) = Len(b) + 1 /\ Len(b) = Len(ls) /\ Len(a) \in Nat /\ Len(b) \in Nat
    BY <1>1, <2>2, <2>3, <2>4
  <2>9. Len(a \o c) > MAX /\ Len(b \o c) = Len(a \o c) - 1
    BY <1>1, <1>5, <2>6, <2>7, <2>8
  <2>10. ASSUME NEW j \in 1 .. Len(b \o c) PROVE (b \o c)[j] = (a \o c)[j+1]
    <3>1. j \in 1 .. Len(b) + Len(c) /\ j+1 \in 1 .. Len(a) + Len(c) /\ j \in Nat
      BY <1>1, <2>7, <2>8
    <3>2. CASE j <= Len(b)
      <4>1. j \in 1 .. Len(b) /\ j+1 <= Len(a)
        BY <2>8, <3>1, <3>2
      <4> QED
        BY <2>5, <2>6, <2>7, <3>1, <3>2, <4>1
    <3>3. CASE ~(j <= Len(b))
      <4>1. ~(j+1 <= Len(a)) /\ (j+1) - Len(a) = j - Len(b)
        BY <2>8, <3>1, <3>3
      <4> QED
        BY <2>6, <2>7, <3>1, <3>3, <4>1
    <3> QED
      BY <3>2, <3>3
  <2>11. S!Latest(b \o c) = S!Latest(a \o c)
    BY <2>6, <2>7, <2>9, <2>10, LatestTail
  <2> QED
    BY <1>3, <1>5, <2>11 DEF a, b, tl
<1> QED
  BY <1>4, <1>5

-----------------------------------------------------------------------------
(* What the line server assumes: nothing fails.                            *)

\* No call fails, no flag holds garbage, there is memory for all that the device keeps
\* and for one block more, and what a client completes is something that it may write.
NothingFails ==
  /\ Faults \cap {"kmalloc", "copy_user", "realloc", "send"} = {}
  /\ Garbage \subseteq {FALSE}
  /\ IsFiniteSet(Blocks) => Cardinality(Blocks) > MAX + 1
  /\ \A p \in Seq(Byte), c \in Chunks :
       ~IsPacket(p) /\ IsPacket(p \o c) /\ Len(p \o c) <= MaxPacket => p \o c \in Payloads

\* kmalloc finds a block: the device holds one for each of its lines and the unfinished
\* line.
LEMMA BlockToSpare ==
  ASSUME NothingFails, MemInv, loaded, NEW t \in Threads, Alone(t), op[t].pc # "write_install"
  PROVE  FreeBlocks # {}
<1> DEFINE Im == {ring.entry[i].buffptr : i \in Slot}
<1>1. Allocated = EntryBlocks \cup ({partial} \ {NULL})
  <2>1. Unfinished = {partial} \ {NULL}
    BY NobodyInstalls
  <2> QED
    BY <2>1 DEF MemInv, HeapExact, Allocated
<1>2. MAX \in Nat /\ Slot = 0 .. MAX-1
  BY CapacityAssumption DEF Slot
<1>3. IsFiniteSet(Slot) /\ Cardinality(Slot) = MAX
  <2>1. IsFiniteSet(0 .. MAX-1) /\ Cardinality(0 .. MAX-1) = IF 0 > MAX-1 THEN 0 ELSE (MAX-1) - 0 + 1
    BY <1>2, FS_Interval
  <2> QED
    BY <1>2, <2>1, CapacityAssumption
<1>4. IsFiniteSet(Im) /\ Cardinality(Im) <= MAX
  <2> DEFINE g == [i \in Slot |-> ring.entry[i].buffptr]
  <2>1. g \in Surjection(Slot, Im)
    BY DEF Surjection
  <2> HIDE DEF g, Im
  <2> QED
    BY <1>3, <2>1, FS_Surjection
<1>5. Allocated \subseteq Im \cup {partial}
  BY <1>1 DEF EntryBlocks
<1> HIDE DEF Im
<1>6. /\ IsFiniteSet(Im \cup {partial})
      /\ Cardinality(Im \cup {partial}) <= MAX + 1
  <2>1. Cardinality(Im) \in Nat
    BY <1>4, FS_CardinalityType
  <2>2. /\ IsFiniteSet(Im \cup {partial})
        /\ Cardinality(Im \cup {partial}) = IF partial \in Im THEN Cardinality(Im) ELSE Cardinality(Im)+1
    BY <1>4, FS_AddElement
  <2> QED
    BY <1>2, <1>4, <2>1, <2>2
<1>7. SUFFICES ASSUME Blocks \subseteq Im \cup {partial} PROVE FALSE
  BY <1>5 DEF FreeBlocks, Allocated
<1>8. /\ IsFiniteSet(Blocks) /\ Cardinality(Blocks) <= Cardinality(Im \cup {partial})
      /\ Cardinality(Blocks) \in Nat /\ Cardinality(Im \cup {partial}) \in Nat
  BY <1>6, <1>7, FS_Subset, FS_CardinalityType
<1>9. Cardinality(Blocks) > MAX + 1
  BY <1>8 DEF NothingFails
<1> QED
  BY <1>2, <1>6, <1>8, <1>9

\* So no handler runs out of memory.
LEMMA NoHandlerFails ==
  ASSUME NothingFails, MemInv, OpShape, loaded, MutualExclusion, NEW w \in Threads
  PROVE  ~ReallocFails(w) /\ ~ReadFault(w) /\ ~WriteNoMemory(w) /\ ~WriteLineNoMemory(w)
         /\ ~WriteFault(w) /\ ~IoctlFault(w)
<1>1. \A f \in {"kmalloc", "copy_user", "realloc", "send"} : f \notin Faults
  BY DEF NothingFails
<1>2. ~ReallocFails(w) /\ ~ReadFault(w) /\ ~WriteFault(w) /\ ~IoctlFault(w)
  BY <1>1 DEF ReallocFails, ReadFault, WriteFault, IoctlFault
<1>3. ASSUME op[w].pc \in {"write_combine", "write_loop"} PROVE ~OutOfMemory
  <2>1. Alone(w) /\ op[w].pc # "write_install"
    BY <1>3, AloneInside DEF Inside
  <2>2. FreeBlocks # {}
    BY <2>1, BlockToSpare
  <2> QED
    BY <1>1, <2>2 DEF OutOfMemory
<1>4. ~WriteNoMemory(w) /\ ~WriteLineNoMemory(w)
  BY <1>3 DEF WriteNoMemory, WriteLineNoMemory, LoopTest
<1> QED
  BY <1>2, <1>4

-----------------------------------------------------------------------------
(* What a worker has asked for and what it has sent.                       *)

\* A request on its way to the device; the file is where it was opened.
Asked(w) ==
  wpc[w] = "in_io" =>
    /\ op[w].pc \in {"write_lock", "write_combine"} =>
         ~IsSeek(packet[w]) /\ op[w].data = packet[w] /\ f_pos[w] = 0
    /\ op[w].pc \in {"ioctl_lock", "ioctl_seek"} =>
         IsSeek(packet[w]) /\ op[w].seek = Command[Head(packet[w])] /\ f_pos[w] = 0

\* What has been read and not sent.
Unsent(w) == IF wpc[w] = "reading" /\ op[w].pc = "idle" THEN op[w].data ELSE << >>

\* Bytes of the stream from its b-th on.
PartFrom(d, b) ==
  /\ b \in Nat /\ d = SubSeq(Stream, b + 1, b + Len(d))
  /\ d = << >> \/ b + Len(d) <= Len(Stream)

\* An answer, wherever it began.
Sending(w) ==
  /\ wpc[w] \in {"in_io", "lock_stream", "stream", "reading"} => f_pos[w] \in Nat
  /\ Streaming(w) => PartFrom(reply[w] \o Unsent(w), Began(w))
  /\ wpc[w] = "reading" /\ op[w].pc = "idle" =>
       op[w].ret = Len(op[w].data) /\ (op[w].ret = 0 => f_pos[w] >= Len(Stream))

Known(w) == IsPacket(packet[w]) => packet[w] \in Payloads

Serving(w) == Asked(w) /\ Sending(w) /\ Known(w)

\* A worker that does nothing, while the stream it sends stays.
LEMMA ServingKept ==
  ASSUME NEW w \in Threads, Serving(w),
         wpc'[w] = wpc[w], packet'[w] = packet[w], reply'[w] = reply[w],
         f_pos'[w] = f_pos[w], op'[w] = op[w],
         Streaming(w) => Stream' = Stream
  PROVE  Serving(w)'
<1>1. Unsent(w)' = Unsent(w) /\ Began(w)' = Began(w)
  BY DEF Unsent, Began, ReadNotSent
<1>2. Asked(w)' /\ Known(w)'
  BY DEF Serving, Asked, Known, IsSeek, IsPacket
<1>3. Sending(w)'
  BY <1>1 DEF Serving, Sending, Streaming, PartFrom
<1> QED
  BY <1>2, <1>3 DEF Serving

\* How many bytes have been read and not sent.
LEMMA NotSent ==
  ASSUME NEW w \in Threads
  PROVE  ReadNotSent(w) = Len(Unsent(w))
BY NoBytes DEF ReadNotSent, Unsent

\* The flag of each worker was FALSE when it started.
FlagInv == \A w \in Threads : Clean(w)

\* A worker outside the driver.
LEMMA OutsideServing ==
  ASSUME NothingFails, Sane, PacketInv, FlagInv, NEW w \in Threads, Served(w), Serving(w), UNCHANGED vars,
         \/ Receive(w) /\ ~ReallocFails(w)
         \/ Continue(w) \/ Acquire(w) \/ UnlockIO(w) \/ Send(w) \/ UnlockStream(w)
  PROVE  Serving(w)'
<1>1. /\ Stream' = Stream /\ f_pos' = f_pos /\ op' = op
      /\ Stream \in Seq(Byte) /\ Len(Stream) \in Nat
  BY StreamKept, StreamBytes DEF vars, Sane
<1>2. /\ wpc \in [Threads -> WControl] /\ packet \in [Threads -> Seq(Byte)]
      /\ reply \in [Threads -> Seq(Byte)] /\ op[w].data \in Seq(Byte)
      /\ wpc[w] \notin {"in_io", "reading"} => op[w].pc = "idle"
      /\ op[w].ret \in Int
  BY DEF Sane, Inv, ServerTyped, Typed
<1>3. ASSUME wpc'[w] \notin {"in_io", "lock_stream", "stream", "reading"}, Known(w)'
      PROVE  Serving(w)'
  BY <1>3 DEF Serving, Asked, Sending, Streaming
<1>4. ASSUME packet'[w] = packet[w] PROVE Known(w)'
  BY <1>4 DEF Serving, Known, IsPacket
<1>5. ASSUME NEW c \in Chunks, Recv(w, c) PROVE Serving(w)'
  <2> DEFINE data == packet[w] \o c
  <2>1. /\ wpc[w] = "recv" /\ ~IsPacket(packet[w]) /\ packet' = [packet EXCEPT ![w] = data]
        /\ wpc' = [wpc EXCEPT ![w] = IF IsPacket(data) THEN "lock_io"
                                     ELSE IF end_of_packet[w] THEN "lock_stream" ELSE "loop"]
    BY <1>5, RecvLeads
  <2>2. ~end_of_packet[w]
    BY <2>1 DEF FlagInv, Clean, Early
  <2>3. Len(data) <= MaxPacket
    BY <1>5 DEF Recv, Received
  <2>4. packet[w] \in Seq(Byte)
    BY <1>2
  <2> HIDE DEF data
  <2>5. wpc'[w] \in {"lock_io", "loop"} /\ packet'[w] = data
    BY <1>2, <2>1, <2>2
  <2>6. IsPacket(data) => data \in Payloads
    BY <2>1, <2>3, <2>4 DEF NothingFails, data
  <2>7. Known(w)'
    BY <2>5, <2>6 DEF Known, IsPacket
  <2> QED
    BY <1>3, <2>5, <2>7
<1>6. CASE RecvError(w)
  <2>1. wpc'[w] = "close" /\ packet' = packet
    BY <1>2, <1>6 DEF RecvError, WMove, WGoto
  <2> QED
    BY <1>3, <1>4, <2>1
<1>7. CASE Continue(w)
  <2>1. PICK to \in {"close", "recv"} : WGoto(w, "loop", to)
    BY <1>7 DEF Continue, WMove
  <2>2. wpc'[w] = to /\ packet' = packet
    BY <1>2, <1>7, <2>1 DEF Continue, WMove, WGoto
  <2> QED
    BY <1>3, <1>4, <2>2
<1>8. CASE LockIO(w)
  <2>1. wpc'[w] = "io" /\ packet' = packet
    BY <1>2, <1>8 DEF LockIO, LockMutex, SetMutex, WGoto
  <2> QED
    BY <1>3, <1>4, <2>1
<1>9. CASE LockStream(w)
  <2>1. wpc[w] = "lock_stream" /\ wpc'[w] = "stream" /\ reply' = reply /\ packet' = packet
    BY <1>2, <1>9 DEF LockStream, LockMutex, SetMutex, WGoto
  <2>2. reply[w] = << >> /\ f_pos[w] \in Nat
    BY <2>1 DEF Served, Asking, Before, Serving, Sending
  <2>3. (reply[w] \o Unsent(w))' = << >> /\ Began(w)' = f_pos[w]
    <3>1. Unsent(w)' = << >> /\ ReadNotSent(w)' = 0
      BY <2>1 DEF Unsent, ReadNotSent
    <3>2. << >> \o << >> = << >> /\ Len(<< >>) = 0
      OBVIOUS
    <3>3. f_pos[w] - 0 - 0 = f_pos[w]
      BY <2>2
    <3> QED
      BY <1>1, <2>1, <2>2, <3>1, <3>2, <3>3 DEF Began
  <2>4. SubSeq(Stream, f_pos[w] + 1, f_pos[w] + 0) = << >>
    BY <2>2, SubSeqEmpty
  <2>5. PartFrom(<< >>, f_pos[w])'
    BY <1>1, <2>2, <2>4, NoBytes DEF PartFrom
  <2>6. PartFrom(reply[w] \o Unsent(w), Began(w))'
    BY <1>1, <2>3, <2>5 DEF PartFrom
  <2>7. Sending(w)'
    BY <1>1, <2>1, <2>2, <2>6 DEF Sending
  <2>8. Asked(w)'
    BY <2>1 DEF Asked
  <2> QED
    BY <1>4, <2>1, <2>7, <2>8 DEF Serving
<1>10. CASE UnlockIO(w)
  <2>1. /\ wpc[w] = "in_io" /\ wpc'[w] = "lock_stream" /\ reply' = reply /\ packet' = packet
    BY <1>2, <1>10 DEF UnlockIO, UnlockMutex, SetMutex, WGoto
  <2>2. f_pos[w] \in Nat
    BY <2>1 DEF Serving, Sending
  <2>3. Sending(w)' /\ Asked(w)'
    BY <1>1, <2>1, <2>2 DEF Sending, Asked, Streaming
  <2> QED
    BY <1>4, <2>1, <2>3 DEF Serving
<1>11. CASE Send(w)
  <2>1. /\ wpc[w] = "reading" /\ wpc'[w] = "stream" /\ packet' = packet /\ op[w].pc = "idle"
        /\ reply'[w] = reply[w] \o op[w].data
    <3>1. "send" \notin Faults
      BY DEF NothingFails
    <3> QED
      BY <1>2, <1>11, <3>1 DEF Send, WGoto
  <2>2. f_pos[w] \in Nat /\ PartFrom(reply[w] \o op[w].data, Began(w))
    BY <2>1 DEF Serving, Sending, Streaming, Unsent
  <2>3. (reply[w] \o Unsent(w))' = reply[w] \o op[w].data
    <3>1. reply[w] \o op[w].data \in Seq(Byte)
      BY <1>2
    <3>2. (reply[w] \o op[w].data) \o << >> = reply[w] \o op[w].data
      BY <3>1
    <3>3. Unsent(w)' = << >>
      BY <2>1 DEF Unsent
    <3> QED
      BY <2>1, <3>2, <3>3
  <2>4. Began(w)' = Began(w)
    <3>1. Len(reply[w] \o op[w].data) = Len(reply[w]) + Len(op[w].data)
          /\ Len(reply[w]) \in Nat /\ Len(op[w].data) \in Nat
      BY <1>2
    <3>2. Began(w) = f_pos[w] - Len(reply[w]) - Len(op[w].data)
      BY <2>1 DEF Began, ReadNotSent
    <3>3. Began(w)' = f_pos[w] - Len(reply[w] \o op[w].data) - 0
      BY <1>1, <2>1 DEF Began, ReadNotSent
    <3>4. \A x, y, z \in Nat : x - y - z = x - (y+z) - 0
      OBVIOUS
    <3>5. f_pos[w] - Len(reply[w]) - Len(op[w].data)
            = f_pos[w] - (Len(reply[w]) + Len(op[w].data)) - 0
      BY <2>2, <3>1, <3>4
    <3> QED
      BY <3>1, <3>2, <3>3, <3>5
  <2>5. PartFrom(reply[w] \o Unsent(w), Began(w))'
    BY <1>1, <2>2, <2>3, <2>4 DEF PartFrom
  <2>6. Sending(w)'
    BY <1>1, <2>1, <2>2, <2>5 DEF Sending
  <2>7. Asked(w)'
    BY <2>1 DEF Asked
  <2> QED
    BY <1>4, <2>1, <2>6, <2>7 DEF Serving
<1>12. CASE UnlockStream(w)
  <2>1. wpc'[w] = "close" /\ packet' = packet
    BY <1>2, <1>12 DEF UnlockStream, UnlockMutex, SetMutex, WGoto
  <2> QED
    BY <1>3, <1>4, <2>1
<1> QED
  BY <1>5, <1>6, <1>7, <1>8, <1>9, <1>10, <1>11, <1>12 DEF Receive, Acquire

\* The system calls of a worker.
LEMMA EntersServing ==
  ASSUME NothingFails, Sane, NEW w \in Threads, Served(w), Serving(w), Enters(w),
         MutualExclusion
  PROVE  Serving(w)'
<1>1. /\ wpc \in [Threads -> WControl] /\ OpShape /\ f_pos = [u \in Threads |-> f_pos[u]]
      /\ Stream' = Stream /\ MemInv /\ loaded
      /\ UNCHANGED <<packet, reply>>
  BY WorkerCalls, EntersServed DEF Sane, Inv, FileInv
<1>2. Known(w)'
  BY <1>1 DEF Serving, Known, IsPacket
<1>3. ASSUME wpc'[w] \notin {"in_io", "lock_stream", "stream", "reading"} PROVE Serving(w)'
  BY <1>2, <1>3 DEF Serving, Asked, Sending, Streaming
<1>4. CASE OpenDevice(w)
  <2>1. wpc'[w] = "loop"
    BY <1>1, <1>4 DEF OpenDevice, WMove, WGoto
  <2> QED
    BY <1>3, <2>1
<1>5. CASE CloseDevice(w)
  <2>1. wpc'[w] = "done"
    BY <1>1, <1>5 DEF CloseDevice, WMove, WGoto
  <2> QED
    BY <1>3, <2>1
<1>6. CASE SeekOrWrite(w)
  <2>1. wpc[w] = "io" /\ wpc'[w] = "in_io"
    BY <1>1, <1>6 DEF SeekOrWrite, WMove, WGoto
  <2>2. f_pos[w] = 0
    BY <2>1 DEF Served, Asking, AtStart
  <2>3. f_pos' = f_pos
    BY <1>6 DEF SeekOrWrite, IoctlCall, IoctlFault, WriteCall, WriteFault, Refuse, Enter
  <2>4. \/ op'[w].pc = "write_lock" /\ ~IsSeek(packet[w]) /\ op'[w].data = packet[w]
        \/ op'[w].pc = "ioctl_lock" /\ IsSeek(packet[w]) /\ op'[w].seek = Command[Head(packet[w])]
    <3>1. ASSUME NEW d, WriteCall(w, d) PROVE op'[w].pc = "write_lock" /\ op'[w].data = d
      BY <1>1, <3>1 DEF WriteCall, Enter, Returned, OpShape
    <3>2. ASSUME NEW s, IoctlCall(w, s) PROVE op'[w].pc = "ioctl_lock" /\ op'[w].seek = s
      BY <1>1, <3>2 DEF IoctlCall, Enter, Returned, OpShape
    <3>3. ~WriteFault(w) /\ ~IoctlFault(w)
      BY <1>1, NoHandlerFails
    <3> QED
      BY <1>6, <3>1, <3>2, <3>3 DEF SeekOrWrite
  <2>5. Asked(w)'
    BY <1>1, <2>1, <2>2, <2>3, <2>4 DEF Asked, IsSeek
  <2>6. Sending(w)'
    BY <2>1, <2>2, <2>3 DEF Sending, Streaming
  <2> QED
    BY <1>2, <2>5, <2>6 DEF Serving
<1>7. CASE ReadMore(w)
  <2>1. wpc[w] = "stream" /\ wpc'[w] = "reading" /\ ReadCall(w, ReadSize)
    BY <1>1, <1>7 DEF ReadMore, WMove, WGoto
  <2>2. f_pos' = f_pos /\ op'[w].pc = "read_lock"
    BY <1>1, <2>1 DEF ReadCall, Enter, Returned, OpShape
  <2>3. Unsent(w)' = Unsent(w) /\ Began(w)' = Began(w)
    BY <1>1, <2>1, <2>2 DEF Unsent, Began, ReadNotSent
  <2>4. f_pos[w] \in Nat /\ PartFrom(reply[w] \o Unsent(w), Began(w))
    BY <2>1 DEF Serving, Sending, Streaming
  <2>5. PartFrom(reply[w] \o Unsent(w), Began(w))'
    BY <1>1, <2>3, <2>4 DEF PartFrom
  <2>6. Sending(w)' /\ Asked(w)'
    BY <2>1, <2>2, <2>4, <2>5 DEF Sending, Asked
  <2> QED
    BY <1>2, <2>6 DEF Serving
<1> QED
  BY <1>4, <1>5, <1>6, <1>7 DEF Enters

\* The steps of a write or of an ioctl.
LEMMA AskedStep ==
  ASSUME NothingFails, Sane, MutualExclusion, NEW w \in Threads, Served(w), Serving(w),
         wpc[w] = "in_io", Device(w)
  PROVE  Serving(w)'
<1>1. /\ MemInv /\ OpShape /\ loaded /\ Step(w) /\ wpc' = wpc /\ reply' = reply /\ packet' = packet
      /\ f_pos = [u \in Threads |-> f_pos[u]] /\ Typed(w)
  BY DEF Sane, Inv, Device, server, FileInv
<1>2. op[w].pc \notin Reading /\ f_pos[w] \in Nat
  BY DEF Served, Asking, Serving, Sending
<1>3. /\ op'[w].pc \notin Waiting
      /\ op'[w].pc = "write_combine" => WriteLock(w)
      /\ op'[w].pc = "ioctl_seek"    => IoctlLock(w)
  BY <1>1, StepInto
<1>4. f_pos'[w] \in Nat /\ (op[w].pc = "ioctl_seek" \/ f_pos'[w] = f_pos[w])
  <2>1. op[w].pc = "ioctl_seek" \/ f_pos' = f_pos
    BY <1>1, <1>2 DEF Step, TakeLock, ReadLock, WriteLock, IoctlLock, Lock, ReadStep, ReadChunk,
         ReadFault, ReadEnd, ReadReturn, Finding, WriteStep, WriteCombine, WriteNoMemory,
         WriteInstall, WriteLine, WriteLineNoMemory, WriteReturn, Unlock, IoctlSeek, Oops, Reading
  <2>2. ASSUME op[w].pc = "ioctl_seek" PROVE f_pos'[w] \in Nat
    <3>1. IoctlSeek(w)
      <4>1. ~Oops(w)
        BY <1>1, AllSound DEF Oops
      <4> QED
        BY <1>1, <2>2, <4>1 DEF Step, TakeLock, ReadLock, WriteLock, IoctlLock, Lock, ReadStep, ReadChunk,
             ReadFault, ReadEnd, ReadReturn, Finding, WriteStep, WriteCombine, WriteNoMemory,
             WriteInstall, WriteLine, WriteLineNoMemory, WriteReturn, LoopTest
    <3>2. op[w].seek[1] \in Nat /\ op[w].seek[2] \in Nat
      BY <1>1 DEF Typed
    <3>3. Target(w) = NULL \/ Target(w) \in Nat
      BY <1>1, <3>2, SeekType DEF Target
    <3>4. f_pos' = f_pos \/ (f_pos' = [f_pos EXCEPT ![w] = Target(w)] /\ Target(w) # NULL)
      BY <3>1 DEF IoctlSeek
    <3> QED
      BY <1>1, <1>2, <3>3, <3>4
  <2> QED
    BY <1>2, <2>1, <2>2
<1>5. Sending(w)'
  BY <1>1, <1>4 DEF Sending, Streaming
<1>6. Asked(w)'
  <2>1. CASE op'[w].pc = "write_combine"
    <3>1. WriteLock(w)
      BY <1>3, <2>1
    <3>2. op[w].pc = "write_lock" /\ op'[w].data = op[w].data
      BY <1>1, <3>1 DEF WriteLock, Lock, Goto, OpShape, Fields
    <3> QED
      BY <1>1, <1>4, <2>1, <3>2 DEF Serving, Asked, IsSeek
  <2>2. CASE op'[w].pc = "ioctl_seek"
    <3>1. IoctlLock(w)
      BY <1>3, <2>2
    <3>2. op[w].pc = "ioctl_lock" /\ op'[w].seek = op[w].seek
      BY <1>1, <3>1 DEF IoctlLock, Lock, Goto, OpShape, Fields
    <3> QED
      BY <1>1, <1>4, <2>2, <3>2 DEF Serving, Asked, IsSeek
  <2>3. CASE op'[w].pc \notin {"write_combine", "ioctl_seek"}
    BY <1>3, <2>3 DEF Asked, Waiting
  <2> QED
    BY <2>1, <2>2, <2>3
<1>7. Known(w)'
  BY <1>1 DEF Serving, Known, IsPacket
<1> QED
  BY <1>5, <1>6, <1>7 DEF Serving

\* A read of the answer: what it returns continues what has been sent.
LEMMA ReadServing ==
  ASSUME NothingFails, Sane, MutualExclusion, NEW w \in Threads, Served(w), Serving(w),
         wpc[w] = "reading", Device(w)
  PROVE  Serving(w)' /\ Began(w)' = Began(w)
<1>1. /\ MemInv /\ OpShape /\ loaded /\ Step(w) /\ wpc' = wpc /\ reply' = reply /\ packet' = packet
      /\ f_pos = [u \in Threads |-> f_pos[u]]
      /\ Stream \in Seq(Byte) /\ Len(Stream) \in Nat /\ Stream' = Stream
  BY StreamBytes, ReadingStep DEF Sane, Inv, Device, server, FileInv
<1>2. op[w].pc \in Reading /\ Fetched(w)
  <2>1. op[w].pc # "idle"
    BY <1>1, StepEffect
  <2> QED
    BY <2>1 DEF Served, Answering
<1>3. /\ f_pos[w] \in Nat /\ op[w].pos \in Nat /\ op[w].count \in Nat
      /\ op[w].data \in Seq(Byte) /\ reply[w] \in Seq(Byte)
  BY DEF Serving, Sending, Sane, Typed, ServerTyped
<1>4. Unsent(w) = << >> /\ ReadNotSent(w) = 0
  BY <1>2 DEF Unsent, ReadNotSent, Reading
<1>5. PartFrom(reply[w], Began(w)) /\ Began(w) = f_pos[w] - Len(reply[w])
  <2>1. PartFrom(reply[w] \o << >>, Began(w))
    BY <1>4 DEF Serving, Sending, Streaming
  <2>2. reply[w] \o << >> = reply[w]
    BY <1>3
  <2>3. Len(reply[w]) \in Nat
    BY <1>3
  <2> QED
    BY <1>3, <1>4, <2>1, <2>2, <2>3 DEF Began
<1>6. Known(w)' /\ Asked(w)'
  BY <1>1 DEF Serving, Known, IsPacket, Asked
<1>7. CASE f_pos' = f_pos /\ op'[w].pc # "idle"
  <2>1. Unsent(w)' = Unsent(w) /\ Began(w)' = Began(w)
    BY <1>1, <1>2, <1>7 DEF Unsent, Began, ReadNotSent, Reading
  <2>2. PartFrom(reply[w] \o Unsent(w), Began(w))
    BY DEF Serving, Sending, Streaming
  <2>3. PartFrom(reply[w] \o Unsent(w), Began(w))'
    BY <1>1, <2>1, <2>2 DEF PartFrom
  <2>4. Sending(w)'
    BY <1>1, <1>3, <1>7, <2>3 DEF Sending
  <2> QED
    BY <1>6, <2>1, <2>4 DEF Serving
<1>8. CASE ReadReturn(w)
  <2> DEFINE p == op[w].pos
             d == op[w].data
             r == reply[w]
             b == Began(w)
             from == f_pos[w]
  <2>1. op'[w] = Returned(Len(d), d) /\ f_pos'[w] = p
    BY <1>1, <1>8 DEF ReadReturn, OpShape
  <2>2. op'[w].pc = "idle" /\ op'[w].ret = Len(d) /\ op'[w].data = d
    BY <2>1 DEF Returned
  <2>3. /\ from <= p /\ (p = from \/ p <= Len(Stream)) /\ d = SubSeq(Stream, from + 1, p)
        /\ p - from + op[w].count = ReadSize
        /\ op[w].pc = "read_unlock" => p >= Len(Stream)
    BY <1>2 DEF Fetched
  <2>4. op[w].pc = "read_unlock" \/ op[w].count = 0
    BY <1>8 DEF ReadReturn
  <2>5. ReadSize \in Nat \ {0}
    BY WorkerAssumption, PayloadAssumption
  <2>6. /\ from \in Nat /\ p \in Nat /\ d \in Seq(Byte) /\ r \in Seq(Byte) /\ Len(r) \in Nat
        /\ b \in Nat /\ r = SubSeq(Stream, b + 1, b + Len(r))
        /\ r = << >> \/ b + Len(r) <= Len(Stream)
        /\ b + Len(r) = from /\ op[w].count \in Nat /\ Len(Stream) \in Nat
    <3>1. Len(r) \in Nat
      BY <1>3
    <3>2. PartFrom(r, b) /\ b = from - Len(r)
      BY <1>5
    <3>3. from \in Nat /\ p \in Nat /\ d \in Seq(Byte) /\ r \in Seq(Byte) /\ op[w].count \in Nat
      BY <1>3
    <3> HIDE DEF p, d, r, b, from
    <3>4. b \in Nat /\ r = SubSeq(Stream, b + 1, b + Len(r)) /\ (r = << >> \/ b + Len(r) <= Len(Stream))
      BY <3>2 DEF PartFrom
    <3>5. b + Len(r) = from
      BY <3>1, <3>2, <3>3
    <3> QED
      BY <1>1, <3>1, <3>3, <3>4, <3>5
  <2>7. Unsent(w)' = d
    BY <1>1, <2>2 DEF Unsent
  <2>8. Began(w)' = p - Len(r) - Len(d)
    BY <1>1, <2>1, <2>2 DEF Began, ReadNotSent
  <2> HIDE DEF p, d, r, b, from
  <2>9. Len(d) = p - from
    <3>1. CASE p = from
      <4>1. d = << >>
        <5>1. from + 1 \in Int /\ p \in Int /\ p < from + 1
          BY <2>6, <3>1
        <5> QED
          BY <2>3, <5>1, SubSeqEmpty
      <4> QED
        BY <2>6, <3>1, <4>1
    <3>2. CASE p # from
      <4>1. from + 1 <= p /\ p <= Len(Stream)
        BY <2>3, <2>6, <3>2
      <4>2. ASSUME NEW i \in from + 1 .. p PROVE Stream[i] \in Byte
        <5>1. i \in 1 .. Len(Stream)
          <6>1. from \in Nat /\ p \in Nat /\ Len(Stream) \in Nat
            BY <2>6
          <6> QED
            BY <4>1, <6>1
        <5> QED
          BY <1>1, <5>1, ElementOfSeq
      <4>3. Len(SubSeq(Stream, from + 1, p)) = IF from + 1 <= p THEN p - (from + 1) + 1 ELSE 0
        BY <2>6, <4>2, SubSeqProperties
      <4> QED
        BY <2>3, <2>6, <4>1, <4>3
    <3> QED
      BY <3>1, <3>2
  <2>10. Began(w)' = b
    BY <2>6, <2>8, <2>9
  <2>11. Len(r \o d) = Len(r) + Len(d) /\ Len(d) \in Nat /\ b + Len(r \o d) = p
    <3>1. r \in Seq(Byte) /\ d \in Seq(Byte)
      BY <2>6
    <3>2. Len(r \o d) = Len(r) + Len(d) /\ Len(d) \in Nat
      BY <3>1
    <3>3. b \in Nat /\ Len(r) \in Nat /\ b + Len(r) = from /\ from \in Nat /\ p \in Nat
      BY <2>6
    <3>4. b + (Len(r) + Len(d)) = p
      BY <2>9, <3>2, <3>3
    <3> QED
      BY <3>2, <3>4
  <2>12. (r \o d = << >> \/ b + Len(r \o d) <= Len(Stream)) /\ r \o d = SubSeq(Stream, b + 1, b + Len(r \o d))
    <3>1. CASE p = from
      <4>1. d = << >>
        <5>1. from + 1 \in Int /\ p \in Int /\ p < from + 1
          BY <2>6, <3>1
        <5> QED
          BY <2>3, <5>1, SubSeqEmpty
      <4>2. r \o d = r
        BY <2>6, <4>1
      <4> QED
        BY <2>6, <4>2
    <3>2. CASE p # from
      <4>1. p <= Len(Stream)
        BY <2>3, <3>2
      <4>2. /\ b + 1 \in 1 .. Len(Stream)+1 /\ from \in (b+1)-1 .. Len(Stream) /\ p \in from .. Len(Stream)
        <5>1. /\ b \in Nat /\ Len(r) \in Nat /\ from \in Nat /\ p \in Nat /\ Len(Stream) \in Nat
              /\ b + Len(r) = from
          BY <2>6
        <5> QED
          BY <2>3, <4>1, <5>1
      <4>3. SubSeq(Stream, b + 1, from) \o SubSeq(Stream, from + 1, p) = SubSeq(Stream, b + 1, p)
        BY <1>1, <4>2, ConcatAdjacentSubSeq
      <4> QED
        BY <2>3, <2>6, <2>11, <4>1, <4>3
    <3> QED
      BY <3>1, <3>2
  <2>13. PartFrom(r \o d, b)
    BY <2>6, <2>12 DEF PartFrom
  <2>14. (reply[w] \o Unsent(w))' = r \o d
    BY <1>1, <2>7 DEF r
  <2>15. PartFrom(reply[w] \o Unsent(w), Began(w))'
    BY <1>1, <2>10, <2>13, <2>14 DEF PartFrom
  <2>16. Len(d) = 0 => p >= Len(Stream)
    <3>1. CASE op[w].pc = "read_unlock"
      BY <2>3, <3>1
    <3>2. CASE op[w].count = 0
      <4>1. p - from = ReadSize
        BY <2>3, <2>5, <2>6, <3>2
      <4> QED
        BY <2>5, <2>9, <4>1
    <3> QED
      BY <2>4, <3>1, <3>2
  <2>17. Sending(w)'
    BY <1>1, <2>1, <2>2, <2>6, <2>15, <2>16 DEF Sending
  <2> QED
    BY <1>6, <2>10, <2>17 DEF Serving, b
<1> QED
  <2>1. ~Oops(w)
    BY <1>1, AllSound DEF Oops
  <2>2. ~ReadFault(w)
    BY <1>1, NoHandlerFails
  <2>3. op[w].pc \notin {"write_lock", "ioctl_lock", "write_combine", "write_install",
                         "write_loop", "ioctl_seek"}
    BY <1>2 DEF Reading
  <2>4. ReadLock(w) \/ ReadChunk(w) \/ ReadEnd(w) \/ ReadReturn(w)
    BY <1>1, <2>1, <2>2, <2>3
       DEF Step, TakeLock, WriteLock, IoctlLock, Lock, ReadStep, WriteStep, WriteCombine,
           WriteNoMemory, WriteInstall, WriteLine, WriteLineNoMemory, WriteReturn, LoopTest,
           IoctlSeek
  <2>5. ASSUME ReadLock(w) PROVE f_pos' = f_pos /\ op'[w].pc # "idle"
    BY <1>1, <2>5 DEF ReadLock, Lock, Goto, OpShape, Fields
  <2>6. ASSUME ReadChunk(w) PROVE f_pos' = f_pos /\ op'[w].pc # "idle"
    <3>1. op'[w].pc = "read_loop"
      BY <1>1, <2>6, ChunkStays
    <3> QED
      BY <2>6, <3>1 DEF ReadChunk
  <2>7. ASSUME ReadEnd(w) PROVE f_pos' = f_pos /\ op'[w].pc # "idle"
    BY <1>1, <2>7 DEF ReadEnd, Goto, OpShape, Fields
  <2> QED
    BY <1>7, <1>8, <2>4, <2>5, <2>6, <2>7

-----------------------------------------------------------------------------
(* All the workers.                                                        *)

LEMMA OthersServing ==
  ASSUME \A u \in Threads : Serving(u), NEW w \in Threads,
         \A u \in Threads \ {w} : /\ wpc'[u] = wpc[u] /\ packet'[u] = packet[u]
                                  /\ reply'[u] = reply[u]
                                  /\ Streaming(u) => Stream' = Stream,
         OthersStay(w), OthersFiles(w), Serving(w)'
  PROVE  \A u \in Threads : Serving(u)'
BY ServingKept DEF OthersStay, OthersFiles

\* A step of one worker leaves the variables of the others alone.
LEMMA OthersRest ==
  ASSUME Sane, PacketInv, NEW w \in Threads,
         Receive(w) \/ Serve(w) \/ Send(w) \/ Acquire(w) \/ Device(w)
  PROVE  /\ OthersStay(w) /\ OthersFiles(w)
         /\ \A u \in Threads \ {w} : /\ wpc'[u] = wpc[u] /\ packet'[u] = packet[u]
                                     /\ reply'[u] = reply[u]
<1>1. /\ OpShape /\ f_pos = [u \in Threads |-> f_pos[u]]
      /\ wpc \in [Threads -> WControl] /\ packet \in [Threads -> Seq(Byte)]
      /\ reply \in [Threads -> Seq(Byte)]
  BY DEF Sane, Inv, FileInv, ServerTyped
<1>2. ASSUME UNCHANGED vars PROVE OthersStay(w) /\ OthersFiles(w)
  BY <1>1, <1>2 DEF vars, OthersStay, OthersFiles
<1>3. ASSUME NEW from, NEW to, WGoto(w, from, to)
      PROVE  \A u \in Threads \ {w} : wpc'[u] = wpc[u]
  BY <1>1, <1>3 DEF WGoto
<1>4. ASSUME NEW c \in Chunks, Recv(w, c)
      PROVE  /\ UNCHANGED <<vars, reply>>
             /\ \A u \in Threads \ {w} : wpc'[u] = wpc[u] /\ packet'[u] = packet[u]
  <2>1. PICK to : WGoto(w, "recv", to)
    BY <1>4 DEF Recv
  <2> QED
    BY <1>1, <1>3, <1>4, <2>1 DEF Recv
<1>5. CASE Send(w)
  BY <1>1, <1>2, <1>3, <1>5 DEF Send
<1>6. CASE Enters(w)
  <2>1. AnyCall(w) /\ UNCHANGED <<packet, reply>>
    BY <1>6, WorkerCalls DEF Sane
  <2>2. \A u \in Threads \ {w} : wpc'[u] = wpc[u]
    BY <1>3, <1>6 DEF Enters, OpenDevice, SeekOrWrite, ReadMore, CloseDevice, WMove
  <2> QED
    BY <1>1, <2>1, <2>2, AnyCallEffect, CallFile
<1>7. CASE Device(w)
  BY <1>1, <1>7, StepEffect, StepFile DEF Device, server
<1>8. CASE RecvError(w) \/ ReallocFails(w) \/ Acquire(w) \/ Continue(w) \/ UnlockIO(w) \/ UnlockStream(w)
  <2>1. PICK from, to : WGoto(w, from, to) /\ UNCHANGED <<vars, packet, reply>>
    BY <1>8 DEF RecvError, ReallocFails, Acquire, LockIO, LockStream, LockMutex, Continue,
                UnlockIO, UnlockStream, UnlockMutex, SetMutex, WMove
  <2> QED
    BY <1>2, <1>3, <2>1
<1>9. ASSUME NEW c \in Chunks, Recv(w, c)
      PROVE  /\ OthersStay(w) /\ OthersFiles(w)
             /\ \A u \in Threads \ {w} : /\ wpc'[u] = wpc[u] /\ packet'[u] = packet[u]
                                         /\ reply'[u] = reply[u]
  BY <1>2, <1>4, <1>9
<1> QED
  BY <1>5, <1>6, <1>7, <1>8, <1>9 DEF Receive, Serve, Enters

\* Only the handlers of the worker that has file_mutex change what the device holds.
LEMMA StreamStays ==
  ASSUME Sane, NEW w \in Threads, Receive(w) \/ Serve(w) \/ Send(w) \/ Acquire(w) \/ Device(w)
  PROVE  \A u \in Threads \ {w} : Streaming(u) => Stream' = Stream
<1>1. CASE UNCHANGED vars
  BY <1>1, StreamKept DEF vars
<1>2. CASE Device(w)
  <2>1. op[w].pc # "idle"
    BY <1>2, StepEffect DEF Device, Sane, Inv
  <2>2. file_mutex = w
    BY <2>1 DEF Sane, Inv, Holding
  <2> QED
    BY <2>2 DEF Sane, Inv, Holding, Streaming
<1>3. CASE Enters(w)
  BY <1>3, StreamKept DEF Enters, OpenDevice, Open, SeekOrWrite, IoctlCall, IoctlFault, WriteCall,
                    WriteFault, Refuse, ReadMore, ReadCall, Enter, CloseDevice, Release, device
<1>4. CASE Receive(w) \/ Continue(w) \/ Acquire(w) \/ UnlockIO(w) \/ Send(w) \/ UnlockStream(w)
  BY <1>1, <1>4 DEF Receive, Recv, RecvError, ReallocFails, Continue, Acquire, LockIO, LockStream,
                LockMutex, UnlockIO, Send, UnlockStream, UnlockMutex, SetMutex, WMove
<1> QED
  BY <1>2, <1>3, <1>4 DEF Serve, Enters

LEMMA ServingNext ==
  ASSUME NothingFails, Sane, PacketInv, FlagInv, \A u \in Threads : Served(u) /\ Serving(u),
         [WNext]_allvars
  PROVE  \A u \in Threads : Serving(u)'
<1>1. MutualExclusion /\ \A w \in Threads : ~ReallocFails(w)
  BY InvExcludes, NoHandlerFails DEF Sane
<1>2. CASE UNCHANGED allvars \/ Signal \/ AllDone
  <2>1. /\ UNCHANGED <<wpc, packet, reply, f_pos, op>> /\ Stream' = Stream
    BY <1>2, StreamKept DEF allvars, vars, server, Signal, AllDone
  <2> QED
    BY <2>1, ServingKept
<1>3. ASSUME NEW w \in Threads, Receive(w) \/ Serve(w) \/ Send(w) \/ Acquire(w) \/ Device(w)
      PROVE  \A u \in Threads : Serving(u)'
  <2>1. Serving(w)'
    <3>1. CASE Device(w)
      <4>1. op[w].pc # "idle"
        BY <3>1, StepEffect DEF Device, Sane, Inv
      <4>2. wpc[w] \in {"in_io", "reading"}
        BY <4>1 DEF Sane, Inv
      <4> QED
        BY <1>1, <3>1, <4>2, AskedStep, ReadServing
    <3>2. CASE Enters(w)
      BY <1>1, <3>2, EntersServing
    <3>3. CASE Receive(w) \/ Continue(w) \/ Acquire(w) \/ UnlockIO(w) \/ Send(w) \/ UnlockStream(w)
      <4>1. UNCHANGED vars
        BY <3>3 DEF Receive, Recv, RecvError, ReallocFails, Continue, Acquire, LockIO, LockStream,
                LockMutex, UnlockIO, Send, UnlockStream, UnlockMutex, SetMutex, WMove
      <4> QED
        BY <1>1, <3>3, <4>1, OutsideServing
    <3> QED
      BY <1>3, <3>1, <3>2, <3>3 DEF Serve, Enters
  <2>2. OthersStay(w) /\ OthersFiles(w)
    BY <1>3, OthersRest
  <2>3. \A u \in Threads \ {w} : wpc'[u] = wpc[u] /\ packet'[u] = packet[u] /\ reply'[u] = reply[u]
    BY <1>3, OthersRest
  <2>4. \A u \in Threads \ {w} : Streaming(u) => Stream' = Stream
    BY <1>3, StreamStays
  <2> QED
    BY <2>1, <2>2, <2>3, <2>4, OthersServing
<1> QED
  BY <1>2, <1>3 DEF WNext

LEMMA ServingInit ==
  ASSUME WInit
  PROVE  \A w \in Threads : Serving(w)
<1> SUFFICES ASSUME NEW w \in Threads PROVE Serving(w)
  OBVIOUS
<1>1. wpc[w] = "new" /\ packet[w] = << >>
  BY DEF WInit
<1>2. ~IsPacket(packet[w])
  BY <1>1 DEF IsPacket, Range
<1> QED
  BY <1>1, <1>2 DEF Serving, Asked, Sending, Known, Streaming

-----------------------------------------------------------------------------
(* The unfinished line.                                                    *)

\* What a worker writes is being moved into the ring.
Committing(w) == op[w].pc \in {"write_install", "write_loop"}

\* Unless a write is in progress no newline is left in the unfinished line.
RestInv == (\E w \in Threads : Committing(w)) \/ Newline \notin Range(Rest)

LEMMA RestBytes ==
  ASSUME MemInv
  PROVE  Rest \in Seq(Byte)
<1>1. \A a : Bytes(a) \in Seq(Byte)
  BY NoBytes DEF Bytes, MemInv, HeapShape, Allocated
<1> QED
  BY <1>1 DEF Rest

\* No newline is found where there is none.
LEMMA NoLineEnd ==
  ASSUME NEW s \in Seq(Byte), ~(LineEnd(s) > 0)
  PROVE  Newline \notin Range(s)
<1> DEFINE I == {i \in 1 .. Len(s) : s[i] = Newline}
<1>1. LineEnd(s) = IF I # {} THEN Min(I) ELSE 0
  BY DEF LineEnd, SelectInSeq
<1>2. SUFFICES ASSUME I # {} PROVE FALSE
  BY DEF Range
<1>3. I \subseteq Nat \ {0}
  OBVIOUS
<1>4. Min(I) \in I
  <2>1. I \subseteq Nat
    BY <1>3
  <2> HIDE DEF I
  <2>2. \E n \in I : \A m \in I : n <= m
    BY <1>2, <2>1, LeastNatural
  <2> QED
    BY <2>2 DEF Min
<1> HIDE DEF I
<1>5. ASSUME NEW m \in I PROVE m > 0
  BY <1>3
<1>7. Min(I) > 0
  BY <1>4, <1>5
<1>6. LineEnd(s) = Min(I)
  BY <1>1, <1>2
<1> QED
  BY <1>6, <1>7

\* What the line server sees of the lines and of the rest.
KeptLines == S!Latest(Lines \o S!Cut(Rest))
KeptRest  == S!Unended(Rest)

\* What it sees when no line is due.
LEMMA NothingDue ==
  ASSUME MemInv, loaded, Newline \notin Range(Rest)
  PROVE  KeptLines = Lines /\ KeptRest = Rest
<1>1. Lines \in Seq(Seq(Byte)) /\ Len(Lines) <= MAX
  <2>1. Lines \in Seq(Seq(Byte)) /\ Len(Lines) = Count(ring) /\ Count(ring) \in 0 .. MAX
    BY LinesShape
  <2> QED
    BY <2>1, CapacityAssumption
<1>2. S!Cut(Rest) = << >> /\ S!Unended(Rest) = Rest
  BY RestBytes, CutNothing
<1>3. Lines \o << >> = Lines
  BY <1>1
<1> QED
  BY <1>1, <1>2, <1>3, LatestAll DEF KeptLines, KeptRest

\* An iteration of the loop of aesd_write changes nothing that is seen: the line was
\* due already.
LEMMA LineWasDue ==
  ASSUME MemInv, OpShape, loaded, NEW w \in Threads, Alone(w), WriteLine(w)
  PROVE  KeptLines' = KeptLines /\ KeptRest' = KeptRest
<1> DEFINE n == LineEnd(Rest)
           t == SubSeq(Rest, n+1, Len(Rest))
           l == SubSeq(Rest, 1, n)
<1>1. /\ Rest \in Seq(Byte) /\ n > 0 /\ Rest' = t
      /\ Lines' = IF Len(Lines) < MAX THEN Append(Lines, l) ELSE Append(Tail(Lines), l)
  BY LineCompletes
<1>2. n \in 1 .. Len(Rest) /\ Rest[n] = Newline /\ \A i \in 1 .. n-1 : Rest[i] # Newline
  BY <1>1, LineEndInside, FirstNewline
<1>3. Lines \in Seq(Seq(Byte)) /\ Len(Lines) <= MAX
  <2>1. Lines \in Seq(Seq(Byte)) /\ Len(Lines) = Count(ring) /\ Count(ring) \in 0 .. MAX
    BY LinesShape
  <2> QED
    BY <2>1, CapacityAssumption
<1> HIDE DEF n
<1>4. S!Cut(Rest) = <<l>> \o S!Cut(t) /\ S!Unended(Rest) = S!Unended(t) /\ t \in Seq(Byte)
  BY <1>1, <1>2, CutFirst
<1>5. l \in Seq(Byte) /\ S!Cut(t) \in Seq(Seq(Byte))
  <2>1. n \in 0 .. Len(Rest) /\ 1 \in Nat /\ 1 > 0
    BY <1>2
  <2> QED
    BY <1>1, <1>4, <2>1, PartOfString, CutShape
<1>6. S!Latest((IF Len(Lines) < MAX THEN Append(Lines, l) ELSE Append(Tail(Lines), l)) \o S!Cut(t))
        = S!Latest(Lines \o (<<l>> \o S!Cut(t)))
  <2> DEFINE c == S!Cut(t)
  <2> HIDE DEF l, t, c
  <2>1. S!Latest((IF Len(Lines) < MAX THEN Append(Lines, l) ELSE Append(Tail(Lines), l)) \o c)
        = S!Latest(Lines \o (<<l>> \o c))
    BY <1>3, <1>5, LatestShifts DEF c
  <2> QED
    BY <2>1 DEF c
<1>7. KeptLines' = S!Latest((IF Len(Lines) < MAX THEN Append(Lines, l) ELSE Append(Tail(Lines), l)) \o S!Cut(t))
  BY <1>1 DEF KeptLines
<1>8. KeptRest' = S!Unended(t)
  BY <1>1 DEF KeptRest
<1> QED
  BY <1>4, <1>6, <1>7, <1>8 DEF KeptLines, KeptRest

\* What the steps of the handlers do to what is seen.
LEMMA StepSeen ==
  ASSUME NothingFails, Sane, MutualExclusion, RestInv, NEW w \in Threads, Device(w)
  PROVE  /\ RestInv'
         /\ \/ /\ WriteCombine(w) /\ Newline \notin Range(Rest) /\ Lines' = Lines
               /\ Rest' = Rest \o op[w].data
               /\ op[w].pc = "write_combine" /\ op'[w].pc = "write_install"
            \/ /\ Committing(w) /\ op'[w].pc \in {"write_install", "write_loop", "idle"}
               /\ KeptLines' = KeptLines /\ KeptRest' = KeptRest
            \/ /\ ~Committing(w) /\ ~Committing(w)' /\ op[w].pc # "write_combine"
               /\ Lines' = Lines /\ Rest' = Rest
<1>1. /\ MemInv /\ OpShape /\ loaded /\ Step(w) /\ OthersStay(w)
  BY StepEffect DEF Sane, Inv, Device
<1>2. /\ ~Oops(w) /\ ~ReadFault(w) /\ ~WriteNoMemory(w) /\ ~WriteLineNoMemory(w)
  BY <1>1, AllSound, NoHandlerFails DEF Oops
<1>3. op[w].pc \in Inside => Alone(w)
  BY AloneInside
<1>4. CASE WriteCombine(w)
  <2>1. op[w].pc = "write_combine" /\ Alone(w)
    BY <1>3, <1>4 DEF WriteCombine, Inside
  <2>2. Lines' = Lines /\ Rest' = Rest \o op[w].data
    BY <1>1, <1>4, <2>1, CombineAccepts
  <2>3. Newline \notin Range(Rest)
    BY <2>1 DEF RestInv, Committing, Alone, Inside
  <2>4. op'[w].pc = "write_install"
    <3>1. PICK a : op' = [op EXCEPT ![w].pc = "write_install", ![w].block = a]
      BY <1>4 DEF WriteCombine
    <3>2. op'[w] = [op[w] EXCEPT !.pc = "write_install", !.block = a]
      BY <1>1, <3>1 DEF OpShape
    <3> QED
      BY <1>1, <3>2 DEF OpShape, Fields
  <2> QED
    BY <1>4, <2>1, <2>2, <2>3, <2>4 DEF RestInv, Committing
<1>5. CASE WriteInstall(w)
  <2>1. op[w].pc = "write_install" /\ Alone(w)
    BY <1>3, <1>5 DEF WriteInstall, Inside
  <2>2. op'[w].pc = "write_loop"
    BY <1>1, <1>5 DEF WriteInstall, OpShape, Fields
  <2>3. Lines' = Lines /\ Rest' = Rest
    BY <1>1, <1>5, <2>1, InstallStutters
  <2>4. KeptLines' = KeptLines /\ KeptRest' = KeptRest
    BY <2>3 DEF KeptLines, KeptRest
  <2> QED
    BY <2>1, <2>2, <2>4 DEF RestInv, Committing
<1>6. CASE WriteLine(w)
  <2>1. op[w].pc = "write_loop" /\ op' = op /\ Alone(w)
    BY <1>3, <1>6 DEF WriteLine, LoopTest, Inside
  <2>2. KeptLines' = KeptLines /\ KeptRest' = KeptRest
    BY <1>1, <1>6, <2>1, LineWasDue
  <2> QED
    BY <2>1, <2>2 DEF RestInv, Committing
<1>7. CASE WriteReturn(w)
  <2>1. op[w].pc = "write_loop" /\ Alone(w) /\ ~(LineEnd(Bytes(partial)) > 0)
    BY <1>3, <1>7 DEF WriteReturn, LoopTest, Inside
  <2>2. UNCHANGED <<ring, partial, heap>> /\ op'[w].pc = "idle"
    <3>1. PICK r : Unlock(w, r)
      BY <1>7 DEF WriteReturn
    <3> QED
      BY <1>1, <3>1, ReturnEffect DEF Unlock
  <2>3. Lines' = Lines /\ Rest' = Rest
    BY <1>1, <2>1, <2>2, LogKept
  <2>4. Newline \notin Range(Rest)
    <3>1. Rest = Bytes(partial)
      BY <2>1, RestOf
    <3> QED
      BY <1>1, <2>1, <3>1, RestBytes, NoLineEnd
  <2> QED
    BY <2>1, <2>2, <2>3, <2>4 DEF RestInv, Committing, KeptLines, KeptRest
<1>8. CASE ~WriteStep(w)
  <2>1. UNCHANGED <<ring, partial, heap>> /\ ~Committing(w) /\ op[w].pc # "write_combine"
    BY <1>1, <1>2, <1>8 DEF Step, TakeLock, ReadLock, WriteLock, IoctlLock, Lock, ReadStep, ReadChunk,
                ReadFault, ReadEnd, ReadReturn, Finding, Unlock, IoctlSeek, Committing, device
  <2>2. ~Committing(w)'
    <3>1. op'[w].pc # "write_install"
      BY <1>1, <1>8, StepInto DEF WriteStep
    <3>2. op'[w].pc # "write_loop"
      <4>1. ASSUME NEW from, NEW to, Lock(w, from, to) PROVE op'[w].pc = to
        BY <1>1, <4>1 DEF Lock, Goto, OpShape, Fields
      <4>2. CASE ReadChunk(w)
        BY <1>1, <4>2, ChunkStays
      <4>3. CASE ReadEnd(w)
        BY <1>1, <4>3 DEF ReadEnd, Goto, OpShape, Fields
      <4>4. CASE ReadReturn(w)
        BY <1>1, <4>4, ReturnedShape DEF ReadReturn, OpShape
      <4>5. CASE IoctlSeek(w)
        <5>1. PICK r : Return(w, r)
          BY <4>5 DEF IoctlSeek
        <5> QED
          BY <1>1, <5>1, ReturnEffect
      <4> QED
        BY <1>1, <1>2, <1>8, <4>1, <4>2, <4>3, <4>4, <4>5
           DEF Step, TakeLock, ReadLock, WriteLock, IoctlLock, ReadStep
    <3> QED
      BY <3>1, <3>2 DEF Committing
  <2>3. Lines' = Lines /\ Rest' = Rest
    BY <1>1, <2>1, <2>2, LogKept DEF Committing
  <2>4. RestInv'
    BY <1>1, <2>1, <2>3 DEF RestInv, Committing, OthersStay
  <2> QED
    BY <2>1, <2>2, <2>3, <2>4
<1> QED
  BY <1>2, <1>4, <1>5, <1>6, <1>7, <1>8 DEF WriteStep

\* The system calls, before they reach the device, and what is outside the driver.
LEMMA RestSeen ==
  ASSUME Sane, [WNext]_allvars, ~\E w \in Threads : Device(w)
  PROVE  Lines' = Lines /\ Rest' = Rest /\ (RestInv => RestInv')
<1>1. CASE UNCHANGED vars
  <2>1. UNCHANGED <<ring, heap, partial, op>> /\ UNCHANGED Installing
    BY <1>1 DEF vars, Installing
  <2>2. Lines' = Lines /\ Rest' = Rest
    BY <2>1, StreamKept DEF Rest, Bytes
  <2> QED
    BY <2>1, <2>2 DEF RestInv, Committing
<1>2. ASSUME NEW w \in Threads, Enters(w)
      PROVE  Lines' = Lines /\ Rest' = Rest /\ (RestInv => RestInv')
  <2>1. OpShape /\ AnyCall(w) /\ f_pos = [u \in Threads |-> f_pos[u]] /\ loaded
    BY <1>2, WorkerCalls DEF Sane, Inv, FileInv
  <2>2. OthersStay(w) /\ op[w].pc = "idle"
    BY <2>1, AnyCallEffect
  <2>3. op'[w].pc \in {"idle", "read_lock", "write_lock", "ioctl_lock"}
    BY <2>1, CallFile DEF Sane, FileInv
  <2>4. UNCHANGED <<ring, partial, heap>>
    BY <1>2 DEF Enters, OpenDevice, Open, SeekOrWrite, IoctlCall, IoctlFault, WriteCall, WriteFault,
         Refuse, ReadMore, ReadCall, Enter, CloseDevice, Release, device
  <2>5. Lines' = Lines /\ Rest' = Rest
    BY <2>2, <2>3, <2>4, LogKept
  <2> QED
    BY <2>2, <2>3, <2>5 DEF RestInv, Committing, OthersStay
<1> QED
  BY <1>1, <1>2, DriverSteps

-----------------------------------------------------------------------------
(* What each client sees.                                                  *)

Request(w) == IF Phase(w) = "asking" THEN << >> ELSE packet[w]
From(w)    == IF Applied(w) THEN Began(w) ELSE 0
Reply(w)   == IF Answered(w) THEN reply[w] ELSE << >>

ViewStays(w) == /\ Phase(w)' = Phase(w) /\ Request(w)' = Request(w)
                /\ From(w)' = From(w) /\ Reply(w)' = Reply(w)
KeptStay == KeptLines' = KeptLines /\ KeptRest' = KeptRest

\* The line server cuts strings as module StreamOfLines does.
LEMMA SameOperators ==
  ASSUME NEW s, NEW ls
  PROVE  /\ Promise!Cut(s) = S!Cut(s) /\ Promise!Unended(s) = S!Unended(s)
         /\ Promise!Latest(ls) = S!Latest(ls) /\ Promise!FlattenSeq(ls) = FlattenSeq(ls)
<1>1. Promise!Cut(s) = S!Cut(s)
  BY DEF Promise!Cut, S!Cut, S!Completed, Promise!Completed, S!End, Promise!End, S!Cardinality, Promise!Cardinality
<1>2. Promise!Unended(s) = S!Unended(s)
  BY DEF Promise!Unended, S!Unended, S!Completed, Promise!Completed, S!End, Promise!End, S!Cardinality, Promise!Cardinality
<1>3. Promise!Latest(ls) = S!Latest(ls)
  BY DEF Promise!Latest, S!Latest
<1>4. Promise!FlattenSeq(ls) = FlattenSeq(ls)
  BY DEF Promise!FlattenSeq, FlattenSeq
<1> QED
  BY <1>1, <1>2, <1>3, <1>4

\* A worker that does nothing.
LEMMA IdleView ==
  ASSUME NEW w \in Threads, wpc'[w] = wpc[w], packet'[w] = packet[w], reply'[w] = reply[w],
         f_pos'[w] = f_pos[w], op'[w] = op[w]
  PROVE  ViewStays(w)
<1>1. Applied(w)' = Applied(w) /\ Answered(w)' = Answered(w) /\ Began(w)' = Began(w)
  BY DEF Applied, Answered, Began, ReadNotSent, IsPacket
<1>2. Phase(w)' = Phase(w)
  BY <1>1 DEF Phase
<1> QED
  BY <1>1, <1>2 DEF ViewStays, Request, From, Reply

\* One that goes on asking.
LEMMA AskingView ==
  ASSUME NEW w \in Threads, ~Applied(w), ~Answered(w), ~Applied(w)', ~Answered(w)'
  PROVE  ViewStays(w)
BY DEF ViewStays, Phase, Request, From, Reply

\* Nothing happens that the line server would notice.
LEMMA Stutters ==
  ASSUME \A w \in Threads : ViewStays(w), KeptStay
  PROVE  UNCHANGED <<S!Latest(Lines \o S!Cut(Rest)), S!Unended(Rest),
                     [w \in Threads |-> Phase(w)],
                     [w \in Threads |-> IF Phase(w) = "asking" THEN << >> ELSE packet[w]],
                     [w \in Threads |-> IF Applied(w) THEN Began(w) ELSE 0],
                     [w \in Threads |-> IF Answered(w) THEN reply[w] ELSE << >>]>>
<1>1. UNCHANGED <<S!Latest(Lines \o S!Cut(Rest)), S!Unended(Rest)>>
  BY DEF KeptStay, KeptLines, KeptRest
<1>2. \A w \in Threads : Phase(w)' = Phase(w)
  BY DEF ViewStays
<1>3. \A w \in Threads : (IF Phase(w) = "asking" THEN << >> ELSE packet[w])'
                         = IF Phase(w) = "asking" THEN << >> ELSE packet[w]
  BY DEF ViewStays, Request
<1>4. \A w \in Threads : (IF Applied(w) THEN Began(w) ELSE 0)'
                         = IF Applied(w) THEN Began(w) ELSE 0
  BY DEF ViewStays, From
<1>5. \A w \in Threads : (IF Answered(w) THEN reply[w] ELSE << >>)'
                         = IF Answered(w) THEN reply[w] ELSE << >>
  BY DEF ViewStays, Reply
<1> QED
  BY <1>1, <1>2, <1>3, <1>4, <1>5

\* A request takes effect.
LEMMA Applies ==
  ASSUME NEW w \in Threads, \A u \in Threads \ {w} : ViewStays(u),
         Phase(w) = "asking", Phase(w)' = "applied", packet[w] \in Payloads,
         Request(w)' = packet[w], Reply(w)' = Reply(w),
         IF IsSeek(packet[w])
         THEN From(w)' = Promise!Before(SeekTarget(packet[w])) /\ KeptStay
         ELSE /\ From(w)' = From(w)
              /\ KeptLines' = S!Latest(KeptLines \o S!Cut(KeptRest \o packet[w]))
              /\ KeptRest'  = S!Unended(KeptRest \o packet[w])
  PROVE  Promise!Apply(w)
<1> DEFINE phase   == [u \in Threads |-> Phase(u)]
           request == [u \in Threads |-> Request(u)]
           from    == [u \in Threads |-> From(u)]
           answer  == [u \in Threads |-> Reply(u)]
<1>1. phase[w] = "asking" /\ phase' = [phase EXCEPT ![w] = "applied"]
  BY DEF ViewStays
<1>2. request' = [request EXCEPT ![w] = packet[w]]
  BY DEF ViewStays
<1>3. answer' = answer
  BY DEF ViewStays
<1>4. IF IsSeek(packet[w])
      THEN /\ from' = [from EXCEPT ![w] = Promise!Before(SeekTarget(packet[w]))]
           /\ UNCHANGED <<KeptLines, KeptRest>>
      ELSE /\ KeptLines' = Promise!Latest(KeptLines \o Promise!Cut(KeptRest \o packet[w]))
           /\ KeptRest'  = Promise!Unended(KeptRest \o packet[w])
           /\ UNCHANGED from
  <2>1. CASE IsSeek(packet[w])
    BY <2>1 DEF ViewStays, KeptStay
  <2>2. CASE ~IsSeek(packet[w])
    BY <2>2, SameOperators DEF ViewStays
  <2> QED
    BY <2>1, <2>2
<1> QED
  BY <1>1, <1>2, <1>3, <1>4 DEF Promise!Apply, Request, From, Reply, KeptLines, KeptRest

\* A client is answered.
LEMMA Answers ==
  ASSUME NEW w \in Threads, \A u \in Threads \ {w} : ViewStays(u),
         Phase(w) = "applied", Phase(w)' = "answered", Request(w)' = Request(w),
         From(w)' = 0, Reply(w)' = SubSeq(FlattenSeq(KeptLines), From(w) + 1, Len(FlattenSeq(KeptLines))),
         KeptStay
  PROVE  Promise!Answer(w)
<1> DEFINE phase   == [u \in Threads |-> Phase(u)]
           request == [u \in Threads |-> Request(u)]
           from    == [u \in Threads |-> From(u)]
           answer  == [u \in Threads |-> Reply(u)]
<1>1. phase[w] = "applied" /\ phase' = [phase EXCEPT ![w] = "answered"]
  BY DEF ViewStays
<1>2. request' = request /\ UNCHANGED <<KeptLines, KeptRest>>
  BY DEF ViewStays, KeptStay
<1>3. from' = [from EXCEPT ![w] = 0]
  BY DEF ViewStays
<1>4. answer' = [answer EXCEPT ![w] = SubSeq(Promise!FlattenSeq(KeptLines), from[w] + 1,
                                             Len(Promise!FlattenSeq(KeptLines)))]
  BY SameOperators DEF ViewStays
<1> QED
  BY <1>1, <1>2, <1>3, <1>4 DEF Promise!Answer, Request, From, Reply, KeptLines, KeptRest

\* One that has been heard and not answered, or that has been answered.
LEMMA AppliedView ==
  ASSUME NEW w \in Threads, Applied(w), Applied(w)', ~Answered(w), ~Answered(w)',
         packet'[w] = packet[w], Began(w)' = Began(w)
  PROVE  ViewStays(w)
BY DEF ViewStays, Phase, Request, From, Reply

LEMMA AnsweredView ==
  ASSUME NEW w \in Threads, ~Applied(w), ~Applied(w)', Answered(w)' = Answered(w),
         packet'[w] = packet[w], reply'[w] = reply[w]
  PROVE  ViewStays(w)
BY DEF ViewStays, Phase, Request, From, Reply

\* What a worker does outside the driver, but for the end of its answer.
LEMMA OutsideView ==
  ASSUME NothingFails, Sane, PacketInv, FlagInv, NEW w \in Threads, Serving(w), UNCHANGED vars,
         \/ Receive(w) /\ ~ReallocFails(w)
         \/ Continue(w) \/ Acquire(w) \/ UnlockIO(w) \/ Send(w)
  PROVE  ViewStays(w)
<1>1. /\ wpc \in [Threads -> WControl] /\ packet \in [Threads -> Seq(Byte)]
      /\ reply \in [Threads -> Seq(Byte)] /\ op[w].data \in Seq(Byte)
      /\ f_pos' = f_pos /\ op' = op
      /\ wpc[w] \notin {"in_io", "reading"} => op[w].pc = "idle"
  BY DEF Sane, Inv, ServerTyped, Typed, vars
<1>2. ASSUME NEW c \in Chunks, Recv(w, c) PROVE ViewStays(w)
  <2> DEFINE data == packet[w] \o c
  <2>1. /\ wpc[w] = "recv" /\ ~IsPacket(packet[w])
        /\ wpc' = [wpc EXCEPT ![w] = IF IsPacket(data) THEN "lock_io"
                                     ELSE IF end_of_packet[w] THEN "lock_stream" ELSE "loop"]
    BY <1>2, RecvLeads
  <2>2. ~end_of_packet[w]
    BY <2>1 DEF FlagInv, Clean, Early
  <2> HIDE DEF data
  <2>3. wpc'[w] \in {"lock_io", "loop"}
    BY <1>1, <2>1, <2>2
  <2> QED
    BY <2>1, <2>3, AskingView DEF Applied, Answered
<1>3. CASE RecvError(w) \/ Continue(w)
  <2>1. /\ wpc[w] \in {"recv", "loop"} /\ wpc'[w] \in {"close", "recv"} /\ packet' = packet
    BY <1>1, <1>3 DEF RecvError, Continue, WMove, WGoto
  <2>2. ~IsPacket(packet[w])
    BY <2>1 DEF PacketInv, Early
  <2>3. ~IsPacket(packet[w])'
    BY <2>1, <2>2 DEF IsPacket
  <2> QED
    BY <2>1, <2>3, AskingView DEF Applied, Answered
<1>4. CASE LockIO(w)
  <2>1. wpc[w] = "lock_io" /\ wpc'[w] = "io"
    BY <1>1, <1>4 DEF LockIO, LockMutex, SetMutex, WGoto
  <2> QED
    BY <2>1, AskingView DEF Applied, Answered
<1>5. CASE LockStream(w) \/ UnlockIO(w)
  <2>1. /\ wpc[w] \in {"lock_stream", "in_io"} /\ wpc'[w] \in {"stream", "lock_stream"}
        /\ packet' = packet /\ reply' = reply /\ op[w].pc = "idle"
    BY <1>1, <1>5 DEF LockStream, UnlockIO, LockMutex, UnlockMutex, SetMutex, WGoto
  <2>2. Began(w)' = Began(w)
    BY <1>1, <2>1 DEF Began, ReadNotSent
  <2> QED
    BY <2>1, <2>2, AppliedView DEF Applied, Answered
<1>6. CASE Send(w)
  <2>1. /\ wpc[w] = "reading" /\ wpc'[w] = "stream" /\ packet' = packet /\ op[w].pc = "idle"
        /\ reply'[w] = reply[w] \o op[w].data
    <3>1. "send" \notin Faults
      BY DEF NothingFails
    <3> QED
      BY <1>1, <1>6, <3>1 DEF Send, WGoto
  <2>2. f_pos[w] \in Nat
    BY <2>1 DEF Serving, Sending
  <2>3. Began(w)' = Began(w)
    <3>1. Len(reply[w] \o op[w].data) = Len(reply[w]) + Len(op[w].data)
          /\ Len(reply[w]) \in Nat /\ Len(op[w].data) \in Nat
      BY <1>1
    <3>2. Began(w) = f_pos[w] - Len(reply[w]) - Len(op[w].data)
      BY <2>1 DEF Began, ReadNotSent
    <3>3. Began(w)' = f_pos[w] - Len(reply[w] \o op[w].data) - 0
      BY <1>1, <2>1 DEF Began, ReadNotSent
    <3>4. \A x, y, z \in Nat : x - y - z = x - (y+z) - 0
      OBVIOUS
    <3>5. f_pos[w] - Len(reply[w]) - Len(op[w].data)
            = f_pos[w] - (Len(reply[w]) + Len(op[w].data)) - 0
      BY <2>2, <3>1, <3>4
    <3> QED
      BY <3>1, <3>2, <3>3, <3>5
  <2> QED
    BY <2>1, <2>3, AppliedView DEF Applied, Answered
<1> QED
  BY <1>2, <1>3, <1>4, <1>5, <1>6 DEF Receive, Acquire

\* A worker that begins a system call.
LEMMA EntersView ==
  ASSUME NothingFails, Sane, MutualExclusion, NEW w \in Threads, Enters(w)
  PROVE  ViewStays(w)
<1>1. /\ wpc \in [Threads -> WControl] /\ OpShape /\ f_pos = [u \in Threads |-> f_pos[u]]
      /\ MemInv /\ loaded /\ UNCHANGED <<packet, reply>>
  BY WorkerCalls DEF Sane, Inv, FileInv
<1>2. CASE OpenDevice(w)
  <2>1. wpc[w] = "new" /\ wpc'[w] = "loop"
    BY <1>1, <1>2 DEF OpenDevice, WMove, WGoto
  <2> QED
    BY <2>1, AskingView DEF Applied, Answered
<1>3. CASE SeekOrWrite(w)
  <2>1. wpc[w] = "io" /\ wpc'[w] = "in_io"
    BY <1>1, <1>3 DEF SeekOrWrite, WMove, WGoto
  <2>2. op'[w].pc \in {"write_lock", "ioctl_lock"}
    <3>1. ASSUME NEW d, WriteCall(w, d) PROVE op'[w].pc = "write_lock"
      BY <1>1, <3>1 DEF WriteCall, Enter, Returned, OpShape
    <3>2. ASSUME NEW s, IoctlCall(w, s) PROVE op'[w].pc = "ioctl_lock"
      BY <1>1, <3>2 DEF IoctlCall, Enter, Returned, OpShape
    <3>3. ~WriteFault(w) /\ ~IoctlFault(w)
      BY <1>1, NoHandlerFails
    <3> QED
      BY <1>3, <3>1, <3>2, <3>3 DEF SeekOrWrite
  <2> QED
    BY <2>1, <2>2, AskingView DEF Applied, Answered
<1>4. CASE ReadMore(w)
  <2>1. wpc[w] = "stream" /\ wpc'[w] = "reading" /\ ReadCall(w, ReadSize)
    BY <1>1, <1>4 DEF ReadMore, WMove, WGoto
  <2>2. f_pos' = f_pos /\ op'[w].pc = "read_lock"
    BY <1>1, <2>1 DEF ReadCall, Enter, Returned, OpShape
  <2>3. Began(w)' = Began(w)
    BY <1>1, <2>1, <2>2 DEF Began, ReadNotSent
  <2> QED
    BY <1>1, <2>1, <2>3, AppliedView DEF Applied, Answered
<1>5. CASE CloseDevice(w)
  <2>1. wpc[w] = "close" /\ wpc'[w] = "done"
    BY <1>1, <1>5 DEF CloseDevice, WMove, WGoto
  <2>2. ~Applied(w) /\ ~Applied(w)' /\ Answered(w)' = Answered(w)
    BY <1>1, <2>1 DEF Applied, Answered, IsPacket
  <2> QED
    BY <1>1, <2>2, AnsweredView
<1> QED
  BY <1>2, <1>3, <1>4, <1>5 DEF Enters

\* A read of an answer.
LEMMA ReadView ==
  ASSUME NothingFails, Sane, MutualExclusion, NEW w \in Threads, Served(w), Serving(w),
         wpc[w] = "reading", Device(w)
  PROVE  ViewStays(w)
<1>1. wpc' = wpc /\ packet' = packet
  BY DEF Device, server
<1>2. Began(w)' = Began(w)
  BY ReadServing
<1> QED
  BY <1>1, <1>2, AppliedView DEF Applied, Answered

\* The first lines of the device take the bytes up to where the next one starts.
LEMMA PrefixLength ==
  ASSUME MemInv, loaded, NEW f, Starts(ring, f), NEW n \in 0 .. Count(ring)
  PROVE  Len(FlattenSeq(SubSeq(Lines, 1, n))) = f[n]
<1> DEFINE P == SubSeq(Lines, 1, n)
           g == [i \in 0 .. n |-> f[i]]
<1>1. /\ Lines \in Seq(Seq(Byte)) /\ Len(Lines) = Count(ring) /\ Count(ring) \in Nat
      /\ Sizes(Lines) = EntrySize(ring) /\ RunningSum(f, Sizes(Lines), Len(Lines))
  BY LinesShape DEF Starts
<1>2. P \in Seq(Seq(Byte)) /\ Len(P) = n /\ \A k \in 1 .. n : P[k] = Lines[k]
  <2>1. \A k \in 1 .. n : Lines[k] \in Seq(Byte)
    BY <1>1
  <2>2. /\ P \in Seq(Seq(Byte)) /\ Len(P) = IF 1 <= n THEN n - 1 + 1 ELSE 0
        /\ \A k \in 1 .. n - 1 + 1 : P[k] = Lines[1 + k - 1]
    BY <2>1, SubSeqProperties
  <2>3. n \in Nat
    BY <1>1
  <2>4. \A k \in 1 .. n : k \in 1 .. n-1+1 /\ 1 + k - 1 = k
    BY <2>3
  <2> HIDE DEF P
  <2> QED
    BY <2>2, <2>3, <2>4
<1>3. RunningSum(g, Sizes(P), Len(P))
  <2>1. \A i \in 0 .. n : f[i] \in Nat
    BY <1>1 DEF RunningSum
  <2>2. f[0] = 0 /\ 0 \in 0 .. n
    BY <1>1 DEF RunningSum
  <2>3. ASSUME NEW i \in 1 .. n PROVE g[i] = g[i-1] + Sizes(P)[i-1]
    <3>1. /\ i \in 1 .. Len(Lines) /\ i-1 \in 0 .. Len(Lines)-1 /\ i-1 \in 0 .. n-1
          /\ i \in 0 .. n /\ i-1 \in 0 .. n /\ (i-1)+1 = i
      BY <1>1
    <3>2. f[i] = f[i-1] + Sizes(Lines)[i-1]
      BY <1>1, <3>1 DEF RunningSum
    <3>3. Sizes(P)[i-1] = Sizes(Lines)[i-1]
      <4> HIDE DEF P
      <4>1. Sizes(P)[i-1] = Len(P[i]) /\ Sizes(Lines)[i-1] = Len(Lines[i])
        BY <1>2, <3>1 DEF Sizes
      <4> QED
        BY <1>2, <4>1
    <3>4. g[i] = f[i] /\ g[i-1] = f[i-1]
      BY <3>1
    <3> QED
      BY <3>2, <3>3, <3>4
  <2>4. g \in [0 .. n -> Nat] /\ g[0] = 0
    BY <2>1, <2>2
  <2> HIDE DEF g, P
  <2> QED
    BY <1>2, <2>3, <2>4 DEF RunningSum
<1>4. Flattened(FlattenSeq(P), P, g, Len(P), Byte)
  <2> HIDE DEF P, g
  <2> QED
    BY <1>2, <1>3, FlattenValue
<1>5. Len(FlattenSeq(P)) = g[n]
  <2> HIDE DEF P, g
  <2> QED
    BY <1>2, <1>4 DEF Flattened
<1> QED
  BY <1>1, <1>5

\* What the ioctl computes is what the line server computes from the lines.
LEMMA SeekIsBefore ==
  ASSUME MemInv, loaded, KeptLines = Lines, NEW t, t[1] \in Nat, t[2] \in Nat
  PROVE  LET pos == SeekPosition(ring, t[1], t[2])
         IN  Promise!Before(t) = IF pos = NULL THEN 0 ELSE pos
<1> DEFINE cmd == t[1]
           o   == t[2]
<1>1. PICK f : Starts(ring, f) /\ \A n \in 0 .. Count(ring) : f[n] \in Nat
  BY StreamStarts
<1>2. Lines \in Seq(Seq(Byte)) /\ Len(Lines) = Count(ring) /\ Count(ring) \in Nat
  BY LinesShape
<1>3. SeekPosition(ring, cmd, o) = IF cmd < Count(ring) /\ o < Len(Lines[cmd+1]) THEN f[cmd] + o ELSE NULL
  BY <1>1, SeekValue
<1>4. Promise!Before(t) = IF cmd+1 \in DOMAIN Lines /\ o < Len(Lines[cmd+1])
                          THEN Len(FlattenSeq(SubSeq(Lines, 1, (cmd+1)-1))) + o ELSE 0
  BY SameOperators DEF Promise!Before, KeptLines
<1> HIDE DEF cmd, o
<1>5. cmd \in Nat /\ o \in Nat
  BY DEF cmd, o
<1>6. cmd+1 \in DOMAIN Lines <=> cmd < Count(ring)
  BY <1>2, <1>5
<1>7. ASSUME cmd < Count(ring)
      PROVE  Len(FlattenSeq(SubSeq(Lines, 1, (cmd+1)-1))) = f[cmd] /\ f[cmd] + o # NULL
  <2>1. cmd \in 0 .. Count(ring) /\ (cmd+1)-1 = cmd
    BY <1>2, <1>5, <1>7
  <2>2. Len(FlattenSeq(SubSeq(Lines, 1, cmd))) = f[cmd]
    BY <1>1, <2>1, PrefixLength
  <2>3. f[cmd] \in Nat
    BY <1>1, <2>1
  <2>4. f[cmd] + o \in Nat
    BY <1>5, <2>3
  <2>5. f[cmd] + o # NULL
    BY <2>4, NullIsNoPosition
  <2> QED
    BY <2>1, <2>2, <2>5
<1>8. SeekPosition(ring, cmd, o) = SeekPosition(ring, t[1], t[2])
  BY DEF cmd, o
<1> QED
  BY <1>3, <1>4, <1>6, <1>7, <1>8

\* A step of aesd_write or of aesd_ioctl: it is where the request takes effect, or nothing
\* is seen of it.
LEMMA WriteOrSeekApplies ==
  ASSUME NothingFails, Sane, MutualExclusion, PacketInv, RestInv, NEW w \in Threads,
         Served(w), Serving(w), wpc[w] = "in_io", Device(w),
         \A u \in Threads \ {w} : ViewStays(u)
  PROVE  Promise!Apply(w) \/ (ViewStays(w) /\ KeptStay)
<1>1. /\ MemInv /\ OpShape /\ loaded /\ Step(w) /\ wpc' = wpc /\ reply' = reply /\ packet' = packet
      /\ f_pos = [u \in Threads |-> f_pos[u]] /\ Typed(w) /\ op[w].pc # "idle"
  BY StepEffect DEF Sane, Inv, Device, server, FileInv
<1>2. /\ ~Answered(w) /\ ~Answered(w)' /\ reply[w] = << >> /\ op[w].pc \notin Reading
      /\ packet[w] \in Payloads
  BY <1>1 DEF Answered, Served, Asking, Before, Serving, Known, PacketInv, HasRead
<1>3. From(w)' = IF Applied(w)' THEN f_pos'[w] - 0 - 0 ELSE 0
  BY <1>1, <1>2, NoBytes DEF From, Began, ReadNotSent
<1>4. ASSUME ~Applied(w) PROVE Phase(w) = "asking" /\ From(w) = 0 /\ Reply(w) = << >> /\ Reply(w)' = << >>
  BY <1>2, <1>4 DEF Phase, From, Reply
<1>5. ASSUME Applied(w)' PROVE Phase(w)' = "applied" /\ Request(w)' = packet[w]
  <2>1. Phase(w)' = "applied"
    BY <1>5 DEF Phase
  <2> QED
    BY <1>1, <2>1 DEF Request
<1>6. CASE /\ WriteCombine(w) /\ Newline \notin Range(Rest) /\ Lines' = Lines
           /\ Rest' = Rest \o op[w].data
           /\ op[w].pc = "write_combine" /\ op'[w].pc = "write_install"
  <2>1. ~Applied(w) /\ Applied(w)'
    BY <1>1, <1>6 DEF Applied
  <2>2. ~IsSeek(packet[w]) /\ op[w].data = packet[w] /\ f_pos[w] = 0 /\ f_pos' = f_pos
    BY <1>6 DEF Serving, Asked, WriteCombine
  <2>3. From(w)' = From(w)
    BY <1>3, <1>4, <2>1, <2>2
  <2>4. KeptLines = Lines /\ KeptRest = Rest
    BY <1>1, <1>6, NothingDue
  <2>5. /\ KeptLines' = S!Latest(KeptLines \o S!Cut(KeptRest \o packet[w]))
        /\ KeptRest' = S!Unended(KeptRest \o packet[w])
    <3>1. Lines' = Lines /\ Rest' = Rest \o packet[w]
      BY <1>6, <2>2
    <3>2. KeptLines' = S!Latest(Lines \o S!Cut(Rest \o packet[w]))
          /\ KeptRest' = S!Unended(Rest \o packet[w])
      BY <3>1 DEF KeptLines, KeptRest
    <3> QED
      BY <2>4, <3>2
  <2> QED
    BY <1>2, <1>4, <1>5, <2>1, <2>2, <2>3, <2>5, Applies
<1>7. CASE /\ Committing(w) /\ op'[w].pc \in {"write_install", "write_loop", "idle"} /\ KeptStay
  <2>1. Applied(w) /\ Applied(w)'
    BY <1>1, <1>7 DEF Applied, Committing
  <2>2. f_pos' = f_pos
    <3>1. ~Oops(w)
      BY <1>1, AllSound DEF Oops
    <3> QED
      BY <1>1, <1>7, <3>1 DEF Step, TakeLock, ReadLock, WriteLock, IoctlLock, Lock, ReadStep, ReadChunk,
             ReadFault, ReadEnd, ReadReturn, Finding, WriteStep, WriteCombine, WriteNoMemory, Committing,
             WriteInstall, WriteLine, WriteLineNoMemory, WriteReturn, LoopTest, Unlock, IoctlSeek
  <2>3. Began(w)' = Began(w)
    BY <1>1, <2>2 DEF Began, ReadNotSent
  <2> QED
    BY <1>1, <1>2, <1>7, <2>1, <2>3, AppliedView
<1>8. CASE /\ ~Committing(w) /\ ~Committing(w)' /\ op[w].pc # "write_combine"
           /\ Lines' = Lines /\ Rest' = Rest
  <2>1. KeptStay
    BY <1>8 DEF KeptStay, KeptLines, KeptRest
  <2>2. ~Applied(w)
    BY <1>1, <1>8 DEF Applied, Committing
  <2>3. CASE TakeLock(w)
    <3>1. op'[w].pc # "idle"
      BY <1>1, <2>3 DEF TakeLock, ReadLock, WriteLock, IoctlLock, Lock, Goto, OpShape, Fields
    <3>2. ~Applied(w)'
      BY <1>1, <1>8, <3>1 DEF Applied, Committing
    <3> QED
      BY <1>2, <2>1, <2>2, <3>2, AskingView
  <2>4. CASE IoctlSeek(w)
    <3>1. op[w].pc = "ioctl_seek"
      BY <2>4 DEF IoctlSeek
    <3>2. IsSeek(packet[w]) /\ op[w].seek = SeekTarget(packet[w]) /\ f_pos[w] = 0
      BY <3>1 DEF Serving, Asked, SeekTarget
    <3>3. op'[w].pc = "idle"
      <4>1. PICK r : Return(w, r)
        BY <2>4 DEF IoctlSeek
      <4> QED
        BY <1>1, <4>1, ReturnEffect
    <3>4. Applied(w)'
      BY <1>1, <3>3 DEF Applied
    <3>5. Newline \notin Range(Rest)
      <4>1. Alone(w)
        BY <1>1, <3>1, AloneInside DEF Inside
      <4> QED
        BY <1>8, <4>1 DEF RestInv, Committing, Alone, Inside
    <3>6. KeptLines = Lines
      BY <1>1, <3>5, NothingDue
    <3> DEFINE t   == SeekTarget(packet[w])
               pos == SeekPosition(ring, t[1], t[2])
    <3>7. t[1] \in Nat /\ t[2] \in Nat
      BY <3>2, WorkerAssumption DEF IsSeek, SeekTarget
    <3>8. Promise!Before(t) = IF pos = NULL THEN 0 ELSE pos
      <4> HIDE DEF t
      <4> QED
        BY <1>1, <3>6, <3>7, SeekIsBefore
    <3>9. Target(w) = pos
      BY <3>2 DEF Target
    <3>10. f_pos'[w] = IF pos = NULL THEN 0 ELSE pos
      <4> HIDE DEF pos
      <4> QED
        BY <1>1, <2>4, <3>2, <3>9 DEF IoctlSeek
    <3>11. pos = NULL \/ pos \in Nat
      <4> HIDE DEF t
      <4> QED
        BY <1>1, <3>7, SeekType
    <3> HIDE DEF pos, t
    <3>12. From(w)' = Promise!Before(t)
      <4>1. f_pos'[w] \in Nat
        BY <3>10, <3>11
      <4>2. From(w)' = f_pos'[w] - 0 - 0
        BY <1>3, <3>4
      <4> QED
        BY <3>8, <3>10, <4>1, <4>2
    <3>13. From(w)' = Promise!Before(SeekTarget(packet[w]))
      BY <3>12 DEF t
    <3> QED
      BY <1>2, <1>4, <1>5, <2>1, <2>2, <3>2, <3>4, <3>13, Applies
  <2>5. TakeLock(w) \/ IoctlSeek(w)
    <3>1. ~Oops(w)
      BY <1>1, AllSound DEF Oops
    <3> QED
      BY <1>1, <1>2, <1>8, <3>1 DEF Step, ReadStep, ReadChunk, Reading,
             ReadFault, ReadEnd, ReadReturn, Finding, WriteStep, WriteCombine, WriteNoMemory, Committing,
             WriteInstall, WriteLine, WriteLineNoMemory, WriteReturn, LoopTest
  <2> QED
    BY <2>3, <2>4, <2>5
<1> QED
  <2>1. \/ /\ WriteCombine(w) /\ Newline \notin Range(Rest) /\ Lines' = Lines
           /\ Rest' = Rest \o op[w].data
           /\ op[w].pc = "write_combine" /\ op'[w].pc = "write_install"
        \/ /\ Committing(w) /\ op'[w].pc \in {"write_install", "write_loop", "idle"}
           /\ KeptLines' = KeptLines /\ KeptRest' = KeptRest
        \/ /\ ~Committing(w) /\ ~Committing(w)' /\ op[w].pc # "write_combine"
           /\ Lines' = Lines /\ Rest' = Rest
    BY StepSeen
  <2> QED
    BY <1>6, <1>7, <1>8, <2>1 DEF KeptStay

\* The end of the answer.
LEMMA UnlockAnswers ==
  ASSUME NothingFails, Sane, FlagInv, RestInv, NEW w \in Threads, Serving(w),
         UnlockStream(w), \A u \in Threads \ {w} : ViewStays(u), KeptStay
  PROVE  Promise!Answer(w)
<1>1. /\ wpc[w] = "reading" /\ wpc'[w] = "close" /\ op[w].pc = "idle" /\ op[w].ret <= 0
      /\ UNCHANGED <<vars, packet, reply>>
  BY DEF UnlockStream, UnlockMutex, SetMutex, WGoto, Sane, Inv
<1>2. /\ MemInv /\ loaded /\ OpShape /\ reply[w] \in Seq(Byte) /\ op[w].data \in Seq(Byte)
      /\ Stream \in Seq(Byte) /\ Len(Stream) \in Nat
  BY StreamBytes DEF Sane, Inv, ServerTyped, Typed
<1>3. IsPacket(packet[w]) /\ IsPacket(packet[w])'
  BY <1>1 DEF FlagInv, Clean, IsPacket
<1>4. /\ Applied(w) /\ ~Applied(w)' /\ Answered(w)' /\ ~Answered(w)
  BY <1>1, <1>3 DEF Applied, Answered
<1>5. Phase(w) = "applied" /\ Phase(w)' = "answered"
  BY <1>4 DEF Phase
<1>6. Request(w)' = Request(w) /\ From(w)' = 0 /\ Reply(w)' = reply[w] /\ From(w) = Began(w)
  BY <1>1, <1>4, <1>5 DEF Request, From, Reply
<1>7. /\ f_pos[w] \in Nat /\ PartFrom(reply[w] \o op[w].data, Began(w))
      /\ op[w].ret = Len(op[w].data) /\ f_pos[w] >= Len(Stream)
  <2>1. /\ f_pos[w] \in Nat /\ PartFrom(reply[w] \o op[w].data, Began(w))
        /\ op[w].ret = Len(op[w].data) /\ (op[w].ret = 0 => f_pos[w] >= Len(Stream))
    BY <1>1 DEF Serving, Sending, Streaming, Unsent
  <2>2. Len(op[w].data) \in Nat
    BY <1>2
  <2>3. op[w].ret = 0
    BY <1>1, <2>1, <2>2
  <2> QED
    BY <2>1, <2>3
<1>8. op[w].data = << >> /\ Len(op[w].data) = 0 /\ reply[w] \o op[w].data = reply[w]
  <2>1. Len(op[w].data) \in Nat
    BY <1>2
  <2>2. Len(op[w].data) = 0
    BY <1>1, <1>7, <2>1
  <2>3. op[w].data = << >>
    BY <1>2, <2>2
  <2>4. reply[w] \o << >> = reply[w]
    BY <1>2
  <2> QED
    BY <2>2, <2>3, <2>4
<1> DEFINE b == Began(w)
           r == reply[w]
<1>9. b + Len(r) = f_pos[w] /\ b \in Nat /\ Len(r) \in Nat
  <2>1. Len(r) \in Nat
    BY <1>2
  <2>2. b = f_pos[w] - Len(r) - 0
    BY <1>1, <1>8 DEF Began, ReadNotSent
  <2>3. b \in Nat
    BY <1>7 DEF PartFrom
  <2> HIDE DEF b, r
  <2> QED
    BY <1>7, <2>1, <2>2, <2>3
<1>10. r = SubSeq(Stream, b+1, Len(Stream))
  <2>1. r = SubSeq(Stream, b+1, b+Len(r)) /\ (r = << >> \/ b + Len(r) <= Len(Stream))
    BY <1>7, <1>8 DEF PartFrom
  <2>2. CASE r = << >>
    <3>1. Len(r) = 0
      BY <2>2
    <3> HIDE DEF b, r
    <3>2. b >= Len(Stream)
      BY <1>7, <1>9, <3>1
    <3>3. SubSeq(Stream, b+1, Len(Stream)) = << >>
      BY <1>2, <1>9, <3>2, SubSeqEmpty
    <3> QED
      BY <2>2, <3>3
  <2>3. CASE b + Len(r) <= Len(Stream)
    <3> HIDE DEF b, r
    <3>1. b + Len(r) = Len(Stream)
      BY <1>2, <1>7, <1>9, <2>3
    <3> QED
      BY <2>1, <3>1
  <2> QED
    BY <2>1, <2>2, <2>3
<1>11. KeptLines = Lines
  <2>1. \A u \in Threads : ~Committing(u)
    <3>1. file_mutex = w
      BY <1>1 DEF Sane, Inv, Holding
    <3> QED
      BY <1>1, <3>1 DEF Sane, Inv, Holding, Committing
  <2>2. Newline \notin Range(Rest)
    BY <2>1 DEF RestInv
  <2> QED
    BY <1>2, <2>2, NothingDue
<1> QED
  BY <1>5, <1>6, <1>10, <1>11, Answers DEF Stream

\* What holds while nothing fails.
ServerInv ==
  /\ Sane /\ PacketInv /\ FlagInv /\ RestInv
  /\ \A w \in Threads : Served(w) /\ Serving(w)

LEMMA ServerInvNext ==
  ASSUME NothingFails, ServerInv, [WNext]_allvars
  PROVE  ServerInv'
<1>1. Sane /\ MutualExclusion /\ \A w \in Threads : ~ReallocFails(w)
  <2>1. Sane /\ MutualExclusion
    BY InvExcludes DEF ServerInv, Sane
  <2> QED
    BY <2>1, NoHandlerFails DEF Sane, Inv
<1>2. Sane'
  BY <1>1, SaneNext
<1>3. PacketInv' /\ FlagInv'
  BY PacketInvNext DEF ServerInv, FlagInv
<1>4. \A w \in Threads : Served(w)'
  BY <1>1, ServedNext DEF ServerInv
<1>5. \A w \in Threads : Serving(w)'
  BY ServingNext DEF ServerInv
<1>6. RestInv'
  <2>1. CASE \E w \in Threads : Device(w)
    <3>1. PICK w \in Threads : Device(w)
      BY <2>1
    <3> QED
      BY <1>1, <3>1, StepSeen DEF ServerInv
  <2>2. CASE ~\E w \in Threads : Device(w)
    BY <2>2, RestSeen DEF ServerInv
  <2> QED
    BY <2>1, <2>2
<1> QED
  BY <1>2, <1>3, <1>4, <1>5, <1>6 DEF ServerInv

LEMMA ServerInvInit ==
  ASSUME NothingFails, WInit
  PROVE  ServerInv /\ Lines = << >> /\ Rest = << >>
<1>1. /\ ring = EmptyBuffer /\ partial = NULL
      /\ \A w \in Threads : wpc[w] = "new" /\ op[w].pc = "idle"
  BY InitShape DEF WInit, Init
<1>2. Sane
  BY <1>1, SaneInit DEF SaneUntilGone, AnyGone
<1>3. PacketInv /\ FlagInv
  <2>1. \A w \in Threads : ~end_of_packet[w]
    BY DEF WInit, NothingFails
  <2> QED
    BY <2>1, PacketInvInit DEF FlagInv
<1>4. \A w \in Threads : Served(w)
  BY <1>1, ServedInit DEF ServedUntilGone, AnyGone
<1>5. Lines = << >> /\ Rest = << >>
  BY <1>1, EmptyLog
<1>6. RestInv
  BY <1>5 DEF RestInv, Range
<1> QED
  BY <1>2, <1>3, <1>4, <1>5, <1>6, ServingInit DEF ServerInv

LEMMA ServerInitMaps ==
  ASSUME NothingFails, WInit
  PROVE  Promise!Init
<1>1. MemInv /\ loaded /\ Lines = << >> /\ Rest = << >>
  BY ServerInvInit DEF ServerInv, Sane
<1>2. KeptLines = << >> /\ KeptRest = << >>
  <2>1. Newline \notin Range(Rest)
    BY <1>1 DEF Range
  <2> QED
    BY <1>1, <2>1, NothingDue
<1>3. \A w \in Threads : Phase(w) = "asking" /\ ~Applied(w) /\ ~Answered(w)
  BY DEF WInit, Phase, Applied, Answered
<1> QED
  BY <1>2, <1>3 DEF Promise!Init, KeptLines, KeptRest

\* A step is one of the line server, or nothing is seen of it.
LEMMA ServerStepSeen ==
  ASSUME NothingFails, ServerInv, [WNext]_allvars
  PROVE  Promise!Next \/ ((\A w \in Threads : ViewStays(w)) /\ KeptStay)
<1>1. Sane /\ MutualExclusion /\ \A w \in Threads : ~ReallocFails(w)
  <2>1. Sane /\ MutualExclusion
    BY InvExcludes DEF ServerInv, Sane
  <2> QED
    BY <2>1, NoHandlerFails DEF Sane, Inv
<1>2. CASE UNCHANGED allvars \/ Signal \/ AllDone
  <2>1. UNCHANGED <<vars, wpc, packet, reply>>
    BY <1>2 DEF allvars, server, Signal, AllDone
  <2>2. \A w \in Threads : ViewStays(w)
    BY <2>1, IdleView DEF vars
  <2>3. KeptStay
    <3>1. Lines' = Lines
      BY <2>1, StreamKept DEF vars
    <3>2. UNCHANGED Installing
      BY <2>1 DEF vars, Installing
    <3>3. Rest' = Rest
      BY <2>1, <3>2 DEF vars, Rest, Bytes
    <3> QED
      BY <3>1, <3>3 DEF KeptStay, KeptLines, KeptRest
  <2> QED
    BY <2>2, <2>3
<1>3. ASSUME NEW w \in Threads, Receive(w) \/ Serve(w) \/ Send(w) \/ Acquire(w) \/ Device(w),
             Device(w) \/ ~\E u \in Threads : Device(u)
      PROVE  Promise!Next \/ ((\A u \in Threads : ViewStays(u)) /\ KeptStay)
  <2>1. \A u \in Threads \ {w} : ViewStays(u)
    <3>1. /\ OthersStay(w) /\ OthersFiles(w)
          /\ \A u \in Threads \ {w} : /\ wpc'[u] = wpc[u] /\ packet'[u] = packet[u]
                                      /\ reply'[u] = reply[u]
      BY <1>3, OthersRest DEF ServerInv
    <3> QED
      BY <3>1, IdleView DEF OthersStay, OthersFiles
  <2>2. CASE Device(w)
    <3>1. op[w].pc # "idle"
      BY <2>2, StepEffect DEF Device, ServerInv, Sane, Inv
    <3>2. wpc[w] \in {"in_io", "reading"}
      BY <3>1 DEF ServerInv, Sane, Inv
    <3>3. CASE wpc[w] = "in_io"
      <4>1. Promise!Apply(w) \/ (ViewStays(w) /\ KeptStay)
        BY <1>1, <2>1, <2>2, <3>3, WriteOrSeekApplies DEF ServerInv
      <4> QED
        BY <2>1, <4>1 DEF Promise!Next
    <3>4. CASE wpc[w] = "reading"
      <4>1. ViewStays(w)
        BY <1>1, <2>2, <3>4, ReadView DEF ServerInv
      <4>2. op[w].pc \in Reading
        BY <3>1, <3>4 DEF ServerInv, Served, Answering
      <4>3. ~Committing(w) /\ op[w].pc # "write_combine"
        BY <4>2 DEF Committing, Reading
      <4>4. Lines' = Lines /\ Rest' = Rest
        BY <1>1, <2>2, <4>3, StepSeen DEF ServerInv
      <4>5. KeptStay
        BY <4>4 DEF KeptStay, KeptLines, KeptRest
      <4> QED
        BY <2>1, <4>1, <4>5
    <3> QED
      BY <3>2, <3>3, <3>4
  <2>3. CASE ~\E u \in Threads : Device(u)
    <3>1. KeptStay
      BY <2>3, RestSeen DEF ServerInv, KeptStay, KeptLines, KeptRest
    <3>2. CASE UnlockStream(w)
      <4>1. Promise!Answer(w)
        BY <2>1, <3>1, <3>2, UnlockAnswers DEF ServerInv
      <4> QED
        BY <4>1 DEF Promise!Next
    <3>3. CASE Enters(w)
      BY <1>1, <2>1, <3>1, <3>3, EntersView
    <3>4. CASE Receive(w) \/ Continue(w) \/ Acquire(w) \/ UnlockIO(w) \/ Send(w)
      <4>1. UNCHANGED vars
        BY <3>4 DEF Receive, Recv, RecvError, ReallocFails, Continue, Acquire, LockIO, LockStream,
                LockMutex, UnlockIO, Send, UnlockMutex, SetMutex, WMove
      <4>2. ViewStays(w)
        BY <1>1, <3>4, <4>1, OutsideView DEF ServerInv
      <4> QED
        BY <2>1, <3>1, <4>2
    <3> QED
      BY <1>3, <2>3, <3>2, <3>3, <3>4 DEF Serve, Enters
  <2> QED
    BY <1>3, <2>2, <2>3
<1> QED
  BY <1>2, <1>3 DEF WNext

\* While nothing fails, and whatever the interleaving of its threads, of their system calls
\* and of the steps of the driver's handlers, the server (data_processing, server/socket.c,
\* on aesd_read, aesd_write and aesd_ioctl, main.c) is to its clients the server of module
\* LineServer, which does one thing at a time: a request is applied at one instant, and the
\* answer is what is kept at one later instant.
THEOREM ServerImplementsLines ==
  ASSUME NothingFails
  PROVE  WSpec => ImplementsLineServer
<1>1. WInit => ServerInv
  BY ServerInvInit
<1>2. ServerInv /\ [WNext]_allvars => ServerInv'
  BY ServerInvNext
<1>3. WInit => Promise!Init
  BY ServerInitMaps
<1>4. ServerInv /\ [WNext]_allvars
      => [Promise!Next]_(<<S!Latest(Lines \o S!Cut(Rest)), S!Unended(Rest),
                     [w \in Threads |-> Phase(w)],
                     [w \in Threads |-> IF Phase(w) = "asking" THEN << >> ELSE packet[w]],
                     [w \in Threads |-> IF Applied(w) THEN Began(w) ELSE 0],
                     [w \in Threads |-> IF Answered(w) THEN reply[w] ELSE << >>]>>)
  BY ServerStepSeen, Stutters
<1> QED
  BY <1>1, <1>2, <1>3, <1>4, PTL DEF WSpec, ImplementsLineServer, Promise!Spec

-----------------------------------------------------------------------------
(* A client's own line in its answer.                                      *)

\* A string with at most one newline; one that ends with another.
Single(p)  == \A i, j \in 1 .. Len(p) : p[i] = Newline /\ p[j] = Newline => i = j
Ends(l, p) == \E q \in Seq(Byte) : l = q \o p

\* A packet of one line makes one line of what is left over and itself.
LEMMA LineAppended ==
  ASSUME NEW r \in Seq(Byte), Newline \notin Range(r),
         NEW p \in Seq(Byte), IsPacket(p), Single(p)
  PROVE  /\ S!Unended(r \o p) \in Seq(Byte) /\ Newline \notin Range(S!Unended(r \o p))
         /\ \E l \in Seq(Byte) : S!Cut(r \o p) = <<l>> /\ (~Trails(p) => Ends(l, p))
<1> DEFINE s == r \o p
           L == Len(r)
<1>1. PICK i \in 1 .. Len(p) : p[i] = Newline
  BY DEF IsPacket, Range
<1>2. L \in Nat /\ Len(p) \in Nat /\ i \in Nat
  BY <1>1
<1>3. /\ s \in Seq(Byte) /\ Len(s) = L + Len(p)
      /\ \A j \in 1 .. L + Len(p) : s[j] = IF j <= L THEN r[j] ELSE p[j - L]
  BY ConcatProperties
<1> DEFINE n == L + i
           t == SubSeq(s, n+1, Len(s))
           l == SubSeq(s, 1, n)
<1> HIDE DEF s, L
<1>4. n \in 1 .. Len(s) /\ s[n] = Newline
  <2>1. n \in 1 .. L + Len(p) /\ ~(n <= L) /\ n - L = i
    BY <1>1, <1>2
  <2> QED
    BY <1>1, <1>3, <2>1
<1>5. ASSUME NEW j \in 1 .. Len(s), s[j] = Newline PROVE j = n
  <2>1. CASE j <= L
    <3>1. j \in 1 .. Len(r) /\ s[j] = r[j]
      BY <1>2, <1>3, <2>1 DEF L
    <3> QED
      BY <1>5, <3>1 DEF Range
  <2>2. CASE ~(j <= L)
    <3>1. j - L \in 1 .. Len(p) /\ j \in 1 .. L + Len(p)
      BY <1>2, <1>3, <2>2
    <3>2. p[j - L] = Newline
      BY <1>3, <1>5, <2>2, <3>1
    <3>3. j - L = i
      BY <1>1, <3>1, <3>2 DEF Single
    <3> QED
      BY <1>2, <3>3
  <2> QED
    BY <2>1, <2>2
<1> HIDE DEF n
<1>6. \A j \in 1 .. n-1 : s[j] # Newline
  <2> SUFFICES ASSUME NEW j \in 1 .. n-1, s[j] = Newline PROVE FALSE
    OBVIOUS
  <2>1. j \in 1 .. Len(s) /\ j # n
    BY <1>2, <1>3, <1>4
  <2> QED
    BY <1>5, <2>1
<1>7. S!Cut(s) = <<l>> \o S!Cut(t) /\ S!Unended(s) = S!Unended(t) /\ t \in Seq(Byte)
  BY <1>3, <1>4, <1>6, CutFirst
<1>8. Newline \notin Range(t)
  <2>1. /\ Len(t) = Len(s) - n
        /\ \A j \in 1 .. Len(t) : t[j] = s[n+j]
    BY <1>3, <1>4, CompletedAfter
  <2> HIDE DEF t
  <2>2. ASSUME NEW j \in 1 .. Len(t), t[j] = Newline PROVE FALSE
    <3>1. n+j \in 1 .. Len(s) /\ n+j # n
      BY <1>2, <1>3, <1>4, <2>1
    <3> QED
      BY <1>5, <2>1, <2>2, <3>1
  <2>3. t \in Seq(Byte)
    BY <1>7
  <2> QED
    BY <2>2, <2>3 DEF Range
<1>9. S!Cut(t) = << >> /\ S!Unended(t) = t
  BY <1>7, <1>8, CutNothing
<1>10. l \in Seq(Byte) /\ (~Trails(p) => l = s)
  <2>1. n \in 0 .. Len(s) /\ 1 \in Nat /\ 1 > 0
    BY <1>4
  <2>2. l \in Seq(Byte)
    BY <1>3, <2>1, PartOfString
  <2>3. ASSUME ~Trails(p) PROVE l = s
    <3>1. p[Len(p)] = Newline /\ Len(p) \in 1 .. Len(p)
      BY <1>1, <1>2, <2>3 DEF Trails, IsPacket, Last, Range
    <3>2. i = Len(p)
      BY <1>1, <3>1 DEF Single
    <3>3. n = Len(s)
      BY <1>3, <3>2 DEF n
    <3> QED
      BY <1>3, <3>3, SubSeqFull
  <2> QED
    BY <2>2, <2>3
<1>11. S!Cut(s) = <<l>>
  <2> HIDE DEF l
  <2>1. <<l>> \o << >> = <<l>>
    BY <1>10
  <2> QED
    BY <1>7, <1>9, <2>1
<1>12. ~Trails(p) => Ends(l, p)
  BY <1>10 DEF Ends, s
<1> HIDE DEF l, t
<1> QED
  BY <1>7, <1>8, <1>9, <1>10, <1>11, <1>12 DEF s

\* The elements of ls are in x, one place further from the end.
OneFurther(ls, x) ==
  \A k \in 1 .. Len(ls) : (Len(ls) - k) + 1 < MAX =>
    \E m \in 1 .. Len(x) : x[m] = ls[k] /\ Len(x) - m = (Len(ls) - k) + 1

\* One line more: it is the last, and the others are one line further from the end.
LEMMA LatestMore ==
  ASSUME NEW T, NEW ls \in Seq(T), Len(ls) <= MAX, NEW l \in T
  PROVE  LET x == S!Latest(ls \o <<l>>)
         IN  x \in Seq(T) /\ Len(x) \in 1 .. MAX /\ x[Len(x)] = l /\ OneFurther(ls, x)
<1> DEFINE y == ls \o <<l>>
           x == S!Latest(y)
           d == IF Len(y) > MAX THEN Len(y) - MAX ELSE 0
           N == Len(ls)
<1>1. MAX \in Nat /\ MAX > 0 /\ N \in Nat /\ N <= MAX
  BY CapacityAssumption
<1>2. y \in Seq(T) /\ Len(y) = N+1 /\ y[N+1] = l /\ \A k \in 1 .. N : y[k] = ls[k]
  OBVIOUS
<1> HIDE DEF y, N
<1>3. /\ x \in Seq(T) /\ Len(x) = Len(y) - d
      /\ \A j \in 1 .. Len(y) - d : x[j] = y[d+j]
  BY <1>2, LatestShape
<1> HIDE DEF x
<1>4. d \in {0, 1} /\ (d = 1 <=> N = MAX)
  BY <1>1, <1>2
<1> HIDE DEF d
<1>5. Len(x) = N+1-d /\ Len(x) \in 1 .. MAX /\ d + Len(x) = N+1
  BY <1>1, <1>2, <1>3, <1>4
<1>6. x[Len(x)] = l
  BY <1>2, <1>3, <1>5
<1>7. ASSUME NEW k \in 1 .. N, (N - k) + 1 < MAX
      PROVE  \E m \in 1 .. Len(x) : x[m] = ls[k] /\ Len(x) - m = (N - k) + 1
  <2>1. k - d \in 1 .. Len(x) /\ Len(x) - (k-d) = (N - k) + 1 /\ d + (k-d) = k
    BY <1>1, <1>4, <1>5, <1>7
  <2>2. x[k-d] = y[d + (k-d)]
    BY <1>2, <1>3, <1>5, <2>1
  <2>3. x[k-d] = ls[k]
    BY <1>2, <2>1, <2>2
  <2> QED
    BY <2>1, <2>3
<1>8. OneFurther(ls, x)
  BY <1>7 DEF OneFurther, N
<1> QED
  BY <1>3, <1>5, <1>6, <1>8 DEF x, y

\* Lines end to end: where each of them begins.
LEMMA FlattenBytes ==
  ASSUME NEW ls \in Seq(Seq(Byte))
  PROVE  \E f : /\ RunningSum(f, Sizes(ls), Len(ls)) /\ Sizes(ls) \in [0 .. Len(ls)-1 -> Nat]
                /\ Flattened(FlattenSeq(ls), ls, f, Len(ls), Byte)
                /\ FlattenSeq(ls) \in Seq(Byte)
<1> DEFINE N == Len(ls)
<1>1. N \in Nat
  OBVIOUS
<1>2. Sizes(ls) \in [0 .. N-1 -> Nat]
  <2>1. ASSUME NEW j \in 0 .. N-1 PROVE Len(ls[j+1]) \in Nat
    <3>1. j+1 \in 1 .. Len(ls)
      BY <1>1
    <3>2. ls[j+1] \in Seq(Byte)
      BY <3>1, ElementOfSeq
    <3> QED
      BY <3>2
  <2> QED
    BY <2>1 DEF Sizes
<1>3. PICK f : RunningSum(f, Sizes(ls), N)
  <2> HIDE DEF N
  <2> QED
    BY <1>1, <1>2, RunningSumExists
<1>4. Flattened(FlattenSeq(ls), ls, f, N, Byte)
  BY <1>3, FlattenValue
<1> QED
  BY <1>2, <1>3, <1>4 DEF Flattened

\* What a line ends with is in what the lines make up.
LEMMA LineInStream ==
  ASSUME NEW ls \in Seq(Seq(Byte)), NEW k \in 1 .. Len(ls), NEW p \in Seq(Byte), Ends(ls[k], p)
  PROVE  Infix(p, FlattenSeq(ls))
<1> DEFINE N == Len(ls)
           F == FlattenSeq(ls)
<1>1. PICK q \in Seq(Byte) : ls[k] = q \o p
  BY DEF Ends
<1>2. N \in Nat /\ Len(p) \in Nat /\ Len(q) \in Nat
  OBVIOUS
<1>4. PICK f : /\ RunningSum(f, Sizes(ls), N) /\ Sizes(ls) \in [0 .. N-1 -> Nat]
               /\ Flattened(F, ls, f, N, Byte)
  BY FlattenBytes
<1>6. /\ F \in Seq(Byte) /\ Len(F) = f[N]
      /\ \A o \in 1 .. Len(ls[k]) : F[f[k-1] + o] = ls[k][o]
  BY <1>4 DEF Flattened
<1>7. f[k-1] \in Nat /\ f[k] = f[k-1] + Len(ls[k]) /\ f[k] <= f[N] /\ f[k] \in Nat /\ f[N] \in Nat
  <2>1. f[k-1] \in Nat /\ f[k] = f[k-1] + Len(ls[k]) /\ f[k] \in Nat /\ f[N] \in Nat
    BY <1>4, PieceFacts
  <2>2. k \in 0 .. N /\ N \in k .. N
    BY <1>2
  <2> HIDE DEF N
  <2>3. f[k] <= f[N]
    BY <1>2, <1>4, <2>2, RunningSumGrows
  <2> QED
    BY <2>1, <2>3
<1>8. /\ Len(ls[k]) = Len(q) + Len(p)
      /\ \A j \in 1 .. Len(p) : Len(q)+j \in 1 .. Len(ls[k]) /\ ls[k][Len(q)+j] = p[j]
  <2>1. /\ Len(q \o p) = Len(q) + Len(p)
        /\ \A j \in 1 .. Len(q) + Len(p) : (q \o p)[j] = IF j <= Len(q) THEN q[j] ELSE p[j - Len(q)]
    BY ConcatProperties
  <2>2. ASSUME NEW j \in 1 .. Len(p)
        PROVE  Len(q)+j \in 1 .. Len(q) + Len(p) /\ ~(Len(q)+j <= Len(q)) /\ (Len(q)+j) - Len(q) = j
    BY <1>2
  <2>3. ASSUME NEW j \in 1 .. Len(p) PROVE (q \o p)[Len(q)+j] = p[j]
    BY <2>1, <2>2
  <2> QED
    BY <1>1, <2>1, <2>2, <2>3
<1> DEFINE i == f[k-1] + Len(q)
<1> HIDE DEF F, N
<1>9. i \in Nat /\ i + Len(p) = f[k] /\ i \in 0 .. Len(F) - Len(p)
  <2> DEFINE x == f[k-1]
             y == Len(q)
             z == Len(p)
             n == Len(F)
  <2>1. i = x + y /\ f[k] = x + (y + z) /\ f[k] <= n
    BY <1>6, <1>7, <1>8
  <2>2. x \in Nat /\ y \in Nat /\ z \in Nat /\ n \in Nat
    BY <1>2, <1>6, <1>7
  <2> HIDE DEF i, x, y, z, n
  <2>3. i \in Nat /\ i + z = f[k] /\ i \in 0 .. n - z
    BY <2>1, <2>2
  <2> QED
    BY <2>3 DEF n, z
<1>10. ASSUME NEW j \in 1 .. Len(p) PROVE F[i+j] = p[j]
  <2> DEFINE x == f[k-1]
             y == Len(q)
  <2>0. i = x + y /\ x \in Nat /\ y \in Nat /\ j \in Nat
    BY <1>2, <1>7
  <2> HIDE DEF i, x, y
  <2>1. i+j = x + (y+j)
    BY <2>0
  <2> USE DEF x, y
  <2>2. F[f[k-1] + (Len(q)+j)] = ls[k][Len(q)+j]
    BY <1>6, <1>8
  <2> QED
    BY <1>8, <2>1, <2>2
<1> HIDE DEF i
<1>11. SubSeq(F, i+1, i+Len(p)) = p
  <2>1. ASSUME NEW j \in i+1 .. i+Len(p) PROVE F[j] \in Byte
    <3> DEFINE m == Len(p)
               n == Len(F)
    <3>0. m \in Nat /\ n \in Nat /\ i \in 0 .. n - m /\ j \in i+1 .. i+m
      BY <1>2, <1>6, <1>9
    <3> HIDE DEF m, n
    <3>1. j \in 1 .. n
      BY <3>0
    <3> USE DEF n
    <3> QED
      BY <1>6, <3>1, ElementOfSeq
  <2>2. i+1 \in Int /\ i+Len(p) \in Int
    BY <1>2, <1>9
  <2> DEFINE x == i+1
             y == i+Len(p)
  <2>3. /\ SubSeq(F, x, y) \in Seq(Byte)
        /\ Len(SubSeq(F, x, y)) = IF x <= y THEN y - x + 1 ELSE 0
        /\ \A j \in 1 .. y - x + 1 : SubSeq(F, x, y)[j] = F[x+j-1]
    <3>1. x \in Int /\ y \in Int /\ \A j \in x .. y : F[j] \in Byte
      BY <2>1, <2>2
    <3> HIDE DEF x, y
    <3>2. SubSeq(F, x, y) \in Seq(Byte)
      BY <3>1, SubSeqProperties
    <3>3. Len(SubSeq(F, x, y)) = IF x <= y THEN y - x + 1 ELSE 0
      BY <3>1, SubSeqProperties
    <3>4. \A j \in 1 .. y - x + 1 : SubSeq(F, x, y)[j] = F[x+j-1]
      BY <3>1, SubSeqProperties
    <3> QED
      BY <3>2, <3>3, <3>4
  <2>4. /\ (i+Len(p)) - (i+1) + 1 = Len(p)
        /\ (IF i+1 <= i+Len(p) THEN (i+Len(p)) - (i+1) + 1 ELSE 0) = Len(p)
        /\ \A j \in 1 .. Len(p) : (i+1)+j-1 = i+j
    BY <1>2, <1>9
  <2>5. \A j \in 1 .. Len(p) : SubSeq(F, i+1, i+Len(p))[j] = p[j]
    BY <1>10, <2>3, <2>4
  <2>6. Len(SubSeq(F, i+1, i+Len(p))) = Len(p)
    BY <2>3, <2>4
  <2> QED
    BY <2>3, <2>5, <2>6, SeqEqual
<1> QED
  BY <1>9, <1>11 DEF Infix, F

\* The clients whose lines have been written.
Wrote == {w \in Threads : Phase(w) # "asking" /\ ~IsSeek(Request(w))}

\* As many lines may follow the line of a client that waits for its answer as other clients
\* have written one; who has been answered has been sent its line.
Own(w) ==
  IF Phase(w) = "applied"
  THEN \E k \in 1 .. Len(KeptLines) : /\ Ends(KeptLines[k], Request(w))
                                      /\ Len(KeptLines) - k < Cardinality(Wrote)
  ELSE Infix(Request(w), Reply(w))

OwnInv ==
  /\ KeptLines \in Seq(Seq(Byte)) /\ Len(KeptLines) <= MAX
  /\ KeptRest \in Seq(Byte) /\ Newline \notin Range(KeptRest)
  /\ \A w \in Wrote : Phase(w) = "applied" => From(w) = 0
  /\ Cardinality(Wrote) <= MAX => \A w \in Wrote : Trails(Request(w)) \/ Own(w)

\* The steps of the line server, as they are seen.
LEMMA ApplySeen ==
  ASSUME NEW w \in Threads, Promise!Apply(w)
  PROVE  /\ \A u \in Threads \ {w} : ViewStays(u)
         /\ Phase(w) = "asking" /\ Phase(w)' = "applied"
         /\ IF IsSeek(Request(w)')
            THEN KeptStay
            ELSE /\ KeptLines' = S!Latest(KeptLines \o S!Cut(KeptRest \o Request(w)'))
                 /\ KeptRest'  = S!Unended(KeptRest \o Request(w)')
                 /\ From(w)' = From(w)
<1> DEFINE phase   == [u \in Threads |-> Phase(u)]
           request == [u \in Threads |-> Request(u)]
           from    == [u \in Threads |-> From(u)]
           answer  == [u \in Threads |-> Reply(u)]
<1>1. PICK p \in Payloads :
        /\ phase[w] = "asking" /\ phase' = [phase EXCEPT ![w] = "applied"]
        /\ request' = [request EXCEPT ![w] = p]
        /\ IF IsSeek(p)
           THEN /\ from' = [from EXCEPT ![w] = Promise!Before(SeekTarget(p))]
                /\ UNCHANGED <<KeptLines, KeptRest>>
           ELSE /\ KeptLines' = Promise!Latest(KeptLines \o Promise!Cut(KeptRest \o p))
                /\ KeptRest'  = Promise!Unended(KeptRest \o p)
                /\ UNCHANGED from
        /\ UNCHANGED answer
  BY DEF Promise!Apply, Request, From, Reply, KeptLines, KeptRest
<1>2. Phase(w) = "asking" /\ \A u \in Threads : Phase(u)' = IF u = w THEN "applied" ELSE Phase(u)
  <2>1. \A u \in Threads : phase'[u] = [phase EXCEPT ![w] = "applied"][u]
    BY <1>1
  <2> QED
    BY <1>1, <2>1
<1>3. \A u \in Threads : Request(u)' = IF u = w THEN p ELSE Request(u)
  <2>1. \A u \in Threads : request'[u] = [request EXCEPT ![w] = p][u]
    BY <1>1
  <2> QED
    BY <2>1
<1>4. \A u \in Threads : Reply(u)' = Reply(u)
  <2>1. \A u \in Threads : answer'[u] = answer[u]
    BY <1>1
  <2> QED
    BY <2>1
<1>5. \A u \in Threads : (u # w \/ ~IsSeek(p)) => From(u)' = From(u)
  <2>1. \A u \in Threads : (u # w \/ ~IsSeek(p)) => from'[u] = from[u]
    BY <1>1
  <2> QED
    BY <2>1
<1>6. \A u \in Threads \ {w} : ViewStays(u)
  BY <1>2, <1>3, <1>4, <1>5 DEF ViewStays
<1>7. Request(w)' = p /\ Phase(w)' = "applied"
  BY <1>2, <1>3
<1>8. CASE IsSeek(p)
  BY <1>1, <1>2, <1>6, <1>7, <1>8 DEF KeptStay
<1>9. CASE ~IsSeek(p)
  BY <1>1, <1>2, <1>5, <1>6, <1>7, <1>9, SameOperators
<1> QED
  BY <1>8, <1>9

LEMMA AnswerSeen ==
  ASSUME NEW w \in Threads, Promise!Answer(w)
  PROVE  /\ \A u \in Threads \ {w} : ViewStays(u)
         /\ Phase(w) = "applied" /\ Phase(w)' = "answered" /\ Request(w)' = Request(w) /\ KeptStay
         /\ Reply(w)' = SubSeq(FlattenSeq(KeptLines), From(w) + 1, Len(FlattenSeq(KeptLines)))
<1> DEFINE phase   == [u \in Threads |-> Phase(u)]
           request == [u \in Threads |-> Request(u)]
           from    == [u \in Threads |-> From(u)]
           answer  == [u \in Threads |-> Reply(u)]
           stream  == FlattenSeq(KeptLines)
<1>1. /\ phase[w] = "applied" /\ phase' = [phase EXCEPT ![w] = "answered"]
      /\ answer' = [answer EXCEPT ![w] = SubSeq(stream, from[w] + 1, Len(stream))]
      /\ from' = [from EXCEPT ![w] = 0]
      /\ UNCHANGED <<KeptLines, KeptRest, request>>
  BY SameOperators DEF Promise!Answer, Request, From, Reply, KeptLines, KeptRest
<1>2. Phase(w) = "applied" /\ \A u \in Threads : Phase(u)' = IF u = w THEN "answered" ELSE Phase(u)
  <2>1. \A u \in Threads : phase'[u] = [phase EXCEPT ![w] = "answered"][u]
    BY <1>1
  <2> QED
    BY <1>1, <2>1
<1>3. \A u \in Threads : Request(u)' = Request(u)
  <2>1. \A u \in Threads : request'[u] = request[u]
    BY <1>1
  <2> QED
    BY <2>1
<1>4. \A u \in Threads : Reply(u)' = IF u = w THEN SubSeq(stream, From(w) + 1, Len(stream)) ELSE Reply(u)
  <2>1. \A u \in Threads : answer'[u] = [answer EXCEPT ![w] = SubSeq(stream, from[w] + 1, Len(stream))][u]
    BY <1>1
  <2> QED
    BY <2>1
<1>5. \A u \in Threads \ {w} : From(u)' = From(u)
  <2>1. \A u \in Threads \ {w} : from'[u] = from[u]
    BY <1>1
  <2> QED
    BY <2>1
<1> QED
  BY <1>1, <1>2, <1>3, <1>4, <1>5 DEF ViewStays, KeptStay

\* Every packet is of one line when nothing that is received has two.
LEMMA SingleNext ==
  ASSUME \A c \in Chunks : Single(c), PacketInv, \A w \in Threads : Single(packet[w]),
         [WNext]_allvars
  PROVE  \A w \in Threads : Single(packet[w])'
<1>1. ASSUME NEW w \in Threads, NEW c \in Chunks, Recv(w, c)
      PROVE  \A u \in Threads : Single(packet[u])'
  <2>1. /\ ~IsPacket(packet[w]) /\ packet' = [packet EXCEPT ![w] = packet[w] \o c]
        /\ packet \in [Threads -> Seq(Byte)]
    BY <1>1, RecvLeads DEF PacketInv
  <2> DEFINE p == packet[w]
  <2>2. p \in Seq(Byte) /\ c \in Seq(Byte)
    BY <2>1, WorkerAssumption
  <2>3. \A i \in 1 .. Len(p) : p[i] # Newline
    BY <2>1 DEF IsPacket, Range
  <2> HIDE DEF p
  <2>4. /\ Len(p \o c) = Len(p) + Len(c)
        /\ \A i \in 1 .. Len(p) + Len(c) : (p \o c)[i] = IF i <= Len(p) THEN p[i] ELSE c[i - Len(p)]
    BY <2>2, ConcatProperties
  <2>5. Len(p) \in Nat /\ Len(c) \in Nat
    BY <2>2
  <2>6. ASSUME NEW i \in 1 .. Len(p \o c), (p \o c)[i] = Newline
        PROVE  i - Len(p) \in 1 .. Len(c) /\ c[i - Len(p)] = Newline
    <3>1. ~(i <= Len(p))
      <4>1. i <= Len(p) => i \in 1 .. Len(p) /\ (p \o c)[i] = p[i]
        BY <2>4, <2>5
      <4> QED
        BY <2>3, <2>6, <4>1
    <3> QED
      BY <2>4, <2>5, <2>6, <3>1
  <2>7. Single(p \o c)
    <3> SUFFICES ASSUME NEW i \in 1 .. Len(p \o c), NEW j \in 1 .. Len(p \o c),
                        (p \o c)[i] = Newline, (p \o c)[j] = Newline
                 PROVE  i = j
      BY DEF Single
    <3>1. Single(c)
      OBVIOUS
    <3>2. i - Len(p) = j - Len(p)
      BY <2>6, <3>1 DEF Single
    <3>3. i \in Nat /\ j \in Nat
      BY <2>4, <2>5
    <3> QED
      BY <2>5, <3>2, <3>3
  <2>8. Single(packet[w])'
    <3>1. packet'[w] = p \o c
      BY <2>1 DEF p
    <3> QED
      BY <2>7, <3>1 DEF Single
  <2>9. ASSUME NEW u \in Threads \ {w} PROVE Single(packet[u])'
    <3>1. packet'[u] = packet[u] /\ Single(packet[u])
      BY <2>1
    <3> QED
      BY <3>1 DEF Single
  <2> QED
    BY <2>8, <2>9
<1>2. CASE UNCHANGED packet
  BY <1>2 DEF Single
<1>3. CASE ~\E w \in Threads, c \in Chunks : Recv(w, c)
  BY <1>2, <1>3 DEF WNext, AllDone, allvars, server, Signal, Receive, RecvError, ReallocFails,
       Acquire, LockIO, LockStream, LockMutex, UnlockMutex, SetMutex, Serve, OpenDevice, Continue,
       SeekOrWrite, UnlockIO, ReadMore, Send, UnlockStream, CloseDevice, WMove, Device
<1> QED
  BY <1>1, <1>3

\* One more line written.
LEMMA OwnApply ==
  ASSUME IsFiniteSet(Threads), OwnInv, NEW w \in Threads, Promise!Apply(w),
         ~IsSeek(Request(w)'), Request(w)' \in Seq(Byte), IsPacket(Request(w)'), Single(Request(w)'),
         From(w) = 0
  PROVE  OwnInv'
<1> DEFINE p == Request(w)'
           x == S!Latest(KeptLines \o S!Cut(KeptRest \o p))
<1>1. /\ \A u \in Threads \ {w} : ViewStays(u)
      /\ Phase(w) = "asking" /\ Phase(w)' = "applied"
      /\ KeptLines' = x /\ KeptRest' = S!Unended(KeptRest \o p) /\ From(w)' = From(w)
  BY ApplySeen
<1>2. Wrote' = Wrote \cup {w} /\ w \notin Wrote /\ Wrote \subseteq Threads
  BY <1>1 DEF Wrote, ViewStays
<1>3. /\ Cardinality(Wrote)' = Cardinality(Wrote) + 1 /\ Cardinality(Wrote) \in Nat
  <2>1. IsFiniteSet(Wrote)
    BY <1>2, FS_Subset
  <2> QED
    BY <1>2, <2>1, FS_AddElement, FS_CardinalityType
<1>4. /\ S!Unended(KeptRest \o p) \in Seq(Byte) /\ Newline \notin Range(S!Unended(KeptRest \o p))
      /\ \E l \in Seq(Byte) : S!Cut(KeptRest \o p) = <<l>> /\ (~Trails(p) => Ends(l, p))
  BY LineAppended DEF OwnInv
<1>5. PICK l \in Seq(Byte) : S!Cut(KeptRest \o p) = <<l>> /\ (~Trails(p) => Ends(l, p))
  BY <1>4
<1>6. x \in Seq(Seq(Byte)) /\ Len(x) \in 1 .. MAX /\ x[Len(x)] = l /\ OneFurther(KeptLines, x)
  <2>1. KeptLines \in Seq(Seq(Byte)) /\ Len(KeptLines) <= MAX
    BY DEF OwnInv
  <2> DEFINE y == S!Latest(KeptLines \o <<l>>)
  <2>2. y \in Seq(Seq(Byte)) /\ Len(y) \in 1 .. MAX /\ y[Len(y)] = l /\ OneFurther(KeptLines, y)
    BY <2>1, LatestMore
  <2>3. x = y
    BY <1>5
  <2> HIDE DEF x, y
  <2> QED
    BY <2>2, <2>3
<1>7. \A u \in Wrote' : Phase(u)' = "applied" => From(u)' = 0
  BY <1>1, <1>2 DEF ViewStays, OwnInv
<1> DEFINE n == Cardinality(Wrote)
<1>8. ASSUME Cardinality(Wrote)' <= MAX, NEW u \in Wrote PROVE Trails(Request(u)') \/ Own(u)'
  <2>1. /\ Phase(u)' = Phase(u) /\ Request(u)' = Request(u) /\ Reply(u)' = Reply(u)
    BY <1>1, <1>2 DEF ViewStays
  <2>2. n \in Nat /\ n + 1 <= MAX /\ MAX \in Nat
    BY <1>3, <1>8, CapacityAssumption
  <2>3. n <= MAX
    BY <2>2
  <2>4. CASE Trails(Request(u))
    BY <2>1, <2>4
  <2>5. CASE ~Trails(Request(u))
    <3>1. Own(u)
      BY <2>3, <2>5 DEF OwnInv
    <3>2. CASE Phase(u) # "applied"
      BY <2>1, <3>1, <3>2 DEF Own
    <3>3. CASE Phase(u) = "applied"
      <4>1. PICK k \in 1 .. Len(KeptLines) : Ends(KeptLines[k], Request(u)) /\ Len(KeptLines) - k < n
        BY <3>1, <3>3 DEF Own
      <4>2. Len(KeptLines) \in Nat
        BY DEF OwnInv
      <4> HIDE DEF n, x
      <4>3. (Len(KeptLines) - k) + 1 < MAX /\ (Len(KeptLines) - k) + 1 < n + 1
        BY <2>2, <4>1, <4>2
      <4>4. PICK m \in 1 .. Len(x) : x[m] = KeptLines[k] /\ Len(x) - m = (Len(KeptLines) - k) + 1
        BY <1>6, <4>1, <4>3 DEF OneFurther
      <4>5. Ends(x[m], Request(u)) /\ Len(x) - m < Cardinality(Wrote)'
        BY <1>3, <4>1, <4>3, <4>4 DEF n
      <4>6. \E j \in 1 .. Len(KeptLines') : /\ Ends(KeptLines'[j], Request(u)')
                                            /\ Len(KeptLines') - j < Cardinality(Wrote)'
        BY <1>1, <2>1, <4>4, <4>5
      <4> QED
        BY <2>1, <3>3, <4>6 DEF Own, Ends
    <3> QED
      BY <3>2, <3>3
  <2> QED
    BY <2>4, <2>5
<1>9. Trails(Request(w)') \/ Own(w)'
  <2>1. ASSUME ~Trails(p) PROVE Own(w)'
    <3>1. Len(x) \in 1 .. Len(x) /\ Len(x) - Len(x) < n + 1
      <4> HIDE DEF x, n
      <4>1. n \in Nat /\ Len(x) \in Nat /\ Len(x) > 0
        BY <1>3, <1>6 DEF n
      <4> QED
        BY <4>1
    <3>2. Ends(x[Len(x)], p)
      BY <1>5, <1>6, <2>1
    <3> HIDE DEF x
    <3>3. \E j \in 1 .. Len(KeptLines') : /\ Ends(KeptLines'[j], Request(w)')
                                          /\ Len(KeptLines') - j < Cardinality(Wrote)'
      BY <1>1, <1>3, <3>1, <3>2
    <3> QED
      BY <1>1, <3>3 DEF Own, Ends
  <2> QED
    BY <2>1
<1>10. KeptLines' \in Seq(Seq(Byte)) /\ Len(KeptLines') <= MAX
  <2>1. Len(x) <= MAX
    BY <1>6, CapacityAssumption
  <2> QED
    BY <1>1, <1>6, <2>1
<1> QED
  BY <1>1, <1>2, <1>4, <1>7, <1>8, <1>9, <1>10 DEF OwnInv

\* A step that changes no line and nothing of who has written.
LEMMA OwnKept ==
  ASSUME OwnInv, Wrote' = Wrote, KeptStay, \A w \in Wrote : ViewStays(w)
  PROVE  OwnInv'
<1>1. ASSUME NEW w \in Wrote, Own(w) PROVE Own(w)'
  BY <1>1 DEF Own, ViewStays, KeptStay, Ends
<1>2. ASSUME NEW w \in Wrote, Trails(Request(w)) PROVE Trails(Request(w)')
  BY <1>2 DEF ViewStays
<1>3. Cardinality(Wrote)' <= MAX => \A w \in Wrote' : Trails(Request(w)') \/ Own(w)'
  BY <1>1, <1>2 DEF OwnInv
<1>4. \A w \in Wrote' : Phase(w)' = "applied" => From(w)' = 0
  BY DEF OwnInv, ViewStays
<1> QED
  BY <1>3, <1>4 DEF OwnInv, KeptStay

\* The answer has the line.
LEMMA OwnAnswer ==
  ASSUME OwnInv, NEW w \in Threads, Promise!Answer(w), Request(w) \in Seq(Byte)
  PROVE  OwnInv'
<1>1. /\ \A u \in Threads \ {w} : ViewStays(u)
      /\ Phase(w) = "applied" /\ Phase(w)' = "answered" /\ Request(w)' = Request(w) /\ KeptStay
      /\ Reply(w)' = SubSeq(FlattenSeq(KeptLines), From(w) + 1, Len(FlattenSeq(KeptLines)))
  BY AnswerSeen
<1>2. Wrote' = Wrote
  BY <1>1 DEF Wrote, ViewStays
<1>3. \A u \in Wrote' : Phase(u)' = "applied" => From(u)' = 0
  BY <1>1, <1>2 DEF OwnInv, ViewStays, Wrote
<1>4. ASSUME NEW u \in Wrote, Own(u), u # w PROVE Own(u)'
  <2>1. ViewStays(u)
    BY <1>1, <1>4 DEF Wrote
  <2> QED
    BY <1>1, <1>2, <1>4, <2>1 DEF Own, ViewStays, KeptStay, Ends
<1>5. ASSUME w \in Wrote, Own(w) PROVE Own(w)'
  <2>1. PICK k \in 1 .. Len(KeptLines) : Ends(KeptLines[k], Request(w))
    BY <1>1, <1>5 DEF Own
  <2>2. KeptLines \in Seq(Seq(Byte))
    BY DEF OwnInv
  <2> DEFINE F == FlattenSeq(KeptLines)
  <2>3. Infix(Request(w), F)
    BY <2>1, <2>2, LineInStream
  <2>4. Reply(w)' = F
    <3>1. From(w) = 0
      BY <1>1, <1>5 DEF OwnInv
    <3>2. F \in Seq(Byte)
      BY <2>2, FlattenBytes
    <3> HIDE DEF F
    <3>3. SubSeq(F, 1, Len(F)) = F
      BY <3>2, SubSeqFull
    <3>4. Reply(w)' = SubSeq(F, 0+1, Len(F))
      BY <1>1, <3>1 DEF F
    <3> QED
      BY <3>3, <3>4
  <2> QED
    BY <1>1, <2>3, <2>4 DEF Own, Infix
<1>6. Cardinality(Wrote)' <= MAX => \A u \in Wrote' : Trails(Request(u)') \/ Own(u)'
  <2> SUFFICES ASSUME Cardinality(Wrote) <= MAX, NEW u \in Wrote PROVE Trails(Request(u)') \/ Own(u)'
    BY <1>2
  <2>1. Trails(Request(u)) \/ Own(u)
    BY DEF OwnInv
  <2>2. Request(u)' = Request(u)
    BY <1>1 DEF ViewStays, Wrote
  <2> QED
    BY <1>4, <1>5, <2>1, <2>2
<1> QED
  BY <1>1, <1>3, <1>6 DEF OwnInv, KeptStay

LEMMA OwnNext ==
  ASSUME NothingFails, IsFiniteSet(Threads), ServerInv, ServerInv', OwnInv,
         \A w \in Threads : Single(packet[w])', [WNext]_allvars
  PROVE  OwnInv'
<1>1. CASE (\A w \in Threads : ViewStays(w)) /\ KeptStay
  <2>1. Wrote' = Wrote /\ Wrote \subseteq Threads
    BY <1>1 DEF Wrote, ViewStays
  <2> QED
    BY <1>1, <2>1, OwnKept
<1>2. ASSUME NEW w \in Threads, Promise!Apply(w) PROVE OwnInv'
  <2>1. /\ \A u \in Threads \ {w} : ViewStays(u)
        /\ Phase(w) = "asking" /\ Phase(w)' = "applied"
        /\ IsSeek(Request(w)') => KeptStay
    BY <1>2, ApplySeen
  <2>2. CASE IsSeek(Request(w)')
    <3>1. Wrote' = Wrote /\ Wrote \subseteq Threads \ {w}
      BY <2>1, <2>2 DEF Wrote, ViewStays
    <3> QED
      BY <2>1, <2>2, <3>1, OwnKept
  <2>3. CASE ~IsSeek(Request(w)')
    <3>1. Request(w)' = packet'[w]
      BY <2>1 DEF Request
    <3>2. packet'[w] \in Seq(Byte)
      BY DEF ServerInv, Sane, ServerTyped
    <3>3. IsPacket(packet'[w])
      <4>1. Applied(w)'
        BY <2>1 DEF Phase
      <4> QED
        BY <4>1 DEF Applied, ServerInv, PacketInv, FlagInv, Clean, HasRead, IsPacket
    <3>4. Single(packet'[w])
      BY DEF Single
    <3>5. From(w) = 0
      BY <2>1 DEF Phase, From
    <3> QED
      BY <1>2, <2>3, <3>1, <3>2, <3>3, <3>4, <3>5, OwnApply
  <2> QED
    BY <2>2, <2>3
<1>3. ASSUME NEW w \in Threads, Promise!Answer(w) PROVE OwnInv'
  <2>1. Request(w) \in Seq(Byte)
    <3>1. packet[w] \in Seq(Byte)
      BY DEF ServerInv, Sane, ServerTyped
    <3> QED
      BY <3>1, NoBytes DEF Request
  <2> QED
    BY <1>3, <2>1, OwnAnswer
<1> QED
  BY <1>1, <1>2, <1>3, ServerStepSeen DEF Promise!Next

LEMMA OwnInit ==
  ASSUME NothingFails, WInit
  PROVE  OwnInv /\ \A w \in Threads : Single(packet[w])
<1>1. MemInv /\ loaded /\ Lines = << >> /\ Rest = << >>
  BY ServerInvInit DEF ServerInv, Sane
<1>2. KeptLines = << >> /\ KeptRest = << >>
  <2>1. Newline \notin Range(Rest)
    BY <1>1 DEF Range
  <2> QED
    BY <1>1, <2>1, NothingDue
<1>3. Wrote = {}
  BY DEF WInit, Wrote, Phase, Applied, Answered
<1>4. << >> \in Seq(Seq(Byte)) /\ Len(<< >>) <= MAX
  BY CapacityAssumption
<1>5. OwnInv
  BY <1>2, <1>3, <1>4, NoBytes DEF OwnInv, Range
<1>6. \A w \in Threads : Single(packet[w])
  BY DEF WInit, Single
<1> QED
  BY <1>5, <1>6

\* While nothing fails, and as long as no more clients have sent lines than the device
\* keeps: a client that has sent one line is answered with that line in the answer, since
\* the lines written between its write and its read of the device (the two critical
\* sections of data_processing, server/socket.c) are those of the other clients, one each.
THEOREM OwnLinesReturned ==
  ASSUME NothingFails, IsFiniteSet(Threads), \A c \in Chunks : Single(c)
  PROVE  WSpec => []OwnLineReturned
<1> DEFINE Singles == \A w \in Threads : Single(packet[w])
           IInv    == ServerInv /\ OwnInv /\ Singles
<1>1. WInit => IInv
  BY ServerInvInit, OwnInit
<1>2. IInv /\ [WNext]_allvars => IInv'
  <2> SUFFICES ASSUME IInv, [WNext]_allvars PROVE IInv'
    OBVIOUS
  <2>1. ServerInv'
    BY ServerInvNext
  <2>2. \A w \in Threads : Single(packet[w])'
    BY SingleNext DEF ServerInv
  <2>3. OwnInv'
    BY <2>1, <2>2, OwnNext
  <2> QED
    BY <2>1, <2>2, <2>3
<1>3. IInv => OwnLineReturned
  <2> DEFINE A == {w \in Threads : IsPacket(packet[w]) /\ ~IsSeek(packet[w])}
  <2> SUFFICES ASSUME IInv, Cardinality(A) <= MAX, NEW w \in Threads, wpc[w] \in {"close", "done"},
                      IsPacket(packet[w]), ~Trails(packet[w]), ~IsSeek(packet[w])
               PROVE  Infix(packet[w], reply[w])
    BY DEF OwnLineReturned
  <2>1. /\ Phase(w) = "answered" /\ Request(w) = packet[w] /\ Reply(w) = reply[w]
    BY DEF Phase, Applied, Answered, Request, Reply
  <2>2. Wrote \subseteq A
    <3> SUFFICES ASSUME NEW u \in Threads, Phase(u) # "asking", ~IsSeek(packet[u])
                 PROVE  IsPacket(packet[u])
      BY DEF Wrote, Request
    <3>1. CASE Answered(u)
      BY <3>1 DEF Answered
    <3>2. CASE Applied(u)
      BY <3>2 DEF Applied, ServerInv, PacketInv, FlagInv, Clean, HasRead
    <3> QED
      BY <3>1, <3>2 DEF Phase
  <2>3. Cardinality(Wrote) <= MAX
    <3>1. IsFiniteSet(A)
      <4>1. A \subseteq Threads
        OBVIOUS
      <4> HIDE DEF A
      <4> QED
        BY <4>1, FS_Subset
    <3> HIDE DEF A
    <3>2. /\ IsFiniteSet(Wrote) /\ Cardinality(Wrote) <= Cardinality(A)
      BY <2>2, <3>1, FS_Subset
    <3>3. Cardinality(Wrote) \in Nat /\ Cardinality(A) \in Nat /\ MAX \in Nat
      BY <3>1, <3>2, FS_CardinalityType, CapacityAssumption
    <3> QED
      BY <3>2, <3>3
  <2>4. w \in Wrote
    BY <2>1 DEF Wrote
  <2>5. Own(w)
    BY <2>1, <2>3, <2>4 DEF OwnInv
  <2> QED
    BY <2>1, <2>5 DEF Own
<1> QED
  <2> HIDE DEF IInv
  <2> QED
    BY <1>1, <1>2, <1>3, PTL DEF WSpec
=============================================================================
