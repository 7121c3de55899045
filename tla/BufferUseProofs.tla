--------------------------- MODULE BufferUseProofs ---------------------------
(***************************************************************************)
(* Proofs about the circular buffer, for every capacity and every set of   *)
(* entries: its shape, that it implements the log of recent entries, and   *)
(* that every byte of them is found.                                       *)
(***************************************************************************)
EXTENDS BufferUse, CircularBufferProofs

\* A buffer of the right type whose occupied slots are where Shape says.
BufferOK == TypeOK /\ Shape

LEMMA ShapeOfBuffer == BufferOK <=> buffer \in Buffer /\ WellShaped(buffer)
BY DEF BufferOK, TypeOK, Shape, WellShaped

LEMMA AddKeepsBuffer ==
  ASSUME BufferOK, NEW e \in Entries, Add(e)
  PROVE  BufferOK'
<1>1. buffer \in Buffer /\ WellShaped(buffer) /\ e \in Entry
  BY EntriesAssumption, ShapeOfBuffer
<1>2. buffer' \in Buffer /\ WellShaped(buffer')
  BY <1>1, AddKeepsShape DEF Add
<1> QED
  BY <1>2 DEF BufferOK, TypeOK, Shape, WellShaped

\* In every reachable state the buffer is well typed and its occupied slots are
\* the ones its offsets and its full flag say.
THEOREM BufferShape == Spec => [](TypeOK /\ Shape)
<1>1. Init => BufferOK
  BY EmptyShape, ShapeOfBuffer DEF Init
<1>2. BufferOK /\ [Next]_buffer => BufferOK'
  <2> SUFFICES ASSUME BufferOK, [Next]_buffer PROVE BufferOK'
    OBVIOUS
  <2>1. CASE UNCHANGED buffer
    BY <2>1 DEF BufferOK, TypeOK, Shape
  <2>2. CASE Next
    BY <2>2, AddKeepsBuffer DEF Next
  <2> QED
    BY <2>1, <2>2
<1>3. BufferOK => TypeOK /\ Shape
  BY DEF BufferOK
<1> QED
  BY <1>1, <1>2, <1>3, PTL DEF Spec

-----------------------------------------------------------------------------
(* The refinement: AddEntry on slots is Remember on the log.               *)

\* The circular buffer implements the log of the MAX most recent entries.
THEOREM BufferImplementsLog == Spec => ImplementsLog
<1>1. Init => Log!Init
  BY EmptyShape DEF Init, Log!Init
<1>2. BufferOK /\ [Next]_buffer => [Log!Next]_(Contents(buffer))
  <2> SUFFICES ASSUME BufferOK, [Next]_buffer
               PROVE  [Log!Next]_(Contents(buffer))
    OBVIOUS
  <2>1. CASE UNCHANGED buffer
    BY <2>1 DEF Contents, Count
  <2>2. ASSUME NEW e \in Entries, Add(e)
        PROVE  Log!Next
    <3>1. Contents(buffer') = Log!Remember(Contents(buffer), e)
      BY <2>2, EntriesAssumption, ShapeOfBuffer, AddRemembers DEF Add, Log!Remember
    <3> QED
      BY <3>1 DEF Log!Next
  <2> QED
    BY <2>1, <2>2 DEF Next
<1>3. BufferOK <=> TypeOK /\ Shape
  BY DEF BufferOK
<1> QED
  BY <1>1, <1>2, <1>3, BufferShape, PTL DEF Spec, ImplementsLog, Log!Spec

-----------------------------------------------------------------------------
(* find_entry: where the bytes of the entries are when put end to end.     *)

Places == [slot : Slot, offset : Nat]

\* The places of the bytes of each entry, and where they start.
EntryPlaces(b) == [k \in 1 .. Count(b) |->
                     [o \in 1 .. Contents(b)[k].size |->
                        [slot |-> After(b.out_offs, k-1), offset |-> o-1]]]

LEMMA PlacesOfEntries ==
  ASSUME NEW b \in Buffer, WellShaped(b)
  PROVE  /\ EntryPlaces(b) \in Seq(Seq(Places)) /\ Len(EntryPlaces(b)) = Count(b)
         /\ Sizes(EntryPlaces(b)) = EntrySize(b)
<1>1. /\ Contents(b) \in Seq(Entry) /\ Len(Contents(b)) = Count(b)
      /\ Count(b) \in 0 .. MAX /\ MAX \in Nat
      /\ \A k \in 1 .. Count(b) : Contents(b)[k] = b.entry[After(b.out_offs, k-1)]
  BY ContentsSeq, ContentsEntries, CapacityAssumption
<1>2. ASSUME NEW k \in 1 .. Count(b)
      PROVE  /\ EntryPlaces(b)[k] \in Seq(Places)
             /\ Len(EntryPlaces(b)[k]) = b.entry[After(b.out_offs, k-1)].size
  <2> DEFINE n == Contents(b)[k].size
             i == After(b.out_offs, k-1)
  <2>1. n \in Nat /\ n = b.entry[i].size
    <3>1. Contents(b)[k] \in Entry
      <4> HIDE DEF n, i
      <4> QED
        BY <1>1
    <3>2. Contents(b)[k] = b.entry[i]
      BY <1>1
    <3> QED
      BY <3>1, <3>2 DEF Entry
  <2>2. i \in Slot
    <3>1. k-1 \in 0 .. MAX /\ b.out_offs \in Slot
      BY <1>1 DEF Buffer
    <3> QED
      BY <3>1, AfterValue
  <2>3. EntryPlaces(b)[k] = [o \in 1 .. n |-> [slot |-> i, offset |-> o-1]]
    BY DEF EntryPlaces
  <2> HIDE DEF i, n
  <2>4. [o \in 1 .. n |-> [slot |-> i, offset |-> o-1]] \in [1 .. n -> Places]
    BY <2>1, <2>2 DEF Places
  <2>5. /\ EntryPlaces(b)[k] \in Seq(Places) /\ Len(EntryPlaces(b)[k]) = n
    <3> DEFINE g == [o \in 1 .. n |-> [slot |-> i, offset |-> o-1]]
    <3>1. g \in [1 .. n -> Places] /\ EntryPlaces(b)[k] = g
      BY <2>3, <2>4
    <3> HIDE DEF g
    <3> QED
      BY <2>1, <3>1
  <2> QED
    BY <2>1, <2>5 DEF i, n
<1>3. EntryPlaces(b) \in [1 .. Count(b) -> Seq(Places)]
  BY <1>2 DEF EntryPlaces
<1>4. EntryPlaces(b) \in Seq(Seq(Places)) /\ Len(EntryPlaces(b)) = Count(b)
  BY <1>1, <1>3
<1>5. ASSUME NEW i \in 0 .. Count(b)-1
      PROVE  Len(EntryPlaces(b)[i+1]) = b.entry[After(b.out_offs, i)].size
  <2>1. i+1 \in 1 .. Count(b) /\ (i+1)-1 = i
    BY <1>1
  <2> QED
    BY <1>2, <2>1
<1> QED
  BY <1>4, <1>5 DEF Sizes, EntrySize

\* Every byte position of the kept entries is found, in the slot and at the offset where
\* the byte is, and nothing is found past the last one
\* (aesd_circular_buffer_find_entry_offset_for_fpos).
THEOREM EveryByteFound == Spec => []FindsConcatenation
<1>1. BufferOK => FindsConcatenation
  <2> SUFFICES ASSUME BufferOK PROVE FindsConcatenation
    OBVIOUS
  <2> DEFINE b    == buffer
             seqs == EntryPlaces(b)
             cat  == FlattenSeq(seqs)
             N    == Count(b)
  <2>1. b \in Buffer /\ WellShaped(b)
    BY ShapeOfBuffer
  <2>2. Concatenation(b) = cat
    BY DEF Concatenation, EntryPlaces
  <2>3. seqs \in Seq(Seq(Places)) /\ Len(seqs) = N /\ Sizes(seqs) = EntrySize(b) /\ N \in Nat
    BY <2>1, PlacesOfEntries, ContentsSeq
  <2>4. PICK f : RunningSum(f, EntrySize(b), N)
    <3> HIDE DEF N
    <3>1. EntrySize(b) \in [0 .. N-1 -> Nat]
      BY <2>1, EntrySizeType DEF N
    <3> QED
      BY <2>3, <3>1, RunningSumExists
  <2>5. Starts(b, f) /\ RunningSum(f, Sizes(seqs), Len(seqs))
    BY <2>3, <2>4 DEF Starts
  <2>6. Len(cat) = f[N] /\ Len(cat) \in Nat
    <3>1. Flattened(cat, seqs, f, Len(seqs), Places)
      BY <2>3, <2>5, FlattenValue
    <3>2. cat \in Seq(Places) /\ Len(cat) = f[N]
      BY <2>3, <3>1 DEF Flattened
    <3> QED
      BY <3>2
  <2>7. ASSUME NEW off \in 0 .. Len(cat)+1
        PROVE  FindEntry(b, off) = IF off < Len(cat) THEN cat[off+1] ELSE NotFound
    <3>1. off \in Nat
      OBVIOUS
    <3>2. CASE off < Len(cat)
      <4>1. PICK k \in 1 .. N : /\ f[k-1] <= off /\ off < f[k]
                                /\ off - f[k-1] \in 0 .. Len(seqs[k])-1
                                /\ cat[off+1] = seqs[k][off - f[k-1] + 1]
        <5> HIDE DEF seqs, N
        <5>1. \E k \in 1 .. Len(seqs) : /\ f[k-1] <= off /\ off < f[k]
                                        /\ off - f[k-1] \in 0 .. Len(seqs[k])-1
                                        /\ cat[off+1] = seqs[k][off - f[k-1] + 1]
          <6>1. seqs \in Seq(Seq(Places)) /\ RunningSum(f, Sizes(seqs), Len(seqs))
            BY <2>3, <2>5
          <6>2. off < Len(FlattenSeq(seqs))
            BY <3>2
          <6>3. \E k \in 1 .. Len(seqs) : /\ f[k-1] <= off /\ off < f[k]
                                          /\ off - f[k-1] \in 0 .. Len(seqs[k])-1
                                          /\ FlattenSeq(seqs)[off+1] = seqs[k][off - f[k-1] + 1]
            BY <3>1, <6>1, <6>2, FlattenAt
          <6> QED
            BY <6>3
        <5> QED
          BY <2>3, <5>1
      <4>2. FindEntry(b, off) = [slot |-> After(b.out_offs, k-1), offset |-> off - f[k-1]]
        BY <2>1, <2>5, <3>1, <4>1, FindsEntry
      <4>3. off - f[k-1] + 1 \in 1 .. Contents(b)[k].size
        <5>1. Len(seqs[k]) = Contents(b)[k].size
          <6>1. k-1 \in 0 .. N-1 /\ (k-1)+1 = k
            BY <2>3
          <6>2. Sizes(seqs)[k-1] = Len(seqs[k])
            BY <2>3, <6>1 DEF Sizes
          <6>3. EntrySize(b)[k-1] = Contents(b)[k].size
            BY <2>1, <6>1, ContentsSeq DEF EntrySize
          <6> QED
            BY <2>3, <6>2, <6>3
        <5>2. Len(seqs[k]) \in Nat
          BY <2>3, <2>5, PieceFacts
        <5> DEFINE d == off - f[k-1]
        <5>3. d \in 0 .. Len(seqs[k])-1
          BY <4>1
        <5> HIDE DEF d, seqs
        <5>4. d + 1 \in 1 .. Contents(b)[k].size
          BY <5>1, <5>2, <5>3
        <5> QED
          BY <5>4 DEF d
      <4>4. seqs[k][off - f[k-1] + 1] = [slot |-> After(b.out_offs, k-1),
                                         offset |-> (off - f[k-1] + 1) - 1]
        BY <4>1, <4>3 DEF EntryPlaces
      <4>5. (off - f[k-1] + 1) - 1 = off - f[k-1]
        <5>1. off - f[k-1] \in Int
          BY <4>1, <2>3, <2>5, PieceFacts
        <5> DEFINE d == off - f[k-1]
        <5> HIDE DEF d
        <5>2. d \in Int => (d + 1) - 1 = d
          OBVIOUS
        <5> QED
          BY <5>1, <5>2 DEF d
      <4> QED
        BY <3>2, <4>1, <4>2, <4>4, <4>5
    <3>3. CASE ~(off < Len(cat))
      BY <2>1, <2>5, <2>6, <3>1, <3>3, FindsEntry
    <3> QED
      BY <3>2, <3>3
  <2> QED
    BY <2>2, <2>7 DEF FindsConcatenation
<1>2. BufferOK <=> TypeOK /\ Shape
  BY DEF BufferOK
<1> QED
  BY <1>1, <1>2, BufferShape, PTL
=============================================================================
