------------------------------ MODULE BufferUse ------------------------------
(***************************************************************************)
(* One owner that initialises a circular buffer and adds entries to it,    *)
(* as the char driver does; and what the buffer must then look like.       *)
(***************************************************************************)
EXTENDS CircularBuffer, SequencesExt

CONSTANT Entries                      \* the entries the owner adds
ASSUME EntriesAssumption == Entries \subseteq Entry

VARIABLE buffer

Init == buffer = EmptyBuffer

Add(e) == buffer' = AddEntry(buffer, e)

Next == \E e \in Entries : Add(e)

Spec == Init /\ [][Next]_buffer

-----------------------------------------------------------------------------
\* Every field of the buffer has its type; in particular the offsets never
\* leave the array.
TypeOK == buffer \in Buffer

\* The occupied slots are exactly the Count(buffer) slots from out_offs on,
\* and out_offs has not moved before the first time the buffer is full.
\* Callers rely on it: aesd_ioctl_set_pos takes in_offs for the number of
\* commands, and find_entry stops at in_offs.
Shape ==
  /\ ~buffer.full => buffer.out_offs = 0
  /\ buffer.full  => buffer.in_offs = buffer.out_offs
  /\ \A i \in Slot : (buffer.entry[i] # NoEntry) <=> (buffer.full \/ i < buffer.in_offs)

\* The buffer implements the log of the MAX most recent entries: what is read
\* from out_offs on is, in order, what was added last.
Log == INSTANCE RecentLog WITH Capacity <- MAX, Item <- Entries,
                               log <- Contents(buffer)
ImplementsLog == Log!Spec

\* The byte positions of all entries "concatenated end to end", in order, each
\* as the slot and the offset in it where the byte is stored.
Concatenation(b) ==
  FlattenSeq([k \in 1 .. Count(b) |->
                [o \in 1 .. Contents(b)[k].size |->
                   [slot |-> After(b.out_offs, k-1), offset |-> o-1]]])

\* find_entry returns, for every character offset, the slot and byte that the
\* offset has in the concatenation of the entries, and nothing past its end.
FindsConcatenation ==
  LET cat == Concatenation(buffer)
  IN  \A off \in 0 .. Len(cat)+1 :
        FindEntry(buffer, off) = IF off < Len(cat) THEN cat[off+1] ELSE NotFound
=============================================================================
