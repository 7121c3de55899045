--------------------------- MODULE CircularBuffer ---------------------------
(***************************************************************************)
(* The data structure of aesd-char-driver/aesd-circular-buffer.[ch]: an    *)
(* array of MAX slots, a slot to write next (in_offs), a slot to read      *)
(* first (out_offs) and a full flag that tells "empty" from "wrapped",     *)
(* since the offsets are equal in both.  The functions are pure: "any      *)
(* necessary locking must be handled by the caller", so a call is an       *)
(* operator from a buffer to a buffer (or to a result).                    *)
(***************************************************************************)
EXTENDS Integers, Sequences

CONSTANTS MAX,      \* AESDCHAR_MAX_WRITE_OPERATIONS_SUPPORTED
          Blocks,   \* the memory blocks a buffptr may point to
          NULL      \* the null pointer

\* in_offs and out_offs are uint8_t, and must be able to hold MAX - 1.
ASSUME CapacityAssumption == MAX \in 1..256
ASSUME NullAssumption     == NULL \notin Blocks

Slot    == 0 .. MAX-1
Entry   == [buffptr : Blocks, size : Nat]
NoEntry == [buffptr |-> NULL, size |-> 0]        \* a zeroed slot

Buffer == [entry    : [Slot -> Entry \cup {NoEntry}],
           in_offs  : Slot,
           out_offs : Slot,
           full     : BOOLEAN]

\* aesd_circular_buffer_init: everything is zeroed.
EmptyBuffer == [entry    |-> [i \in Slot |-> NoEntry],
                in_offs  |-> 0,
                out_offs |-> 0,
                full     |-> FALSE]

\* The slot n places after slot i.
After(i, n) == (i + n) % MAX

\* A fault of aesd_circular_buffer_add_entry: out_offs stays when the oldest entry
\* is overwritten.
AddEntryKeepsOut(b, e) ==
  LET in == After(b.in_offs, 1)
  IN  [b EXCEPT !.entry[b.in_offs] = e, !.in_offs = in, !.full = in = b.out_offs]

\* aesd_circular_buffer_add_entry: overwrite the slot at in_offs, advance,
\* and when the buffer was full let the oldest entry go.
AddEntry(b, e) ==
  LET in  == After(b.in_offs, 1)
      out == IF b.full THEN After(b.out_offs, 1) ELSE b.out_offs
  IN  [entry    |-> [b.entry EXCEPT ![b.in_offs] = e],
       in_offs  |-> in,
       out_offs |-> out,
       full     |-> in = out]

\* The blocks that AddEntry hands to kfree (in the kernel build); a fault: none.
EvictedNever(b) == {}

Evicted(b) == IF b.full THEN {b.entry[b.in_offs].buffptr} \ {NULL} ELSE {}

\* aesd_circular_buffer_find_entry_offset_for_fpos.  The loop visits the
\* slots from out_offs on and stops at in_offs unless the buffer is full;
\* before[i] is its total_size when iteration i begins, and a NULL slot
\* adds nothing.
NotFound == [slot |-> MAX, offset |-> 0]

\* Whether the byte is in the entry whose bytes begin at `before`; a fault: one
\* byte too far.
CoversEnd(char_offset, before, size) == char_offset <= before + size

Covers(char_offset, before, size) == char_offset < before + size

FindEntry(b, char_offset) ==
  LET slot(i)    == After(b.out_offs, i)
      present(i) == b.entry[slot(i)].buffptr # NULL
      size(i)    == IF present(i) THEN b.entry[slot(i)].size ELSE 0
      before[i \in 0..MAX] == IF i = 0 THEN 0 ELSE before[i-1] + size(i-1)
      stopped(i) == ~b.full /\ \E j \in 1..i : slot(j) = b.in_offs
      hit(i)     == /\ ~stopped(i)
                    /\ present(i)
                    /\ Covers(char_offset, before[i], size(i))
      hits       == {i \in Slot : hit(i)}
  IN  IF hits = {} THEN NotFound
      ELSE LET i == CHOOSE h \in hits : \A k \in hits : h <= k
           IN  [slot |-> slot(i), offset |-> char_offset - before[i]]

-----------------------------------------------------------------------------
(* The buffer seen as the sequence of its entries, oldest first.           *)

Count(b) == IF b.full THEN MAX ELSE b.in_offs

Contents(b) == [k \in 1 .. Count(b) |-> b.entry[After(b.out_offs, k-1)]]
=============================================================================
