--------------------------- MODULE DriverProperties ---------------------------
(***************************************************************************)
(* What the driver must guarantee, whoever calls it.                       *)
(***************************************************************************)
EXTENDS AesdDriver

\* Every variable has its type.
TypeOK ==
  /\ lock    \in Threads \cup {NULL}
  /\ loaded => ring \in Buffer
  /\ partial \in Blocks \cup {NULL}
  /\ \A a \in Blocks : heap[a] = NULL \/ heap[a] \in Seq(Byte)
  /\ \A t \in Threads :
       /\ f_pos[t] = NULL \/ f_pos[t] \in Nat
       /\ op[t].pc \in Control /\ op[t].block \in Blocks \cup {NULL}
       /\ op[t].pos \in Nat /\ op[t].count \in Nat /\ op[t].ret \in Int
       /\ op[t].data \in Seq(Byte)

\* dev->lock does what it is there for ("Mutex for synchronizing access"): no two
\* threads are between a mutex_lock and the mutex_unlock that ends it.
MutualExclusion ==
  \A t, u \in Threads : op[t].pc \in Inside /\ op[u].pc \in Inside => t = u

\* No handler reads or frees memory that has been freed.
NoUseAfterFree == ~oops

\* No return path keeps dev->lock: its owner is a thread inside a handler.
LockIsReleased == lock # NULL => op[lock].pc \in Inside

\* Every system call returns: no thread waits for dev->lock for ever.
EveryCallReturns ==
  \A t \in Threads : op[t].pc # "idle" ~> (op[t].pc = "idle" \/ oops)

\* What a handler still has to do: at most so many steps of its own.
Left(t) ==
  CASE op[t].pc = "read_lock"     -> op[t].count + 3
    [] op[t].pc = "read_loop"     -> op[t].count + 2
    [] op[t].pc = "write_lock"    -> Len(Bytes(partial)) + Len(op[t].data) + 4
    [] op[t].pc = "write_combine" -> Len(Bytes(partial)) + Len(op[t].data) + 3
    [] op[t].pc = "write_install" -> Len(Bytes(op[t].block)) + 2
    [] op[t].pc = "write_loop"    -> Len(Bytes(partial)) + 1
    [] op[t].pc = "ioctl_lock"    -> 2
    [] op[t].pc \in {"ioctl_seek", "read_unlock"} -> 1
    [] OTHER                      -> 0

\* No handler stays in a loop, whatever the ring and the unfinished line hold: from
\* mutex_lock on, each step of a handler leaves it less to do, and no step of
\* another caller leaves it more.
HandlersEnd ==
  [][\A t \in Threads :
       op[t].pc \notin Waiting \cup {"idle"} =>
         IF Step(t) THEN Left(t)' \in Nat /\ Left(t)' < Left(t) ELSE Left(t)' = Left(t)]_vars

-----------------------------------------------------------------------------
EntryBlocks == {ring.entry[i].buffptr : i \in Slot} \ {NULL}

\* Every kmalloc'ed block has exactly one owner, so that nothing leaks, nothing
\* is freed twice and no pointer dangles, on every path through aesd_write and
\* its failures and after aesd_cleanup_module; and size is the entry's length.
HeapExact ==
  IF ~loaded THEN \A a \in Blocks : heap[a] = NULL
  ELSE /\ {a \in Blocks : heap[a] # NULL} = EntryBlocks \cup Unfinished
       /\ EntryBlocks \cap Unfinished = {}
       /\ \A i, j \in Slot : ring.entry[i].buffptr = ring.entry[j].buffptr
                             => i = j \/ ring.entry[i] = NoEntry
       /\ \A i \in Slot : ring.entry[i] # NoEntry =>
                            ring.entry[i].size = Len(heap[ring.entry[i].buffptr])

-----------------------------------------------------------------------------
\* The device as its readers see it: the kept lines, and their bytes in a row.
Lines == [k \in 1 .. Count(ring) |-> Bytes(Contents(ring)[k].buffptr)]
Stream == FlattenSeq(Lines)

Rest == IF Installing = {} THEN Bytes(partial)
        ELSE Bytes(op[CHOOSE t \in Installing : TRUE].block)

\* A caller as the log sees it: a write(2) has taken effect once its bytes are in
\* combined_buffer; what happens before mutex_lock, and after it up to there, is not
\* seen, and neither are the other calls, apart from what they return.
WriteOf(t) ==
  LET at == CASE op[t].pc \in {"write_lock", "write_combine"} -> "calling"
              [] op[t].pc \in {"write_install", "write_loop"} -> "effective"
              [] OTHER -> "outside"
  IN  [at   |-> at,
       data |-> IF at = "outside" THEN << >> ELSE op[t].data,
       ret  |-> IF at = "outside" THEN op[t].ret ELSE 0]

\* The driver implements the line log: a write takes effect in one step, with its own
\* bytes, each of them once, or it fails; no byte of a successful write is lost,
\* duplicated or moved, and no other call changes any; lines are cut at newlines and
\* only there, and only the oldest line is given up for a new one.
Log == INSTANCE DeviceLog WITH Capacity <- MAX,
                               Writers  <- Threads,
                               up       <- loaded,
                               lines    <- IF loaded THEN Lines ELSE << >>,
                               rest     <- IF loaded THEN Rest  ELSE << >>,
                               call     <- [t \in Threads |-> WriteOf(t)]
ImplementsDeviceLog == Log!Spec

\* What a read has copied so far is the part of the stream that starts at the
\* position of the file, across as many entries as it took.
ReadsAreContiguous ==
  \A t \in Threads : op[t].pc = "read_loop" =>
    op[t].data = SubSeq(Stream, f_pos[t] + 1, op[t].pos)

\* AESDCHAR_IOCSEEKTO and read agree: the position computed for byte o of
\* command c is where find_entry finds byte o of the c-th oldest entry, and
\* positions exist for the bytes of the kept commands and no others.
SeekFindsCommand ==
  \A c \in 0..MAX, o \in 0 .. Len(Stream) :
    LET pos == SeekPosition(ring, c, o)
    IN  IF c < Len(Lines) /\ o < Len(Lines[c+1])
        THEN FindEntry(ring, pos) = [slot |-> After(ring.out_offs, c), offset |-> o]
        ELSE pos = NULL
=============================================================================
