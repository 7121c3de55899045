------------------------------ MODULE AesdDriver ------------------------------
(***************************************************************************)
(* The character driver of aesd-char-driver/main.c: the device aesd_device *)
(* and the handlers of aesd_fops, called by any number of threads.         *)
(*                                                                         *)
(* A handler runs in steps, so that the handlers of several threads        *)
(* interleave: the call itself, taking dev->lock, then one step for each   *)
(* access to the device's memory.  dev->lock is the kernel's mutex as the  *)
(* code uses it: mutex_lock waits until the owner word is clear and puts   *)
(* the caller there; mutex_unlock clears it, WHOEVER the owner is (the     *)
(* kernel checks the owner only in its debugging builds).                  *)
(*                                                                         *)
(* heap holds the kmalloc'ed blocks the device can reach, with their       *)
(* contents; a handler that reads or frees a block already freed sets      *)
(* oops, and after that nothing is said.  Each thread has one file of its  *)
(* own; f_pos is filp->f_pos.                                              *)
(***************************************************************************)
EXTENDS CircularBuffer, SequencesExt

CONSTANTS Threads,   \* the callers
          Newline,   \* the byte '\n'
          Payloads,  \* what a caller may write(2)
          Counts,    \* how much a caller may read(2)
          Seeks,     \* the <<write_cmd, write_cmd_offset>> of an ioctl(2)
          Offsets,   \* the offsets of an lseek(2)
          Calls,     \* which system calls the callers make
          Faults,    \* which kernel services may fail: "kmalloc", "copy_user", "cdev_add"
          MaxPartial,\* bound: only a line is written while more bytes wait for '\n'
          MaxPos     \* bound: the furthest position of an lseek(2)

ASSUME PayloadAssumption == /\ \A p \in Payloads : p \in Seq(UNION {Range(q) : q \in Payloads})
                            /\ Counts \subseteq Nat
                            /\ Seeks \subseteq Nat \X Nat
                            /\ Offsets \subseteq Int
                            /\ MaxPartial \in Nat /\ MaxPos \in Nat
                            /\ NULL \notin Threads

VARIABLES lock,      \* dev->lock: its owner, or NULL
          ring,      \* dev->_circular_buffer
          partial,   \* dev->_partial_write_buffer: a block or NULL
          heap,      \* contents of each block, NULL when it is free
          f_pos,     \* position of each thread's file, NULL when not open
          op,        \* the system call each thread is in, and its locals
          loaded,    \* whether the module is loaded
          oops       \* freed memory has been used

device == <<lock, ring, partial, heap>>
vars   == <<lock, ring, partial, heap, f_pos, op, loaded, oops>>

Byte  == UNION {Range(p) : p \in Payloads} \cup {Newline}

\* Free memory is told apart from every string, and the lack of a position from every
\* position.
ASSUME NullIsNoString   == NULL \notin Seq(Byte)
ASSUME NullIsNoPosition == NULL \notin Nat

Error == -1                                    \* any negative errno

\* Where a thread is in a handler; the states of Inside are between mutex_lock
\* and mutex_unlock as the code is written.
Inside  == {"read_loop", "write_combine", "write_install", "write_loop", "ioctl_seek"}
Waiting == {"read_lock", "write_lock", "ioctl_lock"}
Control == Inside \cup Waiting \cup {"idle", "read_unlock"}

\* A thread outside the driver: ret and data are what the last call returned.
Returned(r, d) == [pc |-> "idle", data |-> d, block |-> NULL, pos |-> 0,
                   count |-> 0, seek |-> <<0, 0>>, ret |-> r]
Return(t, r)   == op' = [op EXCEPT ![t] = Returned(r, << >>)]
Goto(t, label) == op' = [op EXCEPT ![t].pc = label]

\* A return that unlocks dev->lock and changes nothing else.
Unlock(t, r)   == /\ lock' = NULL /\ Return(t, r)
                  /\ UNCHANGED <<ring, partial, heap, f_pos, loaded, oops>>

Init ==
  /\ lock    = NULL
  /\ ring    = EmptyBuffer
  /\ partial = NULL
  /\ heap    = [a \in Blocks |-> NULL]
  /\ f_pos   = [t \in Threads |-> NULL]
  /\ op      = [t \in Threads |-> Returned(0, << >>)]
  /\ loaded  = TRUE
  /\ oops    = FALSE

-----------------------------------------------------------------------------
(* Memory.                                                                 *)

FreeBlocks == {a \in Blocks : heap[a] = NULL}
OutOfMemory == "kmalloc" \in Faults \/ FreeBlocks = {}
Bytes(a)   == IF a \in Blocks /\ heap[a] # NULL THEN heap[a] ELSE << >>

\* The blocks that hold the unfinished line: combined_buffer until it is
\* installed.
Installing == {t \in Threads : op[t].pc = "write_install"}
Unfinished == (IF Installing = {} THEN {partial} ELSE {op[t].block : t \in Installing})
              \ {NULL}

\* Position of the first newline of a string, 0 when there is none (memchr).
LineEnd(s) == SelectInSeq(s, LAMBDA c : c = Newline)

\* The entry that a read in progress has found (NotFound when there is none).
Found(t)      == FindEntry(ring, op[t].pos)
FoundEntry(t) == ring.entry[Found(t).slot]

\* The blocks that the next step of t reads or frees.
Touched(t) ==
  CASE op[t].pc = "read_loop" /\ op[t].count > 0 /\ Found(t) # NotFound
                                   -> {FoundEntry(t).buffptr}
    [] op[t].pc = "write_combine"  -> {partial} \ {NULL}
    [] op[t].pc = "write_loop"     ->
         IF partial = NULL THEN {}
         ELSE {partial} \cup (IF heap[partial] # NULL /\ LineEnd(heap[partial]) > 0
                              THEN Evicted(ring) ELSE {})
    [] OTHER                       -> {}

Sound(t) == \A a \in Touched(t) : heap[a] # NULL

Oops(t) ==
  /\ ~Sound(t)
  /\ oops' = TRUE
  /\ UNCHANGED <<device, f_pos, op, loaded>>

-----------------------------------------------------------------------------
(* open, close and lseek.                                                  *)

Ready(t, call) == /\ call \in Calls /\ loaded /\ op[t].pc = "idle"
                  /\ IF call = "open" THEN f_pos[t] = NULL ELSE f_pos[t] # NULL

\* A call up to mutex_lock, or up to an error before it: only locals change.
Enter(t, call, locals) ==
  /\ Ready(t, call)
  /\ op' = [op EXCEPT ![t] = locals]
  /\ UNCHANGED <<device, f_pos, loaded, oops>>
Refuse(t, call) == Enter(t, call, Returned(Error, << >>))

Open(t) ==
  /\ Ready(t, "open")
  /\ f_pos' = [f_pos EXCEPT ![t] = 0]
  /\ Return(t, 0)
  /\ UNCHANGED <<device, loaded, oops>>

\* aesd_release unlocks dev->lock although close(2) never locked it.
Release(t) ==
  /\ Ready(t, "release")
  /\ f_pos' = [f_pos EXCEPT ![t] = NULL]
  /\ lock'  = NULL
  /\ Return(t, 0)
  /\ UNCHANGED <<ring, partial, heap, loaded, oops>>

\* SEEK_END counts from the number of slots, not from the end of the data.
NewPosition(t, whence, offset) ==
  CASE whence = "SEEK_SET" -> offset
    [] whence = "SEEK_CUR" -> f_pos[t] + offset
    [] whence = "SEEK_END" -> MAX + offset

\* A fault: the position before the first byte is let through.
NegativeButOne(pos) == pos < -1

Negative(pos) == pos < 0

LLSeek(t, whence, offset) ==
  LET new_pos == NewPosition(t, whence, offset)
  IN  /\ Ready(t, "llseek")
      /\ new_pos <= MaxPos
      /\ IF Negative(new_pos)
         THEN Return(t, Error)   /\ UNCHANGED f_pos
         ELSE Return(t, new_pos) /\ f_pos' = [f_pos EXCEPT ![t] = new_pos]
      /\ UNCHANGED <<device, loaded, oops>>

\* Taking dev->lock.
Lock(t, from, to) ==
  /\ op[t].pc = from
  /\ lock  = NULL
  /\ lock' = t
  /\ Goto(t, to)
  /\ UNCHANGED <<ring, partial, heap, f_pos, loaded, oops>>

-----------------------------------------------------------------------------
(* read: the VFS passes a copy of filp->f_pos and stores it back when the  *)
(* handler succeeds.                                                       *)

ReadCall(t, n) ==
  Enter(t, "read", [Returned(0, << >>) EXCEPT !.pc = "read_lock", !.pos = f_pos[t],
                                              !.count = n])

ReadLock(t) == Lock(t, "read_lock", "read_loop")

\* What copy_to_user copies: n bytes from byte o of a block; a fault: its first n.
CopiedFromStart(block, o, n) == SubSeq(heap[block], 1, n)

Copied(block, o, n) == SubSeq(heap[block], o+1, o+n)

\* A read about to copy from an entry it has found, or that has found none.
Finding(t, found) == /\ op[t].pc = "read_loop" /\ op[t].count > 0
                     /\ (Found(t) # NotFound) = found
                     /\ Sound(t)

\* One iteration: copy what the found entry still has, or what is asked for.
ReadChunk(t) ==
  LET e == FoundEntry(t)
      o == Found(t).offset
      n == IF op[t].count < e.size - o THEN op[t].count ELSE e.size - o
  IN  /\ Finding(t, TRUE)
      /\ op' = [op EXCEPT ![t].data = @ \o Copied(e.buffptr, o, n),
                          ![t].pos = @ + n, ![t].count = @ - n]
      /\ UNCHANGED <<device, f_pos, loaded, oops>>

\* A fault: the error path keeps dev->lock.
ReadFaultKeepsLock(t) ==
  /\ "copy_user" \in Faults
  /\ Finding(t, TRUE)
  /\ Return(t, Error)
  /\ UNCHANGED <<device, f_pos, loaded, oops>>

\* copy_to_user fails: unlock and return, the position is not stored back.
ReadFault(t) == "copy_user" \in Faults /\ Finding(t, TRUE) /\ Unlock(t, Error)

\* A fault: the loop is not left.
ReadEndStays(t) ==
  /\ Finding(t, FALSE)
  /\ lock' = NULL
  /\ UNCHANGED <<ring, partial, heap, f_pos, op, loaded, oops>>

\* No entry at this position: unlock and leave the loop ...
ReadEnd(t) ==
  /\ Finding(t, FALSE)
  /\ lock' = NULL
  /\ Goto(t, "read_unlock")
  /\ UNCHANGED <<ring, partial, heap, f_pos, loaded, oops>>

\* ... to the statement after the loop, which unlocks (again) and returns.
ReadReturn(t) ==
  /\ \/ op[t].pc = "read_unlock"
     \/ op[t].pc = "read_loop" /\ op[t].count = 0
  /\ lock'  = NULL
  /\ f_pos' = [f_pos EXCEPT ![t] = op[t].pos]
  /\ op'    = [op EXCEPT ![t] = Returned(Len(@.data), @.data)]
  /\ UNCHANGED <<ring, partial, heap, loaded, oops>>

-----------------------------------------------------------------------------
(* write: append to the partial line, then move every complete line of it  *)
(* into the ring.  kbuf is local to the call: op[t].data holds its bytes.  *)

WriteCall(t, data) ==
  /\ Newline \in Range(data) \/ \A b \in Unfinished : Len(Bytes(b)) <= MaxPartial
  /\ Enter(t, "write", [Returned(0, data) EXCEPT !.pc = "write_lock"])

\* kmalloc of kbuf or copy_from_user fails before anything is locked.
WriteFault(t) == Faults \cap {"kmalloc", "copy_user"} # {} /\ Refuse(t, "write")

\* A fault: aesd_write does not take dev->lock.
WriteWithoutLock(t) ==
  /\ op[t].pc = "write_lock"
  /\ Goto(t, "write_combine")
  /\ UNCHANGED <<device, f_pos, loaded, oops>>

WriteLock(t) == Lock(t, "write_lock", "write_combine")

\* The contents of combined_buffer; a fault: the second memcpy is forgotten.
CombinedDropped(old, new) == old

Combined(old, new) == old \o new

\* kmalloc combined_buffer, copy the old partial line and the new bytes into
\* it, and free the old one.
WriteCombine(t) ==
  /\ op[t].pc = "write_combine"
  /\ Sound(t)
  /\ \E a \in FreeBlocks :
       /\ heap' = [b \in Blocks |-> CASE b = a       -> Combined(Bytes(partial), op[t].data)
                                      [] b = partial -> NULL
                                      [] OTHER       -> heap[b]]
       /\ op'   = [op EXCEPT ![t].pc = "write_install", ![t].block = a]
  /\ UNCHANGED <<lock, ring, partial, f_pos, loaded, oops>>

WriteNoMemory(t) == OutOfMemory /\ op[t].pc = "write_combine" /\ Unlock(t, Error)

WriteInstall(t) ==
  /\ op[t].pc = "write_install"
  /\ partial' = op[t].block
  /\ op' = [op EXCEPT ![t].pc = "write_loop", ![t].block = NULL]
  /\ UNCHANGED <<lock, ring, heap, f_pos, loaded, oops>>

\* The loop's test: the partial line holds a newline, or it does not.
LoopTest(t, found) == /\ op[t].pc = "write_loop" /\ Sound(t)
                      /\ (LineEnd(Bytes(partial)) > 0) = found

\* What _partial_write_buffer is after a line is taken out and `rest` remains; a
\* fault: the pointer is not cleared when the buffer is freed.
RemainderKept(rest) == partial

Remainder(rest) == IF rest = << >> THEN NULL ELSE partial

\* One iteration: the first line gets a block of its own and goes into the
\* ring; what follows it moves to the front of the partial line, which is freed
\* when nothing follows.
WriteLine(t) ==
  /\ LoopTest(t, TRUE)
  /\ LET n    == LineEnd(heap[partial])
         rest == SubSeq(heap[partial], n+1, Len(heap[partial]))
     IN  \E a \in FreeBlocks :
           /\ ring' = AddEntry(ring, [buffptr |-> a, size |-> n])
           /\ heap' = [b \in Blocks |->
                         CASE b = a             -> SubSeq(heap[partial], 1, n)
                           [] b = partial       -> IF rest = << >> THEN NULL ELSE rest
                           [] b \in Evicted(ring) -> NULL
                           [] OTHER             -> heap[b]]
           /\ partial' = Remainder(rest)
  /\ UNCHANGED <<lock, f_pos, op, loaded, oops>>

\* kmalloc of the entry fails: the bytes not yet committed are dropped, the
\* lines already committed stay, and the call reports an error.
WriteLineNoMemory(t) ==
  /\ OutOfMemory /\ LoopTest(t, TRUE)
  /\ heap' = [heap EXCEPT ![partial] = NULL] /\ partial' = NULL
  /\ lock' = NULL /\ Return(t, Error)
  /\ UNCHANGED <<ring, f_pos, loaded, oops>>

\* A fault of the server's device: write advances the position, as in a file.
WriteReturnAdvances(t) ==
  /\ LoopTest(t, FALSE)
  /\ lock'  = NULL
  /\ f_pos' = [f_pos EXCEPT ![t] = @ + Len(op[t].data)]
  /\ Return(t, Len(op[t].data))
  /\ UNCHANGED <<ring, partial, heap, loaded, oops>>

WriteReturn(t) == LoopTest(t, FALSE) /\ Unlock(t, Len(op[t].data))

-----------------------------------------------------------------------------
(* ioctl(AESDCHAR_IOCSEEKTO).                                              *)

\* The position of byte `offset` of command `cmd`, NULL when there is no such
\* byte.  Unless the ring is full it takes in_offs for the number of commands.
\* The cmd-th command is counted from the oldest; a fault: from slot 0.
SlotOfCommandFromZero(b, i) == After(0, i)

SlotOfCommand(b, i) == After(b.out_offs, i)

SeekPosition(b, cmd, offset) ==
  LET e(i) == b.entry[SlotOfCommand(b, i)]
      start[i \in 0..cmd] == IF i = 0 THEN 0 ELSE start[i-1] + e(i-1).size
  IN  IF /\ cmd < Count(b)
         /\ \A i \in 0..cmd : e(i).buffptr # NULL
         /\ offset < e(cmd).size
      THEN start[cmd] + offset
      ELSE NULL

IoctlCall(t, seek) ==
  Enter(t, "ioctl", [Returned(0, << >>) EXCEPT !.pc = "ioctl_lock", !.seek = seek])

\* copy_from_user fails, or the command is not AESDCHAR_IOCSEEKTO.
IoctlFault(t) == "copy_user" \in Faults /\ Refuse(t, "ioctl")

IoctlLock(t) == Lock(t, "ioctl_lock", "ioctl_seek")

\* What the ioctl finds; two faults: the error path keeps dev->lock; the position
\* is not stored.
Target(t) == SeekPosition(ring, op[t].seek[1], op[t].seek[2])

IoctlSeekKeepsLock(t) ==
  /\ op[t].pc = "ioctl_seek"
  /\ IF Target(t) = NULL
     THEN Return(t, Error) /\ UNCHANGED <<lock, f_pos>>
     ELSE Return(t, 0) /\ lock' = NULL /\ f_pos' = [f_pos EXCEPT ![t] = Target(t)]
  /\ UNCHANGED <<ring, partial, heap, loaded, oops>>

IoctlSeekForgets(t) ==
  op[t].pc = "ioctl_seek" /\ Unlock(t, IF Target(t) = NULL THEN Error ELSE 0)

IoctlSeek(t) ==
  /\ op[t].pc = "ioctl_seek"
  /\ lock' = NULL
  /\ IF Target(t) = NULL
     THEN Return(t, Error) /\ UNCHANGED f_pos
     ELSE Return(t, 0) /\ f_pos' = [f_pos EXCEPT ![t] = Target(t)]
  /\ UNCHANGED <<ring, partial, heap, loaded, oops>>

-----------------------------------------------------------------------------
(* Loading and unloading the module.  The kernel keeps a module loaded     *)
(* while a file of it is open.                                             *)

\* aesd_cleanup_module frees every entry and the partial line.
Unload ==
  /\ "rmmod" \in Calls
  /\ loaded /\ \A t \in Threads : f_pos[t] = NULL
  /\ loaded' = FALSE
  /\ heap' = [a \in Blocks |->
                IF a = partial \/ \E i \in Slot : ring.entry[i].buffptr = a
                THEN NULL ELSE heap[a]]
  /\ ring' = [ring EXCEPT !.entry = [i \in Slot |-> [@[i] EXCEPT !.buffptr = NULL]]]
  /\ UNCHANGED <<lock, partial, f_pos, op, oops>>

\* aesd_init_module.
Load ==
  /\ ~loaded
  /\ loaded'  = TRUE
  /\ lock'    = NULL
  /\ ring'    = EmptyBuffer
  /\ partial' = NULL
  /\ UNCHANGED <<heap, f_pos, op, oops>>

\* aesd_setup_cdev fails: the device is prepared, but nobody can open it.
LoadFails ==
  /\ "cdev_add" \in Faults
  /\ ~loaded
  /\ lock'    = NULL
  /\ ring'    = EmptyBuffer
  /\ partial' = NULL
  /\ UNCHANGED <<heap, f_pos, op, loaded, oops>>

-----------------------------------------------------------------------------
\* A thread outside the driver makes a system call.
Call(t) ==
  \/ Open(t) \/ Release(t)
  \/ \E n \in Counts   : ReadCall(t, n)
  \/ \E d \in Payloads : WriteCall(t, d)
  \/ \E s \in Seeks    : IoctlCall(t, s)
  \/ WriteFault(t) \/ IoctlFault(t)
  \/ \E w \in {"SEEK_SET", "SEEK_CUR", "SEEK_END"}, o \in Offsets : LLSeek(t, w, o)

\* A thread inside the driver goes on.
ReadStep(t)  == ReadChunk(t) \/ ReadFault(t) \/ ReadEnd(t) \/ ReadReturn(t)
WriteStep(t) == \/ WriteCombine(t) \/ WriteNoMemory(t) \/ WriteInstall(t)
                \/ WriteLine(t) \/ WriteLineNoMemory(t) \/ WriteReturn(t)
TakeLock(t)  == ReadLock(t) \/ WriteLock(t) \/ IoctlLock(t)
Step(t)      == TakeLock(t) \/ ReadStep(t) \/ WriteStep(t) \/ IoctlSeek(t) \/ Oops(t)

Next == /\ ~oops
        /\ \/ \E t \in Threads : Call(t) \/ Step(t)
           \/ Unload \/ Load \/ LoadFails

-----------------------------------------------------------------------------
\* The scheduler lets every thread in the driver run; the kernel's mutex queues
\* its waiters, so that a thread is not passed over forever.
Fairness == \A t \in Threads : WF_vars(~oops /\ Step(t)) /\ SF_vars(~oops /\ TakeLock(t))

Spec == Init /\ [][Next]_vars /\ Fairness
=============================================================================
