------------------------------ MODULE DriverProofs ------------------------------
(***************************************************************************)
(* The driver, for any callers, any capacity and any failure.              *)
(*                                                                         *)
(* The lock.  No path leaves dev->lock locked, and it keeps writes and     *)
(* seeks apart as long as nobody reads or closes.                          *)
(*                                                                         *)
(* The memory.  As long as its callers are kept apart, every block that is *)
(* allocated has one owner, and none is used after it is freed.  What      *)
(* keeps them apart is left open: dev->lock when nobody reads or closes,   *)
(* or the mutex of the server.                                             *)
(*                                                                         *)
(* The stream.  The types of the variables, the bytes that reads and seeks *)
(* reach, and that the device is the log of lines, for such callers.       *)
(*                                                                         *)
(* The loops.  Every step of a handler leaves it less to do (Left).        *)
(***************************************************************************)
EXTENDS DriverProperties, CircularBufferProofs

Fields == {"pc", "data", "block", "pos", "count", "seek", "ret"}

\* op is a function from the threads to records; nothing is said of their
\* values.
OpShape == /\ op = [t \in Threads |-> op[t]]
           /\ \A t \in Threads : op[t] = [f \in Fields |-> op[t][f]]

\* A thread's step in the driver changes no other thread's place in it.
OthersStay(t) == \A u \in Threads \ {t} : op'[u] = op[u]

LEMMA ReturnedShape ==
  ASSUME NEW r, NEW d
  PROVE  /\ Returned(r, d) = [f \in Fields |-> Returned(r, d)[f]]
         /\ Returned(r, d).pc = "idle"
BY DEF Returned, Fields

LEMMA ReturnEffect ==
  ASSUME NEW t \in Threads, NEW r, OpShape, Return(t, r)
  PROVE  OpShape' /\ OthersStay(t) /\ op'[t].pc = "idle"
BY ReturnedShape DEF Return, OpShape, OthersStay

LEMMA ReturnValue ==
  ASSUME NEW t \in Threads, NEW r, OpShape, Return(t, r)
  PROVE  op'[t].ret = r
BY DEF Return, Returned, OpShape

LEMMA GotoEffect ==
  ASSUME NEW t \in Threads, NEW label, OpShape, Goto(t, label)
  PROVE  OpShape' /\ OthersStay(t)
BY DEF Goto, OpShape, OthersStay, Fields

\* A handler that replaces some fields of its place in it.
LEMMA FieldsEffect ==
  ASSUME NEW t \in Threads, NEW r, OpShape,
         op' = [op EXCEPT ![t] = r], r = [f \in Fields |-> r[f]]
  PROVE  OpShape' /\ OthersStay(t) /\ op'[t] = r
<1>1. /\ op' = [u \in Threads |-> op'[u]]
      /\ \A u \in Threads : op'[u] = IF u = t THEN r ELSE op[u]
  BY DEF OpShape
<1>2. \A u \in Threads : op'[u] = [f \in Fields |-> op'[u][f]]
  BY <1>1 DEF OpShape
<1> QED
  BY <1>1, <1>2 DEF OpShape, OthersStay

\* An iteration of the read loop stays in it.
LEMMA ChunkStays ==
  ASSUME NEW t \in Threads, OpShape, ReadChunk(t)
  PROVE  op[t].pc = "read_loop" /\ op'[t].pc = "read_loop"
<1>1. op[t].pc = "read_loop" /\ t \in DOMAIN op
  BY DEF ReadChunk, Finding, OpShape
<1>2. PICK data, pos, count :
             op' = [op EXCEPT ![t].data = data, ![t].pos = pos, ![t].count = count]
  BY DEF ReadChunk
<1>3. op'[t] = [op[t] EXCEPT !.data = data, !.pos = pos, !.count = count]
  BY <1>1, <1>2
<1> QED
  BY <1>1, <1>3 DEF OpShape, Fields

\* A handler's first step, and every later one.
LEMMA CallEffect ==
  ASSUME NEW t \in Threads, OpShape,
         \/ \E n : ReadCall(t, n)
         \/ \E d : WriteCall(t, d)
         \/ \E s : IoctlCall(t, s)
         \/ WriteFault(t) \/ IoctlFault(t)
  PROVE  OpShape' /\ OthersStay(t) /\ op[t].pc = "idle"
<1>1. ASSUME NEW n, ReadCall(t, n) PROVE OpShape' /\ OthersStay(t) /\ op[t].pc = "idle"
  BY <1>1 DEF ReadCall, Enter, Ready, Returned, OpShape, OthersStay, Fields
<1>2. ASSUME NEW d, WriteCall(t, d) PROVE OpShape' /\ OthersStay(t) /\ op[t].pc = "idle"
  BY <1>2 DEF WriteCall, Enter, Ready, Returned, OpShape, OthersStay, Fields
<1>3. ASSUME NEW s, IoctlCall(t, s) PROVE OpShape' /\ OthersStay(t) /\ op[t].pc = "idle"
  BY <1>3 DEF IoctlCall, Enter, Ready, Returned, OpShape, OthersStay, Fields
<1>4. ASSUME WriteFault(t) \/ IoctlFault(t)
      PROVE OpShape' /\ OthersStay(t) /\ op[t].pc = "idle"
  BY <1>4, ReturnEffect DEF WriteFault, IoctlFault, Refuse, Enter, Ready, Return
<1> QED
  BY <1>1, <1>2, <1>3, <1>4

LEMMA StepEffect ==
  ASSUME NEW t \in Threads, OpShape, Step(t)
  PROVE  OpShape' /\ OthersStay(t) /\ op[t].pc # "idle"
<1>1. CASE TakeLock(t)
  <2>1. ASSUME NEW from, NEW to, Lock(t, from, to), from # "idle"
        PROVE  OpShape' /\ OthersStay(t) /\ op[t].pc # "idle"
    BY <2>1, GotoEffect DEF Lock
  <2> QED
    BY <1>1, <2>1 DEF TakeLock, ReadLock, WriteLock, IoctlLock
<1>2. CASE ReadStep(t)
  <2>1. CASE ReadChunk(t)
    BY <2>1 DEF ReadChunk, Finding, OpShape, OthersStay, Fields
  <2>2. CASE ReadFault(t)
    BY <2>2, ReturnEffect DEF ReadFault, Finding, Unlock
  <2>3. CASE ReadEnd(t)
    BY <2>3, GotoEffect DEF ReadEnd, Finding
  <2>4. CASE ReadReturn(t)
    BY <2>4, ReturnedShape DEF ReadReturn, OpShape, OthersStay
  <2> QED
    BY <1>2, <2>1, <2>2, <2>3, <2>4 DEF ReadStep
<1>3. CASE WriteStep(t)
  <2>1. CASE WriteCombine(t)
    <3> PICK a \in FreeBlocks :
             op' = [op EXCEPT ![t].pc = "write_install", ![t].block = a]
      BY <2>1 DEF WriteCombine
    <3> DEFINE r == [op[t] EXCEPT !.pc = "write_install", !.block = a]
    <3>1. r = [f \in Fields |-> r[f]]
      BY DEF OpShape, Fields
    <3>2. op' = [op EXCEPT ![t] = r]
      BY DEF OpShape
    <3>3. op[t].pc # "idle"
      BY <2>1 DEF WriteCombine
    <3> HIDE DEF r
    <3> QED
      BY <3>1, <3>2, <3>3, FieldsEffect
  <2>2. CASE WriteInstall(t)
    <3> DEFINE r == [op[t] EXCEPT !.pc = "write_loop", !.block = NULL]
    <3>1. r = [f \in Fields |-> r[f]]
      BY DEF OpShape, Fields
    <3>2. op' = [op EXCEPT ![t] = r] /\ op[t].pc # "idle"
      BY <2>2 DEF WriteInstall, OpShape
    <3> HIDE DEF r
    <3> QED
      BY <3>1, <3>2, FieldsEffect
  <2>3. CASE WriteLine(t)
    BY <2>3 DEF WriteLine, LoopTest, OpShape, OthersStay
  <2>4. CASE WriteNoMemory(t) \/ WriteLineNoMemory(t) \/ WriteReturn(t)
    BY <2>4, ReturnEffect DEF WriteNoMemory, WriteLineNoMemory, WriteReturn, LoopTest, Unlock
  <2> QED
    BY <1>3, <2>1, <2>2, <2>3, <2>4 DEF WriteStep
<1>4. CASE IoctlSeek(t)
  BY <1>4, ReturnEffect DEF IoctlSeek
<1>5. CASE Oops(t)
  BY <1>5 DEF Oops, Sound, Touched, OpShape, OthersStay
<1> QED
  BY <1>1, <1>2, <1>3, <1>4, <1>5 DEF Step

-----------------------------------------------------------------------------
(* What a step of a handler does to dev->lock.                             *)

Takes(t)  == lock = NULL /\ lock' = t /\ op'[t].pc \in Inside
Keeps(t)  == lock' = lock /\ op[t].pc \in Inside /\ op'[t].pc \in Inside
Leaves(t) == /\ lock' = NULL /\ op'[t].pc \notin Inside
             /\ op[t].pc \in Inside \/ op[t].pc = "read_unlock"
Idles     == UNCHANGED <<lock, op>>

LEMMA ReturnLeaves ==
  ASSUME NEW t \in Threads, NEW r, OpShape, Return(t, r), lock' = NULL,
         op[t].pc \in Inside
  PROVE  Leaves(t)
BY ReturnEffect DEF Leaves, Inside

LEMMA StepLock ==
  ASSUME NEW t \in Threads, OpShape, Step(t)
  PROVE  Takes(t) \/ Keeps(t) \/ Leaves(t) \/ Idles
<1>1. CASE TakeLock(t)
  <2>1. ASSUME NEW from, NEW to \in Inside, Lock(t, from, to) PROVE Takes(t)
    BY <2>1 DEF Lock, Goto, Takes, OpShape, Fields
  <2> QED
    BY <1>1, <2>1 DEF TakeLock, ReadLock, WriteLock, IoctlLock, Inside
<1>2. CASE ReadStep(t)
  <2>1. CASE ReadChunk(t)
    BY <2>1, ChunkStays DEF ReadChunk, device, Keeps, Inside
  <2>2. CASE ReadFault(t)
    BY <2>2, ReturnLeaves DEF ReadFault, Finding, Unlock, Inside
  <2>3. CASE ReadEnd(t)
    BY <2>3 DEF ReadEnd, Finding, Goto, Leaves, OpShape, Fields, Inside
  <2>4. CASE ReadReturn(t)
    BY <2>4, ReturnedShape DEF ReadReturn, Leaves, OpShape, Inside
  <2> QED
    BY <1>2, <2>1, <2>2, <2>3, <2>4 DEF ReadStep
<1>3. CASE WriteStep(t)
  <2>1. CASE WriteCombine(t)
    BY <2>1 DEF WriteCombine, Keeps, OpShape, Fields, Inside
  <2>2. CASE WriteInstall(t)
    BY <2>2 DEF WriteInstall, Keeps, OpShape, Fields, Inside
  <2>3. CASE WriteLine(t)
    BY <2>3 DEF WriteLine, Idles
  <2>4. CASE WriteNoMemory(t) \/ WriteLineNoMemory(t) \/ WriteReturn(t)
    BY <2>4, ReturnLeaves
       DEF WriteNoMemory, WriteLineNoMemory, WriteReturn, LoopTest, Unlock, Inside
  <2> QED
    BY <1>3, <2>1, <2>2, <2>3, <2>4 DEF WriteStep
<1>4. CASE IoctlSeek(t)
  BY <1>4, ReturnLeaves DEF IoctlSeek, Inside
<1>5. CASE Oops(t)
  BY <1>5 DEF Oops, device, Idles
<1> QED
  BY <1>1, <1>2, <1>3, <1>4, <1>5 DEF Step

\* A system call that begins, whatever its arguments.
Begins(t) ==
  \/ Open(t) \/ Release(t)
  \/ \E n : ReadCall(t, n)
  \/ \E d : WriteCall(t, d)
  \/ \E s : IoctlCall(t, s)
  \/ WriteFault(t) \/ IoctlFault(t)
  \/ \E w, o : LLSeek(t, w, o)

LEMMA CallBegins == \A t \in Threads : Call(t) => Begins(t)
BY DEF Call, Begins

\* A call touches nobody else's place in the driver, and takes no lock.
LEMMA CallLock ==
  ASSUME NEW t \in Threads, OpShape, Begins(t)
  PROVE  /\ OpShape' /\ OthersStay(t)
         /\ op[t].pc = "idle" /\ op'[t].pc \notin Inside
         /\ lock' = lock \/ ("release" \in Calls /\ lock' = NULL)
<1>1. ASSUME NEW n, ReadCall(t, n) PROVE op'[t].pc = "read_lock" /\ lock' = lock
  BY <1>1 DEF ReadCall, Enter, Returned, device, OpShape
<1>2. ASSUME NEW d, WriteCall(t, d) PROVE op'[t].pc = "write_lock" /\ lock' = lock
  BY <1>2 DEF WriteCall, Enter, Returned, device, OpShape
<1>3. ASSUME NEW s, IoctlCall(t, s) PROVE op'[t].pc = "ioctl_lock" /\ lock' = lock
  BY <1>3 DEF IoctlCall, Enter, Returned, device, OpShape
<1>4. CASE WriteFault(t) \/ IoctlFault(t)
  <2>1. Return(t, Error) /\ lock' = lock
    BY <1>4 DEF WriteFault, IoctlFault, Refuse, Enter, Return, device
  <2>2. OpShape' /\ OthersStay(t) /\ op'[t].pc = "idle"
    BY <2>1, ReturnEffect
  <2>3. op[t].pc = "idle"
    BY <1>4, CallEffect
  <2>4. op'[t].pc \notin Inside
    BY <2>2 DEF Inside
  <2> QED
    BY <2>1, <2>2, <2>3, <2>4
<1>5. CASE Open(t)
  <2>1. Return(t, 0) /\ lock' = lock /\ op[t].pc = "idle"
    BY <1>5 DEF Open, Ready, device
  <2>2. OpShape' /\ OthersStay(t) /\ op'[t].pc = "idle"
    BY <2>1, ReturnEffect
  <2>3. op'[t].pc \notin Inside
    BY <2>2 DEF Inside
  <2> QED
    BY <2>1, <2>2, <2>3
<1>6. CASE Release(t)
  <2>1. Return(t, 0) /\ lock' = NULL /\ op[t].pc = "idle" /\ "release" \in Calls
    BY <1>6 DEF Release, Ready
  <2>2. OpShape' /\ OthersStay(t) /\ op'[t].pc = "idle"
    BY <2>1, ReturnEffect
  <2>3. op'[t].pc \notin Inside
    BY <2>2 DEF Inside
  <2> QED
    BY <2>1, <2>2, <2>3
<1>7. ASSUME NEW w, NEW o, LLSeek(t, w, o)
      PROVE  /\ OpShape' /\ OthersStay(t)
             /\ op[t].pc = "idle" /\ op'[t].pc = "idle" /\ lock' = lock
  <2>1. PICK r : Return(t, r)
    BY <1>7 DEF LLSeek
  <2> QED
    BY <1>7, <2>1, ReturnEffect DEF LLSeek, Ready, device
<1>8. ASSUME \/ \E n : ReadCall(t, n)
             \/ \E d : WriteCall(t, d)
             \/ \E s : IoctlCall(t, s)
      PROVE  /\ OpShape' /\ OthersStay(t) /\ lock' = lock
             /\ op[t].pc = "idle" /\ op'[t].pc \notin Inside
  <2>1. OpShape' /\ OthersStay(t) /\ op[t].pc = "idle"
    BY <1>8, CallEffect
  <2> QED
    BY <1>1, <1>2, <1>3, <1>8, <2>1 DEF Inside
<1>9. "idle" \notin Inside
  BY DEF Inside
<1> QED
  BY <1>4, <1>5, <1>6, <1>7, <1>8, <1>9 DEF Begins

-----------------------------------------------------------------------------
(* No path leaves dev->lock locked.                                        *)

OwnerInside == lock = NULL \/ (lock \in Threads /\ op[lock].pc \in Inside)
LockInv     == OpShape /\ OwnerInside

LEMMA InitShape == Init => OpShape /\ lock = NULL /\ \A t \in Threads : op[t].pc = "idle"
BY ReturnedShape DEF Init, OpShape

LEMMA LockInvNext == LockInv /\ [Next]_vars => LockInv'
<1> SUFFICES ASSUME LockInv, [Next]_vars PROVE LockInv'
  OBVIOUS
<1>1. CASE UNCHANGED vars
  BY <1>1 DEF LockInv, OwnerInside, OpShape, vars
<1>2. CASE Unload \/ Load \/ LoadFails
  BY <1>2 DEF Unload, Load, LoadFails, LockInv, OwnerInside, OpShape
<1>3. ASSUME NEW t \in Threads, Call(t) PROVE LockInv'
  BY <1>3, CallBegins, CallLock DEF LockInv, OwnerInside, OthersStay, Inside
<1>4. ASSUME NEW t \in Threads, Step(t) PROVE LockInv'
  <2>1. OpShape' /\ OthersStay(t)
    BY <1>4, StepEffect DEF LockInv
  <2>2. Takes(t) \/ Keeps(t) \/ Leaves(t) \/ Idles
    BY <1>4, StepLock DEF LockInv
  <2> QED
    BY <2>1, <2>2 DEF Takes, Keeps, Leaves, Idles, LockInv, OwnerInside, OthersStay
<1> QED
  BY <1>1, <1>2, <1>3, <1>4 DEF Next

\* Whoever dev->lock belongs to is inside a handler of main.c, on every path through
\* every handler and its errors, whatever is unlocked under its owner.
THEOREM NoPathKeepsLock == Spec => []LockIsReleased
<1>1. Init => LockInv
  BY InitShape DEF LockInv, OwnerInside
<1>2. LockInv => LockIsReleased
  BY DEF LockInv, OwnerInside, LockIsReleased
<1> QED
  BY <1>1, <1>2, LockInvNext, PTL DEF Spec

-----------------------------------------------------------------------------
(* Open files, and the module that stays loaded for them.                  *)

Whence == {"SEEK_SET", "SEEK_CUR", "SEEK_END"}

\* A system call that begins, with any arguments of the right type.
AnyCall(t) ==
  \/ Open(t) \/ Release(t)
  \/ \E n \in Nat : ReadCall(t, n)
  \/ \E d \in Seq(Byte) : WriteCall(t, d)
  \/ \E s \in Nat \X Nat : IoctlCall(t, s)
  \/ WriteFault(t) \/ IoctlFault(t)
  \/ \E w \in Whence, o \in Int : LLSeek(t, w, o)

LEMMA PayloadBytes == Payloads \subseteq Seq(Byte)
<1> DEFINE S == UNION {Range(q) : q \in Payloads}
<1>1. S \subseteq Byte /\ \A p \in Payloads : p \in Seq(S)
  BY PayloadAssumption DEF Byte
<1> HIDE DEF S
<1>2. ASSUME NEW p \in Payloads PROVE p \in Seq(Byte)
  <2>1. p \in Seq(S)
    BY <1>1
  <2>2. Len(p) \in Nat /\ p \in [1 .. Len(p) -> S]
    BY <2>1
  <2>3. p \in [1 .. Len(p) -> Byte]
    BY <1>1, <2>2
  <2> QED
    BY <2>2, <2>3
<1> QED
  BY <1>2

LEMMA CallIsAny == \A t \in Threads : Call(t) => AnyCall(t)
<1>1. Payloads \subseteq Seq(Byte)
  BY PayloadBytes
<1>2. Counts \subseteq Nat /\ Seeks \subseteq Nat \X Nat /\ Offsets \subseteq Int
  BY PayloadAssumption
<1> QED
  BY <1>1, <1>2 DEF Call, AnyCall, Whence

LEMMA AnyCallEffect ==
  ASSUME NEW t \in Threads, OpShape, AnyCall(t)
  PROVE  OpShape' /\ OthersStay(t) /\ op[t].pc = "idle"
<1>1. Begins(t)
  BY DEF AnyCall, Begins
<1> QED
  BY <1>1, CallLock

\* Who is in a system call has its file open, and the module is then loaded.
FileInv ==
  /\ f_pos = [t \in Threads |-> f_pos[t]]
  /\ \A t \in Threads : op[t].pc # "idle" => f_pos[t] # NULL
  /\ ~loaded => \A t \in Threads : f_pos[t] = NULL

\* A thread's step changes the position of no other file.
OthersFiles(t) == /\ f_pos' = [u \in Threads |-> f_pos'[u]]
                  /\ \A u \in Threads \ {t} : f_pos'[u] = f_pos[u]

\* A call begins with an open file.
LEMMA CallFile ==
  ASSUME NEW t \in Threads, AnyCall(t), f_pos = [u \in Threads |-> f_pos[u]], OpShape
  PROVE  /\ OthersFiles(t) /\ loaded /\ loaded'
         /\ op'[t].pc # "idle" => f_pos[t] # NULL /\ f_pos'[t] = f_pos[t]
         /\ op'[t].pc \in {"idle", "read_lock", "write_lock", "ioctl_lock"}
         /\ op'[t].pc = "read_lock" => "read" \in Calls
<1> USE DEF OthersFiles
<1>1. CASE Open(t) \/ Release(t)
  <2>1. /\ Return(t, 0) /\ loaded /\ loaded'
        /\ \E p : f_pos' = [f_pos EXCEPT ![t] = p]
    BY <1>1 DEF Open, Release, Ready
  <2>2. op'[t].pc = "idle"
    BY <2>1, ReturnEffect
  <2> QED
    BY <2>1, <2>2
<1>2. ASSUME NEW n, ReadCall(t, n)
      PROVE  /\ f_pos[t] # NULL /\ op'[t].pc = "read_lock" /\ "read" \in Calls
             /\ UNCHANGED f_pos /\ loaded /\ loaded'
  BY <1>2 DEF ReadCall, Enter, Ready, Returned, OpShape
<1>3. ASSUME NEW d, WriteCall(t, d) PROVE f_pos[t] # NULL /\ op'[t].pc = "write_lock"
                                          /\ UNCHANGED f_pos /\ loaded /\ loaded'
  BY <1>3 DEF WriteCall, Enter, Ready, Returned, OpShape
<1>4. ASSUME NEW s, IoctlCall(t, s) PROVE f_pos[t] # NULL /\ op'[t].pc = "ioctl_lock"
                                          /\ UNCHANGED f_pos /\ loaded /\ loaded'
  BY <1>4 DEF IoctlCall, Enter, Ready, Returned, OpShape
<1>5. CASE WriteFault(t) \/ IoctlFault(t)
  <2>1. Return(t, Error) /\ UNCHANGED f_pos /\ loaded /\ loaded'
    BY <1>5 DEF WriteFault, IoctlFault, Refuse, Enter, Ready, Return
  <2> QED
    BY <2>1, ReturnEffect
<1>6. ASSUME NEW w, NEW o, LLSeek(t, w, o)
      PROVE  /\ \E p : f_pos' = [f_pos EXCEPT ![t] = p] \/ UNCHANGED f_pos
             /\ op'[t].pc = "idle" /\ loaded /\ loaded'
  <2>1. PICK r : Return(t, r)
    BY <1>6 DEF LLSeek
  <2>2. op'[t].pc = "idle" /\ loaded /\ loaded'
    BY <1>6, <2>1, ReturnEffect DEF LLSeek, Ready
  <2>3. \E p : f_pos' = [f_pos EXCEPT ![t] = p] \/ UNCHANGED f_pos
    BY <1>6 DEF LLSeek
  <2> QED
    BY <2>2, <2>3
<1> QED
  BY <1>1, <1>2, <1>3, <1>4, <1>5, <1>6 DEF AnyCall

\* A step of a handler changes the position only when it returns.
LEMMA StepFile ==
  ASSUME NEW t \in Threads, Step(t), f_pos = [u \in Threads |-> f_pos[u]], OpShape
  PROVE  /\ OthersFiles(t) /\ loaded' = loaded
         /\ op'[t].pc # "idle" => f_pos'[t] = f_pos[t]
<1> USE DEF OthersFiles
<1>1. CASE TakeLock(t)
  BY <1>1 DEF TakeLock, ReadLock, WriteLock, IoctlLock, Lock
<1>2. CASE ReadStep(t)
  <2>1. CASE ReadReturn(t)
    <3>1. op'[t].pc = "idle"
      BY <2>1, ReturnedShape DEF ReadReturn, OpShape
    <3>2. f_pos' = [f_pos EXCEPT ![t] = op[t].pos] /\ loaded' = loaded
      BY <2>1 DEF ReadReturn
    <3> QED
      BY <3>1, <3>2
  <2> QED
    BY <1>2, <2>1 DEF ReadStep, ReadChunk, ReadFault, ReadEnd, Unlock
<1>3. CASE WriteStep(t)
  BY <1>3 DEF WriteStep, WriteCombine, WriteNoMemory, WriteInstall, WriteLine,
              WriteLineNoMemory, WriteReturn, Unlock
<1>4. CASE IoctlSeek(t)
  <2>1. PICK r : Return(t, r)
    BY <1>4 DEF IoctlSeek
  <2>2. op'[t].pc = "idle"
    BY <2>1, ReturnEffect
  <2>3. /\ f_pos' = [f_pos EXCEPT ![t] = Target(t)] \/ UNCHANGED f_pos
        /\ loaded' = loaded
    BY <1>4 DEF IoctlSeek
  <2> QED
    BY <2>2, <2>3
<1>5. CASE Oops(t)
  BY <1>5 DEF Oops
<1> QED
  BY <1>1, <1>2, <1>3, <1>4, <1>5 DEF Step

LEMMA CallKeepsFiles ==
  ASSUME OpShape, FileInv, NEW t \in Threads, AnyCall(t), OthersStay(t)
  PROVE  FileInv'
BY CallFile DEF FileInv, OthersFiles, OthersStay

LEMMA StepKeepsFiles ==
  ASSUME OpShape, FileInv, NEW t \in Threads, Step(t)
  PROVE  FileInv' /\ loaded /\ loaded'
<1>1. OthersStay(t) /\ op[t].pc # "idle"
  BY StepEffect
<1> QED
  BY <1>1, StepFile DEF FileInv, OthersFiles, OthersStay

LEMMA LoadingKeepsFiles ==
  ASSUME OpShape, FileInv, Unload \/ Load \/ LoadFails
  PROVE  FileInv' /\ \A t \in Threads : op[t].pc = "idle"
BY DEF FileInv, Unload, Load, LoadFails

LEMMA InitFiles == Init => FileInv
BY InitShape DEF Init, FileInv

-----------------------------------------------------------------------------
(* Callers that neither read nor close.                                    *)

Reading == {"read_lock", "read_loop", "read_unlock"}

\* Whoever is inside owns dev->lock.
ExclusionInv ==
  /\ OpShape /\ FileInv
  /\ \A t \in Threads : /\ op[t].pc \notin Reading
                        /\ op[t].pc \in Inside => lock = t

\* A handler other than aesd_read does not become one.
LEMMA StepReadsNot ==
  ASSUME NEW t \in Threads, Step(t), OpShape, op[t].pc \notin Reading
  PROVE  op'[t].pc \notin Reading
<1>1. CASE TakeLock(t)
  <2>1. ASSUME NEW from, NEW to \in Inside \ Reading, Lock(t, from, to)
        PROVE  op'[t].pc \notin Reading
    BY <2>1 DEF Lock, Goto, OpShape, Fields
  <2>2. ~ReadLock(t)
    BY DEF ReadLock, Lock, Reading
  <2> QED
    BY <1>1, <2>1, <2>2 DEF TakeLock, WriteLock, IoctlLock, Inside, Reading
<1>2. ~ReadStep(t)
  BY DEF ReadStep, ReadChunk, ReadFault, ReadEnd, ReadReturn, Finding, Reading
<1>3. CASE WriteStep(t)
  <2>1. CASE WriteCombine(t)
    BY <2>1 DEF WriteCombine, OpShape, Fields, Reading
  <2>2. CASE WriteInstall(t)
    BY <2>2 DEF WriteInstall, OpShape, Fields, Reading
  <2>3. CASE WriteLine(t)
    BY <2>3 DEF WriteLine
  <2>4. CASE WriteNoMemory(t) \/ WriteLineNoMemory(t) \/ WriteReturn(t)
    <3>1. PICK r : Return(t, r)
      BY <2>4 DEF WriteNoMemory, WriteLineNoMemory, WriteReturn, Unlock
    <3> QED
      BY <3>1, ReturnEffect DEF Reading
  <2> QED
    BY <1>3, <2>1, <2>2, <2>3, <2>4 DEF WriteStep
<1>4. CASE IoctlSeek(t)
  <2>1. PICK r : Return(t, r)
    BY <1>4 DEF IoctlSeek
  <2> QED
    BY <2>1, ReturnEffect DEF Reading
<1>5. CASE Oops(t)
  BY <1>5 DEF Oops
<1> QED
  BY <1>1, <1>2, <1>3, <1>4, <1>5 DEF Step

LEMMA ExclusionInvNext ==
  ASSUME {"read", "release"} \cap Calls = {}
  PROVE  ExclusionInv /\ [Next]_vars => ExclusionInv'
<1> SUFFICES ASSUME ExclusionInv, [Next]_vars PROVE ExclusionInv'
  OBVIOUS
<1>1. CASE UNCHANGED vars
  BY <1>1 DEF ExclusionInv, FileInv, OpShape, vars
<1>2. CASE Unload \/ Load \/ LoadFails
  <2>1. FileInv' /\ \A t \in Threads : op[t].pc = "idle"
    BY <1>2, LoadingKeepsFiles DEF ExclusionInv
  <2>2. UNCHANGED op
    BY <1>2 DEF Unload, Load, LoadFails
  <2> QED
    BY <2>1, <2>2 DEF ExclusionInv, OpShape, Inside
<1>3. ASSUME NEW t \in Threads, Call(t) PROVE ExclusionInv'
  <2>1. /\ OpShape' /\ OthersStay(t)
        /\ op[t].pc = "idle" /\ op'[t].pc \notin Inside /\ lock' = lock
    BY <1>3, CallBegins, CallLock DEF ExclusionInv
  <2>2. FileInv'
    BY <1>3, <2>1, CallIsAny, CallKeepsFiles DEF ExclusionInv
  <2>3. op'[t].pc \notin Reading
    BY <1>3, CallIsAny, CallFile DEF ExclusionInv, FileInv, Reading
  <2> QED
    BY <2>1, <2>2, <2>3 DEF ExclusionInv, OthersStay
<1>4. ASSUME NEW t \in Threads, Step(t) PROVE ExclusionInv'
  <2>1. OpShape' /\ OthersStay(t) /\ op[t].pc # "idle"
    BY <1>4, StepEffect DEF ExclusionInv
  <2>2. FileInv'
    BY <1>4, StepKeepsFiles DEF ExclusionInv
  <2>3. op'[t].pc \notin Reading
    BY <1>4, StepReadsNot DEF ExclusionInv
  <2>4. ASSUME NEW u \in Threads, op'[u].pc \in Inside PROVE lock' = u
    <3>1. Takes(t) \/ Keeps(t) \/ Leaves(t) \/ Idles
      BY <1>4, StepLock DEF ExclusionInv
    <3>2. CASE Takes(t)
      <4>1. op[u].pc \notin Inside
        BY <3>2, PayloadAssumption DEF Takes, ExclusionInv
      <4> QED
        BY <2>1, <2>4, <3>2, <4>1 DEF Takes, OthersStay
    <3>3. CASE Keeps(t)
      BY <2>1, <2>4, <3>3 DEF Keeps, OthersStay, ExclusionInv
    <3>4. CASE Leaves(t)
      <4>1. op[t].pc \in Inside /\ lock = t /\ u # t
        BY <2>4, <3>4 DEF Leaves, ExclusionInv, Reading
      <4> QED
        BY <2>1, <2>4, <4>1 DEF OthersStay, ExclusionInv
    <3>5. CASE Idles
      BY <2>4, <3>5 DEF Idles, ExclusionInv
    <3> QED
      BY <3>1, <3>2, <3>3, <3>4, <3>5
  <2> QED
    BY <2>1, <2>2, <2>3, <2>4 DEF ExclusionInv, OthersStay
<1> QED
  BY <1>1, <1>2, <1>3, <1>4 DEF Next

\* dev->lock keeps callers of aesd_write, aesd_llseek and the ioctl out of each other's
\* critical sections, whatever fails: the unlocks of aesd_release and of the end of
\* aesd_read are the only ones that free it for others.
THEOREM WritersExclude ==
  ASSUME {"read", "release"} \cap Calls = {}
  PROVE  Spec => []MutualExclusion
<1>1. Init => ExclusionInv
  BY InitShape, InitFiles DEF ExclusionInv, Reading, Inside
<1>2. ExclusionInv => MutualExclusion
  BY DEF ExclusionInv, MutualExclusion
<1> QED
  BY <1>1, <1>2, ExclusionInvNext, PTL DEF Spec

-----------------------------------------------------------------------------
(* The memory.                                                             *)

\* memchr finds a place in the string.
LEMMA LineEndInside ==
  ASSUME NEW S, NEW s \in Seq(S), LineEnd(s) > 0
  PROVE  LineEnd(s) \in 1 .. Len(s)
<1> DEFINE I == {i \in 1 .. Len(s) : s[i] = Newline}
<1>1. LineEnd(s) = IF I # {} THEN Min(I) ELSE 0
  BY DEF LineEnd, SelectInSeq
<1>2. CASE I # {}
  <2>0. I \subseteq Nat
    OBVIOUS
  <2> HIDE DEF I
  <2>1. \E n \in I : \A m \in I : n <= m
    BY <1>2, <2>0, LeastNatural
  <2>2. Min(I) \in I
    BY <2>1 DEF Min
  <2>3. Min(I) \in 1 .. Len(s)
    BY <2>2 DEF I
  <2> QED
    BY <1>1, <1>2, <2>3
<1>3. CASE I = {}
  BY <1>1, <1>3
<1> QED
  BY <1>2, <1>3

\* find_entry finds a slot that is occupied, or nothing.
LEMMA FoundIsPresent ==
  ASSUME NEW b \in Buffer, NEW p, FindEntry(b, p) # NotFound
  PROVE  /\ FindEntry(b, p).slot \in Slot
         /\ b.entry[FindEntry(b, p).slot].buffptr # NULL
<1> DEFINE slot(i)    == After(b.out_offs, i)
           present(i) == b.entry[slot(i)].buffptr # NULL
           size(i)    == IF present(i) THEN b.entry[slot(i)].size ELSE 0
           before     == CHOOSE f : f = [i \in 0..MAX |-> IF i = 0 THEN 0 ELSE f[i-1] + size(i-1)]
           stopped(i) == ~b.full /\ \E j \in 1..i : slot(j) = b.in_offs
           hit(i)     == /\ ~stopped(i)
                         /\ present(i)
                         /\ Covers(p, before[i], size(i))
           hits       == {i \in Slot : hit(i)}
           first      == CHOOSE h \in hits : \A k \in hits : h <= k
<1>1. FindEntry(b, p) = IF hits = {} THEN NotFound
                        ELSE [slot |-> slot(first), offset |-> p - before[first]]
  BY DEF FindEntry
<1>2. hits # {}
  BY <1>1
<1>3. hits \subseteq Nat
  <2>1. hits \subseteq Slot
    OBVIOUS
  <2>2. Slot \subseteq Nat
    BY CapacityAssumption DEF Slot
  <2> QED
    BY <2>1, <2>2
<1>4. first \in hits
  <2>1. \E h \in hits : \A k \in hits : h <= k
    BY <1>2, <1>3, LeastNatural
  <2> HIDE DEF hits
  <2> QED
    BY <2>1
<1>5. first \in Slot /\ present(first)
  BY <1>4
<1>6. slot(first) \in Slot
  <2> HIDE DEF first
  <2>1. first \in Nat /\ b.out_offs \in Nat
    BY <1>5, CapacityAssumption DEF Slot, Buffer
  <2>2. After(b.out_offs, first) \in Slot
    BY <2>1, CapacityAssumption DEF After, Slot
  <2> QED
    BY <2>2
<1> HIDE DEF first, hits
<1> QED
  BY <1>1, <1>2, <1>5, <1>6

-----------------------------------------------------------------------------
(* The invariant.                                                          *)

Allocated == {a \in Blocks : heap[a] # NULL}

HeapShape == /\ heap = [a \in Blocks |-> heap[a]]
             /\ \A a \in Allocated : heap[a] \in Seq(Byte)
             /\ partial \in Blocks \cup {NULL}

\* After aesd_cleanup_module only the pointers of the entries have been cleared.
RingInv ==
  /\ loaded  => ring \in Buffer /\ WellShaped(ring)
  /\ ~loaded => /\ ring.out_offs \in Slot /\ Count(ring) \in 0 .. MAX
                /\ \A i \in Slot : ring.entry[i].buffptr = NULL

\* What a write carries from one step to the next.
WriteLocals ==
  \A t \in Threads :
    /\ op[t].pc \in {"write_lock", "write_combine"} => op[t].data \in Seq(Byte)
    /\ op[t].pc = "write_install" => op[t].block \in Blocks

MemInv == HeapShape /\ RingInv /\ HeapExact /\ WriteLocals /\ NoUseAfterFree

\* Only t is inside, or nobody.
Alone(t) == \A u \in Threads \ {t} : op[u].pc \notin Inside

LEMMA AloneInside ==
  ASSUME MutualExclusion, NEW t \in Threads, op[t].pc \in Inside
  PROVE  Alone(t)
BY DEF MutualExclusion, Alone

\* A thread elsewhere in the driver sees the unfinished line where it belongs.
LEMMA NobodyInstalls ==
  ASSUME NEW t \in Threads, Alone(t), op[t].pc # "write_install"
  PROVE  Installing = {} /\ Unfinished = {partial} \ {NULL}
<1>1. Installing = {}
  BY DEF Installing, Alone, Inside
<1> QED
  BY <1>1 DEF Unfinished

\* A step that touches no memory, and no write that is about to install its block.
LEMMA MemoryKept ==
  ASSUME MemInv, NEW t \in Threads, OthersStay(t),
         UNCHANGED <<ring, partial, heap, loaded, oops>>,
         op[t].pc # "write_install", op'[t].pc # "write_install",
         op'[t].pc \in {"write_lock", "write_combine"} => op'[t].data \in Seq(Byte)
  PROVE  MemInv'
<1>1. Installing' = Installing /\ \A u \in Installing : op'[u].block = op[u].block
  BY DEF Installing, OthersStay
<1>2. Unfinished' = Unfinished
  BY <1>1 DEF Unfinished
<1>3. HeapExact'
  BY <1>2 DEF HeapExact, MemInv, EntryBlocks
<1>4. WriteLocals'
  BY DEF WriteLocals, MemInv, OthersStay
<1> QED
  BY <1>3, <1>4 DEF MemInv, HeapShape, RingInv, NoUseAfterFree, Allocated

-----------------------------------------------------------------------------
(* The steps of a write.                                                   *)

LEMMA CombineKeeps ==
  ASSUME MemInv, OpShape, loaded, NEW t \in Threads, Alone(t), WriteCombine(t)
  PROVE  MemInv'
<1>1. PICK a \in FreeBlocks :
        /\ heap' = [b \in Blocks |-> CASE b = a       -> Combined(Bytes(partial), op[t].data)
                                       [] b = partial -> NULL
                                       [] OTHER       -> heap[b]]
        /\ op'   = [op EXCEPT ![t].pc = "write_install", ![t].block = a]
  BY DEF WriteCombine
<1>2. /\ op[t].pc = "write_combine"
      /\ UNCHANGED <<ring, partial, loaded, oops>>
  BY DEF WriteCombine
<1>3. /\ op'[t].pc = "write_install" /\ op'[t].block = a
      /\ OthersStay(t)
  BY <1>1 DEF OpShape, OthersStay, Fields
<1>4. Unfinished = {partial} \ {NULL}
  BY <1>2, NobodyInstalls
<1>5. Installing' = {t}
  BY <1>3 DEF Installing, Alone, OthersStay, Inside
<1>6. a \in Blocks /\ a # NULL /\ heap[a] = NULL
  BY NullAssumption DEF FreeBlocks
<1>7. Unfinished' = {a}
  BY <1>3, <1>5, <1>6 DEF Unfinished
<1>8. /\ Allocated = EntryBlocks \cup Unfinished
      /\ EntryBlocks \cap Unfinished = {}
      /\ \A i, j \in Slot : ring.entry[i].buffptr = ring.entry[j].buffptr
                            => i = j \/ ring.entry[i] = NoEntry
      /\ \A i \in Slot : ring.entry[i] # NoEntry =>
                           ring.entry[i].size = Len(heap[ring.entry[i].buffptr])
  BY DEF MemInv, HeapExact, Allocated
<1>9. heap'[a] \in Seq(Byte) /\ heap'[a] # NULL
  <2>1. Bytes(partial) \in Seq(Byte)
    BY DEF Bytes, MemInv, HeapShape, Allocated
  <2>2. op[t].data \in Seq(Byte)
    BY <1>2 DEF MemInv, WriteLocals
  <2>3. Combined(Bytes(partial), op[t].data) \in Seq(Byte)
    BY <2>1, <2>2 DEF Combined
  <2>4. heap'[a] = Combined(Bytes(partial), op[t].data)
    <3>1. partial = NULL \/ heap[partial] # NULL
      BY <1>4, <1>8 DEF Allocated
    <3>2. a # partial
      BY <1>6, <3>1
    <3> QED
      BY <1>1, <1>6, <3>2
  <2>5. heap'[a] # NULL
    BY <2>3, <2>4, NullIsNoString
  <2> QED
    BY <2>3, <2>4, <2>5
<1>10. \A b \in Blocks \ {a} : heap'[b] = IF b = partial THEN NULL ELSE heap[b]
  BY <1>1
<1>11. EntryBlocks' = EntryBlocks
  BY <1>2 DEF EntryBlocks
<1>12. /\ EntryBlocks = Allocated \ {partial}
       /\ a \notin EntryBlocks
       /\ \A b \in EntryBlocks : heap'[b] = heap[b]
  <2>1. NULL \notin Allocated /\ a \notin Allocated
    BY <1>6, NullAssumption DEF Allocated
  <2>2. EntryBlocks = Allocated \ {partial}
    BY <1>4, <1>8, <2>1
  <2>3. \A b \in EntryBlocks : b \in Blocks \ {a} /\ b # partial
    BY <2>1, <2>2 DEF Allocated
  <2> QED
    BY <1>10, <2>1, <2>2, <2>3
<1>13. Allocated' = EntryBlocks \cup {a}
  <2>1. \A b \in Blocks \ {a} : b \in Allocated' <=> b \in EntryBlocks
    BY <1>10, <1>12 DEF Allocated
  <2>2. a \in Allocated'
    BY <1>6, <1>9 DEF Allocated
  <2>3. Allocated' \subseteq Blocks /\ EntryBlocks \subseteq Blocks
    BY <1>12 DEF Allocated
  <2> QED
    BY <2>1, <2>2, <2>3
<1>14. ring \in Buffer
  BY DEF MemInv, RingInv
<1>15. HeapExact'
  <2>1. \A i \in Slot : ring.entry[i] # NoEntry => ring.entry[i].buffptr \in EntryBlocks
    BY <1>14, NullAssumption DEF Buffer, Entry, EntryBlocks
  <2> QED
    BY <1>2, <1>7, <1>8, <1>11, <1>12, <1>13, <2>1 DEF HeapExact, Allocated
<1>16. HeapShape'
  BY <1>1, <1>2, <1>9, <1>10 DEF HeapShape, MemInv, Allocated
<1>17. WriteLocals'
  BY <1>3, <1>6 DEF WriteLocals, MemInv, OthersStay
<1> QED
  BY <1>2, <1>15, <1>16, <1>17 DEF MemInv, RingInv, NoUseAfterFree

LEMMA InstallKeeps ==
  ASSUME MemInv, OpShape, loaded, NEW t \in Threads, Alone(t), WriteInstall(t)
  PROVE  MemInv'
<1>1. /\ op[t].pc = "write_install"
      /\ partial' = op[t].block
      /\ op' = [op EXCEPT ![t].pc = "write_loop", ![t].block = NULL]
      /\ UNCHANGED <<ring, heap, loaded, oops>>
  BY DEF WriteInstall
<1>2. op'[t].pc = "write_loop" /\ OthersStay(t)
  BY <1>1 DEF OpShape, OthersStay, Fields
<1>3. Installing = {t} /\ Installing' = {}
  <2>1. Installing = {t}
    BY <1>1 DEF Installing, Alone, Inside
  <2>2. Installing' = {}
    BY <1>2 DEF Installing, Alone, OthersStay, Inside
  <2> QED
    BY <2>1, <2>2
<1>4. op[t].block \in Blocks
  BY <1>1 DEF MemInv, WriteLocals
<1>5. Unfinished' = Unfinished
  BY <1>1, <1>3 DEF Unfinished
<1>6. HeapExact'
  BY <1>1, <1>5 DEF HeapExact, MemInv, EntryBlocks
<1>7. WriteLocals'
  BY <1>2 DEF WriteLocals, MemInv, OthersStay
<1> QED
  BY <1>1, <1>4, <1>6, <1>7
     DEF MemInv, HeapShape, RingInv, NoUseAfterFree, Allocated

-----------------------------------------------------------------------------
(* A line goes from the partial line into the ring.                        *)

\* The blocks of the ring once an entry is added.
LEMMA AddReplaces ==
  ASSUME MemInv, loaded, NEW a \in Blocks, NEW n \in Nat,
         ring' = AddEntry(ring, [buffptr |-> a, size |-> n])
  PROVE  /\ EntryBlocks' = (EntryBlocks \ Evicted(ring)) \cup {a}
         /\ \A i \in Slot \ {ring.in_offs} :
              /\ ring'.entry[i] = ring.entry[i]
              /\ ring.entry[i].buffptr # NULL => ring.entry[i].buffptr \in EntryBlocks \ Evicted(ring)
         /\ ring'.entry[ring.in_offs] = [buffptr |-> a, size |-> n]
<1> DEFINE k == ring.in_offs
           e == [buffptr |-> a, size |-> n]
           Others == {ring.entry[i].buffptr : i \in Slot \ {k}} \ {NULL}
<1>1. ring \in Buffer /\ WellShaped(ring)
  BY DEF MemInv, RingInv
<1>2. e \in Entry
  BY DEF Entry
<1>3. k \in Slot /\ ring'.entry = [ring.entry EXCEPT ![k] = e]
  BY <1>1 DEF AddEntry, Buffer
<1>4. ring.entry \in [Slot -> Entry \cup {NoEntry}]
  BY <1>1 DEF Buffer
<1>5. /\ ring'.entry[k] = e /\ ring'.entry[k].buffptr = a
      /\ \A i \in Slot \ {k} : ring'.entry[i] = ring.entry[i]
  BY <1>3, <1>4
<1>6. EntryBlocks' = Others \cup {a}
  <2>1. a # NULL
    BY NullAssumption
  <2> HIDE DEF k
  <2> QED
    BY <1>3, <1>5, <2>1 DEF EntryBlocks
<1>7. EntryBlocks \ Evicted(ring) = Others
  <2>1. EntryBlocks = (Others \cup {ring.entry[k].buffptr}) \ {NULL}
    <3> HIDE DEF k
    <3> QED
      BY <1>3 DEF EntryBlocks
  <2>2. CASE ring.full
    <3>1. Evicted(ring) = {ring.entry[k].buffptr} \ {NULL}
      BY <2>2 DEF Evicted
    <3>2. \A i \in Slot \ {k} : ring.entry[i].buffptr = ring.entry[k].buffptr
                                => ring.entry[i].buffptr = NULL
      BY <1>3 DEF MemInv, HeapExact, NoEntry
    <3>3. ring.entry[k].buffptr \notin Others
      BY <3>2
    <3> HIDE DEF Others
    <3>4. NULL \notin Others
      BY DEF Others
    <3> QED
      BY <2>1, <3>1, <3>3, <3>4
  <2>3. CASE ~ring.full
    <3>1. Evicted(ring) = {}
      BY <2>3 DEF Evicted
    <3>2. ring.entry[k].buffptr = NULL
      BY <1>1, <1>3, <2>3, CapacityAssumption DEF WellShaped, NoEntry, Slot
    <3>3. NULL \notin Others
      OBVIOUS
    <3> HIDE DEF Others
    <3> QED
      BY <2>1, <3>1, <3>2, <3>3
  <2> QED
    BY <2>2, <2>3
<1> QED
  BY <1>5, <1>6, <1>7

\* The string that a newline has been found in is the partial line.
LEMMA PartialHasLine ==
  ASSUME MemInv, NEW t \in Threads, LoopTest(t, TRUE)
  PROVE  /\ partial \in Blocks /\ heap[partial] \in Seq(Byte)
         /\ heap[partial] # NULL
         /\ LineEnd(heap[partial]) \in 1 .. Len(heap[partial])
<1>1. LineEnd(Bytes(partial)) > 0
  BY DEF LoopTest
<1>2. Bytes(partial) \in Seq(Byte)
  BY DEF Bytes, MemInv, HeapShape, Allocated
<1>3. LineEnd(Bytes(partial)) \in 1 .. Len(Bytes(partial))
  BY <1>1, <1>2, LineEndInside
<1>4. Bytes(partial) # << >>
  BY <1>3
<1> QED
  BY <1>3, <1>4 DEF Bytes, MemInv, HeapShape, Allocated

LEMMA LineKeeps ==
  ASSUME MemInv, loaded, NEW t \in Threads, Alone(t), WriteLine(t)
  PROVE  MemInv'
<1> DEFINE s    == heap[partial]
           n    == LineEnd(s)
           rest == SubSeq(s, n+1, Len(s))
           Old  == EntryBlocks \ Evicted(ring)
<1>1. PICK a \in FreeBlocks :
        /\ ring' = AddEntry(ring, [buffptr |-> a, size |-> n])
        /\ heap' = [b \in Blocks |->
                      CASE b = a             -> SubSeq(s, 1, n)
                        [] b = partial       -> IF rest = << >> THEN NULL ELSE rest
                        [] b \in Evicted(ring) -> NULL
                        [] OTHER             -> heap[b]]
        /\ partial' = Remainder(rest)
  BY DEF WriteLine
<1>2. LoopTest(t, TRUE) /\ UNCHANGED <<op, loaded, oops>>
  BY DEF WriteLine
<1>3. /\ partial \in Blocks /\ s \in Seq(Byte) /\ s # NULL
      /\ n \in 1 .. Len(s)
  BY <1>2, PartialHasLine
<1>4. partial' = (IF rest = << >> THEN NULL ELSE partial)
  BY <1>1 DEF Remainder
<1>5. /\ SubSeq(s, 1, n) \in Seq(Byte) /\ rest \in Seq(Byte)
      /\ Len(SubSeq(s, 1, n)) = n /\ n \in Nat
  <2> HIDE DEF s, n
  <2> QED
    BY <1>3
<1>6. SubSeq(s, 1, n) # NULL /\ rest # NULL
  BY <1>5, NullIsNoString
<1> HIDE DEF s, n, rest
<1>7. /\ Unfinished = {partial}
      /\ Unfinished' = IF rest = << >> THEN {} ELSE {partial}
  <2>1. op[t].pc = "write_loop"
    BY <1>2 DEF LoopTest
  <2>2. Installing = {} /\ Unfinished = {partial} \ {NULL}
    BY <2>1, NobodyInstalls
  <2>3. Installing' = {}
    BY <1>2, <2>2 DEF Installing
  <2>4. Unfinished' = {partial'} \ {NULL}
    BY <2>3 DEF Unfinished
  <2> QED
    BY <1>3, <1>4, <2>2, <2>4, NullAssumption
<1>8. /\ Allocated = EntryBlocks \cup {partial} /\ partial \notin EntryBlocks
      /\ \A i, j \in Slot : ring.entry[i].buffptr = ring.entry[j].buffptr
                            => i = j \/ ring.entry[i] = NoEntry
      /\ \A i \in Slot : ring.entry[i] # NoEntry =>
                           ring.entry[i].size = Len(heap[ring.entry[i].buffptr])
  BY <1>7 DEF MemInv, HeapExact, Allocated
<1>9. /\ ring.in_offs \in Slot /\ ring' \in Buffer /\ WellShaped(ring')
      /\ ring.entry \in [Slot -> Entry \cup {NoEntry}]
  <2>1. [buffptr |-> a, size |-> n] \in Entry
    BY <1>5 DEF Entry, FreeBlocks
  <2> QED
    BY <1>1, <2>1, AddKeepsShape DEF MemInv, RingInv, Buffer
<1>10. /\ EntryBlocks' = Old \cup {a}
       /\ \A i \in Slot \ {ring.in_offs} :
            /\ ring'.entry[i] = ring.entry[i]
            /\ ring.entry[i].buffptr # NULL => ring.entry[i].buffptr \in Old
       /\ ring'.entry[ring.in_offs] = [buffptr |-> a, size |-> n]
  <2>1. a \in Blocks
    BY DEF FreeBlocks
  <2> QED
    BY <1>1, <1>5, <2>1, AddReplaces
<1>11. /\ a \in Blocks /\ a \notin EntryBlocks /\ a # partial
       /\ Old \subseteq EntryBlocks /\ Evicted(ring) \subseteq EntryBlocks
  <2>1. a \in Blocks /\ a \notin Allocated
    BY DEF FreeBlocks, Allocated
  <2>2. Evicted(ring) \subseteq EntryBlocks
    BY <1>9 DEF Evicted, EntryBlocks
  <2> QED
    BY <1>8, <2>1, <2>2
<1> HIDE DEF Old
<1>12. /\ heap' = [b \in Blocks |-> heap'[b]]
       /\ heap'[a] = SubSeq(s, 1, n)
       /\ heap'[partial] = IF rest = << >> THEN NULL ELSE rest
       /\ \A b \in Evicted(ring) : heap'[b] = NULL
       /\ \A b \in Blocks \ {a, partial} : b \notin Evicted(ring) => heap'[b] = heap[b]
  <2>1. heap'[a] = SubSeq(s, 1, n)
    BY <1>1, <1>11
  <2>2. heap'[partial] = IF rest = << >> THEN NULL ELSE rest
    BY <1>1, <1>3, <1>8, <1>11
  <2>3. \A b \in Evicted(ring) : b \in Blocks /\ b # a /\ b # partial
    BY <1>8, <1>11 DEF Allocated
  <2>4. \A b \in Evicted(ring) : heap'[b] = NULL
    BY <1>1, <2>3
  <2> QED
    BY <1>1, <2>1, <2>2, <2>4
<1>13. \A b \in Old : b \in Blocks \ {a, partial} /\ b \notin Evicted(ring) /\ heap'[b] = heap[b]
  BY <1>8, <1>11, <1>12 DEF Old, Allocated
<1>14. Allocated' = EntryBlocks' \cup Unfinished'
  <2>1. ASSUME NEW b \in Blocks PROVE b \in Allocated' <=> b \in EntryBlocks' \cup Unfinished'
    <3>1. b \in Allocated' <=> heap'[b] # NULL
      BY DEF Allocated
    <3>2. CASE b = a
      BY <1>6, <1>10, <1>12, <3>1, <3>2
    <3>3. CASE b = partial
      BY <1>6, <1>7, <1>8, <1>10, <1>11, <1>12, <1>13, <3>1, <3>3
    <3>4. CASE b \in Evicted(ring)
      BY <1>7, <1>8, <1>10, <1>11, <1>12, <1>13, <3>1, <3>4
    <3>5. CASE b \notin Evicted(ring) \cup {a, partial}
      <4>1. b \in Allocated' <=> b \in Allocated
        BY <1>12, <3>1, <3>5 DEF Allocated
      <4>2. b \in Allocated <=> b \in Old
        BY <1>8, <3>5 DEF Old
      <4> QED
        BY <1>7, <1>10, <3>5, <4>1, <4>2
    <3> QED
      BY <3>2, <3>3, <3>4, <3>5
  <2>2. Allocated' \subseteq Blocks
    BY DEF Allocated
  <2>3. EntryBlocks' \cup Unfinished' \subseteq Blocks
    BY <1>3, <1>7, <1>10, <1>11, <1>13
  <2> QED
    BY <2>1, <2>2, <2>3
<1>15. EntryBlocks' \cap Unfinished' = {}
  BY <1>7, <1>8, <1>10, <1>11, <1>13
<1>16. \A i, j \in Slot : ring'.entry[i].buffptr = ring'.entry[j].buffptr
                           => i = j \/ ring'.entry[i] = NoEntry
  <2>1. \A i \in Slot \ {ring.in_offs} : ring'.entry[i].buffptr # a
    BY <1>10, <1>13, NullAssumption, <1>11
  <2>2. ring'.entry[ring.in_offs].buffptr = a
    BY <1>10
  <2> QED
    BY <1>8, <1>10, <2>1, <2>2
<1>17. ASSUME NEW i \in Slot, ring'.entry[i] # NoEntry
       PROVE  ring'.entry[i].size = Len(heap'[ring'.entry[i].buffptr])
  <2>1. CASE i = ring.in_offs
    BY <1>5, <1>10, <1>12, <2>1
  <2>2. CASE i # ring.in_offs
    <3>1. ring.entry[i] # NoEntry /\ ring'.entry[i] = ring.entry[i]
      BY <1>10, <1>17, <2>2
    <3>2. ring.entry[i].buffptr # NULL
      BY <1>9, <3>1, NullAssumption DEF Entry
    <3> QED
      BY <1>8, <1>10, <1>13, <2>2, <3>1, <3>2
  <2> QED
    BY <2>1, <2>2
<1>18. HeapExact'
  BY <1>2, <1>14, <1>15, <1>16, <1>17 DEF HeapExact, Allocated
<1>19. HeapShape'
  <2>1. partial' \in Blocks \cup {NULL}
    BY <1>3, <1>4
  <2>2. ASSUME NEW b \in Blocks, heap'[b] # NULL PROVE heap'[b] \in Seq(Byte)
    BY <1>5, <1>12, <2>2 DEF MemInv, HeapShape, Allocated
  <2> QED
    BY <1>12, <2>1, <2>2 DEF HeapShape, Allocated
<1>20. WriteLocals'
  BY <1>2 DEF WriteLocals, MemInv
<1> QED
  BY <1>2, <1>9, <1>18, <1>19, <1>20 DEF MemInv, RingInv, NoUseAfterFree

LEMMA NoMemoryKeeps ==
  ASSUME MemInv, OpShape, loaded, NEW t \in Threads, Alone(t), WriteLineNoMemory(t)
  PROVE  MemInv'
<1>1. /\ LoopTest(t, TRUE) /\ Return(t, Error)
      /\ heap' = [heap EXCEPT ![partial] = NULL] /\ partial' = NULL
      /\ UNCHANGED <<ring, loaded, oops>>
  BY DEF WriteLineNoMemory
<1>2. partial \in Blocks /\ heap[partial] # NULL
  BY <1>1, PartialHasLine
<1>3. OthersStay(t) /\ op'[t].pc = "idle"
  BY <1>1, ReturnEffect
<1>4. Unfinished = {partial} /\ Unfinished' = {}
  <2>1. op[t].pc = "write_loop"
    BY <1>1 DEF LoopTest
  <2>2. Installing = {} /\ Unfinished = {partial} \ {NULL}
    BY <2>1, NobodyInstalls
  <2>3. Installing' = {}
    BY <1>3, <2>2 DEF Installing, OthersStay
  <2>4. Unfinished' = {partial'} \ {NULL}
    BY <2>3 DEF Unfinished
  <2> QED
    BY <1>1, <1>2, <2>2, <2>4, NullAssumption
<1>5. /\ Allocated = EntryBlocks \cup {partial} /\ partial \notin EntryBlocks
      /\ \A i, j \in Slot : ring.entry[i].buffptr = ring.entry[j].buffptr
                            => i = j \/ ring.entry[i] = NoEntry
      /\ \A i \in Slot : ring.entry[i] # NoEntry =>
                           ring.entry[i].size = Len(heap[ring.entry[i].buffptr])
  BY <1>4 DEF MemInv, HeapExact, Allocated
<1>6. /\ heap' = [b \in Blocks |-> heap'[b]]
      /\ \A b \in Blocks : heap'[b] = IF b = partial THEN NULL ELSE heap[b]
  BY <1>1 DEF MemInv, HeapShape
<1>7. Allocated' = EntryBlocks
  BY <1>5, <1>6 DEF Allocated
<1>8. HeapExact'
  <2>1. \A b \in EntryBlocks : heap'[b] = heap[b]
    BY <1>5, <1>6 DEF Allocated
  <2>2. ring.entry \in [Slot -> Entry \cup {NoEntry}]
    BY DEF MemInv, RingInv, Buffer
  <2>3. \A i \in Slot : ring.entry[i] # NoEntry => ring.entry[i].buffptr \in EntryBlocks
    BY <2>2, NullAssumption DEF Entry, EntryBlocks
  <2>4. EntryBlocks' = EntryBlocks
    BY <1>1 DEF EntryBlocks
  <2> QED
    BY <1>1, <1>4, <1>5, <1>7, <2>1, <2>3, <2>4 DEF HeapExact, Allocated
<1>9. HeapShape'
  BY <1>1, <1>6 DEF MemInv, HeapShape, Allocated
<1>10. WriteLocals'
  BY <1>3 DEF WriteLocals, MemInv, OthersStay
<1> QED
  BY <1>1, <1>8, <1>9, <1>10 DEF MemInv, RingInv, NoUseAfterFree

-----------------------------------------------------------------------------
(* Every step.                                                             *)

\* Nothing that a handler is about to read or free has been freed.
LEMMA AllSound ==
  ASSUME MemInv, loaded, MutualExclusion, NEW t \in Threads
  PROVE  Sound(t)
<1>1. /\ Allocated = EntryBlocks \cup Unfinished
      /\ ring \in Buffer
  BY DEF MemInv, HeapExact, RingInv, Allocated
<1>2. CASE op[t].pc = "read_loop"
  <2>1. ASSUME Found(t) # NotFound PROVE FoundEntry(t).buffptr \in EntryBlocks
    BY <1>1, <2>1, FoundIsPresent DEF Found, FoundEntry, EntryBlocks
  <2> QED
    BY <1>1, <1>2, <2>1 DEF Sound, Touched, Allocated
<1>3. CASE op[t].pc \in {"write_combine", "write_loop"}
  <2>1. Unfinished = {partial} \ {NULL}
    BY <1>3, AloneInside, NobodyInstalls DEF Inside
  <2>2. ring.in_offs \in Slot
    BY <1>1 DEF Buffer
  <2>3. Evicted(ring) \subseteq EntryBlocks
    BY <2>2 DEF Evicted, EntryBlocks
  <2>4. Touched(t) \subseteq Evicted(ring) \cup Unfinished
    BY <1>3, <2>1 DEF Touched
  <2> QED
    BY <1>1, <2>3, <2>4 DEF Sound, Allocated
<1>4. CASE op[t].pc \notin {"read_loop", "write_combine", "write_loop"}
  BY <1>4 DEF Sound, Touched
<1> QED
  BY <1>2, <1>3, <1>4

\* A system call that begins changes no memory.
LEMMA CallKeepsMemory ==
  ASSUME MemInv, OpShape, NEW t \in Threads, AnyCall(t)
  PROVE  MemInv' /\ loaded' = loaded
<1>1. ASSUME NEW r, Return(t, r), op[t].pc = "idle",
             UNCHANGED <<ring, partial, heap, loaded, oops>>
      PROVE  MemInv'
  BY <1>1, ReturnEffect, MemoryKept
<1>2. ASSUME NEW call, NEW locals, Enter(t, call, locals), locals.pc # "write_install",
             locals.pc \in {"write_lock", "write_combine"} => locals.data \in Seq(Byte)
      PROVE  MemInv' /\ loaded' = loaded
  <2>1. /\ op[t].pc = "idle" /\ op' = [op EXCEPT ![t] = locals]
        /\ UNCHANGED <<ring, partial, heap, loaded, oops>>
    BY <1>2 DEF Enter, Ready, device
  <2>2. op'[t] = locals /\ OthersStay(t)
    BY <2>1 DEF OpShape, OthersStay
  <2> QED
    BY <1>2, <2>1, <2>2, MemoryKept
<1>3. CASE Open(t) \/ Release(t)
  <2>1. /\ Return(t, 0) /\ op[t].pc = "idle"
        /\ UNCHANGED <<ring, partial, heap, loaded, oops>>
    BY <1>3 DEF Open, Release, Ready, device
  <2> QED
    BY <1>1, <2>1
<1>4. ASSUME NEW n, ReadCall(t, n) PROVE MemInv' /\ loaded' = loaded
  BY <1>2, <1>4 DEF ReadCall, Returned
<1>5. ASSUME NEW d \in Seq(Byte), WriteCall(t, d) PROVE MemInv' /\ loaded' = loaded
  BY <1>2, <1>5 DEF WriteCall, Returned
<1>6. ASSUME NEW s, IoctlCall(t, s) PROVE MemInv' /\ loaded' = loaded
  BY <1>2, <1>6 DEF IoctlCall, Returned
<1>7. CASE WriteFault(t) \/ IoctlFault(t)
  BY <1>2, <1>7 DEF WriteFault, IoctlFault, Refuse, Returned
<1>8. ASSUME NEW w, NEW o, LLSeek(t, w, o) PROVE MemInv' /\ loaded' = loaded
  <2>1. PICK r : Return(t, r)
    BY <1>8 DEF LLSeek
  <2>2. op[t].pc = "idle" /\ UNCHANGED <<ring, partial, heap, loaded, oops>>
    BY <1>8 DEF LLSeek, Ready, device
  <2> QED
    BY <1>1, <2>1, <2>2
<1> QED
  BY <1>3, <1>4, <1>5, <1>6, <1>7, <1>8 DEF AnyCall

LEMMA StepKeepsMemory ==
  ASSUME MemInv, OpShape, loaded, MutualExclusion, NEW t \in Threads, Step(t)
  PROVE  MemInv' /\ loaded'
<1>1. ASSUME NEW r, Return(t, r), op[t].pc # "write_install",
             UNCHANGED <<ring, partial, heap, loaded, oops>>
      PROVE  MemInv'
  BY <1>1, ReturnEffect, MemoryKept
<1>2. CASE TakeLock(t)
  <2>1. ASSUME NEW from, NEW to, Lock(t, from, to), from # "write_install", to # "write_install",
               to = "write_combine" => from = "write_lock", to # "write_lock"
        PROVE  MemInv' /\ loaded'
    <3>1. /\ op[t].pc = from /\ Goto(t, to)
          /\ UNCHANGED <<ring, partial, heap, loaded, oops>>
      BY <2>1 DEF Lock
    <3>2. OthersStay(t) /\ op'[t].pc = to /\ op'[t].data = op[t].data
      BY <3>1 DEF Goto, OpShape, OthersStay, Fields
    <3>3. op'[t].pc \in {"write_lock", "write_combine"} => op'[t].data \in Seq(Byte)
      BY <2>1, <3>1, <3>2 DEF MemInv, WriteLocals
    <3> QED
      BY <2>1, <3>1, <3>2, <3>3, MemoryKept
  <2> QED
    BY <1>2, <2>1 DEF TakeLock, ReadLock, WriteLock, IoctlLock
<1>3. CASE ReadStep(t)
  <2>1. /\ UNCHANGED <<ring, partial, heap, loaded, oops>>
        /\ op[t].pc \in {"read_loop", "read_unlock"}
    BY <1>3 DEF ReadStep, ReadChunk, ReadFault, ReadEnd, ReadReturn, Finding, Unlock, device
  <2>2. OthersStay(t)
    BY <1>3, StepEffect DEF Step
  <2>3. op'[t].pc \in {"read_loop", "read_unlock", "idle"}
    <3>1. CASE ReadChunk(t)
      BY <3>1, ChunkStays
    <3>2. CASE ReadFault(t)
      BY <3>2, ReturnEffect DEF ReadFault, Unlock
    <3>3. CASE ReadEnd(t)
      BY <3>3 DEF ReadEnd, Goto, OpShape, Fields
    <3>4. CASE ReadReturn(t)
      BY <3>4, ReturnedShape DEF ReadReturn, OpShape
    <3> QED
      BY <1>3, <3>1, <3>2, <3>3, <3>4 DEF ReadStep
  <2> QED
    BY <2>1, <2>2, <2>3, MemoryKept
<1>4. CASE WriteStep(t)
  <2>1. op[t].pc \in Inside
    BY <1>4 DEF WriteStep, WriteCombine, WriteNoMemory, WriteInstall, WriteLine,
                WriteLineNoMemory, WriteReturn, LoopTest, Inside
  <2>2. Alone(t)
    BY <2>1, AloneInside
  <2>3. loaded'
    BY <1>4 DEF WriteStep, WriteCombine, WriteNoMemory, WriteInstall, WriteLine,
                WriteLineNoMemory, WriteReturn, Unlock
  <2>4. CASE WriteNoMemory(t) \/ WriteReturn(t)
    <3>1. PICK r : Unlock(t, r)
      BY <2>4 DEF WriteNoMemory, WriteReturn
    <3>2. op[t].pc # "write_install"
      BY <2>4 DEF WriteNoMemory, WriteReturn, LoopTest
    <3> QED
      BY <1>1, <2>3, <3>1, <3>2 DEF Unlock
  <2> QED
    BY <1>4, <2>2, <2>3, <2>4, CombineKeeps, InstallKeeps, LineKeeps, NoMemoryKeeps DEF WriteStep
<1>5. CASE IoctlSeek(t)
  <2>1. PICK r : Return(t, r)
    BY <1>5 DEF IoctlSeek
  <2>2. op[t].pc # "write_install" /\ UNCHANGED <<ring, partial, heap, loaded, oops>>
    BY <1>5 DEF IoctlSeek
  <2> QED
    BY <1>1, <2>1, <2>2
<1>6. ~Oops(t)
  BY AllSound DEF Oops
<1> QED
  BY <1>2, <1>3, <1>4, <1>5, <1>6 DEF Step

-----------------------------------------------------------------------------
(* Loading and unloading, with nobody in the driver.                       *)

LEMMA EmptyExact ==
  ASSUME ring = EmptyBuffer, partial = NULL, \A t \in Threads : op[t].pc = "idle",
         \A a \in Blocks : heap[a] = NULL
  PROVE  HeapExact
<1>1. EntryBlocks = {} /\ \A i \in Slot : ring.entry[i] = NoEntry
  BY DEF EntryBlocks, EmptyBuffer, NoEntry
<1>2. Unfinished = {}
  BY DEF Unfinished, Installing
<1> QED
  BY <1>1, <1>2 DEF HeapExact

LEMMA LoadingKeepsMemory ==
  ASSUME MemInv, \A t \in Threads : op[t].pc = "idle", Unload \/ Load \/ LoadFails
  PROVE  MemInv'
<1>1. UNCHANGED <<op, oops>>
  BY DEF Unload, Load, LoadFails
<1>2. WriteLocals' /\ NoUseAfterFree'
  BY <1>1 DEF WriteLocals, MemInv, NoUseAfterFree
<1>3. CASE Unload
  <2>1. /\ loaded /\ ~loaded' /\ UNCHANGED partial
        /\ heap' = [a \in Blocks |->
                      IF a = partial \/ \E i \in Slot : ring.entry[i].buffptr = a
                      THEN NULL ELSE heap[a]]
    BY <1>3 DEF Unload
  <2>2. Unfinished = {partial} \ {NULL}
    BY DEF Unfinished, Installing
  <2>3. {a \in Blocks : heap[a] # NULL} = EntryBlocks \cup Unfinished
    BY <2>1 DEF MemInv, HeapExact
  <2>4. \A a \in Blocks : heap'[a] = NULL
    BY <2>1, <2>2, <2>3 DEF EntryBlocks
  <2>5. RingInv'
    <3>1. /\ ring \in Buffer /\ Count(ring) \in 0 .. MAX
          /\ ring' = [ring EXCEPT !.entry = [i \in Slot |-> [ring.entry[i] EXCEPT !.buffptr = NULL]]]
      BY <1>3, ContentsSeq DEF Unload, MemInv, RingInv
    <3>2. ring'.out_offs \in Slot /\ Count(ring') = Count(ring)
      BY <3>1 DEF Buffer, Count
    <3>3. ASSUME NEW i \in Slot PROVE ring'.entry[i].buffptr = NULL
      <4>1. ring.entry[i] \in Entry \cup {NoEntry}
        BY <3>1 DEF Buffer
      <4>2. [ring.entry[i] EXCEPT !.buffptr = NULL].buffptr = NULL
        BY <4>1 DEF Entry, NoEntry
      <4>3. ring'.entry = [j \in Slot |-> [ring.entry[j] EXCEPT !.buffptr = NULL]]
        BY <3>1 DEF Buffer
      <4> QED
        BY <4>2, <4>3
    <3> QED
      BY <2>1, <3>1, <3>2, <3>3 DEF RingInv
  <2> QED
    BY <1>2, <2>1, <2>4, <2>5 DEF MemInv, HeapShape, Allocated, HeapExact
<1>4. CASE Load \/ LoadFails
  <2>1. /\ ~loaded /\ UNCHANGED heap
        /\ ring' = EmptyBuffer /\ partial' = NULL
    BY <1>4 DEF Load, LoadFails
  <2>2. \A a \in Blocks : heap'[a] = NULL
    BY <2>1 DEF MemInv, HeapExact
  <2>3. HeapExact'
    <3>1. CASE loaded'
      <4>1. EntryBlocks' = {} /\ \A i \in Slot : ring'.entry[i] = NoEntry
        BY <2>1 DEF EntryBlocks, EmptyBuffer, NoEntry
      <4>2. Unfinished' = {}
        BY <1>1, <2>1 DEF Unfinished, Installing
      <4> QED
        BY <2>2, <3>1, <4>1, <4>2 DEF HeapExact
    <3>2. CASE ~loaded'
      BY <2>2, <3>2 DEF HeapExact
    <3> QED
      BY <3>1, <3>2
  <2>4. RingInv'
    <3>1. ring'.out_offs \in Slot /\ \A i \in Slot : ring'.entry[i].buffptr = NULL
      BY <2>1, EmptyShape DEF EmptyBuffer, NoEntry, Buffer
    <3>2. Count(ring') \in 0 .. MAX
      BY <2>1, EmptyShape, ContentsSeq
    <3> QED
      BY <2>1, <3>1, <3>2, EmptyShape DEF RingInv
  <2> QED
    BY <1>2, <2>1, <2>2, <2>3, <2>4 DEF MemInv, HeapShape, Allocated
<1> QED
  BY <1>3, <1>4

LEMMA InitMemory == Init => MemInv /\ loaded
<1> SUFFICES ASSUME Init PROVE MemInv /\ loaded
  OBVIOUS
<1>1. \A t \in Threads : op[t].pc = "idle"
  BY InitShape
<1>2. /\ ring = EmptyBuffer /\ partial = NULL /\ loaded /\ oops = FALSE
      /\ heap = [a \in Blocks |-> NULL]
  BY DEF Init
<1>3. HeapExact
  BY <1>1, <1>2, EmptyExact
<1>4. WriteLocals
  BY <1>1 DEF WriteLocals
<1> QED
  BY <1>2, <1>3, <1>4, EmptyShape DEF MemInv, HeapShape, Allocated, RingInv, NoUseAfterFree

-----------------------------------------------------------------------------
\* What the callers of the driver do not disturb as long as they are kept apart.
ApartInv == OpShape /\ FileInv /\ MemInv

LEMMA ApartInvNext == ApartInv /\ MutualExclusion /\ [Next]_vars => ApartInv'
<1> SUFFICES ASSUME ApartInv, MutualExclusion, [Next]_vars PROVE ApartInv'
  OBVIOUS
<1> USE DEF ApartInv
<1>1. CASE UNCHANGED vars
  <2>1. EntryBlocks' = EntryBlocks /\ Unfinished' = Unfinished
    BY <1>1 DEF vars, EntryBlocks, Unfinished, Installing
  <2>2. MemInv'
    BY <1>1, <2>1 DEF vars, MemInv, HeapShape, Allocated, RingInv, HeapExact, WriteLocals,
                      NoUseAfterFree, Count
  <2> QED
    BY <1>1, <2>2 DEF vars, OpShape, FileInv
<1>2. CASE Unload \/ Load \/ LoadFails
  <2>1. UNCHANGED op
    BY <1>2 DEF Unload, Load, LoadFails
  <2> QED
    BY <1>2, <2>1, LoadingKeepsFiles, LoadingKeepsMemory DEF OpShape
<1>3. ASSUME NEW t \in Threads, Call(t) PROVE ApartInv'
  <2>1. AnyCall(t) /\ OpShape' /\ OthersStay(t)
    BY <1>3, CallIsAny, CallBegins, CallLock
  <2> QED
    BY <2>1, CallKeepsFiles, CallKeepsMemory
<1>4. ASSUME NEW t \in Threads, Step(t) PROVE ApartInv'
  BY <1>4, StepEffect, StepKeepsFiles, StepKeepsMemory
<1> QED
  BY <1>1, <1>2, <1>3, <1>4 DEF Next

LEMMA ApartInvInit == Init => ApartInv
BY InitShape, InitFiles, InitMemory DEF ApartInv

\* Whatever its callers do (aesd_open, aesd_release, aesd_read, aesd_write, aesd_llseek,
\* the ioctl, rmmod and insmod) and whatever fails in it: as long as no two of them are in
\* its critical sections at once, every block it has allocated is in the ring or holds
\* the unfinished line, none is in both, leaked, or freed while it is in use.
THEOREM MemoryApart == Spec /\ []MutualExclusion => [](HeapExact /\ NoUseAfterFree)
<1>1. ApartInv => HeapExact /\ NoUseAfterFree
  BY DEF ApartInv, MemInv
<1> QED
  BY <1>1, ApartInvInit, ApartInvNext, PTL DEF Spec

\* A write may end on any of its paths, with any of its kmalloc calls failing, between
\* the calls of other writers (aesd_write, aesd_cleanup_module in main.c): dev->lock then
\* keeps the memory as MemoryApart says.
THEOREM MemoryExact ==
  ASSUME {"read", "release"} \cap Calls = {}
  PROVE  Spec => [](HeapExact /\ NoUseAfterFree)
BY WritersExclude, MemoryApart, PTL

\* A single caller is kept apart by being alone, whatever it calls.
LEMMA OneCallerApart ==
  ASSUME \A t, u \in Threads : t = u
  PROVE  MutualExclusion
BY DEF MutualExclusion

\* One process that does everything a file can be asked to (main.c), with every
\* kmalloc, copy to or from user space and registration failing at any time, loses no
\* memory and uses none that is freed.
THEOREM OneCallerMemoryExact ==
  ASSUME \A t, u \in Threads : t = u
  PROVE  Spec => [](HeapExact /\ NoUseAfterFree)
BY OneCallerApart, MemoryApart, PTL


-----------------------------------------------------------------------------
(* The stream is the lines put end to end, each where its entry starts.    *)

\* The line in a slot of the ring.
LEMMA LineOfEntry ==
  ASSUME MemInv, loaded, NEW k \in 1 .. Count(ring)
  PROVE  LET e == ring.entry[After(ring.out_offs, k-1)]
         IN  /\ After(ring.out_offs, k-1) \in Slot
             /\ e \in Entry /\ e = Contents(ring)[k]
             /\ Lines[k] = heap[e.buffptr] /\ Lines[k] \in Seq(Byte)
             /\ Len(Lines[k]) = e.size /\ e.buffptr \in EntryBlocks
<1> DEFINE i == After(ring.out_offs, k-1)
           e == ring.entry[i]
<1>1. ring \in Buffer /\ WellShaped(ring)
  BY DEF MemInv, RingInv
<1>2. /\ Contents(ring) \in Seq(Entry) /\ Len(Contents(ring)) = Count(ring)
      /\ Count(ring) \in 0 .. MAX /\ Contents(ring)[k] = e /\ ring.out_offs \in Slot
  BY <1>1, ContentsSeq, ContentsEntries DEF Buffer
<1>3. i \in Slot
  <2>1. k-1 \in 0 .. MAX
    BY <1>2, CapacityAssumption
  <2> QED
    BY <1>2, <2>1, AfterValue
<1>4. e \in Entry
  <2> HIDE DEF e
  <2>1. Contents(ring)[k] \in Entry
    BY <1>2
  <2> QED
    BY <1>2, <2>1
<1>5. e # NoEntry /\ e.buffptr \in Blocks /\ e.buffptr # NULL
  BY <1>4, NullAssumption DEF Entry, NoEntry
<1>6. e.buffptr \in EntryBlocks
  <2> HIDE DEF i
  <2> QED
    BY <1>3, <1>5 DEF EntryBlocks
<1>7. /\ e.buffptr \in Allocated
      /\ e.size = Len(heap[e.buffptr])
  BY <1>3, <1>5, <1>6 DEF MemInv, HeapExact, Allocated
<1>8. heap[e.buffptr] \in Seq(Byte) /\ heap[e.buffptr] # NULL
  BY <1>7 DEF MemInv, HeapShape, Allocated
<1>9. Lines[k] = heap[e.buffptr]
  BY <1>2, <1>5, <1>8 DEF Lines, Bytes
<1> QED
  BY <1>2, <1>3, <1>4, <1>6, <1>7, <1>8, <1>9

LEMMA LinesShape ==
  ASSUME MemInv, loaded
  PROVE  /\ Lines \in Seq(Seq(Byte)) /\ Len(Lines) = Count(ring) /\ Count(ring) \in 0 .. MAX
         /\ Sizes(Lines) = EntrySize(ring) /\ EntrySize(ring) \in [0 .. Count(ring)-1 -> Nat]
<1>1. ring \in Buffer /\ WellShaped(ring)
  BY DEF MemInv, RingInv
<1>2. Count(ring) \in 0 .. MAX /\ MAX \in Nat
  BY <1>1, ContentsSeq, CapacityAssumption
<1>3. \A k \in 1 .. Count(ring) : Lines[k] \in Seq(Byte)
  BY LineOfEntry
<1>4. Lines \in [1 .. Count(ring) -> Seq(Byte)]
  BY <1>3 DEF Lines
<1>5. Lines \in Seq(Seq(Byte)) /\ Len(Lines) = Count(ring)
  BY <1>2, <1>4
<1>6. ASSUME NEW i \in 0 .. Count(ring)-1
      PROVE  Len(Lines[i+1]) = ring.entry[After(ring.out_offs, i)].size
  <2>1. i+1 \in 1 .. Count(ring) /\ (i+1)-1 = i
    BY <1>2
  <2> QED
    BY <2>1, LineOfEntry
<1> QED
  BY <1>1, <1>2, <1>5, <1>6, EntrySizeType DEF Sizes, EntrySize

LEMMA StreamStarts ==
  ASSUME MemInv, loaded
  PROVE  \E f : /\ Starts(ring, f) /\ RunningSum(f, Sizes(Lines), Len(Lines))
                /\ Flattened(Stream, Lines, f, Count(ring), Byte)
                /\ Stream \in Seq(Byte) /\ Len(Stream) = f[Count(ring)]
                /\ \A n \in 0 .. Count(ring) : f[n] \in Nat
<1> DEFINE N == Count(ring)
<1>1. /\ Lines \in Seq(Seq(Byte)) /\ Len(Lines) = N /\ N \in Nat
      /\ Sizes(Lines) = EntrySize(ring) /\ EntrySize(ring) \in [0 .. N-1 -> Nat]
  BY LinesShape
<1>2. PICK f : RunningSum(f, EntrySize(ring), N)
  <2> HIDE DEF N
  <2> QED
    BY <1>1, RunningSumExists
<1>3. Flattened(Stream, Lines, f, Len(Lines), Byte)
  <2>1. RunningSum(f, Sizes(Lines), Len(Lines))
    BY <1>1, <1>2
  <2>2. Lines \in Seq(Seq(Byte))
    BY <1>1
  <2> QED
    BY <2>1, <2>2, FlattenValue DEF Stream
<1>4. Stream \in Seq(Byte) /\ Len(Stream) = f[N]
  BY <1>1, <1>3 DEF Flattened
<1>5. \A n \in 0 .. N : f[n] \in Nat
  BY <1>2 DEF RunningSum
<1> QED
  BY <1>1, <1>2, <1>3, <1>4, <1>5 DEF Starts

\* What find_entry finds at a position: the byte of the stream, and in the same block
\* the rest of its line; nothing is found where the stream has ended.
LEMMA FoundByte ==
  ASSUME MemInv, loaded, NEW p \in Nat
  PROVE  LET r == FindEntry(ring, p)
             e == ring.entry[r.slot]
         IN  /\ Stream \in Seq(Byte) /\ Len(Stream) \in Nat
             /\ p >= Len(Stream) => r = NotFound
             /\ p < Len(Stream) =>
                  /\ r # NotFound /\ r.slot \in Slot /\ e \in Entry
                  /\ r.offset \in 0 .. e.size-1
                  /\ heap[e.buffptr] \in Seq(Byte) /\ Len(heap[e.buffptr]) = e.size
                  /\ p + (e.size - r.offset) <= Len(Stream)
                  /\ \A i \in 1 .. e.size - r.offset :
                       Stream[p+i] = heap[e.buffptr][r.offset + i]
<1> DEFINE r == FindEntry(ring, p)
           e == ring.entry[r.slot]
           N == Count(ring)
<1>1. PICK f : /\ Starts(ring, f) /\ RunningSum(f, Sizes(Lines), Len(Lines))
               /\ Flattened(Stream, Lines, f, N, Byte)
               /\ Stream \in Seq(Byte) /\ Len(Stream) = f[N]
               /\ \A n \in 0 .. N : f[n] \in Nat
  BY StreamStarts
<1>2. /\ Lines \in Seq(Seq(Byte)) /\ Len(Lines) = N /\ N \in 0 .. MAX
      /\ ring \in Buffer /\ WellShaped(ring) /\ MAX \in Nat
      /\ EntrySize(ring) \in [0 .. N-1 -> Nat] /\ RunningSum(f, EntrySize(ring), N)
  BY <1>1, LinesShape, CapacityAssumption DEF MemInv, RingInv, Starts
<1>3. Len(Stream) \in Nat
  BY <1>1
<1>4. p >= Len(Stream) => r = NotFound
  BY <1>1, <1>2, FindsEntry
<1>5. ASSUME p < Len(Stream)
      PROVE  /\ r # NotFound /\ r.slot \in Slot /\ e \in Entry
             /\ r.offset \in 0 .. e.size-1
             /\ heap[e.buffptr] \in Seq(Byte) /\ Len(heap[e.buffptr]) = e.size
             /\ p + (e.size - r.offset) <= Len(Stream)
             /\ \A i \in 1 .. e.size - r.offset :
                  Stream[p+i] = heap[e.buffptr][r.offset + i]
  <2>1. PICK k \in 1 .. N : f[k-1] <= p /\ p < f[k]
    <3> HIDE DEF N
    <3>1. p < f[N] /\ N \in Nat
      BY <1>1, <1>2, <1>5
    <3> QED
      BY <1>2, <3>1, RunningSumCovers
  <2>2. r = [slot |-> After(ring.out_offs, k-1), offset |-> p - f[k-1]]
    BY <1>1, <1>2, <2>1, FindsEntry
  <2>3. /\ After(ring.out_offs, k-1) \in Slot /\ e \in Entry
        /\ Lines[k] = heap[e.buffptr] /\ Lines[k] \in Seq(Byte) /\ Len(Lines[k]) = e.size
    BY <2>2, LineOfEntry
  <2>4. r.slot \in Slot /\ r # NotFound /\ r.offset = p - f[k-1]
    BY <1>2, <2>2, <2>3 DEF NotFound, Slot
  <2> HIDE DEF r, e
  <2>5. k \in 1 .. Len(Lines) /\ k \in 0 .. N /\ N \in k .. N
    BY <1>2
  <2>6. f[k-1] \in Nat /\ f[k] \in Nat /\ f[k] = f[k-1] + e.size /\ e.size \in Nat
    <3>1. /\ f[k-1] \in Nat /\ f[k] \in Nat /\ Len(Lines[k]) \in Nat
          /\ f[k] = f[k-1] + Len(Lines[k])
      <4>1. Lines \in Seq(Seq(Byte)) /\ RunningSum(f, Sizes(Lines), Len(Lines))
        BY <1>1, <1>2
      <4> QED
        BY <2>5, <4>1, PieceFacts
    <3> QED
      BY <2>3, <3>1
  <2>7. f[k] <= f[N]
    <3> HIDE DEF N
    <3>1. N \in Nat
      BY <1>2
    <3> QED
      BY <1>2, <2>5, <3>1, RunningSumGrows
  <2>8. f[N] \in Nat /\ f[N] = Len(Stream)
    BY <1>1, <1>3
  <2>10. /\ r.offset \in 0 .. e.size-1
         /\ p + (e.size - r.offset) <= Len(Stream)
         /\ \A i \in 1 .. e.size - r.offset :
              r.offset + i \in 1 .. e.size /\ f[k-1] + (r.offset + i) = p + i
    <3>1. r.offset \in Int
      BY <2>4, <2>6
    <3>2. /\ r.offset \in 0 .. e.size-1 /\ p + (e.size - r.offset) <= f[N]
          /\ \A i \in 1 .. e.size - r.offset :
               r.offset + i \in 1 .. e.size /\ f[k-1] + (r.offset + i) = p + i
      <4> DEFINE x == f[k-1]
                 y == f[k]
                 z == f[N]
                 o == r.offset
                 m == e.size
      <4>1. /\ x \in Nat /\ y \in Nat /\ z \in Nat /\ m \in Nat /\ o \in Int
            /\ y = x + m /\ y <= z /\ x <= p /\ p < y /\ o = p - x
        BY <2>1, <2>4, <2>6, <2>7, <2>8, <3>1
      <4> HIDE DEF x, y, z, o, m
      <4>2. /\ o \in 0 .. m-1 /\ p + (m - o) <= z
            /\ \A i \in 1 .. m - o : o + i \in 1 .. m /\ x + (o + i) = p + i
        BY <4>1
      <4> QED
        BY <4>2 DEF x, y, z, o, m
    <3> QED
      BY <2>8, <3>2
  <2>11. ASSUME NEW i \in 1 .. e.size - r.offset
         PROVE  Stream[p+i] = heap[e.buffptr][r.offset + i]
    <3>1. \A o \in 1 .. Len(Lines[k]) : Stream[f[k-1] + o] = Lines[k][o]
      BY <1>1, <2>1 DEF Flattened
    <3>2. r.offset + i \in 1 .. Len(Lines[k]) /\ f[k-1] + (r.offset + i) = p + i
      BY <2>3, <2>10
    <3>3. Stream[f[k-1] + (r.offset + i)] = Lines[k][r.offset + i]
      BY <3>1, <3>2
    <3> QED
      BY <2>3, <3>2, <3>3
  <2> QED
    BY <2>3, <2>4, <2>10, <2>11
<1> QED
  BY <1>1, <1>3, <1>4, <1>5

-----------------------------------------------------------------------------
(* Seeks.                                                                  *)

\* The position that the ioctl computes is where the byte of the command is in the
\* stream.
LEMMA SeekValue ==
  ASSUME MemInv, loaded, NEW cmd \in Nat, NEW offset \in Nat, NEW f, Starts(ring, f)
  PROVE  SeekPosition(ring, cmd, offset) =
           IF cmd < Count(ring) /\ offset < Len(Lines[cmd+1]) THEN f[cmd] + offset ELSE NULL
<1> DEFINE e(i)   == ring.entry[SlotOfCommand(ring, i)]
           Rec(g) == g = [i \in 0..cmd |-> IF i = 0 THEN 0 ELSE g[i-1] + e(i-1).size]
           start  == CHOOSE g : Rec(g)
           sz     == [i \in 0 .. cmd-1 |-> e(i).size]
           N      == Count(ring)
<1>1. SeekPosition(ring, cmd, offset) =
        IF cmd < N /\ (\A i \in 0..cmd : e(i).buffptr # NULL) /\ offset < e(cmd).size
        THEN start[cmd] + offset ELSE NULL
  BY DEF SeekPosition
<1>2. /\ ring \in Buffer /\ WellShaped(ring) /\ N \in 0 .. MAX /\ MAX \in Nat
      /\ RunningSum(f, EntrySize(ring), N)
  BY LinesShape, CapacityAssumption DEF MemInv, RingInv, Starts
<1>3. CASE ~(cmd < N)
  BY <1>1, <1>3
<1>4. CASE cmd < N
  <2>1. ASSUME NEW i \in 0 .. cmd
        PROVE  /\ e(i) \in Entry /\ e(i).buffptr # NULL /\ e(i).size \in Nat
               /\ Len(Lines[i+1]) = e(i).size
    <3>1. i+1 \in 1 .. N /\ (i+1)-1 = i
      BY <1>2, <1>4
    <3>2. e(i) \in Entry /\ Len(Lines[i+1]) = e(i).size
      BY <3>1, LineOfEntry DEF SlotOfCommand
    <3> QED
      BY <3>2, NullAssumption DEF Entry
  <2>2. sz \in [0 .. cmd-1 -> Nat]
    BY <2>1
  <2>3. \A i \in 1 .. cmd : i-1 \in 0 .. cmd-1 /\ sz[i-1] = e(i-1).size
    OBVIOUS
  <2>4. RunningSum(start, sz, cmd)
    <3>1. PICK g : RunningSum(g, sz, cmd)
      <4> HIDE DEF sz
      <4> QED
        BY <2>2, RunningSumExists
    <3>2. Rec(g)
      <4> HIDE DEF sz, e
      <4>1. \A i \in 0 .. cmd : g[i] = IF i = 0 THEN 0 ELSE g[i-1] + e(i-1).size
        BY <2>3, <3>1 DEF RunningSum
      <4>2. g = [i \in 0 .. cmd |-> g[i]]
        BY <3>1 DEF RunningSum
      <4> QED
        BY <4>1, <4>2
    <3>3. Rec(start)
      <4> HIDE DEF Rec
      <4> QED
        BY <3>2
    <3>4. start = [i \in 0..cmd |-> IF i = 0 THEN 0 ELSE start[i-1] + sz[i-1]]
      <4> HIDE DEF start
      <4>1. start = [i \in 0..cmd |-> IF i = 0 THEN 0 ELSE start[i-1] + e(i-1).size]
        BY <3>3
      <4> HIDE DEF sz, e
      <4>2. \A i \in 0 .. cmd : (IF i = 0 THEN 0 ELSE start[i-1] + e(i-1).size)
                                = (IF i = 0 THEN 0 ELSE start[i-1] + sz[i-1])
        BY <2>3
      <4> QED
        BY <4>1, <4>2
    <3> HIDE DEF start, sz, Rec
    <3> QED
      BY <2>2, <3>4, RunningSumType
  <2>5. f[cmd] = start[cmd]
    <3>1. \A i \in 0 .. cmd-1 : EntrySize(ring)[i] = sz[i]
      <4> SUFFICES ASSUME NEW i \in 0 .. cmd-1 PROVE EntrySize(ring)[i] = sz[i]
        OBVIOUS
      <4>1. i \in 0 .. N-1
        BY <1>2, <1>4
      <4> QED
        BY <4>1 DEF EntrySize, SlotOfCommand
    <3>2. N \in Nat /\ cmd <= N /\ cmd \in 0 .. cmd
      BY <1>2, <1>4
    <3> HIDE DEF start, sz, N
    <3> QED
      BY <1>2, <2>4, <3>1, <3>2, RunningSumUnique
  <2>6. (\A i \in 0..cmd : e(i).buffptr # NULL) /\ e(cmd).size = Len(Lines[cmd+1])
    BY <2>1
  <2> HIDE DEF start, e
  <2> QED
    BY <1>1, <1>4, <2>5, <2>6
<1> QED
  BY <1>3, <1>4

\* A position computed by the ioctl is a number.
LEMMA SeekType ==
  ASSUME MemInv, loaded, NEW cmd \in Nat, NEW offset \in Nat
  PROVE  SeekPosition(ring, cmd, offset) = NULL \/ SeekPosition(ring, cmd, offset) \in Nat
<1>1. PICK f : Starts(ring, f) /\ \A n \in 0 .. Count(ring) : f[n] \in Nat
  BY StreamStarts
<1>2. ASSUME cmd < Count(ring) PROVE f[cmd] + offset \in Nat
  <2>1. cmd \in 0 .. Count(ring)
    BY <1>2, LinesShape, CapacityAssumption
  <2>2. f[cmd] \in Nat
    BY <1>1, <2>1
  <2> QED
    BY <2>2
<1> QED
  BY <1>1, <1>2, SeekValue

LEMMA SeekFinds == MemInv => SeekFindsCommand
<1> SUFFICES ASSUME MemInv, NEW c \in 0..MAX, NEW o \in 0 .. Len(Stream)
             PROVE  LET pos == SeekPosition(ring, c, o)
                    IN  IF c < Len(Lines) /\ o < Len(Lines[c+1])
                        THEN FindEntry(ring, pos) = [slot |-> After(ring.out_offs, c), offset |-> o]
                        ELSE pos = NULL
  BY DEF SeekFindsCommand
<1>0. MAX \in Nat /\ MAX > 0 /\ c \in Nat
  BY CapacityAssumption
<1>1. CASE loaded
  <2> DEFINE N == Count(ring)
  <2>1. PICK f : /\ Starts(ring, f) /\ RunningSum(f, Sizes(Lines), Len(Lines))
                 /\ Stream \in Seq(Byte) /\ \A n \in 0 .. N : f[n] \in Nat
    BY <1>1, StreamStarts
  <2>2. /\ Lines \in Seq(Seq(Byte)) /\ Len(Lines) = N /\ N \in 0 .. MAX
        /\ ring \in Buffer /\ WellShaped(ring)
    BY <1>1, LinesShape DEF MemInv, RingInv
  <2>3. o \in Nat
    <3>1. Len(Stream) \in Nat
      BY <2>1
    <3> QED
      BY <3>1
  <2>4. SeekPosition(ring, c, o) = IF c < N /\ o < Len(Lines[c+1]) THEN f[c] + o ELSE NULL
    BY <1>0, <1>1, <2>1, <2>3, SeekValue
  <2>5. ASSUME c < N, o < Len(Lines[c+1])
        PROVE  FindEntry(ring, f[c] + o) = [slot |-> After(ring.out_offs, c), offset |-> o]
    <3> DEFINE k == c + 1
               p == f[c] + o
    <3>1. k \in 1 .. N /\ k \in 1 .. Len(Lines) /\ k-1 = c
      BY <1>0, <2>2, <2>5
    <3>2. /\ f[k-1] \in Nat /\ Len(Lines[k]) \in Nat
          /\ f[k] = f[k-1] + Len(Lines[k])
      <4> HIDE DEF k, N
      <4>1. \A i \in 1 .. Len(Lines) :
              /\ Lines[i] \in Seq(Byte) /\ Len(Lines[i]) \in Nat
              /\ f[i-1] \in Nat /\ f[i] \in Nat /\ f[i] = f[i-1] + Len(Lines[i])
        <5>1. Lines \in Seq(Seq(Byte)) /\ RunningSum(f, Sizes(Lines), Len(Lines))
          BY <2>1, <2>2
        <5> QED
          BY <5>1, PieceFacts
      <4> QED
        BY <3>1, <4>1
    <3>3. p \in Nat /\ f[k-1] <= p /\ p < f[k] /\ p - f[k-1] = o
      <4>1. f[k-1] = f[c]
        BY <3>1
      <4>2. o < Len(Lines[k])
        BY <2>5
      <4> DEFINE x == f[c]
                 y == Len(Lines[k])
                 z == f[k]
      <4>3. x \in Nat /\ y \in Nat /\ z = x + y /\ o < y
        BY <3>2, <4>1, <4>2
      <4>4. p = x + o /\ f[k-1] = x
        BY <4>1
      <4> HIDE DEF x, y, z, k, p
      <4>5. p \in Nat /\ x <= p /\ p < z /\ p - x = o
        BY <2>3, <4>3, <4>4
      <4> QED
        BY <4>4, <4>5 DEF z
    <3> HIDE DEF k, p
    <3>4. FindEntry(ring, p) = [slot |-> After(ring.out_offs, k-1), offset |-> p - f[k-1]]
      BY <2>1, <2>2, <3>1, <3>3, FindsEntry
    <3> QED
      BY <3>1, <3>3, <3>4 DEF p
  <2> QED
    BY <2>2, <2>4, <2>5
<1>2. CASE ~loaded
  <2>1. /\ ring.out_offs \in Slot /\ Count(ring) \in 0 .. MAX
        /\ \A i \in Slot : ring.entry[i].buffptr = NULL
    BY <1>2 DEF MemInv, RingInv
  <2>2. ASSUME NEW i \in Slot PROVE ring.entry[After(ring.out_offs, i)].buffptr = NULL
    <3>1. i \in 0 .. MAX
      BY <1>0 DEF Slot
    <3> QED
      BY <2>1, <3>1, AfterValue
  <2>3. \A k \in 1 .. Count(ring) : Lines[k] = << >>
    <3> SUFFICES ASSUME NEW k \in 1 .. Count(ring) PROVE Lines[k] = << >>
      OBVIOUS
    <3>1. k-1 \in Slot
      BY <1>0, <2>1 DEF Slot
    <3>2. Contents(ring)[k].buffptr = NULL
      BY <2>2, <3>1 DEF Contents
    <3> QED
      BY <3>2, NullAssumption DEF Lines, Bytes
  <2>4. Len(Lines) = Count(ring)
    <3>1. Count(ring) \in Nat
      BY <1>0, <2>1
    <3> QED
      BY <3>1 DEF Lines
  <2>5. ~(c < Len(Lines) /\ o < Len(Lines[c+1]))
    <3> SUFFICES ASSUME c < Len(Lines), o < Len(Lines[c+1]) PROVE FALSE
      OBVIOUS
    <3>1. \A k \in 1 .. Count(ring) : Lines[k] \in Seq(Byte)
      <4>1. << >> \in Seq(Byte)
        OBVIOUS
      <4> QED
        BY <2>3, <4>1
    <3>2. Lines \in Seq(Seq(Byte))
      <4>1. Count(ring) \in Nat
        BY <1>0, <2>1
      <4>2. Lines \in [1 .. Count(ring) -> Seq(Byte)]
        BY <3>1 DEF Lines
      <4> QED
        BY <4>1, <4>2
    <3>3. c+1 \in 1 .. Count(ring)
      BY <1>0, <2>1, <2>4
    <3>4. Len(Lines[c+1]) = 0
      BY <2>3, <3>3
    <3>5. Len(Stream) \in Nat
      <4>1. PICK f : RunningSum(f, Sizes(Lines), Len(Lines))
        <5>1. Len(Lines) \in Nat /\ Sizes(Lines) \in [0 .. Len(Lines)-1 -> Nat]
          <6>1. \A i \in 0 .. Len(Lines)-1 : Len(Lines[i+1]) = 0
            <7> SUFFICES ASSUME NEW i \in 0 .. Len(Lines)-1 PROVE Len(Lines[i+1]) = 0
              OBVIOUS
            <7>1. i+1 \in 1 .. Count(ring)
              BY <1>0, <2>1, <2>4
            <7> QED
              BY <2>3, <7>1
          <6> QED
            BY <1>0, <2>1, <2>4, <6>1 DEF Sizes
        <5> QED
          BY <5>1, RunningSumExists
      <4>2. Flattened(Stream, Lines, f, Len(Lines), Byte)
        BY <3>2, <4>1, FlattenValue DEF Stream
      <4> QED
        BY <4>2 DEF Flattened
    <3>6. o \in Nat
      BY <3>5
    <3> QED
      BY <3>4, <3>6
  <2>6. ASSUME c < Count(ring) PROVE ring.entry[SlotOfCommand(ring, 0)].buffptr = NULL
    <3>1. 0 \in Slot
      BY <1>0 DEF Slot
    <3> QED
      BY <2>2, <3>1 DEF SlotOfCommand
  <2>7. SeekPosition(ring, c, o) = NULL
    <3>1. 0 \in 0 .. c
      BY <1>0
    <3>2. c < Count(ring) => ~ \A i \in 0 .. c : ring.entry[SlotOfCommand(ring, i)].buffptr # NULL
      BY <2>6, <3>1
    <3> DEFINE start == CHOOSE g : g = [i \in 0..c |-> IF i = 0 THEN 0
                                      ELSE g[i-1] + ring.entry[SlotOfCommand(ring, i-1)].size]
    <3>3. SeekPosition(ring, c, o) =
            IF /\ c < Count(ring)
               /\ \A i \in 0..c : ring.entry[SlotOfCommand(ring, i)].buffptr # NULL
               /\ o < ring.entry[SlotOfCommand(ring, c)].size
            THEN start[c] + o ELSE NULL
      BY DEF SeekPosition
    <3> HIDE DEF start
    <3> QED
      BY <3>2, <3>3
  <2> QED
    BY <2>5, <2>7
<1> QED
  BY <1>1, <1>2

\* AESDCHAR_IOCSEEKTO agrees with aesd_read about where every byte of every kept line
\* is, and refuses the commands and the bytes that are not there.
THEOREM SeeksFindCommands == Spec /\ []MutualExclusion => []SeekFindsCommand
<1>1. ApartInv => SeekFindsCommand
  BY SeekFinds DEF ApartInv
<1> QED
  BY <1>1, ApartInvInit, ApartInvNext, PTL DEF Spec

-----------------------------------------------------------------------------
(* Types.                                                                  *)

\* A thread's place in the driver and its file.
Typed(t) ==
  /\ f_pos[t] = NULL \/ f_pos[t] \in Nat
  /\ op[t].pc \in Control /\ op[t].block \in Blocks \cup {NULL}
  /\ op[t].pos \in Nat /\ op[t].count \in Nat /\ op[t].ret \in Int
  /\ op[t].data \in Seq(Byte) /\ op[t].seek \in Nat \X Nat

LEMMA ReturnedTyped ==
  ASSUME NEW t \in Threads, NEW r \in Int, NEW d \in Seq(Byte), op'[t] = Returned(r, d),
         f_pos'[t] = NULL \/ f_pos'[t] \in Nat
  PROVE  Typed(t)'
BY DEF Typed, Returned, Control

LEMMA NoBytes == << >> \in Seq(Byte) /\ Len(<< >>) = 0
OBVIOUS

LEMMA ReturnTyped ==
  ASSUME NEW t \in Threads, NEW r \in Int, Return(t, r), OpShape,
         f_pos'[t] = NULL \/ f_pos'[t] \in Nat
  PROVE  Typed(t)'
<1>1. op'[t] = Returned(r, << >>)
  BY DEF Return, OpShape
<1> QED
  BY <1>1, NoBytes, ReturnedTyped

LEMMA CallTyped ==
  ASSUME OpShape, f_pos = [u \in Threads |-> f_pos[u]], NEW t \in Threads, AnyCall(t), Typed(t)
  PROVE  Typed(t)'
<1>0. Error \in Int
  BY DEF Error
<1>1. ASSUME NEW call, NEW locals, Enter(t, call, locals),
             locals.pc \in Control, locals.block = NULL,
             locals.pos \in Nat, locals.count \in Nat, locals.ret \in Int,
             locals.data \in Seq(Byte), locals.seek \in Nat \X Nat
      PROVE  Typed(t)'
  <2>1. op'[t] = locals /\ f_pos' = f_pos
    BY <1>1 DEF Enter, OpShape
  <2> QED
    BY <1>1, <2>1 DEF Typed
<1>2. CASE Open(t)
  <2>1. Return(t, 0) /\ f_pos'[t] = 0
    BY <1>2 DEF Open
  <2> QED
    BY <2>1, ReturnTyped
<1>3. CASE Release(t)
  <2>1. Return(t, 0) /\ f_pos'[t] = NULL
    BY <1>3 DEF Release
  <2> QED
    BY <2>1, ReturnTyped
<1>4. ASSUME NEW n \in Nat, ReadCall(t, n) PROVE Typed(t)'
  <2>1. f_pos[t] \in Nat
    BY <1>4 DEF ReadCall, Enter, Ready, Typed
  <2> DEFINE locals == [Returned(0, << >>) EXCEPT !.pc = "read_lock", !.pos = f_pos[t],
                                                    !.count = n]
  <2>2. /\ locals.pc = "read_lock" /\ locals.block = NULL /\ locals.pos = f_pos[t]
        /\ locals.count = n /\ locals.ret = 0 /\ locals.data \in Seq(Byte) /\ locals.seek = <<0, 0>>
    BY NoBytes DEF Returned
  <2>3. "read_lock" \in Control /\ <<0, 0>> \in Nat \X Nat
    BY DEF Control, Waiting
  <2>4. Enter(t, "read", locals)
    BY <1>4 DEF ReadCall
  <2> HIDE DEF locals
  <2> QED
    BY <1>1, <2>1, <2>2, <2>3, <2>4
<1>5. ASSUME NEW d \in Seq(Byte), WriteCall(t, d) PROVE Typed(t)'
  <2> DEFINE locals == [Returned(0, d) EXCEPT !.pc = "write_lock"]
  <2>1. /\ locals.pc = "write_lock" /\ locals.block = NULL /\ locals.pos = 0
        /\ locals.count = 0 /\ locals.ret = 0 /\ locals.data = d /\ locals.seek = <<0, 0>>
    BY DEF Returned
  <2>2. "write_lock" \in Control /\ <<0, 0>> \in Nat \X Nat
    BY DEF Control, Waiting
  <2>3. Enter(t, "write", locals)
    BY <1>5 DEF WriteCall
  <2> HIDE DEF locals
  <2> QED
    BY <1>1, <2>1, <2>2, <2>3
<1>6. ASSUME NEW s \in Nat \X Nat, IoctlCall(t, s) PROVE Typed(t)'
  <2> DEFINE locals == [Returned(0, << >>) EXCEPT !.pc = "ioctl_lock", !.seek = s]
  <2>1. /\ locals.pc = "ioctl_lock" /\ locals.block = NULL /\ locals.pos = 0
        /\ locals.count = 0 /\ locals.ret = 0 /\ locals.data \in Seq(Byte) /\ locals.seek = s
    BY NoBytes DEF Returned
  <2>2. "ioctl_lock" \in Control
    BY DEF Control, Waiting
  <2>3. Enter(t, "ioctl", locals)
    BY <1>6 DEF IoctlCall
  <2> HIDE DEF locals
  <2> QED
    BY <1>1, <2>1, <2>2, <2>3
<1>7. CASE WriteFault(t) \/ IoctlFault(t)
  <2>1. Return(t, Error) /\ f_pos' = f_pos
    BY <1>7 DEF WriteFault, IoctlFault, Refuse, Enter, Return
  <2> QED
    BY <1>0, <2>1, ReturnTyped DEF Typed
<1>8. ASSUME NEW w \in Whence, NEW o \in Int, LLSeek(t, w, o) PROVE Typed(t)'
  <2> DEFINE new_pos == NewPosition(t, w, o)
  <2>1. f_pos[t] \in Nat
    BY <1>8 DEF LLSeek, Ready, Typed
  <2>2. new_pos \in Int
    BY <2>1, CapacityAssumption DEF NewPosition, Whence
  <2>3. IF Negative(new_pos)
        THEN Return(t, Error)   /\ UNCHANGED f_pos
        ELSE Return(t, new_pos) /\ f_pos' = [f_pos EXCEPT ![t] = new_pos]
    BY <1>8 DEF LLSeek
  <2> HIDE DEF new_pos
  <2>4. CASE Negative(new_pos)
    BY <1>0, <2>3, <2>4, ReturnTyped DEF Typed
  <2>5. CASE ~Negative(new_pos)
    <3>1. new_pos \in Nat
      BY <2>2, <2>5 DEF Negative
    <3>2. f_pos'[t] = new_pos
      BY <2>3, <2>5
    <3> QED
      BY <2>2, <2>3, <2>5, <3>1, <3>2, ReturnTyped
  <2> QED
    BY <2>4, <2>5
<1> QED
  BY <1>2, <1>3, <1>4, <1>5, <1>6, <1>7, <1>8 DEF AnyCall

-----------------------------------------------------------------------------
(* One iteration of aesd_read.                                             *)

LEMMA ChunkFacts ==
  ASSUME MemInv, OpShape, loaded, NEW t \in Threads, Typed(t), ReadChunk(t)
  PROVE  \E n \in Nat :
           /\ n > 0 /\ n <= op[t].count
           /\ op[t].pos + n <= Len(Stream) /\ Stream \in Seq(Byte)
           /\ op'[t] = [op[t] EXCEPT
                          !.data = op[t].data \o SubSeq(Stream, op[t].pos + 1, op[t].pos + n),
                          !.pos = op[t].pos + n, !.count = op[t].count - n]
           /\ UNCHANGED <<device, f_pos, loaded, oops>>
<1> DEFINE p == op[t].pos
           r == FindEntry(ring, p)
           e == ring.entry[r.slot]
           o == r.offset
           n == IF op[t].count < e.size - o THEN op[t].count ELSE e.size - o
           text == heap[e.buffptr]
<1>1. /\ op[t].count > 0 /\ r # NotFound
      /\ op' = [op EXCEPT ![t].data = @ \o Copied(e.buffptr, o, n),
                          ![t].pos = @ + n, ![t].count = @ - n]
      /\ UNCHANGED <<device, f_pos, loaded, oops>>
  BY DEF ReadChunk, Finding, Found, FoundEntry
<1>2. p \in Nat /\ op[t].count \in Nat
  BY DEF Typed
<1>3. /\ Stream \in Seq(Byte) /\ Len(Stream) \in Nat
      /\ p < Len(Stream)
      /\ e \in Entry /\ o \in 0 .. e.size-1
      /\ text \in Seq(Byte) /\ Len(text) = e.size
      /\ p + (e.size - o) <= Len(Stream)
      /\ \A i \in 1 .. e.size - o : Stream[p+i] = text[o + i]
  <2> HIDE DEF p
  <2>1. /\ Stream \in Seq(Byte) /\ Len(Stream) \in Nat
        /\ p >= Len(Stream) => r = NotFound
        /\ p < Len(Stream) =>
             /\ e \in Entry /\ o \in 0 .. e.size-1
             /\ text \in Seq(Byte) /\ Len(text) = e.size
             /\ p + (e.size - o) <= Len(Stream)
             /\ \A i \in 1 .. e.size - o : Stream[p+i] = text[o + i]
    BY <1>2, FoundByte
  <2>2. p < Len(Stream)
    <3> HIDE DEF r, e, o, text
    <3> QED
      BY <1>1, <1>2, <2>1
  <2> QED
    BY <2>1, <2>2
<1>4. e.size \in Nat
  BY <1>3 DEF Entry
<1> HIDE DEF p, e, o, text
<1>5. /\ n \in Nat /\ n <= op[t].count /\ n <= e.size - o /\ o + n <= e.size /\ o \in Nat
      /\ p + n <= Len(Stream) /\ n > 0
  <2>1. /\ op[t].count \in Nat /\ op[t].count > 0 /\ p \in Nat /\ o \in 0 .. e.size-1 /\ e.size \in Nat
        /\ p + (e.size - o) <= Len(Stream) /\ Len(Stream) \in Nat
    BY <1>1, <1>2, <1>3, <1>4
  <2>2. o \in Nat /\ e.size - o \in Nat /\ e.size - o > 0
    BY <2>1
  <2>3. n \in Nat /\ n <= op[t].count /\ n <= e.size - o /\ n > 0
    <3> DEFINE c == op[t].count
               k == e.size - o
    <3>1. c \in Nat /\ c > 0 /\ k \in Nat /\ k > 0 /\ n = IF c < k THEN c ELSE k
      BY <2>1, <2>2
    <3> HIDE DEF c, k, n
    <3>2. n \in Nat /\ n <= c /\ n <= k /\ n > 0
      BY <3>1
    <3> QED
      BY <3>2 DEF c, k
  <2> HIDE DEF n
  <2> QED
    BY <2>1, <2>2, <2>3
<1> HIDE DEF n
<1>6. SubSeq(text, o+1, o+n) = SubSeq(Stream, p+1, p+n)
  <2>1. ASSUME NEW i \in (o+1) .. (o+n) PROVE text[i] \in Byte
    <3>1. i \in 1 .. Len(text)
      BY <1>3, <1>4, <1>5
    <3> QED
      BY <1>3, <3>1
  <2>2. ASSUME NEW i \in (p+1) .. (p+n) PROVE Stream[i] \in Byte
    <3>1. i \in 1 .. Len(Stream)
      BY <1>2, <1>3, <1>5
    <3> QED
      BY <1>3, <3>1
  <2>3. /\ SubSeq(text, o+1, o+n) \in Seq(Byte) /\ Len(SubSeq(text, o+1, o+n)) = n
        /\ \A i \in 1 .. n : SubSeq(text, o+1, o+n)[i] = text[o+i]
    <3>1. /\ SubSeq(text, o+1, o+n) \in Seq(Byte)
          /\ Len(SubSeq(text, o+1, o+n)) = IF o+1 <= o+n THEN (o+n)-(o+1)+1 ELSE 0
          /\ \A i \in 1 .. (o+n)-(o+1)+1 : SubSeq(text, o+1, o+n)[i] = text[(o+1)+i-1]
      <4>1. o+1 \in Int /\ o+n \in Int
        BY <1>5
      <4> QED
        BY <2>1, <4>1, SubSeqProperties
    <3>2. (o+n)-(o+1)+1 = n /\ (o+1 <= o+n <=> n # 0) /\ \A i \in 1 .. n : (o+1)+i-1 = o+i
      BY <1>5
    <3> QED
      BY <3>1, <3>2
  <2>4. /\ SubSeq(Stream, p+1, p+n) \in Seq(Byte) /\ Len(SubSeq(Stream, p+1, p+n)) = n
        /\ \A i \in 1 .. n : SubSeq(Stream, p+1, p+n)[i] = Stream[p+i]
    <3>1. /\ SubSeq(Stream, p+1, p+n) \in Seq(Byte)
          /\ Len(SubSeq(Stream, p+1, p+n)) = IF p+1 <= p+n THEN (p+n)-(p+1)+1 ELSE 0
          /\ \A i \in 1 .. (p+n)-(p+1)+1 : SubSeq(Stream, p+1, p+n)[i] = Stream[(p+1)+i-1]
      <4>1. p+1 \in Int /\ p+n \in Int
        BY <1>2, <1>5
      <4> QED
        BY <2>2, <4>1, SubSeqProperties
    <3>2. (p+n)-(p+1)+1 = n /\ (p+1 <= p+n <=> n # 0) /\ \A i \in 1 .. n : (p+1)+i-1 = p+i
      BY <1>2, <1>5
    <3> QED
      BY <3>1, <3>2
  <2>5. \A i \in 1 .. n : Stream[p+i] = text[o+i]
    <3>1. \A i \in 1 .. n : i \in 1 .. e.size - o
      BY <1>3, <1>4, <1>5
    <3> QED
      BY <1>3, <3>1
  <2> QED
    BY <2>3, <2>4, <2>5, SeqEqual
<1>7. op'[t] = [op[t] EXCEPT !.data = op[t].data \o SubSeq(Stream, p+1, p+n),
                             !.pos = p + n, !.count = op[t].count - n]
  <2>1. Copied(e.buffptr, o, n) = SubSeq(text, o+1, o+n)
    BY DEF Copied, text
  <2>2. op'[t] = [op[t] EXCEPT !.data = op[t].data \o Copied(e.buffptr, o, n),
                               !.pos = op[t].pos + n, !.count = op[t].count - n]
    BY <1>1 DEF OpShape
  <2> QED
    BY <1>6, <2>1, <2>2 DEF p
<1> QED
  BY <1>1, <1>3, <1>5, <1>7 DEF p

-----------------------------------------------------------------------------
(* Every later step of a handler.                                          *)

LEMMA StepTyped ==
  ASSUME MemInv, OpShape, FileInv, loaded, NEW t \in Threads, Step(t), Typed(t)
  PROVE  Typed(t)'
<1>0. Error \in Int
  BY DEF Error
<1>1. f_pos[t] = NULL \/ f_pos[t] \in Nat
  BY DEF Typed
<1>2. CASE TakeLock(t)
  <2>1. ASSUME NEW from, NEW to \in Control, Lock(t, from, to) PROVE Typed(t)'
    BY <2>1, SMTT(30) DEF Lock, Goto, Typed, OpShape, Fields
  <2> QED
    BY <1>2, <2>1 DEF TakeLock, ReadLock, WriteLock, IoctlLock, Control, Inside
<1>3. CASE ReadChunk(t)
  <2>1. PICK n \in Nat :
          /\ n <= op[t].count
          /\ op[t].pos + n <= Len(Stream) /\ Stream \in Seq(Byte)
          /\ op'[t] = [op[t] EXCEPT
                         !.data = op[t].data \o SubSeq(Stream, op[t].pos + 1, op[t].pos + n),
                         !.pos = op[t].pos + n, !.count = op[t].count - n]
          /\ UNCHANGED <<device, f_pos, loaded, oops>>
    BY <1>3, ChunkFacts
  <2> DEFINE more == SubSeq(Stream, op[t].pos + 1, op[t].pos + n)
  <2>2. more \in Seq(Byte)
    <3>1. op[t].pos \in Nat /\ Len(Stream) \in Nat
      BY <2>1 DEF Typed
    <3>2. \A i \in op[t].pos + 1 .. op[t].pos + n : Stream[i] \in Byte
      <4> SUFFICES ASSUME NEW i \in op[t].pos + 1 .. op[t].pos + n PROVE Stream[i] \in Byte
        OBVIOUS
      <4>1. i \in 1 .. Len(Stream)
        BY <2>1, <3>1
      <4> QED
        BY <2>1, <4>1
    <3> QED
      BY <3>1, <3>2, SubSeqProperties
  <2>3. op[t].data \o more \in Seq(Byte)
    BY <2>2 DEF Typed
  <2>4. op[t].pos + n \in Nat /\ op[t].count - n \in Nat
    <3>1. op[t].pos \in Nat /\ op[t].count \in Nat /\ n \in Nat /\ n <= op[t].count
      BY <2>1 DEF Typed
    <3> QED
      BY <3>1
  <2>5. /\ op'[t].data = op[t].data \o more /\ op'[t].pos = op[t].pos + n
        /\ op'[t].count = op[t].count - n
        /\ op'[t].pc = op[t].pc /\ op'[t].block = op[t].block
        /\ op'[t].ret = op[t].ret /\ op'[t].seek = op[t].seek /\ f_pos' = f_pos
    BY <2>1 DEF OpShape, Fields
  <2> HIDE DEF more
  <2> QED
    BY <2>3, <2>4, <2>5 DEF Typed
<1>4. CASE ReadFault(t)
  BY <1>0, <1>1, <1>4, ReturnTyped DEF ReadFault, Unlock
<1>5. CASE ReadEnd(t)
  BY <1>5, SMTT(30) DEF ReadEnd, Goto, Typed, OpShape, Fields, Control
<1>6. CASE ReadReturn(t)
  <2>1. op[t].data \in Seq(Byte) /\ Len(op[t].data) \in Int /\ op[t].pos \in Nat
    BY DEF Typed
  <2>2. op'[t] = Returned(Len(op[t].data), op[t].data)
    BY <1>6 DEF ReadReturn, OpShape
  <2>3. f_pos'[t] = op[t].pos
    BY <1>6 DEF ReadReturn, FileInv
  <2> QED
    BY <2>1, <2>2, <2>3, ReturnedTyped
<1>7. CASE WriteCombine(t)
  <2>1. PICK a \in Blocks : op' = [op EXCEPT ![t].pc = "write_install", ![t].block = a]
    BY <1>7 DEF WriteCombine, FreeBlocks
  <2>2. f_pos' = f_pos /\ "write_install" \in Control
    BY <1>7 DEF WriteCombine, Control, Inside
  <2>3. op'[t] = [op[t] EXCEPT !.pc = "write_install", !.block = a]
    BY <2>1 DEF OpShape
  <2>4. /\ op'[t].pc = "write_install" /\ op'[t].block = a
        /\ op'[t].data = op[t].data /\ op'[t].pos = op[t].pos /\ op'[t].count = op[t].count
        /\ op'[t].seek = op[t].seek /\ op'[t].ret = op[t].ret
    BY <2>3 DEF OpShape, Fields
  <2> QED
    BY <2>2, <2>4 DEF Typed
<1>8. CASE WriteInstall(t)
  BY <1>8 DEF WriteInstall, Typed, OpShape, Fields, Control, Inside
<1>9. CASE WriteLine(t) \/ Oops(t)
  BY <1>9 DEF WriteLine, Oops, Typed
<1>10. CASE WriteNoMemory(t) \/ WriteLineNoMemory(t)
  <2>1. Return(t, Error) /\ f_pos' = f_pos
    BY <1>10 DEF WriteNoMemory, WriteLineNoMemory, Unlock
  <2> QED
    BY <1>0, <1>1, <2>1, ReturnTyped
<1>11. CASE WriteReturn(t)
  <2>1. Return(t, Len(op[t].data)) /\ f_pos' = f_pos /\ Len(op[t].data) \in Int
    BY <1>11 DEF WriteReturn, Unlock, Typed
  <2> QED
    BY <1>1, <2>1, ReturnTyped
<1>12. CASE IoctlSeek(t)
  <2>1. Target(t) = NULL \/ Target(t) \in Nat
    <3>1. op[t].seek[1] \in Nat /\ op[t].seek[2] \in Nat
      BY DEF Typed
    <3> QED
      BY <3>1, SeekType DEF Target
  <2>2. CASE Target(t) = NULL
    BY <1>0, <1>1, <1>12, <2>2, ReturnTyped DEF IoctlSeek
  <2>3. CASE Target(t) # NULL
    <3>1. Return(t, 0) /\ f_pos' = [f_pos EXCEPT ![t] = Target(t)]
      BY <1>12, <2>3 DEF IoctlSeek
    <3>2. f_pos'[t] = Target(t)
      BY <3>1 DEF FileInv
    <3> QED
      BY <2>1, <3>1, <3>2, ReturnTyped
  <2> QED
    BY <2>2, <2>3
<1> QED
  BY <1>2, <1>3, <1>4, <1>5, <1>6, <1>7, <1>8, <1>9, <1>10, <1>11, <1>12
  DEF Step, ReadStep, WriteStep

TypeInv == ApartInv /\ OwnerInside /\ \A t \in Threads : Typed(t)

LEMMA OthersTyped ==
  ASSUME NEW t \in Threads, OthersStay(t), OthersFiles(t), Typed(t)',
         \A u \in Threads : Typed(u)
  PROVE  \A u \in Threads : Typed(u)'
BY DEF OthersStay, OthersFiles, Typed

LEMMA TypeInvNext == TypeInv /\ MutualExclusion /\ [Next]_vars => TypeInv'
<1> SUFFICES ASSUME TypeInv, MutualExclusion, [Next]_vars PROVE TypeInv'
  OBVIOUS
<1>1. ApartInv' /\ OwnerInside'
  BY ApartInvNext, LockInvNext DEF TypeInv, ApartInv, LockInv
<1>2. OpShape /\ FileInv /\ MemInv /\ f_pos = [u \in Threads |-> f_pos[u]]
  BY DEF TypeInv, ApartInv, FileInv
<1>3. \A t \in Threads : Typed(t)'
  <2>1. CASE UNCHANGED vars
    BY <2>1 DEF vars, TypeInv, Typed
  <2>2. CASE Unload \/ Load \/ LoadFails
    BY <2>2 DEF Unload, Load, LoadFails, TypeInv, Typed
  <2>3. ASSUME NEW t \in Threads, Call(t) PROVE \A u \in Threads : Typed(u)'
    <3>1. AnyCall(t) /\ OthersStay(t)
      BY <1>2, <2>3, CallIsAny, CallBegins, CallLock
    <3>2. OthersFiles(t) /\ Typed(t)'
      BY <1>2, <3>1, CallFile, CallTyped DEF TypeInv
    <3> QED
      BY <3>1, <3>2, OthersTyped DEF TypeInv
  <2>4. ASSUME NEW t \in Threads, Step(t) PROVE \A u \in Threads : Typed(u)'
    <3>1. OthersStay(t) /\ OthersFiles(t) /\ loaded
      BY <1>2, <2>4, StepEffect, StepFile, StepKeepsFiles
    <3>2. Typed(t)'
      BY <1>2, <2>4, <3>1, StepTyped DEF TypeInv
    <3> QED
      BY <3>1, <3>2, OthersTyped DEF TypeInv
  <2> QED
    BY <2>1, <2>2, <2>3, <2>4 DEF Next
<1> QED
  BY <1>1, <1>3 DEF TypeInv

LEMMA TypeInvInit == Init => TypeInv
<1> SUFFICES ASSUME Init PROVE TypeInv
  OBVIOUS
<1>1. ASSUME NEW t \in Threads PROVE Typed(t)
  <2>1. op[t] = Returned(0, << >>) /\ f_pos[t] = NULL
    BY DEF Init
  <2>2. /\ op[t].pc \in Control /\ op[t].block = NULL /\ op[t].pos = 0 /\ op[t].count = 0
        /\ op[t].ret = 0 /\ op[t].data \in Seq(Byte) /\ op[t].seek = <<0, 0>>
    BY <2>1, NoBytes DEF Returned, Control
  <2>3. <<0, 0>> \in Nat \X Nat
    OBVIOUS
  <2> QED
    BY <2>1, <2>2, <2>3 DEF Typed
<1> QED
  BY <1>1, ApartInvInit, InitShape DEF TypeInv, OwnerInside

\* Whatever the callers of the driver do and whatever fails in it, every position is a
\* natural number, every pointer points to a block or nowhere and every string is one
\* of bytes that were written, as long as the callers are kept apart.
THEOREM DriverTypes == Spec /\ []MutualExclusion => []TypeOK
<1>1. TypeInv => TypeOK
  <2> SUFFICES ASSUME TypeInv PROVE TypeOK
    OBVIOUS
  <2>1. lock \in Threads \cup {NULL} /\ (loaded => ring \in Buffer)
    BY DEF TypeInv, OwnerInside, ApartInv, MemInv, RingInv
  <2>2. partial \in Blocks \cup {NULL} /\ \A a \in Blocks : heap[a] = NULL \/ heap[a] \in Seq(Byte)
    BY DEF TypeInv, ApartInv, MemInv, HeapShape, Allocated
  <2> QED
    BY <2>1, <2>2 DEF TypeOK, TypeInv, Typed
<1> QED
  BY <1>1, TypeInvInit, TypeInvNext, PTL DEF Spec

-----------------------------------------------------------------------------
(* Reads.                                                                  *)

\* What t has copied, and from where.
Contiguous(t) ==
  /\ op[t].pc = "read_lock" => op[t].data = << >> /\ op[t].pos = f_pos[t]
  /\ op[t].pc = "read_loop" =>
       /\ f_pos[t] <= op[t].pos
       /\ op[t].pos = f_pos[t] \/ op[t].pos <= Len(Stream)
       /\ op[t].data = SubSeq(Stream, f_pos[t] + 1, op[t].pos)

\* A handler outside its critical sections changes no memory.
LEMMA OutsideKeepsDevice ==
  ASSUME NEW t \in Threads, Step(t), op[t].pc \notin Inside
  PROVE  UNCHANGED <<ring, partial, heap>>
BY DEF Step, TakeLock, ReadLock, WriteLock, IoctlLock, Lock, ReadStep, ReadChunk, ReadFault,
       ReadEnd, ReadReturn, Finding, WriteStep, WriteCombine, WriteNoMemory, WriteInstall,
       WriteLine, WriteLineNoMemory, WriteReturn, LoopTest, Unlock, IoctlSeek, Oops,
       Inside, device

LEMMA StreamKept ==
  ASSUME UNCHANGED <<ring, heap>>
  PROVE  UNCHANGED <<Stream, Lines>>
BY DEF Stream, Lines, Bytes

\* Where a step of a handler leads, and from where.
LEMMA StepInto ==
  ASSUME MemInv, OpShape, loaded, MutualExclusion, NEW t \in Threads, Step(t)
  PROVE  /\ op'[t].pc \notin Waiting
         /\ op'[t].pc = "read_loop"     => ReadLock(t) \/ ReadChunk(t)
         /\ op'[t].pc = "write_combine" => WriteLock(t)
         /\ op'[t].pc = "write_install" => WriteCombine(t)
         /\ op'[t].pc = "write_loop"    => WriteInstall(t) \/ WriteLine(t)
         /\ op'[t].pc = "ioctl_seek"    => IoctlLock(t)
<1> USE DEF Waiting
<1>1. ~Oops(t)
  BY AllSound DEF Oops
<1>2. CASE TakeLock(t)
  <2>1. ASSUME NEW from, NEW to, Lock(t, from, to) PROVE op'[t].pc = to
    BY <2>1 DEF Lock, Goto, OpShape, Fields
  <2> QED
    BY <1>2, <2>1 DEF TakeLock, ReadLock, WriteLock, IoctlLock
<1>3. CASE ReadChunk(t)
  BY <1>3, ChunkStays
<1>4. CASE ReadEnd(t)
  BY <1>4 DEF ReadEnd, Goto, OpShape, Fields
<1>5. CASE ReadReturn(t)
  BY <1>5, ReturnedShape DEF ReadReturn, OpShape
<1>6. CASE ReadFault(t) \/ WriteNoMemory(t) \/ WriteLineNoMemory(t) \/ WriteReturn(t) \/ IoctlSeek(t)
  <2>1. PICK r : Return(t, r)
    BY <1>6 DEF ReadFault, WriteNoMemory, WriteLineNoMemory, WriteReturn, IoctlSeek, Unlock
  <2> QED
    BY <2>1, ReturnEffect
<1>7. CASE WriteCombine(t)
  <2>1. PICK a : op' = [op EXCEPT ![t].pc = "write_install", ![t].block = a]
    BY <1>7 DEF WriteCombine
  <2>2. op'[t] = [op[t] EXCEPT !.pc = "write_install", !.block = a]
    BY <2>1 DEF OpShape
  <2>3. op'[t].pc = "write_install"
    BY <2>2 DEF OpShape, Fields
  <2> QED
    BY <1>7, <2>3
<1>8. CASE WriteInstall(t)
  BY <1>8 DEF WriteInstall, OpShape, Fields
<1>9. CASE WriteLine(t)
  BY <1>9 DEF WriteLine, LoopTest
<1> QED
  BY <1>1, <1>2, <1>3, <1>4, <1>5, <1>6, <1>7, <1>8, <1>9 DEF Step, ReadStep, WriteStep

LEMMA StepContiguous ==
  ASSUME TypeInv, MutualExclusion, \A u \in Threads : Contiguous(u),
         NEW t \in Threads, Step(t)
  PROVE  \A u \in Threads : Contiguous(u)'
<1>1. /\ MemInv /\ OpShape /\ FileInv /\ loaded /\ Typed(t)
      /\ OthersStay(t) /\ OthersFiles(t)
      /\ op[t].pc # "idle" /\ f_pos[t] \in Nat
  BY StepEffect, StepFile, StepKeepsFiles DEF TypeInv, ApartInv, FileInv, Typed
<1>2. ASSUME NEW u \in Threads \ {t} PROVE Contiguous(u)'
  <2>1. op'[u] = op[u] /\ f_pos'[u] = f_pos[u]
    BY <1>1 DEF OthersStay, OthersFiles
  <2>2. ASSUME op[u].pc = "read_loop" PROVE UNCHANGED Stream
    <3>1. op[t].pc \notin Inside
      BY <2>2 DEF MutualExclusion, Inside
    <3> QED
      BY <3>1, OutsideKeepsDevice, StreamKept
  <2> QED
    BY <2>1, <2>2 DEF Contiguous
<1>3. Contiguous(t)'
  <2>1. /\ op'[t].pc # "read_lock"
        /\ op'[t].pc = "read_loop" => ReadLock(t) \/ ReadChunk(t)
    BY <1>1, StepInto DEF Waiting
  <2>2. CASE ReadLock(t)
    <3>1. /\ op[t].pc = "read_lock" /\ op'[t].pc = "read_loop"
          /\ op'[t].data = op[t].data /\ op'[t].pos = op[t].pos /\ f_pos' = f_pos
      BY <1>1, <2>2 DEF ReadLock, Lock, Goto, OpShape, Fields
    <3>2. op'[t].data = << >> /\ op'[t].pos = f_pos[t]
      BY <3>1 DEF Contiguous
    <3>3. SubSeq(Stream', f_pos[t]+1, f_pos[t]) = << >>
      BY <1>1, SubSeqEmpty
    <3> QED
      BY <1>1, <3>1, <3>2, <3>3 DEF Contiguous
  <2>3. CASE ReadChunk(t)
    <3> DEFINE p == op[t].pos
               from == f_pos[t]
    <3>1. PICK n \in Nat :
            /\ n <= op[t].count
            /\ p + n <= Len(Stream) /\ Stream \in Seq(Byte)
            /\ op'[t] = [op[t] EXCEPT !.data = op[t].data \o SubSeq(Stream, p + 1, p + n),
                                      !.pos = p + n, !.count = op[t].count - n]
            /\ UNCHANGED <<device, f_pos, loaded, oops>>
      BY <1>1, <2>3, ChunkFacts
    <3>2. op[t].pc = "read_loop"
      BY <2>3 DEF ReadChunk, Finding
    <3>3. from <= p /\ op[t].data = SubSeq(Stream, from + 1, p) /\ p \in Nat /\ from \in Nat
      BY <1>1, <3>2 DEF Contiguous, Typed
    <3>4. Stream' = Stream
      BY <3>1, StreamKept DEF device
    <3>5. /\ op'[t].data = op[t].data \o SubSeq(Stream, p + 1, p + n) /\ op'[t].pos = p + n
          /\ op'[t].pc = "read_loop" /\ f_pos'[t] = from
      BY <1>1, <3>1, <3>2 DEF OpShape, Fields
    <3> HIDE DEF p, from
    <3>6. /\ Len(Stream) \in Nat /\ from + 1 \in 1 .. Len(Stream)+1
          /\ p \in (from+1)-1 .. Len(Stream) /\ p + n \in p .. Len(Stream)
      BY <3>1, <3>3
    <3>7. SubSeq(Stream, from + 1, p) \o SubSeq(Stream, p + 1, p + n) = SubSeq(Stream, from + 1, p + n)
      BY <3>1, <3>6, ConcatAdjacentSubSeq
    <3>8. from <= p + n
      BY <3>3
    <3> QED
      BY <3>1, <3>3, <3>4, <3>5, <3>7, <3>8 DEF Contiguous
  <2> QED
    BY <2>1, <2>2, <2>3 DEF Contiguous
<1> QED
  BY <1>2, <1>3

LEMMA CallContiguous ==
  ASSUME OpShape, FileInv, \A u \in Threads : Contiguous(u), NEW t \in Threads, AnyCall(t),
         OthersStay(t), UNCHANGED <<ring, heap>>
  PROVE  \A u \in Threads : Contiguous(u)'
<1>1. /\ OthersFiles(t)
      /\ op'[t].pc # "idle" => f_pos'[t] = f_pos[t]
      /\ op'[t].pc \in {"idle", "read_lock", "write_lock", "ioctl_lock"}
  BY CallFile DEF FileInv
<1>2. ASSUME NEW u \in Threads \ {t} PROVE Contiguous(u)'
  BY <1>1, StreamKept DEF Contiguous, OthersStay, OthersFiles
<1>3. ASSUME op'[t].pc = "read_lock" PROVE op'[t].data = << >> /\ op'[t].pos = f_pos[t]
  <2>1. ASSUME NEW n, ReadCall(t, n) PROVE op'[t].data = << >> /\ op'[t].pos = f_pos[t]
    BY <2>1 DEF ReadCall, Enter, Returned, OpShape
  <2>2. ASSUME NEW d, WriteCall(t, d) PROVE op'[t].pc = "write_lock"
    BY <2>2 DEF WriteCall, Enter, Returned, OpShape
  <2>3. ASSUME NEW s, IoctlCall(t, s) PROVE op'[t].pc = "ioctl_lock"
    BY <2>3 DEF IoctlCall, Enter, Returned, OpShape
  <2>4. ASSUME NEW r, Return(t, r) PROVE op'[t].pc = "idle"
    BY <2>4, ReturnEffect
  <2>5. CASE WriteFault(t) \/ IoctlFault(t)
    <3>1. Return(t, Error)
      BY <2>5 DEF WriteFault, IoctlFault, Refuse, Enter, Return
    <3> QED
      BY <1>3, <2>4, <3>1
  <2>6. CASE Open(t) \/ Release(t)
    <3>1. Return(t, 0)
      BY <2>6 DEF Open, Release
    <3> QED
      BY <1>3, <2>4, <3>1
  <2>7. ASSUME NEW w, NEW o, LLSeek(t, w, o) PROVE op'[t].pc = "idle"
    BY <2>4, <2>7 DEF LLSeek
  <2> QED
    BY <1>3, <2>1, <2>2, <2>3, <2>5, <2>6, <2>7 DEF AnyCall
<1> QED
  BY <1>1, <1>2, <1>3 DEF Contiguous

ReadInv == TypeInv /\ \A t \in Threads : Contiguous(t)

LEMMA ReadInvNext == ReadInv /\ MutualExclusion /\ [Next]_vars => ReadInv'
<1> SUFFICES ASSUME ReadInv, MutualExclusion, [Next]_vars PROVE ReadInv'
  OBVIOUS
<1>1. TypeInv'
  BY TypeInvNext DEF ReadInv
<1>2. OpShape /\ FileInv
  BY DEF ReadInv, TypeInv, ApartInv
<1>3. \A t \in Threads : Contiguous(t)'
  <2>1. CASE UNCHANGED vars
    BY <2>1, StreamKept DEF vars, ReadInv, Contiguous
  <2>2. CASE Unload \/ Load \/ LoadFails
    <3>1. \A t \in Threads : op'[t].pc = "idle"
      BY <1>2, <2>2, LoadingKeepsFiles DEF Unload, Load, LoadFails
    <3> QED
      BY <3>1 DEF Contiguous
  <2>3. ASSUME NEW t \in Threads, Call(t) PROVE \A u \in Threads : Contiguous(u)'
    <3>1. AnyCall(t) /\ OthersStay(t)
      BY <1>2, <2>3, CallIsAny, CallBegins, CallLock
    <3>2. UNCHANGED <<ring, heap>>
      BY <2>3 DEF Call, Open, Release, ReadCall, WriteCall, IoctlCall, WriteFault, IoctlFault,
                  Refuse, Enter, LLSeek, device
    <3> QED
      BY <1>2, <3>1, <3>2, CallContiguous DEF ReadInv
  <2>4. ASSUME NEW t \in Threads, Step(t) PROVE \A u \in Threads : Contiguous(u)'
    BY <2>4, StepContiguous DEF ReadInv
  <2> QED
    BY <2>1, <2>2, <2>3, <2>4 DEF Next
<1> QED
  BY <1>1, <1>3 DEF ReadInv

\* aesd_read copies the stream from the position of the file on, without a gap and
\* without a repetition, across as many entries as it takes: as long as nobody else is
\* in a critical section, what it has copied belongs together.
THEOREM ReadsContiguous == Spec /\ []MutualExclusion => []ReadsAreContiguous
<1>1. Init => ReadInv
  BY TypeInvInit, InitShape DEF ReadInv, Contiguous
<1>2. ReadInv => ReadsAreContiguous
  BY DEF ReadInv, Contiguous, ReadsAreContiguous
<1> QED
  BY <1>1, <1>2, ReadInvNext, PTL DEF Spec

-----------------------------------------------------------------------------
(* Writes: the driver implements the line log.                             *)

\* memchr finds the first newline.
LEMMA FirstNewline ==
  ASSUME NEW S, NEW s \in Seq(S), LineEnd(s) > 0
  PROVE  s[LineEnd(s)] = Newline /\ \A i \in 1 .. LineEnd(s)-1 : s[i] # Newline
<1> DEFINE I == {i \in 1 .. Len(s) : s[i] = Newline}
<1>1. LineEnd(s) = IF I # {} THEN Min(I) ELSE 0
  BY DEF LineEnd, SelectInSeq
<1>2. I # {} /\ I \subseteq Nat
  BY <1>1
<1>3. Min(I) \in I /\ \A m \in I : Min(I) <= m
  <2> HIDE DEF I
  <2>1. \E n \in I : \A m \in I : n <= m
    BY <1>2, LeastNatural
  <2> QED
    BY <2>1 DEF Min
<1> DEFINE n == Min(I)
<1>4. LineEnd(s) = n
  BY <1>1, <1>2
<1>5. n \in 1 .. Len(s) /\ s[n] = Newline
  BY <1>3
<1>6. ASSUME NEW i \in 1 .. n-1, s[i] = Newline PROVE FALSE
  <2> HIDE DEF n
  <2>1. i \in I
    BY <1>5, <1>6
  <2>2. n <= i
    BY <1>3, <2>1 DEF n
  <2> QED
    BY <1>5, <2>2
<1> QED
  BY <1>4, <1>5, <1>6

\* memchr finds none when there is none.
LEMMA NoNewline ==
  ASSUME NEW s, Len(s) \in Nat, ~(LineEnd(s) > 0)
  PROVE  \A i \in 1 .. Len(s) : s[i] # Newline
<1> DEFINE I == {i \in 1 .. Len(s) : s[i] = Newline}
<1>1. LineEnd(s) = IF I # {} THEN Min(I) ELSE 0
  BY DEF LineEnd, SelectInSeq
<1>2. ASSUME I # {} PROVE FALSE
  <2>1. I \subseteq Nat /\ \A i \in I : i > 0
    OBVIOUS
  <2>2. Min(I) \in I
    <3> HIDE DEF I
    <3>1. \E n \in I : \A m \in I : n <= m
      BY <1>2, <2>1, LeastNatural
    <3> QED
      BY <3>1 DEF Min
  <2> HIDE DEF I
  <2> QED
    BY <1>1, <1>2, <2>1, <2>2
<1> QED
  BY <1>2

\* A write that begins has its caller's bytes.
LEMMA WriteBegins ==
  ASSUME OpShape, NEW t \in Threads, Call(t), op'[t].pc = "write_lock"
  PROVE  op'[t].data \in Payloads
<1>1. ASSUME NEW n, ReadCall(t, n) PROVE op'[t].pc = "read_lock"
  BY <1>1 DEF ReadCall, Enter, Returned, OpShape
<1>2. ASSUME NEW d \in Payloads, WriteCall(t, d) PROVE op'[t].data \in Payloads
  BY <1>2 DEF WriteCall, Enter, Returned, OpShape
<1>3. ASSUME NEW s, IoctlCall(t, s) PROVE op'[t].pc = "ioctl_lock"
  BY <1>3 DEF IoctlCall, Enter, Returned, OpShape
<1>4. ASSUME NEW r, Return(t, r) PROVE op'[t].pc = "idle"
  BY <1>4, ReturnEffect
<1>5. CASE WriteFault(t) \/ IoctlFault(t)
  <2>1. Return(t, Error)
    BY <1>5 DEF WriteFault, IoctlFault, Refuse, Enter, Return
  <2> QED
    BY <1>4, <2>1
<1>6. CASE Open(t) \/ Release(t)
  <2>1. Return(t, 0)
    BY <1>6 DEF Open, Release
  <2> QED
    BY <1>4, <2>1
<1>7. ASSUME NEW w, NEW o, LLSeek(t, w, o) PROVE op'[t].pc = "idle"
  BY <1>4, <1>7 DEF LLSeek
<1> QED
  BY <1>1, <1>2, <1>3, <1>5, <1>6, <1>7 DEF Call

\* What the log sees of a caller, by where the caller is.
Writing == {"write_lock", "write_combine", "write_install", "write_loop"}

LEMMA WriteIs ==
  ASSUME NEW t
  PROVE  /\ op[t].pc \in {"write_lock", "write_combine"} => WriteOf(t) = Log!Calling(op[t].data)
         /\ op[t].pc \in {"write_install", "write_loop"} => WriteOf(t) = Log!Effective(op[t].data)
         /\ op[t].pc \notin Writing => WriteOf(t) = Log!Outside(op[t].ret)
         /\ op'[t].pc \in {"write_lock", "write_combine"} => WriteOf(t)' = Log!Calling(op'[t].data)
         /\ op'[t].pc \in {"write_install", "write_loop"} => WriteOf(t)' = Log!Effective(op'[t].data)
         /\ op'[t].pc \notin Writing => WriteOf(t)' = Log!Outside(op'[t].ret)
BY DEF WriteOf, Writing, Log!Calling, Log!Effective, Log!Outside

LEMMA WriteMoves ==
  ASSUME NEW t \in Threads, OthersStay(t)
  PROVE  Log!Turn(t, WriteOf(t), WriteOf(t)')
<1>1. \A u \in Threads \ {t} : WriteOf(u)' = WriteOf(u)
  BY DEF OthersStay, WriteOf
<1> QED
  BY <1>1 DEF Log!Turn

LEMMA WriteStays ==
  ASSUME NEW t \in Threads, OthersStay(t), WriteOf(t)' = WriteOf(t)
  PROVE  UNCHANGED [u \in Threads |-> WriteOf(u)]
<1>1. \A u \in Threads : WriteOf(u)' = WriteOf(u)
  BY DEF OthersStay, WriteOf
<1> QED
  BY <1>1

\* A step that leaves the ring, the unfinished line and their bytes as they are.
LEMMA LogKept ==
  ASSUME NEW t \in Threads, OthersStay(t), op[t].pc # "write_install", op'[t].pc # "write_install",
         UNCHANGED <<ring, partial, heap>>
  PROVE  UNCHANGED <<Lines, Rest>>
<1>1. Installing' = Installing /\ \A u \in Installing : op'[u] = op[u]
  BY DEF Installing, OthersStay
<1>2. UNCHANGED Lines
  BY StreamKept
<1>3. CASE Installing = {}
  <2>1. Rest = Bytes(partial) /\ Rest' = Bytes(partial)'
    BY <1>1, <1>3 DEF Rest
  <2> QED
    BY <1>2, <2>1 DEF Bytes
<1>4. CASE Installing # {}
  <2>1. PICK u \in Installing : u = CHOOSE v \in Installing : TRUE
    BY <1>4
  <2>2. Rest = Bytes(op[u].block)
    BY <1>4, <2>1 DEF Rest
  <2>3. Installing' # {} /\ (CHOOSE v \in Installing' : TRUE) = u
    BY <1>1, <1>4, <2>1
  <2>4. Rest' = Bytes(op[u].block)'
    BY <2>3 DEF Rest
  <2> QED
    BY <1>1, <1>2, <2>1, <2>2, <2>4 DEF Bytes
<1> QED
  BY <1>2, <1>3, <1>4

\* The one writer inside, about to store combined_buffer, or not yet.
LEMMA RestOf ==
  ASSUME NEW t \in Threads, Alone(t)
  PROVE  Rest = IF op[t].pc = "write_install" THEN Bytes(op[t].block) ELSE Bytes(partial)
<1>1. CASE op[t].pc = "write_install"
  <2>1. Installing = {t}
    BY <1>1 DEF Installing, Alone, Inside
  <2>2. (CHOOSE u \in Installing : TRUE) = t
    BY <2>1
  <2> QED
    BY <1>1, <2>1, <2>2 DEF Rest
<1>2. CASE op[t].pc # "write_install"
  BY <1>2, NobodyInstalls DEF Rest
<1> QED
  BY <1>1, <1>2

\* The lines stay when the blocks of the ring do.
LEMMA LinesKept ==
  ASSUME MemInv, loaded, ring' = ring, \A b \in EntryBlocks : heap'[b] = heap[b]
  PROVE  Lines' = Lines
<1>1. ASSUME NEW k \in 1 .. Count(ring)
      PROVE  Bytes(Contents(ring)[k].buffptr)' = Bytes(Contents(ring)[k].buffptr)
  <2>1. Contents(ring)[k].buffptr \in EntryBlocks
    BY LineOfEntry
  <2> HIDE DEF Contents
  <2> QED
    BY <2>1 DEF Bytes
<1> QED
  BY <1>1 DEF Lines

\* kmalloc and the two memcpys into combined_buffer: the log accepts the bytes written.
LEMMA CombineAccepts ==
  ASSUME MemInv, OpShape, loaded, NEW t \in Threads, Alone(t), WriteCombine(t)
  PROVE  Lines' = Lines /\ Rest' = Rest \o op[t].data
<1>1. PICK a \in FreeBlocks :
        /\ heap' = [b \in Blocks |-> CASE b = a       -> Combined(Bytes(partial), op[t].data)
                                       [] b = partial -> NULL
                                       [] OTHER       -> heap[b]]
        /\ op'   = [op EXCEPT ![t].pc = "write_install", ![t].block = a]
  BY DEF WriteCombine
<1>2. op[t].pc = "write_combine" /\ UNCHANGED <<ring, partial>>
  BY DEF WriteCombine
<1>3. /\ op'[t].pc = "write_install" /\ op'[t].block = a /\ OthersStay(t)
  BY <1>1 DEF OpShape, Fields, OthersStay
<1>4. Unfinished = {partial} \ {NULL} /\ Rest = Bytes(partial)
  BY <1>2, NobodyInstalls, RestOf
<1>5. a \in Blocks /\ a \notin EntryBlocks /\ partial \notin EntryBlocks /\ a # partial
  <2>1. a \in Blocks /\ heap[a] = NULL /\ a # NULL
    BY NullAssumption DEF FreeBlocks
  <2>2. /\ EntryBlocks \cup ({partial} \ {NULL}) \subseteq Allocated
        /\ EntryBlocks \cap ({partial} \ {NULL}) = {}
    BY <1>4 DEF MemInv, HeapExact, Allocated
  <2> QED
    BY <2>1, <2>2 DEF Allocated, EntryBlocks
<1>6. EntryBlocks \subseteq Blocks
  BY DEF MemInv, HeapExact
<1>7. Lines' = Lines
  <2>1. \A b \in EntryBlocks : heap'[b] = heap[b]
    BY <1>1, <1>5, <1>6
  <2> QED
    BY <1>2, <2>1, LinesKept
<1>8. Combined(Bytes(partial), op[t].data) # NULL
  <2>1. Bytes(partial) \in Seq(Byte)
    BY DEF Bytes, MemInv, HeapShape, Allocated
  <2>2. op[t].data \in Seq(Byte)
    BY <1>2 DEF MemInv, WriteLocals
  <2>3. Bytes(partial) \o op[t].data \in Seq(Byte)
    BY <2>1, <2>2, ConcatProperties
  <2> QED
    BY <2>3, NullIsNoString DEF Combined
<1>9. Rest' = Combined(Bytes(partial), op[t].data)
  <2>1. Alone(t)'
    BY <1>3 DEF Alone, OthersStay
  <2>2. Installing' = {t}
    BY <1>3, <2>1 DEF Installing, Alone, Inside
  <2>3. (CHOOSE u \in Installing' : TRUE) = t
    BY <2>2
  <2>4. Rest' = Bytes(a)'
    BY <1>3, <2>2, <2>3 DEF Rest
  <2>5. heap'[a] = Combined(Bytes(partial), op[t].data)
    BY <1>1, <1>5
  <2> QED
    BY <1>5, <1>8, <2>4, <2>5 DEF Bytes
<1> QED
  BY <1>4, <1>7, <1>9 DEF Combined

\* _partial_write_buffer = combined_buffer: nothing that is seen from outside.
LEMMA InstallStutters ==
  ASSUME OpShape, NEW t \in Threads, Alone(t), WriteInstall(t)
  PROVE  Lines' = Lines /\ Rest' = Rest
<1>1. /\ op[t].pc = "write_install" /\ partial' = op[t].block
      /\ op' = [op EXCEPT ![t].pc = "write_loop", ![t].block = NULL]
      /\ UNCHANGED <<ring, heap>>
  BY DEF WriteInstall
<1>2. op'[t].pc = "write_loop" /\ OthersStay(t)
  BY <1>1 DEF OpShape, Fields, OthersStay
<1>3. Installing' = {}
  BY <1>2 DEF Installing, Alone, OthersStay, Inside
<1>4. Rest' = Bytes(partial)'
  BY <1>3 DEF Rest
<1>5. Rest = Bytes(op[t].block)
  BY <1>1, RestOf
<1>6. Rest' = Rest
  BY <1>1, <1>4, <1>5 DEF Bytes
<1> QED
  BY <1>1, <1>6, StreamKept

\* kmalloc of an entry fails: the log loses the rest.
LEMMA NoMemoryLoses ==
  ASSUME MemInv, OpShape, loaded, NEW t \in Threads, Alone(t), WriteLineNoMemory(t)
  PROVE  /\ Lines' = Lines /\ Rest' = << >>
         /\ Rest = heap[partial] /\ heap[partial] \in Seq(Byte) /\ LineEnd(heap[partial]) > 0
<1>1. /\ LoopTest(t, TRUE) /\ Return(t, Error)
      /\ heap' = [heap EXCEPT ![partial] = NULL] /\ partial' = NULL /\ ring' = ring
  BY DEF WriteLineNoMemory
<1>2. /\ partial \in Blocks /\ heap[partial] # NULL /\ heap[partial] \in Seq(Byte)
      /\ LineEnd(heap[partial]) > 0
  <2> DEFINE n == LineEnd(heap[partial])
  <2>1. /\ partial \in Blocks /\ heap[partial] # NULL /\ heap[partial] \in Seq(Byte)
        /\ n \in 1 .. Len(heap[partial])
    BY <1>1, PartialHasLine
  <2> HIDE DEF n
  <2>2. n > 0
    BY <2>1
  <2> QED
    BY <2>1, <2>2 DEF n
<1>3. OthersStay(t) /\ op'[t].pc = "idle" /\ op[t].pc = "write_loop"
  BY <1>1, ReturnEffect DEF LoopTest
<1>4. Rest = heap[partial] /\ Unfinished = {partial}
  BY <1>2, <1>3, RestOf, NobodyInstalls, NullAssumption DEF Bytes
<1>5. Installing' = {}
  BY <1>3 DEF Installing, Alone, OthersStay, Inside
<1>6. Rest' = << >>
  BY <1>1, <1>5, NullAssumption DEF Rest, Bytes
<1>7. \A b \in EntryBlocks : heap'[b] = heap[b]
  BY <1>1, <1>4 DEF MemInv, HeapExact, HeapShape
<1> QED
  BY <1>1, <1>2, <1>4, <1>6, <1>7, LinesKept

\* Adding at the end, and forgetting the first when there is no room.
LEMMA RememberShifts ==
  ASSUME NEW S, NEW l \in Seq(S), NEW e \in S, NEW Cap \in Nat \ {0}, Len(l) <= Cap
  PROVE  LET r == IF Len(l) < Cap THEN Append(l, e) ELSE Append(Tail(l), e)
             d == IF Len(l) < Cap THEN 0 ELSE 1
         IN  /\ r \in Seq(S) /\ Len(r) = Len(l) + 1 - d
             /\ \A j \in 1 .. Len(l)-d : j+d \in 1 .. Len(l) /\ r[j] = l[j+d]
             /\ r[Len(l) + 1 - d] = e
<1>1. Len(l) \in Nat
  OBVIOUS
<1>2. CASE Len(l) < Cap
  <2>1. /\ Append(l, e) \in Seq(S) /\ Len(Append(l, e)) = Len(l) + 1
        /\ \A j \in 1 .. Len(l) : Append(l, e)[j] = l[j]
        /\ Append(l, e)[Len(l)+1] = e
    BY AppendProperties
  <2>2. \A j \in 1 .. Len(l)-0 : j+0 = j /\ j \in 1 .. Len(l)
    BY <1>1
  <2>3. Len(l) + 1 - 0 = Len(l) + 1
    BY <1>1
  <2> QED
    BY <1>2, <2>1, <2>2, <2>3
<1>3. CASE ~(Len(l) < Cap)
  <2> DEFINE tl == Tail(l)
  <2>1. l # << >>
    BY <1>1, <1>3
  <2>2. tl \in Seq(S) /\ Len(tl) = Len(l)-1 /\ \A j \in 1 .. Len(l)-1 : tl[j] = l[j+1]
    BY <2>1, HeadTailProperties
  <2> HIDE DEF tl
  <2>3. /\ Append(tl, e) \in Seq(S) /\ Len(Append(tl, e)) = Len(tl) + 1
        /\ \A j \in 1 .. Len(tl) : Append(tl, e)[j] = tl[j]
        /\ Append(tl, e)[Len(tl)+1] = e
    BY <2>2, AppendProperties
  <2>4. \A j \in 1 .. Len(l)-1 : j+1 \in 1 .. Len(l)
    BY <1>1
  <2>5. Len(tl) + 1 = Len(l) + 1 - 1
    BY <1>1, <2>2
  <2> QED
    BY <1>3, <2>2, <2>3, <2>4, <2>5 DEF tl
<1> QED
  BY <1>2, <1>3

\* An iteration of the loop of aesd_write: the first line of the rest becomes the newest
\* of the log, which gives up its oldest when it is full.
LEMMA LineCompletes ==
  ASSUME MemInv, OpShape, loaded, NEW t \in Threads, Alone(t), WriteLine(t)
  PROVE  /\ Rest \in Seq(Byte) /\ LineEnd(Rest) > 0
         /\ Rest'  = SubSeq(Rest, LineEnd(Rest)+1, Len(Rest))
         /\ Lines' = IF Len(Lines) < MAX
                     THEN Append(Lines, SubSeq(Rest, 1, LineEnd(Rest)))
                     ELSE Append(Tail(Lines), SubSeq(Rest, 1, LineEnd(Rest)))
<1> DEFINE s    == heap[partial]
           n    == LineEnd(s)
           rest == SubSeq(s, n+1, Len(s))
           line == SubSeq(s, 1, n)
           Old  == EntryBlocks \ Evicted(ring)
           N    == Count(ring)
           d    == IF N < MAX THEN 0 ELSE 1
<1>1. PICK a \in FreeBlocks :
        /\ ring' = AddEntry(ring, [buffptr |-> a, size |-> n])
        /\ heap' = [b \in Blocks |->
                      CASE b = a             -> line
                        [] b = partial       -> IF rest = << >> THEN NULL ELSE rest
                        [] b \in Evicted(ring) -> NULL
                        [] OTHER             -> heap[b]]
        /\ partial' = Remainder(rest)
  BY DEF WriteLine
<1> DEFINE e == [buffptr |-> a, size |-> n]
<1>2. LoopTest(t, TRUE) /\ UNCHANGED op
  BY DEF WriteLine
<1>3. /\ partial \in Blocks /\ s \in Seq(Byte) /\ s # NULL
      /\ n \in 1 .. Len(s)
  BY <1>2, PartialHasLine
<1>4. /\ line \in Seq(Byte) /\ rest \in Seq(Byte)
      /\ Len(line) = n /\ n \in Nat /\ n > 0
  <2> HIDE DEF s, n
  <2> QED
    BY <1>3
<1>5. line # NULL /\ rest # NULL
  BY <1>4, NullIsNoString
<1> HIDE DEF s, n, rest, line
<1>6. /\ op[t].pc = "write_loop" /\ Installing = {} /\ Installing' = {}
      /\ Unfinished = {partial}
  BY <1>2, <1>3, NobodyInstalls, NullAssumption DEF LoopTest, Installing
<1>7. Rest = s
  BY <1>3, <1>6, RestOf DEF Bytes, s
<1>8. /\ Allocated = EntryBlocks \cup {partial} /\ partial \notin EntryBlocks
      /\ a \in Blocks /\ a \notin EntryBlocks /\ a # partial
      /\ Old \subseteq EntryBlocks /\ EntryBlocks \subseteq Blocks
      /\ Evicted(ring) \subseteq EntryBlocks
  <2>1. Allocated = EntryBlocks \cup {partial} /\ partial \notin EntryBlocks
    BY <1>6 DEF MemInv, HeapExact, Allocated
  <2>2. a \in Blocks /\ a \notin Allocated
    BY DEF FreeBlocks, Allocated
  <2>3. Evicted(ring) \subseteq EntryBlocks
    BY DEF Evicted, EntryBlocks, MemInv, RingInv, Buffer
  <2> QED
    BY <2>1, <2>2, <2>3 DEF Allocated
<1>9. EntryBlocks' = Old \cup {a}
  BY <1>1, <1>4, <1>8, AddReplaces
<1>10. /\ heap'[a] = line
       /\ heap'[partial] = IF rest = << >> THEN NULL ELSE rest
       /\ \A b \in Old : heap'[b] = heap[b]
  <2>1. heap'[a] = line
    BY <1>1, <1>8
  <2>2. heap'[partial] = IF rest = << >> THEN NULL ELSE rest
    BY <1>1, <1>3, <1>8
  <2>3. \A b \in Old : b \in Blocks /\ b # a /\ b # partial /\ b \notin Evicted(ring)
    BY <1>8
  <2> QED
    BY <1>1, <2>1, <2>2, <2>3
<1>11. Rest' = rest
  <2>1. Rest' = Bytes(partial)'
    BY <1>6 DEF Rest
  <2>2. CASE rest = << >>
    BY <1>1, <2>1, <2>2, NullAssumption DEF Remainder, Bytes
  <2>3. CASE rest # << >>
    BY <1>1, <1>3, <1>5, <1>10, <2>1, <2>3 DEF Remainder, Bytes
  <2> QED
    BY <2>2, <2>3
<1>12. /\ e \in Entry /\ ring \in Buffer /\ WellShaped(ring)
       /\ ring' \in Buffer /\ WellShaped(ring')
  <2>1. e \in Entry
    BY <1>4, <1>8 DEF Entry
  <2> QED
    BY <1>1, <2>1, AddKeepsShape DEF MemInv, RingInv
<1>0. PICK M : M = Count(ring')
  OBVIOUS
<1>13. /\ Contents(ring) \in Seq(Entry) /\ Len(Contents(ring)) = N /\ N \in 0 .. MAX
       /\ Contents(ring') \in Seq(Entry) /\ Len(Contents(ring')) = M /\ M \in 0 .. MAX
       /\ \A k \in 1 .. M : Contents(ring')[k] = ring'.entry[After(ring'.out_offs, k-1)]
       /\ MAX \in Nat /\ MAX > 0
  BY <1>0, <1>12, ContentsSeq, ContentsEntries, CapacityAssumption
<1>14. Contents(ring') = IF N < MAX THEN Append(Contents(ring), e)
                                    ELSE Append(Tail(Contents(ring)), e)
  BY <1>1, <1>12, <1>13, AddRemembers
<1> HIDE DEF N
<1>15. /\ M = N + 1 - d
       /\ \A j \in 1 .. M-1 : j+d \in 1 .. N /\ Contents(ring')[j] = Contents(ring)[j+d]
       /\ Contents(ring')[M] = e
  <2> HIDE DEF e
  <2>1. M = N + 1 - d /\ N - d = M - 1
    <3>1. Len(Contents(ring')) = Len(Contents(ring)) + 1 - d
      BY <1>12, <1>13, <1>14, RememberShifts
    <3> QED
      BY <1>13, <3>1
  <2>2. /\ \A j \in 1 .. N-d : j+d \in 1 .. N /\ Contents(ring')[j] = Contents(ring)[j+d]
        /\ Contents(ring')[N + 1 - d] = e
    BY <1>12, <1>13, <1>14, RememberShifts
  <2> QED
    BY <2>1, <2>2
<1>16. /\ Lines \in Seq(Seq(Byte)) /\ Len(Lines) = N
       /\ \A k \in 1 .. N : /\ Contents(ring)[k].buffptr \in EntryBlocks
                            /\ Lines[k] = heap[Contents(ring)[k].buffptr] /\ Lines[k] \in Seq(Byte)
  BY LinesShape, LineOfEntry DEF N
<1>17. Lines' = [k \in 1 .. M |-> Bytes(Contents(ring)[k].buffptr)']
  BY <1>0 DEF Lines
<1>18. ASSUME NEW j \in 1 .. M-1 PROVE Lines'[j] = Lines[j+d]
  <2> DEFINE b == Contents(ring')[j].buffptr
  <2>1. j \in 1 .. M /\ j-1 \in 0 .. MAX
    BY <1>13
  <2>2. b = Contents(ring)[j+d].buffptr /\ j+d \in 1 .. N
    BY <1>15
  <2>3. b \in EntryBlocks /\ Lines[j+d] = heap[b] /\ Lines[j+d] \in Seq(Byte)
    BY <1>16, <2>2
  <2>4. b \in EntryBlocks'
    <3>1. ring'.out_offs \in Slot
      BY <1>12 DEF Buffer
    <3>2. After(ring'.out_offs, j-1) \in Slot
      BY <2>1, <3>1, AfterValue
    <3>3. b = ring'.entry[After(ring'.out_offs, j-1)].buffptr
      BY <1>13, <2>1
    <3>4. b # NULL
      BY <2>3 DEF EntryBlocks
    <3> HIDE DEF b
    <3> QED
      BY <3>2, <3>3, <3>4 DEF EntryBlocks
  <2>5. Lines'[j] = Bytes(Contents(ring)[j].buffptr)'
    BY <1>17, <2>1
  <2>6. b \in Blocks /\ heap'[b] = heap[b] /\ heap[b] # NULL
    BY <1>8, <1>9, <1>10, <2>3, <2>4 DEF Allocated
  <2>7. Bytes(Contents(ring)[j].buffptr)' = heap'[b]
    BY <2>6 DEF Bytes
  <2> QED
    BY <2>3, <2>5, <2>6, <2>7
<1>19. Lines'[M] = line
  <2>1. M \in 1 .. M
    BY <1>13, <1>15
  <2>2. Contents(ring')[M].buffptr = a
    BY <1>15
  <2>3. Bytes(Contents(ring)[M].buffptr)' = heap'[a]
    <3>1. heap'[a] # NULL
      BY <1>5, <1>10
    <3> QED
      BY <1>8, <2>2, <3>1 DEF Bytes
  <2> QED
    BY <1>10, <1>17, <2>1, <2>3
<1> DEFINE log == IF Len(Lines) < MAX THEN Append(Lines, line) ELSE Append(Tail(Lines), line)
<1>20. /\ log \in Seq(Seq(Byte)) /\ Len(log) = M
       /\ \A j \in 1 .. M-1 : log[j] = Lines[j+d]
       /\ log[M] = line
  <2>1. /\ log \in Seq(Seq(Byte)) /\ Len(log) = N + 1 - d
        /\ \A j \in 1 .. N-d : log[j] = Lines[j+d]
        /\ log[N + 1 - d] = line
    BY <1>4, <1>13, <1>16, RememberShifts
  <2>2. N - d = M - 1 /\ N + 1 - d = M
    BY <1>13, <1>15
  <2> HIDE DEF log, d
  <2> QED
    BY <2>1, <2>2
<1> HIDE DEF d, log
<1>21. Lines' = log
  <2>1. \A j \in 1 .. M : Lines'[j] = log[j]
    <3>1. \A j \in 1 .. M : j = M \/ j \in 1 .. M-1
      BY <1>13
    <3>2. \A j \in 1 .. M-1 : Lines'[j] = log[j]
      BY <1>18, <1>20
    <3> QED
      BY <1>19, <1>20, <3>1, <3>2
  <2>2. \A j \in 1 .. M : log[j] \in Seq(Byte)
    BY <1>20
  <2>3. Lines' \in [1 .. M -> Seq(Byte)]
    BY <1>17, <2>1, <2>2
  <2>4. Lines' \in Seq(Seq(Byte)) /\ Len(Lines') = M
    BY <1>13, <2>3
  <2> QED
    BY <1>20, <2>1, <2>4, SeqEqual
<1> QED
  BY <1>3, <1>4, <1>7, <1>11, <1>21 DEF log, line, rest, n

\* What the log sees of the device and of its callers, and how a caller's step may go
\* on: as a step of the log, or unseen.
Unseen == UNCHANGED <<loaded, IF loaded THEN Lines ELSE << >>, IF loaded THEN Rest ELSE << >>,
                      [t \in Threads |-> WriteOf(t)]>>

WriterStep(t) == \/ Log!Write(t) \/ Log!ReturnOther(t) \/ Log!Fail(t) \/ Log!Accept(t)
                 \/ Log!CompleteLine(t) \/ Log!LoseRest(t) \/ Log!Return(t)

LEMMA WriterNext ==
  ASSUME loaded, loaded', NEW t \in Threads, WriterStep(t)
  PROVE  Log!Next
<1>1. UNCHANGED loaded
  <2>1. CASE UNCHANGED loaded
    BY <2>1
  <2> QED
    BY <2>1
<1> QED
  BY <1>1 DEF WriterStep, Log!Next

\* A caller that is in no write, before and after: its call's return is all there is.
LEMMA OtherReturns ==
  ASSUME NEW t \in Threads, OthersStay(t), loaded, loaded', UNCHANGED <<Lines, Rest>>,
         op[t].pc \notin Writing, op'[t].pc \notin Writing
  PROVE  WriterStep(t)
<1>1. WriteOf(t) = Log!Outside(op[t].ret) /\ WriteOf(t)' = Log!Outside(op'[t].ret)
  BY WriteIs
<1>2. Log!Turn(t, Log!Outside(op[t].ret), Log!Outside(op'[t].ret))
  BY <1>1, WriteMoves
<1>3. /\ [u \in Threads |-> WriteOf(u)][t].ret = op[t].ret
      /\ [u \in Threads |-> WriteOf(u)]'[t].ret = op'[t].ret
  BY <1>1 DEF Log!Outside
<1>4. Log!ReturnOther(t)
  BY <1>2, <1>3 DEF Log!ReturnOther
<1> QED
  BY <1>4 DEF WriterStep

\* A step that changes neither the bytes nor the caller's write.
LEMMA StepUnseen ==
  ASSUME NEW t \in Threads, OthersStay(t), loaded, loaded', UNCHANGED <<Lines, Rest>>,
         WriteOf(t)' = WriteOf(t)
  PROVE  Unseen
<1>1. UNCHANGED [u \in Threads |-> WriteOf(u)]
  BY WriteStays
<1> QED
  BY <1>1 DEF Unseen

\* What the log sees of a step of aesd_write.
LEMMA WriteLog ==
  ASSUME ApartInv, MutualExclusion, NEW t \in Threads, WriteStep(t)
  PROVE  WriterStep(t) \/ Unseen
<1>1. MemInv /\ OpShape /\ FileInv /\ Step(t)
  BY DEF ApartInv, Step
<1>2. OthersStay(t) /\ loaded /\ loaded'
  BY <1>1, StepEffect, StepKeepsFiles
<1>3. Alone(t)
  <2>1. op[t].pc \in Inside
    BY DEF WriteStep, WriteCombine, WriteNoMemory, WriteInstall, WriteLine,
           WriteLineNoMemory, WriteReturn, LoopTest, Inside
  <2> QED
    BY <2>1, AloneInside
<1> DEFINE call == [u \in Threads |-> WriteOf(u)]
<1>4. /\ call[t] = WriteOf(t) /\ Log!Turn(t, WriteOf(t), WriteOf(t)')
  BY <1>2, WriteMoves
<1>5. CASE WriteCombine(t)
  <2>1. Lines' = Lines /\ Rest' = Rest \o op[t].data
    BY <1>1, <1>2, <1>3, <1>5, CombineAccepts
  <2>2. op[t].pc = "write_combine" /\ op'[t].pc = "write_install" /\ op'[t].data = op[t].data
    <3>1. PICK a : op' = [op EXCEPT ![t].pc = "write_install", ![t].block = a]
      BY <1>5 DEF WriteCombine
    <3>2. op'[t] = [op[t] EXCEPT !.pc = "write_install", !.block = a]
      BY <1>1, <3>1 DEF OpShape
    <3>3. op'[t].pc = "write_install" /\ op'[t].data = op[t].data
      BY <1>1, <3>2 DEF OpShape, Fields
    <3> QED
      BY <1>5, <3>3 DEF WriteCombine
  <2>3. WriteOf(t) = Log!Calling(op[t].data) /\ WriteOf(t)' = Log!Effective(op[t].data)
    BY <2>2, WriteIs
  <2>4. call[t].data = op[t].data
    BY <1>4, <2>3 DEF Log!Calling
  <2>5. ASSUME NEW u \in Threads PROVE call[u].at # "effective"
    <3>1. op[u].pc \notin {"write_install", "write_loop"}
      BY <1>3, <2>2 DEF Alone, Inside
    <3> QED
      BY <3>1 DEF WriteOf
  <2>6. Log!Accept(t)
    BY <1>2, <1>4, <2>1, <2>3, <2>4, <2>5 DEF Log!Accept
  <2> QED
    BY <2>6 DEF WriterStep
<1>6. CASE WriteInstall(t)
  <2>1. UNCHANGED <<Lines, Rest>>
    BY <1>1, <1>3, <1>6, InstallStutters
  <2>2. op[t].pc = "write_install" /\ op'[t].pc = "write_loop" /\ op'[t].data = op[t].data
    <3>1. op' = [op EXCEPT ![t].pc = "write_loop", ![t].block = NULL]
      BY <1>6 DEF WriteInstall
    <3>2. op'[t] = [op[t] EXCEPT !.pc = "write_loop", !.block = NULL]
      BY <1>1, <3>1 DEF OpShape
    <3>3. op'[t].pc = "write_loop" /\ op'[t].data = op[t].data
      BY <1>1, <3>2 DEF OpShape, Fields
    <3> QED
      BY <1>6, <3>3 DEF WriteInstall
  <2>3. WriteOf(t)' = WriteOf(t)
    BY <2>2, WriteIs
  <2> QED
    BY <1>2, <2>1, <2>3, StepUnseen
<1>7. CASE WriteLine(t)
  <2> DEFINE n == LineEnd(Rest)
  <2>1. /\ Rest \in Seq(Byte) /\ LineEnd(Rest) > 0
        /\ Rest'  = SubSeq(Rest, LineEnd(Rest)+1, Len(Rest))
        /\ Lines' = IF Len(Lines) < MAX
                    THEN Append(Lines, SubSeq(Rest, 1, LineEnd(Rest)))
                    ELSE Append(Tail(Lines), SubSeq(Rest, 1, LineEnd(Rest)))
    BY <1>1, <1>2, <1>3, <1>7, LineCompletes
  <2>2. n \in 1 .. Len(Rest) /\ Rest[n] = Newline /\ \A i \in 1 .. n-1 : Rest[i] # Newline
    BY <2>1, LineEndInside, FirstNewline
  <2>3. Log!CutAt(n)
    BY <1>2, <2>2 DEF Log!CutAt
  <2>4. Lines' = Log!R!Remember(Lines, SubSeq(Rest, 1, n))
    BY <2>1 DEF Log!R!Remember
  <2>5. UNCHANGED op /\ op[t].pc = "write_loop"
    BY <1>7 DEF WriteLine, LoopTest
  <2>6. UNCHANGED call
    BY <2>5 DEF WriteOf
  <2>7. call[t].at = "effective"
    BY <1>4, <2>5, WriteIs DEF Log!Effective
  <2> HIDE DEF n
  <2>8. Log!CompleteLine(t)
    BY <1>2, <2>1, <2>2, <2>3, <2>4, <2>6, <2>7 DEF Log!CompleteLine, n
  <2> QED
    BY <2>8 DEF WriterStep
<1>8. CASE WriteLineNoMemory(t)
  <2>1. /\ Lines' = Lines /\ Rest' = << >>
        /\ Rest \in Seq(Byte) /\ LineEnd(Rest) > 0
    BY <1>1, <1>2, <1>3, <1>8, NoMemoryLoses
  <2> DEFINE n == LineEnd(Rest)
  <2>2. n \in 1 .. Len(Rest) /\ Rest[n] = Newline /\ \A i \in 1 .. n-1 : Rest[i] # Newline
    BY <2>1, LineEndInside, FirstNewline
  <2>3. Log!CutAt(n)
    BY <1>2, <2>2 DEF Log!CutAt
  <2> HIDE DEF n
  <2>4. op[t].pc = "write_loop" /\ op'[t].pc = "idle" /\ op'[t].ret = Error
    BY <1>1, <1>8, ReturnValue, ReturnEffect DEF WriteLineNoMemory, LoopTest
  <2>5. WriteOf(t) = Log!Effective(op[t].data) /\ WriteOf(t)' = Log!Outside(Error)
    BY <2>4, WriteIs DEF Writing
  <2>6. call[t].data = op[t].data
    BY <1>4, <2>5 DEF Log!Effective
  <2>7. Log!LoseRest(t)
    BY <1>2, <1>4, <2>1, <2>2, <2>3, <2>5, <2>6 DEF Log!LoseRest
  <2> QED
    BY <2>7 DEF WriterStep
<1>9. CASE WriteNoMemory(t)
  <2>1. /\ Unlock(t, Error) /\ op[t].pc = "write_combine" /\ op'[t].pc = "idle"
        /\ op'[t].ret = Error
    BY <1>1, <1>9, ReturnValue, ReturnEffect DEF WriteNoMemory, Unlock
  <2>2. UNCHANGED <<Lines, Rest>>
    BY <1>2, <2>1, LogKept DEF Unlock
  <2>3. WriteOf(t) = Log!Calling(op[t].data) /\ WriteOf(t)' = Log!Outside(Error)
    BY <2>1, WriteIs DEF Writing
  <2>4. call[t].data = op[t].data
    BY <1>4, <2>3 DEF Log!Calling
  <2>5. Log!Fail(t)
    BY <1>2, <1>4, <2>2, <2>3, <2>4 DEF Log!Fail
  <2> QED
    BY <2>5 DEF WriterStep
<1>10. CASE WriteReturn(t)
  <2>1. /\ Unlock(t, Len(op[t].data)) /\ op[t].pc = "write_loop" /\ op'[t].pc = "idle"
        /\ op'[t].ret = Len(op[t].data)
    BY <1>1, <1>10, ReturnValue, ReturnEffect DEF WriteReturn, LoopTest, Unlock
  <2>2. UNCHANGED <<Lines, Rest>>
    BY <1>2, <2>1, LogKept DEF Unlock
  <2>3. WriteOf(t) = Log!Effective(op[t].data) /\ WriteOf(t)' = Log!Outside(Len(op[t].data))
    BY <2>1, WriteIs DEF Writing
  <2>4. call[t].data = op[t].data
    BY <1>4, <2>3 DEF Log!Effective
  <2>5. \A n \in 1 .. Len(Rest) : Rest[n] # Newline
    <3>1. Rest = Bytes(partial)
      BY <1>3, <2>1, RestOf
    <3>2. Bytes(partial) \in Seq(Byte)
      BY <1>1 DEF Bytes, MemInv, HeapShape, Allocated
    <3>3. Len(Bytes(partial)) \in Nat
      BY <3>2
    <3>4. ~(LineEnd(Bytes(partial)) > 0)
      BY <1>10 DEF WriteReturn, LoopTest
    <3> QED
      BY <3>1, <3>3, <3>4, NoNewline
  <2>6. Log!Return(t)
    BY <1>2, <1>4, <2>2, <2>3, <2>4, <2>5 DEF Log!Return
  <2> QED
    BY <2>6 DEF WriterStep
<1> QED
  BY <1>5, <1>6, <1>7, <1>8, <1>9, <1>10 DEF WriteStep

\* What the log sees of a step of any handler.
LEMMA StepLog ==
  ASSUME ApartInv, MutualExclusion, NEW t \in Threads, Step(t)
  PROVE  WriterStep(t) \/ Unseen
<1>1. MemInv /\ OpShape /\ FileInv
  BY DEF ApartInv
<1>2. OthersStay(t) /\ loaded /\ loaded'
  BY <1>1, StepEffect, StepKeepsFiles
<1>3. CASE ~WriteStep(t)
  <2>1. UNCHANGED <<ring, partial, heap>> /\ op[t].pc # "write_install"
    BY <1>3 DEF Step, TakeLock, ReadLock, WriteLock, IoctlLock, Lock, ReadStep, ReadChunk,
                ReadFault, ReadEnd, ReadReturn, Finding, Unlock, IoctlSeek, Oops, Sound,
                Touched, device
  <2>2. op'[t].pc # "write_install" /\ op'[t].pc # "write_loop" /\ op'[t].pc # "write_lock"
        /\ (op'[t].pc = "write_combine" => WriteLock(t))
    BY <1>1, <1>2, <1>3, StepInto DEF WriteStep, Waiting
  <2>3. UNCHANGED <<Lines, Rest>>
    BY <1>2, <2>1, <2>2, LogKept
  <2>4. CASE WriteLock(t)
    <3>1. /\ op[t].pc = "write_lock" /\ op'[t].pc = "write_combine"
          /\ op'[t].data = op[t].data
      BY <1>1, <2>4 DEF WriteLock, Lock, Goto, OpShape, Fields
    <3>2. WriteOf(t)' = WriteOf(t)
      BY <3>1, WriteIs
    <3> QED
      BY <1>2, <2>3, <3>2, StepUnseen
  <2>5. CASE ~WriteLock(t)
    <3>1. ~Oops(t)
      BY <1>1, <1>2, AllSound DEF Oops
    <3>2. op[t].pc \notin Writing
      BY <1>3, <2>5, <3>1 DEF Step, TakeLock, ReadLock, IoctlLock, Lock, ReadStep, ReadChunk,
                ReadFault, ReadEnd, ReadReturn, Finding, IoctlSeek, Writing
    <3> QED
      BY <1>2, <2>2, <2>3, <2>5, <3>2, OtherReturns DEF Writing
  <2> QED
    BY <2>4, <2>5
<1> QED
  BY <1>3, WriteLog

\* What the log sees of a call.
LEMMA CallLog ==
  ASSUME ApartInv, NEW t \in Threads, Call(t)
  PROVE  loaded /\ loaded' /\ WriterStep(t)
<1>1. OpShape /\ FileInv
  BY DEF ApartInv
<1>2. AnyCall(t) /\ OthersStay(t) /\ op[t].pc = "idle"
  BY <1>1, CallIsAny, CallBegins, CallLock
<1>3. /\ loaded /\ loaded'
      /\ op'[t].pc \in {"idle", "read_lock", "write_lock", "ioctl_lock"}
  BY <1>1, <1>2, CallFile DEF FileInv
<1>4. UNCHANGED <<ring, partial, heap>>
  BY DEF Call, Open, Release, ReadCall, WriteCall, IoctlCall, WriteFault, IoctlFault,
         Refuse, Enter, LLSeek, device
<1>5. UNCHANGED <<Lines, Rest>>
  BY <1>2, <1>3, <1>4, LogKept
<1>6. CASE op'[t].pc = "write_lock"
  <2>1. op'[t].data \in Payloads
    BY <1>1, <1>6, WriteBegins
  <2>2. WriteOf(t) = Log!Outside(op[t].ret) /\ WriteOf(t)' = Log!Calling(op'[t].data)
    BY <1>2, <1>6, WriteIs DEF Writing
  <2>3. Log!Turn(t, Log!Outside(op[t].ret), Log!Calling(op'[t].data))
    BY <1>2, <2>2, WriteMoves
  <2>4. [u \in Threads |-> WriteOf(u)][t].ret = op[t].ret
    BY <2>2 DEF Log!Outside
  <2>5. Log!Write(t)
    BY <1>3, <1>5, <2>1, <2>3, <2>4 DEF Log!Write
  <2> QED
    BY <1>3, <2>5 DEF WriterStep
<1>7. CASE op'[t].pc # "write_lock"
  BY <1>2, <1>3, <1>5, <1>7, OtherReturns DEF Writing
<1> QED
  BY <1>6, <1>7

\* A device that has been prepared holds nothing.
LEMMA EmptyLog ==
  ASSUME ring = EmptyBuffer, partial = NULL, \A t \in Threads : op[t].pc = "idle"
  PROVE  Lines = << >> /\ Rest = << >>
<1>1. Count(ring) = 0 /\ Installing = {}
  BY DEF Count, EmptyBuffer, Installing
<1> QED
  BY <1>1, NullAssumption DEF Lines, Rest, Bytes

LEMMA NextLog ==
  ASSUME ApartInv, MutualExclusion, Next
  PROVE  Log!Next \/ Unseen
<1>1. MemInv /\ OpShape /\ FileInv
  BY DEF ApartInv
<1>2. ASSUME NEW t \in Threads, Step(t) PROVE Log!Next \/ Unseen
  <2>1. loaded /\ loaded'
    BY <1>1, <1>2, StepKeepsFiles
  <2> QED
    BY <1>2, <2>1, StepLog, WriterNext
<1>3. ASSUME NEW t \in Threads, Call(t) PROVE Log!Next
  BY <1>3, CallLog, WriterNext
<1>4. ASSUME UNCHANGED op PROVE UNCHANGED [t \in Threads |-> WriteOf(t)]
  BY <1>4 DEF WriteOf
<1>5. CASE Unload
  <2>1. loaded /\ ~loaded' /\ loaded' = FALSE /\ UNCHANGED op
    BY <1>5 DEF Unload
  <2>2. \A t \in Threads : op[t].pc = "idle"
    BY <1>1, <1>5, LoadingKeepsFiles
  <2>3. \A t \in Threads : [u \in Threads |-> WriteOf(u)][t].at = "outside"
    BY <2>2 DEF WriteOf
  <2>4. Log!Unload
    BY <1>4, <2>1, <2>3 DEF Log!Unload
  <2> QED
    BY <2>4 DEF Log!Next
<1>6. CASE Load \/ LoadFails
  <2>1. ~loaded /\ ring' = EmptyBuffer /\ partial' = NULL /\ op' = op
    BY <1>6 DEF Load, LoadFails
  <2>2. \A t \in Threads : op'[t].pc = "idle"
    BY <1>1, <2>1 DEF FileInv
  <2>3. Lines' = << >> /\ Rest' = << >>
    <3>1. Count(ring)' = 0 /\ Installing' = {}
      BY <2>1, <2>2 DEF Count, EmptyBuffer, Installing
    <3> QED
      BY <2>1, <3>1, NullAssumption DEF Lines, Rest, Bytes
  <2>4. UNCHANGED [t \in Threads |-> WriteOf(t)]
    BY <1>4, <2>1
  <2>5. CASE Load
    <3>1. loaded' = TRUE
      BY <2>5 DEF Load
    <3>2. Log!Load
      BY <2>1, <2>3, <2>4, <3>1 DEF Log!Load
    <3> QED
      BY <3>2 DEF Log!Next
  <2>6. CASE LoadFails
    BY <2>1, <2>3, <2>4, <2>6 DEF LoadFails, Unseen
  <2> QED
    BY <1>6, <2>5, <2>6
<1> QED
  BY <1>2, <1>3, <1>5, <1>6 DEF Next

\* The driver implements DeviceLog, whichever of its kmalloc calls fail (aesd_write,
\* aesd_init_module, aesd_cleanup_module in main.c): each write(2) joins its own bytes
\* to the stream, all of them and at one step, or fails and joins none; a write that
\* returns their number has left no newline uncut; an entry that cannot be allocated
\* costs the bytes not yet made lines, and is told to the writer; no other call and no
\* failure changes a byte, and a line is given up only for a newer one when the ring is
\* full.  What it takes is that the callers are kept apart.
THEOREM DriverImplementsLog == Spec /\ []MutualExclusion => ImplementsDeviceLog
<1>1. Init => Log!Init
  <2> SUFFICES ASSUME Init PROVE Log!Init
    OBVIOUS
  <2>1. /\ ring = EmptyBuffer /\ partial = NULL /\ loaded = TRUE
        /\ op = [t \in Threads |-> Returned(0, << >>)]
    BY DEF Init
  <2>2. \A t \in Threads : op[t].pc = "idle" /\ op[t].ret = 0
    BY <2>1 DEF Returned
  <2>3. Lines = << >> /\ Rest = << >>
    BY <2>1, <2>2, EmptyLog
  <2>4. \A t \in Threads : WriteOf(t) = Log!Outside(0)
    BY <2>2 DEF WriteOf, Log!Outside
  <2> QED
    BY <2>1, <2>3, <2>4 DEF Log!Init
<1>2. ApartInv /\ MutualExclusion /\ [Next]_vars
      => [Log!Next]_(<<loaded, IF loaded THEN Lines ELSE << >>, IF loaded THEN Rest ELSE << >>,
                       [t \in Threads |-> WriteOf(t)]>>)
  <2> SUFFICES ASSUME ApartInv, MutualExclusion, [Next]_vars PROVE Log!Next \/ Unseen
    BY DEF Unseen
  <2>1. CASE UNCHANGED vars
    <3>1. UNCHANGED <<ring, heap, partial, op, loaded>>
      BY <2>1 DEF vars
    <3>2. UNCHANGED Installing
      BY <3>1 DEF Installing
    <3>3. UNCHANGED Rest
      BY <3>1, <3>2 DEF Rest, Bytes
    <3>4. UNCHANGED [t \in Threads |-> WriteOf(t)]
      BY <3>1 DEF WriteOf
    <3> QED
      BY <3>1, <3>3, <3>4, StreamKept DEF Unseen
  <2> QED
    BY <2>1, NextLog
<1> QED
  BY <1>1, <1>2, ApartInvInit, ApartInvNext, PTL DEF Spec, ImplementsDeviceLog, Log!Spec

-----------------------------------------------------------------------------
(* Every step of a handler leaves it less to do.                           *)

LEMMA BytesString ==
  ASSUME MemInv, NEW a
  PROVE  Bytes(a) \in Seq(Byte) /\ Len(Bytes(a)) \in Nat
<1>1. Bytes(a) \in Seq(Byte)
  BY DEF Bytes, MemInv, HeapShape, Allocated
<1> QED
  BY <1>1

\* Who is in a handler has something to do.
LEMMA LeftType ==
  ASSUME MemInv, NEW t \in Threads, Typed(t)
  PROVE  Left(t) \in Nat /\ (op[t].pc # "idle" => Left(t) > 0)
<1>1. /\ op[t].count \in Nat /\ Len(op[t].data) \in Nat
      /\ op[t].pc \in Inside \cup Waiting \cup {"idle", "read_unlock"}
  BY DEF Typed, Control
<1>2. Len(Bytes(partial)) \in Nat /\ Len(Bytes(op[t].block)) \in Nat
  BY BytesString
<1> DEFINE c == op[t].count
           d == Len(op[t].data)
           p == Len(Bytes(partial))
           b == Len(Bytes(op[t].block))
<1>3. /\ c \in Nat /\ d \in Nat /\ p \in Nat /\ b \in Nat
      /\ \/ op[t].pc = "read_lock"     /\ Left(t) = c + 3
         \/ op[t].pc = "read_loop"     /\ Left(t) = c + 2
         \/ op[t].pc = "write_lock"    /\ Left(t) = p + d + 4
         \/ op[t].pc = "write_combine" /\ Left(t) = p + d + 3
         \/ op[t].pc = "write_install" /\ Left(t) = b + 2
         \/ op[t].pc = "write_loop"    /\ Left(t) = p + 1
         \/ op[t].pc = "ioctl_lock"    /\ Left(t) = 2
         \/ op[t].pc \in {"ioctl_seek", "read_unlock"} /\ Left(t) = 1
         \/ op[t].pc = "idle"          /\ Left(t) = 0
  BY <1>1, <1>2 DEF Left, Inside, Waiting
<1> HIDE DEF c, d, p, b
<1> QED
  BY <1>3

LEMMA StepsShorten ==
  ASSUME MemInv, OpShape, loaded, MutualExclusion, NEW t \in Threads, Typed(t), Step(t)
  PROVE  Left(t)' \in Nat /\ Left(t)' < Left(t)
<1>1. /\ op[t].count \in Nat /\ op[t].data \in Seq(Byte) /\ Len(op[t].data) \in Nat
      /\ Len(Bytes(partial)) \in Nat /\ Len(Bytes(op[t].block)) \in Nat
  BY BytesString DEF Typed
<1>2. Left(t) \in Nat /\ Left(t) > 0
  BY LeftType, StepEffect
\* The steps after which nothing is left.
<1>3. ASSUME op'[t].pc = "idle" PROVE Left(t)' \in Nat /\ Left(t)' < Left(t)
  BY <1>2, <1>3 DEF Left
<1>4. CASE TakeLock(t)
  <2>1. ASSUME NEW from, NEW to, Lock(t, from, to)
        PROVE  /\ op[t].pc = from /\ op'[t].pc = to
               /\ op'[t].count = op[t].count /\ op'[t].data = op[t].data
               /\ Bytes(partial)' = Bytes(partial)
    BY <2>1 DEF Lock, Goto, OpShape, Fields, Bytes
  <2>2. CASE ReadLock(t)
    <3>1. op[t].pc = "read_lock" /\ op'[t].pc = "read_loop" /\ op'[t].count = op[t].count
      BY <2>1, <2>2 DEF ReadLock
    <3> QED
      BY <1>1, <3>1 DEF Left
  <2>3. CASE WriteLock(t)
    <3>1. /\ op[t].pc = "write_lock" /\ op'[t].pc = "write_combine" /\ op'[t].data = op[t].data
          /\ Bytes(partial)' = Bytes(partial)
      BY <2>1, <2>3 DEF WriteLock
    <3> QED
      BY <1>1, <3>1 DEF Left
  <2>4. CASE IoctlLock(t)
    <3>1. op[t].pc = "ioctl_lock" /\ op'[t].pc = "ioctl_seek"
      BY <2>1, <2>4 DEF IoctlLock
    <3> QED
      BY <3>1 DEF Left
  <2> QED
    BY <1>4, <2>2, <2>3, <2>4 DEF TakeLock
<1>5. CASE ReadChunk(t)
  <2>1. PICK n \in Nat :
          /\ n > 0 /\ n <= op[t].count
          /\ op'[t] = [op[t] EXCEPT
                         !.data = op[t].data \o SubSeq(Stream, op[t].pos + 1, op[t].pos + n),
                         !.pos = op[t].pos + n, !.count = op[t].count - n]
    BY <1>5, ChunkFacts
  <2>2. op'[t].count = op[t].count - n
    BY <2>1 DEF OpShape, Fields
  <2>3. op[t].pc = "read_loop" /\ op'[t].pc = "read_loop"
    BY <1>5, ChunkStays
  <2> QED
    BY <1>1, <2>1, <2>2, <2>3 DEF Left
<1>6. CASE ReadEnd(t)
  <2>1. op[t].pc = "read_loop" /\ op'[t].pc = "read_unlock"
    BY <1>6 DEF ReadEnd, Finding, Goto, OpShape, Fields
  <2> QED
    BY <1>1, <2>1 DEF Left
<1>7. CASE ReadReturn(t)
  BY <1>3, <1>7, ReturnedShape DEF ReadReturn, OpShape
<1>8. CASE ReadFault(t) \/ WriteNoMemory(t) \/ WriteLineNoMemory(t) \/ WriteReturn(t) \/ IoctlSeek(t)
  <2>1. PICK r : Return(t, r)
    BY <1>8 DEF ReadFault, WriteNoMemory, WriteLineNoMemory, WriteReturn, IoctlSeek, Unlock
  <2> QED
    BY <1>3, <2>1, ReturnEffect
\* The unfinished line is where RestOf says, before a step of a write and after it.
<1>9. ASSUME op[t].pc \in Inside
      PROVE  /\ Alone(t) /\ Alone(t)'
             /\ Rest = IF op[t].pc = "write_install" THEN Bytes(op[t].block) ELSE Bytes(partial)
  <2>1. Alone(t) /\ OthersStay(t)
    BY <1>9, AloneInside, StepEffect
  <2>2. Alone(t)'
    BY <2>1 DEF Alone, OthersStay
  <2> QED
    BY <2>1, <2>2, RestOf
<1>10. CASE WriteCombine(t)
  <2>1. op[t].pc = "write_combine" /\ op[t].pc \in Inside
    BY <1>10 DEF WriteCombine, Inside
  <2>2. PICK a \in FreeBlocks :
          /\ heap' = [b \in Blocks |-> CASE b = a       -> Combined(Bytes(partial), op[t].data)
                                         [] b = partial -> NULL
                                         [] OTHER       -> heap[b]]
          /\ op'   = [op EXCEPT ![t].pc = "write_install", ![t].block = a]
    BY <1>10 DEF WriteCombine
  <2>3. op'[t].pc = "write_install" /\ op'[t].block = a
    BY <2>2 DEF OpShape, Fields
  <2>4. Combined(Bytes(partial), op[t].data) \in Seq(Byte)
    BY <1>1, BytesString DEF Combined
  <2>5. Bytes(op[t].block)' = Combined(Bytes(partial), op[t].data)
    <3>0. a # partial
      <4>1. Unfinished = {partial} \ {NULL}
        BY <1>9, <2>1, NobodyInstalls
      <4> QED
        BY <4>1, NullAssumption DEF MemInv, HeapExact, FreeBlocks
    <3>1. heap'[a] = Combined(Bytes(partial), op[t].data) /\ a \in Blocks
      BY <2>2, <3>0 DEF FreeBlocks
    <3>2. heap'[a] # NULL
      BY <2>4, <3>1, NullIsNoString
    <3>3. Bytes(op[t].block)' = Bytes(a)'
      BY <2>3 DEF Bytes
    <3> QED
      BY <3>1, <3>2, <3>3 DEF Bytes
  <2>6. Len(Bytes(op[t].block)') = Len(Bytes(partial)) + Len(op[t].data)
    BY <1>1, <2>5, BytesString DEF Combined
  <2> QED
    BY <1>1, <2>1, <2>3, <2>6 DEF Left
<1>11. CASE WriteInstall(t)
  <2>1. /\ op[t].pc = "write_install" /\ op'[t].pc = "write_loop"
        /\ partial' = op[t].block /\ heap' = heap
    BY <1>11 DEF WriteInstall, OpShape, Fields
  <2>2. Bytes(partial)' = Bytes(op[t].block)
    BY <2>1 DEF Bytes
  <2> QED
    BY <1>1, <2>1, <2>2 DEF Left
<1>12. CASE WriteLine(t)
  <2>1. op[t].pc = "write_loop" /\ op' = op /\ op[t].pc \in Inside
    BY <1>12 DEF WriteLine, LoopTest, Inside
  <2>2. Alone(t) /\ Alone(t)' /\ Rest = Bytes(partial)
    BY <1>9, <2>1
  <2>3. Rest' = Bytes(partial)'
    <3>1. Installing' = {}
      BY <2>1, <2>2 DEF Installing, Alone, Inside
    <3> QED
      BY <3>1 DEF Rest
  <2> DEFINE s == Bytes(partial)
             n == LineEnd(s)
  <2>4. s \in Seq(Byte) /\ n > 0 /\ Bytes(partial)' = SubSeq(s, n + 1, Len(s))
    BY <1>12, <2>2, <2>3, LineCompletes
  <2>5. n \in 1 .. Len(s)
    BY <2>4, LineEndInside
  <2> HIDE DEF s, n
  <2>6. Len(SubSeq(s, n + 1, Len(s))) = Len(s) - n /\ Len(s) \in Nat
    BY <2>4, <2>5
  <2>7. Len(Bytes(partial)') < Len(Bytes(partial)) /\ Len(Bytes(partial)') \in Nat
    BY <2>4, <2>5, <2>6 DEF s
  <2> QED
    BY <1>1, <2>1, <2>7 DEF Left
<1>13. ~Oops(t)
  BY AllSound DEF Oops
<1> QED
  BY <1>4, <1>5, <1>6, <1>7, <1>8, <1>10, <1>11, <1>12, <1>13 DEF Step, ReadStep, WriteStep

\* What another caller does leaves a handler what it had to do: it changes the
\* unfinished line only from the inside.
LEMMA OthersKeepLeft ==
  ASSUME NEW t \in Threads, op'[t] = op[t],
         UNCHANGED <<partial, heap>> \/ op[t].pc \notin Inside,
         op[t].pc \notin Waiting
  PROVE  Left(t)' = Left(t)
BY DEF Left, Bytes, Inside, Waiting

LEMMA HandlersEndNext ==
  ASSUME TypeInv, MutualExclusion, Next, NEW t \in Threads, op[t].pc \notin Waiting \cup {"idle"}
  PROVE  IF Step(t) THEN Left(t)' \in Nat /\ Left(t)' < Left(t) ELSE Left(t)' = Left(t)
<1>1. OpShape /\ MemInv /\ FileInv /\ loaded /\ Typed(t)
  BY DEF TypeInv, ApartInv, FileInv
<1>2. CASE Step(t)
  BY <1>1, <1>2, StepsShorten
<1>3. CASE Unload \/ Load \/ LoadFails
  BY <1>1, <1>3 DEF Unload, Load, LoadFails, FileInv
<1>4. ASSUME NEW u \in Threads, Call(u), ~Step(t) PROVE Left(t)' = Left(t)
  <2>1. OthersStay(u) /\ u # t
    BY <1>1, <1>4, CallBegins, CallLock
  <2>2. UNCHANGED <<partial, heap>>
    BY <1>4 DEF Call, Open, Release, ReadCall, WriteCall, IoctlCall, WriteFault, IoctlFault,
                Refuse, Enter, LLSeek, device
  <2> QED
    BY <2>1, <2>2, OthersKeepLeft DEF OthersStay
<1>5. ASSUME NEW u \in Threads, Step(u), ~Step(t) PROVE Left(t)' = Left(t)
  <2>1. OthersStay(u) /\ u # t
    BY <1>1, <1>5, StepEffect
  <2>2. UNCHANGED <<partial, heap>> \/ op[t].pc \notin Inside
    <3>1. op[u].pc \notin Inside => UNCHANGED <<partial, heap>>
      BY <1>5, OutsideKeepsDevice
    <3> QED
      BY <2>1, <3>1 DEF MutualExclusion
  <2> QED
    BY <2>1, <2>2, OthersKeepLeft DEF OthersStay
<1> QED
  BY <1>2, <1>3, <1>4, <1>5 DEF Next

\* The loops of aesd_read and aesd_write (main.c) end, whatever the ring holds, whatever
\* is written and whatever fails, as long as the callers are kept apart: a handler that
\* has dev->lock comes closer to its return with every step, and nobody sets it back.
THEOREM HandlersAlwaysEnd == Spec /\ []MutualExclusion => HandlersEnd
<1>1. TypeInv /\ MutualExclusion /\ [Next]_vars
      => [\A t \in Threads :
            op[t].pc \notin Waiting \cup {"idle"} =>
              IF Step(t) THEN Left(t)' \in Nat /\ Left(t)' < Left(t) ELSE Left(t)' = Left(t)]_vars
  BY HandlersEndNext
<1> QED
  BY <1>1, TypeInvInit, TypeInvNext, PTL DEF Spec, HandlersEnd

-----------------------------------------------------------------------------
(* Where nothing is assumed of the schedule.                               *)

\* Any number of processes that only write, seek and load or unload the module: dev->lock
\* is enough (aesd_write, aesd_ioctl in main.c) for the device to be the log of lines.
THEOREM WritersImplementLog ==
  ASSUME {"read", "release"} \cap Calls = {}
  PROVE  Spec => ImplementsDeviceLog
BY WritersExclude, DriverImplementsLog, PTL

\* One process that opens, writes, seeks, reads and closes (main.c), with whatever fails:
\* it reads what it wrote, from where it seeks to, and the device is the log of lines.
THEOREM OneCallerServed ==
  ASSUME \A t, u \in Threads : t = u
  PROVE  Spec => /\ [](TypeOK /\ ReadsAreContiguous /\ SeekFindsCommand)
                 /\ ImplementsDeviceLog
BY OneCallerApart, DriverTypes, ReadsContiguous, SeeksFindCommands, DriverImplementsLog, PTL
=============================================================================
