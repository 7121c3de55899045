----------------------------- MODULE WorkersProofs -----------------------------
(***************************************************************************)
(* The workers of the server, for any number of them, any packets, any     *)
(* capacity of the device and any failure up to the first realloc that     *)
(* fails: then a worker unlocks a mutex that is not its own.               *)
(*                                                                         *)
(* Exclusion.  They never disturb one another inside the driver.  Its lock *)
(* cannot be the reason: a worker's close and the end of its reads clear   *)
(* it whoever owns it.  The invariant therefore says nothing of dev->lock; *)
(* it follows file_mutex.  The memory of the device is then sound as well. *)
(*                                                                         *)
(* Replies.  A reply is the stream of the device at one instant: what is   *)
(* sent, what is read and not sent, and what a read has copied are         *)
(* consecutive parts of it.                                                *)
(*                                                                         *)
(* Waiting.  The owner of file_mutex is never held up by dev->lock, and    *)
(* every step it takes leaves it less to do before it unlocks (Ahead).     *)
(*                                                                         *)
(* Packets and lines.  Nobody answers before a newline, and a line of the  *)
(* device is a line that one client sent, as long as none goes on after    *)
(* its newline.                                                            *)
(***************************************************************************)
EXTENDS WorkerProperties, DriverProofs

\* The worker that a critical section of data_processing belongs to.
Holding == {"io", "in_io", "stream", "reading"}

Inv ==
  /\ OpShape
  /\ wpc \in [Threads -> WControl]
  /\ \A w \in Threads : op[w].pc # "idle" => wpc[w] \in {"in_io", "reading"}
  /\ \A w \in Threads : wpc[w] \in Holding => file_mutex = w

-----------------------------------------------------------------------------
LEMMA InvInit == WInit => Inv
<1> SUFFICES ASSUME WInit PROVE Inv
  OBVIOUS
<1>1. OpShape
  BY ReturnedShape DEF WInit, Init, OpShape
<1>2. \A w \in Threads : op[w].pc = "idle"
  BY ReturnedShape DEF WInit, Init
<1> QED
  BY <1>1, <1>2 DEF WInit, Inv, WControl, Holding

\* A step of one worker that leaves the driver alone and moves to a place where
\* it either has the mutex or needs none.
LEMMA OutsideDriver ==
  ASSUME Inv, NEW w \in Threads, NEW from, NEW to \in WControl,
         WGoto(w, from, to), UNCHANGED vars,
         from \in {"in_io", "reading"} => op[w].pc = "idle",
         to \in Holding => file_mutex' = w,
         \A u \in Threads \ {w} : wpc[u] \in Holding => file_mutex' = file_mutex
  PROVE  Inv'
BY DEF Inv, WGoto, OpShape, vars, Holding, WControl

\* A step of the worker that owns the mutex, or of one that needs none, into the
\* driver or out of it.
LEMMA ThroughDriver ==
  ASSUME Inv, NEW w \in Threads, NEW from, NEW to \in WControl,
         WGoto(w, from, to), UNCHANGED file_mutex,
         OpShape', OthersStay(w),
         op'[w].pc # "idle" => to \in {"in_io", "reading"},
         to \in Holding => from \in Holding
  PROVE  Inv'
BY DEF Inv, WGoto, OthersStay, WControl

LEMMA InvNext ==
  ASSUME Inv, [WNext]_allvars, \A w \in Threads : ~ReallocFails(w)
  PROVE  Inv'
<1>1. CASE UNCHANGED allvars
  BY <1>1 DEF Inv, OpShape, allvars, vars, server
<1>2. CASE Signal
  BY <1>2 DEF Signal, Inv, OpShape, vars
<1>3. ASSUME NEW w \in Threads, Receive(w) PROVE Inv'
  <2>1. ASSUME NEW c \in Chunks, Recv(w, c) PROVE Inv'
    <3>1. PICK to \in {"lock_io", "lock_stream", "loop"} : WGoto(w, "recv", to)
      BY <2>1 DEF Recv
    <3> QED
      BY <2>1, <3>1, OutsideDriver DEF Recv, WControl, Holding
  <2>2. CASE RecvError(w)
    BY <2>2, OutsideDriver DEF RecvError, WMove, WControl, Holding
  <2> QED
    BY <1>3, <2>1, <2>2 DEF Receive, ReallocFails
<1>4. ASSUME NEW w \in Threads, Acquire(w) PROVE Inv'
  <2>1. ASSUME NEW from, NEW to \in {"io", "stream"}, from \notin {"in_io", "reading"},
               LockMutex(w, from, to)
        PROVE  Inv'
    <3>1. \A u \in Threads : wpc[u] \notin Holding
      BY <2>1, NullAssumption, PayloadAssumption DEF LockMutex, SetMutex, Inv
    <3> QED
      BY <2>1, <3>1, OutsideDriver DEF LockMutex, SetMutex, WControl
  <2> QED
    BY <1>4, <2>1 DEF Acquire, LockIO, LockStream
<1>5. ASSUME NEW w \in Threads, Serve(w) \/ Send(w) PROVE Inv'
  <2>1. ASSUME NEW from \in Holding, NEW to \in WControl \ Holding, UnlockMutex(w, from, to)
        PROVE  Inv'
    <3>1. \A u \in Threads \ {w} : wpc[u] \notin Holding
      BY <2>1 DEF UnlockMutex, SetMutex, WGoto, Inv
    <3> QED
      BY <2>1, <3>1, OutsideDriver DEF UnlockMutex, SetMutex
  <2>2. CASE OpenDevice(w)
    BY <2>2, ReturnEffect, ThroughDriver DEF OpenDevice, WMove, Open, Inv, WControl, Holding
  <2>3. CASE Continue(w)
    <3>1. PICK to \in {"close", "recv"} : WGoto(w, "loop", to)
      BY <2>3 DEF Continue, WMove
    <3> QED
      BY <2>3, <3>1, OutsideDriver DEF Continue, WMove, WControl, Holding
  <2>4. CASE SeekOrWrite(w)
    <3>1. OpShape' /\ OthersStay(w)
      <4>1. WriteCall(w, packet[w]) \/ WriteFault(w) \/ IoctlFault(w)
            \/ IoctlCall(w, Command[Head(packet[w])])
        BY <2>4 DEF SeekOrWrite, WMove
      <4> QED
        BY <4>1, CallEffect DEF Inv
    <3> QED
      BY <2>4, <3>1, ThroughDriver DEF SeekOrWrite, WMove, WControl, Holding
  <2>5. CASE UnlockIO(w)
    BY <2>5, <2>1 DEF UnlockIO, WControl, Holding
  <2>6. CASE ReadMore(w)
    BY <2>6, CallEffect, WorkerAssumption, ThroughDriver
       DEF ReadMore, WMove, Inv, WControl, Holding
  <2>7. CASE Send(w)
    <3>1. wpc[w] = "reading" /\ file_mutex = w
      BY <2>7 DEF Send, WGoto, Inv, Holding
    <3> QED
      BY <2>7, <3>1, OutsideDriver DEF Send, WControl, Holding
  <2>8. CASE UnlockStream(w)
    BY <2>8, <2>1 DEF UnlockStream, WControl, Holding
  <2>9. CASE CloseDevice(w)
    BY <2>9, ReturnEffect, ThroughDriver DEF CloseDevice, WMove, Release, Inv, WControl, Holding
  <2> QED
    BY <1>5, <2>2, <2>3, <2>4, <2>5, <2>6, <2>7, <2>8, <2>9 DEF Serve
<1>6. ASSUME NEW w \in Threads, Device(w) PROVE Inv'
  BY <1>6, StepEffect DEF Device, Inv, OthersStay, server
<1> QED
  BY <1>1, <1>2, <1>3, <1>4, <1>5, <1>6 DEF WNext, AllDone

\* A worker moves from place to place, and one that is gone does not.
Moves == \E w \in Threads, from \in WControl \ {"gone"}, to \in WControl : WGoto(w, from, to)

LEMMA PlacesChange == [WNext]_allvars => wpc' = wpc \/ Moves
<1> SUFFICES ASSUME [WNext]_allvars PROVE wpc' = wpc \/ Moves
  OBVIOUS
<1> USE DEF WControl, Moves
<1>1. CASE UNCHANGED allvars \/ Signal \/ AllDone
  BY <1>1 DEF Signal, AllDone, allvars, server
<1>2. ASSUME NEW w \in Threads, Receive(w) PROVE Moves
  <2>1. ASSUME NEW c \in Chunks, Recv(w, c) PROVE Moves
    <3>1. PICK to \in {"lock_io", "lock_stream", "loop"} : WGoto(w, "recv", to)
      BY <2>1 DEF Recv
    <3> QED
      BY <3>1
  <2> QED
    BY <1>2, <2>1 DEF Receive, RecvError, ReallocFails, SetMutex, WMove
<1>3. ASSUME NEW w \in Threads, Serve(w) \/ Send(w) PROVE Moves
  <2>1. CASE Continue(w)
    <3>1. PICK to \in {"close", "recv"} : WGoto(w, "loop", to)
      BY <2>1 DEF Continue, WMove
    <3> QED
      BY <3>1
  <2> QED
    BY <1>3, <2>1 DEF Serve, OpenDevice, SeekOrWrite, UnlockIO, ReadMore, Send,
                      UnlockStream, CloseDevice, UnlockMutex, SetMutex, WMove
<1>4. ASSUME NEW w \in Threads, Acquire(w) PROVE Moves
  BY <1>4 DEF Acquire, LockIO, LockStream, LockMutex, SetMutex
<1>5. ASSUME NEW w \in Threads, Device(w) PROVE wpc' = wpc
  BY <1>5 DEF Device, server
<1> QED
  BY <1>1, <1>2, <1>3, <1>4, <1>5 DEF WNext

\* Until somebody is gone the workers are as Inv says.
SoundUntilGone == wpc \in [Threads -> WControl] /\ (AnyGone \/ Inv)

LEMMA SoundNext == SoundUntilGone /\ [WNext]_allvars => SoundUntilGone'
<1> SUFFICES ASSUME SoundUntilGone, [WNext]_allvars PROVE SoundUntilGone'
  OBVIOUS
<1>1. wpc' \in [Threads -> WControl]
  BY PlacesChange DEF SoundUntilGone, Moves, WGoto
<1>2. CASE AnyGone
  <2>1. AnyGone'
    BY <1>2, PlacesChange DEF SoundUntilGone, AnyGone, Moves, WGoto
  <2> QED
    BY <1>1, <2>1 DEF SoundUntilGone
<1>3. ASSUME NEW w \in Threads, ReallocFails(w) PROVE SoundUntilGone'
  BY <1>1, <1>3 DEF ReallocFails, SetMutex, WGoto, SoundUntilGone, AnyGone
<1>4. CASE Inv /\ \A w \in Threads : ~ReallocFails(w)
  BY <1>1, <1>4, InvNext DEF SoundUntilGone
<1> QED
  BY <1>2, <1>3, <1>4 DEF SoundUntilGone

-----------------------------------------------------------------------------
\* Whoever is inside a system call on the device owns file_mutex
\* (data_processing, server/socket.c), whatever dev->lock says.
THEOREM SerialCalls == WSpec => []CallsAreSerial
<1>1. WInit => SoundUntilGone
  BY InvInit DEF Inv, SoundUntilGone
<1>2. SoundUntilGone => CallsAreSerial
  BY DEF Inv, SoundUntilGone, CallsAreSerial, InCall, Holding
<1> QED
  BY <1>1, <1>2, SoundNext, PTL DEF WSpec

\* The server's use of its mutex restores what the stray mutex_unlock calls of
\* aesd_read and aesd_release take away: no two threads are ever in the critical
\* sections of the driver.
THEOREM DriverExclusion == WSpec => [](AnyGone \/ MutualExclusion)
<1>1. WInit => SoundUntilGone
  BY InvInit DEF Inv, SoundUntilGone
<1>2. SoundUntilGone => AnyGone \/ MutualExclusion
  BY DEF Inv, SoundUntilGone, MutualExclusion, Inside, Holding
<1> QED
  BY <1>1, <1>2, SoundNext, PTL DEF WSpec

-----------------------------------------------------------------------------
(* dev->lock, whatever has failed.                                         *)

\* The system calls of the server.
Enters(w) == OpenDevice(w) \/ SeekOrWrite(w) \/ ReadMore(w) \/ CloseDevice(w)

LEMMA WorkerBegins ==
  ASSUME NEW w \in Threads, Enters(w)
  PROVE  Begins(w)
BY DEF Enters, OpenDevice, SeekOrWrite, ReadMore, CloseDevice, Begins

\* Only calls and their handlers change the device.
LEMMA DriverSteps ==
  ASSUME [WNext]_allvars
  PROVE  UNCHANGED vars \/ \E w \in Threads : Enters(w) \/ Device(w)
BY DEF WNext, AllDone, allvars, Signal, Receive, Recv, RecvError, ReallocFails, Acquire,
       LockIO, LockStream, LockMutex, UnlockMutex, SetMutex, Serve, Enters, Continue, UnlockIO,
       Send, UnlockStream

LEMMA WorkersKeepLockInv == LockInv /\ [WNext]_allvars => LockInv'
<1> SUFFICES ASSUME LockInv, [WNext]_allvars PROVE LockInv'
  OBVIOUS
<1>1. CASE UNCHANGED vars
  BY <1>1 DEF LockInv, OwnerInside, OpShape, vars
<1>2. ASSUME NEW w \in Threads, Enters(w) PROVE LockInv'
  BY <1>2, WorkerBegins, CallLock DEF LockInv, OwnerInside, OthersStay, Inside
<1>3. ASSUME NEW w \in Threads, Device(w) PROVE LockInv'
  <2>1. OpShape' /\ OthersStay(w) /\ (Takes(w) \/ Keeps(w) \/ Leaves(w) \/ Idles)
    BY <1>3, StepEffect, StepLock DEF LockInv, Device
  <2> QED
    BY <2>1 DEF Takes, Keeps, Leaves, Idles, LockInv, OwnerInside, OthersStay
<1> QED
  BY <1>1, <1>2, <1>3, DriverSteps

\* Whatever the clients send and whatever fails in the server or in the driver, even a
\* realloc: dev->lock is never left locked by a handler that has returned, so that no
\* thread of the server waits for a lock that nobody will release.
THEOREM ServerReleasesLock == WSpec => []LockIsReleased
<1>1. WInit => LockInv
  BY InitShape DEF WInit, LockInv, OwnerInside
<1>2. LockInv => LockIsReleased
  BY DEF LockInv, OwnerInside, LockIsReleased
<1> QED
  BY <1>1, <1>2, WorkersKeepLockInv, PTL DEF WSpec

-----------------------------------------------------------------------------
(* file_mutex and dev->lock have owners that go on.                        *)

\* file_mutex belongs to nobody who has left the critical sections.
OwnerHolds == file_mutex = NULL \/ (file_mutex \in Threads /\ wpc[file_mutex] \in Holding)

LEMMA OwnerHoldsNext ==
  ASSUME OwnerHolds, wpc \in [Threads -> WControl], [WNext]_allvars
  PROVE  OwnerHolds'
<1> USE DEF OwnerHolds, Holding
\* Whoever moves has the mutex afterwards, gives it up, or is not its owner, unless
\* it stays in its section.
<1>1. ASSUME NEW w \in Threads, NEW from, NEW to, WGoto(w, from, to),
             \/ file_mutex' = NULL \/ (file_mutex' = w /\ to \in Holding)
             \/ file_mutex' = file_mutex /\ (from \in Holding => to \in Holding)
      PROVE  OwnerHolds'
  BY <1>1 DEF WGoto
<1>2. CASE UNCHANGED <<file_mutex, wpc>>
  BY <1>2
<1>3. CASE UNCHANGED allvars \/ Signal \/ AllDone
  BY <1>2, <1>3 DEF allvars, server, Signal, AllDone
<1>4. ASSUME NEW w \in Threads, Receive(w) PROVE OwnerHolds'
  <2>1. ASSUME NEW c \in Chunks, Recv(w, c) PROVE OwnerHolds'
    <3>1. (\E to : WGoto(w, "recv", to)) /\ file_mutex' = file_mutex
      BY <2>1 DEF Recv
    <3> QED
      BY <1>1, <3>1
  <2> QED
    BY <1>1, <1>4, <2>1 DEF Receive, RecvError, ReallocFails, WMove, SetMutex
<1>5. ASSUME NEW w \in Threads, Acquire(w) PROVE OwnerHolds'
  BY <1>1, <1>5 DEF Acquire, LockIO, LockStream, LockMutex, SetMutex
<1>6. ASSUME NEW w \in Threads, Serve(w) \/ Send(w) PROVE OwnerHolds'
  <2>1. CASE UnlockIO(w) \/ UnlockStream(w)
    BY <1>1, <2>1 DEF UnlockIO, UnlockStream, UnlockMutex, SetMutex
  <2>2. CASE Continue(w)
    <3>1. (\E to : WGoto(w, "loop", to)) /\ file_mutex' = file_mutex
      BY <2>2 DEF Continue, WMove
    <3> QED
      BY <1>1, <3>1
  <2>3. CASE OpenDevice(w) \/ SeekOrWrite(w) \/ ReadMore(w) \/ Send(w) \/ CloseDevice(w)
    <3>1. /\ file_mutex' = file_mutex
          /\ \E m \in {<<"new", "loop">>, <<"io", "in_io">>, <<"stream", "reading">>,
                       <<"reading", "stream">>, <<"close", "done">>} : WGoto(w, m[1], m[2])
      BY <2>3 DEF OpenDevice, SeekOrWrite, ReadMore, Send, CloseDevice, WMove
    <3> QED
      BY <1>1, <3>1
  <2> QED
    BY <1>6, <2>1, <2>2, <2>3 DEF Serve
<1>7. ASSUME NEW w \in Threads, Device(w) PROVE OwnerHolds'
  BY <1>2, <1>7 DEF Device, server
<1> QED
  BY <1>3, <1>4, <1>5, <1>6, <1>7 DEF WNext

\* A thread of the server that waits for file_mutex waits for one that can go on: its owner
\* is between pthread_mutex_lock and pthread_mutex_unlock of data_processing
\* (server/socket.c), and when it comes to mutex_lock of the driver (main.c), dev->lock
\* is free.
THEOREM NobodyWaitsForWaiters == WSpec => []OwnersGoOn
<1> DEFINE GoInv == SoundUntilGone /\ LockInv /\ OwnerHolds
<1>1. WInit => GoInv
  BY InvInit, InitShape DEF WInit, SoundUntilGone, Inv, LockInv, OwnerInside, OwnerHolds
<1>2. GoInv /\ [WNext]_allvars => GoInv'
  BY SoundNext, WorkersKeepLockInv, OwnerHoldsNext DEF SoundUntilGone
<1>3. GoInv => OwnersGoOn
  <2> SUFFICES ASSUME Inv, LockInv, OwnerHolds, file_mutex # NULL
               PROVE  /\ wpc[file_mutex] \in Holding
                      /\ op[file_mutex].pc \in Waiting => lock = NULL
    BY DEF SoundUntilGone, OwnersGoOn, Holding
  <2>1. wpc[file_mutex] \in Holding
    BY DEF OwnerHolds
  <2>2. ASSUME lock # NULL PROVE op[file_mutex].pc \notin Waiting
    <3>1. lock \in Threads /\ op[lock].pc \in Inside
      BY <2>2 DEF LockInv, OwnerInside
    <3>2. file_mutex = lock
      BY <3>1 DEF Inv, Inside, Holding
    <3> QED
      BY <3>1, <3>2 DEF Inside, Waiting
  <2> QED
    BY <2>1, <2>2
<1> HIDE DEF GoInv
<1> QED
  BY <1>1, <1>2, <1>3, PTL DEF WSpec

-----------------------------------------------------------------------------
(* The memory of the device, with the server's threads as its callers.     *)

\* What the variables of the server hold, whatever happens in the driver.
ServerTyped ==
  /\ file_mutex \in Threads \cup {NULL}
  /\ end_of_packet \in [Threads -> BOOLEAN]
  /\ exit_requested \in BOOLEAN
  /\ packet \in [Threads -> Seq(Byte)]
  /\ reply \in [Threads -> Seq(Byte)]

Sane == Inv /\ FileInv /\ MemInv /\ loaded /\ ServerTyped /\ \A w \in Threads : Typed(w)

\* A worker outside the driver changes nothing of it.
LEMMA OutsideKeepsMemory ==
  ASSUME MemInv, FileInv, loaded, \A w \in Threads : Typed(w), UNCHANGED vars
  PROVE  MemInv' /\ FileInv' /\ loaded' /\ \A w \in Threads : Typed(w)'
<1>1. EntryBlocks' = EntryBlocks /\ Unfinished' = Unfinished
  BY DEF vars, EntryBlocks, Unfinished, Installing
<1> QED
  BY <1>1 DEF vars, MemInv, HeapShape, Allocated, RingInv, HeapExact, WriteLocals,
              NoUseAfterFree, FileInv, Typed

\* Whoever is in the driver owns file_mutex, so it is alone there.
LEMMA InvExcludes == Inv => OpShape /\ MutualExclusion
BY DEF Inv, MutualExclusion, Inside, Holding

LEMMA WorkerCalls ==
  ASSUME ServerTyped, NEW w \in Threads, Enters(w)
  PROVE  AnyCall(w) /\ UNCHANGED <<file_mutex, packet, end_of_packet, reply, exit_requested>>
<1>1. packet[w] \in Seq(Byte) /\ ReadSize \in Nat
  BY WorkerAssumption, PayloadAssumption DEF ServerTyped
<1>2. IsSeek(packet[w]) => Command[Head(packet[w])] \in Nat \X Nat
  BY WorkerAssumption DEF IsSeek
<1> QED
  BY <1>1, <1>2 DEF Enters, OpenDevice, SeekOrWrite, ReadMore, CloseDevice, WMove, AnyCall

\* What recv makes of the packet of its worker, and of nobody else's.
LEMMA PacketGrows ==
  ASSUME ServerTyped, NEW w \in Threads, NEW c \in Chunks, Recv(w, c)
  PROVE  ServerTyped'
<1>1. packet' = [packet EXCEPT ![w] = packet[w] \o c]
  BY DEF Recv, Received
<1>2. packet[w] \o c \in Seq(Byte)
  BY WorkerAssumption DEF ServerTyped
<1>3. packet' \in [Threads -> Seq(Byte)]
  BY <1>1, <1>2 DEF ServerTyped
<1>4. Flag(end_of_packet[w], packet[w] \o c) \in BOOLEAN
  BY DEF Flag, ServerTyped, IsPacket
<1>5. end_of_packet' = [end_of_packet EXCEPT ![w] = Flag(@, packet[w] \o c)]
  BY DEF Recv, Received
<1>6. end_of_packet' \in [Threads -> BOOLEAN]
  BY <1>4, <1>5 DEF ServerTyped
<1>7. UNCHANGED <<file_mutex, reply, exit_requested>>
  BY DEF Recv
<1> QED
  BY <1>3, <1>6, <1>7 DEF ServerTyped

LEMMA ReplyGrows ==
  ASSUME ServerTyped, NEW w \in Threads, Typed(w), Send(w)
  PROVE  ServerTyped'
<1>1. op[w].data \in Seq(Byte) /\ reply[w] \in Seq(Byte)
  BY DEF Typed, ServerTyped
<1>2. reply[w] \o op[w].data \in Seq(Byte)
  BY <1>1
<1>3. reply' = [reply EXCEPT ![w] = reply[w] \o op[w].data] \/ reply' = reply
  BY DEF Send
<1>4. reply' \in [Threads -> Seq(Byte)]
  BY <1>2, <1>3 DEF ServerTyped
<1> QED
  BY <1>4 DEF Send, ServerTyped

LEMMA SaneNext ==
  ASSUME Sane, [WNext]_allvars, \A w \in Threads : ~ReallocFails(w)
  PROVE  Sane'
<1>1. Inv' /\ OpShape /\ MutualExclusion
  BY InvNext, InvExcludes DEF Sane
<1> USE DEF Sane
<1>2. CASE ServerTyped' /\ UNCHANGED vars
  BY <1>1, <1>2, OutsideKeepsMemory
<1>3. CASE UNCHANGED allvars \/ Signal \/ AllDone
  BY <1>2, <1>3 DEF allvars, server, Signal, AllDone, ServerTyped
<1>4. ASSUME NEW w \in Threads, Receive(w) PROVE Sane'
  <2>1. ASSUME NEW c \in Chunks, Recv(w, c) PROVE Sane'
    <3>1. UNCHANGED vars
      BY <2>1 DEF Recv
    <3> QED
      BY <1>2, <2>1, <3>1, PacketGrows
  <2>2. CASE RecvError(w)
    BY <1>2, <2>2 DEF RecvError, WMove, ServerTyped
  <2> QED
    BY <1>4, <2>1, <2>2 DEF Receive
<1>5. ASSUME NEW w \in Threads, Acquire(w) PROVE Sane'
  BY <1>2, <1>5 DEF Acquire, LockIO, LockStream, LockMutex, SetMutex, ServerTyped
<1>6. ASSUME NEW w \in Threads, Serve(w) \/ Send(w) PROVE Sane'
  <2>1. CASE Continue(w) \/ UnlockIO(w) \/ UnlockStream(w)
    BY <1>2, <2>1 DEF Continue, UnlockIO, UnlockStream, UnlockMutex, SetMutex, WMove, ServerTyped
  <2>3. CASE Send(w)
    <3>1. ServerTyped'
      BY <2>3, ReplyGrows
    <3> QED
      BY <1>2, <2>3, <3>1 DEF Send
  <2>2. CASE Enters(w)
    <3>1. AnyCall(w) /\ UNCHANGED <<file_mutex, packet, end_of_packet, reply, exit_requested>>
      BY <2>2, WorkerCalls
    <3>2. OthersStay(w) /\ OthersFiles(w) /\ loaded' /\ Typed(w)'
      BY <1>1, <3>1, AnyCallEffect, CallFile, CallTyped DEF FileInv
    <3>3. FileInv' /\ MemInv' /\ \A u \in Threads : Typed(u)'
      BY <1>1, <3>1, <3>2, CallKeepsFiles, CallKeepsMemory, OthersTyped
    <3> QED
      BY <1>1, <3>1, <3>2, <3>3 DEF ServerTyped
  <2> QED
    BY <1>6, <2>1, <2>2, <2>3 DEF Serve, Enters
<1>7. ASSUME NEW w \in Threads, Device(w) PROVE Sane'
  <2>1. Step(w) /\ UNCHANGED <<file_mutex, packet, end_of_packet, reply, exit_requested>>
    BY <1>7 DEF Device, server
  <2>2. FileInv' /\ MemInv' /\ loaded' /\ OthersStay(w) /\ OthersFiles(w) /\ Typed(w)'
    BY <1>1, <2>1, StepEffect, StepFile, StepTyped, StepKeepsFiles, StepKeepsMemory DEF FileInv
  <2>3. \A u \in Threads : Typed(u)'
    BY <2>2, OthersTyped
  <2> QED
    BY <1>1, <2>1, <2>2, <2>3 DEF ServerTyped
<1> QED
  BY <1>3, <1>4, <1>5, <1>6, <1>7 DEF WNext

SaneUntilGone == SoundUntilGone /\ (AnyGone \/ Sane)

LEMMA SaneUntilGoneNext == SaneUntilGone /\ [WNext]_allvars => SaneUntilGone'
<1> SUFFICES ASSUME SaneUntilGone, [WNext]_allvars PROVE AnyGone' \/ Sane'
  BY SoundNext DEF SaneUntilGone
<1>1. CASE AnyGone
  BY <1>1, PlacesChange DEF SaneUntilGone, SoundUntilGone, AnyGone, Moves, WGoto
<1>2. ASSUME NEW w \in Threads, ReallocFails(w) PROVE AnyGone'
  BY <1>2 DEF ReallocFails, SetMutex, WGoto, SaneUntilGone, SoundUntilGone, AnyGone
<1>3. CASE Sane /\ \A w \in Threads : ~ReallocFails(w)
  BY <1>3, SaneNext
<1> QED
  BY <1>1, <1>2, <1>3 DEF SaneUntilGone

LEMMA SaneInit == WInit => SaneUntilGone
<1> SUFFICES ASSUME WInit PROVE SaneUntilGone
  OBVIOUS
<1>1. Inv /\ FileInv /\ MemInv /\ loaded /\ \A w \in Threads : Typed(w)
  BY InvInit, InitMemory, InitFiles, TypeInvInit DEF WInit, TypeInv
<1>2. ServerTyped
  <2>1. end_of_packet \in [Threads -> BOOLEAN]
    BY WorkerAssumption DEF WInit
  <2>2. [w \in Threads |-> << >>] \in [Threads -> Seq(Byte)]
    BY NoBytes
  <2> QED
    BY <2>1, <2>2 DEF WInit, ServerTyped
<1> QED
  BY <1>1, <1>2 DEF SaneUntilGone, SoundUntilGone, Sane, Inv

\* As long as no realloc has failed, the server makes the driver use no freed memory
\* and lose none, although aesd_read and aesd_release unlock dev->lock under others.
THEOREM ServerMemorySound == WSpec => []MemorySound
<1>1. SaneUntilGone => MemorySound
  BY DEF SaneUntilGone, Sane, MemInv, MemorySound
<1> QED
  BY <1>1, SaneInit, SaneUntilGoneNext, PTL DEF WSpec

\* What the threads of the server (data_processing, server/socket.c) receive, send and
\* remember always has its type, as long as no realloc has failed.
THEOREM ServerTypes == WSpec => [](AnyGone \/ WTypeOK)
<1>1. SaneUntilGone => AnyGone \/ WTypeOK
  BY DEF SaneUntilGone, Sane, Inv, ServerTyped, WTypeOK
<1> QED
  BY <1>1, SaneInit, SaneUntilGoneNext, PTL DEF WSpec

-----------------------------------------------------------------------------
(* What a client is sent.                                                  *)

\* Where a worker has sent nothing; where its file is as it was opened.
Before  == {"new", "loop", "recv", "lock_io", "io", "in_io", "lock_stream"}
AtStart == {"loop", "recv", "lock_io", "io"}

\* A worker that has not begun to stream: the position of its file is 0 unless its
\* request was a seek, since aesd_write does not move it.
Asking(w) ==
  /\ wpc[w] \in Before => reply[w] = << >>
  /\ wpc[w] \in AtStart => f_pos[w] = 0
  /\ wpc[w] \in {"in_io", "lock_stream"} /\ ~IsSeek(packet[w]) => f_pos[w] = 0
  /\ wpc[w] = "in_io" => /\ op[w].pc \notin Reading
                         /\ op[w].pc \in {"ioctl_lock", "ioctl_seek"} => IsSeek(packet[w])

\* n bytes of the stream have been read for w; unless one of the sends has failed they
\* have all been sent.
Sent(w, n) ==
  /\ n \in 0 .. Len(Stream) /\ Len(reply[w]) <= n
  /\ Len(reply[w]) = n => reply[w] = SubSeq(Stream, 1, n)

\* What a read in progress has copied, and what it still has to.
Fetched(w) ==
  /\ f_pos[w] <= op[w].pos
  /\ op[w].pos = f_pos[w] \/ op[w].pos <= Len(Stream)
  /\ op[w].data = SubSeq(Stream, f_pos[w] + 1, op[w].pos)
  /\ op[w].pos - f_pos[w] + op[w].count = ReadSize
  /\ op[w].pc = "read_unlock" => op[w].pos >= Len(Stream)

\* What a read has returned, which is not sent yet.
Delivered(w) ==
  /\ f_pos[w] \in 0 .. Len(Stream)
  /\ op[w].ret \in 0 .. f_pos[w] /\ op[w].ret = Len(op[w].data)
  /\ op[w].data = SubSeq(Stream, f_pos[w] - op[w].ret + 1, f_pos[w])
  /\ op[w].ret = 0 => f_pos[w] = Len(Stream)
  /\ Sent(w, f_pos[w] - op[w].ret)

Answering(w) ==
  /\ wpc[w] = "stream" /\ ~IsSeek(packet[w]) => Sent(w, f_pos[w])
  /\ wpc[w] = "reading" =>
       /\ op[w].pc \in Reading \cup {"idle"}
       /\ op[w].pc \in Reading => Fetched(w)
       /\ op[w].pc \in Reading /\ ~IsSeek(packet[w]) => Sent(w, f_pos[w])
       /\ op[w].pc = "idle" /\ op[w].ret >= 0 /\ ~IsSeek(packet[w]) => Delivered(w)

Served(w) == Asking(w) /\ Answering(w)

\* A worker that does nothing is served as before if the stream it reads stays.
LEMMA ServedKept ==
  ASSUME NEW w \in Threads, Served(w),
         wpc'[w] = wpc[w], packet'[w] = packet[w], reply'[w] = reply[w],
         f_pos'[w] = f_pos[w], op'[w] = op[w],
         wpc[w] \in {"stream", "reading"} => Stream' = Stream
  PROVE  Served(w)'
<1>1. Asking(w)'
  BY DEF Served, Asking, IsSeek
<1>2. wpc[w] = "stream" /\ ~IsSeek(packet[w]) => Sent(w, f_pos[w])'
  BY DEF Served, Answering, Sent, IsSeek
<1>3. wpc[w] = "reading" /\ op[w].pc \in Reading => Fetched(w)'
  BY DEF Served, Answering, Fetched
<1>4. wpc[w] = "reading" /\ op[w].pc \in Reading /\ ~IsSeek(packet[w]) => Sent(w, f_pos[w])'
  BY DEF Served, Answering, Sent, IsSeek
<1>5. wpc[w] = "reading" /\ op[w].pc = "idle" /\ op[w].ret >= 0 /\ ~IsSeek(packet[w]) => Delivered(w)'
  BY DEF Served, Answering, Delivered, Sent, IsSeek
<1> QED
  BY <1>1, <1>2, <1>3, <1>4, <1>5 DEF Served, Answering, IsSeek

LEMMA StreamBytes ==
  ASSUME MemInv, loaded
  PROVE  Stream \in Seq(Byte) /\ Len(Stream) \in Nat
<1>1. Stream \in Seq(Byte)
  BY StreamStarts
<1> QED
  BY <1>1

\* What a worker does outside the driver.
LEMMA OutsideServed ==
  ASSUME Sane, NEW w \in Threads, Served(w), UNCHANGED vars,
         \/ Receive(w) /\ ~ReallocFails(w)
         \/ Continue(w) \/ Acquire(w) \/ UnlockIO(w) \/ Send(w) \/ UnlockStream(w)
  PROVE  Served(w)'
<1>1. /\ Stream' = Stream /\ f_pos' = f_pos /\ op' = op
      /\ Stream \in Seq(Byte) /\ Len(Stream) \in Nat
  BY StreamKept, StreamBytes DEF vars, Sane
<1>2. /\ wpc \in [Threads -> WControl] /\ packet \in [Threads -> Seq(Byte)]
      /\ reply \in [Threads -> Seq(Byte)] /\ op[w].data \in Seq(Byte)
      /\ wpc[w] \notin {"in_io", "reading"} => op[w].pc = "idle"
  BY DEF Sane, Inv, ServerTyped, Typed
<1>3. ASSUME NEW c \in Chunks, Recv(w, c) PROVE Served(w)'
  <2>1. PICK to \in {"lock_io", "lock_stream", "loop"} : WGoto(w, "recv", to)
    BY <1>3 DEF Recv
  <2>2. wpc[w] = "recv" /\ wpc'[w] = to /\ reply' = reply
    BY <1>2, <1>3, <2>1 DEF Recv, WGoto
  <2>3. reply[w] = << >> /\ f_pos[w] = 0
    BY <2>2 DEF Served, Asking, Before, AtStart
  <2> QED
    BY <1>1, <2>2, <2>3 DEF Served, Asking, Answering
<1>4. CASE RecvError(w)
  <2>1. wpc'[w] = "close"
    BY <1>2, <1>4 DEF RecvError, WMove, WGoto
  <2> QED
    BY <2>1 DEF Served, Asking, Answering, Before, AtStart
<1>5. CASE Continue(w)
  <2>1. PICK to \in {"close", "recv"} : WGoto(w, "loop", to)
    BY <1>5 DEF Continue, WMove
  <2>2. wpc[w] = "loop" /\ wpc'[w] = to /\ reply' = reply
    BY <1>2, <1>5, <2>1 DEF Continue, WMove, WGoto
  <2>3. reply[w] = << >> /\ f_pos[w] = 0
    BY <2>2 DEF Served, Asking, Before, AtStart
  <2> QED
    BY <1>1, <2>2, <2>3 DEF Served, Asking, Answering, Before, AtStart
<1>6. CASE LockIO(w)
  <2>1. wpc[w] = "lock_io" /\ wpc'[w] = "io" /\ reply' = reply
    BY <1>2, <1>6 DEF LockIO, LockMutex, SetMutex, WGoto
  <2>2. reply[w] = << >> /\ f_pos[w] = 0
    BY <2>1 DEF Served, Asking, Before, AtStart
  <2> QED
    BY <1>1, <2>1, <2>2 DEF Served, Asking, Answering, Before, AtStart
<1>7. CASE LockStream(w)
  <2>1. wpc[w] = "lock_stream" /\ wpc'[w] = "stream" /\ reply' = reply /\ packet' = packet
    BY <1>2, <1>7 DEF LockStream, LockMutex, SetMutex, WGoto
  <2>2. reply[w] = << >> /\ (~IsSeek(packet[w]) => f_pos[w] = 0)
    BY <2>1 DEF Served, Asking, Before
  <2>3. SubSeq(Stream, 1, 0) = << >>
    BY SubSeqEmpty
  <2>4. Asking(w)'
    BY <2>1 DEF Asking, Before, AtStart
  <2>5. ASSUME ~IsSeek(packet[w]) PROVE Sent(w, f_pos[w])'
    <3>1. reply'[w] = << >> /\ f_pos'[w] = 0 /\ Stream' = Stream
      BY <1>1, <2>1, <2>2, <2>5
    <3> QED
      BY <1>1, <2>3, <3>1 DEF Sent
  <2>6. IsSeek(packet[w])' = IsSeek(packet[w])
    BY <2>1 DEF IsSeek
  <2> QED
    BY <2>1, <2>4, <2>5, <2>6 DEF Served, Answering
<1>8. CASE UnlockIO(w)
  <2>1. /\ wpc[w] = "in_io" /\ wpc'[w] = "lock_stream" /\ reply' = reply /\ packet' = packet
    BY <1>2, <1>8 DEF UnlockIO, UnlockMutex, SetMutex, WGoto
  <2>2. reply[w] = << >> /\ (~IsSeek(packet[w]) => f_pos[w] = 0)
    BY <2>1 DEF Served, Asking, Before
  <2> QED
    BY <1>1, <2>1, <2>2 DEF Served, Asking, Answering, AtStart, IsSeek
<1>9. CASE Send(w)
  <2>1. /\ wpc[w] = "reading" /\ wpc'[w] = "stream" /\ packet' = packet
        /\ op[w].pc = "idle" /\ op[w].ret > 0
    BY <1>2, <1>9 DEF Send, WGoto
  <2>2. reply'[w] = reply[w] \o op[w].data \/ reply'[w] = reply[w]
    BY <1>2, <1>9 DEF Send
  <2>3. IsSeek(packet[w])' = IsSeek(packet[w])
    BY <2>1 DEF IsSeek
  <2>4. Asking(w)'
    BY <2>1 DEF Asking, Before, AtStart
  <2>5. ASSUME ~IsSeek(packet[w]) PROVE Sent(w, f_pos[w])'
    <3> DEFINE n == f_pos[w]
               r == op[w].ret
               sent == reply[w]
               more == op[w].data
    <3>0. op[w].ret \in Int
      BY DEF Sane, Typed
    <3>1. /\ n \in 0 .. Len(Stream) /\ r \in 0 .. n /\ r = Len(more) /\ r > 0
          /\ more = SubSeq(Stream, n - r + 1, n)
          /\ n - r \in 0 .. Len(Stream) /\ Len(sent) <= n - r
          /\ Len(sent) = n - r => sent = SubSeq(Stream, 1, n - r)
      BY <2>1, <2>5, <3>0 DEF Served, Answering, Delivered, Sent
    <3>2. sent \in Seq(Byte) /\ more \in Seq(Byte)
      BY <1>2
    <3>3. reply'[w] = sent \o more \/ reply'[w] = sent
      BY <2>2
    <3>4. f_pos'[w] = n /\ Stream' = Stream
      BY <1>1
    <3> HIDE DEF n, r, sent, more
    <3>5. Len(sent \o more) = Len(sent) + r /\ Len(sent) \in Nat
      BY <3>1, <3>2
    <3>6. ASSUME Len(sent) = n - r PROVE sent \o more = SubSeq(Stream, 1, n)
      <4>1. /\ 1 \in 1 .. Len(Stream)+1 /\ n - r \in 1-1 .. Len(Stream)
            /\ n \in n - r .. Len(Stream)
        BY <1>1, <3>1
      <4>2. SubSeq(Stream, 1, n - r) \o SubSeq(Stream, (n - r) + 1, n) = SubSeq(Stream, 1, n)
        BY <1>1, <4>1, ConcatAdjacentSubSeq
      <4> QED
        BY <3>1, <3>6, <4>2
    <3>7. CASE reply'[w] = sent
      <4>1. Len(sent) < n
        BY <3>1, <3>5
      <4>2. Len(sent) <= n /\ Len(sent) # n
        BY <3>1, <3>5, <4>1
      <4> QED
        BY <3>1, <3>4, <3>7, <4>2 DEF Sent
    <3>8. CASE reply'[w] = sent \o more
      <4>1. Len(sent \o more) <= n /\ (Len(sent \o more) = n => Len(sent) = n - r)
        BY <3>1, <3>5
      <4> QED
        BY <3>1, <3>4, <3>6, <3>8, <4>1 DEF Sent
    <3> QED
      BY <3>3, <3>7, <3>8
  <2> QED
    BY <2>1, <2>3, <2>4, <2>5 DEF Served, Answering
<1>10. CASE UnlockStream(w)
  <2>1. wpc'[w] = "close"
    BY <1>2, <1>10 DEF UnlockStream, UnlockMutex, SetMutex, WGoto
  <2> QED
    BY <2>1 DEF Served, Asking, Answering, Before, AtStart
<1> QED
  BY <1>3, <1>4, <1>5, <1>6, <1>7, <1>8, <1>9, <1>10 DEF Receive, Acquire

\* The system calls of a worker.
LEMMA EntersServed ==
  ASSUME Sane, NEW w \in Threads, Served(w), Enters(w)
  PROVE  Served(w)' /\ Stream' = Stream
<1>1. /\ wpc \in [Threads -> WControl] /\ OpShape /\ f_pos = [u \in Threads |-> f_pos[u]]
      /\ Stream \in Seq(Byte) /\ Len(Stream) \in Nat
  BY StreamBytes DEF Sane, Inv, FileInv
<1>2. UNCHANGED <<file_mutex, packet, end_of_packet, reply, exit_requested>>
  BY WorkerCalls DEF Sane
<1>3. Stream' = Stream
  BY StreamKept DEF Enters, OpenDevice, Open, SeekOrWrite, IoctlCall, IoctlFault, WriteCall,
                    WriteFault, Refuse, ReadMore, ReadCall, Enter, CloseDevice, Release, device
<1>4. CASE OpenDevice(w)
  <2>1. wpc[w] = "new" /\ wpc'[w] = "loop"
    BY <1>1, <1>4 DEF OpenDevice, WMove, WGoto
  <2>2. f_pos'[w] = 0
    BY <1>1, <1>4 DEF OpenDevice, Open
  <2> QED
    BY <1>2, <1>3, <2>1, <2>2 DEF Served, Asking, Answering, Before
<1>5. CASE SeekOrWrite(w)
  <2>1. wpc[w] = "io" /\ wpc'[w] = "in_io"
    BY <1>1, <1>5 DEF SeekOrWrite, WMove, WGoto
  <2>2. f_pos' = f_pos
    BY <1>5 DEF SeekOrWrite, IoctlCall, IoctlFault, WriteCall, WriteFault, Refuse, Enter
  <2>3. op'[w].pc \in {"idle", "write_lock"} \/ (op'[w].pc = "ioctl_lock" /\ IsSeek(packet[w]))
    <3>1. ASSUME NEW d, WriteCall(w, d) PROVE op'[w].pc = "write_lock"
      BY <1>1, <3>1 DEF WriteCall, Enter, Returned, OpShape
    <3>2. ASSUME NEW s, IoctlCall(w, s) PROVE op'[w].pc = "ioctl_lock"
      BY <1>1, <3>2 DEF IoctlCall, Enter, Returned, OpShape
    <3>3. CASE WriteFault(w) \/ IoctlFault(w)
      <4>1. Return(w, Error)
        BY <3>3 DEF WriteFault, IoctlFault, Refuse, Enter, Return
      <4> QED
        BY <1>1, <4>1, ReturnEffect
    <3> QED
      BY <1>5, <3>1, <3>2, <3>3 DEF SeekOrWrite
  <2> QED
    BY <1>2, <1>3, <2>1, <2>2, <2>3 DEF Served, Asking, Answering, Before, AtStart, Reading, IsSeek
<1>6. CASE ReadMore(w)
  <2> DEFINE start == f_pos[w]
  <2>1. wpc[w] = "stream" /\ wpc'[w] = "reading" /\ ReadCall(w, ReadSize)
    BY <1>1, <1>6 DEF ReadMore, WMove, WGoto
  <2>2. f_pos' = f_pos /\ start \in Nat
    BY <2>1 DEF ReadCall, Enter, Ready, Sane, Typed
  <2>3. /\ op'[w].pc = "read_lock" /\ op'[w].data = << >> /\ op'[w].pos = start
        /\ op'[w].count = ReadSize
    BY <1>1, <2>1 DEF ReadCall, Enter, Returned, OpShape
  <2>4. SubSeq(Stream, start + 1, start) = << >>
    BY <2>2, SubSeqEmpty
  <2>5. start <= start /\ start - start + ReadSize = ReadSize
    <3>1. ReadSize \in Nat
      BY WorkerAssumption, PayloadAssumption
    <3> QED
      BY <2>2, <3>1
  <2>6. Fetched(w)'
    BY <1>3, <2>2, <2>3, <2>4, <2>5 DEF Fetched
  <2>7. ~IsSeek(packet[w]) => Sent(w, start)
    BY <2>1 DEF Served, Answering
  <2>8. ~IsSeek(packet[w])' => Sent(w, f_pos[w])'
    BY <1>2, <1>3, <2>2, <2>7 DEF Sent, IsSeek
  <2> QED
    BY <1>3, <2>1, <2>3, <2>6, <2>8 DEF Served, Asking, Answering, Before, AtStart, Reading
<1>7. CASE CloseDevice(w)
  <2>1. wpc'[w] = "done"
    BY <1>1, <1>7 DEF CloseDevice, WMove, WGoto
  <2> QED
    BY <1>3, <2>1 DEF Served, Asking, Answering, Before, AtStart
<1> QED
  BY <1>3, <1>4, <1>5, <1>6, <1>7 DEF Enters

\* The steps of a write or an ioctl leave the position to the seek.
LEMMA AskingStep ==
  ASSUME Sane, MutualExclusion, NEW w \in Threads, Served(w), wpc[w] = "in_io", Device(w)
  PROVE  Served(w)'
<1>1. /\ MemInv /\ OpShape /\ loaded /\ Step(w) /\ wpc' = wpc /\ reply' = reply /\ packet' = packet
  BY DEF Sane, Inv, Device, server
<1>2. /\ op[w].pc \notin Reading /\ reply[w] = << >>
      /\ op[w].pc \in {"ioctl_lock", "ioctl_seek"} => IsSeek(packet[w])
      /\ ~IsSeek(packet[w]) => f_pos[w] = 0
  BY DEF Served, Asking, Before
<1>3. op'[w].pc \notin Reading
  BY <1>1, <1>2, StepReadsNot
<1>4. op'[w].pc # "ioctl_lock" /\ (op'[w].pc = "ioctl_seek" => op[w].pc = "ioctl_lock")
  BY <1>1, StepInto DEF Waiting, IoctlLock, Lock
<1>5. op[w].pc = "ioctl_seek" \/ f_pos' = f_pos
  BY <1>1, <1>2 DEF Step, TakeLock, ReadLock, WriteLock, IoctlLock, Lock, ReadStep, ReadChunk,
       ReadFault, ReadEnd, ReadReturn, Finding, WriteStep, WriteCombine, WriteNoMemory,
       WriteInstall, WriteLine, WriteLineNoMemory, WriteReturn, Unlock, IoctlSeek, Oops, Reading
<1> QED
  BY <1>1, <1>2, <1>3, <1>4, <1>5 DEF Served, Asking, Answering, AtStart, IsSeek

\* The steps of a read copy the stream, byte after byte, and store the position they
\* have come to.
LEMMA ReadingStep ==
  ASSUME Sane, MutualExclusion, NEW w \in Threads, Served(w), wpc[w] = "reading", Device(w)
  PROVE  Served(w)' /\ Stream' = Stream
<1>1. /\ MemInv /\ OpShape /\ loaded /\ Step(w) /\ wpc' = wpc /\ reply' = reply /\ packet' = packet
      /\ Stream \in Seq(Byte) /\ Len(Stream) \in Nat
      /\ f_pos = [u \in Threads |-> f_pos[u]]
  BY StreamBytes DEF Sane, Inv, Device, server, FileInv
<1>2. op[w].pc \in Reading
  BY <1>1, StepEffect DEF Served, Answering
<1>3. /\ Fetched(w)
      /\ ~IsSeek(packet[w]) => Sent(w, f_pos[w])
  BY <1>2 DEF Served, Answering
<1>4. f_pos[w] \in Nat /\ op[w].pos \in Nat /\ op[w].count \in Nat
  BY <1>2 DEF Sane, Typed, FileInv, Reading
<1>5. ring' = ring /\ heap' = heap
  BY <1>1, <1>2 DEF Step, TakeLock, ReadLock, WriteLock, IoctlLock, Lock, ReadStep, ReadChunk,
       ReadFault, ReadEnd, ReadReturn, Finding, WriteStep, WriteCombine, WriteNoMemory,
       WriteInstall, WriteLine, LoopTest, WriteLineNoMemory, WriteReturn, Unlock, IoctlSeek, Oops,
       Reading, device
<1>6. Stream' = Stream
  BY <1>5, StreamKept
<1>7. Asking(w)'
  BY <1>1 DEF Asking, Before, AtStart
<1>8. SUFFICES Answering(w)'
  BY <1>6, <1>7 DEF Served
\* A step that reads on, or ends the loop.
<1>9. ASSUME op'[w].pc \in Reading, f_pos' = f_pos, Fetched(w)' PROVE Answering(w)'
  <2>1. ~IsSeek(packet[w])' => Sent(w, f_pos[w])'
    BY <1>1, <1>3, <1>6, <1>9 DEF IsSeek, Sent
  <2> QED
    BY <1>1, <1>9, <2>1 DEF Answering, Reading
<1>10. CASE ReadLock(w)
  <2>1. /\ op'[w].pc = "read_loop" /\ op'[w].pos = op[w].pos /\ op'[w].count = op[w].count
        /\ op'[w].data = op[w].data /\ f_pos' = f_pos
    BY <1>1, <1>10 DEF ReadLock, Lock, Goto, OpShape, Fields
  <2>2. Fetched(w)'
    BY <1>3, <1>6, <2>1 DEF Fetched
  <2> QED
    BY <1>9, <2>1, <2>2 DEF Reading
<1>11. CASE ReadChunk(w)
  <2> DEFINE p == op[w].pos
             c == op[w].count
             from == f_pos[w]
  <2>0. Typed(w)
    BY DEF Sane
  <2>1. PICK n \in Nat :
          /\ n <= op[w].count
          /\ op[w].pos + n <= Len(Stream) /\ Stream \in Seq(Byte)
          /\ op'[w] = [op[w] EXCEPT
                         !.data = op[w].data \o SubSeq(Stream, op[w].pos + 1, op[w].pos + n),
                         !.pos = op[w].pos + n, !.count = op[w].count - n]
          /\ UNCHANGED <<device, f_pos, loaded, oops>>
    BY <1>1, <1>11, <2>0, ChunkFacts
  <2>2. op[w].pc = "read_loop"
    BY <1>11 DEF ReadChunk, Finding
  <2>3. /\ op'[w].data = op[w].data \o SubSeq(Stream, p + 1, p + n) /\ op'[w].pos = p + n
        /\ op'[w].count = c - n /\ op'[w].pc = "read_loop" /\ f_pos' = f_pos
    BY <1>1, <2>1, <2>2 DEF OpShape, Fields
  <2>4. /\ n \in Nat /\ n <= c /\ p + n <= Len(Stream) /\ p \in Nat /\ c \in Nat /\ from \in Nat
        /\ from <= p /\ op[w].data = SubSeq(Stream, from + 1, p) /\ p - from + c = ReadSize
    BY <1>3, <1>4, <2>1 DEF Fetched
  <2> HIDE DEF p, c, from
  <2>5. /\ from + 1 \in 1 .. Len(Stream)+1
        /\ p \in (from+1)-1 .. Len(Stream) /\ p + n \in p .. Len(Stream)
    BY <1>1, <2>4
  <2>6. SubSeq(Stream, from + 1, p) \o SubSeq(Stream, p + 1, p + n) = SubSeq(Stream, from + 1, p + n)
    BY <1>1, <2>5, ConcatAdjacentSubSeq
  <2>7. from <= p + n /\ (p + n) - from + (c - n) = p - from + c
    BY <2>4
  <2>8. Fetched(w)'
    BY <1>6, <2>3, <2>4, <2>6, <2>7 DEF Fetched, from
  <2> QED
    BY <1>9, <2>3, <2>8 DEF Reading
<1>12. CASE ReadEnd(w)
  <2>1. /\ op'[w].pc = "read_unlock" /\ op'[w].pos = op[w].pos /\ op'[w].count = op[w].count
        /\ op'[w].data = op[w].data /\ f_pos' = f_pos
    BY <1>1, <1>12 DEF ReadEnd, Goto, OpShape, Fields
  <2>2. FindEntry(ring, op[w].pos) = NotFound
    BY <1>12 DEF ReadEnd, Finding, Found
  <2>3. op[w].pos >= Len(Stream)
    <3>1. op[w].pos < Len(Stream) => FindEntry(ring, op[w].pos) # NotFound
      BY <1>1, <1>4, FoundByte
    <3> QED
      BY <1>1, <1>4, <2>2, <3>1
  <2>4. Fetched(w)'
    BY <1>3, <1>6, <2>1, <2>3 DEF Fetched
  <2> QED
    BY <1>9, <2>1, <2>4 DEF Reading
<1>13. CASE ReadFault(w)
  <2>1. op'[w] = Returned(Error, << >>)
    BY <1>1, <1>13 DEF ReadFault, Unlock, Return, OpShape
  <2>2. op'[w].pc = "idle" /\ op'[w].ret = -1
    BY <2>1 DEF Returned, Error
  <2> QED
    BY <1>1, <2>2 DEF Answering, Reading
<1>14. CASE ReadReturn(w)
  <2> DEFINE p == op[w].pos
             from == f_pos[w]
             d == op[w].data
  <2>1. op'[w] = Returned(Len(d), d) /\ f_pos'[w] = p
    BY <1>1, <1>14 DEF ReadReturn, OpShape
  <2>2. op'[w].pc = "idle" /\ op'[w].ret = Len(d) /\ op'[w].data = d
    BY <2>1 DEF Returned
  <2>3. /\ from <= p /\ p \in Nat /\ from \in Nat /\ (p = from \/ p <= Len(Stream))
        /\ d = SubSeq(Stream, from + 1, p)
        /\ p - from + op[w].count = ReadSize
        /\ op[w].pc = "read_unlock" => p >= Len(Stream)
    BY <1>3, <1>4 DEF Fetched
  <2>4. op[w].pc = "read_unlock" \/ op[w].count = 0
    BY <1>14 DEF ReadReturn
  <2>5. ReadSize \in Nat \ {0}
    BY WorkerAssumption, PayloadAssumption
  <2>6. ASSUME ~IsSeek(packet[w]) PROVE Delivered(w)'
    <3>1. Sent(w, from)
      BY <1>3, <2>6
    <3>2. from \in 0 .. Len(Stream)
      BY <3>1 DEF Sent
    <3> HIDE DEF p, from, d
    <3>3. p \in 0 .. Len(Stream)
      BY <1>1, <2>3, <3>2
    <3>4. Len(d) = p - from
      <4>1. from + 1 \in Int /\ p \in Int
        BY <2>3
      <4>2. ASSUME NEW i \in from + 1 .. p PROVE Stream[i] \in Byte
        <5>1. i \in 1 .. Len(Stream)
          BY <1>1, <2>3, <3>3
        <5> QED
          BY <1>1, <5>1
      <4>3. Len(SubSeq(Stream, from + 1, p)) = IF from + 1 <= p THEN p - (from + 1) + 1 ELSE 0
        BY <4>1, <4>2, SubSeqProperties
      <4> QED
        BY <2>3, <4>3
    <3>5. /\ Len(d) \in 0 .. p /\ p - Len(d) = from /\ p - Len(d) + 1 = from + 1
      BY <2>3, <3>4
    <3>6. Len(d) = 0 => p = Len(Stream)
      <4>1. CASE op[w].pc = "read_unlock"
        BY <1>1, <2>3, <3>3, <4>1
      <4>2. CASE op[w].count = 0
        <5>1. p - from = ReadSize
          BY <2>3, <2>5, <4>2
        <5> QED
          BY <2>5, <3>4, <5>1
      <4> QED
        BY <2>4, <4>1, <4>2
    <3>7. PICK n \in Nat : n = from
      BY <2>3
    <3>8. Sent(w, n)'
      <4>1. Sent(w, n) /\ reply'[w] = reply[w]
        BY <1>1, <3>1, <3>7
      <4> QED
        BY <1>6, <4>1 DEF Sent
    <3>9. (f_pos[w] - op[w].ret)' = n /\ (f_pos[w] - op[w].ret + 1)' = from + 1
      BY <2>1, <2>2, <3>5, <3>7
    <3>10. Sent(w, f_pos[w] - op[w].ret)'
      BY <3>8, <3>9 DEF Sent
    <3> QED
      BY <1>6, <2>1, <2>2, <2>3, <3>3, <3>5, <3>6, <3>9, <3>10 DEF Delivered
  <2>7. IsSeek(packet[w])' = IsSeek(packet[w])
    BY <1>1 DEF IsSeek
  <2> QED
    BY <1>1, <2>2, <2>6, <2>7 DEF Answering, Reading
<1> QED
  <2>1. ~Oops(w)
    BY <1>1, AllSound DEF Oops
  <2>2. op[w].pc \notin {"write_lock", "ioctl_lock", "write_combine", "write_install",
                         "write_loop", "ioctl_seek"}
    BY <1>2 DEF Reading
  <2> QED
    BY <1>1, <1>10, <1>11, <1>12, <1>13, <1>14, <2>1, <2>2
       DEF Step, TakeLock, WriteLock, IoctlLock, Lock, ReadStep, WriteStep, WriteCombine,
           WriteNoMemory, WriteInstall, WriteLine, WriteLineNoMemory, WriteReturn, LoopTest,
           IoctlSeek

LEMMA OthersServed ==
  ASSUME Sane, \A u \in Threads : Served(u), NEW w \in Threads,
         \A u \in Threads \ {w} : /\ wpc'[u] = wpc[u] /\ packet'[u] = packet[u]
                                  /\ reply'[u] = reply[u]
                                  /\ wpc[u] \in {"stream", "reading"} => Stream' = Stream,
         OthersStay(w), OthersFiles(w), Served(w)'
  PROVE  \A u \in Threads : Served(u)'
BY ServedKept DEF OthersStay, OthersFiles

LEMMA ServedNext ==
  ASSUME Sane, \A u \in Threads : Served(u), [WNext]_allvars, \A w \in Threads : ~ReallocFails(w)
  PROVE  \A u \in Threads : Served(u)'
<1>1. /\ OpShape /\ MutualExclusion /\ f_pos = [u \in Threads |-> f_pos[u]]
      /\ wpc \in [Threads -> WControl] /\ packet \in [Threads -> Seq(Byte)]
      /\ reply \in [Threads -> Seq(Byte)]
  BY InvExcludes DEF Sane, Inv, FileInv, ServerTyped
<1>2. CASE UNCHANGED allvars \/ Signal \/ AllDone
  <2>1. /\ UNCHANGED <<wpc, packet, reply, f_pos, op>> /\ Stream' = Stream
    BY <1>2, StreamKept DEF allvars, vars, server, Signal, AllDone
  <2> QED
    BY <2>1, ServedKept
<1>3. ASSUME NEW w \in Threads,
             \/ Receive(w) \/ Continue(w) \/ Acquire(w) \/ UnlockIO(w) \/ Send(w) \/ UnlockStream(w)
      PROVE  \A u \in Threads : Served(u)'
  <2>1. UNCHANGED vars
    BY <1>3 DEF Receive, Recv, RecvError, ReallocFails, Continue, Acquire, LockIO, LockStream,
                LockMutex, UnlockIO, Send, UnlockStream, UnlockMutex, SetMutex
  <2>2. Served(w)'
    BY <1>3, <2>1, OutsideServed
  <2>3. \A u \in Threads \ {w} : /\ wpc'[u] = wpc[u] /\ packet'[u] = packet[u]
                                 /\ reply'[u] = reply[u]
    <3>1. ASSUME NEW c \in Chunks, Recv(w, c), NEW u \in Threads \ {w}
          PROVE  wpc'[u] = wpc[u] /\ packet'[u] = packet[u] /\ reply'[u] = reply[u]
      <4>1. PICK to : WGoto(w, "recv", to)
        BY <3>1 DEF Recv
      <4> QED
        BY <1>1, <3>1, <4>1 DEF Recv, WGoto
    <3>2. CASE Send(w)
      BY <1>1, <3>2 DEF Send, WGoto
    <3>3. ASSUME NEW from, NEW to, WGoto(w, from, to), UNCHANGED <<packet, reply>>,
                 NEW u \in Threads \ {w}
          PROVE  wpc'[u] = wpc[u] /\ packet'[u] = packet[u] /\ reply'[u] = reply[u]
      BY <1>1, <3>3 DEF WGoto
    <3>4. CASE ~(\E c \in Chunks : Recv(w, c)) /\ ~Send(w)
      BY <1>3, <3>3, <3>4 DEF Receive, RecvError, ReallocFails, Continue, Acquire, LockIO,
           LockStream, LockMutex, UnlockIO, UnlockStream, UnlockMutex, SetMutex, WMove
    <3> QED
      BY <3>1, <3>2, <3>4
  <2>4. Stream' = Stream /\ OthersStay(w) /\ OthersFiles(w)
    BY <1>1, <2>1, StreamKept DEF vars, OthersStay, OthersFiles
  <2> QED
    BY <2>2, <2>3, <2>4, OthersServed
<1>4. ASSUME NEW w \in Threads, Enters(w) PROVE \A u \in Threads : Served(u)'
  <2>1. /\ AnyCall(w) /\ UNCHANGED <<packet, reply>>
    BY <1>4, WorkerCalls DEF Sane
  <2>2. OthersStay(w) /\ OthersFiles(w)
    BY <1>1, <2>1, AnyCallEffect, CallFile
  <2>3. \A u \in Threads \ {w} : wpc'[u] = wpc[u]
    BY <1>1, <1>4 DEF Enters, OpenDevice, SeekOrWrite, ReadMore, CloseDevice, WMove, WGoto
  <2>4. Served(w)' /\ Stream' = Stream
    BY <1>4, EntersServed
  <2> QED
    BY <2>1, <2>2, <2>3, <2>4, OthersServed
<1>5. ASSUME NEW w \in Threads, Device(w) PROVE \A u \in Threads : Served(u)'
  <2>1. Step(w) /\ UNCHANGED server
    BY <1>5 DEF Device
  <2>2. OthersStay(w) /\ OthersFiles(w) /\ op[w].pc # "idle"
    BY <1>1, <2>1, StepEffect, StepFile
  <2>3. wpc[w] \in {"in_io", "reading"} /\ file_mutex = w
    BY <2>2 DEF Sane, Inv, Holding
  <2>4. Served(w)'
    BY <1>1, <1>5, <2>3, AskingStep, ReadingStep
  \* Nobody else streams.
  <2>5. \A u \in Threads \ {w} : wpc[u] \notin {"stream", "reading"}
    BY <2>3 DEF Sane, Inv, Holding
  <2> QED
    BY <2>1, <2>2, <2>4, <2>5, OthersServed DEF server
<1> QED
  BY <1>2, <1>3, <1>4, <1>5 DEF WNext, Serve, Enters

ServedUntilGone == SaneUntilGone /\ (AnyGone \/ \A w \in Threads : Served(w))

LEMMA ServedUntilGoneNext == ServedUntilGone /\ [WNext]_allvars => ServedUntilGone'
<1> SUFFICES ASSUME ServedUntilGone, [WNext]_allvars
             PROVE  AnyGone' \/ \A w \in Threads : Served(w)'
  BY SaneUntilGoneNext DEF ServedUntilGone
<1>1. CASE AnyGone
  BY <1>1, PlacesChange DEF ServedUntilGone, SaneUntilGone, SoundUntilGone, AnyGone, Moves, WGoto
<1>2. ASSUME NEW w \in Threads, ReallocFails(w) PROVE AnyGone'
  BY <1>2 DEF ReallocFails, SetMutex, WGoto, ServedUntilGone, SaneUntilGone, SoundUntilGone, AnyGone
<1>3. CASE ~AnyGone /\ \A w \in Threads : ~ReallocFails(w)
  BY <1>3, ServedNext DEF ServedUntilGone, SaneUntilGone
<1> QED
  BY <1>1, <1>2, <1>3

LEMMA ServedInit == WInit => ServedUntilGone
<1> SUFFICES ASSUME WInit, NEW w \in Threads PROVE Served(w)
  BY SaneInit DEF ServedUntilGone
<1>1. wpc[w] = "new" /\ reply[w] = << >>
  BY DEF WInit
<1> QED
  BY <1>1 DEF Served, Asking, Answering, AtStart

\* What stream_file_reader sends a client that has not asked for a seek is the content of
\* the device from its first byte to its last as it is at one instant, however many reads
\* it takes, whatever the other threads of the server do meanwhile, unless a send has
\* failed: nothing is added to the device and nothing evicted between the first read and
\* the last.
THEOREM RepliesAreStreams == WSpec => []ReplyIsStream
<1>1. ServedUntilGone => ReplyIsStream
  <2> SUFFICES ASSUME ServedUntilGone, ~AnyGone, NEW w \in Threads, NothingLost(w),
                      ~IsSeek(packet[w])
               PROVE  /\ wpc[w] = "stream" => reply[w] = SubSeq(Stream, 1, f_pos[w])
                      /\ wpc[w] = "reading" /\ Settled(w) /\ op[w].ret = 0 => reply[w] = Stream
    BY DEF ReplyIsStream
  <2>1. Served(w) /\ MemInv /\ loaded
    BY DEF ServedUntilGone, SaneUntilGone, Sane
  <2>2. CASE wpc[w] = "stream"
    BY <2>1, <2>2 DEF Served, Answering, Sent, NothingLost
  <2>3. CASE wpc[w] = "reading" /\ Settled(w) /\ op[w].ret = 0
    <3>1. Delivered(w)
      BY <2>1, <2>3 DEF Served, Answering, Settled
    <3>2. f_pos[w] = Len(Stream) /\ f_pos[w] - op[w].ret = f_pos[w]
      BY <2>3, <3>1 DEF Delivered
    <3>3. reply[w] = SubSeq(Stream, 1, Len(Stream))
      BY <3>1, <3>2 DEF Delivered, Sent, NothingLost
    <3>4. Stream \in Seq(Byte)
      BY <2>1, StreamBytes
    <3> QED
      BY <2>3, <3>3, <3>4, SubSeqFull
  <2> QED
    BY <2>2, <2>3
<1> QED
  BY <1>1, ServedInit, ServedUntilGoneNext, PTL DEF WSpec

\* The driver's own promises hold for the threads of the server, although dev->lock does
\* not keep its callers apart: its variables have their types, aesd_read copies the stream
\* without a gap and AESDCHAR_IOCSEEKTO finds the byte it names, until a realloc fails.
THEOREM ServerKeepsDevice ==
  WSpec => [](AnyGone \/ (TypeOK /\ ReadsAreContiguous /\ SeekFindsCommand))
<1>1. WInit => ServedUntilGone /\ LockInv
  BY ServedInit, InitShape DEF WInit, LockInv, OwnerInside
<1>2. ServedUntilGone /\ LockInv => AnyGone \/ (TypeOK /\ ReadsAreContiguous /\ SeekFindsCommand)
  <2> SUFFICES ASSUME ServedUntilGone, LockInv, ~AnyGone
               PROVE  TypeOK /\ ReadsAreContiguous /\ SeekFindsCommand
    OBVIOUS
  <2>1. Sane /\ MemInv /\ (\A w \in Threads : Typed(w)) /\ \A w \in Threads : Served(w)
    BY DEF ServedUntilGone, SaneUntilGone, Sane
  <2>2. TypeOK
    <3>1. lock \in Threads \cup {NULL} /\ (loaded => ring \in Buffer)
      BY <2>1 DEF LockInv, OwnerInside, MemInv, RingInv
    <3>2. partial \in Blocks \cup {NULL} /\ \A a \in Blocks : heap[a] = NULL \/ heap[a] \in Seq(Byte)
      BY <2>1 DEF MemInv, HeapShape, Allocated
    <3> QED
      BY <2>1, <3>1, <3>2 DEF TypeOK, Typed
  <2>3. ReadsAreContiguous
    <3> SUFFICES ASSUME NEW w \in Threads, op[w].pc = "read_loop" PROVE Fetched(w)
      BY DEF ReadsAreContiguous, Fetched
    <3>1. wpc[w] \in {"in_io", "reading"}
      BY <2>1 DEF Sane, Inv
    <3> QED
      BY <2>1, <3>1 DEF Served, Asking, Answering, Reading
  <2> QED
    BY <2>1, <2>2, <2>3, SeekFinds
<1> QED
  BY <1>1, <1>2, ServedUntilGoneNext, WorkersKeepLockInv, PTL DEF WSpec

-----------------------------------------------------------------------------
(* The critical sections of data_processing end.                           *)

LEMMA TurnsGrow ==
  ASSUME NEW m \in Nat, NEW n \in Nat, m <= n
  PROVE  /\ Turns(n) \in Nat /\ Turns(m) \in Nat /\ Turns(m) <= Turns(n)
         /\ Turns(n + 1) = Turns(n) + ReadSize + 5 /\ ReadSize \in Nat
<1>1. ReadSize \in Nat
  BY WorkerAssumption, PayloadAssumption
<1>2. PICK k \in Nat : k = ReadSize + 5
  BY <1>1
<1>3. PICK d \in Nat : n = m + d
  <2>1. n - m \in Nat /\ n = m + (n - m)
    OBVIOUS
  <2> QED
    BY <2>1
<1>4. n * k \in Nat /\ m * k \in Nat /\ d * k \in Nat
  OBVIOUS
<1>5. (m + d) * k = m * k + d * k
  OBVIOUS
<1>6. (n + 1) * k = n * k + k
  OBVIOUS
<1>7. m * k <= n * k
  BY <1>3, <1>4, <1>5
<1>8. Turns(n) = n * k /\ Turns(m) = m * k /\ Turns(n + 1) = (n + 1) * k
  BY <1>2 DEF Turns
<1> QED
  BY <1>1, <1>2, <1>4, <1>6, <1>7, <1>8

\* Nobody is gone after a step if nobody was before it and no realloc fails.
LEMMA StaysHere ==
  ASSUME ServedUntilGone, [WNext]_allvars, ~AnyGone'
  PROVE  ~AnyGone /\ \A w \in Threads : ~ReallocFails(w)
BY PlacesChange DEF ServedUntilGone, SaneUntilGone, SoundUntilGone, AnyGone, Moves, WGoto,
                    ReallocFails, SetMutex

\* A step of a handler leaves the file open.
LEMMA StepLeavesOpen ==
  ASSUME MemInv, OpShape, FileInv, loaded, NEW t \in Threads, Step(t), Typed(t)
  PROVE  f_pos'[t] \in Nat
<1>1. f_pos = [u \in Threads |-> f_pos[u]] /\ f_pos[t] \in Nat /\ op[t].pos \in Nat
  <2>1. op[t].pc # "idle"
    BY StepEffect
  <2> QED
    BY <2>1 DEF FileInv, Typed
<1>2. CASE ReadReturn(t)
  <2>1. f_pos' = [f_pos EXCEPT ![t] = op[t].pos]
    BY <1>2 DEF ReadReturn
  <2> QED
    BY <1>1, <2>1
<1>3. CASE IoctlSeek(t)
  <2>1. f_pos' = f_pos \/ (Target(t) # NULL /\ f_pos' = [f_pos EXCEPT ![t] = Target(t)])
    BY <1>3 DEF IoctlSeek
  <2>2. Typed(t)'
    BY StepTyped
  <2>3. f_pos'[t] # NULL
    BY <1>1, <2>1, NullIsNoPosition
  <2> QED
    BY <2>2, <2>3 DEF Typed
<1>4. CASE ~ReadReturn(t) /\ ~IoctlSeek(t)
  <2>1. f_pos' = f_pos
    BY <1>4 DEF Step, TakeLock, ReadLock, WriteLock, IoctlLock, Lock, ReadStep, ReadChunk,
         ReadFault, ReadEnd, WriteStep, WriteCombine, WriteNoMemory, WriteInstall, WriteLine,
         WriteLineNoMemory, WriteReturn, Unlock, Oops
  <2> QED
    BY <1>1, <2>1
<1> QED
  BY <1>2, <1>3, <1>4

\* A worker has its file open from the open of data_processing to its close.
FilesOpen == \A w \in Threads : wpc[w] \notin {"new", "done"} => f_pos[w] \in Nat

LEMMA FilesOpenNext ==
  ASSUME Sane, FilesOpen, [WNext]_allvars, \A w \in Threads : ~ReallocFails(w)
  PROVE  FilesOpen'
<1>1. /\ wpc \in [Threads -> WControl] /\ OpShape /\ MemInv /\ FileInv /\ loaded
      /\ f_pos = [u \in Threads |-> f_pos[u]]
  BY DEF Sane, Inv, FileInv
<1>2. CASE UNCHANGED <<wpc, f_pos>>
  BY <1>2 DEF FilesOpen
<1>3. CASE UNCHANGED allvars \/ Signal \/ AllDone
  BY <1>2, <1>3 DEF allvars, vars, server, Signal, AllDone
\* A step of w that changes no other file.
<1>4. ASSUME NEW w \in Threads, NEW from, NEW to, WGoto(w, from, to), OthersFiles(w),
             to = "done" \/ f_pos'[w] \in Nat \/ (from \notin {"new", "done"} /\ f_pos' = f_pos)
      PROVE  FilesOpen'
  BY <1>1, <1>4 DEF FilesOpen, WGoto, OthersFiles
<1>5. ASSUME NEW w \in Threads,
             \/ Receive(w) \/ Continue(w) \/ Acquire(w) \/ UnlockIO(w) \/ Send(w) \/ UnlockStream(w)
      PROVE  FilesOpen'
  <2>1. f_pos' = f_pos
    BY <1>5 DEF Receive, Recv, RecvError, ReallocFails, Continue, Acquire, LockIO, LockStream,
                LockMutex, UnlockIO, Send, UnlockStream, UnlockMutex, SetMutex, WMove, vars
  <2>2. PICK from \in WControl \ {"new", "done"}, to \in WControl : WGoto(w, from, to)
    <3>1. ASSUME NEW c \in Chunks, Recv(w, c) PROVE \E to \in WControl : WGoto(w, "recv", to)
      BY <3>1 DEF Recv, WControl
    <3>2. Continue(w) => \E to \in WControl : WGoto(w, "loop", to)
      BY DEF Continue, WMove, WControl
    <3> QED
      BY <1>5, <3>1, <3>2 DEF Receive, RecvError, ReallocFails, Acquire, LockIO, LockStream,
           LockMutex, UnlockIO, Send, UnlockStream, UnlockMutex, SetMutex, WMove, WControl
  <2> QED
    BY <1>1, <1>4, <2>1, <2>2 DEF OthersFiles
<1>6. ASSUME NEW w \in Threads, Enters(w) PROVE FilesOpen'
  <2>1. AnyCall(w)
    BY <1>6, WorkerCalls DEF Sane
  <2>2. OthersFiles(w)
    BY <1>1, <2>1, CallFile
  <2>3. CASE OpenDevice(w)
    <3>1. f_pos'[w] = 0 /\ WGoto(w, "new", "loop")
      BY <1>1, <2>3 DEF OpenDevice, Open, WMove
    <3> QED
      BY <1>4, <2>2, <3>1
  <2>4. CASE CloseDevice(w)
    <3>1. WGoto(w, "close", "done")
      BY <2>4 DEF CloseDevice, WMove
    <3> QED
      BY <1>4, <2>2, <3>1
  <2>5. CASE SeekOrWrite(w)
    <3>1. f_pos' = f_pos /\ WGoto(w, "io", "in_io")
      BY <2>5 DEF SeekOrWrite, WMove, IoctlCall, IoctlFault, WriteCall, WriteFault, Refuse, Enter
    <3> QED
      BY <1>4, <2>2, <3>1
  <2>6. CASE ReadMore(w)
    <3>1. f_pos' = f_pos /\ WGoto(w, "stream", "reading")
      BY <2>6 DEF ReadMore, WMove, ReadCall, Enter
    <3> QED
      BY <1>4, <2>2, <3>1
  <2> QED
    BY <1>6, <2>3, <2>4, <2>5, <2>6 DEF Enters
<1>7. ASSUME NEW w \in Threads, Device(w) PROVE FilesOpen'
  <2>1. wpc' = wpc /\ Step(w) /\ Typed(w)
    BY <1>7 DEF Device, server, Sane
  <2>2. OthersFiles(w)
    BY <1>1, <2>1, StepFile
  <2>3. f_pos'[w] \in Nat
    BY <1>1, <2>1, StepLeavesOpen
  <2> QED
    BY <2>1, <2>2, <2>3 DEF FilesOpen, OthersFiles
<1> QED
  BY <1>3, <1>5, <1>6, <1>7 DEF WNext, Serve, Enters

LEMMA FilesOpenInit == WInit => FilesOpen
BY DEF WInit, FilesOpen

\* The owner of file_mutex calls the driver.
LEMMA EntersShorten ==
  ASSUME Sane, NEW w \in Threads, Served(w), wpc[w] \in Holding, SeekOrWrite(w) \/ ReadMore(w)
  PROVE  Ahead(w)' < Ahead(w)
<1>1. /\ wpc \in [Threads -> WControl] /\ OpShape /\ MemInv /\ packet[w] \in Seq(Byte)
      /\ Stream \in Seq(Byte) /\ Len(Stream) \in Nat /\ ReadSize \in Nat
  BY StreamBytes, WorkerAssumption, PayloadAssumption DEF Sane, Inv, ServerTyped
<1>2. CASE SeekOrWrite(w)
  <2> DEFINE p == Len(Bytes(partial))
             d == Len(packet[w])
  <2>1. wpc[w] = "io" /\ wpc'[w] = "in_io"
    BY <1>1, <1>2 DEF SeekOrWrite, WMove, WGoto
  <2>2. p \in Nat /\ d \in Nat
    BY <1>1, BytesString
  <2>3. Left(w)' \in {0, 2, p + d + 4}
    <3>1. ASSUME WriteCall(w, packet[w]) PROVE Left(w)' = p + d + 4
      <4>1. /\ op'[w].pc = "write_lock" /\ op'[w].data = packet[w]
            /\ partial' = partial /\ heap' = heap
        BY <1>1, <3>1 DEF WriteCall, Enter, Returned, OpShape, device
      <4>2. Bytes(partial)' = Bytes(partial)
        BY <4>1 DEF Bytes
      <4> QED
        BY <4>1, <4>2 DEF Left
    <3>2. ASSUME NEW s, IoctlCall(w, s) PROVE Left(w)' = 2
      <4>1. op'[w].pc = "ioctl_lock"
        BY <1>1, <3>2 DEF IoctlCall, Enter, Returned, OpShape
      <4> QED
        BY <4>1 DEF Left
    <3>3. ASSUME WriteFault(w) \/ IoctlFault(w) PROVE Left(w)' = 0
      <4>1. Return(w, Error)
        BY <3>3 DEF WriteFault, IoctlFault, Refuse, Enter, Return
      <4>2. op'[w].pc = "idle"
        BY <1>1, <4>1, ReturnEffect
      <4> QED
        BY <4>2 DEF Left
    <3> QED
      BY <1>2, <3>1, <3>2, <3>3 DEF SeekOrWrite
  <2>4. Ahead(w) = p + d + 6 /\ Ahead(w)' = Left(w)' + 1
    BY <2>1 DEF Ahead
  <2> HIDE DEF p, d
  <2> QED
    BY <2>2, <2>3, <2>4
<1>3. CASE ReadMore(w)
  <2> DEFINE n == Unread(w)
  <2>1. wpc[w] = "stream" /\ wpc'[w] = "reading" /\ ReadCall(w, ReadSize)
    BY <1>1, <1>3 DEF ReadMore, WMove, WGoto
  <2>2. f_pos' = f_pos /\ f_pos[w] \in Nat
    BY <2>1 DEF ReadCall, Enter, Ready, Sane, Typed
  <2>3. op'[w].pc = "read_lock" /\ op'[w].count = ReadSize
    BY <1>1, <2>1 DEF ReadCall, Enter, Returned, OpShape
  <2>4. Stream' = Stream
    BY <1>3, EntersServed DEF Enters
  <2>5. n \in Nat /\ Unread(w)' = n
    BY <1>1, <2>2, <2>4 DEF Unread
  <2>6. Left(w)' = ReadSize + 3
    BY <2>3 DEF Left
  <2>7. Ahead(w) = Turns(n + 1) /\ Ahead(w)' = Turns(Unread(w)') + Left(w)' + 1
    <3>1. Turns(Unread(w))' = Turns(Unread(w)')
      BY DEF Turns
    <3>2. Ahead(w)' = Turns(Unread(w))' + Left(w)' + 1
      BY <2>1, <2>3 DEF Ahead, Settled
    <3> QED
      BY <2>1, <3>1, <3>2 DEF Ahead
  <2> HIDE DEF n
  <2>8. Turns(n + 1) = Turns(n) + ReadSize + 5 /\ Turns(n) \in Nat
    BY <2>5, TurnsGrow
  <2> QED
    BY <1>1, <2>5, <2>6, <2>7, <2>8
<1> QED
  BY <1>2, <1>3

\* It goes on in the driver.
LEMMA DeviceShortens ==
  ASSUME Sane, NEW w \in Threads, Served(w), wpc[w] \in Holding, Device(w)
  PROVE  Ahead(w)' < Ahead(w)
<1>1. /\ MemInv /\ OpShape /\ loaded /\ MutualExclusion /\ Typed(w)
      /\ Step(w) /\ wpc' = wpc /\ f_pos = [u \in Threads |-> f_pos[u]]
      /\ Stream \in Seq(Byte) /\ Len(Stream) \in Nat
  BY StreamBytes, InvExcludes DEF Sane, Inv, FileInv, Device, server
<1>3. /\ Left(w)' < Left(w) /\ Left(w) \in Nat /\ Left(w) > 0
      /\ op[w].pc # "idle" /\ wpc[w] \in {"in_io", "reading"}
  <2>1. op[w].pc # "idle"
    BY <1>1, StepEffect
  <2> QED
    BY <1>1, <2>1, StepsShorten, LeftType DEF Sane, Inv
<1>4. Left(w)' \in Nat
  BY <1>1, StepsShorten
<1>5. CASE wpc[w] = "in_io"
  <2>1. Ahead(w) = Left(w) + 1 /\ Ahead(w)' = Left(w)' + 1
    BY <1>1, <1>5 DEF Ahead
  <2> QED
    BY <1>3, <1>4, <2>1
<1>6. CASE wpc[w] = "reading"
  <2> DEFINE m == Unread(w)
             n == Unread(w)'
  <2>1. op[w].pc \in Reading /\ Fetched(w) /\ f_pos[w] \in Nat /\ op[w].pos \in Nat
    BY <1>3, <1>6 DEF Served, Answering, Sane, FileInv, Typed
  <2>2. Stream' = Stream
    BY <1>1, <1>6, ReadingStep
  <2>3. m \in Nat /\ Ahead(w) = Turns(m) + Left(w) + 1
    <3>1. m \in Nat
      BY <1>1, <2>1 DEF Unread
    <3> QED
      BY <1>3, <1>6, <3>1 DEF Ahead, Settled
  <2>4. CASE op'[w].pc # "idle"
    <3>1. f_pos'[w] = f_pos[w]
      BY <1>1, <2>4, StepFile
    <3>2. n = m
      BY <2>2, <3>1 DEF Unread
    <3>3. Ahead(w)' = Turns(m) + Left(w)' + 1
      <4>1. Turns(Unread(w))' = Turns(n)
        BY DEF Turns
      <4>2. Ahead(w)' = Turns(Unread(w))' + Left(w)' + 1
        BY <1>1, <1>6, <2>4 DEF Ahead, Settled
      <4> HIDE DEF m, n
      <4> QED
        BY <3>2, <4>1, <4>2
    <3> HIDE DEF m, n
    <3>4. Turns(m) \in Nat
      BY <2>3, TurnsGrow
    <3> QED
      BY <1>3, <1>4, <2>3, <3>3, <3>4
  <2>5. CASE op'[w].pc = "idle" /\ ~(op'[w].ret > 0)
    <3>1. Ahead(w)' = 1
      BY <1>1, <1>6, <2>5 DEF Ahead, Settled
    <3> HIDE DEF m, n
    <3>2. Turns(m) \in Nat
      BY <2>3, TurnsGrow
    <3> QED
      BY <1>3, <2>3, <3>1, <3>2
  <2>6. CASE op'[w].pc = "idle" /\ op'[w].ret > 0
    <3>1. ReadReturn(w)
      <4>1. CASE ReadFault(w)
        <5>1. op'[w] = Returned(Error, << >>)
          BY <1>1, <4>1 DEF ReadFault, Unlock, Return, OpShape
        <5> QED
          BY <2>6, <5>1 DEF Returned, Error
      <4>2. CASE ReadEnd(w)
        BY <1>1, <2>6, <4>2 DEF ReadEnd, Goto, OpShape, Fields
      <4>3. CASE ReadChunk(w)
        BY <1>1, <2>6, <4>3, ChunkStays
      <4>4. CASE ReadLock(w)
        BY <1>1, <2>6, <4>4 DEF ReadLock, Lock, Goto, OpShape, Fields
      <4>5. ~Oops(w)
        BY <1>1, AllSound DEF Oops
      <4>6. op[w].pc \notin {"write_lock", "ioctl_lock", "write_combine", "write_install",
                             "write_loop", "ioctl_seek"}
        BY <2>1 DEF Reading
      <4> QED
        BY <1>1, <4>1, <4>2, <4>3, <4>4, <4>5, <4>6
           DEF Step, TakeLock, WriteLock, IoctlLock, Lock, ReadStep, WriteStep, WriteCombine,
               WriteNoMemory, WriteInstall, WriteLine, WriteLineNoMemory, WriteReturn, LoopTest,
               IoctlSeek
    <3> DEFINE p == op[w].pos
               from == f_pos[w]
    <3>2. op'[w].ret = Len(op[w].data) /\ f_pos'[w] = p
      BY <1>1, <3>1 DEF ReadReturn, Returned, OpShape
    <3>3. /\ from <= p /\ (p = from \/ p <= Len(Stream))
          /\ op[w].data = SubSeq(Stream, from + 1, p)
      BY <2>1 DEF Fetched
    <3>4. p # from
      <4>1. ASSUME p = from PROVE op[w].data = << >>
        BY <2>1, <3>3, <4>1, SubSeqEmpty
      <4> QED
        BY <2>6, <3>2, <4>1
    <3>5. from \in Nat /\ p \in Nat /\ from < p /\ p <= Len(Stream)
      <4> HIDE DEF p, from
      <4>1. from \in Nat /\ p \in Nat
        BY <2>1 DEF p, from
      <4> QED
        BY <3>3, <3>4, <4>1
    <3>6. m = Len(Stream) - from /\ n \in Nat /\ n <= Len(Stream) - p
      <4>1. m = IF from < Len(Stream) THEN Len(Stream) - from ELSE 0
        BY DEF Unread
      <4>2. n = IF p < Len(Stream) THEN Len(Stream) - p ELSE 0
        BY <2>2, <3>2 DEF Unread
      <4> HIDE DEF m, n, p, from
      <4> QED
        BY <1>1, <3>5, <4>1, <4>2
    <3>7. Ahead(w)' = Turns(n + 1) + 1
      <4>1. Turns(Unread(w) + 1)' = Turns(n + 1)
        BY DEF Turns
      <4>2. Ahead(w)' = Turns(Unread(w) + 1)' + 1
        BY <1>1, <1>6, <2>6 DEF Ahead, Settled
      <4> QED
        BY <4>1, <4>2
    <3> HIDE DEF m, n, p, from
    <3>8. n + 1 \in Nat /\ n + 1 <= m
      BY <1>1, <3>5, <3>6
    <3>9. Turns(n + 1) <= Turns(m) /\ Turns(m) \in Nat /\ Turns(n + 1) \in Nat
      BY <2>3, <3>8, TurnsGrow
    <3> QED
      BY <1>3, <2>3, <3>7, <3>9
  <2> QED
    BY <2>4, <2>5, <2>6
<1> QED
  BY <1>3, <1>5, <1>6

\* It sends what it has read, or unlocks file_mutex.
LEMMA ServeShortens ==
  ASSUME Sane, NEW w \in Threads, f_pos[w] \in Nat, wpc[w] \in Holding,
         UnlockIO(w) \/ Send(w) \/ UnlockStream(w)
  PROVE  Ahead(w)' < Ahead(w)
<1>1. /\ wpc \in [Threads -> WControl] /\ UNCHANGED vars /\ Typed(w) /\ MemInv
      /\ Stream \in Seq(Byte) /\ Len(Stream) \in Nat
  BY StreamBytes DEF Sane, Inv, Typed, UnlockIO, Send, UnlockStream, UnlockMutex, SetMutex
<1>2. CASE UnlockIO(w)
  <2>1. wpc[w] = "in_io" /\ wpc'[w] = "lock_stream"
    BY <1>1, <1>2 DEF UnlockIO, UnlockMutex, SetMutex, WGoto
  <2>2. Ahead(w) = Left(w) + 1 /\ Ahead(w)' = 0
    BY <2>1 DEF Ahead
  <2> QED
    BY <1>1, <2>2, LeftType
<1>3. CASE UnlockStream(w)
  <2>1. wpc[w] = "reading" /\ wpc'[w] = "close" /\ op[w].pc = "idle" /\ op[w].ret <= 0
    BY <1>1, <1>3 DEF UnlockStream, UnlockMutex, SetMutex, WGoto
  <2>2. ~(op[w].ret > 0)
    BY <1>1, <2>1 DEF Typed
  <2>3. Ahead(w) = 1 /\ Ahead(w)' = 0
    BY <2>1, <2>2 DEF Ahead, Settled
  <2> QED
    BY <2>3
<1>4. CASE Send(w)
  <2>1. wpc[w] = "reading" /\ wpc'[w] = "stream" /\ op[w].pc = "idle" /\ op[w].ret > 0
    BY <1>1, <1>4 DEF Send, WGoto
  <2>2. Stream' = Stream /\ f_pos' = f_pos
    BY <1>1, StreamKept DEF vars
  <2>3. Unread(w)' = Unread(w)
    BY <2>2 DEF Unread
  <2>4. Ahead(w) = Turns(Unread(w) + 1) + 1
    BY <2>1 DEF Ahead, Settled
  <2>5. Ahead(w)' = Turns(Unread(w) + 1)
    <3>1. Ahead(w)' = Turns(Unread(w)' + 1)
      BY <2>1 DEF Ahead, Turns
    <3> QED
      BY <2>3, <3>1
  <2>6. Turns(Unread(w) + 1) \in Nat
    <3>1. Unread(w) \in Nat
      BY <1>1 DEF Unread
    <3>2. Unread(w) + 1 \in Nat
      BY <3>1
    <3> QED
      BY <3>2, TurnsGrow
  <2> QED
    BY <2>4, <2>5, <2>6
<1> QED
  BY <1>2, <1>3, <1>4

\* The others leave the owner's section alone.
LEMMA OthersKeepAhead ==
  ASSUME NEW w \in Threads, wpc'[w] = wpc[w], packet'[w] = packet[w], f_pos'[w] = f_pos[w],
         op'[w] = op[w], UNCHANGED <<ring, partial, heap>>
  PROVE  Ahead(w)' = Ahead(w)
<1>1. Stream' = Stream
  BY StreamKept
<1>2. Unread(w)' = Unread(w)
  BY <1>1 DEF Unread
<1>3. Left(w)' = Left(w) /\ Bytes(partial)' = Bytes(partial)
  BY DEF Left, Bytes
<1> QED
  BY <1>2, <1>3 DEF Ahead, Turns, Settled

\* Ahead gets smaller with a step of w, and otherwise stays.
Nearer(w) ==
  IF Serve(w) \/ Send(w) \/ Device(w) THEN Ahead(w)' < Ahead(w) ELSE Ahead(w)' = Ahead(w)

LEMMA SectionsEndNext ==
  ASSUME Sane, \A u \in Threads : Served(u), OwnerHolds, FilesOpen, WNext,
         \A u \in Threads : ~ReallocFails(u), NEW w \in Threads, file_mutex = w
  PROVE  Nearer(w) \/ UNCHANGED allvars
<1>1. /\ wpc[w] \in Holding /\ wpc \in [Threads -> WControl] /\ f_pos[w] \in Nat
      /\ packet \in [Threads -> Seq(Byte)] /\ OpShape /\ f_pos = [u \in Threads |-> f_pos[u]]
      /\ MutualExclusion
  BY NullAssumption, PayloadAssumption, InvExcludes
     DEF OwnerHolds, FilesOpen, Holding, Sane, Inv, ServerTyped, FileInv
<1>2. CASE Serve(w) \/ Send(w) \/ Device(w)
  <2>1. CASE Device(w)
    BY <1>1, <1>2, <2>1, DeviceShortens DEF Nearer
  <2>2. CASE Serve(w) \/ Send(w)
    <3>1. ~OpenDevice(w) /\ ~Continue(w) /\ ~CloseDevice(w)
      BY <1>1 DEF OpenDevice, Continue, CloseDevice, WMove, WGoto, Holding
    <3> QED
      BY <1>1, <2>2, <3>1, EntersShorten, ServeShortens DEF Serve, Nearer
  <2> QED
    BY <1>2, <2>1, <2>2
<1>3. ASSUME ~Serve(w), ~Send(w), ~Device(w), ~(UNCHANGED allvars) PROVE Ahead(w)' = Ahead(w)
  <2>1. CASE Signal
    BY <2>1, OthersKeepAhead DEF Signal, vars
  <2>2. ~Receive(w) /\ ~Acquire(w)
    BY <1>1 DEF Receive, Recv, RecvError, ReallocFails, Acquire, LockIO, LockStream, LockMutex,
                SetMutex, WMove, WGoto, Holding
  <2>3. ASSUME NEW u \in Threads \ {w}, Receive(u) \/ Serve(u) \/ Send(u) \/ Acquire(u)
        PROVE  Ahead(w)' = Ahead(w)
    <3>1. CASE Enters(u)
      <4>1. /\ AnyCall(u) /\ packet' = packet
        BY <3>1, WorkerCalls DEF Sane
      <4>2. OthersStay(u) /\ OthersFiles(u)
        BY <1>1, <4>1, AnyCallEffect, CallFile
      <4>3. wpc'[w] = wpc[w]
        BY <1>1, <3>1 DEF Enters, OpenDevice, SeekOrWrite, ReadMore, CloseDevice, WMove, WGoto
      <4>4. UNCHANGED <<ring, partial, heap>>
        BY <3>1 DEF Enters, OpenDevice, Open, SeekOrWrite, IoctlCall, IoctlFault, WriteCall,
                    WriteFault, Refuse, ReadMore, ReadCall, Enter, CloseDevice, Release, device
      <4> QED
        BY <4>1, <4>2, <4>3, <4>4, OthersKeepAhead DEF OthersStay, OthersFiles
    <3>2. CASE ~Enters(u)
      <4>1. UNCHANGED vars
        BY <2>3, <3>2 DEF Receive, Recv, RecvError, ReallocFails, Serve, Enters, Continue, Acquire,
             LockIO, LockStream, LockMutex, UnlockIO, Send, UnlockStream, UnlockMutex, SetMutex
      <4>2. wpc'[w] = wpc[w] /\ packet'[w] = packet[w]
        <5>1. ASSUME NEW c \in Chunks, Recv(u, c)
              PROVE  wpc'[w] = wpc[w] /\ packet'[w] = packet[w]
          <6>1. PICK to : WGoto(u, "recv", to)
            BY <5>1 DEF Recv
          <6> QED
            BY <1>1, <5>1, <6>1 DEF Recv, WGoto
        <5>2. ASSUME NEW from, NEW to, WGoto(u, from, to), packet' = packet
              PROVE  wpc'[w] = wpc[w] /\ packet'[w] = packet[w]
          BY <1>1, <5>2 DEF WGoto
        <5>3. CASE ~(\E c \in Chunks : Recv(u, c))
          BY <2>3, <3>2, <5>2, <5>3 DEF Receive, RecvError, ReallocFails, Serve, Enters, Continue,
               Acquire, LockIO, LockStream, LockMutex, UnlockIO, Send, UnlockStream, UnlockMutex,
               SetMutex, WMove
        <5> QED
          BY <5>1, <5>3
      <4> QED
        BY <4>1, <4>2, OthersKeepAhead DEF vars
    <3> QED
      BY <3>1, <3>2
  <2>4. ASSUME NEW u \in Threads \ {w}, Device(u) PROVE FALSE
    <3>1. op[u].pc # "idle"
      BY <1>1, <2>4, StepEffect DEF Device
    <3> QED
      BY <3>1, <2>4 DEF Sane, Inv, Holding
  <2> QED
    BY <1>3, <2>1, <2>2, <2>3, <2>4 DEF WNext, AllDone
<1> QED
  BY <1>2, <1>3 DEF Nearer

\* What there is to do is a number, so that a section does not go on for ever.
Measured == AnyGone \/ \A w \in Threads : Ahead(w) \in Nat

LEMMA AheadNatural ==
  ASSUME Sane, FilesOpen, NEW w \in Threads
  PROVE  Ahead(w) \in Nat
<1>1. /\ wpc[w] \in WControl /\ MemInv /\ Typed(w) /\ packet[w] \in Seq(Byte)
      /\ Len(packet[w]) \in Nat /\ Stream \in Seq(Byte) /\ Len(Stream) \in Nat
  BY StreamBytes DEF Sane, Inv, ServerTyped
<1>2. Left(w) \in Nat /\ Len(Bytes(partial)) \in Nat
  BY <1>1, LeftType, BytesString
<1>3. ASSUME wpc[w] \in {"stream", "reading"}
      PROVE  Turns(Unread(w)) \in Nat /\ Turns(Unread(w) + 1) \in Nat
  <2>1. f_pos[w] \in Nat
    BY <1>3 DEF FilesOpen
  <2>2. Unread(w) \in Nat
    BY <1>1, <2>1 DEF Unread
  <2>3. Unread(w) + 1 \in Nat
    BY <2>2
  <2> QED
    BY <2>2, <2>3, TurnsGrow
<1>4. CASE wpc[w] = "reading"
  <2>1. Ahead(w) = CASE op[w].pc # "idle" -> Turns(Unread(w)) + Left(w) + 1
                     [] Settled(w) /\ op[w].ret > 0 -> Turns(Unread(w) + 1) + 1
                     [] OTHER -> 1
    BY <1>4 DEF Ahead
  <2> QED
    BY <1>2, <1>3, <1>4, <2>1 DEF Settled
<1>5. CASE wpc[w] = "io"
  BY <1>1, <1>2, <1>5 DEF Ahead
<1>6. CASE wpc[w] = "in_io"
  BY <1>2, <1>6 DEF Ahead
<1>7. CASE wpc[w] = "stream"
  BY <1>3, <1>7 DEF Ahead
<1>8. CASE wpc[w] \notin Holding
  BY <1>8 DEF Ahead, Holding
<1> QED
  BY <1>4, <1>5, <1>6, <1>7, <1>8 DEF Holding

\* What a thread of the server does with file_mutex locked (data_processing and
\* stream_file_reader in server/socket.c) ends, unless its client stops reading: each step
\* of its owner, in the server and in the driver, brings the unlock nearer, whatever fails
\* and wherever a seek command makes the answer begin; nothing the other threads do sets it
\* back, since nobody can add to the device that is being read.  It holds until a realloc
\* fails.
THEOREM SectionsAlwaysEnd == WSpec => SectionsEnd
<1> DEFINE Good == /\ ServedUntilGone
                   /\ OwnerHolds
                   /\ AnyGone \/ FilesOpen
<1>1. WInit => Good
  BY ServedInit, FilesOpenInit DEF WInit, OwnerHolds
<1>2. Good /\ [WNext]_allvars => Good'
  <2> SUFFICES ASSUME Good, [WNext]_allvars PROVE Good'
    OBVIOUS
  <2>1. ServedUntilGone' /\ OwnerHolds'
    BY ServedUntilGoneNext, OwnerHoldsNext DEF ServedUntilGone, SaneUntilGone, SoundUntilGone
  <2>2. ASSUME ~AnyGone' PROVE FilesOpen'
    BY <2>2, StaysHere, FilesOpenNext DEF ServedUntilGone, SaneUntilGone
  <2> QED
    BY <2>1, <2>2
<1>3. Good /\ [WNext]_allvars => [\A w \in Threads : file_mutex = w /\ ~AnyGone' => Nearer(w)]_allvars
  BY StaysHere, SectionsEndNext DEF ServedUntilGone, SaneUntilGone, Nearer
<1>4. Good => Measured
  BY AheadNatural DEF ServedUntilGone, SaneUntilGone, Measured
<1> HIDE DEF Good
<1>5. Measured' /\ [\A w \in Threads : file_mutex = w /\ ~AnyGone' => Nearer(w)]_allvars
      => [\A w \in Threads :
            file_mutex = w /\ ~AnyGone' =>
              IF Serve(w) \/ Send(w) \/ Device(w)
              THEN Ahead(w)' \in Nat /\ Ahead(w)' < Ahead(w)
              ELSE Ahead(w)' = Ahead(w)]_allvars
  BY DEF Measured, Nearer
<1> QED
  BY <1>1, <1>2, <1>3, <1>4, <1>5, PTL DEF WSpec, SectionsEnd

-----------------------------------------------------------------------------
(* What the workers make of what they receive.                             *)

\* A worker that still receives, and one that has received its line.
Early  == {"new", "loop", "recv"}
HasRead == {"lock_io", "io", "in_io"}

\* The loop of data_processing receives until there is a newline, and no longer; this
\* holds even after a failed realloc.
PacketInv ==
  /\ wpc \in [Threads -> WControl]
  /\ packet \in [Threads -> Seq(Byte)] /\ end_of_packet \in [Threads -> BOOLEAN]
  /\ \A w \in Threads : /\ wpc[w] \in Early   => ~IsPacket(packet[w])
                        /\ wpc[w] \in HasRead => IsPacket(packet[w])

\* A flag that was FALSE, by chance, says what it should.
Clean(w) == /\ wpc[w] \in Early => ~end_of_packet[w]
            /\ wpc[w] \in {"lock_stream", "stream", "reading"} => IsPacket(packet[w])

LEMMA PacketInvInit ==
  ASSUME WInit
  PROVE  PacketInv /\ \A w \in Threads : ~end_of_packet[w] => Clean(w)
<1>1. [w \in Threads |-> << >>] \in [Threads -> Seq(Byte)]
  BY NoBytes
<1>2. end_of_packet \in [Threads -> BOOLEAN]
  BY WorkerAssumption DEF WInit
<1>3. \A w \in Threads : ~IsPacket(packet[w])
  BY DEF WInit, IsPacket, Range
<1>4. PacketInv
  BY <1>1, <1>2, <1>3 DEF WInit, PacketInv, WControl, HasRead
<1>5. \A w \in Threads : ~end_of_packet[w] => Clean(w)
  BY DEF WInit, Clean
<1> QED
  BY <1>4, <1>5

\* A worker that goes from a place to another and receives nothing.
LEMMA WalkKeepsPacket ==
  ASSUME PacketInv, NEW w \in Threads, NEW from, NEW to \in WControl, WGoto(w, from, to),
         UNCHANGED <<packet, end_of_packet>>,
         to \in Early => from \in Early,
         to \in HasRead => from \in HasRead
  PROVE  /\ PacketInv'
         /\ (to \in {"lock_stream", "stream", "reading"}
               => from \in HasRead \cup {"lock_stream", "stream", "reading"})
            => \A u \in Threads : Clean(u) => Clean(u)'
BY DEF PacketInv, Clean, WGoto, IsPacket

\* Where Recv leads.
LEMMA RecvLeads ==
  ASSUME PacketInv, NEW w \in Threads, NEW c \in Chunks, Recv(w, c)
  PROVE  LET data == packet[w] \o c
         IN  /\ wpc[w] = "recv" /\ ~IsPacket(packet[w])
             /\ data \in Seq(Byte)
             /\ packet' = [packet EXCEPT ![w] = data]
             /\ end_of_packet' = [end_of_packet EXCEPT ![w] = @ \/ IsPacket(data)]
             /\ wpc' = [wpc EXCEPT ![w] = IF IsPacket(data) THEN "lock_io"
                                          ELSE IF end_of_packet[w] THEN "lock_stream"
                                          ELSE "loop"]
<1> DEFINE data == packet[w] \o c
<1>1. data \in Seq(Byte)
  BY WorkerAssumption DEF PacketInv
<1>2. wpc[w] = "recv" /\ ~IsPacket(packet[w])
  BY DEF Recv, WGoto, PacketInv, Early
<1>3. /\ packet' = [packet EXCEPT ![w] = data]
      /\ end_of_packet' = [end_of_packet EXCEPT ![w] = Flag(@, data)]
      /\ wpc' = [wpc EXCEPT ![w] = CASE IsPacket(data) -> "lock_io"
                                     [] end_of_packet[w] /\ ~IsPacket(data) -> "lock_stream"
                                     [] OTHER -> "loop"]
  BY DEF Recv, Received, WGoto
<1> HIDE DEF data
<1>4. CASE IsPacket(data)
  BY <1>1, <1>2, <1>3, <1>4 DEF Flag, data
<1>5. CASE ~IsPacket(data) /\ end_of_packet[w]
  BY <1>1, <1>2, <1>3, <1>5 DEF Flag, data
<1>6. CASE ~IsPacket(data) /\ ~end_of_packet[w]
  BY <1>1, <1>2, <1>3, <1>6 DEF Flag, data
<1> QED
  BY <1>4, <1>5, <1>6

LEMMA PacketInvNext ==
  ASSUME PacketInv, [WNext]_allvars
  PROVE  PacketInv' /\ \A u \in Threads : Clean(u) => Clean(u)'
<1>1. CASE UNCHANGED <<wpc, packet, end_of_packet>>
  BY <1>1 DEF PacketInv, Clean, IsPacket
<1>2. CASE UNCHANGED allvars \/ Signal \/ AllDone \/ \E w \in Threads : Device(w)
  BY <1>1, <1>2 DEF allvars, server, Signal, AllDone, Device
<1>3. ASSUME NEW w \in Threads, NEW c \in Chunks, Recv(w, c)
      PROVE  PacketInv' /\ \A u \in Threads : Clean(u) => Clean(u)'
  <2> DEFINE data == packet[w] \o c
  <2>1. /\ wpc[w] = "recv" /\ data \in Seq(Byte)
        /\ packet' = [packet EXCEPT ![w] = data]
        /\ end_of_packet' = [end_of_packet EXCEPT ![w] = @ \/ IsPacket(data)]
        /\ wpc' = [wpc EXCEPT ![w] = IF IsPacket(data) THEN "lock_io"
                                     ELSE IF end_of_packet[w] THEN "lock_stream"
                                     ELSE "loop"]
    BY <1>3, RecvLeads
  <2>2. /\ packet'[w] = data
        /\ end_of_packet'[w] = (end_of_packet[w] \/ IsPacket(data))
        /\ wpc'[w] = IF IsPacket(data) THEN "lock_io"
                     ELSE IF end_of_packet[w] THEN "lock_stream" ELSE "loop"
    BY <2>1 DEF PacketInv
  <2>3. \A u \in Threads \ {w} : /\ packet'[u] = packet[u] /\ wpc'[u] = wpc[u]
                                 /\ end_of_packet'[u] = end_of_packet[u]
    BY <2>1 DEF PacketInv
  <2> HIDE DEF data
  <2>4. /\ wpc' \in [Threads -> WControl] /\ packet' \in [Threads -> Seq(Byte)]
        /\ end_of_packet' \in [Threads -> BOOLEAN]
    <3>1. IsPacket(data) \in BOOLEAN
      BY DEF IsPacket
    <3> QED
      BY <2>1, <3>1 DEF PacketInv, WControl
  <2>5. IsPacket(packet[w])' = IsPacket(data)
    BY <2>2 DEF IsPacket
  <2>6. PacketInv'
    BY <2>2, <2>3, <2>4, <2>5 DEF PacketInv, Early, HasRead, IsPacket
  <2>7. ASSUME NEW u \in Threads, Clean(u) PROVE Clean(u)'
    <3>1. CASE u = w
      <4>1. ~end_of_packet[w]
        BY <2>1, <2>7, <3>1 DEF Clean, Early
      <4> QED
        BY <2>2, <2>5, <3>1, <4>1 DEF Clean, Early, IsPacket
    <3>2. CASE u # w
      BY <2>3, <2>7, <3>2 DEF Clean, IsPacket
    <3> QED
      BY <3>1, <3>2
  <2> QED
    BY <2>6, <2>7
<1>4. ASSUME NEW w \in Threads, RecvError(w) \/ ReallocFails(w)
      PROVE  PacketInv' /\ \A u \in Threads : Clean(u) => Clean(u)'
  <2>1. PICK to \in {"close", "gone"} : WGoto(w, "recv", to)
    BY <1>4 DEF RecvError, ReallocFails, WMove, SetMutex
  <2> QED
    BY <1>4, <2>1, WalkKeepsPacket DEF RecvError, ReallocFails, WMove, SetMutex, Early, HasRead, WControl
<1>5. ASSUME NEW w \in Threads, Acquire(w)
      PROVE  PacketInv' /\ \A u \in Threads : Clean(u) => Clean(u)'
  BY <1>5, WalkKeepsPacket
     DEF Acquire, LockIO, LockStream, LockMutex, SetMutex, Early, HasRead, WControl
<1>6. ASSUME NEW w \in Threads, Serve(w) \/ Send(w)
      PROVE  PacketInv' /\ \A u \in Threads : Clean(u) => Clean(u)'
  <2>1. CASE Continue(w)
    <3>1. PICK to \in {"close", "recv"} : WGoto(w, "loop", to)
      BY <2>1 DEF Continue, WMove
    <3> QED
      BY <2>1, <3>1, WalkKeepsPacket DEF Continue, WMove, Early, HasRead, WControl
  <2>2. CASE OpenDevice(w) \/ SeekOrWrite(w)
    BY <2>2, WalkKeepsPacket DEF OpenDevice, SeekOrWrite, WMove, Early, HasRead, WControl
  <2>3. CASE UnlockIO(w) \/ UnlockStream(w)
    BY <2>3, WalkKeepsPacket DEF UnlockIO, UnlockStream, UnlockMutex, SetMutex, Early, HasRead, WControl
  <2>4. CASE ReadMore(w) \/ CloseDevice(w)
    BY <2>4, WalkKeepsPacket DEF ReadMore, CloseDevice, WMove, Early, HasRead, WControl
  <2>5. CASE Send(w)
    BY <2>5, WalkKeepsPacket DEF Send, Early, HasRead, WControl
  <2> QED
    BY <1>6, <2>1, <2>2, <2>3, <2>4, <2>5 DEF Serve
<1> QED
  BY <1>2, <1>3, <1>4, <1>5, <1>6 DEF WNext, Receive

\* A thread of the server (data_processing, server/socket.c) in whose end_of_packet malloc
\* happens to leave FALSE does not answer before it has received a newline, whatever fails,
\* a realloc included, however the packet arrives, and whatever malloc leaves to the other
\* threads.
THEOREM CompletePacketsAnswered == WSpec => CleanFlagsAnswerPackets
<1>1. ASSUME NEW w \in Threads PROVE WSpec => (~end_of_packet[w] => []AnswersPacket(w))
  <2>1. WInit => PacketInv /\ (~end_of_packet[w] => Clean(w))
    BY PacketInvInit
  <2>2. PacketInv /\ Clean(w) /\ [WNext]_allvars => (PacketInv /\ Clean(w))'
    BY PacketInvNext
  <2>3. Clean(w) => AnswersPacket(w)
    BY DEF Clean, AnswersPacket, Streaming
  <2> QED
    BY <2>1, <2>2, <2>3, PTL DEF WSpec
<1> QED
  BY <1>1 DEF CleanFlagsAnswerPackets

-----------------------------------------------------------------------------
(* Lines of packets.                                                       *)

\* s is what is left of a packet when some of its lines have been taken.
TailOf(s, p) == \E i \in 0 .. Len(p)-1 : (i = 0 \/ p[i] = Newline) /\ s = SubSeq(p, i+1, Len(p))

LEMMA TailFacts ==
  ASSUME NEW p \in Seq(Byte), NEW s, NEW i \in 0 .. Len(p)-1, s = SubSeq(p, i+1, Len(p))
  PROVE  s \in Seq(Byte) /\ Len(s) = Len(p) - i /\ \A j \in 1 .. Len(s) : s[j] = p[i+j]
<1>1. i+1 \in Int /\ Len(p) \in Int /\ i+1 <= Len(p) /\ Len(p) - (i+1) + 1 = Len(p) - i
  OBVIOUS
<1>2. \A j \in i+1 .. Len(p) : p[j] \in Byte
  OBVIOUS
<1>3. /\ s \in Seq(Byte) /\ Len(s) = Len(p) - (i+1) + 1
      /\ \A j \in 1 .. Len(p) - (i+1) + 1 : s[j] = p[(i+1)+j-1]
  BY <1>1, <1>2, SubSeqProperties
<1>4. \A j \in Int : (i+1)+j-1 = i+j
  OBVIOUS
<1> QED
  BY <1>1, <1>3, <1>4

LEMMA TailEnds ==
  ASSUME NEW p \in Seq(Byte), NEW s, TailOf(s, p), IsPacket(p), ~Trails(p)
  PROVE  LineEnd(s) > 0
<1>1. PICK i \in 0 .. Len(p)-1 : s = SubSeq(p, i+1, Len(p))
  BY DEF TailOf
<1>2. s \in Seq(Byte) /\ Len(s) = Len(p) - i /\ \A j \in 1 .. Len(s) : s[j] = p[i+j]
  BY <1>1, TailFacts
<1>3. p[Len(p)] = Newline
  BY DEF Trails, IsPacket, Last
<1>4. Len(s) \in 1 .. Len(s) /\ s[Len(s)] = Newline
  <2>1. Len(s) \in 1 .. Len(s) /\ i + Len(s) = Len(p)
    BY <1>2
  <2> QED
    BY <1>2, <1>3, <2>1
<1> DEFINE I == {j \in 1 .. Len(s) : s[j] = Newline}
<1>5. LineEnd(s) = IF I # {} THEN Min(I) ELSE 0
  BY DEF LineEnd, SelectInSeq
<1>6. I # {} /\ I \subseteq Nat /\ \A j \in I : j > 0
  BY <1>4
<1>7. Min(I) \in I
  <2> HIDE DEF I
  <2>1. \E n \in I : \A m \in I : n <= m
    BY <1>6, LeastNatural
  <2> QED
    BY <2>1 DEF Min
<1> QED
  <2> HIDE DEF I
  <2> QED
    BY <1>5, <1>6, <1>7

LEMMA TakeLine ==
  ASSUME NEW p \in Seq(Byte), NEW s, TailOf(s, p), LineEnd(s) > 0
  PROVE  LET n    == LineEnd(s)
             rest == SubSeq(s, n+1, Len(s))
         IN  /\ s \in Seq(Byte) /\ LineOf(SubSeq(s, 1, n), p)
             /\ rest = << >> \/ TailOf(rest, p)
<1> DEFINE n    == LineEnd(s)
           l    == SubSeq(s, 1, n)
           rest == SubSeq(s, n+1, Len(s))
<1>1. PICK i \in 0 .. Len(p)-1 : (i = 0 \/ p[i] = Newline) /\ s = SubSeq(p, i+1, Len(p))
  BY DEF TailOf
<1>2. s \in Seq(Byte) /\ Len(s) = Len(p) - i /\ \A j \in 1 .. Len(s) : s[j] = p[i+j]
  BY <1>1, TailFacts
<1>3. n \in 1 .. Len(s) /\ s[n] = Newline /\ \A j \in 1 .. n-1 : s[j] # Newline
  BY <1>2, LineEndInside, FirstNewline
<1> HIDE DEF n
<1>4. Len(p) \in Nat /\ Len(s) \in Nat /\ i + n \in 1 .. Len(p) /\ i \in 0 .. Len(p) - n
  BY <1>2, <1>3
<1>5. p[i+n] = Newline
  BY <1>2, <1>3
<1>6. l \in Seq(Byte) /\ Len(l) = n /\ \A j \in 1 .. n : l[j] = s[j]
  <2>1. 1 \in Int /\ n \in Int /\ \A j \in 1 .. n : s[j] \in Byte
    BY <1>2, <1>3
  <2>2. /\ l \in Seq(Byte) /\ Len(l) = IF 1 <= n THEN n-1+1 ELSE 0
        /\ \A j \in 1 .. n-1+1 : l[j] = s[1+j-1]
    BY <2>1, SubSeqProperties
  <2>3. n-1+1 = n /\ 1 <= n /\ \A j \in 1 .. n : 1+j-1 = j
    BY <1>3
  <2> QED
    BY <2>2, <2>3
<1>7. SubSeq(p, i+1, i+n) = l
  <2> DEFINE q == SubSeq(p, i+1, i+n)
  <2>1. i+1 \in Int /\ i+n \in Int /\ \A j \in i+1 .. i+n : p[j] \in Byte
    BY <1>4
  <2>2. /\ q \in Seq(Byte) /\ Len(q) = IF i+1 <= i+n THEN (i+n)-(i+1)+1 ELSE 0
        /\ \A j \in 1 .. (i+n)-(i+1)+1 : q[j] = p[(i+1)+j-1]
    BY <2>1, SubSeqProperties
  <2>3. (i+n)-(i+1)+1 = n /\ i+1 <= i+n /\ \A j \in 1 .. n : (i+1)+j-1 = i+j /\ j \in 1 .. Len(s)
    BY <1>3, <1>4
  <2>4. Len(q) = n /\ \A j \in 1 .. n : q[j] = l[j]
    <3> HIDE DEF q, l
    <3>1. Len(q) = n
      BY <2>2, <2>3
    <3>2. ASSUME NEW j \in 1 .. n PROVE q[j] = l[j]
      <4>1. q[j] = p[i+j] /\ j \in 1 .. Len(s)
        BY <2>2, <2>3
      <4> QED
        BY <1>2, <1>6, <4>1
    <3> QED
      BY <3>1, <3>2
  <2> HIDE DEF q, l
  <2> QED
    BY <1>6, <2>2, <2>4, SeqEqual DEF q
<1>8. LineOf(l, p)
  <2>1. Len(l) > 0 /\ \A j \in 1 .. Len(l) : l[j] = Newline <=> j = Len(l)
    <3>1. ASSUME NEW j \in 1 .. n PROVE l[j] = Newline <=> j = n
      <4>1. j = n \/ j \in 1 .. n-1
        BY <1>3
      <4> QED
        BY <1>3, <1>6, <4>1
    <3> QED
      BY <1>3, <1>6, <3>1
  <2> HIDE DEF l
  <2> QED
    BY <1>1, <1>4, <1>6, <1>7, <2>1 DEF LineOf
<1>9. ASSUME n = Len(s) PROVE rest = << >>
  BY <1>2, <1>9, SubSeqEmpty
<1>10. ASSUME n # Len(s) PROVE TailOf(rest, p)
  <2>0. n \in 1 .. Len(s) /\ Len(s) \in Nat /\ Len(p) \in Nat /\ Len(s) = Len(p) - i
        /\ i \in Nat /\ n # Len(s)
    BY <1>2, <1>3, <1>4, <1>10
  <2>1. n \in 0 .. Len(s)-1 /\ i+n \in 0 .. Len(p)-1
    <3> HIDE DEF rest, l
    <3> QED
      BY <2>0
  <2> DEFINE q == SubSeq(p, (i+n)+1, Len(p))
  <2>2. q \in Seq(Byte) /\ Len(q) = Len(p) - (i+n) /\ \A j \in 1 .. Len(q) : q[j] = p[(i+n)+j]
    <3> HIDE DEF rest, l
    <3>1. p \in Seq(Byte) /\ q = SubSeq(p, (i+n)+1, Len(p))
      OBVIOUS
    <3> HIDE DEF q
    <3> QED
      BY <2>1, <3>1, TailFacts
  <2>4. rest \in Seq(Byte) /\ Len(rest) = Len(s) - n /\ \A j \in 1 .. Len(rest) : rest[j] = s[n+j]
    BY <1>2, <2>1, TailFacts
  <2>5. Len(rest) = Len(q)
    BY <1>2, <1>3, <2>2, <2>4
  <2>6. ASSUME NEW j \in 1 .. Len(q) PROVE rest[j] = q[j]
    <3>1. n+j \in 1 .. Len(s) /\ i+(n+j) = (i+n)+j
      <4>1. Len(q) = Len(p) - (i+n)
        BY <2>2
      <4> HIDE DEF q, rest, l
      <4> QED
        BY <2>0, <2>1, <4>1
    <3> QED
      BY <1>2, <2>2, <2>4, <2>5, <3>1
  <2>7. rest = q
    <3> HIDE DEF q, rest
    <3> QED
      BY <2>2, <2>4, <2>5, <2>6, SeqEqual
  <2> HIDE DEF rest
  <2> QED
    BY <1>5, <2>1, <2>7 DEF TailOf
<1> QED
  BY <1>2, <1>8, <1>9, <1>10 DEF n

-----------------------------------------------------------------------------
(* From the packets into the device.                                       *)

Trailing == \E w \in Threads : Trails(packet[w])

\* A write in progress moves the packet of its worker and nothing else: it finds no
\* unfinished line.
Moving(w) ==
  /\ op[w].pc \in Writing => IsPacket(packet[w])
  /\ op[w].pc \in {"write_lock", "write_combine"} => op[w].data = packet[w]
  /\ op[w].pc \in {"write_combine", "write_install"} => partial = NULL
  /\ op[w].pc = "write_install" => heap[op[w].block] = packet[w]
  /\ op[w].pc = "write_loop" => partial = NULL \/ TailOf(heap[partial], packet[w])

InPackets(ls) == \A k \in DOMAIN ls : \E w \in Threads : IsPacket(packet[w]) /\ LineOf(ls[k], packet[w])

WholeInv ==
  /\ \A w \in Threads : Moving(w)
  /\ partial # NULL => \E w \in Threads : op[w].pc = "write_loop"
  /\ InPackets(Lines)

\* A packet that is complete stays as it is.
LEMMA PacketsStay ==
  ASSUME PacketInv, [WNext]_allvars
  PROVE  \A w \in Threads : IsPacket(packet[w]) => packet'[w] = packet[w]
<1>1. ASSUME NEW w \in Threads, NEW c \in Chunks, Recv(w, c)
      PROVE  \A u \in Threads : IsPacket(packet[u]) => packet'[u] = packet[u]
  BY <1>1, RecvLeads DEF PacketInv
<1>2. CASE UNCHANGED packet
  BY <1>2
<1>3. CASE ~\E w \in Threads, c \in Chunks : Recv(w, c)
  BY <1>2, <1>3 DEF WNext, AllDone, allvars, server, Signal, Receive, RecvError, ReallocFails,
       Acquire, LockIO, LockStream, LockMutex, UnlockMutex, SetMutex, Serve, OpenDevice, Continue,
       SeekOrWrite, UnlockIO, ReadMore, Send, UnlockStream, CloseDevice, WMove, Device
<1> QED
  BY <1>1, <1>3

LEMMA InPacketsKept ==
  ASSUME PacketInv, [WNext]_allvars, NEW ls, InPackets(ls)
  PROVE  InPackets(ls)'
<1>1. \A w \in Threads : IsPacket(packet[w]) => packet'[w] = packet[w]
  BY PacketsStay
<1>2. \A w \in Threads : IsPacket(packet[w]) => IsPacket(packet[w])'
  BY <1>1 DEF IsPacket
<1> QED
  BY <1>1, <1>2 DEF InPackets

\* A step that leaves the memory of the device as it is, and no write half done.
LEMMA QuietKeepsWhole ==
  ASSUME PacketInv, WholeInv, [WNext]_allvars, NEW w \in Threads, OthersStay(w),
         UNCHANGED <<ring, partial, heap>>,
         op[w].pc # "write_loop" \/ partial = NULL,
         Moving(w)'
  PROVE  WholeInv'
<1>1. Lines' = Lines
  BY StreamKept
<1>2. InPackets(Lines)'
  <2>1. PICK ls : ls = Lines
    OBVIOUS
  <2>2. InPackets(ls)'
    BY <2>1, InPacketsKept DEF WholeInv
  <2> QED
    BY <1>1, <2>1, <2>2 DEF InPackets
<1>3. ASSUME NEW u \in Threads \ {w} PROVE Moving(u)'
  <2>1. op'[u] = op[u] /\ Moving(u) /\ (IsPacket(packet[u]) => packet'[u] = packet[u])
    BY PacketsStay DEF OthersStay, WholeInv
  <2> QED
    BY <2>1 DEF Moving, IsPacket, Writing
<1>4. partial' # NULL => \E u \in Threads : op'[u].pc = "write_loop"
  BY DEF WholeInv, OthersStay
<1> QED
  BY <1>2, <1>3, <1>4 DEF WholeInv

\* A step of the worker that is alone in the driver's memory, and stays in the loop of
\* aesd_write or leaves nothing unfinished.
LEMMA AloneKeepsWhole ==
  ASSUME PacketInv, WholeInv, [WNext]_allvars, NEW w \in Threads, OthersStay(w), Alone(w),
         UNCHANGED packet, InPackets(Lines)', Moving(w)',
         partial' = NULL \/ op'[w].pc = "write_loop"
  PROVE  WholeInv'
<1>1. ASSUME NEW u \in Threads \ {w} PROVE Moving(u)'
  <2>1. op'[u] = op[u] /\ Moving(u) /\ op[u].pc \notin Inside
    BY DEF OthersStay, WholeInv, Alone
  <2> QED
    BY <2>1 DEF Moving, Inside, IsPacket
<1> QED
  BY <1>1 DEF WholeInv

LEMMA EntersKeepsWhole ==
  ASSUME Sane, PacketInv, WholeInv, [WNext]_allvars, NEW w \in Threads, Enters(w)
  PROVE  WholeInv'
<1>1. /\ AnyCall(w) /\ packet' = packet /\ OpShape /\ wpc \in [Threads -> WControl]
  BY WorkerCalls DEF Sane, Inv
<1>2. OthersStay(w) /\ op[w].pc = "idle"
  BY <1>1, AnyCallEffect
<1>3. UNCHANGED <<ring, partial, heap>>
  BY DEF Enters, OpenDevice, Open, SeekOrWrite, IoctlCall, IoctlFault, WriteCall, WriteFault,
         Refuse, ReadMore, ReadCall, Enter, CloseDevice, Release, device
<1>4. \/ op'[w].pc \notin Writing
      \/ op'[w].pc = "write_lock" /\ op'[w].data = packet[w] /\ IsPacket(packet[w])
  <2>1. ASSUME NEW n, ReadCall(w, n) PROVE op'[w].pc = "read_lock"
    BY <1>1, <2>1 DEF ReadCall, Enter, Returned, OpShape
  <2>2. ASSUME NEW s, IoctlCall(w, s) PROVE op'[w].pc = "ioctl_lock"
    BY <1>1, <2>2 DEF IoctlCall, Enter, Returned, OpShape
  <2>3. CASE WriteFault(w) \/ IoctlFault(w)
    <3>1. Return(w, Error)
      BY <2>3 DEF WriteFault, IoctlFault, Refuse, Enter, Return
    <3>2. op'[w].pc = "idle"
      BY <1>1, <3>1, ReturnEffect
    <3> QED
      BY <3>2 DEF Writing
  <2>4. CASE Open(w) \/ Release(w)
    <3>1. Return(w, 0)
      BY <2>4 DEF Open, Release
    <3>2. op'[w].pc = "idle"
      BY <1>1, <3>1, ReturnEffect
    <3> QED
      BY <3>2 DEF Writing
  <2>5. CASE SeekOrWrite(w) /\ WriteCall(w, packet[w])
    <3>1. wpc[w] = "io"
      BY <2>5 DEF SeekOrWrite, WMove, WGoto
    <3>2. op'[w].pc = "write_lock" /\ op'[w].data = packet[w]
      BY <1>1, <2>5 DEF WriteCall, Enter, Returned, OpShape
    <3> QED
      BY <3>1, <3>2 DEF PacketInv, HasRead
  <2>6. "read_lock" \notin Writing /\ "ioctl_lock" \notin Writing
    BY DEF Writing
  <2> QED
    BY <2>1, <2>2, <2>3, <2>4, <2>5, <2>6 DEF Enters, OpenDevice, SeekOrWrite, ReadMore, CloseDevice
<1>5. Moving(w)'
  BY <1>1, <1>4 DEF Moving, Writing, IsPacket
<1> QED
  BY <1>2, <1>3, <1>5, QuietKeepsWhole

\* What the loop of aesd_write does with the first line of the unfinished bytes.
LEMMA LineKeepsWhole ==
  ASSUME Sane, PacketInv, WholeInv, [WNext]_allvars, MutualExclusion,
         NEW w \in Threads, WriteLine(w), UNCHANGED packet
  PROVE  WholeInv'
<1>1. /\ MemInv /\ OpShape /\ loaded /\ op' = op /\ op[w].pc = "write_loop" /\ OthersStay(w)
      /\ LoopTest(w, TRUE)
  BY DEF Sane, Inv, WriteLine, LoopTest, OthersStay
<1>2. Alone(w)
  BY <1>1, AloneInside DEF Inside
<1>3. /\ partial \in Blocks /\ heap[partial] \in Seq(Byte) /\ heap[partial] # NULL
      /\ partial # NULL
  BY <1>1, PartialHasLine, NullAssumption
<1> DEFINE s    == heap[partial]
           p    == packet[w]
           n    == LineEnd(s)
           rest == SubSeq(s, n+1, Len(s))
           l    == SubSeq(s, 1, n)
<1>4. p \in Seq(Byte) /\ IsPacket(p) /\ TailOf(s, p) /\ n > 0
  <2>1. Moving(w)
    BY DEF WholeInv
  <2>2. n > 0
    BY <1>1, <1>3 DEF LoopTest, Bytes
  <2> QED
    BY <1>1, <1>3, <2>1, <2>2 DEF Moving, Writing, PacketInv
<1>5. LineOf(l, p) /\ (rest = << >> \/ TailOf(rest, p)) /\ l \in Seq(Byte)
  <2>1. s \in Seq(Byte) /\ LineOf(l, p) /\ (rest = << >> \/ TailOf(rest, p))
    <3> HIDE DEF s, p
    <3> QED
      BY <1>4, TakeLine
  <2>2. n \in 1 .. Len(s)
    BY <1>4, <2>1, LineEndInside
  <2>3. l \in Seq(Byte)
    <3> HIDE DEF n
    <3>1. \A j \in 1 .. n : s[j] \in Byte
      BY <2>1, <2>2
    <3> QED
      BY <2>2, <3>1, SubSeqProperties
  <2> QED
    BY <2>1, <2>3
\* What is written stays what it is when its owner forgets about it.
<1>6. Rest = s
  BY <1>1, <1>2, <1>3, RestOf DEF Bytes
<1>7. Lines' = IF Len(Lines) < MAX THEN Append(Lines, l) ELSE Append(Tail(Lines), l)
  BY <1>1, <1>2, <1>6, LineCompletes
<1>8. InPackets(Lines)'
  <2> HIDE DEF l, p
  <2>1. /\ Lines \in Seq(Seq(Byte)) /\ Len(Lines) <= MAX /\ MAX \in Nat \ {0}
    <3>1. Len(Lines) = Count(ring) /\ Count(ring) \in 0 .. MAX
      BY <1>1, LinesShape
    <3> QED
      BY <1>1, <3>1, LinesShape, CapacityAssumption
  <2>2. PICK d \in {0, 1} :
          /\ Lines' \in Seq(Seq(Byte)) /\ Len(Lines') = Len(Lines) + 1 - d
          /\ \A j \in 1 .. Len(Lines)-d : j+d \in 1 .. Len(Lines) /\ Lines'[j] = Lines[j+d]
          /\ Lines'[Len(Lines) + 1 - d] = l
    BY <1>5, <1>7, <2>1, RememberShifts
  <2>3. ASSUME NEW j \in 1 .. Len(Lines')
        PROVE  \E u \in Threads : IsPacket(packet[u]) /\ LineOf(Lines'[j], packet[u])
    <3>1. Len(Lines) \in Nat
      BY <2>1
    <3>2. j = Len(Lines) + 1 - d \/ j \in 1 .. Len(Lines)-d
      BY <2>2, <2>3, <3>1
    <3>3. CASE j = Len(Lines) + 1 - d
      BY <1>4, <1>5, <2>2, <3>3 DEF p
    <3>4. CASE j \in 1 .. Len(Lines)-d
      <4>1. j+d \in DOMAIN Lines /\ Lines'[j] = Lines[j+d]
        BY <2>1, <2>2, <3>4
      <4> QED
        BY <4>1 DEF WholeInv, InPackets
    <3> QED
      BY <3>2, <3>3, <3>4
  <2>4. DOMAIN Lines' = 1 .. Len(Lines')
    BY <2>2
  <2> QED
    BY <2>3, <2>4 DEF InPackets, IsPacket
<1>9. /\ partial' = IF rest = << >> THEN NULL ELSE partial
      /\ rest # << >> => heap'[partial] = rest
  <2>1. PICK a \in FreeBlocks :
          /\ heap' = [b \in Blocks |->
                        CASE b = a             -> l
                          [] b = partial       -> IF rest = << >> THEN NULL ELSE rest
                          [] b \in Evicted(ring) -> NULL
                          [] OTHER             -> heap[b]]
          /\ partial' = Remainder(rest)
    BY DEF WriteLine
  <2>2. a # partial
    BY <1>3, <2>1 DEF FreeBlocks
  \* No two of the cases overlap.
  <2>3. partial \notin Evicted(ring)
    <3>1. Evicted(ring) \subseteq EntryBlocks
      <4>1. ring.in_offs \in Slot
        BY <1>1 DEF MemInv, RingInv, Buffer
      <4> QED
        BY <4>1 DEF Evicted, EntryBlocks
    <3>2. Unfinished = {partial}
      BY <1>1, <1>2, <1>3, NobodyInstalls
    <3> QED
      BY <1>1, <3>1, <3>2 DEF MemInv, HeapExact
  <2> HIDE DEF rest, l
  <2>4. heap'[partial] = IF rest = << >> THEN NULL ELSE rest
    BY <1>3, <2>1, <2>2, <2>3
  <2> QED
    BY <2>1, <2>4 DEF Remainder
<1>10. Moving(w)'
  <2> HIDE DEF rest, s, l
  <2>1. partial' = NULL \/ TailOf(heap'[partial'], packet'[w])
    BY <1>3, <1>5, <1>9
  <2> QED
    BY <1>1, <1>4, <2>1 DEF Moving, IsPacket
<1> QED
  BY <1>1, <1>2, <1>8, <1>10, AloneKeepsWhole

\* The other steps of aesd_write.
LEMMA WriteKeepsWhole ==
  ASSUME Sane, PacketInv, WholeInv, ~Trailing, [WNext]_allvars, MutualExclusion,
         MutualExclusion', NEW w \in Threads, UNCHANGED packet, WriteStep(w) \/ WriteLock(w)
  PROVE  WholeInv'
<1>1. /\ MemInv /\ OpShape /\ loaded /\ Step(w) /\ Moving(w)
  BY DEF Sane, Inv, Step, TakeLock, WholeInv
<1>2. OthersStay(w) /\ InPackets(Lines)
  BY <1>1, StepEffect DEF WholeInv
<1>3. op[w].pc \in Inside => Alone(w)
  BY AloneInside
<1>4. packet[w] \in Seq(Byte) /\ ~Trails(packet[w])
  BY DEF PacketInv, Trailing
<1>5. ASSUME Lines' = Lines PROVE InPackets(Lines)'
  BY <1>2, <1>5 DEF InPackets, IsPacket
<1>6. CASE WriteLock(w)
  <2>1. /\ op[w].pc = "write_lock" /\ op'[w].pc = "write_combine" /\ op'[w].data = op[w].data
        /\ UNCHANGED <<ring, partial, heap>>
    BY <1>1, <1>6 DEF WriteLock, Lock, Goto, OpShape, Fields
  <2>2. partial = NULL
    <3>1. SUFFICES ASSUME partial # NULL PROVE FALSE
      OBVIOUS
    <3>2. PICK u \in Threads : op[u].pc = "write_loop"
      BY <3>1 DEF WholeInv
    <3>3. u # w /\ op'[u].pc = "write_loop"
      BY <1>2, <2>1, <3>2 DEF OthersStay
    <3> QED
      BY <2>1, <3>3 DEF MutualExclusion, Inside
  <2>3. Moving(w)'
    BY <1>1, <2>1, <2>2 DEF Moving, Writing, IsPacket
  <2> QED
    BY <1>2, <2>1, <2>3, QuietKeepsWhole
<1>7. CASE WriteNoMemory(w) \/ WriteReturn(w)
  <2>1. UNCHANGED <<ring, partial, heap>> /\ op'[w].pc = "idle"
    <3>1. PICK r : Unlock(w, r)
      BY <1>7 DEF WriteNoMemory, WriteReturn
    <3> QED
      BY <1>1, <3>1, ReturnEffect DEF Unlock
  <2>2. op[w].pc # "write_loop" \/ partial = NULL
    <3>1. CASE WriteNoMemory(w)
      BY <3>1 DEF WriteNoMemory
    <3>2. CASE WriteReturn(w)
      <4>1. SUFFICES ASSUME partial # NULL PROVE FALSE
        OBVIOUS
      <4>2. op[w].pc = "write_loop" /\ ~(LineEnd(Bytes(partial)) > 0)
        BY <3>2 DEF WriteReturn, LoopTest
      <4>3. TailOf(heap[partial], packet[w]) /\ IsPacket(packet[w])
        BY <1>1, <4>1, <4>2 DEF Moving, Writing
      <4>4. LineEnd(heap[partial]) > 0
        BY <1>4, <4>3, TailEnds
      <4>5. partial \in Blocks /\ heap[partial] # NULL
        <5>1. op[w].pc # "write_install" /\ Alone(w)
          BY <1>3, <4>2 DEF Inside
        <5>2. Unfinished = {partial} \ {NULL}
          BY <5>1, NobodyInstalls
        <5> QED
          BY <1>1, <4>1, <5>2 DEF MemInv, HeapExact
      <4> QED
        BY <4>2, <4>4, <4>5 DEF Bytes
    <3> QED
      BY <1>7, <3>1, <3>2
  <2>3. Moving(w)'
    BY <2>1 DEF Moving, Writing
  <2> QED
    BY <1>2, <2>1, <2>2, <2>3, QuietKeepsWhole
<1>8. CASE WriteCombine(w)
  <2>1. /\ op[w].pc = "write_combine" /\ partial = NULL /\ op[w].data = packet[w]
        /\ IsPacket(packet[w])
    BY <1>1, <1>8 DEF WriteCombine, Moving, Writing
  <2>2. PICK a \in FreeBlocks :
          /\ heap' = [b \in Blocks |-> CASE b = a       -> Combined(Bytes(partial), op[w].data)
                                         [] b = partial -> NULL
                                         [] OTHER       -> heap[b]]
          /\ op'   = [op EXCEPT ![w].pc = "write_install", ![w].block = a]
          /\ ring' = ring /\ partial' = partial
    BY <1>8 DEF WriteCombine
  <2>3. a \in Blocks /\ heap[a] = NULL /\ a # partial
    BY <2>1, <2>2, NullAssumption DEF FreeBlocks
  <2>4. Combined(Bytes(partial), op[w].data) = packet[w]
    <3>1. Bytes(partial) = << >>
      BY <2>1, NullAssumption DEF Bytes
    <3>2. << >> \o packet[w] = packet[w]
      BY <1>4
    <3> QED
      BY <2>1, <3>1, <3>2 DEF Combined
  <2>5. heap'[a] = packet[w] /\ \A b \in Blocks \ {a} : heap'[b] = heap[b]
    BY <2>1, <2>2, <2>3, <2>4, NullAssumption
  <2>6. Lines' = Lines
    <3>1. \A b \in EntryBlocks : b \in Blocks \ {a}
      BY <1>1, <2>3 DEF MemInv, HeapExact
    <3> QED
      BY <1>1, <2>2, <2>5, <3>1, LinesKept
  <2>7. op'[w].pc = "write_install" /\ op'[w].block = a
    BY <1>1, <2>2 DEF OpShape, Fields
  <2>8. Moving(w)'
    BY <2>1, <2>2, <2>5, <2>7 DEF Moving, IsPacket
  <2>9. Alone(w)
    BY <1>3, <2>1 DEF Inside
  <2> QED
    BY <1>2, <1>5, <2>1, <2>2, <2>6, <2>8, <2>9, AloneKeepsWhole
<1>9. CASE WriteInstall(w)
  <2>1. /\ op[w].pc = "write_install" /\ partial' = op[w].block /\ ring' = ring /\ heap' = heap
        /\ op'[w].pc = "write_loop"
    BY <1>1, <1>9 DEF WriteInstall, OpShape, Fields
  <2>2. heap[op[w].block] = packet[w] /\ IsPacket(packet[w])
    BY <1>1, <2>1 DEF Moving, Writing
  <2>3. TailOf(packet[w], packet[w])
    <3>1. packet[w] = SubSeq(packet[w], 1, Len(packet[w]))
      BY <1>4, SubSeqFull
    <3>2. Len(packet[w]) \in Nat \ {0}
      BY <1>4, <2>2 DEF IsPacket, Range
    <3>3. 0 \in 0 .. Len(packet[w])-1 /\ 0+1 = 1
      BY <3>2
    <3> QED
      BY <3>1, <3>3 DEF TailOf
  <2>4. Lines' = Lines
    BY <2>1, StreamKept
  <2>5. Moving(w)'
    BY <2>1, <2>2, <2>3 DEF Moving, IsPacket
  <2>6. Alone(w)
    BY <1>3, <2>1 DEF Inside
  <2> QED
    BY <1>2, <1>5, <2>1, <2>4, <2>5, <2>6, AloneKeepsWhole
<1>10. CASE WriteLine(w)
  BY <1>10, LineKeepsWhole
<1>11. CASE WriteLineNoMemory(w)
  <2>1. Alone(w)
    BY <1>3, <1>11 DEF WriteLineNoMemory, LoopTest, Inside
  <2>2. Lines' = Lines
    BY <1>1, <1>11, <2>1, NoMemoryLoses
  <2>3. partial' = NULL /\ op'[w].pc = "idle"
    BY <1>1, <1>11, ReturnEffect DEF WriteLineNoMemory
  <2>4. Moving(w)'
    BY <2>3 DEF Moving, Writing
  <2> QED
    BY <1>2, <1>5, <2>1, <2>2, <2>3, <2>4, AloneKeepsWhole
<1> QED
  BY <1>6, <1>7, <1>8, <1>9, <1>10, <1>11 DEF WriteStep

LEMMA DeviceKeepsWhole ==
  ASSUME Sane, PacketInv, WholeInv, ~Trailing, [WNext]_allvars, MutualExclusion,
         MutualExclusion', NEW w \in Threads, Device(w)
  PROVE  WholeInv'
<1>1. /\ Step(w) /\ UNCHANGED packet /\ MemInv /\ OpShape /\ loaded
  BY DEF Device, server, Sane, Inv
<1>2. OthersStay(w)
  BY <1>1, StepEffect
<1>3. CASE WriteStep(w) \/ WriteLock(w)
  BY <1>1, <1>3, WriteKeepsWhole
<1>4. CASE ReadLock(w) \/ IoctlLock(w) \/ ReadStep(w) \/ IoctlSeek(w)
  <2>1. UNCHANGED <<ring, partial, heap>> /\ op[w].pc # "write_loop"
    BY <1>4 DEF ReadLock, IoctlLock, Lock, ReadStep, ReadChunk, ReadFault, ReadEnd, ReadReturn,
                Finding, Unlock, IoctlSeek, device
  <2>2. op'[w].pc \notin Writing
    <3>1. CASE ReadLock(w) \/ IoctlLock(w)
      BY <1>1, <3>1 DEF ReadLock, IoctlLock, Lock, Goto, OpShape, Fields, Writing
    <3>2. CASE ReadChunk(w)
      BY <1>1, <3>2, ChunkStays DEF Writing
    <3>3. CASE ReadEnd(w)
      BY <1>1, <3>3 DEF ReadEnd, Goto, OpShape, Fields, Writing
    <3>4. CASE ReadReturn(w)
      BY <1>1, <3>4, ReturnedShape DEF ReadReturn, OpShape, Writing
    <3>5. CASE ReadFault(w) \/ IoctlSeek(w)
      <4>1. PICK r : Return(w, r)
        BY <3>5 DEF ReadFault, Unlock, IoctlSeek
      <4>2. op'[w].pc = "idle"
        BY <1>1, <4>1, ReturnEffect
      <4> QED
        BY <4>2 DEF Writing
    <3> QED
      BY <1>4, <3>1, <3>2, <3>3, <3>4, <3>5 DEF ReadStep
  <2>3. Moving(w)'
    BY <2>2 DEF Moving, Writing
  <2> QED
    BY <1>2, <2>1, <2>3, QuietKeepsWhole
<1>5. ~Oops(w)
  BY <1>1, AllSound DEF Oops
<1> QED
  BY <1>1, <1>3, <1>4, <1>5 DEF Step, TakeLock

LEMMA WholeNext ==
  ASSUME Sane, PacketInv, WholeInv, ~Trailing, [WNext]_allvars,
         \A w \in Threads : ~ReallocFails(w)
  PROVE  WholeInv'
<1>1. MutualExclusion /\ MutualExclusion'
  <2>1. Inv /\ Inv'
    BY SaneNext DEF Sane
  <2>2. MutualExclusion
    BY <2>1, InvExcludes
  <2>3. MutualExclusion'
    BY <2>1 DEF Inv, MutualExclusion, Inside, Holding
  <2> QED
    BY <2>2, <2>3
<1>2. CASE UNCHANGED vars
  <2>1. /\ UNCHANGED <<ring, partial, heap, op>> /\ Lines' = Lines
    BY <1>2, StreamKept DEF vars
  <2>2. ASSUME NEW w \in Threads PROVE Moving(w)'
    <3>1. Moving(w) /\ (IsPacket(packet[w]) => packet'[w] = packet[w])
      BY PacketsStay DEF WholeInv
    <3> QED
      BY <2>1, <3>1 DEF Moving, IsPacket, Writing
  <2>3. InPackets(Lines)'
    <3>1. PICK ls : ls = Lines
      OBVIOUS
    <3>2. InPackets(ls)'
      BY <3>1, InPacketsKept DEF WholeInv
    <3> QED
      BY <2>1, <3>1, <3>2 DEF InPackets
  <2> QED
    BY <2>1, <2>2, <2>3 DEF WholeInv
<1>3. ASSUME NEW w \in Threads, Enters(w) PROVE WholeInv'
  BY <1>3, EntersKeepsWhole
<1>4. ASSUME NEW w \in Threads, Device(w) PROVE WholeInv'
  BY <1>1, <1>4, DeviceKeepsWhole
<1> QED
  BY <1>2, <1>3, <1>4, DriverSteps

\* As long as realloc does not fail: parts of the lines of several clients, received in any
\* order by data_processing and written by aesd_write, are never put together, for any
\* number of clients, any packets and any other failure, until somebody sends something
\* after a newline and ends there.
THEOREM LinesStayWhole ==
  ASSUME "realloc" \notin Faults
  PROVE  WSpec => []WholeLines
<1> DEFINE IInv == Sane /\ PacketInv /\ (Trailing \/ WholeInv)
<1>1. WInit => IInv
  <2> SUFFICES ASSUME WInit PROVE IInv
    OBVIOUS
  <2>1. Sane
    BY SaneInit DEF SaneUntilGone, WInit, AnyGone
  <2>2. PacketInv
    BY PacketInvInit
  <2>3. /\ \A w \in Threads : op[w].pc = "idle"
        /\ partial = NULL /\ ring = EmptyBuffer
    BY InitShape DEF WInit, Init
  <2>4. InPackets(Lines)
    <3>1. Lines = << >>
      BY <2>3, EmptyLog
    <3> QED
      BY <3>1 DEF InPackets
  <2>5. WholeInv
    BY <2>3, <2>4 DEF WholeInv, Moving, Writing
  <2> QED
    BY <2>1, <2>2, <2>5
<1>2. IInv /\ [WNext]_allvars => IInv'
  <2> SUFFICES ASSUME IInv, [WNext]_allvars PROVE IInv'
    OBVIOUS
  <2>1. \A w \in Threads : ~ReallocFails(w)
    BY DEF ReallocFails
  <2>2. Sane' /\ PacketInv'
    BY <2>1, SaneNext, PacketInvNext
  <2>3. CASE Trailing
    <3>1. PICK w \in Threads : Trails(packet[w])
      BY <2>3 DEF Trailing
    <3>2. IsPacket(packet[w])
      BY <3>1 DEF Trails, IsPacket
    <3>3. Trails(packet[w])'
      BY <3>1, <3>2, PacketsStay DEF Trails
    <3> QED
      BY <2>2, <3>3 DEF Trailing
  <2>4. CASE ~Trailing
    BY <2>1, <2>2, <2>4, WholeNext
  <2> QED
    BY <2>3, <2>4
<1>3. IInv => WholeLines
  BY DEF WholeLines, WholeInv, InPackets, Trailing
<1> QED
  <2> HIDE DEF IInv
  <2> QED
    BY <1>1, <1>2, <1>3, PTL DEF WSpec
=============================================================================
