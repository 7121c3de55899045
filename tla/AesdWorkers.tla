------------------------------ MODULE AesdWorkers ------------------------------
(***************************************************************************)
(* The threads of the socket server (data_processing in server/socket.c)   *)
(* on the character device they all use.  Each worker serves one           *)
(* connection: it collects what its client sends until there is a newline, *)
(* writes that to the device or seeks in it, sends the device's content    *)
(* back and ends.                                                          *)
(*                                                                         *)
(* The device is module AesdDriver; its callers are the workers and nobody *)
(* else (another process may open the device too: its node has mode 666,   *)
(* and then what module AesdDriver allows any callers to do can happen).   *)
(* file_mutex is a default pthread mutex, which any thread can unlock.     *)
(***************************************************************************)
EXTENDS DriverProperties

CONSTANTS Chunks,    \* what one recv(2) may return; << >> once the client hung up
          Command,   \* the texts AESDCHAR_IOCSEEKTO:x,y, each as one byte: to <<x, y>>
          ReadSize,  \* BUFFER_SIZE - 1
          Garbage,   \* what an uninitialised bool may hold
          MaxPacket  \* bound: the longest packet a client sends

ASSUME WorkerAssumption == /\ ReadSize \in Counts \ {0}
                           /\ \A c \in DOMAIN Command : Command[c] \in Nat \X Nat
                           /\ \A c \in Chunks : c \in Seq(Byte)
                           /\ Garbage \subseteq BOOLEAN
                           /\ {"open", "release", "read", "write", "ioctl"} \subseteq Calls

VARIABLES file_mutex,     \* its owner, or NULL
          wpc,            \* where each worker is in data_processing
          packet,         \* packet->data
          end_of_packet,  \* packet->end_of_packet, which nobody initialises
          reply,          \* what the client has been sent
          exit_requested  \* set by the signal handler

server  == <<file_mutex, wpc, packet, end_of_packet, reply, exit_requested>>
allvars == <<vars, server>>

WControl == {"new", "loop", "recv", "lock_io", "io", "in_io", "lock_stream",
             "stream", "reading", "close", "done", "gone"}

WInit ==
  /\ Init
  /\ file_mutex     = NULL
  /\ wpc            = [w \in Threads |-> "new"]
  /\ packet         = [w \in Threads |-> << >>]
  /\ end_of_packet \in [Threads -> Garbage]
  /\ reply          = [w \in Threads |-> << >>]
  /\ exit_requested = FALSE

WGoto(w, from, to) == wpc[w] = from /\ wpc' = [wpc EXCEPT ![w] = to]

\* A step of a worker that changes its place, and the device perhaps; one that
\* changes its place and file_mutex.
WMove(w, from, to) ==
  WGoto(w, from, to) /\ UNCHANGED <<file_mutex, packet, end_of_packet, reply, exit_requested>>
SetMutex(w, from, to, owner) ==
  /\ WGoto(w, from, to) /\ file_mutex' = owner
  /\ UNCHANGED <<vars, packet, end_of_packet, reply, exit_requested>>

\* A line has been received; it is a seek command the server understands.  A
\* fault: whatever has been received is taken for a line.
IsAnything(p) == p # << >>

IsPacket(p)  == Newline \in Range(p)
IsSeek(p)    == p # << >> /\ Head(p) \in DOMAIN Command /\ Command[Head(p)][1] < MAX

-----------------------------------------------------------------------------
OpenDevice(w) == WMove(w, "new", "loop") /\ Open(w)

\* The test of the receive loop.
Continue(w) == WMove(w, "loop", IF exit_requested THEN "close" ELSE "recv") /\ UNCHANGED vars

\* packet->data after recv.
Received(old, chunk) == old \o chunk

\* end_of_packet after recv; a fault: any data sets it.
FlagAlways(flag, data) == TRUE

Flag(flag, data) == flag \/ IsPacket(data)

\* recv and what follows it up to the next lock: the flag is set with the first
\* newline and tested whether or not there is one.
Recv(w, chunk) ==
  LET data == Received(packet[w], chunk)
  IN  /\ Len(data) <= MaxPacket
      /\ packet' = [packet EXCEPT ![w] = data]
      /\ end_of_packet' = [end_of_packet EXCEPT ![w] = Flag(@, data)]
      /\ WGoto(w, "recv", CASE IsPacket(data)   -> "lock_io"
                            [] end_of_packet[w] /\ ~IsPacket(data) -> "lock_stream"
                            [] OTHER            -> "loop")
      /\ UNCHANGED <<vars, file_mutex, reply, exit_requested>>

RecvError(w) == "recv" \in Faults /\ WMove(w, "recv", "close") /\ UNCHANGED vars

\* realloc fails: the mutex is unlocked although it was not locked, and the
\* thread ends with its files open.
ReallocFails(w) == "realloc" \in Faults /\ SetMutex(w, "recv", "gone", NULL)

-----------------------------------------------------------------------------
\* A fault: the mutex is not waited for.
SeizeMutex(w, from, to) == SetMutex(w, from, to, w)

LockMutex(w, from, to)   == file_mutex = NULL   /\ SetMutex(w, from, to, w)
UnlockMutex(w, from, to) == op[w].pc = "idle" /\ SetMutex(w, from, to, NULL)

LockIO(w)     == LockMutex(w, "lock_io", "io")
LockStream(w) == LockMutex(w, "lock_stream", "stream")

\* The first critical section: one ioctl or one write.  Its failure is only
\* logged.
SeekOrWrite(w) ==
  /\ WMove(w, "io", "in_io")
  /\ IF IsSeek(packet[w])
     THEN IoctlCall(w, Command[Head(packet[w])]) \/ IoctlFault(w)
     ELSE WriteCall(w, packet[w]) \/ WriteFault(w)

UnlockIO(w) == UnlockMutex(w, "in_io", "lock_stream")

\* The second: stream_file_reader, from where the file is, until a read returns
\* nothing or fails.
ReadMore(w) == WMove(w, "stream", "reading") /\ ReadCall(w, ReadSize)

\* send(2) takes as long as the client does to make room.  If it fails, that only
\* ends the sending of this buffer.
Send(w) ==
  /\ op[w].pc = "idle" /\ op[w].ret > 0
  /\ WGoto(w, "reading", "stream")
  /\ \/ reply' = [reply EXCEPT ![w] = @ \o op[w].data]
     \/ "send" \in Faults /\ UNCHANGED reply
  /\ UNCHANGED <<vars, file_mutex, packet, end_of_packet, exit_requested>>

\* A fault: the mutex stays locked when a read fails.
UnlockStreamAtEnd(w) == op[w].ret = 0 /\ UnlockMutex(w, "reading", "close")

UnlockStream(w) == op[w].ret <= 0 /\ UnlockMutex(w, "reading", "close")

CloseDevice(w) == WMove(w, "close", "done") /\ Release(w)

-----------------------------------------------------------------------------
\* SIGINT or SIGTERM.
Signal ==
  /\ ~exit_requested
  /\ exit_requested' = TRUE
  /\ UNCHANGED <<vars, file_mutex, wpc, packet, end_of_packet, reply>>

Receive(w) == (\E c \in Chunks : Recv(w, c)) \/ RecvError(w) \/ ReallocFails(w)

\* What a worker does without its client: it neither receives nor sends.
Serve(w) == \/ OpenDevice(w) \/ Continue(w)
            \/ SeekOrWrite(w) \/ UnlockIO(w)
            \/ ReadMore(w) \/ UnlockStream(w)
            \/ CloseDevice(w)
Acquire(w) == LockIO(w) \/ LockStream(w)

\* A worker inside a system call.
Device(w) == Step(w) /\ UNCHANGED server

AllDone == /\ \A w \in Threads : wpc[w] \in {"done", "gone"}
           /\ UNCHANGED allvars

WNext == \/ ~oops /\ (\E w \in Threads : \/ Receive(w) \/ Send(w)
                                          \/ Serve(w) \/ Acquire(w) \/ Device(w))
         \/ ~oops /\ Signal
         \/ AllDone

\* Threads that can run do; both mutexes let every waiter in sooner or later.  A
\* client need neither send anything nor read what it is sent: send(2) then blocks,
\* with file_mutex locked.
WFairness ==
  \A w \in Threads : /\ WF_allvars(~oops /\ (Serve(w) \/ Device(w)))
                     /\ SF_allvars(~oops /\ Acquire(w))
                     /\ SF_allvars(~oops /\ TakeLock(w) /\ UNCHANGED server)

\* Clients that read what they are sent.
ClientsRead == \A w \in Threads : WF_allvars(~oops /\ Send(w))

WSpec        == WInit /\ [][WNext]_allvars /\ WFairness
WSpecReading == WSpec /\ ClientsRead
=============================================================================
