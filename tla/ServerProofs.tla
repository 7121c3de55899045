------------------------------ MODULE ServerProofs ------------------------------
(***************************************************************************)
(* What is proved about the server process, for any number of connections  *)
(* and descriptors.                                                        *)
(*                                                                         *)
(* Types.  Each step keeps them, given that main has accepted a connection *)
(* before it makes a node for it (ListInv).                                *)
(*                                                                         *)
(* The mutex.  thread_list has a node for every thread that may still run, *)
(* because main inserts a node for each thread and removes only those whose *)
(* thread it has joined; and the list is empty when the mutex goes.        *)
(*                                                                         *)
(* Own files.  A number that is handed out stands for no file before, and  *)
(* a number that is closed stands for a file of whoever closes it, or is   *)
(* that of the listener.  No client's socket ever has that number, because *)
(* connections are accepted while the listener is open; and a device has   *)
(* it only after a signal has closed the listener.                         *)
(*                                                                         *)
(* Closed connections.  A file is known by one number only, the one its    *)
(* owner remembers; so whoever closes that number has closed the file, and *)
(* with two numbers for each connection and one for the listener there is  *)
(* always one left for a thread that opens its device.                     *)
(*                                                                         *)
(* The shutdown.  After a signal main and the threads only move forward,   *)
(* on ways that have an end.                                               *)
(***************************************************************************)
EXTENDS ServerProperties, WellFoundedInduction, FiniteSetTheorems, TLAPS

LEMMA Apart ==
  \A v, w \in Connections : /\ Client(v) # Device(w)
                            /\ Client(v) # Closed /\ Client(v) # Listener
                            /\ Device(v) # Closed /\ Device(v) # Listener
                            /\ v # w => Client(v) # Client(w) /\ Device(v) # Device(w)
BY DEF Client, Device, Closed, Listener

\* The numbers that are free have a least one.
LEMMA NewFdFree == FreeFds # {} => NewFd \in FreeFds
<1> SUFFICES ASSUME FreeFds # {} PROVE NewFd \in FreeFds
  OBVIOUS
<1> DEFINE less == {p \in Nat \X Nat : p[1] < p[2]}
<1>1. FreeFds \subseteq Nat
  BY FdAssumption DEF FreeFds
<1>2. IsWellFoundedOn(less, Nat)
  BY NatLessThanWellFounded DEF OpToRel
<1>3. PICK n \in FreeFds : \A m \in FreeFds : <<m, n>> \notin less
  BY <1>1, <1>2, WFMin
<1>4. ASSUME NEW m \in FreeFds PROVE n <= m
  <2>1. m \in Nat /\ n \in Nat /\ <<m, n>> \notin less
    BY <1>1, <1>3
  <2>2. ~(m < n)
    BY <2>1
  <2> QED
    BY <2>1, <2>2
<1> QED
  BY <1>4 DEF NewFd

-----------------------------------------------------------------------------
(* The mutex.                                                              *)

Listed(w) == \E i \in 1 .. Len(thread_list) : thread_list[i] = w

ListInv ==
  /\ thread_list \in Seq(Connections)
  /\ wpc = [w \in Connections |-> wpc[w]]
  /\ mpc = "create" => current \in Connections
  /\ mpc \in {"setup", "listen"} => thread_list = << >>
  /\ \A w \in Connections : wpc[w] \in Started \ {"ended"} => Listed(w)
  /\ mutex = "destroyed" => ~Running
  /\ ~Running /\ mpc # "crashed" => thread_list = << >>
  /\ mpc = "crashed" => mutex # "destroyed"

LEMMA ListInit == Init => ListInv
BY DEF Init, ListInv, Started, Running

\* A step that moves one thread that is listed, or to a place before or after
\* its life, and leaves main alone.
LEMMA ListThread ==
  ASSUME ListInv, Running, NEW w \in Connections, NEW from, NEW to,
         WGoto(w, from, to), UNCHANGED main,
         mutex' # "destroyed",
         from \in Started \ {"ended"} \/ to \notin Started \ {"ended"}
  PROVE  ListInv'
BY DEF ListInv, WGoto, main, signalled, accepting, Listed, Running, Started

\* A step of main, or of nobody, that keeps threads and list.
LEMMA ListMain ==
  ASSUME ListInv, Running, Running', mpc' = "create" => current' \in Connections,
         mpc' \in {"setup", "listen"} => mpc \in {"setup", "listen"},
         UNCHANGED <<mutex, wpc, thread_list>>
  PROVE  ListInv'
BY DEF ListInv, Listed, Running, Started

LEMMA NodeAdded ==
  ASSUME ListInv, Running, mpc = "create", mpc' = "while",
         NEW to, WGoto(current, "accepted", to),
         thread_list' = <<current>> \o thread_list, UNCHANGED mutex
  PROVE  ListInv'
<1> DEFINE new == <<current>> \o thread_list
<1>1. /\ current \in Connections
      /\ thread_list \in Seq(Connections)
  BY DEF ListInv
<1>2. /\ new \in Seq(Connections)
      /\ Len(new) = Len(thread_list) + 1
      /\ new[1] = current
      /\ \A i \in 1 .. Len(thread_list) : new[i+1] = thread_list[i]
  BY <1>1
<1> HIDE DEF new
<1>3. ASSUME NEW w \in Connections, w = current PROVE Listed(w)'
  BY <1>1, <1>2, <1>3 DEF Listed, new
<1>4. ASSUME NEW w \in Connections, Listed(w) PROVE Listed(w)'
  BY <1>1, <1>2, <1>4 DEF Listed, new
<1>5. thread_list' \in Seq(Connections)
  BY <1>2 DEF new
<1>6. ASSUME NEW w \in Connections, wpc'[w] \in Started \ {"ended"} PROVE Listed(w)'
  <2>1. CASE w = current
    BY <1>3, <2>1
  <2>2. CASE w # current
    <3>1. wpc'[w] = wpc[w]
      BY <1>1, <2>2 DEF ListInv, WGoto
    <3> QED
      BY <1>4, <1>6, <3>1 DEF ListInv
  <2> QED
    BY <2>1, <2>2
<1>7. wpc' = [w \in Connections |-> wpc'[w]]
  BY DEF ListInv, WGoto
<1> QED
  BY <1>5, <1>6, <1>7 DEF ListInv, Running

\* The first node goes, and its thread is not running.
LEMMA NodeRemoved ==
  ASSUME ListInv, mpc = "join", mpc' \in {"join", "crashed"},
         thread_list # << >>, thread_list' = Tail(thread_list),
         wpc[Head(thread_list)] \notin Started \ {"ended"},
         UNCHANGED <<wpc, mutex>>
  PROVE  ListInv'
<1>1. /\ thread_list \in Seq(Connections)
      /\ mutex # "destroyed"
  BY DEF ListInv, Running
<1>2. /\ Tail(thread_list) \in Seq(Connections)
      /\ Len(Tail(thread_list)) = Len(thread_list) - 1
      /\ \A i \in 2 .. Len(thread_list) : Tail(thread_list)[i-1] = thread_list[i]
      /\ Head(thread_list) = thread_list[1]
  BY <1>1
<1>3. ASSUME NEW w \in Connections, wpc[w] \in Started \ {"ended"} PROVE Listed(w)'
  <2>1. PICK i \in 1 .. Len(thread_list) : thread_list[i] = w
    BY <1>3 DEF ListInv, Listed
  <2>2. i # 1
    BY <1>2, <1>3, <2>1
  <2> QED
    BY <1>1, <1>2, <2>1, <2>2 DEF Listed
<1> QED
  BY <1>1, <1>2, <1>3 DEF ListInv, Running

LEMMA ListNext == ListInv /\ [Next]_vars => ListInv'
<1> SUFFICES ASSUME ListInv, [Next]_vars PROVE ListInv'
  OBVIOUS
<1>1. CASE UNCHANGED vars
  BY <1>1 DEF ListInv, Listed, Running, vars, main, signalled, accepting, threads
<1>2. ASSUME NEW w \in Connections, Thread(w) \/ Stream(w), Running PROVE ListInv'
  <2>1. mutex # "destroyed" /\ w # "destroyed"
    BY <1>2, ConnectionAssumption DEF ListInv
  <2>2. CASE OpenDevice(w)
    BY <1>2, <2>1, <2>2, ListThread DEF OpenDevice, Started
  <2>3. CASE OpenFails(w)
    BY <1>2, <2>1, <2>3, ListThread DEF OpenFails, WStep, Started
  <2>4. CASE TestLoop(w)
    BY <1>2, <2>1, <2>4, ListThread DEF TestLoop, WStep, Started
  <2>5. CASE RecvLine(w) \/ RecvPart(w) \/ RecvFails(w) \/ RecvNoMemory(w)
    BY <1>2, <2>1, <2>5, ListThread DEF RecvLine, RecvPart, RecvFails, RecvNoMemory, WStep, Started
  <2>6. CASE Lock(w)
    BY <1>2, <2>1, <2>6, ListThread DEF Lock, Started
  <2>7. CASE Write(w) \/ Stream(w)
    BY <1>2, <2>1, <2>7, ListThread DEF Write, Stream, Unlock, Started
  <2>8. CASE Close(w)
    BY <1>2, <2>1, <2>8, ListThread DEF Close, End, Started
  <2> QED
    BY <1>2, <2>2, <2>3, <2>4, <2>5, <2>6, <2>7, <2>8 DEF Thread
<1>3. ASSUME Clients, Running PROVE ListInv'
  <2>1. PICK w \in Connections : Connect(w) \/ SendLine(w) \/ SendPart(w) \/ HangUp(w)
    BY <1>3 DEF Clients
  <2>2. mutex # "destroyed"
    BY <1>3 DEF ListInv
  <2>3. CASE Connect(w)
    BY <1>3, <2>2, <2>3, ListThread DEF Connect, WStep, Started
  <2>4. CASE SendLine(w) \/ SendPart(w) \/ HangUp(w)
    BY <1>3, <2>4, ListMain DEF SendLine, SendPart, HangUp, Say, main, signalled, accepting, threads,
           ListInv, Running
  <2> QED
    BY <2>1, <2>3, <2>4
<1>4. CASE Running /\ Signal
  BY <1>4, ListMain DEF Signal, accepting, threads, ListInv, Running
<1>5. ASSUME Main, Running PROVE ListInv'
  <2>0. CASE StartFails
    BY <1>5, <2>0 DEF StartFails, MStep, MGoto, accepting, threads, ListInv, Listed, Running, Started
  <2>1. CASE CreateSocket \/ SetupFails \/ Listen
    BY <1>5, <2>1, ListMain
       DEF CreateSocket, SetupFails, Listen, MClose, MGoto, accepting, threads, Running
  <2>2. CASE TestExit \/ AcceptFails \/ CloseListener \/ CloseMain
    BY <1>5, <2>2, ListMain
       DEF TestExit, AcceptFails, CloseListener, CloseMain, MStep, MClose, MGoto,
           accepting, threads, Running
  <2>3. ASSUME NEW w \in Connections, Accept(w) PROVE ListInv'
    BY <1>5, <2>3 DEF Accept, Accepted, MGoto, WGoto, ListInv, Listed, Started, Running
  <2>4. CASE CreateThread \/ CreateFails
    BY <1>5, <2>4, NodeAdded DEF CreateThread, CreateFails, NewNode, MGoto
  <2>5. CASE CreateNoMemory
    BY <1>5, <2>5 DEF CreateNoMemory, accepting, MGoto, WGoto, ListInv, Listed, Started, Running
  <2>6. CASE Join
    BY <2>6, NodeRemoved DEF Join, RemoveHead, threads
  <2>7. CASE JoinNobody
    <3>1. CASE RemoveHead
      BY <2>7, <3>1, NodeRemoved DEF JoinNobody, RemoveHead, threads, Started
    <3>2. CASE MStep("join", "crashed")
      BY <1>5, <2>7, <3>2 DEF MStep, MGoto, accepting, threads, ListInv, Listed, Running
    <3> QED
      BY <2>7, <3>1, <3>2 DEF JoinNobody
  <2>8. CASE Destroy
    BY <1>5, <2>8 DEF Destroy, accepting, MGoto, ListInv, Listed, Running
  <2> QED
    BY <1>5, <2>0, <2>1, <2>2, <2>3, <2>4, <2>5, <2>6, <2>7, <2>8 DEF Main
<1> QED
  BY <1>1, <1>2, <1>3, <1>4, <1>5 DEF Next

\* main (server/aesdsocket.c) calls pthread_mutex_destroy only when every thread
\* it has started has ended.
THEOREM MutexOutlives == Spec => []MutexOutlivesThreads
<1>1. ListInv => MutexOutlivesThreads
  BY DEF ListInv, MutexOutlivesThreads, Listed, Running
<1> QED
  BY <1>1, ListInit, ListNext, PTL DEF Spec

-----------------------------------------------------------------------------
(* Own files.                                                              *)

\* The places where a connection has a socket of its own, and a device.
HasSocket == (Started \ {"ended"}) \cup {"accepted"}
HasDevice == Started \ {"open", "ended"}
Begun     == Started \cup {"accepted"}

Own(w) ==
  /\ wpc[w] \in HasSocket =>
       sock[w] \in Fds /\ fds[sock[w]] = Client(w) /\ sock[w] # listen_fd
  /\ wpc[w] \in HasDevice =>
       dev[w] \in Fds /\ (fds[dev[w]] = Device(w) \/ (exit_requested /\ dev[w] = listen_fd))

Functional ==
  /\ wpc  = [w \in Connections |-> wpc[w]]
  /\ sock = [w \in Connections |-> sock[w]]
  /\ dev  = [w \in Connections |-> dev[w]]
  /\ fds  = [n \in Fds |-> fds[n]]

\* When no connection has been accepted: before main listens, and, without a signal,
\* when it never will.  When the listener is open: without a signal, from then on.
Early   == mpc \in {"setup", "listen"} \/ (~exit_requested /\ ~InLoop)
Waiting == ~exit_requested /\ (mpc = "listen" \/ InLoop)

FilesInv ==
  /\ Functional
  /\ mpc = "create" => current \in Connections
  /\ ~exit_requested => mpc # "close_listener"
  /\ Early => \A w \in Connections : wpc[w] \notin Begun
  /\ Waiting => listen_fd \in Fds /\ fds[listen_fd] = Listener
  /\ global_fd \in {None, listen_fd} /\ (mpc = "setup" => global_fd = None)
  /\ \A w \in Connections : Own(w)

\* A step that opens and closes nothing, and hands nothing over.
LEMMA FilesKept ==
  ASSUME FilesInv, Functional', mpc' = "create" => current' \in Connections,
         UNCHANGED <<fds, listen_fd, exit_requested>>, global_fd' \in {None, listen_fd},
         mpc' = "setup" => global_fd' = None,
         ~exit_requested => mpc' # "close_listener",
         Waiting' => Waiting,
         Early' => \A w \in Connections : wpc'[w] \notin Begun,
         \A w \in Connections :
           /\ wpc'[w] \in HasSocket => wpc[w] \in HasSocket /\ sock'[w] = sock[w]
           /\ wpc'[w] \in HasDevice => wpc[w] \in HasDevice /\ dev'[w] = dev[w]
  PROVE  FilesInv'
<1>1. \A w \in Connections : Client(w)' = Client(w) /\ Device(w)' = Device(w)
  BY DEF Client, Device
<1>2. ASSUME NEW w \in Connections PROVE Own(w)'
  BY <1>1 DEF FilesInv, Own
<1>3. Waiting' => listen_fd' \in Fds /\ fds'[listen_fd'] = Listener'
  BY DEF FilesInv, Listener
<1> QED
  BY <1>2, <1>3 DEF FilesInv, None

\* A step of one thread, or client, that opens and closes nothing.
LEMMA ThreadMoves ==
  ASSUME FilesInv, NEW w \in Connections, NEW from, NEW to, WGoto(w, from, to),
         UNCHANGED <<main, dev, files>>,
         to \in HasSocket => from \in HasSocket,
         to \in HasDevice => from \in HasDevice,
         to \in Begun => from \in Begun
  PROVE  FilesInv'
<1>1. Functional'
  BY DEF FilesInv, Functional, WGoto, files
<1>2. ASSUME NEW v \in Connections
      PROVE  /\ wpc'[v] \in HasSocket => wpc[v] \in HasSocket
             /\ wpc'[v] \in HasDevice => wpc[v] \in HasDevice
             /\ wpc'[v] \in Begun => wpc[v] \in Begun
  BY DEF FilesInv, Functional, WGoto
<1>3. UNCHANGED <<mpc, exit_requested, global_fd, listen_fd, current, fds, sock, dev>>
  BY DEF main, signalled, accepting, files
<1>4. (Early' => Early) /\ (Waiting' => Waiting)
  BY <1>3 DEF Early, Waiting, InLoop
<1> QED
  BY <1>1, <1>2, <1>3, <1>4, FilesKept DEF FilesInv

\* A step of main that opens and closes nothing.
LEMMA MainMoves ==
  ASSUME FilesInv, UNCHANGED <<wpc, dev, sock, fds, exit_requested, listen_fd>>,
         mpc' = "create" => current' \in Connections, global_fd' \in {None, listen_fd},
         mpc' = "setup" => global_fd' = None,
         ~exit_requested => mpc' # "close_listener",
         InLoop \/ mpc = "close_listener" => InLoop' \/ exit_requested,
         mpc' = "listen" \/ InLoop' => mpc = "listen" \/ InLoop,
         mpc' \in {"setup", "listen"} => mpc \in {"setup", "listen"}
  PROVE  FilesInv'
<1>1. Functional'
  BY DEF FilesInv, Functional
<1>2. (Early' => Early) /\ (Waiting' => Waiting)
  BY DEF FilesInv, Early, Waiting, InLoop
<1> QED
  BY <1>1, <1>2, FilesKept DEF FilesInv

\* Closing the number of the listener: no client's socket has it.
LEMMA ListenerCloses ==
  ASSUME FilesInv, NEW n \in {None, listen_fd}, fds' = Without({n}),
         UNCHANGED <<wpc, dev, sock, listen_fd>>, exit_requested \/ Early \/ exit_requested',
         exit_requested => exit_requested', global_fd' \in {None, listen_fd},
         mpc' = "setup" => global_fd' = None,
         mpc' = "create" => mpc = "create" /\ UNCHANGED current,
         ~exit_requested' => mpc' # "close_listener",
         Early' => Early, ~Waiting'
  PROVE  FilesInv'
<1>1. \A w \in Connections : Client(w)' = Client(w) /\ Device(w)' = Device(w)
  BY DEF Client, Device
<1>2. None \notin Fds
  BY FdAssumption DEF None
<1>3. Functional'
  BY DEF FilesInv, Functional, Without
<1>4. ASSUME NEW w \in Connections PROVE Own(w)'
  <2>1. wpc[w] \in HasSocket => sock[w] \in Fds /\ fds'[sock[w]] = Client(w)
    BY <1>2 DEF FilesInv, Own, Without
  <2>2. wpc[w] \in HasDevice => exit_requested'
    BY DEF FilesInv, HasDevice, Begun
  <2>3. ASSUME wpc[w] \in HasDevice, dev[w] # listen_fd
        PROVE  dev[w] \in Fds /\ fds'[dev[w]] = Device(w)
    BY <1>2, <2>3 DEF FilesInv, Own, Without
  <2>4. wpc[w] \in HasDevice => dev[w] \in Fds
    BY DEF FilesInv, Own
  <2> QED
    BY <1>1, <2>1, <2>2, <2>3, <2>4 DEF FilesInv, Own
<1> QED
  BY <1>3, <1>4 DEF FilesInv, None

\* A free number goes to a new file.
LEMMA OthersKeepFiles ==
  ASSUME FilesInv, NEW n \in Fds, fds[n] = Closed, NEW file,
         fds' = [fds EXCEPT ![n] = file], UNCHANGED <<exit_requested, listen_fd>>,
         NEW v \in Connections, UNCHANGED <<wpc[v], sock[v], dev[v]>>
  PROVE  Own(v)'
<1>1. Client(v)' = Client(v) /\ Device(v)' = Device(v)
  BY DEF Client, Device
<1>2. \A k \in Fds \ {n} : fds'[k] = fds[k]
  BY DEF FilesInv, Functional
<1> QED
  BY <1>1, <1>2, Apart DEF FilesInv, Own

-----------------------------------------------------------------------------
LEMMA FilesInit == Init => FilesInv
BY DEF Init, FilesInv, Functional, Own, Early, Waiting, InLoop, HasSocket, HasDevice, Begun,
       Started

\* A thread closes what is its own.
LEMMA FilesClosed ==
  ASSUME FilesInv, NEW w \in Connections, NEW S, NEW from, NEW to, WGoto(w, from, to),
         fds' = Without(S), UNCHANGED <<signalled, listen_fd, sock, dev>>,
         from \in HasSocket, S = {sock[w]} \/ (S = {sock[w], dev[w]} /\ from \in HasDevice),
         to \notin HasSocket \cup HasDevice, mpc' = "create" => mpc = "create" /\ UNCHANGED current,
         (to \in Begun => from \in Begun), mpc' = "setup" => mpc = "setup", Early' => Early, Waiting' => Waiting,
         ~exit_requested => mpc' # "close_listener"
  PROVE  FilesInv'
<1>0. UNCHANGED <<exit_requested, global_fd>>
  BY DEF signalled
<1>1. \A v \in Connections : Client(v)' = Client(v) /\ Device(v)' = Device(v)
  BY DEF Client, Device
<1>2. \A v \in Connections : wpc'[v] = IF v = w THEN to ELSE wpc[v]
  BY DEF WGoto, FilesInv, Functional
<1>3. Functional'
  BY DEF FilesInv, Functional, WGoto, Without
<1>4. Own(w) /\ wpc[w] = from
  BY DEF FilesInv, WGoto
<1>5. ASSUME NEW v \in Connections \ {w} PROVE Own(v)'
  <2>1. Own(v) /\ wpc'[v] = wpc[v]
    BY <1>2 DEF FilesInv
  <2>2. wpc[v] \in HasSocket => sock[v] \notin S
    BY <1>4, <2>1, Apart DEF Own
  <2>3. wpc[v] \in HasDevice => dev[v] \notin S \/ (exit_requested /\ dev[v] = listen_fd)
    BY <1>4, <2>1, Apart DEF Own
  <2> QED
    BY <1>0, <1>1, <2>1, <2>2, <2>3 DEF Own, Without
<1>6. Own(w)'
  BY <1>2 DEF Own
<1>7. Waiting' => listen_fd' \in Fds /\ fds'[listen_fd'] = Listener'
  <2> SUFFICES ASSUME Waiting' PROVE listen_fd \in Fds /\ fds'[listen_fd] = Listener
    BY DEF Listener
  <2>1. listen_fd \in Fds /\ fds[listen_fd] = Listener /\ ~exit_requested
    BY DEF FilesInv, Waiting
  <2>2. listen_fd \notin S
    BY <1>4, <2>1, Apart DEF Own
  <2> QED
    BY <2>1, <2>2 DEF Without
<1>8. \A v \in Connections : wpc'[v] \in Begun => wpc[v] \in Begun
  BY <1>2, <1>4
<1> QED
  BY <1>0, <1>3, <1>5, <1>6, <1>7, <1>8 DEF FilesInv, None

LEMMA FilesOfThread ==
  ASSUME FilesInv, NEW w \in Connections, Thread(w) \/ Stream(w)
  PROVE  FilesInv'
<1> USE DEF HasSocket, HasDevice, Begun, Started
<1>1. CASE OpenDevice(w)
  <2>1. NewFd \in Fds /\ fds[NewFd] = Closed
    BY <1>1, NewFdFree DEF OpenDevice, FreeFds
  <2>2. /\ fds' = [fds EXCEPT ![NewFd] = Device(w)] /\ dev' = [dev EXCEPT ![w] = NewFd]
        /\ wpc[w] = "open" /\ wpc' = [wpc EXCEPT ![w] = "test"] /\ UNCHANGED sock
        /\ UNCHANGED <<mpc, exit_requested, global_fd, listen_fd, current>>
    BY <1>1 DEF OpenDevice, WGoto, main, signalled, accepting
  <2> HIDE DEF HasSocket, HasDevice, Begun, Started
  <2>3. ASSUME NEW v \in Connections \ {w} PROVE Own(v)'
    <3>1. UNCHANGED <<wpc[v], sock[v], dev[v]>>
      BY <2>2 DEF FilesInv, Functional
    <3> QED
      BY <2>1, <2>2, <3>1, OthersKeepFiles
  <2>4. Own(w)'
    <3>1. Client(w)' = Client(w) /\ Device(w)' = Device(w)
      BY DEF Client, Device
    <3>2. /\ wpc'[w] = "test" /\ dev'[w] = NewFd /\ fds'[NewFd] = Device(w)
          /\ \A k \in Fds \ {NewFd} : fds'[k] = fds[k]
      BY <2>1, <2>2 DEF FilesInv, Functional
    <3>3. sock[w] \in Fds /\ fds[sock[w]] = Client(w) /\ sock[w] # listen_fd
      BY <2>2 DEF FilesInv, Own, HasSocket, Started
    <3> QED
      BY <2>1, <2>2, <3>1, <3>2, <3>3, Apart DEF Own
  <2>5. Functional'
    BY <2>2 DEF FilesInv, Functional
  <2>6. (Early' => Early) /\ (Waiting' => Waiting)
    BY <2>2 DEF Early, Waiting, InLoop
  <2>7. Waiting' => listen_fd' \in Fds /\ fds'[listen_fd'] = Listener'
    BY <2>1, <2>2, <2>6, Apart DEF FilesInv, Functional, Listener, Closed
  <2>8. Early' => \A v \in Connections : wpc'[v] \notin Begun
    BY <2>2, <2>6 DEF FilesInv, Functional, Begun, Started
  <2> QED
    BY <2>2, <2>3, <2>4, <2>5, <2>6, <2>7, <2>8 DEF FilesInv, None
<1>2. CASE Close(w)
  <2>1. /\ WGoto(w, "close", "ended") /\ fds' = Without({sock[w], dev[w]})
        /\ UNCHANGED <<mpc, current, signalled, listen_fd, sock, dev>>
    BY <1>2 DEF Close, End, main, accepting
  <2>2. (Early' => Early) /\ (Waiting' => Waiting)
    BY <2>1 DEF Early, Waiting, InLoop, signalled
  <2> QED
    BY <2>1, <2>2, FilesClosed DEF FilesInv
<1>3. CASE Lock(w) \/ Write(w) \/ Stream(w)
  BY <1>3, ThreadMoves DEF Lock, Write, Stream, Unlock
<1>4. CASE OpenFails(w) \/ TestLoop(w) \/ RecvLine(w) \/ RecvFails(w)
  BY <1>4, ThreadMoves DEF OpenFails, TestLoop, RecvLine, RecvFails, WStep
<1>5. CASE RecvPart(w) \/ RecvNoMemory(w)
  BY <1>5, ThreadMoves DEF RecvPart, RecvNoMemory
<1> QED
  BY <1>1, <1>2, <1>3, <1>4, <1>5 DEF Thread

LEMMA FilesOfClients == FilesInv /\ Clients => FilesInv'
<1> SUFFICES ASSUME FilesInv, NEW w \in Connections,
                    Connect(w) \/ SendLine(w) \/ SendPart(w) \/ HangUp(w)
             PROVE  FilesInv'
  BY DEF Clients
<1>1. CASE Connect(w)
  BY <1>1, ThreadMoves DEF Connect, WStep, HasSocket, HasDevice, Begun, Started
<1>2. CASE SendLine(w) \/ SendPart(w) \/ HangUp(w)
  BY <1>2, MainMoves DEF SendLine, SendPart, HangUp, Say, FilesInv, InLoop,
                         main, signalled, accepting, threads, files
<1> QED
  BY <1>1, <1>2

\* main hands over what it has accepted, under a number that is not the listener's.
LEMMA FilesAccepted == ASSUME FilesInv, NEW w \in Connections, Accept(w) PROVE FilesInv'
<1>1. NewFd \in Fds /\ fds[NewFd] = Closed
  BY NewFdFree DEF Accept, FreeFds
<1>2. /\ fds' = [fds EXCEPT ![NewFd] = Client(w)] /\ sock' = [sock EXCEPT ![w] = NewFd]
      /\ wpc' = [wpc EXCEPT ![w] = "accepted"] /\ UNCHANGED dev
      /\ mpc = "accept" /\ mpc' = "create" /\ current' = w
      /\ UNCHANGED <<exit_requested, global_fd, listen_fd>>
      /\ fds[listen_fd] = Listener
  BY DEF Accept, Accepted, MGoto, WGoto, signalled, Listening
<1>3. NewFd # listen_fd
  BY <1>1, <1>2, Apart DEF Closed, Listener
<1>4. ASSUME NEW v \in Connections \ {w} PROVE Own(v)'
  <2>1. UNCHANGED <<wpc[v], sock[v], dev[v]>>
    BY <1>2 DEF FilesInv, Functional
  <2> QED
    BY <1>1, <1>2, <2>1, OthersKeepFiles
<1>5. Own(w)'
  <2>1. Client(w)' = Client(w)
    BY DEF Client
  <2>2. wpc'[w] = "accepted" /\ sock'[w] = NewFd /\ fds'[NewFd] = Client(w)
    BY <1>1, <1>2 DEF FilesInv, Functional
  <2> QED
    BY <1>1, <1>2, <1>3, <2>1, <2>2 DEF Own, HasDevice, Started
<1>6. Functional'
  BY <1>2 DEF FilesInv, Functional
<1>7. ~Early' /\ (Waiting' => Waiting)
  BY <1>2 DEF Early, Waiting, InLoop
<1>8. Waiting' => listen_fd' \in Fds /\ fds'[listen_fd'] = Listener'
  BY <1>1, <1>2, <1>3, <1>7 DEF FilesInv, Functional, Listener
<1> QED
  BY <1>2, <1>4, <1>5, <1>6, <1>7, <1>8 DEF FilesInv, None

\* main closes what it has accepted.
LEMMA FilesRefused == FilesInv /\ CreateNoMemory => FilesInv'
<1> SUFFICES ASSUME FilesInv, CreateNoMemory PROVE FilesInv'
  OBVIOUS
<1>1. /\ current \in Connections /\ WGoto(current, "accepted", "refused")
      /\ fds' = Without({sock[current]}) /\ mpc = "create" /\ mpc' = "while"
      /\ UNCHANGED <<signalled, listen_fd, sock, dev>>
  BY DEF CreateNoMemory, MGoto, FilesInv, accepting
<1>2. (Early' => Early) /\ (Waiting' => Waiting)
  BY <1>1 DEF Early, Waiting, InLoop, signalled
<1>3. "accepted" \in HasSocket /\ "refused" \notin HasSocket \cup HasDevice \cup Begun
  BY DEF HasSocket, HasDevice, Begun, Started
<1> QED
  BY <1>1, <1>2, <1>3, FilesClosed

LEMMA FilesOfMain == FilesInv /\ Main => FilesInv'
<1> SUFFICES ASSUME FilesInv, Main PROVE FilesInv'
  OBVIOUS
<1>1. CASE StartFails \/ AcceptFails \/ JoinNobody \/ Join \/ Destroy
  BY <1>1, MainMoves DEF StartFails, AcceptFails, JoinNobody, Join, Destroy, RemoveHead, MStep,
                         MGoto, FilesInv, InLoop, signalled, accepting, threads, files
<1>2. CASE TestExit \/ Listen
  BY <1>2, MainMoves DEF TestExit, Listen, MStep, MGoto, FilesInv, InLoop,
                         signalled, accepting, threads, files
<1>3. CASE CreateSocket
  <2>1. NewFd \in Fds /\ fds[NewFd] = Closed
    BY <1>3, NewFdFree DEF CreateSocket, FreeFds
  <2>2. /\ mpc = "setup" /\ mpc' = "listen" /\ fds' = [fds EXCEPT ![NewFd] = Listener]
        /\ listen_fd' = NewFd /\ UNCHANGED <<wpc, sock, dev, exit_requested, global_fd>>
    BY <1>3 DEF CreateSocket, MGoto, signalled, threads
  <2>3. \A w \in Connections : wpc[w] \notin Begun
    BY <2>2 DEF FilesInv, Early
  <2>4. \A w \in Connections : Own(w)'
    BY <2>2, <2>3 DEF Own, HasSocket, HasDevice, Begun
  <2>5. Functional' /\ fds'[NewFd] = Listener'
    BY <2>1, <2>2 DEF FilesInv, Functional, Listener
  <2>6. global_fd' = None
    BY <2>2 DEF FilesInv
  <2> QED
    BY <2>1, <2>2, <2>3, <2>4, <2>5, <2>6 DEF FilesInv
<1>4. CASE SetupFails \/ CloseListener \/ CloseMain
  <2>1. PICK n \in {None, listen_fd} : fds' = Without({n})
    BY <1>4 DEF SetupFails, CloseListener, CloseMain, MClose
  <2>2. /\ UNCHANGED <<wpc, dev, sock, listen_fd, current, exit_requested, global_fd>>
        /\ mpc' \in {"join", "close_main"}
        /\ mpc \in {"setup", "listen", "close_listener", "close_main"}
    BY <1>4 DEF SetupFails, CloseListener, CloseMain, MClose, MGoto, signalled, accepting, threads
  <2>3. (exit_requested \/ Early) /\ (Early' => Early) /\ ~Waiting'
    BY <2>2 DEF Early, Waiting, InLoop
  <2> QED
    BY <2>1, <2>2, <2>3, ListenerCloses DEF FilesInv
<1>5. ASSUME NEW w \in Connections, Accept(w) PROVE FilesInv'
  BY <1>5, FilesAccepted
<1>6. CASE CreateThread \/ CreateFails
  <2>1. PICK place \in {"open", "never"} : NewNode(place) /\ UNCHANGED fds
    BY <1>6 DEF CreateThread, CreateFails
  <2>2. Functional'
    BY <2>1 DEF NewNode, WGoto, FilesInv, Functional
  <2>3. ASSUME NEW v \in Connections
        PROVE  /\ wpc'[v] \in HasSocket => wpc[v] \in HasSocket
               /\ wpc'[v] \in HasDevice => wpc[v] \in HasDevice
    BY <2>1 DEF NewNode, WGoto, MGoto, FilesInv, Functional, HasSocket, HasDevice, Started
  <2>4. ~Early' /\ (Waiting' => Waiting)
    BY <2>1 DEF NewNode, MGoto, Early, Waiting, InLoop, signalled
  <2>5. /\ UNCHANGED <<exit_requested, global_fd, listen_fd, sock, dev>> /\ mpc' = "while"
    BY <2>1 DEF NewNode, MGoto, signalled
  <2> QED
    BY <2>1, <2>2, <2>3, <2>4, <2>5, FilesKept DEF FilesInv
<1>7. CASE CreateNoMemory
  BY <1>7, FilesRefused
<1> QED
  BY <1>1, <1>2, <1>3, <1>4, <1>5, <1>6, <1>7 DEF Main

LEMMA FilesNext == FilesInv /\ [Next]_vars => FilesInv'
<1> SUFFICES ASSUME FilesInv, [Next]_vars PROVE FilesInv'
  OBVIOUS
<1>1. CASE UNCHANGED vars
  BY <1>1, MainMoves DEF vars, main, signalled, accepting, threads, files, FilesInv, InLoop
<1>2. CASE Signal
  <2>1. /\ global_fd \in {None, listen_fd} /\ fds' = Without({global_fd}) /\ global_fd' = None
        /\ UNCHANGED <<wpc, dev, sock, listen_fd, mpc, current>> /\ exit_requested'
    BY <1>2 DEF Signal, FilesInv, accepting, threads
  <2>2. (Early' => Early) /\ ~Waiting'
    BY <2>1 DEF Early, Waiting, InLoop
  <2> QED
    BY <2>1, <2>2, ListenerCloses
<1> QED
  BY <1>1, <1>2, FilesOfMain, FilesOfClients, FilesOfThread DEF Next

\* Between opening and closing, the descriptors of a connection thread (data_processing
\* in server/socket.c) stand for its own files; the one exception is a device opened
\* under the listener's number after a signal has closed it, which client_handler and
\* main close again.
THEOREM FilesAreOwn == Spec => []OwnFiles
<1>1. FilesInv => OwnFiles
  BY DEF FilesInv, OwnFiles, Own, HasSocket, HasDevice
<1> QED
  BY <1>1, FilesInit, FilesNext, PTL DEF Spec

-----------------------------------------------------------------------------
(* Types.                                                                  *)

Place == Started \cup {"away", "queued", "accepted", "refused", "never"}

LEMMA WithoutTypes == fds \in [Fds -> File] => \A S : Without(S) \in [Fds -> File]
BY DEF Without, File

\* A step that keeps main where it can be, opens and closes at most what Without
\* says, and hands nothing over.
LEMMA TypesKept ==
  ASSUME TypeOK,
         mpc' \in {"setup", "listen", "while", "accept", "create", "close_listener",
                   "close_main", "join", "exited", "crashed"},
         exit_requested' \in BOOLEAN, global_fd' \in Fds \cup {None},
         thread_list' \in Seq(Connections), mutex' \in Connections \cup {"free", "destroyed"},
         fds' \in [Fds -> File],
         client' \in [Connections -> {"idle", "part", "sent", "gone"}],
         UNCHANGED <<listen_fd, current, wpc, dev, sock>>
  PROVE  TypeOK'
BY DEF TypeOK

\* A step that moves one thread, or the connection it begins with.
LEMMA TypesMoved ==
  ASSUME TypeOK, NEW w \in Connections, NEW from, NEW to \in Place, WGoto(w, from, to),
         to \in Started \cup {"accepted", "never"} => from \in Started \cup {"accepted", "never"},
         mutex' \in Connections \cup {"free", "destroyed"},
         fds' \in [Fds -> File], dev' \in [Connections -> Fds \cup {None}],
         client' \in [Connections -> {"idle", "part", "sent", "gone"}],
         UNCHANGED <<main, sock>>
  PROVE  TypeOK'
<1>1. wpc' \in [Connections -> Place]
  BY DEF TypeOK, WGoto, Place
<1>2. ASSUME NEW v \in Connections, wpc'[v] \in Started \cup {"accepted", "never"}
      PROVE  sock[v] \in Fds
  BY <1>2 DEF TypeOK, WGoto
<1> QED
  BY <1>1, <1>2 DEF TypeOK, Place, main, signalled, accepting

LEMMA TypesOfThread ==
  ASSUME TypeOK, NEW w \in Connections, Thread(w) \/ Stream(w) PROVE TypeOK'
<1> USE DEF Place, Started
<1>0. /\ fds \in [Fds -> File] /\ dev \in [Connections -> Fds \cup {None}]
      /\ mutex \in Connections \cup {"free", "destroyed"}
      /\ client \in [Connections -> {"idle", "part", "sent", "gone"}]
  BY DEF TypeOK
<1>1. CASE OpenDevice(w)
  <2>1. NewFd \in Fds
    BY <1>1, NewFdFree DEF OpenDevice, FreeFds
  <2>2. /\ fds' \in [Fds -> File] /\ dev' \in [Connections -> Fds \cup {None}]
    BY <1>0, <1>1, <2>1 DEF OpenDevice, File
  <2> QED
    BY <1>0, <1>1, <2>2, TypesMoved DEF OpenDevice
<1>2. CASE Close(w)
  BY <1>0, <1>2, TypesMoved, WithoutTypes DEF Close, End
<1>3. CASE Lock(w) \/ Write(w) \/ Stream(w)
  BY <1>0, <1>3, TypesMoved DEF Lock, Write, Stream, Unlock, files
<1>4. CASE OpenFails(w) \/ TestLoop(w) \/ RecvLine(w) \/ RecvFails(w)
  BY <1>0, <1>4, TypesMoved DEF OpenFails, TestLoop, RecvLine, RecvFails, WStep, files
<1>5. CASE RecvPart(w)
  <2>0. (IF w \in Flagged THEN "lock_stream" ELSE "test") \in Place
    OBVIOUS
  <2>1. client' \in [Connections -> {"idle", "part", "sent", "gone"}]
    BY <1>0, <1>5 DEF RecvPart
  <2> QED
    BY <1>0, <1>5, <2>0, <2>1, TypesMoved DEF RecvPart, files
<1>6. CASE RecvNoMemory(w)
  BY <1>0, <1>6, TypesMoved DEF RecvNoMemory, files
<1> QED
  BY <1>1, <1>2, <1>3, <1>4, <1>5, <1>6 DEF Thread

LEMMA TypesOfClients == TypeOK /\ Clients => TypeOK'
<1> SUFFICES ASSUME TypeOK, NEW w \in Connections,
                    Connect(w) \/ SendLine(w) \/ SendPart(w) \/ HangUp(w)
             PROVE  TypeOK'
  BY DEF Clients
<1>0. /\ fds \in [Fds -> File] /\ dev \in [Connections -> Fds \cup {None}]
      /\ mutex \in Connections \cup {"free", "destroyed"}
      /\ client \in [Connections -> {"idle", "part", "sent", "gone"}]
  BY DEF TypeOK
<1>1. CASE Connect(w)
  BY <1>0, <1>1, TypesMoved DEF Connect, WStep, files, Place, Started
<1>2. CASE SendLine(w) \/ SendPart(w) \/ HangUp(w)
  <2>1. client' \in [Connections -> {"idle", "part", "sent", "gone"}]
    BY <1>0, <1>2 DEF SendLine, SendPart, HangUp, Say
  <2> QED
    BY <1>2, <2>1, TypesKept DEF SendLine, SendPart, HangUp, Say, TypeOK,
                                 main, signalled, accepting, threads, files
<1> QED
  BY <1>1, <1>2

\* main gives the connection it has accepted a place.
LEMMA TypesHanded ==
  ASSUME TypeOK, current \in Connections, NEW to \in Place, WGoto(current, "accepted", to),
         MGoto("create", "while"), thread_list' \in Seq(Connections), fds' \in [Fds -> File],
         UNCHANGED <<signalled, listen_fd, current, mutex, dev, sock, client>>
  PROVE  TypeOK'
<1>1. wpc' \in [Connections -> Place]
  BY DEF TypeOK, WGoto, Place
<1>2. ASSUME NEW v \in Connections, wpc'[v] \in Started \cup {"accepted", "never"}
      PROVE  sock[v] \in Fds
  BY <1>2 DEF TypeOK, WGoto
<1> QED
  BY <1>1, <1>2 DEF TypeOK, Place, MGoto, signalled

LEMMA TypesOfMain == TypeOK /\ ListInv /\ Main => TypeOK'
<1> SUFFICES ASSUME TypeOK, ListInv, Main PROVE TypeOK'
  OBVIOUS
<1>0. fds \in [Fds -> File] /\ thread_list \in Seq(Connections)
  BY DEF TypeOK
<1>1. CASE StartFails \/ AcceptFails \/ TestExit
  BY <1>1, TypesKept DEF StartFails, AcceptFails, TestExit, MStep, MGoto, TypeOK,
                         signalled, accepting, threads, files
<1>2. CASE SetupFails \/ CloseListener \/ CloseMain
  BY <1>0, <1>2, TypesKept, WithoutTypes
     DEF SetupFails, CloseListener, CloseMain, MClose, MGoto, TypeOK, signalled, accepting, threads
<1>3. CASE CreateSocket
  <2>1. NewFd \in Fds
    BY <1>3, NewFdFree DEF CreateSocket, FreeFds
  <2>2. fds' \in [Fds -> File]
    BY <1>0, <1>3, <2>1 DEF CreateSocket, File
  <2> QED
    BY <1>3, <2>1, <2>2 DEF CreateSocket, MGoto, TypeOK, signalled, threads
<1>4. CASE Listen
  BY <1>4, TypesKept DEF Listen, MGoto, TypeOK, accepting, threads, files
<1>5. ASSUME NEW w \in Connections, Accept(w) PROVE TypeOK'
  <2>1. NewFd \in Fds
    BY <1>5, NewFdFree DEF Accept, FreeFds
  <2>2. fds' \in [Fds -> File] /\ sock' \in [Connections -> Fds \cup {None}]
    BY <1>0, <1>5, <2>1 DEF Accept, Accepted, File, TypeOK
  <2>3. wpc' \in [Connections -> Place]
    BY <1>5 DEF Accept, Accepted, WGoto, TypeOK, Place
  <2>4. ASSUME NEW v \in Connections, wpc'[v] \in Started \cup {"accepted", "never"}
        PROVE  sock'[v] \in Fds
    <3>1. sock' = [sock EXCEPT ![w] = NewFd] /\ wpc' = [wpc EXCEPT ![w] = "accepted"]
      BY <1>5 DEF Accept, Accepted, WGoto
    <3> QED
      BY <2>1, <2>4, <3>1 DEF TypeOK
  <2> QED
    BY <1>5, <2>2, <2>3, <2>4 DEF Accept, Accepted, MGoto, TypeOK, Place, signalled
<1>6. CASE CreateThread \/ CreateFails
  <2>1. PICK to \in {"open", "never"} : NewNode(to) /\ UNCHANGED fds
    BY <1>6 DEF CreateThread, CreateFails
  <2>2. current \in Connections
    BY <2>1 DEF NewNode, MGoto, ListInv
  <2>3. <<current>> \o thread_list \in Seq(Connections)
    BY <1>0, <2>2
  <2> QED
    BY <1>0, <2>1, <2>2, <2>3, TypesHanded DEF NewNode, Place, Started
<1>7. CASE CreateNoMemory
  <2>1. current \in Connections
    BY <1>7 DEF CreateNoMemory, MGoto, ListInv
  <2> QED
    BY <1>0, <1>7, <2>1, TypesHanded, WithoutTypes DEF CreateNoMemory, Place, accepting
<1>8. CASE RemoveHead
  <2>1. Tail(thread_list) \in Seq(Connections)
    BY <1>0, <1>8 DEF RemoveHead
  <2> QED
    BY <1>8, <2>1, TypesKept DEF RemoveHead, TypeOK, signalled, threads, files
<1>9. CASE MStep("join", "crashed")
  BY <1>9, TypesKept DEF MStep, MGoto, TypeOK, signalled, accepting, threads, files
<1>10. CASE Destroy
  BY <1>10, TypesKept DEF Destroy, MGoto, TypeOK, signalled, accepting, files
<1> QED
  BY <1>1, <1>2, <1>3, <1>4, <1>5, <1>6, <1>7, <1>8, <1>9, <1>10 DEF Main, Join, JoinNobody

LEMMA TypesInit == Init => TypeOK
<1> SUFFICES ASSUME Init PROVE TypeOK
  OBVIOUS
<1>1. << >> \in Seq(Connections)
  OBVIOUS
<1>2. /\ fds \in [Fds -> File] /\ wpc \in [Connections -> {"away"}]
      /\ sock \in [Connections -> {None}] /\ dev \in [Connections -> {None}]
      /\ client \in [Connections -> {"idle"}]
  BY DEF Init, File
<1>3. {None} \subseteq Fds \cup {None}
  OBVIOUS
<1>4. sock \in [Connections -> Fds \cup {None}] /\ dev \in [Connections -> Fds \cup {None}]
  BY <1>2, <1>3
<1>5. \A w \in Connections : wpc[w] = "away"
  BY <1>2
<1> QED
  BY <1>1, <1>2, <1>4, <1>5 DEF Init, TypeOK, Started

LEMMA TypesNext == TypeOK /\ ListInv /\ [Next]_vars => TypeOK'
<1> SUFFICES ASSUME TypeOK, ListInv, [Next]_vars PROVE TypeOK'
  OBVIOUS
<1>1. CASE UNCHANGED vars
  BY <1>1 DEF vars, main, signalled, accepting, threads, files, TypeOK
<1>2. CASE Signal
  <2>1. fds' \in [Fds -> File]
    BY <1>2, WithoutTypes DEF Signal, TypeOK
  <2> QED
    BY <1>2, <2>1, TypesKept DEF Signal, TypeOK, accepting, threads
<1> QED
  BY <1>1, <1>2, TypesOfMain, TypesOfClients, TypesOfThread DEF Next

\* Every variable of the process has its type, whatever fails: what main and the threads
\* (server/aesdsocket.c, server/socket.c) use as a descriptor is one, and a thread is
\* given a connection's socket before it runs.
THEOREM ServerTypeCorrect == Spec => []TypeOK
BY TypesInit, TypesNext, ListInit, ListNext, PTL DEF Spec

-----------------------------------------------------------------------------
(* Closed connections.                                                     *)

\* A file is open under the number its owner remembers, from the step that opens it.
Traced ==
  /\ mpc = "setup" => listen_fd = None
  /\ \A n \in Fds : fds[n] = Listener => n = listen_fd
  /\ \A n \in Fds, w \in Connections :
       /\ fds[n] = Client(w) => n = sock[w] /\ wpc[w] \notin {"away", "queued"}
       /\ fds[n] = Device(w) => n = dev[w] /\ wpc[w] \in HasDevice \cup {"ended"}

\* What the main program must not run out of: a number for its listener and two for each
\* connection.
EnoughFds == /\ IsFiniteSet(Connections)
             /\ Cardinality(Fds) > 2 * Cardinality(Connections)

LEMMA ImageSmall ==
  ASSUME NEW S, IsFiniteSet(S), NEW f, NEW T, T = {f[x] : x \in S}
  PROVE  IsFiniteSet(T) /\ Cardinality(T) <= Cardinality(S)
<1> DEFINE g == [x \in S |-> f[x]]
<1>1. g \in Surjection(S, T)
  BY DEF Surjection
<1> QED
  BY <1>1, FS_Surjection

\* A thread that is about to open its device finds a number.
LEMMA FdToSpare ==
  ASSUME TypeOK, Traced, EnoughFds, NEW w \in Connections, wpc[w] = "open"
  PROVE  FreeFds # {}
<1> DEFINE socks == {sock[v] : v \in Connections}
           devs  == {dev[v] : v \in Connections \ {w}}
           both  == socks \cup devs
           used  == both \cup {listen_fd}
<1>1. /\ IsFiniteSet(socks) /\ Cardinality(socks) <= Cardinality(Connections)
  BY ImageSmall DEF EnoughFds
<1>2. /\ IsFiniteSet(Connections \ {w})
      /\ Cardinality(Connections \ {w}) = Cardinality(Connections) - 1
  BY FS_RemoveElement DEF EnoughFds
<1>3. /\ IsFiniteSet(devs) /\ Cardinality(devs) <= Cardinality(Connections) - 1
  BY <1>2, ImageSmall
<1>4. SUFFICES ASSUME FreeFds = {} PROVE FALSE
  OBVIOUS
<1>5. ASSUME NEW n \in Fds PROVE n \in used
  <2>1. fds[n] \in File /\ fds[n] # Closed
    BY <1>4 DEF TypeOK, FreeFds
  <2>2. CASE fds[n] = Listener
    BY <2>2 DEF Traced
  <2>3. ASSUME NEW v \in Connections, fds[n] = Client(v) PROVE n \in used
    BY <2>3 DEF Traced
  <2>4. ASSUME NEW v \in Connections, fds[n] = Device(v) PROVE n \in used
    <3>1. n = dev[v] /\ v # w
      BY <2>4 DEF Traced, HasDevice
    <3> QED
      BY <3>1
  <2> QED
    BY <2>1, <2>2, <2>3, <2>4 DEF File
<1> HIDE DEF socks, devs
<1>6. /\ IsFiniteSet(both)
      /\ Cardinality(both) = Cardinality(socks) + Cardinality(devs) - Cardinality(socks \cap devs)
  BY <1>1, <1>3, FS_Union
<1>7. Cardinality(socks \cap devs) \in Nat
  <2>1. IsFiniteSet(socks \cap devs)
    BY <1>1, FS_Subset
  <2> QED
    BY <2>1, FS_CardinalityType
<1>8. /\ Cardinality(Connections) \in Nat /\ Cardinality(socks) \in Nat
      /\ Cardinality(devs) \in Nat /\ Cardinality(both) \in Nat
  BY <1>1, <1>3, <1>6, FS_CardinalityType DEF EnoughFds
<1> HIDE DEF both
<1>9. /\ IsFiniteSet(used) /\ Cardinality(used) <= Cardinality(both) + 1
      /\ Cardinality(used) \in Nat
  <2>1. /\ IsFiniteSet(used)
        /\ Cardinality(used) = IF listen_fd \in both THEN Cardinality(both) ELSE Cardinality(both) + 1
    BY <1>6, FS_AddElement
  <2> QED
    BY <1>8, <2>1
<1>10. Cardinality(Fds) <= Cardinality(used) /\ Cardinality(Fds) \in Nat
  BY <1>5, <1>9, FS_Subset, FS_CardinalityType, FdAssumption
<1> HIDE DEF used
<1>11. Cardinality(Fds) > 2 * Cardinality(Connections)
  BY DEF EnoughFds
<1> QED
  BY <1>1, <1>3, <1>6, <1>7, <1>8, <1>9, <1>10, <1>11

ClosedInv == Traced /\ EndedHaveClosed

\* A step that opens nothing, and ends a thread only if it closes its socket.
LEMMA ClosedKept ==
  ASSUME ClosedInv, mpc' = "setup" => mpc = "setup", UNCHANGED <<listen_fd, sock, dev>>,
         \A n \in Fds : fds'[n] \in {fds[n], Closed},
         \A w \in Connections :
           /\ wpc'[w] \in {"away", "queued"} => wpc[w] \in {"away", "queued"}
           /\ wpc[w] \in HasDevice \cup {"ended"} => wpc'[w] \in HasDevice \cup {"ended"}
           /\ wpc'[w] = "ended" => wpc[w] = "ended" \/ fds'[sock[w]] = Closed
  PROVE  ClosedInv'
<1>1. \A v \in Connections : Client(v)' = Client(v) /\ Device(v)' = Device(v)
  BY DEF Client, Device
<1>2. Traced'
  BY <1>1, Apart DEF ClosedInv, Traced, Closed, Listener
<1>3. EndedHaveClosed'
  BY <1>1, Apart DEF ClosedInv, Traced, EndedHaveClosed
<1> QED
  BY <1>2, <1>3 DEF ClosedInv

LEMMA ClosedInit == Init => ClosedInv
BY Apart DEF Init, ClosedInv, Traced, EndedHaveClosed, Closed, Listener, Client, Device

LEMMA ClosedOfThread ==
  ASSUME TypeOK, ClosedInv, EnoughFds, {"open", "realloc"} \cap Faults = {},
         NEW w \in Connections, Thread(w) \/ Stream(w)
  PROVE  ClosedInv'
<1> USE DEF HasDevice, Started
<1>0. wpc \in [Connections -> Started \cup {"away", "queued", "accepted", "refused", "never"}]
  BY DEF TypeOK
<1>1. CASE OpenDevice(w)
  <2>1. NewFd \in Fds /\ fds[NewFd] = Closed
    BY <1>1, NewFdFree DEF OpenDevice, FreeFds
  <2>2. \A n \in Fds : fds'[n] = IF n = NewFd THEN Device(w) ELSE fds[n]
    BY <1>1, <2>1 DEF OpenDevice, TypeOK
  <2>3. \A v \in Connections :
          /\ dev'[v] = IF v = w THEN NewFd ELSE dev[v]
          /\ wpc'[v] = IF v = w THEN "test" ELSE wpc[v]
    BY <1>1 DEF OpenDevice, WGoto, TypeOK
  <2>4. wpc[w] = "open" /\ UNCHANGED <<sock, listen_fd, mpc>>
    BY <1>1 DEF OpenDevice, WGoto, main, accepting
  <2>5. \A v \in Connections : Client(v)' = Client(v) /\ Device(v)' = Device(v)
    BY DEF Client, Device
  <2>6. ASSUME NEW n \in Fds, NEW v \in Connections
        PROVE  /\ fds'[n] = Client(v) => n = sock'[v] /\ wpc'[v] \notin {"away", "queued"}
               /\ fds'[n] = Device(v) => n = dev'[v] /\ wpc'[v] \in HasDevice \cup {"ended"}
    <3>1. CASE n = NewFd
      BY <2>2, <2>3, <3>1, Apart
    <3>2. CASE n # NewFd
      <4>1. fds'[n] = fds[n]
        BY <2>2, <3>2
      <4> QED
        BY <2>3, <2>4, <4>1 DEF ClosedInv, Traced
    <3> QED
      BY <3>1, <3>2
  <2>7. Traced'
    BY <2>2, <2>4, <2>5, <2>6, Apart DEF ClosedInv, Traced, Listener
  <2>8. EndedHaveClosed'
    BY <2>1, <2>2, <2>3, <2>4, <2>5, Apart DEF ClosedInv, EndedHaveClosed
  <2> QED
    BY <2>7, <2>8 DEF ClosedInv
<1>2. CASE Close(w)
  <2>1. /\ UNCHANGED <<mpc, listen_fd, sock, dev>> /\ wpc[w] = "close"
        /\ fds' = Without({dev[w], sock[w]}) /\ wpc' = [wpc EXCEPT ![w] = "ended"]
    BY <1>2 DEF Close, End, WGoto, main, accepting
  <2>2. sock[w] \in Fds
    BY <2>1 DEF TypeOK
  <2> QED
    BY <1>0, <2>1, <2>2, ClosedKept DEF Without
<1>3. CASE OpenFails(w)
  BY <1>3, FdToSpare DEF OpenFails, WStep, WGoto, ClosedInv
<1>4. CASE TestLoop(w) \/ RecvLine(w) \/ RecvPart(w) \/ RecvFails(w) \/ Lock(w) \/ Write(w) \/ Stream(w)
  <2>1. UNCHANGED <<mpc, listen_fd, sock, dev, fds>>
    BY <1>4 DEF TestLoop, RecvLine, RecvPart, RecvFails, Lock, Write, Stream, Unlock, WStep,
                main, accepting, files
  <2>2. /\ wpc[w] \in HasDevice
        /\ \E to \in HasDevice : wpc' = [wpc EXCEPT ![w] = to]
    BY <1>4 DEF TestLoop, RecvLine, RecvPart, RecvFails, Lock, Write, Stream, Unlock, WStep, WGoto
  <2> QED
    BY <1>0, <2>1, <2>2, ClosedKept
<1> QED
  BY <1>1, <1>2, <1>3, <1>4 DEF Thread, RecvNoMemory

LEMMA ClosedOfClients == TypeOK /\ ClosedInv /\ Clients => ClosedInv'
<1> SUFFICES ASSUME TypeOK, ClosedInv, NEW w \in Connections,
                    Connect(w) \/ SendLine(w) \/ SendPart(w) \/ HangUp(w)
             PROVE  ClosedInv'
  BY DEF Clients
<1>1. UNCHANGED <<mpc, listen_fd, sock, dev, fds>>
  BY DEF Connect, SendLine, SendPart, HangUp, Say, WStep, main, accepting, threads, files
<1>2. \/ wpc' = wpc
      \/ wpc[w] = "away" /\ wpc' = [wpc EXCEPT ![w] = "queued"]
  BY DEF Connect, SendLine, SendPart, HangUp, Say, WStep, WGoto, threads
<1> QED
  BY <1>1, <1>2, ClosedKept DEF TypeOK, HasDevice, Started

LEMMA ClosedOfMain == TypeOK /\ ListInv /\ ClosedInv /\ Main => ClosedInv'
<1> SUFFICES ASSUME TypeOK, ListInv, ClosedInv, Main PROVE ClosedInv'
  OBVIOUS
<1>1. CASE \/ StartFails \/ AcceptFails \/ TestExit \/ Listen \/ RemoveHead
           \/ MStep("join", "crashed") \/ Destroy
  <2>1. UNCHANGED <<listen_fd, sock, dev, fds, wpc>> /\ (mpc' = "setup" => mpc = "setup")
    BY <1>1 DEF StartFails, AcceptFails, TestExit, Listen, RemoveHead, Destroy, MStep, MGoto,
                accepting, threads, files
  <2> QED
    BY <2>1, ClosedKept
<1>2. CASE SetupFails \/ CloseListener \/ CloseMain
  <2>1. UNCHANGED <<listen_fd, sock, dev, wpc>> /\ mpc' # "setup"
    BY <1>2 DEF SetupFails, CloseListener, CloseMain, MClose, MGoto, accepting, threads
  <2>2. \A n \in Fds : fds'[n] \in {fds[n], Closed}
    BY <1>2 DEF SetupFails, CloseListener, CloseMain, MClose, Without
  <2> QED
    BY <2>1, <2>2, ClosedKept
<1>3. CASE CreateSocket
  <2>1. NewFd \in Fds /\ fds[NewFd] = Closed
    BY <1>3, NewFdFree DEF CreateSocket, FreeFds
  <2>2. \A n \in Fds : fds'[n] = IF n = NewFd THEN Listener ELSE fds[n]
    BY <1>3, <2>1 DEF CreateSocket, TypeOK
  <2>3. /\ mpc = "setup" /\ mpc' = "listen" /\ listen_fd' = NewFd
        /\ UNCHANGED <<wpc, sock, dev>>
    BY <1>3 DEF CreateSocket, MGoto, threads
  <2>4. None \notin Fds
    BY FdAssumption DEF None
  <2>5. \A v \in Connections : Client(v)' = Client(v) /\ Device(v)' = Device(v)
    BY DEF Client, Device
  <2>6. Traced'
    BY <2>1, <2>2, <2>3, <2>4, <2>5, Apart DEF ClosedInv, Traced, Listener, Closed
  <2>7. EndedHaveClosed'
    BY <2>2, <2>3, <2>5, Apart DEF ClosedInv, EndedHaveClosed
  <2> QED
    BY <2>6, <2>7 DEF ClosedInv
<1>4. ASSUME NEW w \in Connections, Accept(w) PROVE ClosedInv'
  <2>1. NewFd \in Fds /\ fds[NewFd] = Closed
    BY <1>4, NewFdFree DEF Accept, FreeFds
  <2>2. \A n \in Fds : fds'[n] = IF n = NewFd THEN Client(w) ELSE fds[n]
    BY <1>4, <2>1 DEF Accept, TypeOK
  <2>3. \A v \in Connections :
          /\ sock'[v] = IF v = w THEN NewFd ELSE sock[v]
          /\ wpc'[v] = IF v = w THEN "accepted" ELSE wpc[v]
    BY <1>4 DEF Accept, Accepted, WGoto, TypeOK
  <2>4. wpc[w] = "queued" /\ mpc' # "setup" /\ UNCHANGED <<listen_fd, dev>>
    BY <1>4 DEF Accept, Accepted, WGoto, MGoto
  <2>5. \A v \in Connections : Client(v)' = Client(v) /\ Device(v)' = Device(v)
    BY DEF Client, Device
  <2>6. ASSUME NEW n \in Fds, NEW v \in Connections
        PROVE  /\ fds'[n] = Client(v) => n = sock'[v] /\ wpc'[v] \notin {"away", "queued"}
               /\ fds'[n] = Device(v) => n = dev'[v] /\ wpc'[v] \in HasDevice \cup {"ended"}
    <3>1. CASE n = NewFd
      BY <2>2, <2>3, <3>1, Apart
    <3>2. CASE n # NewFd
      <4>1. fds'[n] = fds[n]
        BY <2>2, <3>2
      <4>2. fds[n] = Client(w) \/ fds[n] = Device(w) => wpc[w] # "queued"
        BY DEF ClosedInv, Traced, HasDevice, Started
      <4> QED
        BY <2>3, <2>4, <4>1, <4>2 DEF ClosedInv, Traced
    <3> QED
      BY <3>1, <3>2
  <2>7. Traced'
    BY <2>2, <2>4, <2>5, <2>6, Apart DEF ClosedInv, Traced, Listener
  <2>8. EndedHaveClosed'
    BY <2>2, <2>3, <2>4, <2>5, Apart DEF ClosedInv, EndedHaveClosed
  <2> QED
    BY <2>7, <2>8 DEF ClosedInv
<1>5. CASE CreateThread \/ CreateFails \/ CreateNoMemory
  <2>1. current \in Connections /\ wpc[current] = "accepted" /\ mpc' # "setup"
    BY <1>5 DEF CreateThread, CreateFails, CreateNoMemory, NewNode, MGoto, WGoto, ListInv
  <2>2. \E to \in {"open", "never", "refused"} : wpc' = [wpc EXCEPT ![current] = to]
    BY <1>5 DEF CreateThread, CreateFails, CreateNoMemory, NewNode, WGoto
  <2>3. UNCHANGED <<listen_fd, sock, dev>>
    BY <1>5 DEF CreateThread, CreateFails, CreateNoMemory, NewNode, accepting
  <2>4. \A n \in Fds : fds'[n] \in {fds[n], Closed}
    BY <1>5 DEF CreateThread, CreateFails, CreateNoMemory, Without
  <2> QED
    BY <2>1, <2>2, <2>3, <2>4, ClosedKept DEF TypeOK, HasDevice, Started
<1> QED
  BY <1>1, <1>2, <1>3, <1>4, <1>5 DEF Main, Join, JoinNobody

LEMMA ClosedNext ==
  ASSUME EnoughFds, {"open", "realloc"} \cap Faults = {}
  PROVE  TypeOK /\ ListInv /\ ClosedInv /\ [Next]_vars => ClosedInv'
<1> SUFFICES ASSUME TypeOK, ListInv, ClosedInv, [Next]_vars PROVE ClosedInv'
  OBVIOUS
<1>1. CASE UNCHANGED vars
  BY <1>1, ClosedKept DEF vars, main, accepting, threads, files
<1>2. CASE Signal
  BY <1>2, ClosedKept DEF Signal, accepting, threads, Without
<1> QED
  BY <1>1, <1>2, ClosedOfMain, ClosedOfClients, ClosedOfThread DEF Next

\* A connection thread (data_processing in server/socket.c) that has ended has closed its
\* client's socket, also when numbers are reused and closed twice at a shutdown.  It is
\* left open on two paths only: when the device cannot be opened, which a process that
\* does not run out of numbers is spared, and when realloc fails.
THEOREM ThreadsCloseConnections ==
  ASSUME EnoughFds, {"open", "realloc"} \cap Faults = {}
  PROVE  Spec => []EndedHaveClosed
<1>1. ClosedInv => EndedHaveClosed
  BY DEF ClosedInv
<1> QED
  BY <1>1, ClosedInit, ClosedNext, TypesInit, TypesNext, ListInit, ListNext, PTL DEF Spec

-----------------------------------------------------------------------------
(* The shutdown: after a signal no step of main or of a thread leads back. *)

LEMMA Ways ==
  /\ MainWay["setup"] = 0 /\ MainWay["listen"] = 1 /\ MainWay["accept"] = 2
  /\ MainWay["create"] = 3 /\ MainWay["while"] = 4 /\ MainWay["close_listener"] = 5
  /\ MainWay["close_main"] = 6 /\ MainWay["join"] = 7
  /\ MainWay["exited"] = 8 /\ MainWay["crashed"] = 8
  /\ ThreadWay["away"] = 0 /\ ThreadWay["queued"] = 1 /\ ThreadWay["accepted"] = 2
  /\ ThreadWay["refused"] = 3 /\ ThreadWay["never"] = 3 /\ ThreadWay["open"] = 4
  /\ ThreadWay["recv"] = 5 /\ ThreadWay["test"] = 6 /\ ThreadWay["lock_write"] = 7
  /\ ThreadWay["write"] = 8 /\ ThreadWay["lock_stream"] = 9 /\ ThreadWay["stream"] = 10
  /\ ThreadWay["close"] = 11 /\ ThreadWay["ended"] = 12
BY DEF MainWay, ThreadWay

\* Nobody has gone back.
MainGoesOn    == MainWay[mpc] <= MainWay[mpc']
ThreadsGoOn   == \A w \in Connections : ThreadWay[wpc[w]] <= ThreadWay[wpc'[w]]
ListGoesOn    == mpc # "create" => Len(thread_list') <= Len(thread_list)
OthersStand   == UNCHANGED <<mpc, wpc, thread_list>> => UNCHANGED <<main, threads, files>>
GoesOn        == MainGoesOn /\ ThreadsGoOn /\ ListGoesOn /\ OthersStand

LEMMA WaysAreNumbers ==
  ASSUME TypeOK
  PROVE  /\ MainWay[mpc] \in Nat /\ \A w \in Connections : ThreadWay[wpc[w]] \in Nat
         /\ Len(thread_list) \in Nat
<1>1. MainWay[mpc] \in Nat
  BY Ways DEF TypeOK
<1>2. ASSUME NEW w \in Connections PROVE ThreadWay[wpc[w]] \in Nat
  <2>1. wpc[w] \in Started \cup {"away", "queued", "accepted", "refused", "never"}
    BY DEF TypeOK
  <2> QED
    BY <2>1, Ways DEF Started
<1>3. Len(thread_list) \in Nat
  BY DEF TypeOK
<1> QED
  BY <1>1, <1>2, <1>3

\* A step of main that moves no connection, and one that moves a connection from a
\* place to a later one.
LEMMA MainStands ==
  ASSUME TypeOK, UNCHANGED wpc
  PROVE  ThreadsGoOn
BY WaysAreNumbers DEF ThreadsGoOn

LEMMA OneMoves ==
  ASSUME TypeOK, NEW w \in Connections, NEW from, NEW to, WGoto(w, from, to),
         ThreadWay[from] <= ThreadWay[to]
  PROVE  ThreadsGoOn
<1> SUFFICES ASSUME NEW v \in Connections PROVE ThreadWay[wpc[v]] <= ThreadWay[wpc'[v]]
  BY DEF ThreadsGoOn
<1>1. wpc'[v] = IF v = w THEN to ELSE wpc[v]
  BY DEF WGoto, TypeOK
<1>2. ThreadWay[wpc[v]] \in Nat
  BY WaysAreNumbers
<1> QED
  BY <1>1, <1>2 DEF WGoto

LEMMA ThreadGoesOn ==
  ASSUME TypeOK, exit_requested, NEW w \in Connections, Thread(w) \/ Stream(w)
  PROVE  GoesOn
<1>0. wpc[w] # wpc'[w] /\ ThreadsGoOn /\ UNCHANGED main
  <2>1. wpc = [u \in Connections |-> wpc[u]]
    BY DEF TypeOK
  <2>2. ASSUME NEW from, NEW to, WGoto(w, from, to), from # to,
               ThreadWay[from] <= ThreadWay[to]
        PROVE  wpc[w] # wpc'[w] /\ ThreadsGoOn
    BY <2>1, <2>2, OneMoves DEF WGoto
  <2>3. CASE OpenDevice(w) \/ OpenFails(w)
    BY <2>2, <2>3, Ways DEF OpenDevice, OpenFails, WStep
  <2>4. CASE TestLoop(w)
    BY <2>2, <2>4, Ways DEF TestLoop, WStep
  <2>5. CASE RecvLine(w) \/ RecvPart(w) \/ RecvFails(w) \/ RecvNoMemory(w)
    BY <2>2, <2>5, Ways DEF RecvLine, RecvPart, RecvFails, RecvNoMemory, WStep
  <2>6. CASE Lock(w)
    BY <2>2, <2>6, Ways DEF Lock
  <2>7. CASE Write(w) \/ Stream(w)
    BY <2>2, <2>7, Ways DEF Write, Stream, Unlock
  <2>8. CASE Close(w)
    BY <2>2, <2>8, Ways DEF Close, End
  <2> QED
    BY <2>3, <2>4, <2>5, <2>6, <2>7, <2>8 DEF Thread
<1>1. mpc' = mpc /\ thread_list' = thread_list
  BY <1>0 DEF main, accepting
<1> QED
  BY <1>0, <1>1, WaysAreNumbers DEF GoesOn, MainGoesOn, ListGoesOn, OthersStand

LEMMA ClientsGoOn == TypeOK /\ Clients => GoesOn
<1> SUFFICES ASSUME TypeOK, NEW w \in Connections,
                    Connect(w) \/ SendLine(w) \/ SendPart(w) \/ HangUp(w)
             PROVE  GoesOn
  BY DEF Clients
<1>1. CASE Connect(w)
  <2>1. ThreadsGoOn
    BY <1>1, OneMoves, Ways DEF Connect, WStep
  <2>2. mpc' = mpc /\ thread_list' = thread_list /\ wpc' # wpc
    BY <1>1 DEF Connect, WStep, WGoto, main, accepting, TypeOK
  <2> QED
    BY <2>1, <2>2, WaysAreNumbers DEF GoesOn, MainGoesOn, ListGoesOn, OthersStand
<1>2. CASE SendLine(w) \/ SendPart(w) \/ HangUp(w)
  <2>1. UNCHANGED <<main, threads, files>>
    BY <1>2 DEF SendLine, SendPart, HangUp, Say
  <2>2. mpc' = mpc /\ thread_list' = thread_list /\ wpc' = wpc
    BY <2>1 DEF main, accepting, threads
  <2> QED
    BY <2>1, <2>2, MainStands, WaysAreNumbers DEF GoesOn, MainGoesOn, ListGoesOn, OthersStand
<1> QED
  BY <1>1, <1>2

LEMMA MainAlwaysGoesOn ==
  ASSUME TypeOK, ListInv, exit_requested, Main
  PROVE  GoesOn
<1>0. Len(thread_list) \in Nat
  BY WaysAreNumbers
<1>1. CASE StartFails \/ TestExit \/ AcceptFails \/ SetupFails \/ CloseListener \/ CloseMain
  <2>1. UNCHANGED <<wpc, thread_list>>
    BY <1>1 DEF StartFails, TestExit, AcceptFails, SetupFails, CloseListener, CloseMain,
                MStep, MClose, accepting, threads
  <2>2. \E from, to : MGoto(from, to) /\ from # to /\ MainWay[from] <= MainWay[to]
    <3>1. CASE StartFails \/ TestExit \/ AcceptFails
      BY <3>1, Ways DEF StartFails, TestExit, AcceptFails, MStep
    <3>2. CASE SetupFails \/ CloseListener \/ CloseMain
      BY <3>2, Ways DEF SetupFails, CloseListener, CloseMain, MClose
    <3> QED
      BY <1>1, <3>1, <3>2
  <2>3. mpc # mpc' /\ MainGoesOn
    BY <2>2 DEF MGoto, MainGoesOn
  <2>4. ThreadsGoOn
    BY <2>1, MainStands
  <2>5. ListGoesOn
    BY <1>0, <2>1 DEF ListGoesOn
  <2>6. OthersStand
    BY <2>3 DEF OthersStand
  <2> QED
    BY <2>3, <2>4, <2>5, <2>6 DEF GoesOn
<1>2. CASE CreateSocket \/ Listen \/ Destroy
  <2>1. UNCHANGED <<wpc, thread_list>>
    BY <1>2 DEF CreateSocket, Listen, Destroy, accepting, threads
  <2>2. \/ MGoto("setup", "listen") \/ MGoto("listen", "while") \/ MGoto("join", "exited")
    BY <1>2 DEF CreateSocket, Listen, Destroy
  <2>3. mpc # mpc' /\ MainGoesOn
    BY <2>2, Ways DEF MGoto, MainGoesOn
  <2>4. ThreadsGoOn
    BY <2>1, MainStands
  <2>5. ListGoesOn
    BY <1>0, <2>1 DEF ListGoesOn
  <2>6. OthersStand
    BY <2>3 DEF OthersStand
  <2> QED
    BY <2>3, <2>4, <2>5, <2>6 DEF GoesOn
<1>3. ASSUME NEW w \in Connections, Accept(w) PROVE GoesOn
  <2>1. ThreadsGoOn
    BY <1>3, OneMoves, Ways DEF Accept, Accepted
  <2>2. mpc # mpc' /\ MainGoesOn /\ UNCHANGED thread_list
    BY <1>3, Ways DEF Accept, Accepted, MGoto, MainGoesOn
  <2> QED
    BY <1>0, <2>1, <2>2 DEF GoesOn, ListGoesOn, OthersStand
<1>4. CASE CreateThread \/ CreateFails \/ CreateNoMemory
  <2>1. MGoto("create", "while") /\ current \in Connections
    BY <1>4 DEF CreateThread, CreateFails, CreateNoMemory, NewNode, MGoto, ListInv
  <2>2. ThreadsGoOn
    BY <1>4, <2>1, OneMoves, Ways DEF CreateThread, CreateFails, CreateNoMemory, NewNode
  <2>3. MainGoesOn
    BY <2>1, Ways DEF MGoto, MainGoesOn
  <2>4. ListGoesOn /\ OthersStand
    BY <2>1 DEF MGoto, ListGoesOn, OthersStand
  <2> QED
    BY <2>2, <2>3, <2>4 DEF GoesOn
<1>5. CASE RemoveHead
  <2>1. Len(thread_list') = Len(thread_list) - 1
    BY <1>5 DEF RemoveHead, TypeOK
  <2>2. mpc' = mpc /\ wpc' = wpc
    BY <1>5 DEF RemoveHead, threads
  <2>3. thread_list' # thread_list
    BY <1>0, <2>1
  <2> QED
    BY <1>0, <2>1, <2>2, <2>3, MainStands, WaysAreNumbers
    DEF GoesOn, MainGoesOn, ListGoesOn, OthersStand
<1>6. CASE MStep("join", "crashed")
  <2>1. UNCHANGED <<wpc, thread_list>> /\ mpc # mpc' /\ MainGoesOn
    BY <1>6, Ways DEF MStep, MGoto, MainGoesOn, accepting, threads
  <2> QED
    BY <1>0, <2>1, MainStands DEF GoesOn, ListGoesOn, OthersStand
<1> QED
  BY <1>1, <1>2, <1>3, <1>4, <1>5, <1>6 DEF Main, Join, JoinNobody

\* After a signal the process (main in server/aesdsocket.c, client_handler and
\* data_processing in server/socket.c) only ever goes on to its end, for any number
\* of connections and whatever fails: each has boundedly many steps left.
THEOREM ShutdownNeverTurnsBack == Spec => ShutdownMovesOn
<1>1. TypeOK /\ ListInv /\ [Next]_vars => [exit_requested => GoesOn]_vars
  <2> SUFFICES ASSUME TypeOK, ListInv, Next, exit_requested PROVE GoesOn
    OBVIOUS
  <2> QED
    BY ThreadGoesOn, ClientsGoOn, MainAlwaysGoesOn DEF Next, Signal
<1>2. [exit_requested => GoesOn]_vars =>
        [exit_requested =>
           /\ MainWay[mpc] <= MainWay[mpc']
           /\ \A w \in Connections : ThreadWay[wpc[w]] <= ThreadWay[wpc'[w]]
           /\ mpc # "create" => Len(thread_list') <= Len(thread_list)
           /\ UNCHANGED <<mpc, wpc, thread_list>> => UNCHANGED <<main, threads, files>>]_vars
  BY DEF GoesOn, MainGoesOn, ThreadsGoOn, ListGoesOn, OthersStand
<1> QED
  BY <1>1, <1>2, TypesInit, TypesNext, ListInit, ListNext, PTL DEF Spec, ShutdownMovesOn
=============================================================================
