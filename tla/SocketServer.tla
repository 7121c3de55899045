------------------------------ MODULE SocketServer ------------------------------
(***************************************************************************)
(* The life of the server process (server/aesdsocket.c, and setup_socket,  *)
(* client_handler and data_processing of server/socket.c): the main thread *)
(* sets up a listening socket, accepts connections and starts a thread for *)
(* each, until a signal asks it to stop; then it joins every thread and    *)
(* destroys the mutex.                                                     *)
(*                                                                         *)
(* What the threads do with the device is module AesdWorkers; here a call  *)
(* on the device is a step that ends.  What matters here is who waits for  *)
(* whom, and the descriptor table: fds[n] is the file that number n stands *)
(* for, a new file gets the lowest free number, and close(n) closes        *)
(* whatever n stands for by then.                                          *)
(*                                                                         *)
(* The signal handler runs on the main thread, as a step of its own        *)
(* between any two steps of it.                                            *)
(***************************************************************************)
EXTENDS Integers, FiniteSets, SequencesExt

CONSTANTS Connections,  \* the clients, each of which connects once
          Fds,          \* the descriptor numbers of the process
          Flagged,      \* those whose end_of_packet, which nobody initialises, is true
          Faults        \* which calls may fail: "start", "setup", "accept", "malloc",
                        \* "pthread_create", "open", "recv", "realloc"

ASSUME FdAssumption         == Fds \subseteq Nat /\ IsFiniteSet(Fds)
ASSUME ConnectionAssumption == {"free", "destroyed"} \cap Connections = {}
ASSUME FlaggedAssumption    == Flagged \subseteq Connections

VARIABLES mpc,             \* where the main thread is
          exit_requested,
          global_fd,       \* global_server_socket_fd
          listen_fd,       \* conn_info->_sockfd
          current,         \* the connection main has accepted last
          thread_list,     \* the nodes, latest first
          mutex,           \* file_mutex: its owner, "free" or "destroyed"
          fds,             \* the descriptor table
          wpc,             \* where each connection, later its thread, is
          sock, dev,       \* each thread's client socket and its /dev/aesdchar
          client           \* what each client has done last

signalled == <<exit_requested, global_fd>>
accepting == <<listen_fd, current, thread_list>>
main      == <<mpc, signalled, accepting>>
threads   == <<mutex, wpc, dev>>
files     == <<fds, sock>>
vars      == <<main, threads, files, client>>

None      == -1                                     \* a failed call's descriptor
Closed    == <<"closed">>
Listener  == <<"listener">>
Client(w) == <<"client", w>>
Device(w) == <<"device", w>>
File      == {Closed, Listener} \cup {Client(w) : w \in Connections}
                                \cup {Device(w) : w \in Connections}

Started == {"open", "test", "recv", "lock_write", "write", "lock_stream",
            "stream", "close", "ended"}

Init ==
  /\ mpc = "setup" /\ exit_requested = FALSE
  /\ global_fd = None /\ listen_fd = None
  /\ current = None /\ thread_list = << >>
  /\ mutex  = "free"
  /\ fds    = [n \in Fds |-> Closed]
  /\ wpc    = [w \in Connections |-> "away"]
  /\ sock   = [w \in Connections |-> None]
  /\ dev    = [w \in Connections |-> None]
  /\ client = [w \in Connections |-> "idle"]

FreeFds == {n \in Fds : fds[n] = Closed}
NewFd   == CHOOSE n \in FreeFds : \A m \in FreeFds : n <= m
Without(S) == [n \in Fds |-> IF n \in S THEN Closed ELSE fds[n]]

\* What accept finds at its descriptor is the listening socket.
Listening == listen_fd # None /\ fds[listen_fd] = Listener

MGoto(from, to)    == mpc = from /\ mpc' = to
WGoto(w, from, to) == wpc[w] = from /\ wpc' = [wpc EXCEPT ![w] = to]

\* A step of main, or of thread w, that changes nothing but its place; one of main
\* that closes descriptors.
MStep(from, to)    == MGoto(from, to)
                      /\ UNCHANGED <<signalled, accepting, threads, files, client>>
WStep(w, from, to) == WGoto(w, from, to) /\ UNCHANGED <<main, mutex, dev, files, client>>
MClose(from, to, n) == /\ MGoto(from, to) /\ fds' = Without({n})
                       /\ UNCHANGED <<signalled, accepting, threads, sock, client>>

Running == mpc \notin {"exited", "crashed"}

-----------------------------------------------------------------------------
(* The main thread: daemonize and setup_socket.                            *)

\* fork, setsid or chdir fails, or there is no memory for conn_info: the process ends
\* before it has done anything.
StartFails == "start" \in Faults /\ MStep("setup", "exited")

CreateSocket ==
  /\ MGoto("setup", "listen")
  /\ FreeFds # {}
  /\ fds' = [fds EXCEPT ![NewFd] = Listener] /\ listen_fd' = NewFd
  /\ UNCHANGED <<signalled, current, thread_list, threads, sock, client>>

\* socket() fails, or a later call does and the socket is closed again.
SetupFails ==
  /\ "setup" \in Faults
  /\ MClose("setup", "join", None) \/ MClose("listen", "close_main", listen_fd)

Listen ==
  /\ MGoto("listen", "while")
  /\ global_fd' = listen_fd
  /\ UNCHANGED <<exit_requested, accepting, threads, files, client>>

-----------------------------------------------------------------------------
(* The main thread: client_handler.                                        *)

TestExit == MStep("while", IF exit_requested THEN "close_listener" ELSE "accept")

\* The number accept returns is kept in the thread's connection_info.
Accepted(w, n) ==
  /\ MGoto("accept", "create") /\ Listening
  /\ WGoto(w, "queued", "accepted")
  /\ sock' = [sock EXCEPT ![w] = n] /\ current' = w
  /\ UNCHANGED <<signalled, listen_fd, thread_list, mutex, dev, client>>

\* A fault: accept's result is not compared with 0.
AcceptUnchecked(w) ==
  IF FreeFds = {} THEN Accepted(w, None) /\ UNCHANGED fds
  ELSE Accepted(w, NewFd) /\ fds' = [fds EXCEPT ![NewFd] = Client(w)]

Accept(w) ==
  /\ FreeFds # {}
  /\ Accepted(w, NewFd) /\ fds' = [fds EXCEPT ![NewFd] = Client(w)]

\* The listening socket is closed (EBADF, ENOTSOCK, EINTR), there is no
\* descriptor left, or the connection is lost before it is accepted.
AcceptFails ==
  /\ ~Listening \/ FreeFds = {} \/ "accept" \in Faults
  /\ MStep("accept", IF exit_requested THEN "close_listener" ELSE "while")

\* A node for the connection accepted last, and its thread goes to `place`.
NewNode(place) ==
  /\ MGoto("create", "while")
  /\ WGoto(current, "accepted", place)
  /\ thread_list' = <<current>> \o thread_list
  /\ UNCHANGED <<signalled, listen_fd, current, mutex, dev, sock, client>>

\* Two faults: main closes its copy of the socket, as a forking server must; main
\* waits for the threads it has started first.
CreateThreadAndClose == NewNode("open") /\ fds' = Without({sock[current]})

CreateThreadInTurn ==
  (\A w \in Range(thread_list) : wpc[w] = "ended") /\ NewNode("open") /\ UNCHANGED fds

CreateThread == NewNode("open") /\ UNCHANGED fds

\* One of the four mallocs fails: the connection is closed.
CreateNoMemory ==
  /\ "malloc" \in Faults
  /\ MGoto("create", "while")
  /\ WGoto(current, "accepted", "refused")
  /\ fds' = Without({sock[current]})
  /\ UNCHANGED <<signalled, accepting, mutex, dev, sock, client>>

\* pthread_create fails and nobody looks: there is a node, but no thread.
CreateFails == "pthread_create" \in Faults /\ NewNode("never") /\ UNCHANGED fds

\* After the loop client_handler closes its socket, and then main does.
CloseListener == MClose("close_listener", "close_main", listen_fd)

CloseMain == MClose("close_main", "join", listen_fd)

-----------------------------------------------------------------------------
(* The main thread: the end of main.                                       *)

\* The first node is taken off the list.
RemoveHead ==
  /\ mpc = "join" /\ thread_list # << >>
  /\ thread_list' = Tail(thread_list)
  /\ UNCHANGED <<mpc, signalled, listen_fd, current, threads, files, client>>

\* A fault: without pthread_join.
JoinNot == RemoveHead

Join == RemoveHead /\ wpc[Head(thread_list)] = "ended"

\* The thread was never created and data_node was never written: pthread_join
\* gets a number that is no thread's.  It fails, or the process does.
JoinNobody ==
  /\ thread_list # << >> /\ wpc[Head(thread_list)] = "never"
  /\ RemoveHead \/ MStep("join", "crashed")

Destroy ==
  /\ MGoto("join", "exited")
  /\ thread_list = << >>
  /\ mutex' = "destroyed"
  /\ UNCHANGED <<signalled, accepting, wpc, dev, files, client>>

-----------------------------------------------------------------------------
\* A fault: the handler only sets the flag.
SignalFlagOnly ==
  /\ ~exit_requested /\ exit_requested' = TRUE
  /\ UNCHANGED <<mpc, global_fd, accepting, threads, files, client>>

\* handle_signal_main.  A second signal finds global_server_socket_fd reset and
\* changes nothing.
Signal ==
  /\ ~exit_requested /\ exit_requested' = TRUE
  /\ fds' = Without({global_fd}) /\ global_fd' = None
  /\ UNCHANGED <<mpc, accepting, threads, sock, client>>

-----------------------------------------------------------------------------
(* A thread: data_processing.                                              *)

OpenDevice(w) ==
  /\ WGoto(w, "open", "test")
  /\ FreeFds # {}
  /\ fds' = [fds EXCEPT ![NewFd] = Device(w)]
  /\ dev' = [dev EXCEPT ![w] = NewFd]
  /\ UNCHANGED <<main, mutex, sock, client>>

\* open fails, for want of a descriptor or because the module is not loaded, or
\* fstat does and the device is closed: the thread returns at once.
OpenFails(w) == (FreeFds = {} \/ "open" \in Faults) /\ WStep(w, "open", "ended")

\* A fault: the loop of the thread does not look at exit_requested.
TestLoopNot(w) == WStep(w, "test", "recv")

TestLoop(w) == WStep(w, "test", IF exit_requested THEN "close" ELSE "recv")

\* recv returns the end of a line.
RecvLine(w) == client[w] = "sent" /\ WStep(w, "recv", "lock_write")

\* recv returns a part of a line, or 0, again and again, once the client has hung up.
\* end_of_packet is tested although there is no newline.
RecvPart(w) ==
  /\ client[w] \in {"part", "gone"}
  /\ WGoto(w, "recv", IF w \in Flagged THEN "lock_stream" ELSE "test")
  /\ client' = [client EXCEPT ![w] = IF @ = "part" THEN "idle" ELSE @]
  /\ UNCHANGED <<main, mutex, dev, files>>

RecvFails(w) == "recv" \in Faults /\ WStep(w, "recv", "close")

\* realloc fails, whatever recv has returned: the mutex is unlocked, whoever has locked
\* it, and the thread ends with its socket and its device open.
RecvNoMemory(w) ==
  /\ "realloc" \in Faults
  /\ client[w] # "idle"
  /\ WGoto(w, "recv", "ended") /\ mutex' = "free"
  /\ UNCHANGED <<main, dev, files, client>>

Lock(w) ==
  /\ WGoto(w, "lock_write", "write") \/ WGoto(w, "lock_stream", "stream")
  /\ mutex = "free" /\ mutex' = w
  /\ UNCHANGED <<main, dev, files, client>>

Unlock(w, from, to) ==
  WGoto(w, from, to) /\ mutex' = "free" /\ UNCHANGED <<main, dev, files, client>>

Write(w) == Unlock(w, "write", "lock_stream")

\* A fault: the mutex stays locked.
StreamKeepsMutex(w) == WStep(w, "stream", "close")

\* The whole reply has been taken by the client, or sending has failed.
Stream(w) == Unlock(w, "stream", "close")

\* The thread closes some of its descriptors and ends; a fault: the client's socket
\* is forgotten.
End(w, S) ==
  WGoto(w, "close", "ended") /\ fds' = Without(S) /\ UNCHANGED <<main, mutex, dev, sock, client>>

CloseDeviceOnly(w) == End(w, {dev[w]})

Close(w) == End(w, {dev[w], sock[w]})

-----------------------------------------------------------------------------
(* The clients: they may do nothing, but are not asked to send anything    *)
(* after a complete line.                                                  *)

Connect(w) ==
  /\ mpc \notin {"setup", "listen"} /\ Listening
  /\ WStep(w, "away", "queued")

Say(w, what) ==
  /\ wpc[w] # "away" /\ client[w] = "idle"
  /\ client' = [client EXCEPT ![w] = what]
  /\ UNCHANGED <<main, threads, files>>

SendLine(w) == Say(w, "sent")
SendPart(w) == Say(w, "part")
HangUp(w)   == Say(w, "gone")

-----------------------------------------------------------------------------
Main == \/ StartFails \/ CreateSocket \/ SetupFails \/ Listen
        \/ TestExit \/ (\E w \in Connections : Accept(w)) \/ AcceptFails
        \/ CreateThread \/ CreateNoMemory \/ CreateFails
        \/ CloseListener \/ CloseMain \/ Join \/ JoinNobody \/ Destroy

Thread(w) == \/ OpenDevice(w) \/ OpenFails(w) \/ TestLoop(w)
             \/ RecvLine(w) \/ RecvPart(w) \/ RecvFails(w) \/ RecvNoMemory(w)
             \/ Lock(w) \/ Write(w) \/ Close(w)

Clients == \E w \in Connections :
             Connect(w) \/ SendLine(w) \/ SendPart(w) \/ HangUp(w)

Next == /\ Running
        /\ \/ Main \/ Signal \/ Clients
           \/ \E w \in Connections : Thread(w) \/ Stream(w)

\* The scheduler runs every thread that can run, and the mutex lets every waiter
\* in sooner or later.
Fairness == /\ WF_vars(Running /\ Main)
            /\ \A w \in Connections : /\ WF_vars(Running /\ Thread(w))
                                      /\ SF_vars(Running /\ Lock(w))

\* Clients that take what they are sent.
ClientsRead == \A w \in Connections : WF_vars(Running /\ Stream(w))

Spec == Init /\ [][Next]_vars /\ Fairness
=============================================================================
