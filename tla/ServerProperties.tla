--------------------------- MODULE ServerProperties ---------------------------
(***************************************************************************)
(* What the server process owes its clients and its operator.              *)
(***************************************************************************)
EXTENDS SocketServer

\* Every variable has its type, and what main and the threads use as a descriptor
\* is one.
TypeOK ==
  /\ mpc \in {"setup", "listen", "while", "accept", "create", "close_listener",
              "close_main", "join", "exited", "crashed"}
  /\ exit_requested \in BOOLEAN
  /\ global_fd \in Fds \cup {None} /\ listen_fd \in Fds \cup {None}
  /\ current \in Connections \cup {None}
  /\ thread_list \in Seq(Connections)
  /\ mutex \in Connections \cup {"free", "destroyed"}
  /\ fds \in [Fds -> File]
  /\ wpc \in [Connections -> Started \cup {"away", "queued", "accepted", "refused", "never"}]
  /\ sock \in [Connections -> Fds \cup {None}] /\ dev \in [Connections -> Fds \cup {None}]
  /\ \A w \in Connections : wpc[w] \in Started \cup {"accepted", "never"} => sock[w] \in Fds
  /\ client \in [Connections -> {"idle", "part", "sent", "gone"}]

\* main destroys file_mutex, and ends the process, only after every thread it
\* has started is done with it.
MutexOutlivesThreads ==
  mutex = "destroyed" => \A w \in Connections : wpc[w] \in Started => wpc[w] = "ended"

\* Between opening a file and closing it a thread's descriptors stand for its own
\* files: nobody closes, or reuses, a number that another still uses.  A shutdown
\* closes one number up to three times (the signal handler, client_handler, main):
\* what a thread may lose to it is its device, and only under that number.
OwnFiles ==
  \A w \in Connections :
    /\ wpc[w] \in Started \ {"ended"} => fds[sock[w]] = Client(w)
    /\ wpc[w] \in Started \ {"open", "ended"} =>
         fds[dev[w]] = Device(w) \/ (exit_requested /\ dev[w] = listen_fd)

\* A thread that has ended has closed its connection.
EndedHaveClosed ==
  \A w \in Connections : wpc[w] = "ended" => \A n \in Fds : fds[n] # Client(w)

\* A signal gets main out of its loop, wherever it comes: also between the test
\* of exit_requested and a call of accept that no client would end.
InLoop == mpc \in {"while", "accept", "create"}
SignalEndsLoop == exit_requested ~> ~InLoop

\* After a signal the process ends, with every thread joined, unless main stays in
\* pthread_join for ever for a thread that waits for a client: its own client says
\* nothing, or does not read what it is sent; or another client does not read, and
\* send(2) blocks with file_mutex locked.  Nothing within the process holds the shutdown
\* up, no thread that missed the flag, no client that hung up, no lock but that one.
Blocked(w) == wpc[w] = "stream"
WaitsForClient(w) ==
  \/ wpc[w] = "recv" /\ client[w] = "idle"
  \/ Blocked(w)
  \/ /\ wpc[w] \in {"lock_write", "lock_stream"}
     /\ \E v \in Connections : mutex = v /\ Blocked(v)
JoinsWaiting ==
  mpc = "join" /\ thread_list # << >> /\ WaitsForClient(Head(thread_list))
OnlyClientsDelayShutdown ==
  <>exit_requested => <>~Running \/ <>[]JoinsWaiting

\* How far main, and a connection, have come once a signal has asked them to stop.
MainWay == [setup |-> 0, listen |-> 1, accept |-> 2, create |-> 3, while |-> 4,
            close_listener |-> 5, close_main |-> 6, join |-> 7, exited |-> 8, crashed |-> 8]
ThreadWay == [away |-> 0, queued |-> 1, accepted |-> 2, refused |-> 3, never |-> 3,
              open |-> 4, recv |-> 5, test |-> 6, lock_write |-> 7, write |-> 8,
              lock_stream |-> 9, stream |-> 10, close |-> 11, ended |-> 12]

\* After a signal nothing starts over: main does not go round its loop again nor a
\* thread round its own, and the list of those to join gets shorter once main
\* has left the loop, whatever fails; a step that moves none of them is a client's.
ShutdownMovesOn ==
  [][exit_requested =>
       /\ MainWay[mpc] <= MainWay[mpc']
       /\ \A w \in Connections : ThreadWay[wpc[w]] <= ThreadWay[wpc'[w]]
       /\ mpc # "create" => Len(thread_list') <= Len(thread_list)
       /\ UNCHANGED <<mpc, wpc, thread_list>> => UNCHANGED <<main, threads, files>>]_vars

\* As long as clients read their answers, one that has sent its line is answered, or
\* recv fails, and its thread ends, whatever the others send or do not send.
LineAnswered ==
  ClientsRead =>
    \A w \in Connections :
      client[w] = "sent" /\ wpc[w] = "recv" ~> wpc[w] = "ended"

\* A client that connects gets a thread, whatever the others send, and even if one that
\* does not read keeps all the others from being answered.
ClientAccepted ==
  \A w \in Connections : wpc[w] = "queued" ~> wpc[w] \in Started \/ exit_requested
=============================================================================
