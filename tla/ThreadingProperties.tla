-------------------------- MODULE ThreadingProperties --------------------------
(***************************************************************************)
(* What the threading example owes: memory that is freed once, by the      *)
(* joiner, and a main that ends.                                           *)
(***************************************************************************)
EXTENDS Threading

Running == {"sleep", "lock", "hold", "finish"}

\* Every variable has its type.
TypeOK ==
  /\ mpc \in {"start", "started", "join", "collect", "destroy", "return", "exited"}
  /\ round \in DOMAIN Sizes /\ turn \in 1 .. Sizes[round]
  /\ mutex \in Threads \cup {Free, Destroyed}
  /\ tpc \in [Threads -> Running \cup {"none", "ended"}]
  /\ block \in [Threads -> {"none", "live", "freed"}]
  /\ success \in [Threads -> BOOLEAN] /\ result \in [Threads -> BOOLEAN]

\* thread_data outlives everybody who uses it: the thread until it ends, and the
\* starter, which goes on using it after pthread_create when the thread may have
\* ended already; only the joiner frees it ("so it can be freed by the joiner
\* thread").
UsedBlocksAreLive ==
  /\ \A t \in Threads : tpc[t] \in Running => block[t] = "live"
  /\ mpc = "started" => block[Current] = "live"
  /\ mpc = "collect" /\ result[Current] => block[Current] = "live"

\* main has dealt with the round r.
Over(r) == r < round \/ mpc \in {"destroy", "return", "exited"}

\* Somebody of round r could not be started.
Halved(r) == \E i \in 1 .. Sizes[r] : tpc[<<r, i>>] = "none"

\* When a round is over, the threads that were joined have succeeded and their
\* memory is freed; what is left allocated, or running with the mutex destroyed
\* under it, belongs to a round that could not be started completely.
RoundsAreSettled ==
  \A t \in Threads :
    Over(t[1]) => \/ tpc[t] = "ended" /\ success[t] /\ block[t] = "freed"
                  \/ tpc[t] = "none" /\ block[t] # "live"
                  \/ tpc[t] # "none" /\ Halved(t[1])

\* Nobody of the example waits for a thread that cannot bring the wait to an end:
\* pthread_join is called for threads that were created, and the mutex, which
\* nobody unlocks for another, belongs to a thread that is about to unlock it.
WaitsAreForRunners ==
  /\ mpc = "join" => tpc[Current] # "none"
  /\ mutex \in Threads => tpc[mutex] = "hold"

\* main ends, whatever cannot be started: it never waits for a thread that waits
\* for ever.
MainReturns == <>(mpc = "exited")
=============================================================================
