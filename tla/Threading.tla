------------------------------- MODULE Threading -------------------------------
(***************************************************************************)
(* The threading example (examples/threading): main starts threads that    *)
(* each hold one mutex for a while, joins them and frees what they return. *)
(*                                                                         *)
(* main works in rounds, the if statements of its body: it starts the      *)
(* threads of a round one after the other, and when all of them could be   *)
(* started, joins them in order and then frees their thread_data in order. *)
(* When one cannot be started the round is over at once: the threads       *)
(* already started are left alone.  Thread <<r, i>> is the i-th of round   *)
(* r; main.c has one thread in its first round and two in its second.      *)
(*                                                                         *)
(* How long the threads sleep is left open: whatever order wait_to_obtain  *)
(* and wait_to_release lead to is a behaviour of the model.  A default     *)
(* mutex refuses to be locked only after its destruction, and to be        *)
(* destroyed only while it is locked.                                      *)
(***************************************************************************)
EXTENDS Integers, Sequences

CONSTANTS Sizes,   \* how many threads main starts in each round
          Faults   \* which calls of the starter may fail: "malloc", "pthread_create"

ASSUME SizesAssumption == Sizes \in Seq(Nat \ {0}) /\ Sizes # << >>

VARIABLES mpc, round, turn,  \* where main is: its round and the thread it deals with
          mutex,             \* its owner, Free or Destroyed
          tpc,               \* where each thread is in threadfunc
          block,             \* each thread's thread_data
          success,           \* its thread_complete_success
          result             \* whether the thread returns its thread_data, or NULL

place   == <<mpc, round, turn>>
outcome == <<success, result>>
vars    == <<place, mutex, tpc, block, outcome>>

Threads == UNION {{<<r, i>> : i \in 1 .. Sizes[r]} : r \in DOMAIN Sizes}
Current == <<round, turn>>

\* The states of the mutex when nobody owns it.
Free      == <<0, 0>>
Destroyed == <<0, 1>>

Init ==
  /\ mpc = "start" /\ round = 1 /\ turn = 1
  /\ mutex   = Free
  /\ tpc     = [t \in Threads |-> "none"]
  /\ block   = [t \in Threads |-> "none"]
  /\ success = [t \in Threads |-> FALSE]
  /\ result  = [t \in Threads |-> FALSE]

-----------------------------------------------------------------------------
(* main and start_thread_obtaining_mutex.                                  *)

Stay(label) == mpc' = label /\ UNCHANGED <<round, turn>>

\* The next thread of the round, or after the last one the next part of it.
NextThread(label, after) ==
  IF turn < Sizes[round]
  THEN mpc' = label /\ turn' = turn + 1 /\ UNCHANGED round
  ELSE mpc' = after /\ turn' = 1        /\ UNCHANGED round

NextRound == /\ IF round < Len(Sizes)
                THEN mpc' = "start"   /\ round' = round + 1
                ELSE mpc' = "destroy" /\ UNCHANGED round
             /\ turn' = 1

\* malloc and pthread_create: the thread runs, with its thread_data.
Create ==
  /\ mpc = "start" /\ Stay("started")
  /\ tpc'   = [tpc   EXCEPT ![Current] = "sleep"]
  /\ block' = [block EXCEPT ![Current] = "live"]
  /\ UNCHANGED <<mutex, outcome>>

\* malloc fails, or pthread_create does and the block is freed.  A fault: it is
\* not freed.
StartFailsAndKeeps ==
  /\ Faults # {}
  /\ mpc = "start" /\ NextRound
  /\ block' = [block EXCEPT ![Current] = "live"]
  /\ UNCHANGED <<mutex, tpc, outcome>>

\* A fault: main joins whatever it could not start, || in its condition for &&.
StartFailsUnnoticed == /\ Faults # {} /\ mpc = "start" /\ NextThread("start", "join")
                       /\ UNCHANGED <<mutex, tpc, block, outcome>>

StartFails ==
  /\ mpc = "start" /\ NextRound
  /\ \/ "malloc" \in Faults /\ UNCHANGED block
     \/ "pthread_create" \in Faults /\ block' = [block EXCEPT ![Current] = "freed"]
  /\ UNCHANGED <<mutex, tpc, outcome>>

\* The starter notes the thread's id in the block and reads its fields, while the
\* thread may run, or may have ended.
NoteId ==
  /\ mpc = "started"
  /\ NextThread("start", "join")
  /\ UNCHANGED <<mutex, tpc, block, outcome>>

Join ==
  /\ mpc = "join" /\ tpc[Current] = "ended"
  /\ NextThread("join", "collect")
  /\ UNCHANGED <<mutex, tpc, block, outcome>>

\* A result that is not NULL is printed and freed.
Collect ==
  /\ mpc = "collect"
  /\ IF result[Current] THEN block' = [block EXCEPT ![Current] = "freed"]
                        ELSE UNCHANGED block
  /\ IF turn < Sizes[round] THEN NextThread("collect", "collect") ELSE NextRound
  /\ UNCHANGED <<mutex, tpc, outcome>>

\* pthread_mutex_destroy does nothing to a mutex that is locked, and nobody looks
\* at what it returns.
Destroy ==
  /\ mpc = "destroy" /\ Stay("return")
  /\ mutex' = IF mutex = Free THEN Destroyed ELSE mutex
  /\ UNCHANGED <<tpc, block, outcome>>

\* The end of main ends the process and every thread left in it.
Return == /\ mpc = "return" /\ Stay("exited")
          /\ UNCHANGED <<mutex, tpc, block, outcome>>

-----------------------------------------------------------------------------
(* threadfunc.                                                             *)

Goto(t, from, to) == tpc[t] = from /\ tpc' = [tpc EXCEPT ![t] = to]

WakeUp(t) == Goto(t, "sleep", "lock") /\ UNCHANGED <<place, mutex, block, outcome>>

Lock(t) ==
  /\ Goto(t, "lock", "hold")
  /\ mutex = Free /\ mutex' = t
  /\ UNCHANGED <<place, block, outcome>>

\* pthread_mutex_lock fails: the thread notes it and returns NULL.
LockFails(t) ==
  /\ Goto(t, "lock", "ended")
  /\ mutex = Destroyed
  /\ success' = [success EXCEPT ![t] = FALSE]
  /\ UNCHANGED <<place, mutex, block, result>>

\* A fault: the mutex stays locked.
UnlockNot(t) == Goto(t, "hold", "finish") /\ UNCHANGED <<place, mutex, block, outcome>>

Unlock(t) ==
  /\ Goto(t, "hold", "finish")
  /\ mutex' = Free
  /\ UNCHANGED <<place, block, outcome>>

\* A fault: the thread frees its block itself, as a detached thread would.
FinishAndFree(t) ==
  /\ Goto(t, "finish", "ended")
  /\ block' = [block EXCEPT ![t] = "freed"]
  /\ UNCHANGED <<place, mutex, outcome>>

Finish(t) ==
  /\ Goto(t, "finish", "ended")
  /\ success' = [success EXCEPT ![t] = TRUE]
  /\ result'  = [result  EXCEPT ![t] = TRUE]
  /\ UNCHANGED <<place, mutex, block>>

-----------------------------------------------------------------------------
Main      == Create \/ StartFails \/ NoteId \/ Join \/ Collect \/ Destroy \/ Return
Thread(t) == WakeUp(t) \/ Lock(t) \/ LockFails(t) \/ Unlock(t) \/ Finish(t)

Next == mpc # "exited" /\ (Main \/ \E t \in Threads : Thread(t))

\* Threads that can run do, and a thread that waits for the mutex gets it when it
\* is free again and again.
Fairness == WF_vars(Main) /\ \A t \in Threads : WF_vars(Thread(t)) /\ SF_vars(Lock(t))

Spec == Init /\ [][Next]_vars /\ Fairness
=============================================================================
