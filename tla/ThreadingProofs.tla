---------------------------- MODULE ThreadingProofs ----------------------------
(***************************************************************************)
(* The memory of the threading example, and who waits for whom in it, for  *)
(* any number of rounds and of threads in each, whatever cannot be         *)
(* started.                                                                *)
(***************************************************************************)
EXTENDS ThreadingProperties, TLAPS

Settled(t) == \/ tpc[t] = "ended" /\ success[t] /\ block[t] = "freed"
              \/ tpc[t] = "none" /\ block[t] # "live"
              \/ tpc[t] # "none" /\ Halved(t[1])

\* Where a thread of main's own round is, in each part of the round.
InRound(t) ==
  /\ mpc = "start"   => tpc[t] = "none" \/ (t[2] < turn /\ block[t] = "live")
  /\ mpc = "start"   => tpc[t] = "none" \/ tpc[t] \in Running \/ tpc[t] = "ended"
  /\ mpc = "start" /\ t[2] < turn     => tpc[t] # "none"
  /\ mpc = "started" => tpc[t] = "none" \/ (t[2] <= turn /\ block[t] = "live")
  /\ mpc = "started" /\ t[2] <= turn  => tpc[t] # "none"
  /\ mpc = "join"    => tpc[t] # "none" /\ block[t] = "live"
  /\ mpc = "join" /\ t[2] < turn      => tpc[t] = "ended"
  /\ mpc = "collect" => tpc[t] = "ended"
  /\ mpc = "collect" => block[t] = IF t[2] < turn THEN "freed" ELSE "live"

ThreadInv(t) ==
  /\ tpc[t] = "none"    => block[t] # "live"
  /\ tpc[t] \in Running => block[t] = "live"
  /\ tpc[t] = "ended" /\ mutex # Destroyed => success[t] /\ result[t]
  /\ t[1] > round => tpc[t] = "none"
  /\ t[1] = round => InRound(t)
  /\ Over(t[1])   => Settled(t)

Inv == /\ TypeOK
       /\ mutex = Destroyed => mpc \in {"return", "exited"}
       /\ \A t \in Threads : tpc[t] = "hold" => mutex = t
       /\ mpc \in {"destroy", "return", "exited"} => round = Len(Sizes)
       /\ \A t \in Threads : ThreadInv(t)

LEMMA SizesAreNumbers ==
  /\ Len(Sizes) \in Nat \ {0} /\ DOMAIN Sizes = 1 .. Len(Sizes)
  /\ \A r \in DOMAIN Sizes : Sizes[r] \in Nat \ {0}
BY SizesAssumption

LEMMA ThreadShape ==
  ASSUME NEW t \in Threads
  PROVE  /\ t[1] \in DOMAIN Sizes /\ t[2] \in 1 .. Sizes[t[1]]
         /\ t = <<t[1], t[2]>>
BY DEF Threads

LEMMA ThreadOf ==
  ASSUME NEW r \in DOMAIN Sizes, NEW i \in 1 .. Sizes[r]
  PROVE  <<r, i>> \in Threads
BY DEF Threads

LEMMA CurrentThread ==
  ASSUME TypeOK
  PROVE  Current \in Threads /\ Current[1] = round /\ Current[2] = turn
BY ThreadOf DEF TypeOK, Current

LEMMA InvInit == Init => Inv
<1> SUFFICES ASSUME Init PROVE Inv
  OBVIOUS
<1>1. TypeOK
  BY SizesAreNumbers DEF Init, TypeOK, Free, Running
<1>2. ASSUME NEW t \in Threads PROVE ThreadInv(t)
  BY ThreadShape, SizesAreNumbers
  DEF Init, ThreadInv, InRound, Over, Running
<1> QED
  BY <1>1, <1>2 DEF Inv, Init, Free, Destroyed

-----------------------------------------------------------------------------
(* A thread's own steps.                                                   *)

\* A step of thread t: only t's place changes among the threads', no block does, and
\* t neither starts nor stops being "none".
ThreadStep(t) ==
  /\ UNCHANGED <<place, block>>
  /\ tpc' = [tpc EXCEPT ![t] = tpc'[t]]
  /\ tpc[t] \in Running /\ tpc'[t] \in Running \cup {"ended"}

LEMMA ThreadStepInv ==
  ASSUME Inv, TypeOK', NEW t \in Threads, ThreadStep(t),
         mutex' = Destroyed <=> mutex = Destroyed,
         \A u \in Threads : tpc'[u] = "hold" => mutex' = u,
         \A u \in Threads \ {t} : success'[u] = success[u] /\ result'[u] = result[u],
         tpc'[t] = "ended" /\ mutex # Destroyed => success'[t] /\ result'[t]
  PROVE  Inv'
<1>1. mpc' = mpc /\ round' = round /\ turn' = turn /\ block' = block
  BY DEF ThreadStep, place
<1>2. tpc[t] \in Running /\ tpc'[t] \in Running \cup {"ended"}
  BY DEF ThreadStep
<1>3. \A u \in Threads : u # t => tpc'[u] = tpc[u]
  BY DEF ThreadStep, Inv, TypeOK
<1>4. ASSUME NEW u \in Threads, Halved(u[1]) PROVE Halved(u[1])'
  <2> PICK i \in 1 .. Sizes[u[1]] : tpc[<<u[1], i>>] = "none"
    BY <1>4 DEF Halved
  <2>1. <<u[1], i>> \in Threads /\ <<u[1], i>> # t
    BY <1>2, ThreadShape, ThreadOf DEF Running
  <2> QED
    BY <1>3, <2>1 DEF Halved
<1>5. ASSUME NEW u \in Threads PROVE ThreadInv(u)'
  <2>1. ThreadInv(u)
    BY DEF Inv
  <2>2. CASE u # t
    <3>1. /\ tpc'[u] = tpc[u] /\ block'[u] = block[u]
          /\ success'[u] = success[u] /\ result'[u] = result[u]
      BY <1>1, <1>3, <2>2
    <3>2. InRound(u) => InRound(u)'
      BY <1>1, <3>1 DEF InRound, Running
    <3>3. Settled(u) => Settled(u)'
      BY <3>1, <1>4 DEF Settled
    <3>4. Over(u[1])' => Over(u[1])
      BY <1>1 DEF Over
    <3> QED
      BY <1>1, <2>1, <3>1, <3>2, <3>3, <3>4 DEF ThreadInv, Running
  <2>3. CASE u = t
    <3>1. block[t] = "live" /\ tpc[t] # "none" /\ tpc[t] # "ended" /\ tpc'[t] # "none"
      BY <1>2, <2>1, <2>3 DEF ThreadInv, Running
    <3>2. Settled(t) => Halved(t[1])
      BY <3>1 DEF Settled
    <3>3. InRound(t) => InRound(t)'
      BY <1>1, <1>2, <3>1 DEF InRound, Running
    <3>4. Over(t[1])' => Over(t[1])
      BY <1>1 DEF Over
    <3>5. Halved(t[1])' => Settled(t)'
      BY <1>2, <3>1 DEF Settled
    <3>6. Over(t[1])' => Settled(t)'
      BY <1>4, <2>1, <2>3, <3>2, <3>4, <3>5 DEF ThreadInv
    <3> QED
      BY <1>1, <2>1, <2>3, <3>1, <3>3, <3>6 DEF ThreadInv, Running
  <2> QED
    BY <2>2, <2>3
<1> QED
  BY <1>1, <1>5 DEF Inv

LEMMA OwnersAreThreads == \A t \in Threads : t # Free /\ t # Destroyed
BY ThreadShape, SizesAreNumbers DEF Free, Destroyed

LEMMA ThreadNext ==
  ASSUME Inv, NEW t \in Threads, Thread(t)
  PROVE  Inv'
<1> USE DEF Inv, Goto, ThreadStep, TypeOK, Running, place, outcome
<1> SUFFICES ASSUME TypeOK, \A u \in Threads : tpc[u] = "hold" => mutex = u
             PROVE  Inv'
  OBVIOUS
<1>1. CASE WakeUp(t)
  BY <1>1, ThreadStepInv DEF WakeUp
<1>2. CASE Lock(t)
  <2>1. /\ mutex' = Destroyed <=> mutex = Destroyed
        /\ \A u \in Threads : tpc'[u] = "hold" => mutex' = u
    BY <1>2, OwnersAreThreads DEF Lock, Free, Destroyed
  <2>2. TypeOK' /\ ThreadStep(t)
    BY <1>2 DEF Lock
  <2> QED
    BY <1>2, <2>1, <2>2, ThreadStepInv DEF Lock
<1>3. CASE LockFails(t)
  BY <1>3, ThreadStepInv DEF LockFails
<1>4. CASE Unlock(t)
  <2>1. /\ mutex' = Destroyed <=> mutex = Destroyed
        /\ \A u \in Threads : tpc'[u] = "hold" => mutex' = u
    BY <1>4, OwnersAreThreads DEF Unlock, Free, Destroyed
  <2>2. TypeOK' /\ ThreadStep(t)
    BY <1>4 DEF Unlock
  <2> QED
    BY <1>4, <2>1, <2>2, ThreadStepInv DEF Unlock
<1>5. CASE Finish(t)
  BY <1>5, ThreadStepInv DEF Finish
<1> QED
  BY <1>1, <1>2, <1>3, <1>4, <1>5 DEF Thread

-----------------------------------------------------------------------------
(* main's steps.                                                           *)

\* The end of a round, for which each of its threads must be settled.
LEMMA RoundEnds ==
  ASSUME Inv, NextRound, UNCHANGED <<mutex, tpc, outcome>>, mpc \in {"start", "collect"},
         block' \in [Threads -> {"none", "live", "freed"}],
         \A t \in Threads : t[1] # round => block'[t] = block[t],
         \A t \in Threads : t[1] = round =>
           /\ Settled(t)'
           /\ tpc[t] = "none"    => block'[t] # "live"
           /\ tpc[t] \in Running => block'[t] = "live"
  PROVE  Inv'
<1>1. TypeOK /\ round \in 1 .. Len(Sizes)
  BY SizesAreNumbers DEF Inv, TypeOK
<1>2. \/ mpc' = "start"   /\ round' = round + 1 /\ round' \in DOMAIN Sizes
      \/ mpc' = "destroy" /\ round' = round /\ round = Len(Sizes)
  <2>1. CASE round < Len(Sizes)
    <3>1. mpc' = "start" /\ round' = round + 1
      BY <2>1 DEF NextRound
    <3>2. round + 1 \in 1 .. Len(Sizes)
      BY <1>1, <2>1, SizesAreNumbers
    <3> QED
      BY <3>1, <3>2, SizesAreNumbers
  <2>2. CASE ~(round < Len(Sizes))
    <3>1. mpc' = "destroy" /\ round' = round
      BY <2>2 DEF NextRound
    <3>2. round <= Len(Sizes) /\ ~(round < Len(Sizes)) /\ round \in Int /\ Len(Sizes) \in Int
      BY <1>1, <2>2, SizesAreNumbers
    <3>3. round = Len(Sizes)
      BY <3>2
    <3> QED
      BY <3>1, <3>3
  <2> QED
    BY <2>1, <2>2
<1>3. TypeOK'
  BY <1>1, <1>2, SizesAreNumbers DEF TypeOK, NextRound, outcome
<1>4. ASSUME NEW t \in Threads PROVE ThreadInv(t)'
  <2>1. ThreadInv(t) /\ t[1] \in 1 .. Len(Sizes) /\ t[2] \in Nat \ {0}
    BY ThreadShape, SizesAreNumbers DEF Inv
  <2>2. t[1] >= round' => tpc[t] = "none" \/ mpc' = "destroy"
    BY <1>1, <1>2, <2>1 DEF ThreadInv
  <2>3. t[1] = round' => InRound(t)'
    BY <1>2, <2>1, <2>2 DEF InRound, NextRound
  <2>4. t[1] > round' => tpc'[t] = "none"
    BY <1>1, <1>2, <2>1 DEF ThreadInv
  <2>5. Over(t[1])' => t[1] <= round
    BY <1>1, <1>2, <2>1 DEF Over
  <2>6. t[1] < round => Settled(t)'
    BY <1>1, <2>1 DEF ThreadInv, Over, Settled, Halved, outcome
  <2>7. Over(t[1])' => Settled(t)'
    BY <1>1, <2>1, <2>5, <2>6
  <2> QED
    BY <2>1, <2>3, <2>4, <2>7 DEF ThreadInv, outcome
<1> QED
  BY <1>2, <1>3, <1>4 DEF Inv

\* A step within a round: the others' threads stay as they are.
LEMMA RoundGoesOn ==
  ASSUME Inv, TypeOK', UNCHANGED <<round, mutex, outcome>>,
         mpc \notin {"destroy", "return", "exited"},
         mpc' \notin {"destroy", "return", "exited"},
         \A t \in Threads : t[1] # round => block'[t] = block[t] /\ tpc'[t] = tpc[t],
         \A t \in Threads : tpc'[t] = "hold" => tpc[t] = "hold",
         \A t \in Threads : t[1] = round =>
           /\ InRound(t)'
           /\ tpc'[t] = "none"    => block'[t] # "live"
           /\ tpc'[t] \in Running => block'[t] = "live"
           /\ tpc'[t] = "ended"   => tpc[t] = "ended"
  PROVE  Inv'
<1>1. TypeOK /\ round \in Nat
  BY SizesAreNumbers DEF Inv, TypeOK
<1>2. ASSUME NEW t \in Threads PROVE ThreadInv(t)'
  <2>1. ThreadInv(t) /\ t[1] \in Nat
    BY ThreadShape, SizesAreNumbers DEF Inv
  <2>2. Over(t[1])' => Over(t[1]) /\ t[1] # round
    BY <1>1, <2>1 DEF Over
  <2>3. ASSUME t[1] # round, Halved(t[1]) PROVE Halved(t[1])'
    <3> PICK i \in 1 .. Sizes[t[1]] : tpc[<<t[1], i>>] = "none"
      BY <2>3 DEF Halved
    <3> QED
      BY <2>3, ThreadShape, ThreadOf DEF Halved
  <2>4. Over(t[1])' => Settled(t)'
    BY <2>1, <2>2, <2>3 DEF ThreadInv, Settled, outcome
  <2> QED
    BY <1>1, <2>1, <2>4 DEF ThreadInv, outcome
<1> QED
  BY <1>2 DEF Inv

LEMMA MainNext ==
  ASSUME Inv, Main
  PROVE  Inv'
<1>0. /\ TypeOK /\ Current \in Threads /\ Current[1] = round /\ Current[2] = turn
      /\ round \in Nat \ {0} /\ turn \in Nat \ {0} /\ Sizes[round] \in Nat \ {0}
  BY CurrentThread, SizesAreNumbers DEF Inv, TypeOK
<1>1. \A t \in Threads : t # Current => t[1] # round \/ t[2] # turn
  BY ThreadShape DEF Current
<1>2. \A t \in Threads : t[1] = round => t[2] \in 1 .. Sizes[round]
  BY ThreadShape
<1>3. \A t \in Threads : ThreadInv(t)
  BY DEF Inv
<1>4. CASE Create
  <2>1. mpc = "start" /\ mpc' = "started" /\ UNCHANGED <<round, turn, mutex, outcome>>
    BY <1>4 DEF Create, Stay
  <2>2. TypeOK'
    BY <1>0, <1>4, <2>1 DEF Create, TypeOK, Running, outcome
  <2>3. /\ tpc'[Current] = "sleep" /\ block'[Current] = "live"
        /\ \A t \in Threads : t # Current => tpc'[t] = tpc[t] /\ block'[t] = block[t]
    BY <1>0, <1>4 DEF Create, TypeOK
  <2>4. ASSUME NEW t \in Threads, t[1] = round
        PROVE  InRound(t)' /\ (tpc'[t] = "none" => block'[t] # "live")
               /\ (tpc'[t] \in Running => block'[t] = "live")
               /\ (tpc'[t] = "ended" => tpc[t] = "ended")
    BY <1>0, <1>1, <1>2, <1>3, <2>1, <2>3, <2>4 DEF ThreadInv, InRound, Running
  <2> QED
    BY <1>0, <2>1, <2>2, <2>3, <2>4, RoundGoesOn
<1>5. CASE StartFails
  <2>1. tpc[Current] = "none"
    BY <1>0, <1>3, <1>5 DEF StartFails, ThreadInv, InRound
  <2>2. /\ block' \in [Threads -> {"none", "live", "freed"}]
        /\ block'[Current] # "live"
        /\ \A t \in Threads : t # Current => block'[t] = block[t]
    BY <1>0, <1>3, <1>5, <2>1 DEF StartFails, ThreadInv, TypeOK
  <2>3. mpc = "start" /\ NextRound /\ UNCHANGED <<mutex, tpc, outcome>>
    BY <1>5 DEF StartFails
  <2>4. ASSUME NEW t \in Threads, t[1] = round
        PROVE  /\ Settled(t)'
               /\ tpc[t] = "none"    => block'[t] # "live"
               /\ tpc[t] \in Running => block'[t] = "live"
    <3>1. turn \in 1 .. Sizes[t[1]] /\ tpc'[<<t[1], turn>>] = "none"
      BY <1>0, <2>1, <2>3, <2>4 DEF Current, TypeOK
    <3>2. Halved(t[1])'
      BY <3>1 DEF Halved
    <3>3. ThreadInv(t)
      BY <1>3
    <3>4. block'[t] = block[t] \/ t = Current
      BY <2>2
    <3>5. Settled(t)'
      BY <2>1, <2>2, <2>3, <3>2, <3>3, <3>4 DEF Settled, ThreadInv
    <3> QED
      BY <2>1, <2>2, <3>3, <3>4, <3>5 DEF ThreadInv, Running
  <2>5. \A t \in Threads : t[1] # round => block'[t] = block[t]
    BY <1>0, <2>2
  <2> QED
    BY <2>2, <2>3, <2>4, <2>5, RoundEnds
<1>6. CASE NoteId
  <2>1. /\ mpc = "started" /\ UNCHANGED <<round, mutex, tpc, block, outcome>>
        /\ \/ turn < Sizes[round] /\ mpc' = "start" /\ turn' = turn + 1
           \/ turn = Sizes[round] /\ mpc' = "join"  /\ turn' = 1
    BY <1>0, <1>6 DEF NoteId, NextThread, TypeOK
  <2>2. TypeOK'
    BY <1>0, <2>1 DEF TypeOK, outcome
  <2>3. ASSUME NEW t \in Threads, t[1] = round PROVE InRound(t)'
    BY <1>0, <1>2, <1>3, <2>1, <2>3 DEF ThreadInv, InRound, TypeOK
  <2> QED
    BY <1>3, <2>1, <2>2, <2>3, RoundGoesOn DEF ThreadInv
<1>7. CASE Join
  <2>1. /\ mpc = "join" /\ UNCHANGED <<round, mutex, tpc, block, outcome>>
        /\ tpc[Current] = "ended"
        /\ \/ turn < Sizes[round] /\ mpc' = "join"    /\ turn' = turn + 1
           \/ turn = Sizes[round] /\ mpc' = "collect" /\ turn' = 1
    BY <1>0, <1>7 DEF Join, NextThread, TypeOK
  <2>2. TypeOK'
    BY <1>0, <2>1 DEF TypeOK, outcome
  <2>3. ASSUME NEW t \in Threads, t[1] = round PROVE InRound(t)'
    BY <1>0, <1>1, <1>2, <1>3, <2>1, <2>3 DEF ThreadInv, InRound
  <2> QED
    BY <1>3, <2>1, <2>2, <2>3, RoundGoesOn DEF ThreadInv
<1>8. CASE Collect
  <2>1. /\ mpc = "collect" /\ UNCHANGED <<mutex, tpc, outcome>>
        /\ mutex # Destroyed
    BY <1>8 DEF Collect, Inv
  <2>2. result[Current] /\ tpc[Current] = "ended"
    BY <1>0, <1>3, <2>1 DEF ThreadInv, InRound
  <2>3. /\ block' \in [Threads -> {"none", "live", "freed"}]
        /\ block'[Current] = "freed"
        /\ \A t \in Threads : t # Current => block'[t] = block[t]
    BY <1>0, <1>8, <2>2 DEF Collect, TypeOK
  <2>4. CASE turn < Sizes[round]
    <3>1. mpc' = "collect" /\ turn' = turn + 1 /\ UNCHANGED round
      BY <1>8, <2>4 DEF Collect, NextThread
    <3>2. TypeOK'
      BY <1>0, <2>1, <2>3, <2>4, <3>1 DEF TypeOK, outcome
    <3>3. ASSUME NEW t \in Threads, t[1] = round
          PROVE  InRound(t)' /\ tpc[t] = "ended"
      BY <1>0, <1>1, <1>2, <1>3, <2>1, <2>3, <3>1, <3>3 DEF ThreadInv, InRound
    <3> QED
      BY <1>0, <2>1, <2>3, <3>1, <3>2, <3>3, RoundGoesOn DEF Running
  <2>5. CASE ~(turn < Sizes[round])
    <3>1. turn = Sizes[round] /\ NextRound
      BY <1>0, <1>8, <2>5 DEF Collect, TypeOK
    <3>2. ASSUME NEW t \in Threads, t[1] = round
          PROVE  tpc[t] = "ended" /\ success[t] /\ block'[t] = "freed"
      BY <1>0, <1>1, <1>2, <1>3, <2>1, <2>3, <3>1, <3>2 DEF ThreadInv, InRound
    <3> QED
      BY <1>0, <2>1, <2>3, <3>1, <3>2, RoundEnds DEF Settled, Running, outcome
  <2> QED
    BY <2>4, <2>5
<1>9. CASE Destroy \/ Return
  <2>1. /\ mpc \in {"destroy", "return"} /\ mpc' \in {"return", "exited"}
        /\ UNCHANGED <<round, turn, tpc, block, outcome>>
        /\ mutex' = mutex \/ (mutex = Free /\ mutex' = Destroyed)
    BY <1>9 DEF Destroy, Return, Stay
  <2>2. TypeOK'
    BY <1>0, <2>1 DEF TypeOK, outcome
  <2>3. ASSUME NEW t \in Threads, tpc'[t] = "hold" PROVE mutex' = t
    BY <2>1, <2>3, OwnersAreThreads DEF Inv
  <2>4. ASSUME NEW t \in Threads PROVE ThreadInv(t)'
    <3>1. Over(t[1]) /\ (Settled(t) => Settled(t)')
      BY <2>1 DEF Over, Settled, Halved, outcome
    <3>2. mutex' # Destroyed => mutex # Destroyed
      BY <2>1 DEF Free, Destroyed
    <3> QED
      BY <1>3, <2>1, <3>1, <3>2 DEF ThreadInv, InRound, outcome
  <2> QED
    BY <2>1, <2>2, <2>3, <2>4 DEF Inv
<1> QED
  BY <1>4, <1>5, <1>6, <1>7, <1>8, <1>9 DEF Main

-----------------------------------------------------------------------------
LEMMA InvNext == Inv /\ [Next]_vars => Inv'
<1>1. ASSUME Inv, UNCHANGED vars PROVE Inv'
  BY <1>1 DEF Inv, TypeOK, ThreadInv, InRound, Over, Settled, Halved, Current,
              vars, place, outcome
<1> QED
  BY <1>1, MainNext, ThreadNext DEF Next

\* The thread_data of examples/threading outlives its thread and start_thread_
\* obtaining_mutex's last look at it, in any number of rounds.
THEOREM BlocksOutliveUse == Spec => []UsedBlocksAreLive
<1>1. ASSUME Inv PROVE UsedBlocksAreLive
  <2>1. Current \in Threads /\ Current[1] = round /\ Current[2] = turn /\ turn \in Nat
    BY <1>1, CurrentThread, SizesAreNumbers DEF Inv, TypeOK
  <2> QED
    BY <1>1, <2>1 DEF Inv, UsedBlocksAreLive, ThreadInv, InRound
<1> QED
  BY <1>1, InvInit, InvNext, PTL DEF Spec

\* main.c leaves nothing of a round behind that it could start completely: the
\* threads have ended well, and the joiner has freed what they returned.
THEOREM RoundsSettle == Spec => []RoundsAreSettled
<1>1. Inv => RoundsAreSettled
  BY DEF Inv, RoundsAreSettled, ThreadInv, Settled
<1> QED
  BY <1>1, InvInit, InvNext, PTL DEF Spec

\* Every variable of the example has its type: main.c never deals with a thread or a
\* round that does not exist, in any number of rounds.
THEOREM ThreadingTypes == Spec => []TypeOK
<1>1. Inv => TypeOK
  BY DEF Inv
<1> QED
  BY <1>1, InvInit, InvNext, PTL DEF Spec
-----------------------------------------------------------------------------
(* Whom they wait for: pthread_join is for threads that run or have run    *)
(* (InRound), and the mutex is unlocked in the step its owner leaves       *)
(* "hold" with, so that an owner is never anywhere else.                   *)

OwnerHolds == mutex \in Threads => tpc[mutex] = "hold"

LEMMA OwnerHoldsInit == Init => OwnerHolds
BY OwnersAreThreads DEF Init, OwnerHolds

LEMMA OwnerHoldsNext == Inv /\ OwnerHolds /\ [Next]_vars => OwnerHolds'
<1> SUFFICES ASSUME Inv, OwnerHolds, [Next]_vars, mutex' \in Threads
             PROVE  tpc'[mutex'] = "hold"
  BY DEF OwnerHolds
<1>0. tpc \in [Threads -> Running \cup {"none", "ended"}]
  BY DEF Inv, TypeOK
<1>1. CASE UNCHANGED vars
  BY <1>1 DEF OwnerHolds, vars
<1>2. CASE Create
  <2>1. Current \in Threads /\ tpc[Current] = "none"
    BY <1>2, CurrentThread, SizesAreNumbers DEF Inv, TypeOK, Create, ThreadInv, InRound
  <2> QED
    BY <1>0, <1>2, <2>1 DEF Create, OwnerHolds
<1>3. CASE StartFails \/ NoteId \/ Join \/ Collect \/ Return
  BY <1>3 DEF StartFails, NoteId, Join, Collect, Return, OwnerHolds
<1>4. CASE Destroy
  BY <1>4, OwnersAreThreads DEF Destroy, OwnerHolds
<1>5. ASSUME NEW t \in Threads, Thread(t) PROVE tpc'[mutex'] = "hold"
  <2>1. CASE Lock(t)
    BY <1>0, <2>1 DEF Lock, Goto
  <2>2. CASE Unlock(t)
    BY <2>2, OwnersAreThreads DEF Unlock
  <2>3. CASE WakeUp(t) \/ LockFails(t) \/ Finish(t)
    <3>1. mutex' = mutex /\ \A u \in Threads : tpc[u] = "hold" => tpc'[u] = "hold"
      BY <1>0, <2>3 DEF WakeUp, LockFails, Finish, Goto
    <3> QED
      BY <3>1 DEF OwnerHolds
  <2> QED
    BY <1>5, <2>1, <2>2, <2>3 DEF Thread
<1> QED
  BY <1>1, <1>2, <1>3, <1>4, <1>5 DEF Next, Main

\* Nobody of examples/threading waits in vain: what main passes to pthread_join is a
\* thread that was created, and the owner of the mutex is in threadfunc between its
\* two calls.
THEOREM NobodyWaitsInVain == Spec => []WaitsAreForRunners
<1>1. ASSUME Inv, OwnerHolds PROVE WaitsAreForRunners
  <2>1. Current \in Threads /\ Current[1] = round /\ ThreadInv(Current)
    BY <1>1, CurrentThread DEF Inv
  <2>2. mpc = "join" => tpc[Current] # "none"
    BY <2>1 DEF ThreadInv, InRound
  <2> QED
    BY <1>1, <2>2 DEF OwnerHolds, WaitsAreForRunners
<1> QED
  BY <1>1, InvInit, InvNext, OwnerHoldsInit, OwnerHoldsNext, PTL DEF Spec

=============================================================================
