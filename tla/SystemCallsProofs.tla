--------------------------- MODULE SystemCallsProofs ---------------------------
(***************************************************************************)
(* The answers of the system call example, where the output of its         *)
(* commands goes and what is left of them, for any number of callers and   *)
(* whatever fails.                                                         *)
(***************************************************************************)
EXTENDS SystemCallsProperties, TLAPS

Ended == {"zombie", "reaped", "stolen"}

\* The descriptors of a child of a process whose standard output is s: as inherited, with
\* the file open under the number it gets, and as the command of a call of f gets them.
FileNumber(s) == IF s = "none" THEN 1 ELSE 3
Inherited(s)  == [n \in Fds |-> IF n = 1 THEN s ELSE "none"]
Opened(s)     == [n \in Fds |-> IF n = FileNumber(s) THEN "file" ELSE Inherited(s)[n]]
Given(f, s)   == [n \in Fds |-> IF n = 1 /\ f = "redirect" /\ s = "stdout" THEN "file"
                                ELSE IF n = 1 /\ f # "redirect" THEN s
                                ELSE "none"]

\* A child and the call it belongs to.
Phase(c) ==
  /\ cpc[c] \in {"idle", "fork", "wait_any"} => child[c].pc = "none"
  /\ cpc[c] = "wait" => child[c].pc \in Alive \cup {"stolen"}
  /\ cpc[c] = "done" => child[c].pc \in {"none", "reaped", "stolen"}
  /\ child[c].pc = "none" => ~child[c].ran

\* What a child has run, and the status it leaves.
Truth(c) ==
  /\ child[c].pc \in {"open", "redirect", "exec"} => ~child[c].ran
  /\ child[c].pc = "command" => child[c].ran
  /\ child[c].pc \in Ended /\ (child[c].status = 0 \/ Killed(child[c].status)) => child[c].ran
  /\ cpc[c] = "done" /\ child[c].pc = "reaped" =>
       result[c] = Verdict(fn[c], child[c].status)

Output(c) ==
  /\ child[c].pc = "open"     => fn[c] = "redirect" /\ child[c].fds = Inherited(stdout)
  /\ child[c].pc = "redirect" => fn[c] = "redirect" /\ child[c].fds = Opened(stdout)
  /\ child[c].pc = "exec" \/ child[c].ran => child[c].fds = Given(fn[c], stdout)

CallInv(c) == Phase(c) /\ Truth(c) /\ Output(c)

Inv == TypeOK /\ \A c \in Callers : CallInv(c)

-----------------------------------------------------------------------------
(* Statuses and descriptors.                                               *)

LEMMA StatusesOfCodes == \A code \in 0 .. 255 : Exited(code) \in Statuses /\ ~Killed(Exited(code))
BY DEF Exited, Statuses, Killed, WIFEXITED

LEMMA StatusesOfSignals ==
  \A sig \in Signals :
    /\ sig \in 1 .. 126
    /\ 0 + sig \in Statuses /\ 128 + sig \in Statuses /\ Exited(128 + sig) \in Statuses
    /\ 0 + sig # 0 /\ 128 + sig # 0 /\ Exited(128 + sig) # 0
<1> SUFFICES ASSUME NEW sig \in Signals
             PROVE  /\ sig \in 1 .. 126
                    /\ 0 + sig \in Statuses /\ 128 + sig \in Statuses
                    /\ Exited(128 + sig) \in Statuses
                    /\ 0 + sig # 0 /\ 128 + sig # 0 /\ Exited(128 + sig) # 0
  OBVIOUS
<1>1. sig \in 1 .. 126
  BY SignalsAssumption
<1>2. 128 + sig \in 0 .. 255 /\ 0 + sig \in 1 .. 126 /\ 128 + sig \in 129 .. 254
  BY <1>1
<1> QED
  BY <1>1, <1>2, StatusesOfCodes DEF Statuses, Exited

\* A status is that of an exit, or of a signal.
LEMMA StatusIs ==
  ASSUME NEW status \in Statuses
  PROVE  \/ Killed(status) /\ WEXITSTATUS(status) = 0 /\ status # 0
         \/ ~Killed(status) /\ (WEXITSTATUS(status) = 0 <=> status = 0)
<1>1. ASSUME NEW code \in 0 .. 255, status = 256 * code
      PROVE  ~Killed(status) /\ (WEXITSTATUS(status) = 0 <=> status = 0)
  <2>1. (256 * code) \div 256 = code /\ code % 256 = code /\ (256 * code) % 128 = 0
    OBVIOUS
  <2> QED
    BY <1>1, <2>1 DEF Killed, WIFEXITED, WEXITSTATUS
<1>2. ASSUME status \in 1 .. 126 \cup 129 .. 254
      PROVE  Killed(status) /\ WEXITSTATUS(status) = 0 /\ status # 0
  <2>1. status % 128 # 0 /\ status \div 256 = 0 /\ 0 % 256 = 0 /\ status # 0
    BY <1>2
  <2> QED
    BY <2>1 DEF Killed, WIFEXITED, WEXITSTATUS
<1> QED
  BY <1>1, <1>2 DEF Statuses

\* What the functions make of it.
LEMMA VerdictTells ==
  ASSUME NEW f \in Functions, NEW status \in Statuses
  PROVE  Verdict(f, status) <=> status = 0 \/ (f = "system" /\ Killed(status))
BY StatusIs DEF Verdict, Succeeded, SystemSucceeded, Killed

LEMMA FileGetsNumber ==
  ASSUME NEW s \in {"stdout", "none"}
  PROVE  LowestFree(Inherited(s)) = FileNumber(s) /\ FileOf(Opened(s)) = FileNumber(s)
<1>1. \A n \in Fds : Opened(s)[n] = "file" <=> n = FileNumber(s)
  BY DEF Opened, Inherited
<1>2. FileNumber(s) \in Fds
  BY DEF FileNumber, Fds
<1>3. \A n \in Fds : Inherited(s)[n] = "none" /\ (\A k \in Fds : Inherited(s)[k] = "none" => n <= k)
                     <=> n = FileNumber(s)
  BY DEF Inherited, FileNumber, Fds
<1> QED
  BY <1>1, <1>2, <1>3 DEF LowestFree, FileOf

LEMMA OpenedIsInherited ==
  ASSUME NEW s \in {"stdout", "none"}
  PROVE  [Inherited(s) EXCEPT ![FileNumber(s)] = "file"] = Opened(s)
BY DEF Inherited, Opened

LEMMA RedirectedIsGiven ==
  ASSUME NEW s \in {"stdout", "none"}
  PROVE  [[Opened(s) EXCEPT ![1] = "file"] EXCEPT ![FileNumber(s)] = "none"] = Given("redirect", s)
<1> DEFINE f == [Opened(s) EXCEPT ![1] = "file"]
<1>1. f = [n \in Fds |-> IF n = 1 THEN "file" ELSE Opened(s)[n]]
  BY DEF Opened
<1>2. [f EXCEPT ![FileNumber(s)] = "none"]
        = [n \in Fds |-> IF n = FileNumber(s) THEN "none" ELSE f[n]]
  BY <1>1
<1>3. \A n \in Fds : (IF n = FileNumber(s) THEN "none" ELSE f[n]) = Given("redirect", s)[n]
  BY <1>1 DEF Opened, Inherited, Given, Fds, FileNumber
<1> QED
  BY <1>2, <1>3 DEF Given

LEMMA VerdictIsBoolean == \A f, status : Verdict(f, status) \in BOOLEAN
BY DEF Verdict, Succeeded, SystemSucceeded

LEMMA InvInit == Init => Inv
<1> SUFFICES ASSUME Init PROVE Inv
  OBVIOUS
<1>1. TypeOK
  BY DEF Init, TypeOK, Children, Statuses, NoChild, Functions
<1>2. ASSUME NEW c \in Callers PROVE CallInv(c)
  BY DEF Init, CallInv, Phase, Truth, Output, NoChild, Ended
<1> QED
  BY <1>1, <1>2 DEF Inv

-----------------------------------------------------------------------------
(* The child's steps.                                                      *)

\* A step of c's child alone.
LEMMA ChildStep ==
  ASSUME Inv, NEW c \in Callers, NEW new \in Children,
         child' = [child EXCEPT ![c] = new],
         UNCHANGED <<cpc, fn, result, stdout>>,
         child[c].pc \in Alive \ {"zombie"}, new.pc \in Alive,
         Truth(c)', Output(c)'
  PROVE  Inv'
<1>1. TypeOK'
  BY DEF Inv, TypeOK
<1>2. \A d \in Callers : child'[d] = IF d = c THEN new ELSE child[d]
  BY DEF Inv, TypeOK
<1>3. cpc[c] = "wait"
  BY DEF Inv, CallInv, Phase, TypeOK, Alive
<1>4. ASSUME NEW d \in Callers PROVE CallInv(d)'
  <2>1. CASE d = c
    BY <1>2, <1>3, <2>1 DEF CallInv, Phase, Alive
  <2>2. CASE d # c
    BY <1>2, <2>2 DEF Inv, CallInv, Phase, Truth, Output
  <2> QED
    BY <2>1, <2>2
<1> QED
  BY <1>1, <1>4 DEF Inv

LEMMA ExitStep ==
  ASSUME Inv, NEW c \in Callers, NEW status \in Statuses,
         NEW from \in {"open", "redirect", "exec", "command"},
         Exit(c, from, status), status = 0 \/ Killed(status) => from = "command",
         UNCHANGED <<cpc, fn, result, stdout>>
  PROVE  Inv'
<1> DEFINE new == [child[c] EXCEPT !.pc = "zombie", !.status = status]
<1>1. child[c] \in Children /\ child[c].pc = from
  BY DEF Inv, TypeOK, Exit
<1>2. child' = [child EXCEPT ![c] = new]
  BY DEF Exit
<1>3. /\ new \in Children /\ new.pc = "zombie" /\ new.status = status
      /\ new.fds = child[c].fds /\ new.ran = child[c].ran
  BY <1>1 DEF Children, Alive
<1>4. child'[c] = new
  BY <1>2 DEF Inv, TypeOK
<1>5. Truth(c)'
  BY <1>1, <1>3, <1>4 DEF Inv, CallInv, Truth
<1>6. Output(c)'
  BY <1>1, <1>3, <1>4 DEF Inv, CallInv, Output
<1> QED
  BY <1>1, <1>2, <1>3, <1>5, <1>6, ChildStep DEF Alive

LEMMA ChildNext ==
  ASSUME Inv, NEW c \in Callers, Child(c)
  PROVE  Inv'
<1> DEFINE old == child[c]
<1>0. /\ UNCHANGED <<cpc, fn, result, stdout>>
      /\ old \in Children /\ CallInv(c) /\ stdout \in {"stdout", "none"}
      /\ old = [pc |-> old.pc, fds |-> old.fds, status |-> old.status, ran |-> old.ran]
  BY DEF Child, Inv, TypeOK, Children
<1>1. CASE Open(c)
  <2> DEFINE new == [old EXCEPT !.pc = "redirect", !.fds[LowestFree(old.fds)] = "file"]
  <2>1. old.pc = "open" /\ child' = [child EXCEPT ![c] = new]
    BY <1>1 DEF Open
  <2>2. /\ new \in Children /\ new.pc = "redirect" /\ new.ran = old.ran
        /\ new.fds = [old.fds EXCEPT ![LowestFree(old.fds)] = "file"]
    BY <1>0 DEF Children, Alive
  <2>3. [Inherited(stdout) EXCEPT ![LowestFree(Inherited(stdout))] = "file"] = Opened(stdout)
    BY <1>0, OpenedIsInherited, FileGetsNumber
  <2>4. child'[c] = new
    BY <2>1 DEF Inv, TypeOK
  <2>5. Truth(c)' /\ Output(c)'
    BY <1>0, <2>1, <2>2, <2>3, <2>4 DEF CallInv, Truth, Output, Ended
  <2> QED
    BY <1>0, <2>1, <2>2, <2>5, ChildStep DEF Alive
<1>2. CASE OpenFails(c)
  BY <1>0, <1>2, StatusesOfCodes, ExitStep DEF OpenFails, Exited
<1>3. CASE Redirect(c)
  <2> DEFINE fds == [[old.fds EXCEPT ![1] = "file"] EXCEPT ![FileOf(old.fds)] = "none"]
             new == [old EXCEPT !.pc = "exec", !.fds = fds]
  <2>1. old.pc = "redirect" /\ child' = [child EXCEPT ![c] = new]
    BY <1>3 DEF Redirect
  <2>2. /\ new \in Children /\ new.pc = "exec" /\ new.ran = old.ran /\ new.fds = fds
    BY <1>0 DEF Children, Alive
  <2>3. [[Opened(stdout) EXCEPT ![1] = "file"] EXCEPT ![FileOf(Opened(stdout))] = "none"]
          = Given("redirect", stdout)
    BY <1>0, RedirectedIsGiven, FileGetsNumber
  <2>4. child'[c] = new
    BY <2>1 DEF Inv, TypeOK
  <2>5. Truth(c)' /\ Output(c)'
    BY <1>0, <2>1, <2>2, <2>3, <2>4 DEF CallInv, Truth, Output, Ended
  <2> QED
    BY <1>0, <2>1, <2>2, <2>5, ChildStep DEF Alive
<1>4. CASE RedirectFails(c)
  BY <1>0, <1>4, StatusesOfCodes, ExitStep DEF RedirectFails, Exited
<1>5. CASE Exec(c)
  <2> DEFINE new == [old EXCEPT !.pc = "command", !.ran = TRUE]
  <2>1. old.pc = "exec" /\ child' = [child EXCEPT ![c] = new]
    BY <1>5 DEF Exec
  <2>2. new \in Children /\ new.pc = "command" /\ new.ran = TRUE /\ new.fds = old.fds
    BY <1>0 DEF Children, Alive
  <2>3. child'[c] = new
    BY <2>1 DEF Inv, TypeOK
  <2>4. Truth(c)' /\ Output(c)'
    BY <1>0, <2>1, <2>2, <2>3 DEF CallInv, Truth, Output, Ended
  <2> QED
    BY <1>0, <2>1, <2>2, <2>4, ChildStep DEF Alive
<1>6. CASE ExecFails(c)
  <2>1. \/ Exit(c, "exec", Exited(1)) \/ Exit(c, "exec", Exited(127))
    BY <1>6 DEF ExecFails
  <2> QED
    BY <1>0, <2>1, StatusesOfCodes, ExitStep DEF Exited
<1>7. CASE CommandExits(c)
  BY <1>0, <1>7, StatusesOfCodes, CodesAssumption, ExitStep DEF CommandExits
<1>8. CASE CommandKilled(c)
  <2>1. PICK sig \in Signals : \/ Exit(c, "command", 0 + sig)
                               \/ Exit(c, "command", 128 + sig)
                               \/ Exit(c, "command", Exited(128 + sig))
    BY <1>8 DEF CommandKilled
  <2> QED
    BY <1>0, <2>1, StatusesOfSignals, ExitStep
<1> QED
  BY <1>1, <1>2, <1>3, <1>4, <1>5, <1>6, <1>7, <1>8 DEF Child

-----------------------------------------------------------------------------
(* The caller's steps.                                                     *)

LEMMA CallerNext ==
  ASSUME Inv, NEW c \in Callers,
         Fork(c) \/ ForkFails(c) \/ Waiting(c) \/ \E f \in Functions : Call(c, f)
  PROVE  Inv'
<1>0. TypeOK /\ child[c] \in Children /\ CallInv(c) /\ \A d \in Callers : CallInv(d)
  BY DEF Inv, TypeOK
<1> DEFINE Others == \A d \in Callers \ {c} :
                       /\ cpc'[d] = cpc[d] /\ fn'[d] = fn[d] /\ result'[d] = result[d]
                       /\ child'[d] = child[d]
<1>1. ASSUME TypeOK', Others, stdout' = stdout, CallInv(c)' PROVE Inv'
  <2>1. ASSUME NEW d \in Callers, d # c PROVE CallInv(d)'
    BY <1>0, <1>1, <2>1 DEF CallInv, Phase, Truth, Output
  <2> QED
    BY <1>1, <2>1 DEF Inv
<1>2. NoChild \in Children /\ NoChild.pc = "none" /\ ~NoChild.ran
  BY DEF NoChild, Children, Statuses
<1>3. ASSUME NEW f \in Functions, Call(c, f) PROVE Inv'
  <2>1. /\ cpc'[c] = "fork" /\ child'[c] = NoChild /\ Others /\ stdout' = stdout
    BY <1>0, <1>3 DEF Call, TypeOK
  <2>2. TypeOK'
    BY <1>0, <1>2, <1>3 DEF Call, TypeOK
  <2>3. CallInv(c)'
    BY <1>2, <2>1 DEF CallInv, Phase, Truth, Output, Ended
  <2> QED
    BY <1>1, <2>1, <2>2, <2>3
<1>4. CASE Fork(c)
  <2> DEFINE new == Forked(fn[c])
  <2>1. child' = [child EXCEPT ![c] = new] /\ cpc' = [cpc EXCEPT ![c] = "wait"]
        /\ UNCHANGED <<fn, result, stdout>>
    BY <1>4 DEF Fork
  <2>2. /\ new \in Children /\ ~new.ran
        /\ new.pc = IF fn[c] = "redirect" THEN "open" ELSE "exec"
        /\ new.fds = [n \in Fds |-> IF n = 1 THEN stdout ELSE "none"]
    BY <1>0 DEF Forked, Children, Statuses, Alive, TypeOK
  <2>3. /\ new.fds = Inherited(stdout)
        /\ \A f \in Functions \ {"redirect"} : Given(f, stdout) = Inherited(stdout)
    BY <2>2 DEF Inherited, Given, Fds
  <2>4. child'[c] = new /\ cpc'[c] = "wait" /\ fn'[c] = fn[c] /\ Others
    BY <1>0, <2>1 DEF TypeOK
  <2>5. TypeOK'
    BY <1>0, <2>1, <2>2 DEF TypeOK
  <2>6. CallInv(c)'
    BY <1>0, <2>1, <2>2, <2>3, <2>4
    DEF CallInv, Phase, Truth, Output, Ended, Alive, TypeOK, Functions
  <2> QED
    BY <1>1, <2>1, <2>4, <2>5, <2>6
<1>5. CASE ForkFails(c)
  <2>1. /\ cpc[c] = "fork" /\ cpc'[c] \in {"done", "wait_any"} /\ Others
        /\ UNCHANGED <<child, fn, stdout>>
    BY <1>0, <1>5 DEF ForkFails, Return, TypeOK
  <2>2. TypeOK'
    BY <1>0, <1>5, VerdictIsBoolean DEF ForkFails, Return, TypeOK
  <2>3. CallInv(c)'
    BY <1>0, <2>1 DEF CallInv, Phase, Truth, Output, Ended
  <2> QED
    BY <1>1, <2>1, <2>2, <2>3
<1>6. CASE Wait(c)
  <2> DEFINE new == [child[c] EXCEPT !.pc = "reaped"]
  <2>1. /\ cpc[c] = "wait" /\ child[c].pc = "zombie" /\ child' = [child EXCEPT ![c] = new]
        /\ cpc' = [cpc EXCEPT ![c] = "done"] /\ UNCHANGED <<fn, stdout>>
        /\ result' = [result EXCEPT ![c] = Verdict(fn[c], child[c].status)]
    BY <1>6 DEF Wait, Return
  <2>2. /\ new \in Children /\ new.pc = "reaped" /\ new.fds = child[c].fds
        /\ new.status = child[c].status /\ new.ran = child[c].ran
    BY <1>0 DEF Children
  <2>3. /\ child'[c] = new /\ cpc'[c] = "done" /\ Others
        /\ result'[c] = Verdict(fn[c], child[c].status)
    BY <1>0, <2>1 DEF TypeOK
  <2>4. TypeOK'
    BY <1>0, <2>1, <2>2, VerdictIsBoolean DEF TypeOK
  <2>5. Phase(c)' /\ Output(c)'
    BY <1>0, <2>1, <2>2, <2>3 DEF CallInv, Phase, Output
  <2>6. result'[c] = Verdict(fn'[c], child'[c].status)
    BY <2>1, <2>2, <2>3
  <2>7. Truth(c)'
    BY <1>0, <2>1, <2>2, <2>3, <2>6 DEF CallInv, Truth, Ended
  <2> QED
    BY <1>1, <2>1, <2>3, <2>4, <2>5, <2>7 DEF CallInv
<1>7. CASE WaitFails(c)
  <2>1. /\ child[c].pc = "stolen" /\ cpc'[c] = "done" /\ Others
        /\ UNCHANGED <<child, fn, stdout>>
    BY <1>0, <1>7 DEF WaitFails, Return, TypeOK
  <2>2. TypeOK'
    BY <1>0, <1>7, VerdictIsBoolean DEF WaitFails, Return, TypeOK
  <2>3. CallInv(c)'
    BY <1>0, <2>1 DEF CallInv, Phase, Truth, Output, Ended
  <2> QED
    BY <1>1, <2>1, <2>2, <2>3
<1> QED
  BY <1>3, <1>4, <1>5, <1>6, <1>7 DEF Waiting

\* waitpid(-1) changes the child of a caller d that waits, and another's call.
LEMMA WaitAnyNext ==
  ASSUME Inv, NEW c \in Callers, WaitAny(c)
  PROVE  Inv'
<1>0. /\ TypeOK /\ \A d \in Callers : CallInv(d) /\ child[d] \in Children
      /\ cpc[c] = "wait_any" /\ child[c].pc = "none"
  BY DEF Inv, TypeOK, WaitAny, CallInv, Phase
<1>1. /\ UNCHANGED <<fn, stdout>> /\ cpc' = [cpc EXCEPT ![c] = "done"]
      /\ \E verdict \in BOOLEAN : result' = [result EXCEPT ![c] = verdict]
  BY VerdictIsBoolean DEF WaitAny, Return
<1>2. CASE UNCHANGED child
  <2>1. TypeOK'
    BY <1>0, <1>1, <1>2 DEF TypeOK
  <2>2. ASSUME NEW d \in Callers PROVE CallInv(d)'
    BY <1>0, <1>1, <1>2 DEF CallInv, Phase, Truth, Output, Ended, TypeOK
  <2> QED
    BY <2>1, <2>2 DEF Inv
<1>3. ASSUME NEW d \in Callers, child[d].pc = "zombie",
             child' = [child EXCEPT ![d].pc = "stolen"]
      PROVE  Inv'
  <2> DEFINE new == [child[d] EXCEPT !.pc = "stolen"]
  <2>1. /\ new \in Children /\ new.pc = "stolen" /\ new.fds = child[d].fds
        /\ new.status = child[d].status /\ new.ran = child[d].ran
    BY <1>0 DEF Children
  <2>2. \A e \in Callers : child'[e] = IF e = d THEN new ELSE child[e]
    BY <1>0, <1>3 DEF TypeOK
  <2>3. cpc[d] = "wait" /\ d # c
    BY <1>0, <1>3 DEF CallInv, Phase, TypeOK
  <2>4. TypeOK'
    BY <1>0, <1>1, <1>3, <2>1 DEF TypeOK
  <2>5. ASSUME NEW e \in Callers PROVE CallInv(e)'
    <3>1. CASE e = d
      BY <1>0, <1>1, <1>3, <2>1, <2>2, <2>3, <3>1
      DEF CallInv, Phase, Truth, Output, Ended, TypeOK
    <3>2. CASE e # d
      BY <1>0, <1>1, <2>2, <3>2 DEF CallInv, Phase, Truth, Output, Ended, TypeOK
    <3> QED
      BY <3>1, <3>2
  <2> QED
    BY <2>4, <2>5 DEF Inv
<1> QED
  BY <1>2, <1>3 DEF WaitAny

LEMMA InvNext == Inv /\ [Next]_vars => Inv'
<1>1. ASSUME Inv, UNCHANGED vars PROVE Inv'
  BY <1>1 DEF Inv, TypeOK, CallInv, Phase, Truth, Output, vars
<1> QED
  BY <1>1, ChildNext, CallerNext, WaitAnyNext DEF Next, Caller

-----------------------------------------------------------------------------
\* What do_system, do_exec and do_exec_redirect answer of the command they ran, for every
\* exit code and every signal, whatever the child fails at and for any number of threads
\* that call them: TRUE when it exited with 0, and, from do_system, also when it was killed.
THEOREM OutcomesAreTold == Spec => []AnswersTellOutcome
<1>1. ASSUME Inv PROVE AnswersTellOutcome
  <2> SUFFICES ASSUME NEW c \in Callers, cpc[c] = "done", child[c].pc = "reaped"
               PROVE  result[c] <=> /\ child[c].ran
                                    /\ \/ child[c].status = Exited(0)
                                       \/ fn[c] = "system" /\ Killed(child[c].status)
    BY DEF AnswersTellOutcome
  <2>1. /\ fn[c] \in Functions /\ child[c].status \in Statuses /\ Truth(c)
    BY <1>1 DEF Inv, TypeOK, Children, CallInv
  <2>2. result[c] <=> child[c].status = 0 \/ (fn[c] = "system" /\ Killed(child[c].status))
    BY <2>1, VerdictTells DEF Truth
  <2> QED
    BY <2>1, <2>2 DEF Truth, Ended, Exited
<1> QED
  BY <1>1, InvInit, InvNext, PTL DEF Spec

\* The child of do_exec_redirect gives its command the file as standard output and
\* nothing else of it, whatever other callers do; or no standard output at all, if its
\* caller has none.
THEOREM OutputGoesToFile == Spec => []OutputInFile
<1>1. Inv => OutputInFile
  BY DEF Inv, CallInv, Output, OutputInFile, Given
<1> QED
  BY <1>1, InvInit, InvNext, PTL DEF Spec

\* No child outlives its call, even when fork fails and waitpid waits for any child.
THEOREM NoChildIsLeft == Spec => []NothingIsLeft
<1>1. Inv => NothingIsLeft
  BY DEF Inv, TypeOK, CallInv, Phase, NothingIsLeft, Alive
<1> QED
  BY <1>1, InvInit, InvNext, PTL DEF Spec

\* Every variable of the example has its type: what a child leaves behind is a wait status
\* that <sys/wait.h> knows, and every call answers a boolean.
THEOREM SystemCallsTypes == Spec => []TypeOK
<1>1. Inv => TypeOK
  BY DEF Inv
<1> QED
  BY <1>1, InvInit, InvNext, PTL DEF Spec
=============================================================================
