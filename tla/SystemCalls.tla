------------------------------ MODULE SystemCalls ------------------------------
(***************************************************************************)
(* The system call example (examples/systemcalls): do_system, do_exec and  *)
(* do_exec_redirect run a command in a child process and tell whether it   *)
(* succeeded.                                                              *)
(*                                                                         *)
(* The callers are threads of one process: each has one call at a time,    *)
(* with at most one child, and waitpid(-1) of one may take the child of    *)
(* another.  A command is what it leaves behind: whether it was run, where *)
(* its output went and its wait status.  Its arguments are left out.       *)
(***************************************************************************)
EXTENDS Integers

CONSTANTS Callers,  \* threads that call the functions
          Codes,    \* what a command may exit with
          Signals,  \* what may kill it
          Faults    \* what may fail: "fork", "open", "dup2", "exec"

ASSUME CodesAssumption   == Codes \subseteq 0 .. 255
ASSUME SignalsAssumption == Signals \subseteq 1 .. 126

VARIABLES cpc,     \* where each caller is in its call
          fn,      \* the function it called
          child,   \* the child of its call
          result,  \* what the call returned
          stdout   \* descriptor 1 of the process: "stdout", or "none" when it is closed

vars == <<cpc, fn, child, result, stdout>>

Functions == {"system", "exec", "redirect"}
Fds       == {1, 3, 4}   \* standard output, and the next that are free

\* The places of a child: processes that exist, and what is left of the others.
Alive   == {"open", "redirect", "exec", "command", "zombie"}
NoChild == [pc |-> "none", fds |-> [n \in Fds |-> "none"], status |-> 0, ran |-> FALSE]

-----------------------------------------------------------------------------
(* Wait statuses, as <sys/wait.h> takes them apart.                        *)

Exited(code)        == code * 256
WIFEXITED(status)   == status % 128 = 0
WEXITSTATUS(status) == (status \div 256) % 256

\* What the two functions that fork return for a status, and do_system, where
\* system() is -1 when it has none.
Succeeded(status)       == WIFEXITED(status) /\ WEXITSTATUS(status) = 0
SystemSucceeded(status) == WEXITSTATUS(status) = 0
NoStatus                == -1

Verdict(f, status) ==
  IF f = "system" THEN SystemSucceeded(status) ELSE Succeeded(status)

Init ==
  /\ cpc    = [c \in Callers |-> "idle"]
  /\ fn     = [c \in Callers |-> "system"]
  /\ child  = [c \in Callers |-> NoChild]
  /\ result = [c \in Callers |-> FALSE]
  /\ stdout \in {"stdout", "none"}

-----------------------------------------------------------------------------
(* The parent.                                                             *)

Call(c, f) ==
  /\ cpc[c] \in {"idle", "done"}
  /\ cpc'   = [cpc   EXCEPT ![c] = "fork"]
  /\ fn'    = [fn    EXCEPT ![c] = f]
  /\ child' = [child EXCEPT ![c] = NoChild]
  /\ UNCHANGED <<result, stdout>>

\* A child begins with the descriptors of its parent.
Forked(f) == [pc     |-> IF f = "redirect" THEN "open" ELSE "exec",
              fds    |-> [n \in Fds |-> IF n = 1 THEN stdout ELSE "none"],
              status |-> 0,
              ran    |-> FALSE]

Fork(c) ==
  /\ cpc[c] = "fork"
  /\ cpc'   = [cpc   EXCEPT ![c] = "wait"]
  /\ child' = [child EXCEPT ![c] = Forked(fn[c])]
  /\ UNCHANGED <<fn, result, stdout>>

Return(c, verdict) == /\ cpc'    = [cpc    EXCEPT ![c] = "done"]
                      /\ result' = [result EXCEPT ![c] = verdict]
                      /\ UNCHANGED <<fn, stdout>>

\* system() gives up.  The other two say so and go on as the parent of process -1,
\* which for waitpid is any child.
ForkFails(c) ==
  /\ "fork" \in Faults /\ cpc[c] = "fork"
  /\ IF fn[c] = "system" THEN Return(c, Verdict("system", NoStatus))
     ELSE cpc' = [cpc EXCEPT ![c] = "wait_any"] /\ UNCHANGED <<fn, result, stdout>>
  /\ UNCHANGED child

\* A fault: wait() instead of waitpid(pid).
WaitForSomebody(c) ==
  /\ cpc[c] = "wait"
  /\ \E d \in Callers : /\ child[d].pc = "zombie"
                        /\ child' = [child EXCEPT ![d].pc = "reaped"]
                        /\ Return(c, Verdict(fn[c], child[d].status))

Wait(c) ==
  /\ cpc[c] = "wait" /\ child[c].pc = "zombie"
  /\ child' = [child EXCEPT ![c].pc = "reaped"]
  /\ Return(c, Verdict(fn[c], child[c].status))

\* A fault: waitpid is called again until it succeeds.
WaitsAgain(c) == cpc[c] = "wait" /\ child[c].pc = "stolen" /\ UNCHANGED vars

\* waitpid fails, the child was taken by another caller: system() is -1, and the
\* other two look at a status nobody has written.
WaitFails(c) ==
  /\ cpc[c] = "wait" /\ child[c].pc = "stolen"
  /\ \E verdict \in IF fn[c] = "system" THEN {Verdict("system", NoStatus)} ELSE BOOLEAN :
       Return(c, verdict)
  /\ UNCHANGED child

\* waitpid(-1): the first child of the process that ends, or failure when there is
\* none.
WaitAny(c) ==
  /\ cpc[c] = "wait_any"
  /\ \/ \E d \in Callers : /\ child[d].pc = "zombie"
                           /\ child' = [child EXCEPT ![d].pc = "stolen"]
                           /\ Return(c, Verdict(fn[c], child[d].status))
     \/ /\ \A d \in Callers : child[d].pc \notin Alive
        /\ \E verdict \in BOOLEAN : Return(c, verdict)
        /\ UNCHANGED child

-----------------------------------------------------------------------------
(* The child: that of c from fork to exec, then the command.               *)

Goto(c, from, to) == child[c].pc = from /\ child' = [child EXCEPT ![c].pc = to]

Exit(c, from, status) ==
  /\ child[c].pc = from
  /\ child' = [child EXCEPT ![c].pc = "zombie", ![c].status = status]

\* fopen: the lowest descriptor that is free.
LowestFree(fds) ==
  CHOOSE n \in Fds : fds[n] = "none" /\ \A k \in Fds : fds[k] = "none" => n <= k

FileOf(fds) == CHOOSE n \in Fds : fds[n] = "file"

Open(c) ==
  /\ child[c].pc = "open"
  /\ child' = [child EXCEPT ![c].pc = "redirect",
                            ![c].fds[LowestFree(child[c].fds)] = "file"]

OpenFails(c) == "open" \in Faults /\ Exit(c, "open", Exited(1))

\* A fault: the file is left open.
RedirectAndKeep(c) ==
  /\ child[c].pc = "redirect"
  /\ child' = [child EXCEPT ![c].pc = "exec", ![c].fds[1] = "file"]

\* dup2(fileno(file), STDOUT_FILENO) and fclose(file), which closes standard output
\* when the file was opened as descriptor 1.
Redirect(c) ==
  /\ child[c].pc = "redirect"
  /\ child' = [child EXCEPT ![c].pc  = "exec",
       ![c].fds = [[@ EXCEPT ![1] = "file"] EXCEPT ![FileOf(child[c].fds)] = "none"]]

RedirectFails(c) == "dup2" \in Faults /\ Exit(c, "redirect", Exited(1))

Exec(c) == /\ child[c].pc = "exec"
           /\ child' = [child EXCEPT ![c].pc = "command", ![c].ran = TRUE]

\* A fault: the child leaves as if all were well.
ExecFailsQuietly(c) == "exec" \in Faults /\ Exit(c, "exec", Exited(0))

\* exit(EXIT_FAILURE), or the shell's own answer to a command it cannot run.
ExecFails(c) ==
  /\ "exec" \in Faults
  /\ Exit(c, "exec", IF fn[c] = "system" THEN Exited(127) ELSE Exited(1))

CommandExits(c) == \E code \in Codes : Exit(c, "command", Exited(code))

\* Killed, with or without a core dump.  The shell of system() dies of the signal when
\* it has replaced itself by the command, or outlives the command and exits with 128
\* more than the signal.
CommandKilled(c) ==
  \E sig \in Signals :
    \/ \E core \in {0, 128} : Exit(c, "command", core + sig)
    \/ fn[c] = "system" /\ Exit(c, "command", Exited(128 + sig))

-----------------------------------------------------------------------------
Waiting(c) == Wait(c) \/ WaitFails(c)
Caller(c)  == Fork(c) \/ ForkFails(c) \/ Waiting(c) \/ WaitAny(c)
Child(c) ==
  /\ \/ Open(c) \/ OpenFails(c) \/ Redirect(c) \/ RedirectFails(c)
     \/ Exec(c) \/ ExecFails(c) \/ CommandExits(c) \/ CommandKilled(c)
  /\ UNCHANGED <<cpc, fn, result, stdout>>

Next == \E c \in Callers : Caller(c) \/ Child(c) \/ \E f \in Functions : Call(c, f)

\* Every process goes on, and every command ends.
Fairness == \A c \in Callers : WF_vars(Waiting(c)) /\ WF_vars(Child(c))

Spec == Init /\ [][Next]_vars /\ Fairness
=============================================================================
