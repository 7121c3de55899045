-------------------------- MODULE SystemCallsProperties --------------------------
(***************************************************************************)
(* What the system call example owes its callers: an answer that is true,  *)
(* output in the file they named, and no process left behind.              *)
(***************************************************************************)
EXTENDS SystemCalls

Statuses == {256 * code : code \in 0 .. 255} \cup 1 .. 126 \cup 129 .. 254
Children == [pc     : Alive \cup {"none", "reaped", "stolen"},
             fds    : [Fds -> {"none", "stdout", "file"}],
             status : Statuses,
             ran    : BOOLEAN]

\* Every variable has its type.
TypeOK ==
  /\ cpc    \in [Callers -> {"idle", "fork", "wait", "wait_any", "done"}]
  /\ fn     \in [Callers -> Functions]
  /\ child  \in [Callers -> Children]
  /\ result \in [Callers -> BOOLEAN]
  /\ stdout \in {"stdout", "none"}

\* What a call that saw the status of its own child tells of it, whatever the child
\* failed at and whatever other callers wait for.  TRUE from do_exec or do_exec_redirect:
\* the command was run and exited with 0.  TRUE from do_system, which never asks
\* WIFEXITED: that, or the shell was killed with the command, and then it was run too.
\* FALSE: neither.  (systemcalls.c:7-8 says of do_system "true if the command [...] was
\* executed successfully": of a killed command that is not what it does.)
Killed(status) == ~WIFEXITED(status)
AnswersTellOutcome ==
  \A c \in Callers :
    cpc[c] = "done" /\ child[c].pc = "reaped" =>
      (result[c] <=> /\ child[c].ran
                     /\ \/ child[c].status = Exited(0)
                        \/ fn[c] = "system" /\ Killed(child[c].status))

\* A command that do_exec_redirect runs writes to the file and holds no other
\* descriptor of it ("redirect standard out to a file specified by outputfile"); the
\* others inherit the caller's.  A caller that has no standard output gets none: fopen
\* takes its number, dup2 changes nothing and fclose closes the file.
OutputInFile ==
  \A c \in Callers :
    child[c].ran =>
      child[c].fds = [n \in Fds |-> IF n = 1 /\ fn[c] = "redirect" /\ stdout = "stdout"
                                      THEN "file"
                                    ELSE IF n = 1 /\ fn[c] # "redirect" THEN stdout
                                    ELSE "none"]

\* A call that has returned has left no process of its own behind, running or dead,
\* even when somebody waits for any child at all.
NothingIsLeft == \A c \in Callers : cpc[c] # "wait" => child[c].pc \notin Alive

\* A call that has a child returns, even when another caller takes the child away.
CallsReturn == \A c \in Callers : cpc[c] = "wait" ~> cpc[c] = "done"

\* A doc's words (systemcalls.c:38-40): "false if an error occurred, either in
\* invocation of the fork, waitpid, or execv() command".
ForkFailureIsToldOf ==
  \A c \in Callers : cpc[c] = "done" /\ child[c].pc = "none" => ~result[c]
=============================================================================
