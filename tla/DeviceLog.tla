------------------------------ MODULE DeviceLog ------------------------------
(***************************************************************************)
(* What /dev/aesdchar promises to those who write it: the bytes written    *)
(* form one stream, cut into lines at each newline; the device keeps the   *)
(* last Capacity complete lines, and the unfinished line.                  *)
(*                                                                         *)
(* A write(2) takes effect at one step between its call and its return:    *)
(* its bytes, all of them and once, are joined to the stream, and its      *)
(* lines are completed before another write is taken.  It returns their    *)
(* number only if that has happened, and an error only if nothing of it    *)
(* was taken or memory ran out when a line was due.                        *)
(***************************************************************************)
EXTENDS Integers, Sequences

CONSTANTS Capacity, Newline, Writers, Payloads,
          Error       \* what a call that fails returns

VARIABLES up,         \* whether there is a device
          lines,      \* the complete lines kept, oldest first
          rest,       \* the bytes after the last complete line
          call        \* each writer's write(2): how far it is, its bytes, what
                      \* the writer's last call has returned

R == INSTANCE RecentLog WITH Item <- Seq(UNION {{p[i] : i \in DOMAIN p} : p \in Payloads}),
                             log <- lines

\* A writer that is not in write(2), one whose write has not taken effect yet, and one
\* whose write has.
Outside(r)   == [at |-> "outside", data |-> << >>, ret |-> r]
Calling(d)   == [at |-> "calling", data |-> d, ret |-> 0]
Effective(d) == [at |-> "effective", data |-> d, ret |-> 0]

Init == /\ up = TRUE /\ lines = << >> /\ rest = << >>
        /\ call = [w \in Writers |-> Outside(0)]

Turn(w, from, to) == /\ call[w] = from /\ call' = [call EXCEPT ![w] = to]

Write(w) == /\ \E p \in Payloads : Turn(w, Outside(call[w].ret), Calling(p))
            /\ UNCHANGED <<lines, rest>>

\* Other system calls, or write(2) before it begins, return what they return.
ReturnOther(w) == /\ Turn(w, Outside(call[w].ret), Outside(call'[w].ret))
                  /\ UNCHANGED <<lines, rest>>

Fail(w) == /\ Turn(w, Calling(call[w].data), Outside(Error))
           /\ UNCHANGED <<lines, rest>>

Accept(w) == /\ \A v \in Writers : call[v].at # "effective"
             /\ Turn(w, Calling(call[w].data), Effective(call[w].data))
             /\ rest' = rest \o call[w].data
             /\ UNCHANGED lines

\* Cut at the first newline of rest.
CutAt(n) == /\ rest[n] = Newline
            /\ \A i \in 1 .. n-1 : rest[i] # Newline

CompleteLine(w) == /\ call[w].at = "effective"
                   /\ \E n \in 1 .. Len(rest) :
                        /\ CutAt(n)
                        /\ lines' = R!Remember(lines, SubSeq(rest, 1, n))
                        /\ rest'  = SubSeq(rest, n+1, Len(rest))
                   /\ UNCHANGED call

\* Memory runs out when a line is due: what has not become a line is lost, and the
\* writer is told.
LoseRest(w) == /\ Turn(w, Effective(call[w].data), Outside(Error))
               /\ \E n \in 1 .. Len(rest) : CutAt(n)
               /\ rest' = << >>
               /\ UNCHANGED lines

Return(w) == /\ Turn(w, Effective(call[w].data), Outside(Len(call[w].data)))
             /\ \A n \in 1 .. Len(rest) : rest[n] # Newline
             /\ UNCHANGED <<lines, rest>>

\* The module is unloaded, which nobody is using; loaded again, it is empty.
Unload == /\ up /\ up' = FALSE
          /\ \A w \in Writers : call[w].at = "outside"
          /\ lines' = << >> /\ rest' = << >> /\ UNCHANGED call

Load == ~up /\ up' = TRUE /\ UNCHANGED <<lines, rest, call>>

Next == \/ /\ up /\ UNCHANGED up
           /\ \E w \in Writers : \/ Write(w) \/ ReturnOther(w) \/ Fail(w) \/ Accept(w)
                                 \/ CompleteLine(w) \/ LoseRest(w) \/ Return(w)
        \/ Unload \/ Load

Spec == Init /\ [][Next]_<<up, lines, rest, call>>
=============================================================================
