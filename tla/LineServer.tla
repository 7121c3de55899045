------------------------------ MODULE LineServer ------------------------------
(***************************************************************************)
(* What the socket server and the driver together promise to clients when  *)
(* nothing fails: a server without threads, locks, buffers or positions.   *)
(*                                                                         *)
(* A client sends one request.  The server applies it in one step, between *)
(* the client's last byte and the answer: a line is appended to the lines  *)
(* the server keeps, a seek command picks the byte at which the answer     *)
(* begins.  The answer is what the server keeps, at one instant, from that *)
(* byte to the end.                                                        *)
(***************************************************************************)
EXTENDS StreamOfLines

CONSTANTS Clients, Requests,
          IsSeek(_), Target(_)  \* a request that is a seek command; the <<line, byte>> it names

VARIABLES lines,     \* the complete lines kept, oldest first
          rest,      \* what has been sent after the last newline
          phase,     \* what has become of each client's request
          request,   \* the request
          from,      \* how many bytes the answer leaves out at the beginning
          answer     \* what the client has been answered

Init ==
  /\ lines   = << >> /\ rest = << >>
  /\ phase   = [c \in Clients |-> "asking"]
  /\ request = [c \in Clients |-> << >>]
  /\ from    = [c \in Clients |-> 0]
  /\ answer  = [c \in Clients |-> << >>]

\* Bytes before a byte of a line; none when there is no such byte.
Before(target) ==
  LET line == target[1] + 1
  IN  IF line \in DOMAIN lines /\ target[2] < Len(lines[line])
      THEN Len(FlattenSeq(SubSeq(lines, 1, line - 1))) + target[2]
      ELSE 0

Apply(c) ==
  /\ phase[c] = "asking" /\ phase' = [phase EXCEPT ![c] = "applied"]
  /\ \E p \in Requests :
       /\ request' = [request EXCEPT ![c] = p]
       /\ IF IsSeek(p)
          THEN /\ from' = [from EXCEPT ![c] = Before(Target(p))]
               /\ UNCHANGED <<lines, rest>>
          ELSE /\ lines' = Latest(lines \o Cut(rest \o p))
               /\ rest'  = Unended(rest \o p)
               /\ UNCHANGED from
  /\ UNCHANGED answer

Answer(c) ==
  /\ phase[c] = "applied" /\ phase' = [phase EXCEPT ![c] = "answered"]
  /\ LET stream == FlattenSeq(lines)
     IN  answer' = [answer EXCEPT ![c] = SubSeq(stream, from[c] + 1, Len(stream))]
  /\ from' = [from EXCEPT ![c] = 0]
  /\ UNCHANGED <<lines, rest, request>>

Next == \E c \in Clients : Apply(c) \/ Answer(c)

Spec == Init /\ [][Next]_<<lines, rest, phase, request, from, answer>>
=============================================================================
