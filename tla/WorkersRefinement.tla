--------------------------- MODULE WorkersRefinement ---------------------------
(***************************************************************************)
(* The threads of the server, the driver and its ring implement the line   *)
(* server, when no call fails and no flag holds garbage.                   *)
(***************************************************************************)
EXTENDS WorkerProperties

S == INSTANCE StreamOfLines WITH Capacity <- MAX

\* A request takes effect when aesd_write has joined it to the unfinished line, or
\* the ioctl has stored the position: the loop that moves the lines into the ring,
\* one by one, changes nothing that a client could see.
Applied(w) ==
  \/ wpc[w] = "in_io" /\ op[w].pc \in {"write_install", "write_loop", "idle"}
  \/ wpc[w] \in {"lock_stream", "stream", "reading"}
Answered(w) == wpc[w] \in {"close", "done"} /\ IsPacket(packet[w])

Phase(w) == IF Applied(w) THEN "applied" ELSE IF Answered(w) THEN "answered" ELSE "asking"

\* Where the reading of an answer began: f_pos without what has been sent already and
\* what has been read and not yet sent.
ReadNotSent(w) == IF wpc[w] = "reading" /\ op[w].pc = "idle" THEN Len(op[w].data) ELSE 0
Began(w)       == f_pos[w] - Len(reply[w]) - ReadNotSent(w)

\* The <<line, byte>> of a seek command.
SeekTarget(p) == Command[Head(p)]

Promise == INSTANCE LineServer
  WITH Capacity <- MAX,
       Clients  <- Threads,
       Requests <- Payloads,
       IsSeek   <- IsSeek,
       Target   <- SeekTarget,
       lines    <- S!Latest(Lines \o S!Cut(Rest)),
       rest     <- S!Unended(Rest),
       phase    <- [w \in Threads |-> Phase(w)],
       request  <- [w \in Threads |-> IF Phase(w) = "asking" THEN << >> ELSE packet[w]],
       from     <- [w \in Threads |-> IF Applied(w) THEN Began(w) ELSE 0],
       answer   <- [w \in Threads |-> IF Answered(w) THEN reply[w] ELSE << >>]

\* Whatever the interleaving of its clients, what each of them sees is what a server
\* would answer that did one thing at a time ("Lock the mutex for thread safety" around
\* the write and, separately, the reply).
ImplementsLineServer == Promise!Spec
=============================================================================
