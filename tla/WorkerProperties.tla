--------------------------- MODULE WorkerProperties ---------------------------
(***************************************************************************)
(* What the server promises its clients, and how its mutex makes up for    *)
(* what the driver's lock does not do.                                     *)
(***************************************************************************)
EXTENDS AesdWorkers

\* Every variable of the server has its type.
WTypeOK ==
  /\ file_mutex \in Threads \cup {NULL}
  /\ wpc \in [Threads -> WControl]
  /\ end_of_packet \in [Threads -> BOOLEAN]
  /\ exit_requested \in BOOLEAN
  /\ \A w \in Threads : packet[w] \in Seq(Byte) /\ reply[w] \in Seq(Byte)

-----------------------------------------------------------------------------
\* A worker whose realloc has failed has unlocked a mutex it did not own; from then
\* on file_mutex keeps nobody apart.
AnyGone == \E w \in Threads : wpc[w] = "gone"

\* Whoever is in a system call that takes dev->lock owns file_mutex.  This,
\* and not dev->lock, keeps the threads of the server out of each other's way
\* in the driver: aesd_release and the end of aesd_read clear dev->lock under
\* whoever owns it.
InCall(w) == wpc[w] \in {"in_io", "reading"}
CallsAreSerial ==
  \/ AnyGone
  \/ \A w \in Threads : op[w].pc # "idle" => InCall(w) /\ file_mutex = w

\* So the driver uses no freed memory and loses none, whatever fails in it.
MemorySound == AnyGone \/ (NoUseAfterFree /\ HeapExact)

\* Nobody waits for ever: the owner of file_mutex is in one of the two critical
\* sections of data_processing, and in them it never waits for dev->lock, which
\* nobody else can have.
OwnersGoOn ==
  \/ AnyGone \/ file_mutex = NULL
  \/ /\ wpc[file_mutex] \in {"io", "in_io", "stream", "reading"}
     /\ op[file_mutex].pc \in Waiting => lock = NULL

-----------------------------------------------------------------------------
Streaming(w) == wpc[w] \in {"stream", "reading"}
Settled(w)   == op[w].pc = "idle"

\* A client is only answered once its line is complete (end_of_packet is the
\* "flag to indicate end of packet").
AnswersPacket(w) == Streaming(w) => IsPacket(packet[w])
AnswersPackets   == \A w \in Threads : AnswersPacket(w)

\* That is so of every thread whose end_of_packet, which nobody initialises, was false
\* when it started, whatever the flags of the others hold.
CleanFlagsAnswerPackets ==
  \A w \in Threads : ~end_of_packet[w] => []AnswersPacket(w)

\* What is sent to a client that has not asked for a seek is the device's content
\* from its beginning to its end, although it is read in several system calls: no
\* entry is added, and none is evicted, between the first read of a reply and the
\* last.  A send that fails leaves a hole, and then fewer bytes are sent than read.
NothingLost(w) == Len(reply[w]) = f_pos[w]
ReplyIsStream ==
  \/ AnyGone
  \/ \A w \in Threads :
       /\ wpc[w] = "stream" /\ NothingLost(w) /\ ~IsSeek(packet[w])
            => reply[w] = SubSeq(Stream, 1, f_pos[w])
       /\ wpc[w] = "reading" /\ Settled(w) /\ op[w].ret = 0
          /\ NothingLost(w) /\ ~IsSeek(packet[w])
            => reply[w] = Stream

\* One string is in the other.
Infix(s, t) == \E i \in 0 .. Len(t) - Len(s) : SubSeq(t, i+1, i+Len(s)) = s

\* Something follows the newline of a packet.
Trails(p) == Newline \in Range(p) /\ Last(p) # Newline

\* The server "reads data from the client, writes it to a file, and sends the
\* file content back": the answer to a line has that line in it, unless the clients
\* have sent more lines than the device keeps.
OwnLineReturned ==
  Cardinality({w \in Threads : IsPacket(packet[w]) /\ ~IsSeek(packet[w])}) <= MAX =>
    \A w \in Threads :
      wpc[w] \in {"close", "done"} /\ IsPacket(packet[w]) /\ ~Trails(packet[w])
        /\ ~IsSeek(packet[w])
      => Infix(packet[w], reply[w])

\* l ends at its only newline, and p has it between two newlines or at its beginning.
LineOf(l, p) ==
  /\ Len(l) > 0 /\ \A j \in 1 .. Len(l) : l[j] = Newline <=> j = Len(l)
  /\ \E i \in 0 .. Len(p) - Len(l) : (i = 0 \/ p[i] = Newline) /\ SubSeq(p, i+1, i+Len(l)) = l

\* A line of the device is a line that one client sent: parts of lines of several
\* clients, received in any order, are never put together, as long as every client
\* stops after a newline.  (What a client sends after it becomes the beginning of
\* another client's line.)
WholeLines ==
  (\A w \in Threads : ~Trails(packet[w])) =>
    \A k \in DOMAIN Lines : \E w \in Threads : LineOf(Lines[k], packet[w])

\* What the owner of file_mutex still has to do before it unlocks it.  One turn of
\* stream_file_reader takes at most ReadSize + 5 steps and brings a byte, or is the
\* last one.
Unread(w) == IF f_pos[w] < Len(Stream) THEN Len(Stream) - f_pos[w] ELSE 0
Turns(n)  == n * (ReadSize + 5)
Ahead(w) ==
  CASE wpc[w] = "io"      -> Len(Bytes(partial)) + Len(packet[w]) + 6
    [] wpc[w] = "in_io"   -> Left(w) + 1
    [] wpc[w] = "stream"  -> Turns(Unread(w) + 1)
    [] wpc[w] = "reading" -> CASE op[w].pc # "idle" -> Turns(Unread(w)) + Left(w) + 1
                               [] Settled(w) /\ op[w].ret > 0 -> Turns(Unread(w) + 1) + 1
                               [] OTHER -> 1
    [] OTHER              -> 0

\* The owner of file_mutex has only so many steps to take before it unlocks it: each
\* leaves less to do, whatever fails and wherever a seek has put the reply, and no step
\* of another thread leaves more.  The device in particular cannot grow while a reply is
\* read from it.  (How long a send takes is up to the client.)
SectionsEnd ==
  [][\A w \in Threads :
       file_mutex = w /\ ~AnyGone' =>
         IF Serve(w) \/ Send(w) \/ Device(w)
         THEN Ahead(w)' \in Nat /\ Ahead(w)' < Ahead(w)
         ELSE Ahead(w)' = Ahead(w)]_allvars

\* A client that has sent its line is answered and its thread ends, as long as clients
\* read: the one whose answer blocks in send(2) keeps file_mutex, and the others wait.
PacketAnswered == \A w \in Threads : wpc[w] = "lock_io" ~> wpc[w] = "done" \/ oops
=============================================================================
