------------------------------- MODULE MCWorkers -------------------------------
(* The server for TLC: clients that send a line at once or in two parts, or  *)
(* a seek command.                                                           *)
EXTENDS WorkersRefinement

CONSTANTS a, nl, s01, s50

Seekto == s01 :> <<0, 1>> @@ s50 :> <<5, 0>>

\* What a client may send at a time; << >> is the end of its connection.
Letters   == {<< >>, <<a>>, <<nl>>}
Parts     == Letters \cup {<<s01, nl>>}
Requests  == {<< >>, <<a>>, <<nl>>, <<nl, a>>, <<s01, nl>>, <<s50, nl>>}

\* The packets of at most two of them.
Packets(chunks) == {p \in chunks \cup {q \o r : q, r \in chunks} : IsPacket(p)}
LetterPackets   == Packets(Letters)
PartPackets     == Packets(Parts)
RequestPackets  == Packets(Requests)

Reads == {1, 2}

\* Blocks, and the threads, can be exchanged.
Symmetry == Permutations(Blocks) \cup Permutations(Threads)
=============================================================================
