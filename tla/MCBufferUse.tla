----------------------------- MODULE MCBufferUse -----------------------------
(* BufferUse for TLC: three entries, told apart by their block, whose sizes  *)
(* include 0 (an empty string, which a user-space caller may add) so that an *)
(* occupied slot may hold no byte.                                           *)
EXTENDS BufferUse

CONSTANTS b1, b2, b3

MCBlocks  == {b1, b2, b3}
MCEntries == {[buffptr |-> b1, size |-> 0],
              [buffptr |-> b2, size |-> 1],
              [buffptr |-> b3, size |-> 3]}
=============================================================================
