----------------------------- MODULE StreamOfLines -----------------------------
(***************************************************************************)
(* Strings as sequences of lines: how a stream of bytes is cut at its      *)
(* newlines, and which lines are kept.                                     *)
(***************************************************************************)
EXTENDS Integers, SequencesExt

CONSTANTS Capacity,   \* how many lines are kept
          Newline     \* the byte that ends a line

\* How many lines the first n bytes of s complete, and where the k-th of them ends.
Completed(s, n) == Cardinality({i \in 1 .. n : s[i] = Newline})
End(s, k)       == IF k = 0 THEN 0
                   ELSE CHOOSE n \in 1 .. Len(s) : s[n] = Newline /\ Completed(s, n) = k

\* The complete lines of s, and what follows them.
Cut(s)     == [k \in 1 .. Completed(s, Len(s)) |-> SubSeq(s, End(s, k-1) + 1, End(s, k))]
Unended(s) == SubSeq(s, End(s, Completed(s, Len(s))) + 1, Len(s))

\* The last Capacity of some lines.
Latest(ls) == SubSeq(ls, IF Len(ls) > Capacity THEN Len(ls) - Capacity + 1 ELSE 1, Len(ls))
=============================================================================
