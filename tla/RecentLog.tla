------------------------------ MODULE RecentLog ------------------------------
(***************************************************************************)
(* What the AESD circular buffer promises, without slots or offsets: it    *)
(* remembers the most recent Capacity entries, oldest first.  Adding to a  *)
(* log that is at its capacity forgets exactly the oldest entry.           *)
(***************************************************************************)
EXTENDS Integers, Sequences

CONSTANTS Capacity,   \* how many entries are remembered
          Item        \* what an entry may be

VARIABLE log          \* the remembered entries, oldest first

Remember(l, e) == IF Len(l) < Capacity THEN Append(l, e)
                                       ELSE Append(Tail(l), e)

Init == log = << >>

Next == \E e \in Item : log' = Remember(log, e)

Spec == Init /\ [][Next]_log
=============================================================================
