------------------------------- MODULE MCDriver -------------------------------
(* The driver for TLC: callers that write strings over one letter and the    *)
(* newline (nothing, a part of a line, the end of a line, a line, two lines, *)
(* a line and the beginning of the next).                                    *)
EXTENDS DriverProperties

CONSTANTS a, nl

Strings == {<< >>, <<a>>, <<nl>>, <<a, nl>>, <<nl, a, nl>>, <<nl, a>>}
ReadSizes == {1, 3}
SeekArgs  == {<<0, 0>>, <<0, 1>>, <<1, 0>>, <<1, 1>>, <<2, 0>>}
Moves     == {-1, 0, 1}

\* Fewer inputs, for several callers at once.
FewStrings   == {<<a>>, <<a, nl>>}
FewReadSizes == {2}
FewSeekArgs  == {<<0, 1>>}

\* kmalloc may return any free block: which one does not matter.
BlockSymmetry == Permutations(Blocks)
=============================================================================
