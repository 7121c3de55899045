------------------------------ MODULE MCThreading ------------------------------
(* The rounds of main.c, and one more with two threads. *)
EXTENDS ThreadingProperties

Rounds == <<1, 2, 2>>
=============================================================================
