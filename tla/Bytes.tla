------------------------------- MODULE Bytes -------------------------------
(***************************************************************************)
(* The contents of a file that is transferred: a byte is the token of its  *)
(* position, so that a lost, repeated or moved byte is visible.            *)
(***************************************************************************)
EXTENDS Integers, Sequences

Data(i) == <<"data", i>>
Zero == <<"zero", 0>>       \* a byte of a buffer that was never received

Prefix(n) == [i \in 1..n |-> Data(i)]
Zeros(n) == [i \in 1..n |-> Zero]

\* What a read or a sendfile moves: as much as there is, and as there is room.
Least(a, b) == IF a < b THEN a ELSE b
==============================================================================
