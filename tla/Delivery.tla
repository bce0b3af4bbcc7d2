------------------------------ MODULE Delivery ------------------------------
(***************************************************************************)
(* What a transfer of one file promises, in either direction: the sender   *)
(* offers its bytes in order, the file on the receiver's disk grows by     *)
(* bytes that were offered, each in its place, and the receiver takes it   *)
(* for complete only when all of it is stored.  Upload and Download        *)
(* implement this.                                                         *)
(*                                                                         *)
(* The two liberties the code takes are in the promise: a transfer that    *)
(* breaks off may leave the file padded with zeros, and bytes that follow  *)
(* a complete file may be stored behind it.                                *)
(***************************************************************************)
EXTENDS Bytes

CONSTANT Sizes

VARIABLES
    size,       \* of the sender's file
    offered,    \* how much of it the sender has handed over
    stored,     \* the file on the receiver's disk
    verdict     \* what the receiver made of the transfer

vars == <<size, offered, stored, verdict>>

Init ==
    /\ size \in Sizes
    /\ offered = 0
    /\ stored = <<>>
    /\ verdict = "none"

Offer ==
    /\ offered' \in offered..size
    /\ UNCHANGED <<size, stored, verdict>>

Extend ==
    /\ verdict = "none"
    /\ \E n \in Len(stored)..offered : stored' = Prefix(n)
    /\ UNCHANGED <<size, offered, verdict>>

Complete ==
    /\ verdict = "none"
    /\ offered = size
    /\ verdict' = "complete"
    /\ Len(stored') >= size /\ SubSeq(stored', 1, size) = Prefix(size)
    /\ UNCHANGED <<size, offered>>

GiveUp ==
    /\ verdict = "none"
    /\ verdict' \in {"incomplete", "failed"}
    /\ \E n \in Len(stored)..offered :
         \/ stored' = Prefix(n)
         \/ stored' = Prefix(n) \o Zeros(size - n)
    /\ UNCHANGED <<size, offered>>

\* The sender's file was replaced under way: nothing is promised from there on.
Void == verdict' = "void" /\ UNCHANGED size

Next == Offer \/ Extend \/ Complete \/ GiveUp \/ Void

Spec == Init /\ [][Next]_vars
==============================================================================
