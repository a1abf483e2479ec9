--------------------------- MODULE ReliableStream ---------------------------
(***************************************************************************)
(* What one direction of a connection promises to the code above it: the   *)
(* vital chunks come out in the order in which they were queued, each of   *)
(* them once.  A chunk is known by its place in the stream, 1 for the      *)
(* first chunk queued.                                                     *)
(*                                                                         *)
(* The promise ends when the sender has queued a chunk it did not keep for *)
(* sending it again ("overflow"): from then on the receiver may wait for   *)
(* ever for a chunk, or take a chunk of a later turn of the sequence       *)
(* numbers for it.                                                         *)
(***************************************************************************)
EXTENDS Naturals, Sequences

VARIABLES
    sent,      \* how many chunks were queued
    received,  \* the chunks handed over, in their order
    overflow   \* a chunk was queued and not kept

vars == <<sent, received, overflow>>

Init ==
    /\ sent = 0
    /\ received = <<>>
    /\ overflow = FALSE

Queue ==
    /\ sent' = sent + 1
    /\ overflow => overflow'
    /\ UNCHANGED received

Deliver ==
    /\ overflow \/ Len(received) < sent
    /\ \E n \in 1..sent :
         /\ overflow \/ n = Len(received) + 1
         /\ received' = Append(received, n)
    /\ UNCHANGED <<sent, overflow>>

Next == Queue \/ Deliver

Spec == Init /\ [][Next]_vars
=============================================================================
