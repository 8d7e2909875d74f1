---------------------------- MODULE BatchedFifo ----------------------------
(***************************************************************************)
(* What the comment of Queue.Write promises, and no more: what is written  *)
(* is transmitted in the order of its sequence numbers, in batches, each   *)
(* element at most once.                                                   *)
(***************************************************************************)
EXTENDS Naturals, Sequences

VARIABLES in, out       \* sequence numbers accepted, and transmitted

Init == in = << >> /\ out = << >>

Put == in' = Append(in, Len(in) + 1) /\ out' = out

Transmit ==
    /\ \E k \in Len(out) + 1 .. Len(in) : out' = SubSeq(in, 1, k)
    /\ in' = in

Spec == Init /\ [][Put \/ Transmit]_<<in, out>>
============================================================================
