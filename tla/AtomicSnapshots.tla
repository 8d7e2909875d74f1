-------------------------- MODULE AtomicSnapshots --------------------------
(***************************************************************************)
(* What the Snapshot Store promises the rest of the node: it holds the     *)
(* latest snapshot, and a new snapshot replaces it in one step or not at   *)
(* all, whatever crash interrupts the work.                                *)
(***************************************************************************)
EXTENDS Naturals

CONSTANTS
    Indexes,        \* Raft indexes
    Versions        \* database versions

VARIABLE latest         \* << >>, or <<index, image>> of the latest snapshot

Init == latest = << >>

\* A snapshot is installed whole, and never replaces a later one.
Install ==
    \E i \in Indexes, v \in Versions :
        /\ latest # << >> => latest[1] <= i
        /\ latest' = <<i, <<v, v>>>>

Spec == Init /\ [][Install]_latest
============================================================================
