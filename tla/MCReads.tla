------------------------------ MODULE MCReads ------------------------------
(***************************************************************************)
(* Reads on three voters, with majorities as quorums.                       *)
(***************************************************************************)
EXTENDS Reads, TLC

CONSTANTS n1, n2, n3

MCNode == {n1, n2, n3}
MCQuorum == {Q \in SUBSET MCNode : Cardinality(Q) = 2}
MCSymmetry == Permutations(MCNode)

-----------------------------------------------------------------------------
(***************************************************************************)
(* Behaviours that begin where n1, leader of term 1, has answered its first *)
(* strong read: the state in which linearizable reads are served without    *)
(* the log.                                                                 *)
(***************************************************************************)
ServingInit ==
    /\ term = [n \in Node |-> 1]
    /\ state = [n \in Node |-> IF n = n1 THEN "Leader" ELSE "Follower"]
    /\ log = <<[term |-> 1, kind |-> "noop"], [term |-> 1, kind |-> "command"]>>
    /\ commit = [n \in Node |-> IF n = n1 THEN 2 ELSE 0]
    /\ db = commit
    /\ fsmIdx = commit
    /\ strongReadTerm = [n \in Node |-> IF n = n1 THEN 1 ELSE 0]
    /\ op = [c \in Client |-> NoOp]
    /\ acked = 2
    /\ restarts = 0

ServingSymmetry == Permutations({n2, n3})

ServingSpec == ServingInit /\ [][ReadsNext]_vars
=============================================================================
