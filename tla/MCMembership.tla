---------------------------- MODULE MCMembership ----------------------------
(***************************************************************************)
(* A cluster of one voter a, which node b joins, from one address or, after *)
(* it was moved, from another, and a read-only node c at the first address  *)
(* of b.                                                                    *)
(***************************************************************************)
EXTENDS Membership

MCProc == {"b", "b moved", "c"}
MCSeed == {[id |-> "a", addr |-> 1, voter |-> TRUE]}
MCIdentity ==
    [p \in MCProc |->
       CASE p = "b"       -> [id |-> "b", addr |-> 2, voter |-> TRUE]
         [] p = "b moved" -> [id |-> "b", addr |-> 3, voter |-> TRUE]
         [] p = "c"       -> [id |-> "c", addr |-> 2, voter |-> FALSE]]
=============================================================================
