----------------------------- MODULE MCRequests -----------------------------
(***************************************************************************)
(* The two ways a request is served, each on its own: by the Store of the  *)
(* node that gets it, at every read level (Reads), or by another node that *)
(* it is forwarded to (Forwarding).                                        *)
(***************************************************************************)
EXTENDS MCReads, Forwarding

VARIABLE path       \* how the requests of this behaviour are served

requestVars == <<path, vars, forwardVars>>

RequestsInit ==
    /\ path \in {"store", "forwarded"}
    /\ ReadsInit /\ ForwardingInit
    /\ path = "store" => leader = Here

RequestsNext ==
    /\ UNCHANGED path
    /\ \/ path = "store" /\ ReadsNext /\ UNCHANGED forwardVars
       \/ path = "forwarded" /\ ForwardingNext /\ UNCHANGED vars

RequestsSpec == RequestsInit /\ [][RequestsNext]_requestVars

\* Voters are interchangeable, and so are requests and connections.
RequestsSymmetry == MCSymmetry \cup Permutations(Req) \cup Permutations(Conn)
=============================================================================
