------------------------------ MODULE Transport ------------------------------
(***************************************************************************)
(* The TCP multiplexer (tcp/mux.go, tcp/dialer.go) between the nodes'      *)
(* dialers and the two services that listen behind one port: Raft (tcp     *)
(* Layer, store Transport) and the cluster service.  main starts the       *)
(* multiplexer before the services register, and at the end closes the     *)
(* network listener while connections are still being handed over, and     *)
(* then the store.                                                         *)
(***************************************************************************)
EXTENDS Naturals, FiniteSets

CONSTANTS
    Conns,          \* bound: connections
    Services        \* the header bytes of the services

ASSUME TransportParameters == IsFiniteSet(Conns) /\ Services = {"raft", "cluster"}

NoHeader == "none"      \* nothing is sent, or the header of no service

VARIABLES
    lnOpen,         \* the network listener accepts connections
    mux,            \* Serve: "serving", "wait" for the handlers, "returned"
    registered,     \* the headers in mux.m
    loop,           \* loop[h]: the accept loop of the service, "none", "on" or "ended"
    chanOpen,       \* the channel of each listener is open
    raftTnOpen,     \* Raft's network transport has not been closed by Store.Close
    conn,           \* conn[c]: where the connection is
    header          \* header[c]: the first byte its dialer writes

netVars == <<lnOpen, mux, registered, loop, chanOpen, raftTnOpen, conn, header>>

TransportInit ==
    /\ lnOpen = TRUE /\ mux = "serving"
    /\ registered = {}
    /\ loop = [h \in Services |-> "none"]
    /\ chanOpen = TRUE /\ raftTnOpen = TRUE
    /\ conn = [c \in Conns |-> "none"]
    /\ header = [c \in Conns |-> NoHeader]

\* The WaitGroup of the handlers.
Handlers == {c \in Conns : conn[c] \in {"accepted", "read", "send"}}

Move(c, from, to) == conn[c] = from /\ conn' = [conn EXCEPT ![c] = to]

----------------------------------------------------------------------------
(* main: Raft's listener is registered, the cluster service is registered  *)
(* and opened, the store is opened; at the end the network listener is     *)
(* closed, and then the store.  listener.Close does nothing.               *)

MuxListen(h) ==
    /\ h \notin registered
    /\ h = "cluster" => "raft" \in registered
    /\ registered' = registered \cup {h}
    /\ UNCHANGED <<lnOpen, mux, loop, chanOpen, raftTnOpen, conn, header>>

\* Service.Open for the one; NewTransport and NewNetworkTransport in Store.Open,
\* which comes after it, for the other.
ServiceOpen(h) ==
    /\ h \in registered /\ loop[h] = "none"
    /\ h = "raft" => loop["cluster"] = "on"
    /\ loop' = [loop EXCEPT ![h] = "on"]
    /\ UNCHANGED <<lnOpen, mux, registered, chanOpen, raftTnOpen, conn, header>>

CloseMuxLn ==
    /\ \A h \in Services : loop[h] # "none"
    /\ lnOpen' = FALSE
    /\ UNCHANGED <<mux, registered, loop, chanOpen, raftTnOpen, conn, header>>

\* Store.Close, once it has the guard of the snapshots and Raft has shut down; it
\* may also return an error before it comes to this.
CloseRaftTn ==
    /\ ~lnOpen
    /\ raftTnOpen' = FALSE
    /\ UNCHANGED <<lnOpen, mux, registered, loop, chanOpen, conn, header>>

----------------------------------------------------------------------------
(* A connection.                                                           *)

\* Dialer.Dial connects and writes the header, or dies before it does.
DialHeader(c, h) ==
    /\ lnOpen /\ Move(c, "none", "dialed")
    /\ header' = [header EXCEPT ![c] = h]
    /\ UNCHANGED <<lnOpen, mux, registered, loop, chanOpen, raftTnOpen>>

\* Serve's Accept; a temporary error is retried.
MuxAccept(c) ==
    /\ mux = "serving" /\ lnOpen
    /\ Move(c, "dialed", "accepted")
    /\ UNCHANGED <<lnOpen, mux, registered, loop, chanOpen, raftTnOpen, header>>

\* handleConn: the header is read, or the deadline passes.
ReadHeader(c) ==
    /\ IF header[c] = NoHeader THEN Move(c, "accepted", "closed") ELSE Move(c, "accepted", "read")
    /\ UNCHANGED <<lnOpen, mux, registered, loop, chanOpen, raftTnOpen, header>>

\* The listener of the header is looked up.
Handler(c) ==
    /\ IF header[c] \in registered THEN Move(c, "read", "send") ELSE Move(c, "read", "closed")
    /\ UNCHANGED <<lnOpen, mux, registered, loop, chanOpen, raftTnOpen, header>>

\* The channel has no buffer: sending meets the listener's Accept.
ListenerAccept(c, h) ==
    /\ chanOpen /\ h = header[c] /\ loop[h] = "on"
    /\ Move(c, "send", "taken")
    /\ UNCHANGED <<lnOpen, mux, registered, loop, chanOpen, raftTnOpen, header>>

----------------------------------------------------------------------------
(* The end.                                                                *)

\* Accept fails: Serve waits for the handlers and closes the channels.
MuxAcceptFails ==
    /\ mux = "serving" /\ ~lnOpen
    /\ mux' = "wait"
    /\ UNCHANGED <<lnOpen, registered, loop, chanOpen, raftTnOpen, conn, header>>

\* Mutant: the channels are closed at once.
MuxServeReturns_NoWait ==
    /\ mux = "wait"
    /\ mux' = "returned" /\ chanOpen' = FALSE
    /\ UNCHANGED <<lnOpen, registered, loop, raftTnOpen, conn, header>>

MuxServeReturns ==
    /\ mux = "wait" /\ Handlers = {}
    /\ mux' = "returned" /\ chanOpen' = FALSE
    /\ UNCHANGED <<lnOpen, registered, loop, raftTnOpen, conn, header>>

\* Mutant: a service stops to accept when it is closed.
ServiceStops_AtClose(h) ==
    /\ loop[h] = "on" /\ ~lnOpen
    /\ loop' = [loop EXCEPT ![h] = "ended"]
    /\ UNCHANGED <<lnOpen, mux, registered, chanOpen, raftTnOpen, conn, header>>

\* Accept on a closed channel is an error.  It ends the loop of the cluster service;
\* Raft's tries again, with a delay, until its transport is closed.
ServiceStops(h) ==
    /\ loop[h] = "on" /\ ~chanOpen
    /\ h = "raft" => ~raftTnOpen
    /\ loop' = [loop EXCEPT ![h] = "ended"]
    /\ UNCHANGED <<lnOpen, mux, registered, chanOpen, raftTnOpen, conn, header>>

TransportNext ==
    \/ \E h \in Services : MuxListen(h) \/ ServiceOpen(h) \/ ServiceStops(h)
    \/ CloseMuxLn \/ CloseRaftTn \/ MuxAcceptFails \/ MuxServeReturns
    \/ \E c \in Conns :
        \/ \E h \in Services \cup {NoHeader} : DialHeader(c, h)
        \/ MuxAccept(c) \/ ReadHeader(c) \/ Handler(c)
        \/ \E h \in Services : ListenerAccept(c, h)

\* The deadline bounds the wait for the header; main goes on to open the
\* services; goroutines run.
TransportFairness ==
    /\ \A h \in Services : WF_netVars(MuxListen(h)) /\ WF_netVars(ServiceOpen(h)) /\ WF_netVars(ServiceStops(h))
    /\ WF_netVars(MuxAcceptFails) /\ WF_netVars(MuxServeReturns)
    /\ \A c \in Conns : WF_netVars(ReadHeader(c)) /\ WF_netVars(Handler(c))
    /\ \A c \in Conns : WF_netVars(\E h \in Services : ListenerAccept(c, h))

TransportSpec == TransportInit /\ [][TransportNext]_netVars /\ TransportFairness

----------------------------------------------------------------------------

\* No handler is left to send a connection on a channel that Serve has closed,
\* which would be a panic of the whole node, and none starts after.
NoSendOnClosed == ~chanOpen => Handlers = {}

\* Closing the network listener ends the multiplexer and the cluster service, whatever
\* connections are in hand and though the store may never come to be closed; closing
\* the store ends Raft's loop too.
NetworkEnds ==
    /\ ~lnOpen ~> (mux = "returned" /\ loop["cluster"] = "ended")
    /\ ~raftTnOpen ~> (loop["raft"] = "ended")
=============================================================================
