--------------------------- MODULE Cluster_proofs ---------------------------
(***************************************************************************)
(* The nodes of a cluster, for any number of nodes and connections:        *)
(* discovery through a registry, and notifying and joining without one,    *)
(* found one cluster, the multiplexer never closes a channel under a       *)
(* handler, the configuration holds who was let in, and a backup is        *)
(* restored into an empty database only.                                   *)
(***************************************************************************)
EXTENDS Bootstrap, Discovery, Transport, Membership, NodeProcess,
        FiniteSetTheorems, TLAPS

----------------------------------------------------------------------------
(* Discovery.                                                              *)

DiscoTypeOK ==
    /\ registry \in DiscoNodes \cup {Nobody}
    /\ at \in [DiscoNodes -> {"ask", "set", "bootstrap", "join", "up"}]
    /\ target \in [DiscoNodes -> DiscoNodes \cup {Nobody}]
    /\ raftData \in [DiscoNodes -> DiscoNodes \cup {Nobody}]
    /\ reporting \subseteq DiscoNodes

\* n has founded a cluster, or is about to.
Founder(n) == at[n] = "bootstrap" \/ raftData[n] = n

\* A node is up when it has Raft data, and then its cluster has been founded;
\* it joins the node the registry named.
DataMeansUp ==
    \A n \in DiscoNodes :
        /\ at[n] = "up" <=> raftData[n] # Nobody
        /\ raftData[n] # Nobody => raftData[raftData[n]] = raftData[n]
        /\ at[n] = "join" => target[n] # Nobody

\* Nobody founds a cluster before the registry names a node, and the one that
\* does is the one whose check-and-set succeeded.
OneFounder ==
    /\ registry = Nobody => \A n \in DiscoNodes : at[n] # "bootstrap" /\ raftData[n] = Nobody
    /\ \A m, n \in DiscoNodes : Founder(m) /\ Founder(n) => m = n

DiscoInv == DiscoTypeOK /\ DataMeansUp /\ OneFounder

\* Nodes that have not started satisfy the inductive invariant.
LEMMA DiscoInitInv == DiscoInit => DiscoInv
BY DiscoParameters DEF DiscoInit, DiscoInv, DiscoTypeOK, DataMeansUp, OneFounder, Founder

\* A step of Register keeps the invariant: the registry is set once only.
LEMMA RegisterInv ==
    ASSUME DiscoInv, NEW n \in DiscoNodes,
           RegisterStep(n) \/ InitializeLost(n)
    PROVE  DiscoInv'
<1> USE DiscoParameters DEF DiscoInv, DiscoTypeOK, DataMeansUp, OneFounder, Founder
<1>1. CASE AskLeader(n)
  BY <1>1 DEF AskLeader
<1>2. CASE InitializeLeader(n)
  BY <1>2 DEF InitializeLeader, CheckAndSet
<1>3. CASE InitializeLate(n)
  BY <1>3 DEF InitializeLate
<1>4. CASE InitializeLost(n)
  BY <1>4 DEF InitializeLost, CheckAndSet
<1> QED BY <1>1, <1>2, <1>3, <1>4 DEF RegisterStep

\* A step of createCluster keeps it: a node that joins takes over the cluster of
\* its target, which has been founded, and not by the node itself.
LEMMA ClusterInv ==
    ASSUME DiscoInv, NEW n \in DiscoNodes, ClusterStep(n)
    PROVE  DiscoInv'
<1> USE DiscoParameters DEF DiscoInv, DiscoTypeOK, DataMeansUp, OneFounder, Founder
<1>1. CASE BootstrapSelf(n)
  BY <1>1 DEF BootstrapSelf
<1>2. CASE JoinTarget(n)
  <2>1. target[n] \in DiscoNodes /\ at[target[n]] = "up" /\ at[n] = "join"
    BY <1>2 DEF JoinTarget, Reachable
  <2>2. raftData[target[n]] \in DiscoNodes /\ raftData[n] = Nobody
    BY <2>1
  <2>3. raftData[raftData[target[n]]] = raftData[target[n]] /\ raftData[target[n]] # n
    BY <2>1, <2>2
  <2> QED BY <1>2, <2>1, <2>2, <2>3 DEF JoinTarget
<1>3. CASE JoinTargetFails(n)
  BY <1>3 DEF JoinTargetFails
<1> QED BY <1>1, <1>2, <1>3 DEF ClusterStep

\* So do reports, elections and crashes.
LEMMA RulerInv ==
    ASSUME DiscoInv, NEW n \in DiscoNodes,
           Report(n) \/ SetLeader(n) \/ NewRuler(n) \/ NextRuler(n) \/ DiscoCrash(n)
    PROVE  DiscoInv'
<1> USE DiscoParameters DEF DiscoInv, DiscoTypeOK, DataMeansUp, OneFounder, Founder
<1>1. CASE Report(n)
  BY <1>1 DEF Report
<1>2. CASE SetLeader(n)
  BY <1>2 DEF SetLeader
<1>3. CASE NewRuler(n)
  BY <1>3 DEF NewRuler
<1>4. CASE NextRuler(n)
  BY <1>4 DEF NextRuler
<1>5. CASE DiscoCrash(n)
  BY <1>5 DEF DiscoCrash
<1> QED BY <1>1, <1>2, <1>3, <1>4, <1>5

\* At most one founder is at most one cluster.
LEMMA FoundersAreOne == DiscoInv => OneDiscoCluster
<1> SUFFICES ASSUME DiscoInv PROVE OneDiscoCluster
  OBVIOUS
<1> DEFINE F == {n \in DiscoNodes : raftData[n] = n}
<1>1. \A m, n \in F : m = n
  BY DEF DiscoInv, OneFounder, Founder
<1>2. CASE F = {}
  BY <1>2, FS_EmptySet DEF OneDiscoCluster
<1>3. CASE F # {}
  <2>1. PICK m : F = {m}
    BY <1>1, <1>3
  <2>2. Cardinality(F) = 1
    BY <2>1, FS_Singleton, Zenon
  <2> QED BY <2>2 DEF OneDiscoCluster
<1> QED BY <1>2, <1>3

\* Whatever the number of voters that start at once, and whatever crashes and
\* whichever answers of the registry are lost, discovery founds one cluster
\* (disco/service.go, Register; createCluster).
THEOREM DiscoveryFoundsOneCluster == DiscoSpec => []OneDiscoCluster
<1>1. DiscoInit => DiscoInv
  BY DiscoInitInv
<1>2. DiscoInv /\ [DiscoNext]_discoVars => DiscoInv'
  <2> SUFFICES ASSUME DiscoInv, [DiscoNext]_discoVars PROVE DiscoInv'
    OBVIOUS
  <2>1. CASE DiscoNext
    BY <2>1, RegisterInv, ClusterInv, RulerInv DEF DiscoNext
  <2>2. CASE UNCHANGED discoVars
    BY <2>2 DEF discoVars, DiscoInv, DiscoTypeOK, DataMeansUp, OneFounder, Founder
  <2> QED BY <2>1, <2>2
<1> QED BY <1>1, <1>2, FoundersAreOne, PTL DEF DiscoSpec

----------------------------------------------------------------------------
(* The multiplexer.                                                        *)

MuxTypeOK ==
    /\ lnOpen \in BOOLEAN /\ chanOpen \in BOOLEAN
    /\ mux \in {"serving", "wait", "returned"}
    /\ conn \in [Conns -> {"none", "dialed", "accepted", "read", "send", "taken", "closed"}]

\* The channels are open until Serve returns; Serve leaves its loop only after the
\* network listener was closed, which is never opened again, so that no handler
\* starts while it waits for those it has.
MuxInv ==
    /\ MuxTypeOK
    /\ ~chanOpen => mux = "returned"
    /\ mux # "serving" => ~lnOpen
    /\ mux = "returned" => Handlers = {}

\* Serve never closes the channel of a listener while a handler may still send a
\* connection on it (tcp/mux.go, Serve and handleConn), for any number of
\* connections and whenever the network listener is closed.
THEOREM MuxNeverSendsOnClosed == TransportSpec => []NoSendOnClosed
<1>1. TransportInit => MuxInv
  <2> SUFFICES ASSUME TransportInit PROVE MuxInv
    OBVIOUS
  <2>1. lnOpen \in BOOLEAN /\ chanOpen \in BOOLEAN /\ lnOpen /\ chanOpen
    BY Zenon DEF TransportInit
  <2> QED BY <2>1 DEF TransportInit, MuxInv, MuxTypeOK, Handlers
<1>2. MuxInv /\ [TransportNext]_netVars => MuxInv'
  <2> SUFFICES ASSUME MuxInv, [TransportNext]_netVars PROVE MuxInv'
    OBVIOUS
  <2> USE DEF MuxInv, MuxTypeOK, Handlers, Move
  <2>1. ASSUME NEW h \in Services, MuxListen(h) \/ ServiceOpen(h) \/ ServiceStops(h)
        PROVE  MuxInv'
    BY <2>1 DEF MuxListen, ServiceOpen, ServiceStops
  <2>2. CASE CloseMuxLn
    BY <2>2 DEF CloseMuxLn
  <2>11. CASE CloseRaftTn
    BY <2>11 DEF CloseRaftTn
  <2>3. CASE MuxAcceptFails
    BY <2>3 DEF MuxAcceptFails
  <2>4. CASE MuxServeReturns
    BY <2>4 DEF MuxServeReturns
  <2>5. ASSUME NEW c \in Conns, NEW h \in Services \cup {NoHeader}, DialHeader(c, h)
        PROVE  MuxInv'
    BY <2>5 DEF DialHeader
  <2>6. ASSUME NEW c \in Conns, MuxAccept(c)
        PROVE  MuxInv'
    BY <2>6 DEF MuxAccept
  <2>7. ASSUME NEW c \in Conns, ReadHeader(c)
        PROVE  MuxInv'
    BY <2>7 DEF ReadHeader
  <2>8. ASSUME NEW c \in Conns, Handler(c)
        PROVE  MuxInv'
    BY <2>8 DEF Handler
  <2>9. ASSUME NEW c \in Conns, NEW h \in Services, ListenerAccept(c, h)
        PROVE  MuxInv'
    BY <2>9 DEF ListenerAccept
  <2>10. CASE UNCHANGED netVars
    BY <2>10 DEF netVars
  <2> QED BY <2>1, <2>2, <2>3, <2>4, <2>5, <2>6, <2>7, <2>8, <2>9, <2>10, <2>11, Zenon DEF TransportNext
<1>3. MuxInv => NoSendOnClosed
  BY DEF MuxInv, NoSendOnClosed
<1> QED BY <1>1, <1>2, <1>3, PTL DEF TransportSpec

----------------------------------------------------------------------------
(* Membership.                                                             *)

ProcState == [pc : {"down", "asking", "member", "leaving", "confirm", "left", "fatal", "dead"},
              tries : Nat]

\* j is a call of Store.Join.
IsCall(j) ==
    /\ j.p \in Proc /\ j.waited \in BOOLEAN
    /\ j = [p |-> j.p, term |-> j.term, removals |-> j.removals, waited |-> j.waited]

MemberTypeOK == proc \in [Proc -> ProcState] /\ \A j \in joins : IsCall(j)

\* No two processes with one identifier run at a time.
OneOfAName == \A p, q \in Proc : Running(p) /\ Running(q) /\ Id(p) = Id(q) => p = q

\* A call somebody waits for is that of a process that asks, its only one; the
\* identifier of any other call is orphaned.
WaitedCalls ==
    /\ \A j \in joins : /\ j.waited => proc[j.p].pc = "asking"
                        /\ ~j.waited => Id(j.p) \in orphaned
    /\ \A i, j \in joins : i.waited /\ j.waited /\ i.p = j.p => i = j

\* Who leaves has said so, and is out when its removal was answered.
Leaving ==
    \A p \in Proc :
        /\ proc[p].pc = "leaving" => Id(p) \in dismissed
        /\ proc[p].pc = "confirm" => Id(p) \in orphaned \/ \A s \in servers : s.id # Id(p)

MemberInv ==
    MemberTypeOK /\ OneOfAName /\ WaitedCalls /\ Leaving /\ MemberStays /\ RemovedStaysOut

\* A cluster that nobody has asked to join yet satisfies the invariant.
LEMMA MemberInitInv == MemberInit => MemberInv
BY DEF MemberInit, MemberInv, MemberTypeOK, ProcState, OneOfAName, Running, WaitedCalls, Leaving,
       MemberStays, RemovedStaysOut

\* The parts of the invariant that are about the configuration survive a removal
\* of an identifier whose members are excused: dismissed, orphaned or not up.
LEMMA RemovalKeeps ==
    ASSUME NEW c, NEW id, NEW p \in Proc
    PROVE  /\ (\E s \in c : s.id = Id(p) /\ s.addr = Identity[p].addr) /\ Id(p) # id
                => \E s \in Without(c, id) : s.id = Id(p) /\ s.addr = Identity[p].addr
           /\ (\A s \in c : s.id # Id(p)) => \A s \in Without(c, id) : s.id # Id(p)
           /\ Id(p) = id => \A s \in Without(c, id) : s.id # Id(p)
BY DEF Without

\* AddVoter and AddNonvoter: the new server is in, and the others stay.
LEMMA AdditionKeeps ==
    ASSUME NEW c, NEW q \in Proc, NEW p \in Proc
    PROVE  /\ Id(p) # Id(q) /\ (\E s \in c : s.id = Id(p) /\ s.addr = Identity[p].addr)
                => \E s \in With(c, Identity[q]) : s.id = Id(p) /\ s.addr = Identity[p].addr
           /\ Id(p) # Id(q) /\ (\A s \in c : s.id # Id(p))
                => \A s \in With(c, Identity[q]) : s.id # Id(p)
           /\ \E s \in With(c, Identity[q]) : s.id = Id(q) /\ s.addr = Identity[q].addr
<1>1. PICK new : new = [Identity[q] EXCEPT !.voter = Identity[q].voter
                                  \/ \E s \in c : s.id = Identity[q].id /\ s.voter]
  OBVIOUS
<1>2. new.id = Id(q) /\ new.addr = Identity[q].addr
  BY <1>1, MembershipParameters DEF Server, Id
<1>3. With(c, Identity[q]) = Without(c, Id(q)) \cup {new}
  BY <1>1 DEF With, Id
<1> QED BY <1>2, <1>3 DEF Without

\* The steps of a call of Join keep the invariant: the process it is for asks and
\* is the only one of its name, or its identifier is orphaned.
LEMMA JoinInv ==
    ASSUME MemberInv, NEW j \in joins, JoinStep(j) \/ JoinTimeout(j)
    PROVE  MemberInv'
<1>0. /\ j.p \in Proc /\ j.waited \in BOOLEAN
      /\ j = [p |-> j.p, term |-> j.term, removals |-> j.removals, waited |-> j.waited]
      /\ proc \in [Proc -> ProcState]
  BY DEF MemberInv, MemberTypeOK, IsCall
<1>1. CASE JoinRemove(j)
  <2>1. PICK k : k = [j EXCEPT !.removals = j.removals - 1]
    OBVIOUS
  <2>2. k.p = j.p /\ k.waited = j.waited /\ IsCall(k)
    BY <1>0, <2>1 DEF IsCall
  <2>3. /\ joins' = (joins \ {j}) \cup {k} /\ servers' = Without(servers, Id(j.p))
        /\ UNCHANGED <<leaderTerm, proc, failing, local, dismissed, orphaned, reaps>>
    BY <1>1, <2>1 DEF JoinRemove, Removed
  <2>4. MemberTypeOK' /\ OneOfAName' /\ WaitedCalls'
    BY <2>2, <2>3 DEF MemberInv, MemberTypeOK, IsCall, OneOfAName, Running, WaitedCalls
  <2>5. Leaving' /\ RemovedStaysOut'
    BY <2>3, RemovalKeeps DEF MemberInv, Leaving, RemovedStaysOut
  <2>6. MemberStays'
    <3> SUFFICES ASSUME NEW p \in Proc, proc[p].pc = "member", Id(p) \notin dismissed \cup orphaned
                 PROVE  \E s \in servers' : s.id = Id(p) /\ s.addr = Identity[p].addr
      BY <2>3 DEF MemberStays
    <3>1. Id(p) # Id(j.p)
      BY <1>0 DEF MemberInv, OneOfAName, WaitedCalls, Running
    <3> QED BY <2>3, <3>1, RemovalKeeps DEF MemberInv, MemberStays
  <2> QED BY <2>4, <2>5, <2>6 DEF MemberInv
<1>2. CASE JoinAdd(j)
  <2>1. /\ joins' = joins \ {j} /\ servers' = With(servers, Identity[j.p])
        /\ UNCHANGED <<leaderTerm, failing, local, dismissed, orphaned, reaps>>
        /\ IF j.waited THEN To(j.p, "member") ELSE UNCHANGED proc
    BY <1>2 DEF JoinAdd
  <2>2. /\ proc' \in [Proc -> ProcState]
        /\ \A p \in Proc : p # j.p => proc'[p] = proc[p]
        /\ IF j.waited THEN proc[j.p].pc = "asking" /\ proc'[j.p].pc = "member"
           ELSE proc' = proc /\ Id(j.p) \in orphaned
    BY <1>0, <2>1 DEF To, ProcState, MemberInv, WaitedCalls
  <2>3. MemberTypeOK' /\ OneOfAName' /\ WaitedCalls'
    BY <1>0, <2>1, <2>2 DEF MemberInv, MemberTypeOK, IsCall, OneOfAName, Running, WaitedCalls
  <2>4. \A p \in Proc : Id(p) = Id(j.p) /\ p # j.p /\ j.waited => ~Running(p)
    BY <1>0, <2>2 DEF MemberInv, OneOfAName, Running
  <2>5. PICK c : c = servers'
    OBVIOUS
  <2>6. \A p \in Proc :
          /\ Id(p) # Id(j.p) /\ (\E s \in servers : s.id = Id(p) /\ s.addr = Identity[p].addr)
               => \E s \in c : s.id = Id(p) /\ s.addr = Identity[p].addr
          /\ Id(p) # Id(j.p) /\ (\A s \in servers : s.id # Id(p)) => \A s \in c : s.id # Id(p)
          /\ \E s \in c : s.id = Id(j.p) /\ s.addr = Identity[j.p].addr
    <3> TAKE p \in Proc
    <3>1. With(servers, Identity[j.p]) = c /\ j.p \in Proc
      BY <1>0, <2>1, <2>5
    <3>2. \A q \in Proc :
          /\ Id(p) # Id(q) /\ (\E s \in servers : s.id = Id(p) /\ s.addr = Identity[p].addr)
               => \E s \in With(servers, Identity[q]) : s.id = Id(p) /\ s.addr = Identity[p].addr
          /\ Id(p) # Id(q) /\ (\A s \in servers : s.id # Id(p))
               => \A s \in With(servers, Identity[q]) : s.id # Id(p)
          /\ \E s \in With(servers, Identity[q]) : s.id = Id(q) /\ s.addr = Identity[q].addr
      BY AdditionKeeps, Zenon
    <3> QED BY <3>1, <3>2, Zenon
  <2>7. Leaving'
    <3> SUFFICES ASSUME NEW p \in Proc
                 PROVE  /\ proc'[p].pc = "leaving" => Id(p) \in dismissed
                        /\ proc'[p].pc = "confirm" => Id(p) \in orphaned \/ \A s \in c : s.id # Id(p)
      BY <2>1, <2>5 DEF Leaving
    <3> QED BY <1>0, <2>2, <2>4, <2>6 DEF MemberInv, Leaving, Running
  <2>8. MemberStays'
    <3> SUFFICES ASSUME NEW p \in Proc, proc'[p].pc = "member", Id(p) \notin dismissed \cup orphaned
                 PROVE  \E s \in c : s.id = Id(p) /\ s.addr = Identity[p].addr
      BY <2>1, <2>5 DEF MemberStays
    <3>1. CASE p = j.p
      BY <2>6, <3>1
    <3>2. CASE p # j.p
      <4>1. proc[p].pc = "member" /\ Id(p) # Id(j.p)
        BY <2>2, <2>4, <3>2 DEF Running
      <4> QED BY <2>6, <4>1 DEF MemberInv, MemberStays
    <3> QED BY <3>1, <3>2
  <2>9. RemovedStaysOut'
    <3> SUFFICES ASSUME NEW p \in Proc, proc'[p].pc = "left", Id(p) \notin orphaned,
                        ~\E q \in Proc : Id(q) = Id(p) /\ proc'[q].pc \notin {"down", "left"}
                 PROVE  \A s \in c : s.id # Id(p)
      BY <2>1, <2>5 DEF RemovedStaysOut
    <3>1. proc[p].pc = "left" /\ Id(p) # Id(j.p)
      BY <1>0, <2>2
    <3>2. ~\E q \in Proc : Id(q) = Id(p) /\ proc[q].pc \notin {"down", "left"}
      BY <2>2, <3>1
    <3> QED BY <2>6, <3>1, <3>2 DEF MemberInv, RemovedStaysOut
  <2> QED BY <2>3, <2>7, <2>8, <2>9 DEF MemberInv
<1>3. CASE RejoinFails(j)
  <2>1. joins' = joins \ {j}
        /\ UNCHANGED <<servers, leaderTerm, proc, failing, local, dismissed, orphaned, reaps>>
    BY <1>3 DEF RejoinFails
  <2> QED BY <2>1 DEF MemberInv, MemberTypeOK, IsCall, OneOfAName, Running, WaitedCalls, Leaving,
                      MemberStays, RemovedStaysOut
<1>4. CASE JoinTimeout(j)
  <2>1. PICK k : k = [j EXCEPT !.waited = FALSE]
    OBVIOUS
  <2>2. k.p = j.p /\ k.waited = FALSE /\ IsCall(k)
    BY <1>0, <2>1 DEF IsCall
  <2>3. /\ joins' = (joins \ {j}) \cup {k} /\ orphaned' = orphaned \cup {Id(j.p)}
        /\ UNCHANGED <<servers, leaderTerm, proc, failing, local, dismissed, reaps>>
    BY <1>4, <2>1 DEF JoinTimeout
  <2>4. MemberTypeOK' /\ OneOfAName' /\ WaitedCalls'
    BY <1>0, <2>2, <2>3 DEF MemberInv, MemberTypeOK, IsCall, OneOfAName, Running, WaitedCalls
  <2> QED BY <2>3, <2>4 DEF MemberInv, Leaving, MemberStays, RemovedStaysOut
<1> QED BY <1>1, <1>2, <1>3, <1>4 DEF JoinStep

\* A process that starts, asks, dies or begins to leave keeps the invariant.
LEMMA ProcessInv ==
    ASSUME MemberInv, NEW p \in Proc,
           StartProcess(p) \/ JoinBegin(p) \/ Die(p) \/ Leave(p)
    PROVE  MemberInv'
<1>0. proc \in [Proc -> ProcState]
  BY DEF MemberInv, MemberTypeOK
<1>1. CASE StartProcess(p)
  <2>1. /\ proc[p].pc = "down" /\ proc'[p].pc = "asking" /\ proc' \in [Proc -> ProcState]
        /\ \A q \in Proc : q # p => proc'[q] = proc[q]
        /\ \A q \in Proc : Running(q) => Id(q) # Id(p)
        /\ UNCHANGED <<servers, leaderTerm, joins, failing, local, dismissed, orphaned, reaps>>
    BY <1>0, <1>1 DEF StartProcess, To, ProcState
  <2>2. MemberTypeOK' /\ OneOfAName' /\ WaitedCalls'
    BY <2>1 DEF MemberInv, MemberTypeOK, IsCall, OneOfAName, Running, WaitedCalls
  <2> QED BY <2>1, <2>2 DEF MemberInv, Leaving, MemberStays, RemovedStaysOut
<1>2. CASE JoinBegin(p) /\ \E s \in servers : s.id = Id(p) /\ s.addr = Identity[p].addr
  <2>1. /\ proc[p].pc = "asking" /\ proc'[p].pc = "member" /\ proc' \in [Proc -> ProcState]
        /\ \A q \in Proc : q # p => proc'[q] = proc[q]
        /\ \A j \in joins : j.waited => j.p # p
        /\ UNCHANGED <<servers, leaderTerm, joins, failing, local, dismissed, orphaned, reaps>>
    BY <1>0, <1>2 DEF JoinBegin, To, ProcState, Waiting
  <2>2. MemberTypeOK' /\ OneOfAName' /\ WaitedCalls'
    BY <2>1 DEF MemberInv, MemberTypeOK, IsCall, OneOfAName, Running, WaitedCalls
  <2> QED BY <1>2, <2>1, <2>2 DEF MemberInv, Leaving, MemberStays, RemovedStaysOut
<1>3. CASE JoinBegin(p) /\ ~\E s \in servers : s.id = Id(p) /\ s.addr = Identity[p].addr
  <2>1. PICK k : k = [p |-> p, term |-> leaderTerm, removals |-> Cardinality(Conflicts(p)),
                      waited |-> TRUE]
    OBVIOUS
  <2>2. /\ joins' = joins \cup {k} /\ k.p = p /\ k.waited = TRUE /\ IsCall(k)
        /\ \A j \in joins : j.waited => j.p # p
        /\ proc[p].pc = "asking"
        /\ UNCHANGED <<servers, leaderTerm, proc, failing, local, dismissed, orphaned, reaps>>
    BY <1>3, <2>1 DEF JoinBegin, Waiting, IsCall
  <2>3. MemberTypeOK' /\ OneOfAName' /\ WaitedCalls'
    BY <2>2 DEF MemberInv, MemberTypeOK, IsCall, OneOfAName, Running, WaitedCalls
  <2> QED BY <2>2, <2>3 DEF MemberInv, Leaving, MemberStays, RemovedStaysOut
<1>4. CASE Die(p)
  <2>1. /\ Running(p) /\ proc' = [proc EXCEPT ![p] = [pc |-> "dead", tries |-> 0]]
        /\ joins' = {IF j.p = p THEN [j EXCEPT !.waited = FALSE] ELSE j : j \in joins}
        /\ orphaned' = IF Waiting(p) THEN orphaned \cup {Id(p)} ELSE orphaned
        /\ UNCHANGED <<servers, leaderTerm, failing, dismissed, reaps>>
    BY <1>4 DEF Die
  <2>2. /\ proc'[p].pc = "dead" /\ proc' \in [Proc -> ProcState]
        /\ \A q \in Proc : q # p => proc'[q] = proc[q]
    BY <1>0, <2>1 DEF ProcState
  <2>3. ASSUME NEW k \in joins'
        PROVE  /\ IsCall(k)
               /\ k.waited => k \in joins /\ k.p # p
               /\ ~k.waited => Id(k.p) \in orphaned'
    <3>1. PICK j \in joins : k = IF j.p = p THEN [j EXCEPT !.waited = FALSE] ELSE j
      BY <2>1
    <3>2. IsCall(j) /\ (~j.waited => Id(j.p) \in orphaned) /\ orphaned \subseteq orphaned'
      BY <2>1 DEF MemberInv, MemberTypeOK, WaitedCalls
    <3>3. CASE j.p # p
      BY <3>1, <3>2, <3>3
    <3>4. CASE j.p = p
      <4>1. k.p = p /\ k.waited = FALSE /\ IsCall(k)
        BY <3>1, <3>2, <3>4 DEF IsCall
      <4>2. Id(p) \in orphaned'
        BY <2>1, <3>2, <3>4 DEF Waiting
      <4> QED BY <4>1, <4>2
    <3> QED BY <3>3, <3>4
  <2>4. MemberTypeOK' /\ OneOfAName'
    BY <2>2, <2>3 DEF MemberInv, MemberTypeOK, IsCall, OneOfAName, Running
  <2>5. WaitedCalls'
    <3>1. \A k \in joins' : k.waited => proc'[k.p].pc = "asking"
      BY <2>2, <2>3 DEF MemberInv, WaitedCalls, IsCall
    <3>2. \A i, k \in joins' : i.waited /\ k.waited /\ i.p = k.p => i = k
      BY <2>3 DEF MemberInv, WaitedCalls
    <3> QED BY <2>3, <3>1, <3>2 DEF WaitedCalls
  <2>6. orphaned \subseteq orphaned'
    BY <2>1
  <2> QED BY <2>1, <2>2, <2>4, <2>5, <2>6 DEF MemberInv, Leaving, MemberStays, RemovedStaysOut
<1>5. CASE Leave(p)
  <2>1. /\ proc[p].pc = "member" /\ proc'[p].pc = "leaving" /\ proc' \in [Proc -> ProcState]
        /\ \A q \in Proc : q # p => proc'[q] = proc[q]
        /\ dismissed' = dismissed \cup {Id(p)}
        /\ UNCHANGED <<servers, leaderTerm, joins, failing, local, orphaned, reaps>>
    BY <1>0, <1>5 DEF Leave, To, ProcState
  <2>2. MemberTypeOK' /\ OneOfAName' /\ WaitedCalls'
    BY <2>1 DEF MemberInv, MemberTypeOK, IsCall, OneOfAName, Running, WaitedCalls
  <2> QED BY <2>1, <2>2 DEF MemberInv, Leaving, MemberStays, RemovedStaysOut
<1> QED BY <1>1, <1>2, <1>3, <1>4, <1>5

\* The steps by which a process leaves keep the invariant.
LEMMA LeaveInv ==
    ASSUME MemberInv, NEW p \in Proc, LeaveStep(p)
    PROVE  MemberInv'
<1>0. proc \in [Proc -> ProcState]
  BY DEF MemberInv, MemberTypeOK
<1>1. \/ /\ proc[p].pc = "leaving" /\ proc'[p].pc = "confirm" /\ servers' = Without(servers, Id(p))
      \/ /\ proc[p].pc = "leaving" /\ proc'[p].pc \in {"leaving", "fatal"}
         /\ servers' = Without(servers, Id(p)) \/ servers' = servers
      \/ /\ proc[p].pc = "confirm" /\ proc'[p].pc \in {"left", "fatal"} /\ servers' = servers
  <2>1. CASE RemoveOK(p)
    BY <1>0, <2>1 DEF RemoveOK, To, Removed, ProcState
  <2>2. CASE RemoveFails(p)
    BY <1>0, <2>2 DEF RemoveFails, Removed, ProcState
  <2>3. CASE Confirmed(p)
    BY <1>0, <2>3 DEF Confirmed, To, ProcState
  <2>4. CASE NotConfirmed(p)
    BY <1>0, <2>4 DEF NotConfirmed, To, ProcState
  <2> QED BY <2>1, <2>2, <2>3, <2>4 DEF LeaveStep
<1>2. /\ proc' \in [Proc -> ProcState] /\ \A q \in Proc : q # p => proc'[q] = proc[q]
      /\ UNCHANGED <<leaderTerm, joins, failing, local, dismissed, orphaned, reaps>>
  BY <1>0 DEF LeaveStep, RemoveOK, RemoveFails, Confirmed, NotConfirmed, To, ProcState
<1>3. MemberTypeOK' /\ OneOfAName' /\ WaitedCalls'
  BY <1>1, <1>2 DEF MemberInv, MemberTypeOK, IsCall, OneOfAName, Running, WaitedCalls
<1>4. Leaving'
  BY <1>1, <1>2, RemovalKeeps DEF MemberInv, Leaving
<1>5. MemberStays'
  <2>1. servers' # servers => Id(p) \in dismissed /\ servers' = Without(servers, Id(p))
    BY <1>1 DEF MemberInv, Leaving
  <2> QED BY <1>1, <1>2, <2>1, RemovalKeeps DEF MemberInv, MemberStays
<1>6. RemovedStaysOut'
  BY <1>1, <1>2, RemovalKeeps DEF MemberInv, Leaving, RemovedStaysOut
<1> QED BY <1>3, <1>4, <1>5, <1>6 DEF MemberInv

\* So does a reaped node, whoever it turns out to be.
LEMMA ReapInv ==
    ASSUME MemberInv, NEW id, Reap(id)
    PROVE  MemberInv'
<1>1. /\ UNCHANGED <<leaderTerm, proc, joins, local, orphaned, reaps>>
      /\ \/ servers' = Without(servers, id) /\ dismissed' = dismissed \cup {id}
         \/ UNCHANGED <<servers, dismissed>>
  BY DEF Reap, Removed
<1>2. MemberTypeOK' /\ OneOfAName' /\ WaitedCalls'
  BY <1>1 DEF MemberInv, MemberTypeOK, IsCall, OneOfAName, Running, WaitedCalls
<1> QED BY <1>1, <1>2, RemovalKeeps DEF MemberInv, Leaving, MemberStays, RemovedStaysOut

\* Every step keeps the invariant.
LEMMA MemberStepInv == MemberInv /\ [MemberNext]_memberVars => MemberInv'
<1> SUFFICES ASSUME MemberInv, [MemberNext]_memberVars PROVE MemberInv'
  OBVIOUS
<1>1. ASSUME UNCHANGED <<servers, proc, joins, dismissed, orphaned>> PROVE MemberInv'
  BY <1>1 DEF MemberInv, MemberTypeOK, IsCall, OneOfAName, Running, WaitedCalls, Leaving,
              MemberStays, RemovedStaysOut
<1>2. CASE UNCHANGED memberVars \/ NewLeader \/ (\E p \in Proc : Hear(p))
           \/ (\E s \in servers : FailedHeartbeat(s))
  BY <1>1, <1>2 DEF memberVars, NewLeader, Hear, FailedHeartbeat
<1> QED BY <1>2, JoinInv, ProcessInv, LeaveInv, ReapInv DEF MemberNext

\* Whatever joins, removals, deaths, timeouts and changes of leader overlap, for
\* every set of processes and every configuration at the start: the configuration
\* holds who was let in and not who was let go (Store.Join, Store.Remove, observe,
\* Remover.Do).
THEOREM MembersAreAsAsked == MemberSpec => []MembershipIsAsAsked
<1>1. MemberInv => MembershipIsAsAsked
  BY DEF MemberInv, MembershipIsAsAsked
<1> QED BY <1>1, MemberInitInv, MemberStepInv, PTL DEF MemberSpec

----------------------------------------------------------------------------
(* Automatic restore.                                                      *)

LogEntry == [type : {"write", "load"}, late : BOOLEAN]

Observation == [id : Node \cup {NoNode}, election : Nat]

ProcessTypeOK ==
    /\ main \in [Node -> {"down", "open", "closed"}]
    /\ restorePath \in [Node -> BOOLEAN] /\ waiting \in [Node -> BOOLEAN]
    /\ observerChan \in [Node -> Seq(Observation)]
    /\ observer \in [Node -> Nat]
    /\ known \in [Node -> Node \cup {NoNode}]
    /\ entries \in Seq(LogEntry)
    /\ have \in [Node -> Nat]
    /\ leader \in Node \cup {NoNode} /\ elections \in Nat

\* The leader knows that it is, and runs.
LeaderKnows == leader # NoNode => known[leader] = leader /\ main[leader] = "open"

\* Only an open node has a backup to load, and it is not ready before it has tried;
\* the goroutine loads for an election only when there is one.
BackupWaits ==
    \A n \in Node :
        /\ restorePath[n] => waiting[n] /\ main[n] = "open"
        /\ observer[n] # Idle => restorePath[n]
        /\ main[n] # "open" => observerChan[n] = << >> /\ known[n] = NoNode

\* A node with a backup that has heard of no leader has no entries either.
HeardOfNobody ==
    \A n \in Node : restorePath[n] /\ observer[n] = Idle /\ observerChan[n] = << >>
        => known[n] = NoNode /\ have[n] = 0

\* n is to load its backup, or does, for the election e.
LoadsFor(n, e) ==
    /\ restorePath[n]
    /\ \/ observer[n] # Idle /\ observer[n] = e
       \/ /\ observer[n] = Idle /\ observerChan[n] # << >>
          /\ Head(observerChan[n]).id = n /\ Head(observerChan[n]).election = e

\* If that is the last election, n still leads and nothing has been committed.
FirstLeader ==
    \A n \in Node, e \in Nat : LoadsFor(n, e) =>
        /\ 0 < e /\ e <= elections
        /\ e = elections => leader = n /\ entries = << >>

RestoreInv ==
    ProcessTypeOK /\ LeaderKnows /\ BackupWaits /\ HeardOfNobody /\ FirstLeader /\ RestoresIntoEmpty

\* Before any process runs there is nothing to load.
LEMMA ProcessInitInv == ProcessInit => RestoreInv
<1> SUFFICES ASSUME ProcessInit PROVE RestoreInv
  OBVIOUS
<1> USE DEF ProcessInit, Idle
<1>1. ProcessTypeOK
  BY DEF ProcessTypeOK
<1>2. LeaderKnows /\ BackupWaits /\ HeardOfNobody /\ RestoresIntoEmpty
  BY DEF LeaderKnows, BackupWaits, HeardOfNobody, RestoresIntoEmpty
<1>3. FirstLeader
  BY DEF FirstLeader, LoadsFor
<1> QED BY <1>1, <1>2, <1>3 DEF RestoreInv

\* Starting a process keeps the invariant: a backup is downloaded only by a node
\* without entries, which has heard of nobody.
LEMMA StartInv ==
    ASSUME RestoreInv, NEW n \in Node, MainStep(n)
    PROVE  RestoreInv'
<1>1. /\ main[n] = "down" /\ main' = [main EXCEPT ![n] = "open"]
      /\ UNCHANGED <<observerChan, observer, known, raftVars>>
      /\ \/ UNCHANGED <<restorePath, waiting>>
         \/ have[n] \in Nat /\ ~(have[n] > 0) /\ SetRestorePath(n)
  BY DEF MainStep, StartWithData, StartDownloaded, StartNoDownload, storeVars, HasData, RestoreInv,
         ProcessTypeOK
<1>2. /\ observerChan[n] = << >> /\ known[n] = NoNode /\ ~restorePath[n] /\ observer[n] = Idle
      /\ leader # n
  BY <1>1, ProcessParameters DEF RestoreInv, ProcessTypeOK, BackupWaits, LeaderKnows
<1>3. ProcessTypeOK'
  BY <1>1 DEF RestoreInv, ProcessTypeOK, SetRestorePath, raftVars
<1>4. LeaderKnows' /\ RestoresIntoEmpty'
  BY <1>1 DEF RestoreInv, ProcessTypeOK, LeaderKnows, RestoresIntoEmpty, raftVars
<1>5. BackupWaits' /\ HeardOfNobody'
  <2>1. /\ main'[n] = "open" /\ \A m \in Node \ {n} : main'[m] = main[m] /\ waiting'[m] = waiting[m]
                                                      /\ restorePath'[m] = restorePath[m]
        /\ restorePath'[n] => waiting'[n] /\ have[n] = 0
        /\ UNCHANGED <<observerChan, observer, known, have>>
    BY <1>1, <1>2 DEF RestoreInv, ProcessTypeOK, SetRestorePath, raftVars
  <2>2. BackupWaits'
    BY <1>2, <2>1 DEF RestoreInv, BackupWaits
  <2>3. HeardOfNobody'
    BY <1>2, <2>1 DEF RestoreInv, HeardOfNobody
  <2> QED BY <2>2, <2>3
<1>6. \A m \in Node, e \in Nat : LoadsFor(m, e)' => LoadsFor(m, e)
  BY <1>1, <1>2 DEF LoadsFor, RestoreInv, ProcessTypeOK, SetRestorePath
<1>7. FirstLeader'
  BY <1>1, <1>6 DEF RestoreInv, FirstLeader, raftVars
<1> QED BY <1>3, <1>4, <1>5, <1>7 DEF RestoreInv

\* An observation that is appended is the first one only if there was none.
LEMMA ObservedFirst ==
    ASSUME RestoreInv, NEW n \in Node, NEW l \in Node \cup {NoNode}, elections' \in Nat,
           Observed(n, l), UNCHANGED <<restorePath, observer>>
    PROVE  /\ observerChan' \in [Node -> Seq(Observation)]
           /\ known' \in [Node -> Node \cup {NoNode}]
           /\ observerChan'[n] # << >>
           /\ known'[n] = l /\ \A m \in Node \ {n} : known'[m] = known[m] /\ observerChan'[m] = observerChan[m]
           /\ \A m \in Node, e \in Nat : LoadsFor(m, e)' =>
                 \/ LoadsFor(m, e)
                 \/ m = n /\ l = n /\ e = elections' /\ observerChan[n] = << >> /\ observer[n] = Idle
                    /\ restorePath[n]
<1>1. PICK o : o = [id |-> l, election |-> elections']
  OBVIOUS
<1>2. o \in Observation /\ o.id = l /\ o.election = elections'
  BY <1>1 DEF Observation
<1>3. PICK q \in Seq(Observation) : q = observerChan[n]
  BY DEF RestoreInv, ProcessTypeOK
<1>4. PICK r : r = IF Len(q) < ObserverChanLen THEN Append(q, o) ELSE q
  OBVIOUS
<1>5. /\ known' = [known EXCEPT ![n] = l] /\ observerChan' = [observerChan EXCEPT ![n] = r]
      /\ observerChan \in [Node -> Seq(Observation)] /\ known \in [Node -> Node \cup {NoNode}]
  BY <1>1, <1>3, <1>4 DEF Observed, RestoreInv, ProcessTypeOK
<1>6. r \in Seq(Observation) /\ r # << >>
  BY <1>2, <1>3, <1>4, ProcessParameters
<1>7. IF q = << >> THEN Head(r) = o ELSE Head(r) = Head(q)
  BY <1>2, <1>3, <1>4, ProcessParameters
<1>8. observerChan'[n] = r /\ \A m \in Node \ {n} : observerChan'[m] = observerChan[m]
  BY <1>5
<1>9. ASSUME NEW m \in Node, NEW e \in Nat, LoadsFor(m, e)', ~LoadsFor(m, e)
      PROVE  m = n /\ l = n /\ e = elections' /\ observerChan[n] = << >> /\ observer[n] = Idle
                    /\ restorePath[n]
  <2>1. m = n
    BY <1>8, <1>9 DEF LoadsFor
  <2>2. /\ restorePath[n] /\ observer[n] = Idle /\ Head(r).id = n /\ Head(r).election = e
        /\ ~(q # << >> /\ Head(q).id = n /\ Head(q).election = e)
    BY <1>3, <1>8, <1>9, <2>1 DEF LoadsFor
  <2> QED BY <1>2, <1>3, <1>7, <2>1, <2>2
<1> QED BY <1>5, <1>6, <1>8, <1>9, Zenon

\* Elections and news of them keep the invariant: a node that is elected before it
\* heard of anybody finds the log empty.
LEMMA ElectionInv ==
    ASSUME RestoreInv, NEW n \in Node, Elect(n) \/ Learn(n) \/ LoseLeader(n)
    PROVE  RestoreInv'
<1>0. elections \in Nat /\ have \in [Node -> Nat] /\ entries \in Seq(LogEntry)
  BY DEF RestoreInv, ProcessTypeOK
<1>1. PICK l \in Node \cup {NoNode} :
        /\ Observed(n, l) /\ main[n] = "open"
        /\ UNCHANGED <<main, restorePath, waiting, observer, entries, have>>
        /\ \/ l = n /\ leader' = n /\ elections' = elections + 1 /\ have[n] = Len(entries)
           \/ l = leader /\ leader # n /\ UNCHANGED <<leader, elections>>
           \/ l = NoNode /\ known[n] # leader /\ UNCHANGED <<leader, elections>>
  <2>1. CASE Elect(n)
    BY <2>1 DEF Elect, Up
  <2>2. CASE Learn(n)
    <3>1. leader # n
      BY <2>2, ProcessParameters DEF Learn, RestoreInv, LeaderKnows
    <3> QED BY <2>2, <3>1 DEF Learn, Up, raftVars, RestoreInv, ProcessTypeOK
  <2>3. CASE LoseLeader(n)
    BY <2>3 DEF LoseLeader, Up, raftVars
  <2> QED BY <2>1, <2>2, <2>3
<1>2. elections' \in Nat
  BY <1>0, <1>1
<1>3. /\ observerChan' \in [Node -> Seq(Observation)]
      /\ known' \in [Node -> Node \cup {NoNode}]
      /\ observerChan'[n] # << >>
      /\ known'[n] = l /\ \A m \in Node \ {n} : known'[m] = known[m] /\ observerChan'[m] = observerChan[m]
      /\ \A m \in Node, e \in Nat : LoadsFor(m, e)' =>
            \/ LoadsFor(m, e)
            \/ m = n /\ l = n /\ e = elections' /\ observerChan[n] = << >> /\ observer[n] = Idle
               /\ restorePath[n]
  BY <1>1, <1>2, ObservedFirst
<1>4. ProcessTypeOK'
  BY <1>1, <1>2, <1>3 DEF RestoreInv, ProcessTypeOK
<1>5. LeaderKnows'
  BY <1>1, <1>3 DEF RestoreInv, ProcessTypeOK, LeaderKnows
<1>6. BackupWaits' /\ HeardOfNobody' /\ RestoresIntoEmpty'
  BY <1>1, <1>3 DEF RestoreInv, BackupWaits, HeardOfNobody, RestoresIntoEmpty
<1>7. FirstLeader'
  <2> SUFFICES ASSUME NEW m \in Node, NEW e \in Nat, LoadsFor(m, e)'
               PROVE  0 < e /\ e <= elections' /\ (e = elections' => leader' = m /\ entries' = << >>)
    BY DEF FirstLeader
  <2>1. CASE LoadsFor(m, e)
    <3>1. 0 < e /\ e <= elections /\ (e = elections => leader = m /\ entries = << >>)
      BY <2>1 DEF RestoreInv, FirstLeader
    <3> QED BY <1>0, <1>1, <3>1
  <2>2. CASE m = n /\ l = n /\ e = elections' /\ observerChan[n] = << >> /\ observer[n] = Idle
             /\ restorePath[n]
    <3>1. have[n] = 0 /\ known[n] = NoNode
      BY <2>2 DEF RestoreInv, HeardOfNobody
    <3>2. l = n /\ leader' = n /\ elections' = elections + 1 /\ have[n] = Len(entries)
      BY <1>1, <2>2, ProcessParameters
    <3>3. entries = << >>
      BY <1>0, <3>1, <3>2
    <3> QED BY <1>0, <1>1, <2>2, <3>2, <3>3
  <2> QED BY <1>3, <2>1, <2>2
<1> QED BY <1>4, <1>5, <1>6, <1>7 DEF RestoreInv

\* Appending an entry adds it after the others.
LEMMA EntryAppended ==
    ASSUME NEW q \in Seq(LogEntry), NEW e \in LogEntry
    PROVE  /\ Append(q, e) \in Seq(LogEntry)
           /\ \A i \in DOMAIN Append(q, e) :
                 IF i \in DOMAIN q THEN Append(q, e)[i] = q[i]
                 ELSE Append(q, e)[i] = e /\ (q = << >> => i = 1)
OBVIOUS

\* What Raft commits keeps what the invariant says of the log and of who has
\* entries: no node that has heard of nobody gets any.
LEMMA CommitsInv ==
    ASSUME RestoreInv, NEW n \in Node, NEW e \in LogEntry,
           Commits(n, e)
    PROVE  /\ leader = n /\ UNCHANGED <<leader, elections>>
           /\ entries' = Append(entries, e) /\ have' \in [Node -> Nat]
           /\ \A m \in Node : have'[m] = have[m] \/ known[m] = n
<1>1. PICK q \in Quorum :
          /\ n \in q /\ \A m \in q : Up(m) /\ known[m] = n
          /\ entries' = Append(entries, e)
          /\ have' = [m \in Node |-> IF m \in q THEN Len(entries) + 1 ELSE have[m]]
  BY DEF Commits
<1>2. Len(entries) + 1 \in Nat /\ have \in [Node -> Nat]
  BY DEF RestoreInv, ProcessTypeOK
<1> QED BY <1>1, <1>2 DEF Commits

\* A write and the replication of entries keep the invariant: the leader is ready
\* only when it has no backup to load any more.
LEMMA LogInv ==
    ASSUME RestoreInv, NEW n \in Node, Write(n) \/ Replicate(n)
    PROVE  RestoreInv'
<1>1. /\ UNCHANGED <<main, storeVars, leader, elections>>
      /\ have' \in [Node -> Nat]
      /\ \A m \in Node : have'[m] = have[m] \/ known[m] \in Node
      /\ \/ UNCHANGED entries
         \/ leader = n /\ ~waiting[n] /\ entries' = Append(entries, [type |-> "write", late |-> FALSE])
  <2>1. CASE Write(n)
    <3>1. [type |-> "write", late |-> FALSE] \in LogEntry
      BY DEF LogEntry
    <3>2. Commits(n, [type |-> "write", late |-> FALSE]) /\ ~waiting[n] /\ UNCHANGED <<main, storeVars>>
      BY <2>1 DEF Write, Ready
    <3> QED BY <3>1, <3>2, CommitsInv
  <2>2. CASE Replicate(n)
    BY <2>2 DEF Replicate, RestoreInv, ProcessTypeOK
  <2> QED BY <2>1, <2>2
<1>2. PICK w : w = [type |-> "write", late |-> FALSE]
  OBVIOUS
<1>3. w.type = "write" /\ w \in LogEntry /\ entries \in Seq(LogEntry)
  BY <1>2 DEF LogEntry, RestoreInv, ProcessTypeOK
<1>a. entries' = entries \/ entries' = Append(entries, w)
  BY <1>1, <1>2
<1>4. ProcessTypeOK'
  <2>1. entries' \in Seq(LogEntry)
    BY <1>3, <1>a, EntryAppended
  <2> QED BY <1>1, <2>1 DEF RestoreInv, ProcessTypeOK, storeVars
<1>5. RestoresIntoEmpty'
  <2>1. CASE entries' = entries
    BY <2>1 DEF RestoreInv, RestoresIntoEmpty
  <2>2. CASE entries' = Append(entries, w)
    <3> SUFFICES ASSUME NEW i \in DOMAIN entries', entries'[i].type = "load", ~entries'[i].late
                 PROVE  i = 1
      BY DEF RestoresIntoEmpty
    <3>1. i \in DOMAIN entries /\ entries'[i] = entries[i]
      BY <1>3, <2>2, EntryAppended
    <3> QED BY <3>1 DEF RestoreInv, RestoresIntoEmpty
  <2> QED BY <1>a, <2>1, <2>2
<1>6. LeaderKnows' /\ BackupWaits'
  BY <1>1 DEF RestoreInv, LeaderKnows, BackupWaits, storeVars
<1>7. HeardOfNobody'
  BY <1>1, ProcessParameters DEF RestoreInv, HeardOfNobody, storeVars
<1>8. FirstLeader'
  BY <1>1 DEF RestoreInv, FirstLeader, LoadsFor, BackupWaits, storeVars
<1> QED BY <1>4, <1>5, <1>6, <1>7, <1>8 DEF RestoreInv

\* observe and selfLeaderChange keep the invariant: an observation is turned into a
\* load for the election it is of, or the backup is given up.
LEMMA ObserveInv ==
    ASSUME RestoreInv, NEW n \in Node, LeaderChange(n)
    PROVE  RestoreInv'
<1>1. PICK q \in Seq(Observation) : q = observerChan[n]
  BY DEF RestoreInv, ProcessTypeOK
<1>2. /\ main[n] = "open" /\ observer[n] = Idle /\ q # << >>
      /\ observerChan' = [observerChan EXCEPT ![n] = Tail(q)]
      /\ UNCHANGED <<main, known, entries, have, leader, elections>>
      /\ \/ /\ restorePath[n] /\ Head(q).id = n /\ UNCHANGED <<restorePath, waiting>>
            /\ observer' = [observer EXCEPT ![n] = Head(q).election]
         \/ RestoreDone(n)
  BY <1>1 DEF LeaderChange, Up, raftVars
<1>3. Head(q) \in Observation /\ Tail(q) \in Seq(Observation)
  BY <1>1, <1>2
<1>4. Head(q).election \in Nat
  BY <1>3 DEF Observation
<1>5. ProcessTypeOK'
  BY <1>2, <1>3, <1>4 DEF RestoreInv, ProcessTypeOK, RestoreDone, Idle
<1>6. /\ \A m \in Node \ {n} : /\ observerChan'[m] = observerChan[m] /\ observer'[m] = observer[m]
                               /\ restorePath'[m] = restorePath[m] /\ waiting'[m] = waiting[m]
      /\ \/ /\ restorePath[n] /\ Head(q).id = n /\ restorePath'[n] = restorePath[n]
            /\ waiting'[n] = waiting[n] /\ observer'[n] = Head(q).election
         \/ restorePath'[n] = FALSE /\ observer'[n] = Idle
  BY <1>2 DEF RestoreDone, RestoreInv, ProcessTypeOK
<1>7. restorePath[n] /\ Head(q).id = n => LoadsFor(n, Head(q).election)
  BY <1>1, <1>2 DEF LoadsFor
<1>8. restorePath[n] /\ Head(q).id = n => Head(q).election # Idle
  BY <1>4, <1>7 DEF RestoreInv, FirstLeader, Idle
<1>9. LeaderKnows' /\ BackupWaits' /\ HeardOfNobody' /\ RestoresIntoEmpty'
  BY <1>2, <1>6, <1>8 DEF RestoreInv, LeaderKnows, BackupWaits, HeardOfNobody, RestoresIntoEmpty
<1>10. \A m \in Node, e \in Nat : LoadsFor(m, e)' => LoadsFor(m, e)
  BY <1>6, <1>7, <1>8 DEF LoadsFor
<1>11. FirstLeader'
  BY <1>2, <1>10 DEF RestoreInv, FirstLeader
<1> QED BY <1>5, <1>9, <1>11 DEF RestoreInv

\* installRestore keeps it: a load that is sent for the last election is the first
\* entry of the log.
LEMMA InstallInv ==
    ASSUME RestoreInv, NEW n \in Node, InstallRestore(n)
    PROVE  RestoreInv'
<1>1. PICK e : e = [type |-> "load", late |-> observer[n] # elections]
  OBVIOUS
<1>2. e \in LogEntry /\ e.late = (observer[n] # elections)
  BY <1>1 DEF LogEntry
<1>3. /\ observer[n] # Idle /\ RestoreDone(n) /\ UNCHANGED <<main, observerChan, known>>
      /\ Commits(n, e) \/ UNCHANGED raftVars
  BY <1>1 DEF InstallRestore, Load
<1>4. /\ UNCHANGED <<leader, elections>> /\ have' \in [Node -> Nat]
      /\ \A m \in Node : have'[m] = have[m] \/ known[m] \in Node
      /\ UNCHANGED entries \/ (leader = n /\ entries' = Append(entries, e))
  BY <1>2, <1>3, CommitsInv DEF raftVars, RestoreInv, ProcessTypeOK
<1>5. restorePath[n] /\ observer[n] \in Nat /\ LoadsFor(n, observer[n])
  BY <1>3 DEF RestoreInv, BackupWaits, ProcessTypeOK, LoadsFor
<1>6. observer[n] = elections => entries = << >>
  BY <1>5 DEF RestoreInv, FirstLeader
<1>a. entries \in Seq(LogEntry)
  BY DEF RestoreInv, ProcessTypeOK
<1>7. ProcessTypeOK'
  <2>1. entries' \in Seq(LogEntry)
    BY <1>2, <1>4, <1>a, EntryAppended
  <2> QED BY <1>3, <1>4, <2>1 DEF RestoreInv, ProcessTypeOK, RestoreDone, Idle
<1>8. RestoresIntoEmpty'
  <2>1. CASE entries' = entries
    BY <2>1 DEF RestoreInv, RestoresIntoEmpty
  <2>2. CASE entries' = Append(entries, e)
    <3> SUFFICES ASSUME NEW i \in DOMAIN entries', entries'[i].type = "load", ~entries'[i].late
                 PROVE  i = 1
      BY DEF RestoresIntoEmpty
    <3>1. CASE i \in DOMAIN entries
      <4>1. entries'[i] = entries[i]
        BY <1>2, <1>a, <2>2, <3>1, EntryAppended
      <4> QED BY <3>1, <4>1 DEF RestoreInv, RestoresIntoEmpty
    <3>2. CASE i \notin DOMAIN entries
      <4>1. entries'[i] = e /\ (entries = << >> => i = 1)
        BY <1>2, <1>a, <2>2, <3>2, EntryAppended
      <4> QED BY <1>2, <1>6, <4>1
    <3> QED BY <3>1, <3>2
  <2> QED BY <1>4, <2>1, <2>2
<1>9. /\ restorePath'[n] = FALSE /\ observer'[n] = Idle
      /\ \A m \in Node \ {n} : restorePath'[m] = restorePath[m] /\ waiting'[m] = waiting[m]
                               /\ observer'[m] = observer[m]
  BY <1>3 DEF RestoreDone, RestoreInv, ProcessTypeOK
<1>10. LeaderKnows' /\ BackupWaits'
  BY <1>3, <1>4, <1>9 DEF RestoreInv, LeaderKnows, BackupWaits
<1>11. HeardOfNobody'
  BY <1>3, <1>4, <1>9, ProcessParameters DEF RestoreInv, HeardOfNobody
<1>12. \A m \in Node, i \in Nat : LoadsFor(m, i)' => LoadsFor(m, i) /\ m # n
  BY <1>3, <1>9 DEF LoadsFor
<1>13. FirstLeader'
  BY <1>4, <1>12 DEF RestoreInv, FirstLeader
<1> QED BY <1>7, <1>8, <1>10, <1>11, <1>13 DEF RestoreInv

\* The end of a process keeps it.
LEMMA ExitInv ==
    ASSUME RestoreInv, NEW n \in Node, Close(n) \/ Crash(n)
    PROVE  RestoreInv'
<1>1. /\ main' \in [Node -> {"down", "open", "closed"}] /\ main'[n] # "open"
      /\ \A m \in Node \ {n} : main'[m] = main[m]
      /\ StoreClosed(n) /\ leader' = (IF leader = n THEN NoNode ELSE leader)
      /\ UNCHANGED <<entries, have, elections>>
  BY DEF Close, Crash, RestoreInv, ProcessTypeOK
<1>2. ProcessTypeOK'
  BY <1>1 DEF RestoreInv, ProcessTypeOK, StoreClosed, Idle
<1>3. /\ ~restorePath'[n] /\ ~waiting'[n] /\ observerChan'[n] = << >> /\ observer'[n] = Idle
      /\ known'[n] = NoNode
      /\ \A m \in Node \ {n} :
            /\ restorePath'[m] = restorePath[m] /\ waiting'[m] = waiting[m] /\ known'[m] = known[m]
            /\ observerChan'[m] = observerChan[m] /\ observer'[m] = observer[m]
  BY <1>1 DEF StoreClosed, RestoreInv, ProcessTypeOK
<1>4. LeaderKnows' /\ BackupWaits' /\ HeardOfNobody' /\ RestoresIntoEmpty'
  BY <1>1, <1>3 DEF RestoreInv, ProcessTypeOK, LeaderKnows, BackupWaits, HeardOfNobody, RestoresIntoEmpty
<1>5. \A m \in Node, i \in Nat : LoadsFor(m, i)' => LoadsFor(m, i) /\ m # n
  BY <1>3 DEF LoadsFor
<1>6. FirstLeader'
  BY <1>1, <1>5 DEF RestoreInv, FirstLeader
<1> QED BY <1>2, <1>4, <1>6 DEF RestoreInv

\* A backup is loaded into an empty database only, for every number of nodes and
\* however many crashes, restarts, elections and lost observations there are
\* (Store.observe, selfLeaderChange, installRestore).
THEOREM RestoreFindsNothing == ProcessSpec => []RestoresIntoEmpty
<1>1. RestoreInv /\ UNCHANGED processVars => RestoreInv'
  <2> SUFFICES ASSUME RestoreInv, UNCHANGED processVars PROVE RestoreInv'
    OBVIOUS
  <2> USE DEF RestoreInv, processVars
  <2>1. ProcessTypeOK'
    BY DEF ProcessTypeOK
  <2>2. LeaderKnows' /\ BackupWaits' /\ HeardOfNobody' /\ RestoresIntoEmpty'
    BY DEF LeaderKnows, BackupWaits, HeardOfNobody, RestoresIntoEmpty
  <2>3. FirstLeader'
    BY DEF FirstLeader, LoadsFor
  <2> QED BY <2>1, <2>2, <2>3
<1>2. RestoreInv /\ [ProcessNext]_processVars => RestoreInv'
  BY <1>1, StartInv, ElectionInv, LogInv, ObserveInv, InstallInv, ExitInv DEF ProcessNext
<1>3. RestoreInv => RestoresIntoEmpty
  BY DEF RestoreInv
<1> QED BY <1>2, <1>3, ProcessInitInv, PTL DEF ProcessSpec

----------------------------------------------------------------------------
(* Bootstrap.                                                              *)

BootState == [pc : {"off", "tick", "join", "notify", "done"}, i : Nat, at : Hosts \cup {NoHost}]

HostsOK ==
    /\ up \subseteq Hosts
    /\ config \in [Hosts -> SUBSET Hosts] /\ version \in [Hosts -> Nat] /\ term \in [Hosts -> Nat]
    /\ leaderOf \in [Hosts -> Hosts \cup {NoHost}]
    /\ notifying \in [Hosts -> SUBSET (Hosts \ Joining)]
    /\ boot \in [Hosts -> BootState]
    /\ \A n \in Hosts : boot[n].pc = "notify" => n \notin Joining

\* C[v] is the configuration of version v and K[v] the term in which it was committed;
\* top is the latest version.
Parameters(F, C, K, top) ==
    /\ top \in Nat \ {0} /\ C \in [Nat -> SUBSET Hosts] /\ K \in [Nat -> Nat]
    /\ C[0] = {} /\ C[1] = F /\ K[0] = 0 /\ K[1] = 0
    /\ \A v \in 1..top : C[v] \subseteq C[top]

\* Every node has one of them, and has heard of the term it is of.
Follows(C, K, top) ==
    \A n \in Hosts : version[n] <= top /\ config[n] = C[version[n]] /\ K[version[n]] <= term[n]

\* A majority of each configuration has the next one.
Superseded(C, top) ==
    \A w \in 1..(top - 1) : Majority({x \in C[w] : version[x] > w}, C[w])

\* Who takes itself for the leader has committed its configuration, or been elected by
\* a majority of it; a later configuration is of a later term.
LeaderOK(l, C, K, top) ==
    /\ version[l] >= 1
    /\ \A v \in (version[l] + 1)..top : K[v] > term[l]
    /\ \/ K[version[l]] = term[l]
       \/ Majority({x \in C[version[l]] : term[x] >= term[l]}, C[version[l]])

Leaders(C, K, top) ==
    /\ \A l \in Hosts : leaderOf[l] = l => LeaderOK(l, C, K, top)
    /\ \A l, k \in Hosts : leaderOf[l] = l /\ leaderOf[k] = k /\ term[l] = term[k] => l = k

Chain(F, C, K, top) ==
    /\ Parameters(F, C, K, top) /\ Follows(C, K, top) /\ Superseded(C, top) /\ Leaders(C, K, top)

\* Who knows a leader, or is done, is in the latest configuration.
Placed(C, top) ==
    \A n \in Hosts : leaderOf[n] # NoHost \/ boot[n].pc = "done" => n \in C[top]

BootInv(F) ==
    /\ HostsOK
    /\ \E C, K, top : Chain(F, C, K, top) /\ Placed(C, top)

\* Two majorities of a configuration have a member in common.
LEMMA MajoritiesMeet ==
    ASSUME NEW C, C \subseteq Hosts, NEW S, NEW T, S \subseteq C, T \subseteq C,
           Majority(S, C), Majority(T, C)
    PROVE  \E x \in S : x \in T
<1>1. IsFiniteSet(C)
  BY BootstrapAssumption, FS_Subset
<1>2. IsFiniteSet(S) /\ IsFiniteSet(T)
  BY <1>1, FS_Subset
<1>3. Cardinality(C) \in Nat /\ Cardinality(S) \in Nat /\ Cardinality(T) \in Nat
  BY <1>1, <1>2, FS_CardinalityType
<1>4. Cardinality(S) + Cardinality(T) > Cardinality(C)
  BY <1>3 DEF Majority
<1>5. S \cap T # {}
  BY <1>1, <1>4, FS_MajoritiesIntersect
<1> QED BY <1>5

\* What contains a majority is one.
LEMMA MajorityMore ==
    ASSUME NEW C, C \subseteq Hosts, NEW S, NEW T, S \subseteq T, T \subseteq C, Majority(S, C)
    PROVE  Majority(T, C)
<1>1. IsFiniteSet(C)
  BY BootstrapAssumption, FS_Subset
<1>2. IsFiniteSet(T)
  BY <1>1, FS_Subset
<1>3. IsFiniteSet(S) /\ Cardinality(S) <= Cardinality(T)
  BY <1>2, FS_Subset
<1>4. Cardinality(C) \in Nat /\ Cardinality(S) \in Nat /\ Cardinality(T) \in Nat
  BY <1>1, <1>2, <1>3, FS_CardinalityType
<1> QED BY <1>3, <1>4 DEF Majority

\* Nobody who has heard the latest of the leader l has a later configuration than l.
LEMMA LeaderIsAhead ==
    ASSUME NEW F, HostsOK, NEW C, NEW K, NEW top, Chain(F, C, K, top),
           NEW l \in Hosts, leaderOf[l] = l, NEW m \in Hosts, term[m] <= term[l]
    PROVE  version[m] <= version[l]
<1>1. /\ version[l] \in Nat /\ version[m] \in Nat /\ term[l] \in Nat /\ term[m] \in Nat /\ top \in Nat
      /\ K \in [Nat -> Nat] /\ version[m] <= top /\ K[version[m]] <= term[m]
  BY DEF HostsOK, Chain, Parameters, Follows
<1>2. \A v \in (version[l] + 1)..top : K[v] > term[l]
  BY DEF Chain, Leaders, LeaderOK
<1>3. SUFFICES ASSUME version[m] > version[l] PROVE FALSE
  BY <1>1
<1>4. version[m] \in (version[l] + 1)..top
  BY <1>1, <1>3
<1>5. K[version[m]] > term[l] /\ K[version[m]] \in Nat
  BY <1>1, <1>2, <1>4
<1> QED BY <1>1, <1>5

\* Whoever has a majority of its configuration, none of them with a later one, has the
\* latest configuration.
LEMMA MajorityHasTop ==
    ASSUME NEW F, HostsOK, NEW C, NEW K, NEW top, Chain(F, C, K, top), NEW n \in Hosts, version[n] >= 1,
           NEW M, M \subseteq config[n], Majority(M, config[n]), \A m \in M : version[m] <= version[n]
    PROVE  version[n] = top /\ config[n] = C[top]
<1>1. /\ version \in [Hosts -> Nat] /\ top \in Nat /\ C \in [Nat -> SUBSET Hosts]
      /\ version[n] \in Nat /\ version[n] <= top /\ config[n] = C[version[n]] /\ C[version[n]] \subseteq Hosts
  BY DEF HostsOK, Chain, Parameters, Follows
<1>2. SUFFICES ASSUME version[n] # top PROVE FALSE
  BY <1>1
<1>3. PICK w : w = version[n]
  OBVIOUS
<1>4. w \in 1..(top - 1)
  BY <1>1, <1>2, <1>3
<1>5. Majority({x \in C[w] : version[x] > w}, C[w])
  BY <1>4 DEF Chain, Superseded
<1>6. PICK x \in M : x \in {y \in C[w] : version[y] > w}
  <2>1. M \subseteq C[w] /\ {y \in C[w] : version[y] > w} \subseteq C[w] /\ C[w] \subseteq Hosts /\ Majority(M, C[w])
    BY <1>1, <1>3
  <2> QED BY <1>5, <2>1, MajoritiesMeet
<1>7. version[x] \in Nat /\ version[x] > w /\ version[x] <= w
  BY <1>1, <1>3, <1>6
<1> QED BY <1>1, <1>3, <1>7

\* Who leads a majority of its configuration has the latest one.
LEMMA LeadsTop ==
    ASSUME NEW F, HostsOK, NEW C, NEW K, NEW top, Chain(F, C, K, top), NEW l \in Hosts, Leads(l)
    PROVE  version[l] = top /\ config[l] = C[top]
<1>1. leaderOf[l] = l /\ Majority(Followers(l), config[l])
  BY DEF Leads
<1>2. Followers(l) \subseteq config[l] /\ config[l] \subseteq Hosts /\ version[l] >= 1
  BY <1>1 DEF Followers, HostsOK, Chain, Leaders, LeaderOK
<1>3. ASSUME NEW m \in Followers(l) PROVE version[m] <= version[l]
  <2>1. m \in Hosts /\ term[m] = term[l] /\ term[l] \in Nat
    BY <1>2 DEF Followers, HostsOK
  <2>2. term[m] <= term[l]
    BY <2>1
  <2> QED BY <1>1, <2>1, <2>2, LeaderIsAhead
<1> QED BY <1>1, <1>2, <1>3, MajorityHasTop

\* The invariant says that there is one cluster, and who is done is in it.
LEMMA ChainIsOne ==
    ASSUME NEW F, BootInv(F)
    PROVE  OneLeads /\ BootedIsMember
<1>2. HostsOK
  BY DEF BootInv
<1>3. PICK C, K, top : Chain(F, C, K, top) /\ Placed(C, top)
  BY DEF BootInv
<1>4. ASSUME NEW l \in Hosts, NEW m \in Hosts, Leads(l), Leads(m) PROVE l = m
  <2>1. config[l] = C[top] /\ config[m] = C[top]
    BY <1>2, <1>3, <1>4, LeadsTop
  <2>2. /\ Followers(l) \subseteq C[top] /\ Followers(m) \subseteq C[top] /\ C[top] \subseteq Hosts
        /\ Majority(Followers(l), C[top]) /\ Majority(Followers(m), C[top])
    BY <1>2, <1>4, <2>1 DEF Leads, Followers, HostsOK
  <2>3. PICK x \in Followers(l) : x \in Followers(m)
    BY <2>2, MajoritiesMeet
  <2> QED BY <2>3 DEF Followers
<1>5. ASSUME NEW n \in Hosts, NEW l \in Hosts, boot[n].pc = "done", Leads(l) PROVE n \in config[l]
  <2>1. config[l] = C[top]
    BY <1>2, <1>3, <1>5, LeadsTop
  <2> QED BY <1>3, <1>5, <2>1 DEF Placed
<1> QED BY <1>4, <1>5 DEF OneLeads, BootedIsMember

\* A majority of each configuration keeps the next one, as versions only grow.
LEMMA SupersededStays ==
    ASSUME NEW F, HostsOK, HostsOK', NEW C, NEW K, NEW top, Parameters(F, C, K, top), Superseded(C, top),
           \A n \in Hosts : version[n] <= version'[n]
    PROVE  Superseded(C, top)'
<1>1. SUFFICES ASSUME NEW w \in 1..(top - 1)
               PROVE  Majority({x \in C[w] : version'[x] > w}, C[w])
  BY DEF Superseded, Majority
<1>2. Majority({x \in C[w] : version[x] > w}, C[w])
  BY DEF Superseded
<1>3. w \in Nat /\ C[w] \subseteq Hosts /\ version \in [Hosts -> Nat] /\ version' \in [Hosts -> Nat]
  BY DEF Parameters, HostsOK
<1>4. {x \in C[w] : version[x] > w} \subseteq {x \in C[w] : version'[x] > w}
  BY <1>3
<1>5. {x \in C[w] : version'[x] > w} \subseteq C[w]
  OBVIOUS
<1> QED BY <1>2, <1>3, <1>4, <1>5, MajorityMore

\* A leader that keeps its configuration and its term stays one, as terms only grow.
LEMMA LeaderStays ==
    ASSUME NEW F, HostsOK, HostsOK', NEW C, NEW K, NEW top, Parameters(F, C, K, top),
           NEW l \in Hosts, LeaderOK(l, C, K, top), version'[l] = version[l], term'[l] = term[l],
           \A n \in Hosts : term[n] <= term'[n]
    PROVE  LeaderOK(l, C, K, top)'
<1>1. PICK v \in Nat, t \in Nat : v = version[l] /\ t = term[l] /\ v = version'[l] /\ t = term'[l]
  BY DEF HostsOK
<1>2. v >= 1 /\ \A u \in (v + 1)..top : K[u] > t
  BY <1>1 DEF LeaderOK
<1>3. C[v] \subseteq Hosts /\ term \in [Hosts -> Nat] /\ term' \in [Hosts -> Nat]
  BY DEF Parameters, HostsOK
<1>4. K[v] = t \/ Majority({x \in C[v] : term'[x] >= t}, C[v])
  <2>1. CASE K[v] = t
    BY <2>1
  <2>2. CASE K[v] # t
    <3>1. Majority({x \in C[v] : term[x] >= t}, C[v])
      BY <1>1, <2>2 DEF LeaderOK
    <3>2. {x \in C[v] : term[x] >= t} \subseteq {x \in C[v] : term'[x] >= t}
      BY <1>3
    <3>3. {x \in C[v] : term'[x] >= t} \subseteq C[v]
      OBVIOUS
    <3> QED BY <1>3, <3>1, <3>2, <3>3, MajorityMore
  <2> QED BY <2>1, <2>2
<1> QED BY <1>1, <1>2, <1>4 DEF LeaderOK, Majority

\* A step in which versions and terms only grow, every node has a configuration of the
\* chain, and nobody becomes a leader, keeps the chain.
LEMMA ChainStays ==
    ASSUME NEW F, HostsOK, HostsOK', NEW C, NEW K, NEW top, Chain(F, C, K, top), Follows(C, K, top)',
           \A n \in Hosts : version[n] <= version'[n] /\ term[n] <= term'[n],
           \A n \in Hosts : leaderOf'[n] = n => /\ leaderOf[n] = n
                                                /\ version'[n] = version[n] /\ term'[n] = term[n]
    PROVE  Chain(F, C, K, top)'
<1>1. Parameters(F, C, K, top) /\ Superseded(C, top) /\ Leaders(C, K, top)
  BY DEF Chain
<1>2. Parameters(F, C, K, top)'
  BY <1>1 DEF Parameters
<1>3. Superseded(C, top)'
  BY <1>1, SupersededStays
<1>4. ASSUME NEW l \in Hosts, leaderOf'[l] = l PROVE LeaderOK(l, C, K, top)'
  <2>1. LeaderOK(l, C, K, top) /\ version'[l] = version[l] /\ term'[l] = term[l]
    BY <1>1, <1>4 DEF Leaders
  <2> QED BY <1>1, <2>1, LeaderStays
<1>5. ASSUME NEW l \in Hosts, NEW k \in Hosts, leaderOf'[l] = l, leaderOf'[k] = k, term'[l] = term'[k]
      PROVE  l = k
  BY <1>1, <1>5 DEF Leaders
<1>6. Leaders(C, K, top)'
  BY <1>4, <1>5 DEF Leaders
<1> QED BY <1>2, <1>3, <1>6 DEF Chain

\* Where Boot goes next is a state of it, and only a node that bootstraps notifies.
LEMMA AskIsState ==
    ASSUME NEW pc \in {"join", "notify"}, NEW i \in Nat \ {0}, NEW after \in BootState
    PROVE  /\ Ask(pc, i, after) \in BootState
           /\ Ask(pc, i, after).pc \in {pc, after.pc}
<1>1. CASE i <= Len(Targets)
  <2>1. Targets[i] \in Hosts
    BY <1>1, BootstrapAssumption
  <2>2. Ask(pc, i, after) = [pc |-> pc, i |-> i, at |-> Targets[i]]
    BY <1>1 DEF Ask
  <2> QED BY <2>1, <2>2 DEF BootState
<1>2. CASE ~(i <= Len(Targets))
  BY <1>2 DEF Ask
<1> QED BY <1>1, <1>2

\* So is every named place of Boot.
LEMMA AtIsState ==
    ASSUME NEW pc \in {"off", "tick", "join", "notify", "done"}
    PROVE  At(pc) \in BootState /\ At(pc).pc = pc
  BY DEF At, BootState

\* So is where Boot goes when its call has failed; a joining node does not notify.
LEMMA FailedIsState ==
    ASSUME HostsOK, NEW n \in Hosts
    PROVE  /\ Failed(n) \in BootState
           /\ Failed(n).pc \in {"tick", "join", "notify"}
           /\ Failed(n).pc = "notify" => n \notin Joining
<1>1. At("tick") \in BootState /\ At("tick").pc = "tick"
  BY AtIsState
<1>2. boot[n].i + 1 \in Nat \ {0}
  BY DEF HostsOK, BootState
<1>3. PICK p \in {"join", "notify"} : p = (IF n \in Joining THEN "join" ELSE "notify")
  OBVIOUS
<1>4. PICK b : b = Ask(p, 1, At("tick"))
  OBVIOUS
<1>5. b \in BootState /\ b.pc \in {p, "tick"}
  BY <1>1, <1>4, AskIsState
<1>6. PICK c : c = Ask("join", boot[n].i + 1, b)
  OBVIOUS
<1>7. c \in BootState /\ c.pc \in {"join", b.pc}
  BY <1>2, <1>5, <1>6, AskIsState
<1>8. Failed(n) \in {At("tick"), c}
  BY <1>3, <1>4, <1>6 DEF Failed
<1> QED BY <1>1, <1>3, <1>5, <1>7, <1>8

\* What boot becomes in a step of n.
BootStepOf(n, b) ==
    /\ b \in BootState
    /\ b.pc = "notify" => n \notin Joining
    /\ boot' = [boot EXCEPT ![n] = b]

\* A step that leaves Raft's state as it is, or only makes nodes forget a leader, and does
\* not complete a Boot of a node that is not in the cluster, keeps the invariant.
LEMMA QuietStep ==
    ASSUME NEW F, HostsOK, HostsOK', NEW C, NEW K, NEW top, Chain(F, C, K, top), Placed(C, top),
           UNCHANGED <<config, version, term>>,
           \A m \in Hosts : leaderOf'[m] \in {NoHost, leaderOf[m]},
           \A m \in Hosts : boot'[m].pc = "done" => boot[m].pc = "done" \/ m \in C[top]
    PROVE  Chain(F, C, K, top)' /\ Placed(C, top)'
<1>1. Follows(C, K, top)'
  BY DEF Chain, Follows
<1>2. \A n \in Hosts : version[n] <= version'[n] /\ term[n] <= term'[n]
  BY DEF HostsOK
<1>3. \A n \in Hosts : leaderOf'[n] = n => /\ leaderOf[n] = n
                                           /\ version'[n] = version[n] /\ term'[n] = term[n]
  BY BootstrapAssumption
<1>4. Chain(F, C, K, top)'
  BY <1>1, <1>2, <1>3, ChainStays
<1>5. Placed(C, top)'
  BY DEF Placed
<1> QED BY <1>4, <1>5

\* The same, for the whole invariant: who completes a Boot here knows a leader.
LEMMA InvQuiet ==
    ASSUME NEW F, BootInv(F), HostsOK',
           UNCHANGED <<config, version, term>>,
           \A m \in Hosts : leaderOf'[m] \in {NoHost, leaderOf[m]},
           \A m \in Hosts : boot'[m].pc = "done" => boot[m].pc = "done" \/ leaderOf[m] # NoHost
    PROVE  BootInv(F)'
<1>1. HostsOK
  BY DEF BootInv
<1>2. PICK C, K, top : Chain(F, C, K, top) /\ Placed(C, top)
  BY DEF BootInv
<1>3. \A m \in Hosts : boot'[m].pc = "done" => boot[m].pc = "done" \/ m \in C[top]
  BY <1>2 DEF Placed
<1>4. Chain(F, C, K, top)' /\ Placed(C, top)'
  BY <1>1, <1>2, <1>3, QuietStep
<1> QED BY <1>4 DEF BootInv

\* A step of Boot on n leaves the places of the other nodes alone.
LEMMA BootStepOK ==
    ASSUME HostsOK, NEW n \in Hosts, NEW b, BootStepOf(n, b)
    PROVE  /\ boot' \in [Hosts -> BootState]
           /\ \A m \in Hosts : boot'[m].pc = "notify" => m \notin Joining
           /\ \A m \in Hosts : boot'[m].pc = "done" => boot[m].pc = "done" \/ m = n
           /\ b.pc # "done" => \A m \in Hosts : boot'[m].pc = "done" => boot[m].pc = "done"
<1>1. boot \in [Hosts -> BootState] /\ \A m \in Hosts : boot[m].pc = "notify" => m \notin Joining
  BY DEF HostsOK
<1>2. \A m \in Hosts : boot'[m] = IF m = n THEN b ELSE boot[m]
  BY <1>1 DEF BootStepOf
<1>3. boot' \in [Hosts -> BootState]
  BY <1>1 DEF BootStepOf
<1> QED BY <1>1, <1>2, <1>3 DEF BootStepOf

\* The steps of Boot that change nothing but where it is.
LEMMA InvOwnStep ==
    ASSUME NEW F, BootInv(F), NEW n \in Hosts, NEW b, BootStepOf(n, b), up' \subseteq Hosts,
           UNCHANGED <<raft, notifying>>,
           b.pc = "done" => leaderOf[n] # NoHost
    PROVE  BootInv(F)'
<1>1. HostsOK
  BY DEF BootInv
<1>2. /\ boot' \in [Hosts -> BootState]
      /\ \A m \in Hosts : boot'[m].pc = "notify" => m \notin Joining
      /\ \A m \in Hosts : boot'[m].pc = "done" => boot[m].pc = "done" \/ m = n
      /\ b.pc # "done" => \A m \in Hosts : boot'[m].pc = "done" => boot[m].pc = "done"
  BY <1>1, BootStepOK
<1>3. UNCHANGED <<config, version, term, leaderOf, notifying>>
  BY DEF raft
<1>4. HostsOK'
  BY <1>1, <1>2, <1>3 DEF HostsOK
<1>5. \A m \in Hosts : boot'[m].pc = "done" => boot[m].pc = "done" \/ leaderOf[m] # NoHost
  BY <1>2
<1>6. \A m \in Hosts : leaderOf'[m] \in {NoHost, leaderOf[m]}
  BY <1>3
<1> QED BY <1>3, <1>4, <1>5, <1>6, InvQuiet

\* A node that starts knows no more than before.
LEMMA InvStart ==
    ASSUME NEW F, BootInv(F), NEW n \in Hosts, Start(n)
    PROVE  BootInv(F)'
<1>1. PICK a : a = Ask("join", 1, At("tick"))
  OBVIOUS
<1>2. At("tick") \in BootState /\ At("tick").pc = "tick"
  BY AtIsState
<1>3. a \in BootState /\ a.pc \in {"join", "tick"}
  BY <1>1, <1>2, AskIsState
<1>4. PICK b \in {a, At("tick")} : boot' = [boot EXCEPT ![n] = b]
  BY <1>1 DEF Start
<1>5. BootStepOf(n, b) /\ b.pc # "done"
  BY <1>2, <1>3, <1>4 DEF BootStepOf
<1>6. up' \subseteq Hosts /\ UNCHANGED <<raft, notifying>>
  BY DEF Start, BootInv, HostsOK
<1> QED BY <1>5, <1>6, InvOwnStep

\* The ticker ends Boot only on a node that knows a leader, and so is a member.
LEMMA InvTick ==
    ASSUME NEW F, BootInv(F), NEW n \in Hosts, Tick(n)
    PROVE  BootInv(F)'
<1>1. PICK a : a = Ask("join", 1, At("tick"))
  OBVIOUS
<1>2. At("tick") \in BootState /\ At("tick").pc = "tick" /\ At("done") \in BootState /\ At("done").pc = "done"
  BY AtIsState
<1>3. a \in BootState /\ a.pc \in {"join", "tick"}
  BY <1>1, <1>2, AskIsState
<1>4. PICK b \in {a, At("done")} : boot' = [boot EXCEPT ![n] = b] /\ (b = At("done") => leaderOf[n] # NoHost)
  <2>1. CASE leaderOf[n] # NoHost
    BY <2>1 DEF Tick
  <2>2. CASE leaderOf[n] = NoHost
    <3>1. a # At("done")
      BY <1>2, <1>3
    <3> QED BY <1>1, <2>2, <3>1 DEF Tick
  <2> QED BY <2>1, <2>2
<1>5. BootStepOf(n, b) /\ (b.pc = "done" => leaderOf[n] # NoHost)
  BY <1>2, <1>3, <1>4 DEF BootStepOf
<1>6. up' \subseteq Hosts /\ UNCHANGED <<raft, notifying>>
  BY DEF Tick, BootInv, HostsOK
<1> QED BY <1>5, <1>6, InvOwnStep

\* A call that failed, and changed nothing.
LEMMA InvFailed ==
    ASSUME NEW F, BootInv(F), NEW n \in Hosts, boot' = [boot EXCEPT ![n] = Failed(n)],
           UNCHANGED <<up, raft, notifying>>
    PROVE  BootInv(F)'
<1>1. HostsOK
  BY DEF BootInv
<1>2. PICK b : b = Failed(n)
  OBVIOUS
<1>3. BootStepOf(n, b) /\ b.pc # "done"
  BY <1>1, <1>2, FailedIsState DEF BootStepOf
<1>4. up' \subseteq Hosts
  BY <1>1 DEF HostsOK
<1> QED BY <1>3, <1>4, InvOwnStep

\* A redirect changes only whom the node asks.
LEMMA InvRedirected ==
    ASSUME NEW F, BootInv(F), NEW n \in Hosts, JoinRedirected(n)
    PROVE  BootInv(F)'
<1>1. HostsOK
  BY DEF BootInv
<1>2. PICK l : l = leaderOf[boot[n].at]
  OBVIOUS
<1>3. PICK b : b = [boot[n] EXCEPT !.at = l]
  OBVIOUS
<1>4. boot[n] \in BootState /\ boot[n].pc = "join" /\ boot[n].at \in Hosts
  BY <1>1 DEF HostsOK, JoinRedirected
<1>5. l \in Hosts \cup {NoHost}
  BY <1>1, <1>2, <1>4 DEF HostsOK
<1>6. b \in BootState /\ b.pc = "join"
  BY <1>3, <1>4, <1>5 DEF BootState
<1>7. boot' = [boot EXCEPT ![n] = b]
  BY <1>1, <1>2, <1>3 DEF JoinRedirected, HostsOK
<1>8. BootStepOf(n, b) /\ b.pc # "done"
  BY <1>6, <1>7 DEF BootStepOf
<1>9. up' \subseteq Hosts /\ UNCHANGED <<raft, notifying>>
  BY <1>1 DEF JoinRedirected, HostsOK
<1> QED BY <1>8, <1>9, InvOwnStep

\* A crash makes nodes forget a leader; configurations, versions and terms are on disk.
LEMMA InvCrash ==
    ASSUME NEW F, BootInv(F), NEW n \in Hosts, HostCrash(n)
    PROVE  BootInv(F)'
<1>1. HostsOK
  BY DEF BootInv
<1>2. UNCHANGED <<config, version, term>>
  BY DEF HostCrash
<1>3. At("off") \in BootState /\ At("off").pc = "off"
  BY AtIsState
<1>4. PICK b : b = At("off")
  OBVIOUS
<1>5. BootStepOf(n, b) /\ b.pc # "done"
  BY <1>3, <1>4 DEF HostCrash, BootStepOf
<1>6. /\ boot' \in [Hosts -> BootState]
      /\ \A m \in Hosts : boot'[m].pc = "notify" => m \notin Joining
      /\ \A m \in Hosts : boot'[m].pc = "done" => boot[m].pc = "done"
  BY <1>1, <1>5, BootStepOK
<1>7. /\ leaderOf' \in [Hosts -> Hosts \cup {NoHost}]
      /\ \A m \in Hosts : leaderOf'[m] \in {NoHost, leaderOf[m]}
  BY <1>1 DEF HostCrash, HostsOK
<1>8. notifying' \in [Hosts -> SUBSET (Hosts \ Joining)] /\ up' \subseteq Hosts
  BY <1>1 DEF HostCrash, HostsOK
<1>9. HostsOK'
  BY <1>1, <1>2, <1>6, <1>7, <1>8 DEF HostsOK
<1> QED BY <1>2, <1>6, <1>7, <1>9, InvQuiet

\* A leader that gives up is forgotten by its followers.
LEMMA InvStepDown ==
    ASSUME NEW F, BootInv(F), NEW n \in Hosts, StepDown(n)
    PROVE  BootInv(F)'
<1>1. HostsOK
  BY DEF BootInv
<1>2. UNCHANGED <<up, config, version, term, notifying, boot>>
  BY DEF StepDown
<1>3. /\ leaderOf' \in [Hosts -> Hosts \cup {NoHost}]
      /\ \A m \in Hosts : leaderOf'[m] \in {NoHost, leaderOf[m]}
  BY <1>1 DEF StepDown, HostsOK
<1>4. HostsOK'
  BY <1>1, <1>2, <1>3 DEF HostsOK
<1>5. \A m \in Hosts : boot'[m].pc = "done" => boot[m].pc = "done"
  BY <1>2
<1> QED BY <1>2, <1>3, <1>4, <1>5, InvQuiet

\* A member takes the leader's configuration, which is no older than its own.
LEMMA InvFollow ==
    ASSUME NEW F, BootInv(F), NEW l \in Hosts, NEW m \in Hosts, Follow(l, m)
    PROVE  BootInv(F)'
<1>1. HostsOK
  BY DEF BootInv
<1>2. PICK C, K, top : Chain(F, C, K, top) /\ Placed(C, top)
  BY DEF BootInv
<1>3. /\ leaderOf[l] = l /\ m \in config[l] /\ m # l
      /\ leaderOf' = [leaderOf EXCEPT ![m] = l] /\ term' = [term EXCEPT ![m] = term[l]]
      /\ config' = [config EXCEPT ![m] = config[l]] /\ version' = [version EXCEPT ![m] = version[l]]
      /\ UNCHANGED <<up, notifying, boot>>
  BY DEF Follow
<1>4. /\ config[l] \in SUBSET Hosts /\ version[l] \in Nat /\ term[l] \in Nat /\ term[m] \in Nat
      /\ config \in [Hosts -> SUBSET Hosts] /\ version \in [Hosts -> Nat] /\ term \in [Hosts -> Nat]
      /\ leaderOf \in [Hosts -> Hosts \cup {NoHost}]
  BY <1>1 DEF HostsOK
<1>5. HostsOK'
  BY <1>1, <1>3, <1>4 DEF HostsOK
<1>6. term[m] <= term[l]
  BY <1>4 DEF Follow
<1>7. version[m] <= version[l]
  BY <1>1, <1>2, <1>3, <1>6, LeaderIsAhead
<1>8. /\ \A n \in Hosts : config'[n] = IF n = m THEN config[l] ELSE config[n]
      /\ \A n \in Hosts : version'[n] = IF n = m THEN version[l] ELSE version[n]
      /\ \A n \in Hosts : term'[n] = IF n = m THEN term[l] ELSE term[n]
      /\ \A n \in Hosts : leaderOf'[n] = IF n = m THEN l ELSE leaderOf[n]
  BY <1>3, <1>4
<1>9. Follows(C, K, top)'
  BY <1>2, <1>8 DEF Chain, Follows
<1>10. \A n \in Hosts : version[n] <= version'[n] /\ term[n] <= term'[n]
  BY <1>4, <1>6, <1>7, <1>8
<1>11. \A n \in Hosts : leaderOf'[n] = n => /\ leaderOf[n] = n
                                           /\ version'[n] = version[n] /\ term'[n] = term[n]
  BY <1>3, <1>8
<1>12. Chain(F, C, K, top)'
  BY <1>1, <1>2, <1>5, <1>9, <1>10, <1>11, ChainStays
<1>13. m \in C[top]
  <2>1. version[l] >= 1 /\ version[l] <= top /\ config[l] = C[version[l]] /\ top \in Nat
    BY <1>2, <1>3 DEF Chain, Leaders, LeaderOK, Follows, Parameters
  <2>2. version[l] \in 1..top
    BY <1>4, <2>1
  <2> QED BY <1>2, <1>3, <2>1, <2>2 DEF Chain, Parameters
<1>14. Placed(C, top)'
  BY <1>2, <1>3, <1>8, <1>13 DEF Placed
<1> QED BY <1>5, <1>12, <1>14 DEF BootInv

\* An election makes a leader of a new term, and only one with the latest configuration.
LEMMA InvElect ==
    ASSUME NEW F, BootInv(F), NEW n \in Hosts, ElectLeader(n)
    PROVE  BootInv(F)'
<1>1. HostsOK
  BY DEF BootInv
<1>2. PICK C, K, top : Chain(F, C, K, top) /\ Placed(C, top)
  BY DEF BootInv
<1>3. PICK M \in SUBSET (config[n] \cap up), t \in {term[m] + 1 : m \in up} :
          /\ n \in M
          /\ Majority(M, config[n])
          /\ \A m \in M : leaderOf[m] = NoHost /\ term[m] < t /\ version[m] <= version[n]
          /\ leaderOf' = [m \in Hosts |-> IF m \in M THEN n ELSE leaderOf[m]]
          /\ term' = [m \in Hosts |-> IF m \in M THEN t ELSE term[m]]
  BY DEF ElectLeader
<1>4. UNCHANGED <<up, config, version, notifying, boot>> /\ n \in config[n]
  BY DEF ElectLeader
<1>5. /\ config \in [Hosts -> SUBSET Hosts] /\ version \in [Hosts -> Nat] /\ term \in [Hosts -> Nat]
      /\ leaderOf \in [Hosts -> Hosts \cup {NoHost}] /\ up \subseteq Hosts
  BY <1>1 DEF HostsOK
<1>6. t \in Nat /\ M \subseteq Hosts /\ M \subseteq config[n]
  BY <1>5
<1>7. HostsOK'
  BY <1>1, <1>3, <1>4, <1>5, <1>6 DEF HostsOK
<1>8. /\ \A m \in Hosts : term'[m] = IF m \in M THEN t ELSE term[m]
      /\ \A m \in Hosts : leaderOf'[m] = IF m \in M THEN n ELSE leaderOf[m]
  BY <1>3
<1>9. \A m \in Hosts : version[m] <= version'[m] /\ term[m] <= term'[m]
  BY <1>3, <1>4, <1>5, <1>6, <1>8
<1>10. /\ Parameters(F, C, K, top) /\ Follows(C, K, top) /\ Superseded(C, top) /\ Leaders(C, K, top)
       /\ top \in Nat \ {0} /\ C \in [Nat -> SUBSET Hosts] /\ K \in [Nat -> Nat]
  BY <1>2 DEF Chain, Parameters
<1>11. version[n] >= 1
  <2>1. version[n] # 0
    BY <1>4, <1>10 DEF Follows, Parameters
  <2> QED BY <1>5, <2>1
<1>12. version[n] = top /\ config[n] = C[top] /\ K[top] <= term[n]
  <2>1. version[n] = top /\ config[n] = C[top]
    BY <1>1, <1>2, <1>3, <1>6, <1>11, MajorityHasTop
  <2> QED BY <1>10, <2>1 DEF Follows
<1>13. Parameters(F, C, K, top)' /\ Superseded(C, top)'
  BY <1>1, <1>7, <1>9, <1>10, SupersededStays DEF Parameters
<1>14. Follows(C, K, top)'
  <2>1. ASSUME NEW m \in Hosts
        PROVE  version'[m] <= top /\ config'[m] = C[version'[m]] /\ K[version'[m]] <= term'[m]
    <3>1. version[m] <= top /\ config[m] = C[version[m]] /\ K[version[m]] <= term[m]
      BY <1>10 DEF Follows
    <3>2. K[version[m]] \in Nat /\ term[m] \in Nat /\ term'[m] \in Nat /\ term[m] <= term'[m]
      BY <1>5, <1>7, <1>9, <1>10 DEF HostsOK
    <3> QED BY <1>4, <3>1, <3>2
  <2> QED BY <2>1 DEF Follows
<1>15. ASSUME NEW l \in Hosts, leaderOf'[l] = l, l # n
       PROVE  leaderOf[l] = l /\ l \notin M /\ term'[l] = term[l] /\ LeaderOK(l, C, K, top)
  <2>1. l \notin M /\ leaderOf[l] = l /\ term'[l] = term[l]
    BY <1>8, <1>15
  <2> QED BY <1>10, <2>1 DEF Leaders
<1>16. LeaderOK(n, C, K, top)'
  <2>1. term'[n] = t /\ version'[n] = top
    BY <1>3, <1>4, <1>8, <1>12
  <2>2. M \subseteq {x \in C[top] : term'[x] >= t} /\ {x \in C[top] : term'[x] >= t} \subseteq C[top] /\ C[top] \subseteq Hosts
    BY <1>6, <1>8, <1>10, <1>12
  <2>3. Majority({x \in C[top] : term'[x] >= t}, C[top])
    BY <1>3, <1>12, <2>2, MajorityMore
  <2>4. (top + 1)..top = {} /\ top >= 1
    BY <1>10
  <2> QED BY <2>1, <2>3, <2>4 DEF LeaderOK, Majority
<1>17. ASSUME NEW l \in Hosts, leaderOf'[l] = l PROVE LeaderOK(l, C, K, top)'
  <2>1. CASE l = n
    BY <1>16, <2>1
  <2>2. CASE l # n
    <3>1. LeaderOK(l, C, K, top) /\ term'[l] = term[l] /\ version'[l] = version[l]
      BY <1>4, <1>15, <1>17, <2>2
    <3> QED BY <1>1, <1>7, <1>9, <1>10, <3>1, LeaderStays
  <2> QED BY <2>1, <2>2
<1>18. ASSUME NEW l \in Hosts, leaderOf'[l] = l, l # n, term'[l] = t PROVE FALSE
  <2>1. term[l] = t /\ LeaderOK(l, C, K, top) /\ version[l] \in Nat /\ version[l] <= top
    BY <1>5, <1>10, <1>15, <1>18 DEF Follows
  <2>2. K[top] \in Nat /\ term[n] \in Nat /\ K[top] < t
    BY <1>3, <1>5, <1>6, <1>10, <1>12
  <2>3. version[l] = top
    <3>1. SUFFICES ASSUME version[l] # top PROVE FALSE
      OBVIOUS
    <3>2. top \in (version[l] + 1)..top
      BY <1>10, <2>1, <3>1
    <3>3. K[top] > t
      BY <2>1, <3>2 DEF LeaderOK
    <3> QED BY <1>6, <2>2, <3>3
  <2>4. Majority({x \in C[top] : term[x] >= t}, C[top])
    <3>1. K[top] # t
      BY <1>6, <2>2
    <3> QED BY <2>1, <2>3, <3>1 DEF LeaderOK
  <2>5. PICK x \in {y \in C[top] : term[y] >= t} : x \in M
    <3>1. {y \in C[top] : term[y] >= t} \subseteq C[top] /\ M \subseteq C[top] /\ C[top] \subseteq Hosts /\ Majority(M, C[top])
      BY <1>3, <1>6, <1>10, <1>12
    <3> QED BY <2>4, <3>1, MajoritiesMeet
  <2>6. term[x] \in Nat /\ term[x] >= t /\ term[x] < t
    BY <1>3, <1>5, <1>6, <2>5
  <2> QED BY <1>6, <2>6
<1>19. ASSUME NEW l \in Hosts, NEW k \in Hosts, leaderOf'[l] = l, leaderOf'[k] = k, term'[l] = term'[k], l # k
       PROVE  FALSE
  <2>1. term'[n] = t
    BY <1>3, <1>8
  <2>2. l # n /\ k # n
    BY <1>18, <1>19, <2>1
  <2> QED BY <1>10, <1>15, <1>19, <2>2 DEF Leaders
<1>20. Chain(F, C, K, top)'
  <2>1. Leaders(C, K, top)'
    BY <1>17, <1>19 DEF Leaders
  <2> QED BY <1>13, <1>14, <2>1 DEF Chain
<1>21. Placed(C, top)'
  BY <1>2, <1>4, <1>6, <1>8, <1>12 DEF Placed
<1> QED BY <1>7, <1>20, <1>21 DEF BootInv

\* Of two leaders, the one that a majority of the latest configuration follows is of the
\* later term.
LEMMA LeaderIsLater ==
    ASSUME NEW F, HostsOK, NEW C, NEW K, NEW top, Chain(F, C, K, top), NEW l \in Hosts, Leads(l),
           NEW k \in Hosts, leaderOf[k] = k, k # l
    PROVE  term[k] < term[l]
<1>1. /\ version[l] = top /\ config[l] = C[top]
  BY LeadsTop
<1>2. /\ term \in [Hosts -> Nat] /\ term[k] \in Nat /\ term[l] \in Nat /\ version[k] \in Nat
      /\ top \in Nat /\ C[top] \subseteq Hosts /\ K[top] \in Nat
      /\ version[k] <= top /\ K[top] <= term[l] /\ LeaderOK(k, C, K, top) /\ leaderOf[l] = l
  BY <1>1 DEF HostsOK, Chain, Parameters, Follows, Leaders, Leads
<1>3. term[k] # term[l]
  BY <1>2 DEF Chain, Leaders
<1>4. CASE version[k] # top
  <2>1. top \in (version[k] + 1)..top
    BY <1>2, <1>4
  <2>2. K[top] > term[k]
    BY <1>2, <2>1 DEF LeaderOK
  <2> QED BY <1>2, <2>2
<1>5. CASE version[k] = top /\ K[top] = term[k]
  BY <1>2, <1>3, <1>5
<1>6. CASE version[k] = top /\ K[top] # term[k]
  <2>1. Majority({x \in C[top] : term[x] >= term[k]}, C[top])
    BY <1>2, <1>6 DEF LeaderOK
  <2>2. /\ {x \in C[top] : term[x] >= term[k]} \subseteq C[top] /\ Followers(l) \subseteq C[top]
        /\ Majority(Followers(l), C[top])
    BY <1>1 DEF Leads, Followers
  <2>3. PICK x \in {y \in C[top] : term[y] >= term[k]} : x \in Followers(l)
    BY <1>2, <2>1, <2>2, MajoritiesMeet
  <2>4. term[x] >= term[k] /\ term[x] = term[l]
    BY <2>3 DEF Followers
  <2> QED BY <1>2, <1>3, <2>4
<1> QED BY <1>4, <1>5, <1>6

\* The chain, after n has been added to the latest configuration by l.
Longer(C, n, top) == [v \in Nat |-> IF v = top + 1 THEN C[top] \cup {n} ELSE C[v]]
Later(K, l, top) == [v \in Nat |-> IF v = top + 1 THEN term[l] ELSE K[v]]

\* A node that is not a member yet is added by a leader that a majority follows.
LEMMA InvAdded ==
    ASSUME NEW F, HostsOK, HostsOK', NEW C, NEW K, NEW top, Chain(F, C, K, top), Placed(C, top),
           NEW n \in Hosts, NEW l \in Hosts, l \in up, Leads(l),
           config' = [m \in Hosts |-> IF m \in Followers(l) THEN config[l] \cup {n} ELSE config[m]],
           version' = [m \in Hosts |-> IF m \in Followers(l) THEN version[l] + 1 ELSE version[m]],
           UNCHANGED <<term, leaderOf>>,
           \A m \in Hosts : boot'[m].pc = "done" => boot[m].pc = "done" \/ m = n
    PROVE  BootInv(F)'
<1>1. PICK D, J : D = Longer(C, n, top) /\ J = Later(K, l, top)
  OBVIOUS
<1>2. /\ top \in Nat \ {0} /\ C \in [Nat -> SUBSET Hosts] /\ K \in [Nat -> Nat] /\ top + 1 \in Nat \ {0, 1}
      /\ C[top] \subseteq Hosts
  BY DEF Chain, Parameters
<1>3. /\ version \in [Hosts -> Nat] /\ version' \in [Hosts -> Nat] /\ term \in [Hosts -> Nat]
      /\ config \in [Hosts -> SUBSET Hosts] /\ leaderOf \in [Hosts -> Hosts \cup {NoHost}]
      /\ term[l] \in Nat
  BY DEF HostsOK
<1>4. version[l] = top /\ config[l] = C[top] /\ leaderOf[l] = l
  BY LeadsTop DEF Leads
<1>5. /\ D \in [Nat -> SUBSET Hosts] /\ J \in [Nat -> Nat]
      /\ D[top + 1] = C[top] \cup {n} /\ J[top + 1] = term[l]
      /\ \A v \in Nat : v # top + 1 => D[v] = C[v] /\ J[v] = K[v]
  BY <1>1, <1>2, <1>3 DEF Longer, Later
<1>6. \A v \in 1..top : v \in Nat /\ v # top + 1 /\ C[v] \subseteq C[top]
  BY <1>2 DEF Chain, Parameters
<1>7. Parameters(F, D, J, top + 1)
  <2>1. D[0] = {} /\ D[1] = F /\ J[0] = 0 /\ J[1] = 0
    BY <1>2, <1>5 DEF Chain, Parameters
  <2>2. ASSUME NEW v \in 1..(top + 1) PROVE D[v] \subseteq D[top + 1]
    <3>1. CASE v = top + 1
      BY <3>1
    <3>2. CASE v # top + 1
      <4>1. v \in 1..top
        BY <1>2, <3>2
      <4> QED BY <1>5, <1>6, <4>1
    <3> QED BY <3>1, <3>2
  <2> QED BY <1>2, <1>5, <2>1, <2>2 DEF Parameters
<1>8. /\ \A m \in Followers(l) : m \in Hosts /\ m \in C[top] /\ leaderOf[m] = l /\ term[m] = term[l]
      /\ Followers(l) \subseteq C[top] /\ Majority(Followers(l), C[top])
  BY <1>2, <1>4 DEF Followers, Leads
<1>9. /\ \A m \in Followers(l) : config'[m] = C[top] \cup {n} /\ version'[m] = top + 1
      /\ \A m \in Hosts : m \notin Followers(l) => config'[m] = config[m] /\ version'[m] = version[m]
  BY <1>4, <1>8
<1>10. \A m \in Hosts : version[m] <= top /\ config[m] = C[version[m]] /\ K[version[m]] <= term[m] /\ version[m] \in Nat
  BY <1>3 DEF Chain, Follows
<1>11. Follows(D, J, top + 1)'
  <2>1. ASSUME NEW m \in Hosts
        PROVE  version'[m] <= top + 1 /\ config'[m] = D[version'[m]] /\ J[version'[m]] <= term'[m]
    <3>1. CASE m \in Followers(l)
      <4>1. version'[m] = top + 1 /\ config'[m] = C[top] \cup {n} /\ term[m] = term[l] /\ term'[m] = term[m]
        BY <1>8, <1>9, <3>1
      <4>2. top + 1 <= top + 1 /\ term[l] <= term[l]
        BY <1>2, <1>3
      <4> QED BY <1>5, <4>1, <4>2
    <3>2. CASE m \notin Followers(l)
      <4>1. version[m] <= top /\ config[m] = C[version[m]] /\ K[version[m]] <= term[m] /\ version[m] \in Nat
        BY <1>10
      <4>2. version[m] # top + 1 /\ version[m] <= top + 1
        BY <1>2, <4>1
      <4> QED BY <1>5, <1>9, <3>2, <4>1, <4>2
    <3> QED BY <3>1, <3>2
  <2> QED BY <2>1 DEF Follows
<1>12. \A m \in Hosts : version[m] <= version'[m] /\ term[m] <= term'[m]
  <2>1. ASSUME NEW m \in Hosts PROVE version[m] <= version'[m] /\ term[m] <= term'[m]
    <3>1. version[m] \in Nat /\ term[m] \in Nat /\ term'[m] = term[m] /\ version[m] <= top
      BY <1>3, <1>10
    <3>2. version'[m] \in {version[m], top + 1}
      BY <1>9
    <3> QED BY <1>2, <3>1, <3>2
  <2> QED BY <2>1
<1>13. Superseded(D, top + 1)'
  <2>1. SUFFICES ASSUME NEW w \in 1..top PROVE Majority({x \in D[w] : version'[x] > w}, D[w])
    <3>1. 1..((top + 1) - 1) = 1..top
      BY <1>2
    <3> QED BY <3>1 DEF Superseded, Majority
  <2>2. D[w] = C[w] /\ C[w] \subseteq Hosts
    BY <1>2, <1>5, <1>6
  <2>3. CASE w = top
    <3>1. Followers(l) \subseteq {x \in C[top] : version'[x] > top} /\ {x \in C[top] : version'[x] > top} \subseteq C[top]
      <4>1. top + 1 > top
        BY <1>2
      <4>2. \A x \in Followers(l) : x \in C[top] /\ version'[x] = top + 1
        BY <1>8, <1>9
      <4> QED BY <4>1, <4>2
    <3>2. Majority({x \in C[top] : version'[x] > top}, C[top])
      BY <1>2, <1>8, <3>1, MajorityMore
    <3> QED BY <2>2, <2>3, <3>2
  <2>4. CASE w # top
    <3>1. w \in 1..(top - 1)
      BY <1>2, <2>4
    <3>2. Superseded(C, top)'
      BY <1>12, SupersededStays DEF Chain
    <3>3. Majority({x \in C[w] : version'[x] > w}, C[w])
      BY <3>1, <3>2 DEF Superseded, Majority
    <3> QED BY <2>2, <3>3
  <2> QED BY <2>3, <2>4
<1>14. l \in Followers(l)
  <2>1. l \in C[top]
    BY <1>4, BootstrapAssumption DEF Placed
  <2> QED BY <1>4, <2>1 DEF Followers
<1>15. ASSUME NEW k \in Hosts, leaderOf'[k] = k PROVE LeaderOK(k, D, J, top + 1)'
  <2>1. CASE k = l
    <3>1. version'[k] = top + 1 /\ J[top + 1] = term'[k]
      BY <1>5, <1>9, <1>14, <2>1
    <3>2. ((top + 1) + 1)..(top + 1) = {} /\ top + 1 >= 1
      BY <1>2
    <3> QED BY <3>1, <3>2 DEF LeaderOK
  <2>2. CASE k # l
    <3>1. leaderOf[k] = k /\ k \notin Followers(l)
      BY <1>8, <1>15, <2>2
    <3>2. version'[k] = version[k] /\ term'[k] = term[k]
      BY <1>9, <3>1
    <3>3. LeaderOK(k, C, K, top)
      BY <3>1 DEF Chain, Leaders
    <3>4. term[k] < term[l]
      BY <2>2, <3>1, LeaderIsLater
    <3>5. LeaderOK(k, C, K, top)'
      BY <1>12, <3>2, <3>3, LeaderStays DEF Chain
    <3>6. PICK v \in Nat, t \in Nat : v = version'[k] /\ t = term'[k] /\ v <= top
      BY <1>3, <1>10, <3>2
    <3>7. /\ v >= 1 /\ \A u \in (v + 1)..top : K[u] > t
          /\ K[v] = t \/ Majority({x \in C[v] : term'[x] >= t}, C[v])
      BY <3>5, <3>6 DEF LeaderOK, Majority
    <3>8. ASSUME NEW u \in (v + 1)..(top + 1) PROVE J[u] > t
      <4>1. CASE u = top + 1
        BY <1>5, <3>2, <3>4, <3>6, <4>1
      <4>2. CASE u # top + 1
        <5>1. u \in (v + 1)..top /\ u \in Nat
          BY <1>2, <3>6, <4>2
        <5> QED BY <1>5, <3>7, <4>2, <5>1
      <4> QED BY <4>1, <4>2
    <3>9. v # top + 1
      BY <1>2, <3>6
    <3>10. D[v] = C[v] /\ J[v] = K[v]
      BY <1>5, <3>9
    <3> QED BY <3>6, <3>7, <3>8, <3>10 DEF LeaderOK, Majority
  <2> QED BY <2>1, <2>2
<1>16. Leaders(D, J, top + 1)'
  <2>1. \A a, b \in Hosts : leaderOf'[a] = a /\ leaderOf'[b] = b /\ term'[a] = term'[b] => a = b
    BY DEF Chain, Leaders
  <2> QED BY <1>15, <2>1 DEF Leaders
<1>17. Parameters(F, D, J, top + 1)'
  BY <1>7 DEF Parameters
<1>18. Chain(F, D, J, top + 1)'
  BY <1>11, <1>13, <1>16, <1>17 DEF Chain
<1>19. Placed(D, top + 1)'
  BY <1>5 DEF Placed
<1> QED BY <1>18, <1>19 DEF BootInv

\* Store.Join on the leader, whether its answer arrives or not.
LEMMA InvJoin ==
    ASSUME NEW F, BootInv(F), NEW n \in Hosts, NEW l \in Hosts, l \in up, Join(n, l),
           NEW b, BootStepOf(n, b)
    PROVE  BootInv(F)'
<1>1. HostsOK
  BY DEF BootInv
<1>2. PICK C, K, top : Chain(F, C, K, top) /\ Placed(C, top)
  BY DEF BootInv
<1>3. /\ boot' \in [Hosts -> BootState]
      /\ \A m \in Hosts : boot'[m].pc = "notify" => m \notin Joining
      /\ \A m \in Hosts : boot'[m].pc = "done" => boot[m].pc = "done" \/ m = n
  BY <1>1, BootStepOK
<1>4. UNCHANGED <<up, notifying>> /\ leaderOf[l] = l
  BY DEF Join
<1>5. CASE n \in config[l]
  <2>1. UNCHANGED <<config, version, term, leaderOf>>
    BY <1>5 DEF Join, raft
  <2>2. HostsOK'
    BY <1>1, <1>3, <1>4, <2>1 DEF HostsOK
  <2>3. n \in C[top]
    <3>1. version[l] >= 1 /\ version[l] <= top /\ config[l] = C[version[l]] /\ top \in Nat /\ version[l] \in Nat
      BY <1>1, <1>2, <1>4 DEF Chain, Leaders, LeaderOK, Follows, Parameters, HostsOK
    <3>2. version[l] \in 1..top
      BY <3>1
    <3> QED BY <1>2, <1>5, <3>1, <3>2 DEF Chain, Parameters
  <2>4. \A m \in Hosts : leaderOf'[m] \in {NoHost, leaderOf[m]}
    BY <2>1
  <2>5. \A m \in Hosts : boot'[m].pc = "done" => boot[m].pc = "done" \/ m \in C[top]
    BY <1>3, <2>3
  <2>6. Chain(F, C, K, top)' /\ Placed(C, top)'
    BY <1>1, <1>2, <2>1, <2>2, <2>4, <2>5, QuietStep
  <2> QED BY <2>2, <2>6 DEF BootInv
<1>6. CASE n \notin config[l]
  <2>1. /\ Leads(l) /\ UNCHANGED <<term, leaderOf>>
        /\ config' = [m \in Hosts |-> IF m \in Followers(l) THEN config[l] \cup {n} ELSE config[m]]
        /\ version' = [m \in Hosts |-> IF m \in Followers(l) THEN version[l] + 1 ELSE version[m]]
    BY <1>6 DEF Join
  <2>2. config' \in [Hosts -> SUBSET Hosts] /\ version' \in [Hosts -> Nat]
    BY <1>1, <2>1 DEF HostsOK
  <2>3. HostsOK'
    BY <1>1, <1>3, <1>4, <2>1, <2>2 DEF HostsOK
  <2> QED BY <1>1, <1>2, <1>3, <2>1, <2>3, InvAdded
<1> QED BY <1>5, <1>6

\* Store.Notify, whether its answer arrives or not.
LEMMA InvNotify ==
    ASSUME NEW F, founded' \subseteq {F}, BootInv(F), NEW n \in Hosts, NEW t \in Hosts, Notify(t, n), boot[n].pc = "notify",
           NEW b, BootStepOf(n, b), b.pc # "done", UNCHANGED up
    PROVE  BootInv(F)'
<1>1. HostsOK
  BY DEF BootInv
<1>2. PICK C, K, top : Chain(F, C, K, top) /\ Placed(C, top)
  BY DEF BootInv
<1>3. /\ boot' \in [Hosts -> BootState]
      /\ \A m \in Hosts : boot'[m].pc = "notify" => m \notin Joining
      /\ \A m \in Hosts : boot'[m].pc = "done" => boot[m].pc = "done"
  BY <1>1, BootStepOK
<1>4. CASE t \in Joining \/ bootstrapped[t] \/ leaderOf[t] # NoHost \/ n \in notifying[t]
  <2>1. UNCHANGED <<raft, notifying>>
    BY <1>4 DEF Notify
  <2>2. up' \subseteq Hosts
    BY <1>1 DEF HostsOK
  <2> QED BY <2>1, <2>2, InvOwnStep
<1>5. CASE ~(t \in Joining \/ bootstrapped[t] \/ leaderOf[t] # NoHost \/ n \in notifying[t])
  <2>1. PICK told : told = notifying[t] \cup {n}
    OBVIOUS
  <2>2. /\ leaderOf[t] = NoHost
        /\ notifying' = [notifying EXCEPT ![t] = told]
        /\ \/ /\ told \in founded' /\ version[t] = 0
              /\ config' = [config EXCEPT ![t] = told]
              /\ version' = [version EXCEPT ![t] = 1]
           \/ UNCHANGED <<config, version>>
        /\ UNCHANGED <<term, leaderOf>>
    BY <1>5, <2>1 DEF Notify
  <2>3. told \subseteq Hosts \ Joining
    BY <1>1, <2>1 DEF HostsOK
  <2>4. notifying' \in [Hosts -> SUBSET (Hosts \ Joining)]
    BY <1>1, <2>2, <2>3 DEF HostsOK
  <2>5. CASE UNCHANGED <<config, version>>
    <3>1. HostsOK'
      BY <1>1, <1>3, <2>2, <2>4, <2>5 DEF HostsOK
    <3>2. \A m \in Hosts : leaderOf'[m] \in {NoHost, leaderOf[m]}
      BY <2>2
    <3> QED BY <1>3, <2>2, <2>5, <3>1, <3>2, InvQuiet
  <2>6. CASE /\ told \in founded' /\ version[t] = 0
             /\ config' = [config EXCEPT ![t] = told]
             /\ version' = [version EXCEPT ![t] = 1]
    <3>1. told = F
      BY <2>6
    <3>2. config' \in [Hosts -> SUBSET Hosts] /\ version' \in [Hosts -> Nat]
      BY <1>1, <2>3, <2>6 DEF HostsOK
    <3>3. HostsOK'
      BY <1>1, <1>3, <2>2, <2>4, <3>2 DEF HostsOK
    <3>4. /\ version \in [Hosts -> Nat] /\ term \in [Hosts -> Nat] /\ config \in [Hosts -> SUBSET Hosts]
      BY <1>1 DEF HostsOK
    <3>5. /\ \A m \in Hosts : config'[m] = IF m = t THEN told ELSE config[m]
          /\ \A m \in Hosts : version'[m] = IF m = t THEN 1 ELSE version[m]
      BY <2>6, <3>4
    <3>6. C[1] = told /\ K[1] = 0 /\ top \in Nat \ {0} /\ 1 <= top
      BY <1>2, <3>1 DEF Chain, Parameters
    <3>7. Follows(C, K, top)'
      <4>1. ASSUME NEW m \in Hosts
            PROVE  version'[m] <= top /\ config'[m] = C[version'[m]] /\ K[version'[m]] <= term'[m]
        <5>1. version[m] <= top /\ config[m] = C[version[m]] /\ K[version[m]] <= term[m]
          BY <1>2 DEF Chain, Follows
        <5>2. term'[m] = term[m] /\ 0 <= term[m]
          BY <2>2, <3>4
        <5> QED BY <3>5, <3>6, <5>1, <5>2
      <4> QED BY <4>1 DEF Follows
    <3>8. \A m \in Hosts : version[m] <= version'[m] /\ term[m] <= term'[m]
      BY <2>2, <2>6, <3>4, <3>5
    <3>9. \A m \in Hosts : leaderOf'[m] = m => /\ leaderOf[m] = m
                                               /\ version'[m] = version[m] /\ term'[m] = term[m]
      BY <2>2, <3>5, BootstrapAssumption
    <3>10. Chain(F, C, K, top)'
      BY <1>1, <1>2, <3>3, <3>7, <3>8, <3>9, ChainStays
    <3>11. Placed(C, top)'
      BY <1>2, <1>3, <2>2 DEF Placed
    <3> QED BY <3>3, <3>10, <3>11 DEF BootInv
  <2> QED BY <2>2, <2>5, <2>6
<1> QED BY <1>4, <1>5

\* Join, when its answer arrives: Boot is done on a node that is a member.
LEMMA InvJoinOK ==
    ASSUME NEW F, BootInv(F), NEW n \in Hosts, JoinOK(n)
    PROVE  BootInv(F)'
<1>1. PICK l : l = boot[n].at
  OBVIOUS
<1>2. l \in up /\ Join(n, l)
  BY <1>1 DEF JoinOK
<1>3. l \in Hosts
  BY <1>2 DEF BootInv, HostsOK
<1>4. PICK b : b = At("done")
  OBVIOUS
<1>5. b \in BootState /\ b.pc = "done"
  BY <1>4, AtIsState
<1>6. BootStepOf(n, b)
  BY <1>4, <1>5 DEF JoinOK, BootStepOf
<1> QED BY <1>2, <1>3, <1>6, InvJoin

\* Notify, when its answer arrives.
LEMMA InvNotifyOK ==
    ASSUME NEW F, founded' \subseteq {F}, BootInv(F), NEW n \in Hosts, NotifyOK(n)
    PROVE  BootInv(F)'
<1>1. PICK t : t = boot[n].at
  OBVIOUS
<1>2. t \in up /\ Notify(t, n) /\ boot[n].pc = "notify" /\ UNCHANGED up
  BY <1>1 DEF NotifyOK
<1>3. t \in Hosts /\ n \notin Joining /\ boot[n].i + 1 \in Nat \ {0} /\ boot \in [Hosts -> BootState]
  BY <1>2 DEF BootInv, HostsOK, BootState
<1>4. PICK b : b = Ask("notify", boot[n].i + 1, At("tick"))
  OBVIOUS
<1>5. At("tick") \in BootState /\ At("tick").pc = "tick"
  BY AtIsState
<1>6. b \in BootState /\ b.pc \in {"notify", "tick"}
  BY <1>3, <1>4, <1>5, AskIsState
<1>7. boot' = [boot EXCEPT ![n] = b]
  BY <1>3, <1>4 DEF NotifyOK
<1>8. BootStepOf(n, b) /\ b.pc # "done"
  BY <1>3, <1>6, <1>7 DEF BootStepOf
<1> QED BY <1>2, <1>3, <1>8, InvNotify

\* A call that fails on its way, or whose answer does.
LEMMA InvCallLost ==
    ASSUME NEW F, founded' \subseteq {F}, BootInv(F), NEW n \in Hosts, CallLost(n)
    PROVE  BootInv(F)'
<1>1. PICK t : t = boot[n].at
  OBVIOUS
<1>2. t \in up /\ t \in Hosts /\ HostsOK
  BY <1>1 DEF CallLost, BootInv, HostsOK
<1>3. PICK b : b = Failed(n)
  OBVIOUS
<1>4. BootStepOf(n, b) /\ b.pc # "done"
  BY <1>2, <1>3, FailedIsState DEF CallLost, BootStepOf
<1>5. CASE UNCHANGED <<up, raft, notifying>>
  <2>1. up' \subseteq Hosts
    BY <1>2, <1>5 DEF HostsOK
  <2> QED BY <1>4, <1>5, <2>1, InvOwnStep
<1>6. CASE Join(n, t)
  BY <1>2, <1>4, <1>6, InvJoin
<1>7. CASE boot[n].pc = "notify" /\ Notify(t, n) /\ UNCHANGED up
  BY <1>2, <1>4, <1>7, InvNotify
<1> QED BY <1>1, <1>5, <1>6, <1>7 DEF CallLost

\* In the beginning nobody has a configuration, and the first may be any.
LEMMA InvBegins ==
    ASSUME NEW F, F \subseteq Hosts, BootInit
    PROVE  BootInv(F)
<1>1. At("off") \in BootState /\ At("off").pc = "off"
  BY AtIsState
<1>2. HostsOK
  BY <1>1 DEF BootInit, HostsOK
<1>3. PICK C : C = [v \in Nat |-> IF v = 0 THEN {} ELSE F]
  OBVIOUS
<1>4. PICK K : K = [v \in Nat |-> 0]
  OBVIOUS
<1>5. Parameters(F, C, K, 1)
  BY <1>3, <1>4 DEF Parameters
<1>6. Follows(C, K, 1)
  BY <1>3, <1>4 DEF BootInit, Follows
<1>7. Superseded(C, 1)
  BY DEF Superseded
<1>8. \A l \in Hosts : leaderOf[l] = NoHost /\ leaderOf[l] # l /\ boot[l].pc = "off"
  BY <1>1, BootstrapAssumption DEF BootInit
<1>9. Leaders(C, K, 1) /\ Placed(C, 1)
  BY <1>8 DEF Leaders, Placed
<1> QED BY <1>2, <1>5, <1>6, <1>7, <1>9 DEF BootInv, Chain

\* The sets are of hosts, and as long as nodes are bootstrapped with one of them only,
\* whichever it is, it founds the chain.
FoundedOK ==
    up \subseteq Hosts /\ founded \subseteq SUBSET Hosts /\ notifying \in [Hosts -> SUBSET Hosts]
FoundedInv ==
    /\ FoundedOK
    /\ \A F \in SUBSET Hosts : founded \subseteq {F} => BootInv(F)

\* What has been founded stays so, and what is founded is a set of hosts.
LEMMA FoundedGrows ==
    ASSUME FoundedOK, [BootNext]_bootVars
    PROVE  FoundedOK' /\ founded \subseteq founded'
<1> USE DEF FoundedOK
<1>1. ASSUME NEW t \in Hosts, NEW n \in Hosts, Notify(t, n), UNCHANGED up
      PROVE  FoundedOK' /\ founded \subseteq founded'
  <2>1. CASE UNCHANGED <<founded, notifying>>
    BY <1>1, <2>1
  <2>2. CASE /\ notifying' = [notifying EXCEPT ![t] = notifying[t] \cup {n}]
             /\ founded' \in {founded, founded \cup {notifying[t] \cup {n}}}
    BY <1>1, <2>2
  <2> QED BY <1>1, <2>1, <2>2 DEF Notify, raft
<1>2. ASSUME NEW n \in Hosts, BootStep(n) PROVE FoundedOK' /\ founded \subseteq founded'
  BY <1>1, <1>2 DEF BootStep, Tick, JoinOK, JoinRedirected, JoinFails, NotifyOK, NotifyFails,
                    Join, raft
<1>3. ASSUME NEW n \in Hosts, Start(n) \/ HostCrash(n) \/ ElectLeader(n) \/ StepDown(n) \/ CallLost(n)
      PROVE  FoundedOK' /\ founded \subseteq founded'
  BY <1>1, <1>3 DEF Start, HostCrash, ElectLeader, StepDown, CallLost, Join, raft
<1>4. ASSUME NEW l, NEW m, Follow(l, m) PROVE FoundedOK' /\ founded \subseteq founded'
  BY <1>4 DEF Follow
<1>5. CASE UNCHANGED bootVars
  BY <1>5 DEF bootVars, raft
<1> QED BY <1>2, <1>3, <1>4, <1>5 DEF BootNext

\* Every step keeps the chain, if it founds nothing else.
LEMMA BootInvStep ==
    ASSUME NEW F, founded' \subseteq {F}, BootInv(F), [BootNext]_bootVars
    PROVE  BootInv(F)'
<1>1. ASSUME NEW n \in Hosts, BootStep(n) PROVE BootInv(F)'
  <2>1. CASE Tick(n) BY <2>1, InvTick
  <2>2. CASE JoinOK(n) BY <2>2, InvJoinOK
  <2>3. CASE JoinRedirected(n) BY <2>3, InvRedirected
  <2>4. CASE JoinFails(n)
    <3>1. boot' = [boot EXCEPT ![n] = Failed(n)] /\ UNCHANGED <<up, raft, notifying>>
      BY <2>4 DEF JoinFails
    <3> QED BY <3>1, InvFailed
  <2>5. CASE NotifyOK(n) BY <2>5, InvNotifyOK
  <2>6. CASE NotifyFails(n)
    <3>1. boot' = [boot EXCEPT ![n] = Failed(n)] /\ UNCHANGED <<up, raft, notifying>>
      BY <2>6 DEF NotifyFails
    <3> QED BY <3>1, InvFailed
  <2> QED BY <1>1, <2>1, <2>2, <2>3, <2>4, <2>5, <2>6 DEF BootStep
<1>2. CASE UNCHANGED bootVars
  <2>1. UNCHANGED <<up, config, version, term, leaderOf, notifying, boot>>
    BY <1>2 DEF bootVars, raft
  <2>2. HostsOK'
    BY <2>1 DEF BootInv, HostsOK
  <2>3. /\ \A m \in Hosts : leaderOf'[m] \in {NoHost, leaderOf[m]}
        /\ \A m \in Hosts : boot'[m].pc = "done" => boot[m].pc = "done"
    BY <2>1
  <2> QED BY <2>1, <2>2, <2>3, InvQuiet
<1>3. ASSUME NEW n \in Hosts, Start(n) \/ HostCrash(n) \/ ElectLeader(n) \/ StepDown(n)
      PROVE  BootInv(F)'
  BY <1>3, InvStart, InvCrash, InvElect, InvStepDown
<1>4. ASSUME NEW n \in Hosts, CallLost(n) PROVE BootInv(F)'
  BY <1>4, InvCallLost
<1>5. ASSUME NEW l \in Hosts, NEW m \in Hosts, Follow(l, m) PROVE BootInv(F)'
  BY <1>5, InvFollow
<1> QED BY <1>1, <1>2, <1>3, <1>4, <1>5 DEF BootNext

\* Bootstrapper.Boot, Store.Notify and Store.Join form one cluster, whatever
\* bootstrap-expect is, whatever the order in which nodes start, ask, crash and come back
\* and whichever answers are lost: as long as no two nodes are bootstrapped with different
\* sets of nodes, two nodes are never leaders of a majority of their configurations at
\* once, and each node whose Boot has returned is in the configuration of the one that
\* leads.
THEOREM BootstrapFoundsOneCluster == BootSpec => []OneCluster
<1>1. BootInit => FoundedInv
  BY InvBegins DEF FoundedInv, FoundedOK, BootInit
<1>2. FoundedInv /\ [BootNext]_bootVars => FoundedInv'
  <2> SUFFICES ASSUME FoundedInv, [BootNext]_bootVars PROVE FoundedInv'
    OBVIOUS
  <2>1. FoundedOK' /\ founded \subseteq founded'
    BY FoundedGrows DEF FoundedInv
  <2>2. ASSUME NEW F \in SUBSET Hosts, founded' \subseteq {F} PROVE BootInv(F)'
    <3>1. BootInv(F)
      BY <2>1, <2>2 DEF FoundedInv
    <3> QED BY <2>2, <3>1, BootInvStep
  <2> QED BY <2>1, <2>2 DEF FoundedInv
<1>3. FoundedInv => OneCluster
  <2> SUFFICES ASSUME FoundedInv, FoundedAlike PROVE OneLeads /\ BootedIsMember
    BY DEF OneCluster
  <2>1. PICK F \in SUBSET Hosts : founded \subseteq {F}
    BY DEF FoundedAlike, FoundedInv, FoundedOK
  <2>2. BootInv(F)
    BY <2>1 DEF FoundedInv
  <2> QED BY <2>2, ChainIsOne
<1> QED BY <1>1, <1>2, <1>3, PTL DEF BootSpec
=============================================================================
