------------------------------ MODULE Discovery ------------------------------
(***************************************************************************)
(* Forming a cluster through a key-value registry (disco/service.go and    *)
(* the Consul and etcd modes of createCluster in cmd/rqlited/main.go): a   *)
(* node without data asks the registry for the leader, a voter that finds  *)
(* none registers itself with a check-and-set and bootstraps, any other    *)
(* joins the node the registry names, and the leader reports itself.       *)
(*                                                                         *)
(* The registry is external: a check-and-set and a write that may fail, or *)
(* succeed although the answer is lost.                                    *)
(***************************************************************************)
EXTENDS Naturals, FiniteSets

CONSTANTS
    DiscoNodes,     \* the nodes
    Voters,         \* those that may register as the leader
    MaxTrouble      \* bound: lost answers and crashes

Nobody == "nobody"

ASSUME DiscoParameters ==
    /\ IsFiniteSet(DiscoNodes) /\ Nobody \notin DiscoNodes
    /\ Voters \subseteq DiscoNodes
    /\ MaxTrouble \in Nat

VARIABLES
    registry,       \* the leader of record
    at,             \* at[n]: where createCluster is on n
    target,         \* target[n]: the node that Register returned
    raftData,       \* raftData[n]: the node that bootstrapped the cluster of n
    ruler,          \* the Raft leader
    reporting,      \* the nodes whose StartReporting found itself leader and writes
    lostOwn,        \* history: registered without knowing it
    trouble

discoVars == <<registry, at, target, raftData, ruler, reporting, lostOwn, trouble>>

DiscoInit ==
    /\ registry = Nobody
    /\ at = [n \in DiscoNodes |-> "ask"]
    /\ target = [n \in DiscoNodes |-> Nobody]
    /\ raftData = [n \in DiscoNodes |-> Nobody]
    /\ ruler = Nobody
    /\ reporting = {}
    /\ lostOwn = {}
    /\ trouble = 0

----------------------------------------------------------------------------
(* Service.Register.  createCluster calls it again after a join that        *)
(* failed and then ignores whether the node has registered itself, which it *)
(* cannot as long as the registry keeps what was set.                       *)

\* GetLeader.
AskLeader(n) ==
    /\ at[n] = "ask"
    /\ at' = [at EXCEPT ![n] = IF registry # Nobody THEN "join" ELSE IF n \in Voters THEN "set" ELSE @]
    /\ target' = [target EXCEPT ![n] = registry]
    /\ UNCHANGED <<registry, raftData, ruler, reporting, lostOwn, trouble>>

\* Mutant: the registry is written without a check.
CheckAndSet_Always(n) == registry' = n

\* The registry's part of InitializeLeader.
CheckAndSet(n) == registry = Nobody /\ registry' = n

\* InitializeLeader answers: the node registered itself ...
InitializeLeader(n) ==
    /\ at[n] = "set"
    /\ CheckAndSet(n)
    /\ at' = [at EXCEPT ![n] = "bootstrap"]
    /\ target' = [target EXCEPT ![n] = n]
    /\ UNCHANGED <<raftData, ruler, reporting, lostOwn, trouble>>

\* Mutant: a voter that was too late only tries to register again.
InitializeLate_Again(n) ==
    /\ at[n] = "set" /\ registry # Nobody
    /\ UNCHANGED discoVars

\* ... or another was first, and Register asks again after a while ...
InitializeLate(n) ==
    /\ at[n] = "set" /\ registry # Nobody
    /\ at' = [at EXCEPT ![n] = "ask"]
    /\ UNCHANGED <<registry, target, raftData, ruler, reporting, lostOwn, trouble>>

\* ... or the answer is lost, and Register asks again too.
InitializeLost(n) ==
    /\ trouble < MaxTrouble /\ trouble' = trouble + 1
    /\ at[n] = "set"
    /\ CheckAndSet(n)
    /\ at' = [at EXCEPT ![n] = "ask"]
    /\ lostOwn' = lostOwn \cup {n}
    /\ UNCHANGED <<target, raftData, ruler, reporting>>

----------------------------------------------------------------------------
(* createCluster.                                                          *)

BootstrapSelf(n) ==
    /\ at[n] = "bootstrap"
    /\ at' = [at EXCEPT ![n] = "up"]
    /\ raftData' = [raftData EXCEPT ![n] = n]
    /\ ruler' = n
    /\ UNCHANGED <<registry, target, reporting, lostOwn, trouble>>

Reachable(n) == target[n] # n /\ at[target[n]] = "up" /\ ruler # Nobody

\* Joiner.Do with the one address.
JoinTarget(n) ==
    /\ at[n] = "join" /\ Reachable(n)
    /\ at' = [at EXCEPT ![n] = "up"]
    /\ raftData' = [raftData EXCEPT ![n] = raftData[target[n]]]
    /\ UNCHANGED <<registry, target, ruler, reporting, lostOwn, trouble>>

JoinTargetFails(n) ==
    /\ at[n] = "join" /\ ~Reachable(n)
    /\ at' = [at EXCEPT ![n] = "ask"]
    /\ UNCHANGED <<registry, target, raftData, ruler, reporting, lostOwn, trouble>>

\* StartReporting: now and then, and when leadership changes, update finds that
\* this node is the leader ...
Report(n) ==
    /\ at[n] = "up" /\ ruler = n
    /\ reporting' = reporting \cup {n}
    /\ UNCHANGED <<registry, at, target, raftData, ruler, lostOwn, trouble>>

\* ... and sets it in the registry, where another may by now be the leader.
SetLeader(n) ==
    /\ n \in reporting
    /\ reporting' = reporting \ {n}
    /\ registry' = n
    /\ UNCHANGED <<at, target, raftData, ruler, lostOwn, trouble>>

----------------------------------------------------------------------------

\* The members elect a leader among the voters that are up.
NewRuler(n) ==
    /\ ruler = Nobody
    /\ n \in Voters /\ at[n] = "up"
    /\ ruler' = n
    /\ UNCHANGED <<registry, at, target, raftData, reporting, lostOwn, trouble>>

\* Leadership moves.
NextRuler(n) ==
    /\ trouble < MaxTrouble /\ trouble' = trouble + 1
    /\ ruler \notin {Nobody, n}
    /\ n \in Voters /\ at[n] = "up"
    /\ ruler' = n
    /\ UNCHANGED <<registry, at, target, raftData, reporting, lostOwn>>

\* A crash and a start: a node with Raft data does not register.
DiscoCrash(n) ==
    /\ trouble < MaxTrouble /\ trouble' = trouble + 1
    /\ at' = [at EXCEPT ![n] = IF raftData[n] = Nobody THEN "ask" ELSE "up"]
    /\ target' = [target EXCEPT ![n] = Nobody]
    /\ ruler' = IF ruler = n THEN Nobody ELSE ruler
    /\ reporting' = reporting \ {n}
    /\ lostOwn' = IF at[n] = "bootstrap" THEN lostOwn \cup {n} ELSE lostOwn
    /\ UNCHANGED <<registry, raftData>>

RegisterStep(n) == AskLeader(n) \/ InitializeLeader(n) \/ InitializeLate(n)
ClusterStep(n) == BootstrapSelf(n) \/ JoinTarget(n) \/ JoinTargetFails(n)

DiscoNext ==
    \E n \in DiscoNodes :
        \/ RegisterStep(n) \/ InitializeLost(n) \/ ClusterStep(n)
        \/ Report(n) \/ SetLeader(n) \/ NewRuler(n) \/ NextRuler(n) \/ DiscoCrash(n)

\* Each node goes on with createCluster, and Raft elects a leader when there is
\* none; a leader reports every ReportInterval.
DiscoFairness ==
    \A n \in DiscoNodes :
        /\ WF_discoVars(RegisterStep(n)) /\ WF_discoVars(ClusterStep(n))
        /\ WF_discoVars(Report(n)) /\ WF_discoVars(SetLeader(n))
        /\ WF_discoVars(NewRuler(n))

DiscoSpec == DiscoInit /\ [][DiscoNext]_discoVars /\ DiscoFairness

----------------------------------------------------------------------------

\* However many voters start at once, die and come back, and whatever answers of
\* the registry are lost, there is one cluster.
OneDiscoCluster ==
    Cardinality({n \in DiscoNodes : raftData[n] = n}) <= 1

\* Every node ends up in the cluster, unless a voter registered itself without
\* getting to bootstrap: the registry then names a node that is in no cluster.
AllDiscovered ==
    (lostOwn = {}) ~> (lostOwn # {} \/ \A n \in DiscoNodes : raftData[n] # Nobody)
=============================================================================
