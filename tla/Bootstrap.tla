----------------------------- MODULE Bootstrap -----------------------------
(***************************************************************************)
(* How voting nodes find each other and form one cluster: the loop of       *)
(* Bootstrapper.Boot (cluster/bootstrap.go) with the Joiner and the cluster *)
(* client on the starting node, and Store.Notify and Store.Join behind the  *)
(* cluster service on the nodes it asks.  Nodes start at different times,   *)
(* crash and come back; a call may fail, or succeed and have its answer     *)
(* lost.                                                                    *)
(***************************************************************************)
EXTENDS Naturals, Sequences, FiniteSets

CONSTANTS Hosts,
          NoHost,
          Targets,   \* what AddressProvider.Lookup returns, in order
          Expect,    \* bootstrap-expect
          Joining,   \* nodes with bootstrap-expect 0, which join a cluster explicitly
          MaxCrash,  \* bound on the number of crashes
          MaxLost    \* bound on the number of failed calls

ASSUME BootstrapAssumption ==
    /\ NoHost \notin Hosts /\ IsFiniteSet(Hosts)
    /\ Targets \in Seq(Hosts) /\ Len(Targets) > 0
    /\ Expect \in Nat \ {0}
    /\ Joining \subseteq Hosts
    /\ MaxCrash \in Nat /\ MaxLost \in Nat

VARIABLES up,           \* the nodes that run
          config,       \* config[n]: the Raft configuration n has stored, {} if none
          version,      \* version[n]: the number of entries behind config[n]
          term,         \* term[n]: the latest election n has heard of
          leaderOf,     \* leaderOf[n]: raft.LeaderWithID on n
          notifying,    \* notifying[n]: Store.notifyingNodes
          bootstrapped, \* bootstrapped[n]: Store.bootstrapped
          boot,         \* boot[n]: where Boot is on n, and whom it is asking
          founded,      \* history: the sets of nodes Raft was bootstrapped with
          crashes, lost

raft == <<config, version, term, leaderOf, founded>>
bootVars == <<up, raft, notifying, bootstrapped, boot, crashes, lost>>

At(pc) == [pc |-> pc, i |-> 1, at |-> NoHost]

\* The i-th target is asked next, or the loop goes on at "after".
Ask(pc, i, after) ==
    IF i <= Len(Targets) THEN [pc |-> pc, i |-> i, at |-> Targets[i]] ELSE after

BootInit ==
    /\ up = {}
    /\ config = [n \in Hosts |-> {}]
    /\ version = [n \in Hosts |-> 0]
    /\ term = [n \in Hosts |-> 0]
    /\ leaderOf = [n \in Hosts |-> NoHost]
    /\ notifying = [n \in Hosts |-> {}]
    /\ bootstrapped = [n \in Hosts |-> FALSE]
    /\ boot = [n \in Hosts |-> At("off")]
    /\ founded = {}
    /\ crashes = 0
    /\ lost = 0

-----------------------------------------------------------------------------
(***************************************************************************)
(* The process.  main calls Boot, or Joiner.Do, whether or not there is Raft  *)
(* state.                                                                   *)
(***************************************************************************)
Start(n) ==
    /\ n \notin up
    /\ up' = up \cup {n}
    /\ boot' = [boot EXCEPT ![n] = IF n \in Joining THEN Ask("join", 1, At("tick"))
                                                    ELSE At("tick")]
    /\ UNCHANGED <<raft, notifying, bootstrapped, crashes, lost>>

\* The node stops, or Boot has timed out and main exits.  The others notice
\* that their leader is gone.
HostCrash(n) ==
    /\ n \in up
    /\ crashes < MaxCrash
    /\ crashes' = crashes + 1
    /\ up' = up \ {n}
    /\ boot' = [boot EXCEPT ![n] = At("off")]
    /\ notifying' = [notifying EXCEPT ![n] = {}]
    /\ bootstrapped' = [bootstrapped EXCEPT ![n] = FALSE]
    /\ leaderOf' = [m \in Hosts |-> IF m = n \/ leaderOf[m] = n THEN NoHost ELSE leaderOf[m]]
    /\ UNCHANGED <<config, version, term, founded, lost>>

-----------------------------------------------------------------------------
(***************************************************************************)
(* Raft, as far as a new cluster needs it.                                  *)
(***************************************************************************)
Majority(M, C) == 2 * Cardinality(M) > Cardinality(C)

\* The members that take l for their leader, and have heard so in this term.
Followers(l) == {m \in config[l] \cap up : leaderOf[m] = l /\ term[m] = term[l]}

\* l leads a cluster: a majority of its configuration takes it for the leader.
Leads(l) == leaderOf[l] = l /\ Majority(Followers(l), config[l])

\* n is elected by members that know no leader and no later configuration.  A
\* node that has a configuration votes only for its members.
ElectLeader(n) ==
    /\ n \in up /\ n \in config[n]
    /\ \E M \in SUBSET (config[n] \cap up), t \in {term[m] + 1 : m \in up} :
          /\ n \in M
          /\ Majority(M, config[n])
          /\ \A m \in M : /\ leaderOf[m] = NoHost
                          /\ term[m] < t
                          /\ version[m] <= version[n]
                          /\ config[m] = {} \/ n \in config[m]
          /\ \E m \in M : t = term[m] + 1
          /\ leaderOf' = [m \in Hosts |-> IF m \in M THEN n ELSE leaderOf[m]]
          /\ term' = [m \in Hosts |-> IF m \in M THEN t ELSE term[m]]
    /\ UNCHANGED <<up, config, version, founded, notifying, bootstrapped, boot, crashes, lost>>

\* A member hears from the leader, and gives up what it knew of an older one.
Follow(l, m) ==
    /\ l \in up /\ leaderOf[l] = l
    /\ m \in (up \cap config[l]) \ {l}
    /\ term[m] < term[l] \/ (term[m] = term[l] /\ leaderOf[m] \in {NoHost, l})
    /\ <<leaderOf[m], term[m], config[m]>> # <<l, term[l], config[l]>>
    /\ leaderOf' = [leaderOf EXCEPT ![m] = l]
    /\ term' = [term EXCEPT ![m] = term[l]]
    /\ config' = [config EXCEPT ![m] = config[l]]
    /\ version' = [version EXCEPT ![m] = version[l]]
    /\ UNCHANGED <<up, founded, notifying, bootstrapped, boot, crashes, lost>>

\* A leader that has lost its majority gives up, and its followers hear no more
\* of it.
StepDown(l) ==
    /\ leaderOf[l] = l /\ ~Leads(l)
    /\ leaderOf' = [m \in Hosts |-> IF leaderOf[m] = l THEN NoHost ELSE leaderOf[m]]
    /\ UNCHANGED <<up, config, version, term, founded, notifying, bootstrapped, boot, crashes, lost>>

-----------------------------------------------------------------------------
(***************************************************************************)
(* Boot on node n.                                                          *)
(***************************************************************************)

\* The ticker: done if the store knows a leader, else join by the first target.
Tick(n) ==
    /\ boot[n].pc = "tick"
    /\ boot' = [boot EXCEPT ![n] = IF leaderOf[n] # NoHost THEN At("done")
                                   ELSE Ask("join", 1, At("tick"))]
    /\ UNCHANGED <<up, raft, notifying, bootstrapped, crashes, lost>>

\* A mutant: the targets are not notified when none of them could be joined.
Failed_NoNotify(n) == IF boot[n].pc = "join" THEN Ask("join", boot[n].i + 1, At("tick"))
                                             ELSE At("tick")

\* A mutant: the error of an explicit join is dropped once every target has failed.
Failed_JoinIgnored(n) ==
    IF boot[n].pc = "notify" THEN At("tick")
    ELSE Ask("join", boot[n].i + 1,
             IF n \in Joining THEN At("done") ELSE Ask("notify", 1, At("tick")))

\* Where n goes when its call has failed.  A Joiner tries the next target; after
\* the last one an explicit join is attempted again, and Boot notifies.  A notify
\* that fails ends the round.
Failed(n) ==
    IF boot[n].pc = "notify" THEN At("tick")
    ELSE Ask("join", boot[n].i + 1,
             Ask(IF n \in Joining THEN "join" ELSE "notify", 1, At("tick")))

\* Store.Join on the leader l: n is added, or is a member already.
Join(n, l) ==
    /\ leaderOf[l] = l
    /\ IF n \in config[l] THEN UNCHANGED raft
       ELSE /\ Leads(l)
            /\ config' = [m \in Hosts |-> IF m \in Followers(l) THEN config[l] \cup {n}
                                                               ELSE config[m]]
            /\ version' = [m \in Hosts |-> IF m \in Followers(l) THEN version[l] + 1
                                                                ELSE version[m]]
            /\ UNCHANGED <<term, leaderOf, founded>>
    /\ UNCHANGED <<up, notifying, bootstrapped, crashes>>

JoinOK(n) ==
    /\ boot[n].pc = "join" /\ boot[n].at \in up
    /\ Join(n, boot[n].at)
    /\ boot' = [boot EXCEPT ![n] = At("done")]
    /\ UNCHANGED lost

\* The client follows the address that a node which is not the leader returns.
JoinRedirected(n) ==
    LET t == boot[n].at IN
    /\ boot[n].pc = "join" /\ t \in up
    /\ leaderOf[t] \notin {NoHost, t}
    /\ boot' = [boot EXCEPT ![n].at = leaderOf[t]]
    /\ UNCHANGED <<up, raft, notifying, bootstrapped, crashes, lost>>

\* The target is down, knows no leader, or cannot commit.
JoinFails(n) ==
    LET t == boot[n].at IN
    /\ boot[n].pc = "join"
    /\ \/ t \notin up
       \/ leaderOf[t] = NoHost
       \/ leaderOf[t] = t /\ n \notin config[t] /\ ~Leads(t)
    /\ boot' = [boot EXCEPT ![n] = Failed(n)]
    /\ UNCHANGED <<up, raft, notifying, bootstrapped, crashes, lost>>

\* Store.Notify on t.  The node whose notification completes the set makes it
\* the configuration, unless Raft has state already.
Notify(t, n) ==
    IF t \in Joining \/ bootstrapped[t] \/ leaderOf[t] # NoHost \/ n \in notifying[t]
    THEN UNCHANGED <<raft, notifying, bootstrapped>>
    ELSE LET known == notifying[t] \cup {n}
             reached == Cardinality(known) >= Expect
         IN  /\ notifying' = [notifying EXCEPT ![t] = known]
             /\ bootstrapped' = [bootstrapped EXCEPT ![t] = reached]
             /\ IF reached /\ version[t] = 0
                THEN /\ config' = [config EXCEPT ![t] = known]
                     /\ version' = [version EXCEPT ![t] = 1]
                     /\ founded' = founded \cup {known}
                ELSE UNCHANGED <<config, version, founded>>
             /\ UNCHANGED <<term, leaderOf>>

NotifyOK(n) ==
    /\ boot[n].pc = "notify" /\ boot[n].at \in up
    /\ Notify(boot[n].at, n)
    /\ boot' = [boot EXCEPT ![n] = Ask("notify", @.i + 1, At("tick"))]
    /\ UNCHANGED <<up, crashes, lost>>

NotifyFails(n) ==
    /\ boot[n].pc = "notify" /\ boot[n].at \notin up
    /\ boot' = [boot EXCEPT ![n] = Failed(n)]
    /\ UNCHANGED <<up, raft, notifying, bootstrapped, crashes, lost>>

\* A call to a node that runs fails on its way, or its answer does.
CallLost(n) ==
    LET t == boot[n].at IN
    /\ boot[n].pc \in {"join", "notify"} /\ t \in up
    /\ lost < MaxLost
    /\ lost' = lost + 1
    /\ \/ UNCHANGED <<up, raft, notifying, bootstrapped, crashes>>
       \/ boot[n].pc = "join" /\ Join(n, t)
       \/ boot[n].pc = "notify" /\ Notify(t, n) /\ UNCHANGED <<up, crashes>>
    /\ boot' = [boot EXCEPT ![n] = Failed(n)]

BootStep(n) ==
    \/ Tick(n) \/ JoinOK(n) \/ JoinRedirected(n) \/ JoinFails(n)
    \/ NotifyOK(n) \/ NotifyFails(n)

BootNext ==
    \/ \E n \in Hosts : \/ Start(n) \/ HostCrash(n) \/ ElectLeader(n) \/ StepDown(n)
                       \/ BootStep(n) \/ CallLost(n)
    \/ \E l, m \in Hosts : Follow(l, m)

BootSpec == BootInit /\ [][BootNext]_bootVars

BootFairness ==
    /\ \A n \in Hosts : /\ WF_bootVars(Start(n)) /\ WF_bootVars(BootStep(n))
                       /\ WF_bootVars(ElectLeader(n)) /\ WF_bootVars(StepDown(n))
    /\ \A l, m \in Hosts : WF_bootVars(Follow(l, m))

FairBootSpec == BootSpec /\ BootFairness

-----------------------------------------------------------------------------
(***************************************************************************)
(* Properties.                                                              *)
(***************************************************************************)

\* Boot returns without an error only when the node is part of the cluster:
\* whoever leads, leads this node too.
BootedIsMember ==
    \A n, l \in Hosts : boot[n].pc = "done" /\ Leads(l) => n \in config[l]

\* The nodes that were bootstrapped were so with one set.  bootstrap-expect is a
\* minimum: when more nodes than that notify each other at the same time, each takes
\* the first it hears of, and the sets may differ.
FoundedAlike == \A F, G \in founded : F = G

\* No two clusters, each with a leader of its own: Boot relies on "some node" that
\* "will then reach the bootstrap-expect value first, form the cluster, beating all
\* other nodes to it".
OneLeads == \A l, m \in Hosts : Leads(l) /\ Leads(m) => l = m

\* There are never two clusters, and every node whose Boot has returned is in the
\* one there is, unless nodes were bootstrapped with different sets (Store.Notify).
OneCluster == FoundedAlike => OneLeads /\ BootedIsMember

\* Under fairness, and with finitely many crashes and lost calls, the nodes end
\* up in one cluster and Boot returns on each of them, unless nodes were
\* bootstrapped with different sets.
AllBoot ==
    <>(~FoundedAlike) \/ <>[](\E l \in Hosts : \A n \in Hosts :
            leaderOf[n] = l /\ boot[n].pc = "done" /\ n \in config[l])
=============================================================================
