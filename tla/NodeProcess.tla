---------------------------- MODULE NodeProcess ----------------------------
(***************************************************************************)
(* The life of the nodes' processes (cmd/rqlited/main.go): a node          *)
(* downloads a backup if it has no data (auto/restore), opens its Store,   *)
(* takes part in Raft, loads the backup through the log if it is the first *)
(* leader it hears of (Store.observe, selfLeaderChange), is ready to serve *)
(* once that is settled, and closes its Store on a signal.                 *)
(*                                                                         *)
(* Raft is external: a log of committed entries, each on a majority, and   *)
(* leaders that have all of it.                                            *)
(***************************************************************************)
EXTENDS Naturals, Sequences, FiniteSets

CONSTANTS
    Node,
    NoNode,
    ObserverChanLen,    \* capacity of Store.observerChan
    MaxWrites, MaxElections, MaxExits      \* bounds

ASSUME ProcessParameters ==
    /\ NoNode \notin Node /\ ObserverChanLen \in Nat \ {0}
    /\ MaxWrites \in Nat /\ MaxElections \in Nat /\ MaxExits \in Nat

VARIABLES
    main,           \* main of each node: down, open, or closed on a signal
    restorePath,    \* Store.restorePath is set
    waiting,        \* readyChans holds a channel that is not closed
    observerChan,   \* the leaders observed, oldest first, each with its election
    observer,       \* the observe goroutine: idle, or the election it loads for
    known,          \* the leader Raft knows on each node
    entries,        \* history: the committed entries
    have,           \* how many of them are in each node's log
    leader, elections,
    exits           \* how often a process ended

processVars == <<main, restorePath, waiting, observerChan, observer, known, entries, have,
                 leader, elections, exits>>
storeVars == <<restorePath, waiting, observerChan, observer, known>>
raftVars == <<entries, have, leader, elections>>

Idle == 0
Up(n) == main[n] = "open"
Quorum == {q \in SUBSET Node : 2 * Cardinality(q) > Cardinality(Node)}
Writes == Cardinality({i \in DOMAIN entries : entries[i].type = "write"})

ProcessInit ==
    /\ main = [n \in Node |-> "down"]
    /\ restorePath = [n \in Node |-> FALSE] /\ waiting = [n \in Node |-> FALSE]
    /\ observerChan = [n \in Node |-> << >>] /\ observer = [n \in Node |-> Idle]
    /\ known = [n \in Node |-> NoNode]
    /\ entries = << >> /\ have = [n \in Node |-> 0]
    /\ leader = NoNode /\ elections = 0 /\ exits = 0

-----------------------------------------------------------------------------
(* main: start.                                                            *)

\* A snapshot, or a command in the log (Log.HasCommand).
HasData(n) == have[n] > 0

\* main runs through Store.Open, which creates the Raft system, starts observe and
\* sets the open flag: until then the node takes part in nothing, and its HTTP
\* service refuses all.
\* With data there is nothing to restore.
StartWithData(n) ==
    /\ main[n] = "down" /\ HasData(n)
    /\ main' = [main EXCEPT ![n] = "open"]
    /\ UNCHANGED <<storeVars, raftVars, exits>>

\* The Store is not ready until a restore was attempted.
SetRestorePath(n) ==
    /\ restorePath' = [restorePath EXCEPT ![n] = TRUE]
    /\ waiting' = [waiting EXCEPT ![n] = TRUE]

\* Without, the backup is downloaded.
StartDownloaded(n) ==
    /\ main[n] = "down" /\ ~HasData(n)
    /\ main' = [main EXCEPT ![n] = "open"]
    /\ SetRestorePath(n)
    /\ UNCHANGED <<observerChan, observer, known, raftVars, exits>>

\* A download that fails leaves the node without a backup, if it is configured to
\* go on; otherwise it ends the process (it stays down).
StartNoDownload(n) ==
    /\ main[n] = "down" /\ ~HasData(n)
    /\ main' = [main EXCEPT ![n] = "open"]
    /\ UNCHANGED <<storeVars, raftVars, exits>>

-----------------------------------------------------------------------------
(* Raft.                                                                   *)

\* A LeaderObservation is dropped when the channel is full.
Observed(n, l) ==
    /\ known' = [known EXCEPT ![n] = l]
    /\ observerChan' = [observerChan EXCEPT ![n] =
          IF Len(@) < ObserverChanLen THEN Append(@, [id |-> l, election |-> elections']) ELSE @]

Elect(n) ==
    /\ (elections < MaxElections \/ leader = NoNode) /\ Up(n) /\ leader # n
    /\ have[n] = Len(entries)
    /\ \E q \in Quorum : \A m \in q : Up(m)
    /\ leader' = n /\ elections' = elections + 1
    /\ Observed(n, n)
    /\ UNCHANGED <<main, restorePath, waiting, observer, entries, have, exits>>

Learn(n) ==
    /\ Up(n) /\ leader # NoNode /\ Up(leader) /\ known[n] # leader
    /\ UNCHANGED raftVars /\ Observed(n, leader)
    /\ UNCHANGED <<main, restorePath, waiting, observer, exits>>

\* No heartbeat came in time: the leader is unknown, which is an observation too.
LoseLeader(n) ==
    /\ Up(n) /\ known[n] # NoNode /\ known[n] # leader
    /\ UNCHANGED raftVars /\ Observed(n, NoNode)
    /\ UNCHANGED <<main, restorePath, waiting, observer, exits>>

Replicate(n) ==
    /\ Up(n) /\ leader # NoNode /\ known[n] = leader /\ have[n] < Len(entries)
    /\ have' = [have EXCEPT ![n] = Len(entries)]
    /\ UNCHANGED <<main, storeVars, entries, leader, elections, exits>>

\* The leader n commits an entry with those that follow it.
Commits(n, e) ==
    /\ leader = n
    /\ \E q \in Quorum :
          /\ n \in q /\ \A m \in q : Up(m) /\ known[m] = n
          /\ entries' = Append(entries, e)
          /\ have' = [m \in Node |-> IF m \in q THEN Len(entries) + 1 ELSE have[m]]
    /\ UNCHANGED <<leader, elections>>

-----------------------------------------------------------------------------
(* The Store.                                                              *)

Ready(n) == main[n] = "open" /\ ~waiting[n] /\ known[n] # NoNode

\* A node asks itself without a connection, and another whose process serves.
GetNodeMeta(n) == known[n] = n \/ Up(known[n])

\* /readyz answers OK: there is a leader, it can be contacted and the Store is
\* ready. With sync the handler also waits, until a timeout, for the node's commit
\* index to reach the leader's: logs are not replicated step by step here.
handleReadyz(n) == known[n] # NoNode /\ GetNodeMeta(n) /\ Ready(n)

\* A client's change, a load say, acknowledged.
Write(n) ==
    /\ Ready(n) /\ Writes < MaxWrites
    /\ Commits(n, [type |-> "write", late |-> FALSE])
    /\ UNCHANGED <<main, storeVars, exits>>

\* The one attempt is over: the file is removed, the channel closed.
RestoreDone(n) ==
    /\ restorePath' = [restorePath EXCEPT ![n] = FALSE]
    /\ waiting' = [waiting EXCEPT ![n] = FALSE]
    /\ observer' = [observer EXCEPT ![n] = Idle]

\* Mutant: leadership is looked up when the observation is handled.
LeaderChange_Now(n) ==
    /\ Up(n) /\ observer[n] = Idle /\ observerChan[n] # << >>
    /\ observerChan' = [observerChan EXCEPT ![n] = Tail(@)]
    /\ IF restorePath[n] /\ leader = n
       THEN /\ observer' = [observer EXCEPT ![n] = elections]
            /\ UNCHANGED <<restorePath, waiting>>
       ELSE RestoreDone(n)
    /\ UNCHANGED <<main, known, raftVars, exits>>

\* Mutant: nobody closes the channel when another node is the leader.
LeaderChange_NotClosed(n) ==
    /\ Up(n) /\ observer[n] = Idle /\ observerChan[n] # << >>
    /\ observerChan' = [observerChan EXCEPT ![n] = Tail(@)]
    /\ observer' = [observer EXCEPT ![n] =
                       IF restorePath[n] /\ Head(observerChan[n]).id = n
                       THEN Head(observerChan[n]).election ELSE Idle]
    /\ UNCHANGED <<restorePath, waiting>>
    /\ UNCHANGED <<main, known, raftVars, exits>>

\* observe takes an observation, and selfLeaderChange does what it says: the
\* leader starts to load the backup, any other node gives its copy up.
LeaderChange(n) ==
    /\ Up(n) /\ observer[n] = Idle /\ observerChan[n] # << >>
    /\ observerChan' = [observerChan EXCEPT ![n] = Tail(@)]
    /\ IF restorePath[n] /\ Head(observerChan[n]).id = n
       THEN /\ observer' = [observer EXCEPT ![n] = Head(observerChan[n]).election]
            /\ UNCHANGED <<restorePath, waiting>>
       ELSE RestoreDone(n)
    /\ UNCHANGED <<main, known, raftVars, exits>>

\* load: an entry through the log, or an error.
Load(n, e) == Commits(n, e) \/ UNCHANGED raftVars

\* installRestore reads the file and sends a LOAD through the log, or fails: the
\* file cannot be read, the node is no longer the leader.
InstallRestore(n) ==
    /\ Up(n) /\ observer[n] # Idle
    /\ Load(n, [type |-> "load", late |-> observer[n] # elections])
    /\ RestoreDone(n)
    /\ UNCHANGED <<main, observerChan, known, exits>>

-----------------------------------------------------------------------------
(* main: shutdown.                                                         *)

\* What is gone with the process, or with Store.Close.
StoreClosed(n) ==
    /\ restorePath' = [restorePath EXCEPT ![n] = FALSE]
    /\ waiting' = [waiting EXCEPT ![n] = FALSE]
    /\ observerChan' = [observerChan EXCEPT ![n] = << >>]
    /\ observer' = [observer EXCEPT ![n] = Idle]
    /\ known' = [known EXCEPT ![n] = NoNode]

\* A signal ends the wait in main: the services are closed, and Close waits for the
\* observe goroutine, whose load fails once the Raft system has stopped.
Close(n) ==
    /\ Up(n) /\ exits < MaxExits
    /\ main' = [main EXCEPT ![n] = "closed"]
    /\ StoreClosed(n)
    /\ leader' = IF leader = n THEN NoNode ELSE leader
    /\ exits' = exits + 1
    /\ UNCHANGED <<entries, have, elections>>

Crash(n) ==
    /\ Up(n) /\ exits < MaxExits
    /\ main' = [main EXCEPT ![n] = "down"]
    /\ StoreClosed(n)
    /\ leader' = IF leader = n THEN NoNode ELSE leader
    /\ exits' = exits + 1
    /\ UNCHANGED <<entries, have, elections>>

MainStep(n) ==
    StartWithData(n) \/ StartDownloaded(n) \/ StartNoDownload(n)

ProcessNext ==
    \E n \in Node :
       \/ MainStep(n) \/ Elect(n) \/ Learn(n) \/ LoseLeader(n) \/ Replicate(n) \/ Write(n)
       \/ LeaderChange(n) \/ InstallRestore(n) \/ Close(n) \/ Crash(n)

\* main and observe run, and Raft elects leaders and keeps them known.
ProcessFairness ==
    /\ \A n \in Node : WF_processVars(MainStep(n)) /\ WF_processVars(LeaderChange(n) \/ InstallRestore(n))
    /\ WF_processVars(\E n \in Node : leader = NoNode /\ Elect(n))
    /\ WF_processVars(\E n \in Node : Learn(n) \/ Replicate(n))

ProcessSpec == ProcessInit /\ [][ProcessNext]_processVars /\ ProcessFairness

-----------------------------------------------------------------------------
(***************************************************************************)
(* Properties.                                                             *)
(***************************************************************************)
\* A backup is only ever loaded into an empty database: no restore, on whichever
\* node and after however many crashes and elections, replaces a change that was
\* committed before - unless its node lost the leadership after it was observed
\* and has it again when the load is sent.
RestoresIntoEmpty ==
    \A i \in DOMAIN entries : entries[i].type = "load" /\ ~entries[i].late => i = 1

\* A node that stays open comes to answer /readyz with OK, whatever became of its
\* backup and of the leaders it heard of: the channel its readiness waits for is
\* closed whether it leads, follows or fails, and it learns of a leader that
\* answers.
BecomesReady ==
    \A n \in Node : main[n] = "open" ~> (handleReadyz(n) \/ main[n] # "open")
=============================================================================
