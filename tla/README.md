# A TLA+ model of rqlite

rqlite is a distributed relational database: SQLite as the state machine of a
Raft log. The Raft library and SQLite are taken as they are; what is modelled
here is rqlite's own code around them, the parts where processes, goroutines,
crashes and late messages meet.

Every module is written from the Go source, and `PROJECT.json` (`map`) gives the
lines of every definition. Paths below are relative to `src/`.

## 1. Inventory

### 1.1 The parts, their state and their operations

| Part | Source | State | Operations |
|---|---|---|---|
| Snapshot Store | `snapshot/store.go`, `sink.go`, `state.go`, `snapshot.go` | one directory per snapshot (meta.json), one database file, WAL files, `.tmp` directories, the flag file FULL_NEEDED; an in-memory lock | `NewStore`/`check`, `Create`, `Sink.Open/Write/Close/Cancel`, `Open`, `List`, `Reap`, `SetFullNeeded` |
| Locks and targets | `rsync/*.go` | reader count and writer bit (MultiRSW), compare-and-swap gate, targets waited for (ReadyTarget), readiness channels | `BeginRead`, `BeginWrite`, `Begin`, `Signal`, `Subscribe` ... |
| Node: FSM and snapshots | `store/store.go`, `store/fsm.go` | the SQLite file and its WAL, the log indexes applied, dbModifiedTime | `fsmApply`, `fsmSnapshot`, `Persist`, `Release`, `fsmRestore` |
| SQLite access and commands | `db/db.go`, `db/swappable_db.go`, `command/sql/processor.go`, `store/command_processor.go` | the one read-write connection and its transaction | `Execute`, `Query`, `Request`, `Process` of the entries in the log, `Dump`, `Backup`, `Swap` |
| Store: consensus front | `store/store.go` | strongReadTerm, fsmIdx, dbAppliedIdx | `Execute`, `Query`, `Request`, `VerifyLeader`, `WaitForFSMIndex` |
| Forming a cluster | `cluster/bootstrap.go`, `join.go`, `disco/service.go`, `cmd/rqlited/main.go` | notifyingNodes, bootstrapped; the registry | `Boot`, `Notify`, `Join`, `Register`, `StartReporting` |
| Membership | `store/store.go`, `cluster/remove.go` | Raft's configuration | `Join`, `Remove`, reaping in `observe`, `Remover.Do` |
| Cluster service and client | `cluster/service.go`, `client.go`, `tcp/pool/*.go` | pooled connections, one request at a time on each | `Execute`, `Query`, `Backup`, `Load` ... sent to another node |
| HTTP service | `http/service.go` and helpers | the queue of writes, sequence numbers | `/db/execute`, `/db/query`, `/db/request`, `/db/backup`, `/db/load`, `/boot`, `/remove`, `/readyz`, forwarding to the leader |
| Batching queue | `queue/queue.go` | two channels, a batch, a timer, a sequence number | `Write`, `Flush`, `Close`, the goroutine `run` |
| Change data capture | `cdc/service.go`, `db/cdc.go` | a channel, a queue of events, the high watermark | commit hooks, `Start`, `Stop`, the loops |
| Automatic backup | `auto/backup`, `store/provider.go`, `aws/s3.go` | the last index uploaded | the upload loop, `Provide`, `Store.Backup` |
| Process and automatic restore | `cmd/rqlited/main.go`, `auto/restore` | restorePath, the observer channel | start, first leader observation, load, shutdown |
| Start from disk | `store/store.go` (`Open`), `store/state.go`, `snapshot/upgrader.go`, `log/log.go` | directories of two formats, recovery.db, peers.json | `HasData`, `Upgrade7To8`, `RecoverNode`, `Open` |
| Transport | `tcp/mux.go`, `tcp/dialer.go`, `store/transport.go` | handlers per header byte | `Serve`, `Listen`, `handleConn`, `Dial` |
| WAL and chunks | `db/wal/*.go`, `command/chunking/*.go` | readers over files, Dechunkers | compacting scan, `WriteTo`, chunk and dechunk |
| The rest | auth, TLS, encoding, archives, extensions, shell, load generator | | see section 7 |

### 1.2 How they interact

A client calls the HTTP service of any node. The service calls the Store; when
that answers ErrNotLeader it asks the Store for the leader's address and either
redirects the client or forwards the request over a pooled TCP connection to the
cluster service of the leader, which calls its own Store. Queued writes are first
collected by the batching queue, and one goroutine (`runQueue`) executes the
batches. The Store hands commands to Raft; Raft calls back `fsmApply` on every
node, which runs the command on SQLite's read-write connection, `fsmSnapshot`
when the log has grown, and `fsmRestore` when the leader's snapshot is to be
installed. `fsmApply` and `fsmSnapshot` never overlap, but `Persist` runs in
another goroutine than `fsmApply`, and the Sink it writes to shares the Snapshot
Store with readers that send a snapshot to a follower. A boot (`/boot`) goes past
the log: the goroutine of the request swaps the database file itself. A commit
calls the hooks of change data capture, which feed a second batching queue. The
uploader copies the main database file beside all of this, kept from snapshots
by the compare-and-swap gate. A new node runs `Bootstrapper.Boot`, which calls
Join and Notify of the nodes it was told of, while those do the same, or asks a
registry whom to join.

### 1.3 What is hard, and what correctness means

| Part | Hard behaviours | Correctness |
|---|---|---|
| Snapshot Store | a crash or I/O error between two system calls; recovery that itself crashes; readers beside a writer; an older snapshot that arrives late | the latest snapshot is the old or the new one, never a mixture; readers see a frozen snapshot; the Store accepts snapshots again |
| Node | the WAL is truncated before the snapshot exists; LOAD while a snapshot is persisted; restart from snapshot and log | database and snapshot are exactly a prefix of the committed log; the log keeps what the snapshot lacks |
| Commands | failing statements, a client's own BEGIN, timeouts by each node's clock, a restart amid a transaction | replicas agree; a failed transaction leaves nothing; every change is noticed |
| Consensus front | a leader deposed without knowing it; a leader elected a moment ago; term, state and commit index read one after the other | a strong or linearizable answer shows everything acknowledged before it was asked for |
| Forming a cluster | several nodes bootstrap or register at once; answers lost; a crash between registration, bootstrap and join | one cluster; a node that says it is done is a member; every node gets there |
| Membership | a join of several Raft calls; a request that outlives its client; reaping of a node that is back | members stay, removed nodes stay out, who asks is answered |
| Queue, queued writes | timer against limit against close; an attempt that failed but was applied, or arrives late; shutdown | once, in order, eventually; acknowledged after a wait means applied |
| Cluster client | a timeout that races the answer; a connection reused; a retry of what was done | an answer belongs to its request; what is reported done is done |
| Change data capture | a post that was taken and not answered, or sent again; leadership that comes and goes; Stop amid a batch | in order, a batch perhaps more than once; the watermark never passes an event that waits |
| Automatic backup | a snapshot, LOAD or failed copy beside the copy; two leaders that upload | what is stored is one version; the last change gets there |
| Start and restore | a death between any two steps of upgrade and recovery; a late observation of the first leader | an open node has exactly the log; a backup is loaded into an empty database only; nodes become ready |
| Boot, chunks, WAL | a swap beside snapshots, copies and joins; a restart amid a stream; spilled and rolled-back frames | the file survives; loads are whole and agree; compaction changes nothing |
| Transport | a channel closed under a sender; handlers that wait for listeners | no send on a closed channel; closing ends |

The places are listed under `hazards` in `PROJECT.json`, each at its line.

## 2. Modules

    AtomicSnapshots <--refines-- SnapshotStore --extended by--> NodeSnapshot
                                      |                             |
                           SnapshotStore_proofs --------> NodeSnapshot_proofs
    BatchedFifo     <--refines-- Queue --extended by--> QueuedWrites, Cdc
                                                                |
                                                          Queue_proofs
    Consensus --extended by--> Reads --> MCReads --+
                                 |   Forwarding ---+--> MCRequests
                            Reads_proofs   |
                                  Forwarding_proofs
    Bootstrap, Discovery, Transport --> MCCluster
    Database --> MCDatabase --extended by--> MCData
    NodeOpen, WalCompaction, Boot, Chunking --> MCData
    Membership --> MCMembership
    AutoBackup, NodeProcess
    Ordered --extended by--> WalCompaction, Boot
    Bootstrap, Discovery, Transport, Membership, NodeProcess --> Cluster_proofs
    AutoBackup, NodeOpen, Chunking --> Data_proofs
    Database, WalCompaction, Boot --> Database_proofs

`MCRequests`, `MCCluster` and `MCData` put modules that do not interact into one
run: a variable that is set once, `path` or `part`, says which of them a behaviour
is about, and the others stand still. Their fairness conditions are those of the
parts, each guarded by its part.

* **SnapshotStore** (snapshot/, rsync/multir_singlew.go). The directory is state
  that survives (`dir`, `meta`, `db`, `wal`, `fullNeeded`); the lock and the
  threads' positions (`sink`, `rdr`) do not. Each system call of `Sink.Close`, `Reap` and
  `check` is one action, so `Crash` can fall between any two, also during the
  recovery. `IOError` lets one of the stages in `Failing` return an error. A
  database is abstracted to an interval of versions: a checkpoint that was
  interrupted leaves pages of several, a whole database has one.
* **AtomicSnapshots**. What the Store promises: a latest snapshot that only ever
  moves, in one step, to a newer one. `SnapshotStore!RefinesAtomic` is the
  refinement.
* **NodeSnapshot** (store/store.go, store/fsm.go). Extends SnapshotStore by the
  live database and its WAL, the log, `dbModifiedTime`, and the steps of Raft that
  drive it: `fsmApply` (commands and LOAD), `fsmSnapshot`, a failing automatic
  VACUUM, `Persist`, compaction of the log, a snapshot from the leader, restart. The
  writer threads are the local snapshot (`"take"`) and the leader's
  (`"install"`). `trouble` holds the kinds of failure of a behaviour, chosen once.
* **BatchedFifo** and **Queue** (queue/queue.go). The abstract queue accepts
  elements and hands them over in order, in batches; the detailed one has the
  mutex held over a blocking send, the two channels, the timer, Flush and Close.
* **QueuedWrites** (http/service.go). Extends Queue by the clients in
  `queuedExecute`, the goroutine `runQueue` with its local attempt, its forwarded
  attempt and its endless retry, the store of the leader, and `Service.Close`.
* **Cdc** (cdc/service.go, db/cdc.go). Extends Queue too: the hooks that collect
  the changes of an entry's commits, the channel, the goroutine that moves events
  into the queue, the one that posts batches with its retries, the one that stores
  the high watermark through the log, and an endpoint that may take a batch and
  not answer, or answer with an error. The attempts of a batch share one request, whose
  body the HTTP transport may rewind (`http.NewRequest` sets GetBody), so that a later
  attempt may deliver it once more or fail without sending anything.
* **Consensus**. The part of Raft the Store relies on, marked external: one log,
  terms, elections, commit indexes and what each node knows of them, a leader
  that may be deposed without knowing it, restart.
* **Reads** (store/store.go). `Execute`, `Query` at every level and `Request` as
  sequences of the reads and calls the code makes, in the code's order, each step
  interleaved with everything in Consensus.
* **Forwarding** (http/service.go, cluster/client.go, cluster/service.go,
  tcp/pool/). The handlers of statements, backup, load and removal: the local
  Store, then a redirect or a call of the leader over a pooled connection, with
  its deadline, its retries and, for a backup, its stream; at the other end
  `handleConn`. A connection is two queues of whole messages with two ends that
  close separately, so a request whose client gave up may still be carried out.
* **Bootstrap** (cluster/bootstrap.go, join.go, client.go, store/store.go,
  main.go). `Boot` rounds, Join with redirects, Notify, the bootstrap itself (with the
  sets it was called with as the history `founded`),
  elections, stepping down, restart of a node, lost answers. A host that follows
  a leader does so in a term, as in Raft: one that last heard of the leader in an
  earlier term does not count for its majority.
* **Discovery** (disco/service.go, main.go). `Register` with its check-and-set,
  the bootstrap of the node that won, the loop of joins of the others, reports of
  the leader; the registry is external.
* **Transport** (tcp/mux.go, tcp/dialer.go, store/transport.go). `Serve`, the
  handler of each connection, registration of the services and the start of their
  accept loops in main's order (the cluster service's, then Raft's in `Store.Open`), and
  the end: the network listener is closed, the channels after the last handler; the cluster
  service's loop ends with its channel, Raft's tries again until its transport is closed
  by `Store.Close`.
* **Membership** (store/store.go, cluster/remove.go). `Join` as up to three calls of
  Raft, between which anything may be committed and the leader may change, a join
  whose client gave up, reaping on failed heartbeats, a node that removes itself.
* **Database** (db/db.go, command/sql/processor.go, store/command_processor.go).
  Every replica runs the same log of requests; a statement is known by what SQLite
  makes of it (a write, one that fails, one that cannot be prepared, BEGIN ...), a
  database is the sequence of its rows, each with the entry it is of, and the
  connection keeps an open transaction from one request to the next. A snapshot that
  has something to checkpoint is refused in a transaction that has written; one with an
  empty WAL is taken, and a node restarted from it has lost the transaction (`cut`). The statements
  of a request are run by a recursive function (`Ran`), about which the prover can reason.
* **NodeOpen** (store/store.go, store/state.go, snapshot/upgrader.go). The start of
  a node from any directory of version 7 or 8, with or without a peers file, with
  a death between any two steps. A database is the sequence of entries applied.
* **WalCompaction** (db/wal/, db/db.go `Checkpoint`). SQLite (external) writes, spills,
  rolls back and overwrites frames; a checkpoint that is too busy to truncate the WAL fails
  the snapshot and lets SQLite start the WAL again from its beginning, with nothing that
  asks for a full snapshot; the scanner reads its frames and the writer makes
  the compacted WAL, which is applied to the Snapshot Store's copy and, as `rebuilt`, to the
  file that the WAL was begun with. Its frames are
  sorted by their place with `InOrder` of **Ordered**, which Boot uses for the writes
  of a stretch of the log.
* **Boot** (store/store.go `ReadFrom`, http/service.go `handleBoot`,
  db/swappable_db.go, db/db.go). The boot's steps beside `fsmApply`, Raft's own
  snapshots, dumps and backups, a node that joins, a crash.
* **Chunking** (command/chunking/, store/command_processor.go). Files cut into
  numbered chunks, streams interleaved in the log, Dechunkers on each replica,
  restarts from snapshots that hold nothing of them. This version applies such
  entries and writes none.
* **AutoBackup** (auto/backup, store/provider.go, store/store.go `Backup`,
  rsync/cas.go). Uploaders of two nodes on one object. A file is a pair of pages,
  so that a copy beside a checkpoint can be mixed.
* **NodeProcess** (cmd/rqlited/main.go, auto/restore, store/store.go). Nodes that
  download a backup, open, observe leaders through a bounded channel, load, become
  ready, close or crash.

## 3. Runs

| Run | Instance | Properties |
|---|---|---|
| `store` | 2 writers, 1 reader, 3 snapshots, 2 crashes, 1 I/O error | `SnapshotsAreWhole`: what a restart or a reader finds is whole, and `check` refuses only a torn meta.json; `RefinesAtomic`; `ReadersFreezeStore`; `StoreInv`: threads exclude each other and find the files they need; `Available`: the Store comes back |
| `node_snapshots` | 3 entries, 3 snapshots, 1 crash or 1 I/O error | `LiveIsExact`, `SnapshotIsExact`, `NothingMissing` |
| `queued_writes` | 2 clients, 3 writes, 2 failed attempts | `QueueInv`, `RefinesFifo`, `WaitedIsApplied`, `FirstInOrder`, `AcceptedIsApplied`, `ShutdownEnds` |
| `reads` | 3 nodes, a writer and a reader, 2 terms, 4 entries, from a leader that serves | `Linearizable`, `ReadsInv` |
| `requests` | by a Store: 3 nodes, 1 client, every level, 2 entries, a restart, a configuration change, from the first election; forwarded: 2 requests of any kind, 2 nodes, 2 connections, 1 retry, 1 change of leader or restart | `AnswerIsOwn`, `ReportedIsDone` |
| `reads_request` (violation) | as `reads`, 1 client | `RequestLinearizable` |
| `cluster` | bootstrap: 2 nodes that bootstrap, 1 that joins, 1 crash, 1 lost call; discovery: 2 voters, 1 non-voter, 2 troubles; network: 3 connections, 2 services | `OneCluster`, `BootstrapEnds`, `OneDiscoCluster`, `DiscoveryEnds`, `NoSendOnClosed`, `NetworkEnds` |
| `membership` | a seed, a node at two addresses, a read-only node at the first of them, 2 leaders, 1 join that outlives its client, 1 reaping | `MembershipIsAsAsked`, `Rejoins` |
| `data` | database: 2 replicas, 18 requests, 3 entries, 1 restart; open: 3 entries, 2 deaths; WAL: 2 pages, 5 frames; boot: 4 entries, 1 crash; chunks: 2 streams, 4 entries, 1 restore | `ReplicasAgree`, `FailedTransactionLeavesNothing`, `OpenedIsExact`, `CompactedIsExact`, `BootIsAsLoaded`, `ChunkedLoadIsExact` |
| `cdc` | 2 entries of up to 2 commits, a channel of 1, 2 attempts, 2 changes of leadership | `DeliveredInOrder`, `EveryEventSettles`, `StopReturns` |
| `autobackup` | 2 nodes, 2 changes, 2 moves of leadership, 1 restart, 1 failure | `StoredIsWhole`, `LastChangeIsStored` |
| `node_process` | 3 nodes, an observer channel of 1, 1 write, 2 elections, 1 exit | `RestoresIntoEmpty`, `BecomesReady` |

A property that holds but for a case the code does not handle names that case in
its definition and its comment; section 6 says what happens in it.

### Bounds

* `store`: two snapshots are needed for an incremental one and a third for Reap
  and for a late, older one; two crashes let the recovery crash; two writers are
  all there can be (Raft's snapshot goroutine and the one that installs).
* `node_snapshots`: three entries give a full snapshot, an incremental one on top
  of it and an entry no snapshot covers. A behaviour has either refused, failed and
  interrupted snapshots and a crash, or busy checkpoints and I/O errors, since a busy
  checkpoint or a failed move followed by a crash does lose data (section 6).
* `queued_writes`: more writes than a channel and a batch hold, so that a writer
  blocks; two failures, so that a retry fails as well. Nothing but tests calls
  `Flush`, so it has no part in the run; the proofs cover it.
* `reads`: two elections and four entries let a deposed leader, a new leader
  without an entry of its own term and one with it coexist. The run starts from
  a leader that has served a strong read (`ServingInit`, a state `ReadsSpec`
  reaches); `requests`, which takes every action of the Store
  once more, starts from nothing with a shorter log. Nodes are
  interchangeable, apart from the first leader in the runs from `ServingInit`,
  and so the symmetry sets leave it out.
* `requests`, forwarded: two requests and a pool of one make the second use a
  connection of the first, a fresh one, or find the pool full; requests are
  interchangeable and so are connections. Compressed backups are left out.
* `cluster`: `-bootstrap-expect` is the number of nodes that bootstrap. More
  than that is section 6. A third connection finds a service that has taken one
  and one that was never taken.
* `membership`: two leaders, so that one is lost between the calls of a join.
* `data`: three requests make a transaction span requests with something after
  it; two deaths let a repaired start die again; five frames hold a commit, a spilled
  and rolled-back transaction and one that overwrites it in part, and two pages a database that grows; a file of two
  whole chunks has the empty third one.
* `cdc`: two entries of two commits fill the channel, the queue and a batch; the second
  event of an entry finds a channel of one free or full, and is then dropped.
* `autobackup`: two changes and two moves of leadership let a node that is behind
  overwrite what the other has uploaded.
* `node_process`: a channel of one drops the second observation. In the code it
  holds 50; the number only matters for how soon one is dropped.

Every counter that would grow without end has a bound in the guard of the action
that raises it, and the bound is a constant of the module.
Deadlock is not checked, since the bounds let every system stop.

### Fairness

* `FairSpec` (SnapshotStore): the Raft library closes or cancels every sink and
  closes every snapshot it opened, and a goroutine that can run does. Nothing
  is assumed of crashes and errors beyond their number.
* `FairWritesSpec`: weak fairness of the goroutines' steps; strong fairness where
  a Go `select` has several ready cases, because it picks at random (the `done`
  case would otherwise be ignored for ever). Not every attempt fails
  (`MaxFailures`): a cluster without a leader for ever applies nothing.
* `BootFairness`: each node's Boot loop runs, Raft elects among nodes that can
  form a quorum, crashed nodes are started again. `DiscoFairness`: the steps of
  createCluster and of the reporting goroutine; Raft has a leader in the end.
  `TransportFairness`: goroutines run, services accept while they are open, and a
  connection's header arrives or the read of it ends.
* `MemberFairness`: a node that asks asks again, and the Store goes on with a join.
* `CdcFairness`: the goroutines run; a post is answered or fails. A goroutine may
  prefer an event to the end of the service, never for ever, since there is only a
  bounded number.
* `BackupFairness`: entries are applied, snapshots end, uploaders run.
* `ProcessFairness`: main and observe run, Raft elects leaders and makes them
  known.
* `Reads`, `Forwarding`, `Database` and the modules of `data` have safety only.

## 4. Proofs

Every theorem holds for every value of the constants, under the assumptions
that are named in the component modules and that TLC evaluates on every run:
bounds are naturals, capacities at least one, the sets of threads, connections or
nodes that are counted are finite, a value for "nobody" is none of them, any two
quorums intersect (`QuorumAssumption`), the configuration at the start has a voter
(`MembershipParameters`). Two results have a condition more, which is part of
their statement: `ErrorsElsewhere` and `Sound`, below. One has a condition on the
constants, `PlainRequests`, which an MC module assumes of its instance, so that TLC
evaluates it. Section 6 says what happens without them.

| Theorem | Statement | Source of the difficulty |
|---|---|---|
| `StoreInvariant`, `TypeCorrect` | `Spec => []StoreInv`, `[]TypeOK` | a crash or error between any two system calls |
| `StoreFrozenUnderReaders` | `Spec => ReadersFreezeStore` | readers beside a writer |
| `SnapshotsStayWhole` | `ErrorsElsewhere => (Spec => []SnapshotsAreWhole)` | recovery that crashes too |
| `StoreImplementsAtomic` | `ErrorsElsewhere => (Spec => RefinesAtomic)` | refinement |
| `ServedIsExact` | `NodeSpec => [](Sound => LiveIsExact)` | Persist beside fsmApply, install beside take |
| `SnapshotsAreExact` | `NodeSpec => []SnapshotIsExact` | sums of incremental snapshots |
| `NothingIsMissing` | `NodeSpec => [](Sound => NothingMissing)` | a WAL truncated before its snapshot exists |
| `QueueInvariance`, `QueueImplementsFifo` | `QueueSpec => []QueueInv`, `RefinesFifo` | channels, timer, Close |
| `WaitedWritesAreApplied` | `WritesSpec => []WaitedIsApplied` | retries beside attempts that were given up on |
| `WritesFirstInOrder` | `WritesSpec => []FirstInOrder` | a given-up request that is applied late |
| `EventsDeliveredInOrder` | `CdcSpec => []DeliveredInOrder` | batches that are taken and sent again, lost answers, lost leadership |
| `ReadsAreLinearizable` | `ReadsSpec => []Linearizable` | term, state and commit index read one after the other |
| `StoreStateIsSound` | `ReadsSpec => []ReadsInv` | a strong read that ends in a later term |
| `AnswersAreOwn`, `ReportsAreTrue` | `ForwardingSpec => []AnswerIsOwn`, `[]ReportedIsDone` | reused connections, retries, late answers |
| `DiscoveryFoundsOneCluster` | `DiscoSpec => []OneDiscoCluster` | lost answers of the check-and-set |
| `MuxNeverSendsOnClosed` | `TransportSpec => []NoSendOnClosed` | closing under handlers |
| `MembersAreAsAsked` | `MemberSpec => []MembershipIsAsAsked` | joins of several calls, a join that outlives its client |
| `RestoreFindsNothing` | `ProcessSpec => []RestoresIntoEmpty` | observations that are late or dropped |
| `StoredBackupIsWhole` | `BackupSpec => []StoredIsWhole` | checkpoint, LOAD and failed copies beside the copy |
| `OpenedNodeIsExact` | `OpenSpec => []OpenedIsExact` | a death between any two steps of upgrade and recovery |
| `ChunkedLoads` | `ChunkSpec => []ChunkedLoadIsExact` | interleaved streams, snapshots amid a stream |
| `BootstrapFoundsOneCluster` | `BootSpec => []OneCluster` | several nodes reach bootstrap-expect at once; configurations that change while leaders come and go |
| `CompactionIsExact` | `WalSpec => []CompactedIsExact` | spilled, rolled-back and overwritten frames that no checksum tells apart |
| `BootKeepsTheFile` | `BootSpec => []BootIsAsLoaded` | a swap outside the log, beside snapshots, a join, copies and crashes |
| `FailedTransactionsLeaveNothing` | `DatabaseSpec => FailedTransactionLeavesNothing` | any number of statements, some of which fail without ending the transaction |
| `ReplicasAgreeAndNotice` | `PlainRequests` implies `DatabaseSpec => []ReplicasAgree` | transactions that span requests, restarts amid them |

**SnapshotStore_proofs.** `Inv` is the conjunction of `TypeOK`, `LockDiscipline` and
`Phases`. None is inductive alone: that a stage finds the directories it needs
(`Phases`) depends on there being one writer (`LockDiscipline`), which depends on
the thread's position being one in which it holds the lock. The property of
frozen snapshots is about steps: each action that changes the directory needs the writer bit,
and the writer bit excludes a reader. Everything is proved for a caller of which
less is assumed than SnapshotStore's own `Next` does (`AnyNext`: Sinks created with any
index, written and closed at any moment), so that the same lemmas apply to the node.

On top of `Inv`, `Wholeness` says what the newest snapshot consists of in
every stage (its own database; an image and the WAL that completes it; or nothing yet,
and the database is still that of the one before it), that older ones have their
database or have handed it on, and that what a Sink was given still fits the newest
snapshot when it is closed. The middle form needs intervals of versions: a
checkpoint that crashed has copied some pages, and replaying the same WAL
completes it. The refinement maps the latest snapshot to the newest directory, so that the
rename in `Sink.Close` is the one step that is not a stutter. `ErrorsElsewhere` excludes
I/O errors at `move`, `replay` and `replayed`; with one there both results are
false (section 6). Crashes are allowed at every step.

**NodeSnapshot_proofs.** `NodeInv` adds to these, for the node: the database is the log up to
the applied index; each snapshot stands for the log up to its own; what
`fsmSnapshot` has handed over is relative to the newest snapshot unless a later one has
been installed meanwhile; the WAL reaches back to the newest snapshot or a full one
is due; the log begins no later than the newest snapshot ends. The node's calls of the Store are
shown to be steps of `AnyNext`, which brings in what is proved of the Store. `Sound`
says that the behaviour has no busy checkpoint and no I/O error of the Sink, while
refused, failed and interrupted snapshots and any number of crashes are allowed. After such
an error a snapshot need not be exact (section 6), which is why `SnapshotIsExact` has the
condition in its definition; `LiveIsExact` and the gap in the log are checked by the run without it.

**Queue_proofs.** `InOrder` says the received elements, the batch in hand, the channels
and the element a writer holds are one sequence 1, 2, 3...; it needs `SeqLock` (the
mutex is held from number to send). The refinement maps the abstract queue to
that concatenation: an abstract accept is the send, an abstract transmission is
the consumer's receive, and every other step stutters.

For QueuedWrites, whose `runQueue` is that consumer, an element is handled when it was applied or
carries no statement. `RequestInHand` says that all elements received before the
request in hand are handled and that the request has the ones that follow them;
`OrphansContinue` that a request which was given up on, and may be applied at any later
moment, has the elements behind some number that is handled: applied once more it adds
nothing out of order. A client that waits is told only of elements before the
request in hand (`ToldIsPassed`).

For Cdc, the events taken from the channel followed by those in it are one stream
in the order of entries and commits (`StreamInOrder`), the queue holds the
numbers of its elements (`Aligned`, with `QueueInv`), and the batch in hand is
the piece of the stream last received (`BatchInHand`). Of the batches that were posted
a later one is an earlier one once more or is all after it, and the batch in hand is in
the same relation to all of them, so that it may be posted any number of times; what
no batch has yet comes after all of them (`PostedInOrder`). Both watermarks are behind every
event with an index from the batch in hand on. The changes of one entry are ordered since
each commit has those after the commit before it, which is shown for the three
kinds of entries the model applies.

**Reads_proofs.** The argument is that of Raft's leases of knowledge, without a clock.
An index is `Settled` when every leader knows it to be committed, or has yet to
commit in its own term, or has been succeeded (a quorum is `Beyond` its term).
Commit indexes, databases and what was acknowledged are settled. Then, for each
position of a read, the invariant says what the values it has read so far
guarantee: once the term is read and strongReadTerm agrees with it, either the commit index
read covers `floor`, or a quorum has gone beyond that term and at least one member of it
has not answered the heartbeat, so that `VerifyLeader` and the second look at the
term cannot both succeed. It needs that leaders are elected by quorums
(`LeadersElected`), that terms do not decrease along the log and each entry is
stored by a quorum of its term (`LogOrdered`).

**Forwarding_proofs.** On each connection there is at most one command or one answer
under way, and while this end is open it belongs to the call that waits there
(`OneCommand`); it holds since whoever gives up closes the connection and no
other call uses it (`Exclusive`). `Carries` orders the pieces of a backup behind its answer.
`Budget` bounds retries: what was applied and what other ends may still apply
are together no more than what was sent, a cardinality that every step of either end
moves from one side to the other.

**Cluster_proofs.** Discovery: whoever founds a cluster is the one whose
check-and-set succeeded, and the registry is never empty again. Transport: the
channels are closed after the last handler has ended, and none starts once the
listener is closed. Membership: of the processes under one identifier only one runs
(`OneOfAName`), a call that somebody waits for is that of a process that is asking and its only one,
while the identifiers of all other calls are excused (`WaitedCalls`), and a node
that leaves is out once its removal was answered (`Leaving`). NodeProcess: a node with a
backup that has observed nothing yet has heard of no leader and holds no entry
(`HeardOfNobody`); if the election for which it loads is still the last one, it leads and
nothing has been committed (`FirstLeader`).

Bootstrap: `OneCluster` is about who leads now, and says nothing of who may be
elected next. The invariant (`BootInv`) is that the configurations there are form one
`Chain`: a sequence C, with the term K in which each was committed, such that every
node has one of them and has heard of its term, and a majority of each has already
gone on to the next. Then whoever has a majority of its configuration behind it has the last
one (`MajorityHasTop`), and a leader that has been left behind cannot extend an older
one. Each leader was elected by, or has committed with, a majority of its
configuration (`LeaderOK`), so that two have different terms, and what was committed
after its configuration is of a later term than its own. Who is done, or knows a leader,
is in the last configuration (`Placed`). Configurations only grow, one node at a
time, which is what `Join` does. That there is a first one is the condition of the
property: no two nodes were bootstrapped with different sets (`FoundedAlike`), which is a
matter of what happened and not of the flags. A node bootstraps with at least
`-bootstrap-expect` of the nodes that notify, and where those are more, two may do so with
different sets (section 5). The proof
found the model inaccurate in one place: a host that had last heard of a leader in an
earlier term was counted as its follower in a later one, while Raft counts
the answers of the current term only.

**Data_proofs.** AutoBackup: while a node holds the gate its main file is one
version, or the copy reads the file that was replaced. NodeOpen: what the old directory, the new one,
recovery.db and the log hold together is the whole log, at every step of the
upgrade and of the recovery. Chunking has two existential invariants. `LoadInv`: there is a way
the files were cut (`CutBy`) such that every chunk in the log and every Dechunker is a piece
by it, so that a chunk with the next number is the next piece, also for a node that
restarted. `AgreeInv`: there is a history of what a node that never restarts makes of the log
(`History`); a node that restarted amid no stream has the same database, and the
same Dechunkers except those of streams it has forgotten (`Forgot`), of which no chunk can follow.

**Database_proofs.** The library's induction theorems cannot be instantiated, but
that every non-empty set of naturals has a least member can be proved from one of the facts
they rest on (`LeastNatural`), and an induction is then the least
counterexample to what it shows. In this way a finite set of numbers has one sequence that
lists it in order (`InOrderSorts`, `SortsOnce`), and the recursive function `Ran` has,
after any number of statements, the value its definition says (`RanToExists`, `RanIs`).

WalCompaction: `SaltsInv` says that the committed frames have the salt of the header
and that a frame behind them with that salt is not a committing one: it was
spilled by a transaction that is open or was rolled back. So either the scan ends at
the last committed frame or it ends with a frame that does not commit and
is refused; and what it keeps, the last frame of each page, gives each page the value that
SQLite's own checkpoint gives it. The compacted frames are chained by checksums of
their own, so that all of them are readable. That the compacted WAL makes of the file
before it the file after it holds for every WAL, also one that was started again; that the
Snapshot Store's copy is the database holds as long as no frames were missed (`WalInv`).

Boot: `KeptInv` says, for the leader, that the newest snapshot and the log behind it are the
database, unless the boot still owes a full snapshot (`Owed`), that the main file is the
newest snapshot unless a full one is due, and that the snapshot under way, completed by
the log, is the database too. `PeerInv` says that a node which has joined is on the
way that leads through the newest snapshot (`Consistent`), or has yet to be sent it.
Both hold as long as the excuses of the property are absent, and
the second needs that none joins before the answer.

Database: for a failed transaction the invariant of a run in progress is that nothing has
been committed while the transaction is open, for any number of statements (`RanFails`); a
statement that SQLite refuses ends it, and `DbInv` provides the types and that no row is of an
entry behind the applied index. For the replicas, `ReplicaInv` says that there is a history H, with
H[i] the database after i entries of the log as a node makes it that never restarts and whose
requests do not time out, and that every replica and every snapshot whose entries carry no
timeout has what H says, except on nodes that were restarted from a snapshot taken amid a
transaction (`cut`). Any other snapshot holds all of H[i], which is what a restart needs. That
there is one H for all nodes is `OutcomeInTime`: an entry whose statements carry
literals has the same effect everywhere, which is where `PlainRequests` is needed
for RANDOM(). For RETURNING it is needed in `RunRequestTold`: a change that
is told by rows only is not noticed.

**Only model-checked.** Everything about liveness, and with it the fairness
conditions: liveness and ENABLED are out of reach of the proof system. These are
`Available`, `AcceptedIsApplied`, `ShutdownEnds`, `BootstrapEnds`, `DiscoveryEnds`, `NetworkEnds`,
`Rejoins`, `EveryEventSettles`, `StopReturns`, `LastChangeIsStored` and `BecomesReady`. Every
safety property of a passing run is a theorem, some under the conditions above. `RequestLinearizable` of the run
that ends with a violation is false (section 5).

## 5. Findings

One run ends with a counterexample: `reads_request`. `Store.Request` with only reads
answers a LINEARIZABLE request from its own database without any check
(store/store.go:1326).

The following disagreements between the code and what is written about it were
met while modelling. In each case the property of the passing run is false without the
exception that it, or the set of inputs, names.

* `updateMetaSize` truncates meta.json and writes it again (snapshot/store.go:533),
  and `Reap` unlinks it before its directory. After a crash in between, `check`,
  which says it repairs what a crash leaves (snapshot/store.go:329), refuses the
  store at every later start (`FailsOnlyOnMeta`).
* With four nodes that bootstrap and three expected, two may be bootstrapped with
  different sets of three, and each cluster elects a leader: nothing makes two nodes hear
  of the same ones (store/store.go:1722), although the comment of `Boot` says that one node
  forms the cluster, "beating all other nodes to it" (cluster/bootstrap.go:218). The flag
  is described as the "Minimum number of nodes required for a bootstrap"
  (cmd/rqlited/config_flags.go:163), and system_test/e2e/auto_clustering.py starts a
  fourth node with the parameters of the other three (`FoundedAlike`).
* An incremental snapshot with an empty WAL checkpoints nothing (store/store.go:2131), so
  it is taken amid a client's transaction that has written, although store.go:2067 says
  that the database is not being written to. A node that restarts from it goes on without
  the transaction, which the others commit (`cut`).
* The second commit of an entry is sent with index 0 (db/cdc.go:54), and a batch that ends
  with it sets the high watermark to 0, where cdc/DESIGN.md:22 has the highest index that
  was sent (`AboveWatermark` is about events with an index).
* A compressed backup is copied from the connection as it is, so the end of the
  connection is taken for the end of the backup (cluster/client.go:319). A remote
  node whose backup fails closes the connection (cluster/service.go:434), and the
  client is told 200 with an empty or truncated file. If nothing fails the copy
  ends only at the deadline, with an error (`Kinds` of `requests` has no compressed
  backup).
* `handleQuery` (STRONG) and `handleRequest` call the SQL rewriter with
  `qp.NoRewriteRandom()` where `execute` passes its negation (http/service.go:1292,
  1380): by default RANDOM() reaches the log unrewritten on these paths, although
  CHANGELOG.md:1265 says such statements are safe to use. Replicas then differ at
  once (`PlainRequests` leaves such requests out).
* `HasData`, which main calls before an automatic restore, opens a Snapshot Store
  and so creates the version 8 directory (store/state.go:91); `Upgrade7To8` takes
  that for a finished upgrade and deletes the version 7 snapshots
  (snapshot/upgrader.go:21) (`excused` in NodeOpen).
* A snapshot of Raft's own that is being persisted while a boot swaps the database
  removes the flag by which the boot asked for a full snapshot
  (store/store.go:1607), so that no snapshot has the file, although the comment at
  store.go:1553 says the result is "a system as if the data had been loaded through
  Raft consensus" (`excuse` in Boot).
* `Dump` reads each table in a transaction of its own (db/db.go:1432), so later
  tables may be of a later state, though its comment (db/db.go:1373) promises a
  consistent snapshot (`CopyIsOfOneDatabase` asks for less).
* cdc/DESIGN.md:28 says that every event is transmitted at least once. A node that is
  not the leader drops the events it takes from its queue, and a batch is given up after
  five attempts (cdc/service.go:182, 216); `EveryEventSettles` counts both as settled.

## 6. Limits of what holds

The runs above pass under bounds that matter. Outside them the models, or the
code itself where a part is abstracted, show the following.

Snapshots and the database:

* `Failing` of run `store` leaves out the stages `move`, `replay` and `replayed`.
  An I/O error there (snapshot/sink.go:202, 233) leaves, after the directory
  rename, a snapshot whose database is not yet its own, and `Open` serves it
  until the next start.
* A crash before `updateMetaSize` leaves a snapshot with size 0, which is then
  announced to followers (snapshot/store.go:352). snapshot/DESIGN.md:36 says old
  snapshots are reaped; the recovery path does not reap.
* A Close of the Sink that fails after `Persist` succeeded does not ask for a
  full snapshot (store/fsm.go:79), although the WAL frames are gone, and a
  checkpoint that reports busy after it moved every frame (store/store.go:2178)
  leaves changes that the following incremental snapshot lacks: `fsmSnapshot` stores the
  file's modification time however it returns (store.go:2054), so nothing asks for a full
  one (`Sound` in NodeSnapshot, `missed` in WalCompaction).
* A checkpoint that is busy may leave the main file with a part of the WAL's frames. A
  backup that begins to copy before the next snapshot would copy a mixture; AutoBackup
  has no such checkpoint.
* `fsmApply` sets FULL_NEEDED for a LOAD and not for the last chunk of a stream
  (store/store.go:2029): that the next snapshot is a full one rests on the
  modification time of the file that was swapped in. Chunking takes it to be so.
* Frames spilled by a large transaction that was rolled back stay at the end of
  the WAL, and every incremental snapshot fails until later commits have
  overwritten them (db/wal/compacting_scanner.go:207).
* `RecoverNode` leaves recovery.db and its WAL after a crash, and the next
  recovery replays the log upon them (store/state.go:130).
* Two calls of `Snapshot(n)` share Raft's TrailingLogs (store/store.go:2381).
* A stream of chunks that a snapshot interrupts is ignored by a node that
  restarts from it, and loaded by the others.

Requests:

* A linearizable read waits for the commit index, which may be that of a
  configuration entry the FSM never sees; after a Join or Remove it times out
  until the next command (store/store.go:1237).
* In a unified request a statement that cannot be prepared does not end its
  transaction, nor does a failing statement with RETURNING on any path
  (db/db.go:1267); a write with RETURNING there is not noticed as a change
  (store/command_processor.go:24). A database timeout expires by each node's
  clock, so replicas may differ. `PlainRequests` excludes RETURNING and RANDOM() in
  unified requests. ORDER BY RANDOM(), CURRENT_TIMESTAMP and date()
  are not rewritten.
* A forwarded backup that fails returns its connection to the pool with the rest
  of its stream in it (cluster/client.go:299); the next call on it fails. After a
  restart of the leader, calls without retries fail once for every stale connection
  in the pool.
* `Service.Close` closes the queue without draining it, so writes acknowledged
  without `wait` may be dropped at shutdown. A queued body that cannot be parsed is
  queued as a request without statements and acknowledged (http/service.go:1125).

Clusters and processes:

* More nodes than `-bootstrap-expect`: beside two clusters (section 5), with 3 nodes and 2
  expected the configurations may be circular, so that none is elected. `OneCluster` and
  `AllBoot` are claimed where all sets are equal.
* A node that joins at the address of another member is refused for ever: `Join`
  removes the identifier of the node that asks (store/store.go:1789). A join whose
  client gave up may remove a member that has joined since.
* A voter that registered and did not bootstrap is told to join itself
  (disco/service.go:103).
* The multiplexer serves before the services register, and handlers read a map
  that `Listen` writes (cmd/rqlited/main.go:443).
* A node that lost and regained the leadership between the observation and the
  load may load its backup over later writes (store/store.go:2350).
* Each uploader remembers what it uploaded itself: an object that another node
  overwrote with an older one is not uploaded again (auto/backup/uploader.go:145). A
  copy that failed half-way and was tried again is stored with its first half
  before it (store/provider.go:58).
* `Stop` of change data capture does not return when the queue is full
  (cdc/service.go:167). An endpoint that takes a batch and answers 201, 204 or 500 gets it
  up to five times (cdc/service.go:207).
* Without a leader for ever `runQueue` tries for ever, and `Service.Close` waits for
  handlers that wait for it (http/service.go:450).

## 7. Not modelled

* External: Raft's replication itself (Consensus states what is used of it),
  SQLite, the file system (a rename is atomic, a crash keeps completed calls), the
  registry, the storage service, the endpoint of change data capture.
* In Reads: the staleness test of level NONE, which compares wall-clock times, and
  the readiness channels; both only refuse requests. A leader's answer to an
  entry it did not get committed is an error at any moment.
* In NodeSnapshot: when an automatic VACUUM or OPTIMIZE is due; one that succeeds
  changes pages and no version.
* In Bootstrap: non-voters, and the attempts of an explicit join.
* In Database: the pool of read-only connections, pragmas, the arithmetic of
  results.
* Not at all: authentication (a table read at start; it only refuses), TLS,
  encoding of commands and results, status pages, flags, archives, extensions, the
  shell, the load generator: tables, input and output, or generated code.

## 8. State of the plan

The parts that change state are modelled, and every safety property that a passing run
checks is proved for every value of the constants. What stays open:

1. Liveness. The proof system has no rule for fairness that it can check, so these
   properties hold for the instances of the runs.
2. The conditions in the statements of three results (`ErrorsElsewhere`, `Sound`,
   `PlainRequests`) and the excuses in the properties of Bootstrap, Boot, Database,
   WalCompaction, NodeOpen, Membership and SnapshotStore are cases the code does not handle
   (sections 5 and 6). Each of them would go with a change of
   the code, and the property could then be stated without it.
3. Statistics, authentication, encodings and the shell, which keep no state that
   these properties are about (section 7).
