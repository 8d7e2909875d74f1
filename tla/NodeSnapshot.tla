---------------------------- MODULE NodeSnapshot ----------------------------
(***************************************************************************)
(* A node's FSM, its on-disk database and its snapshots together           *)
(* (store/store.go, store/fsm.go over the SnapshotStore): entries are      *)
(* applied, Raft takes snapshots and installs the leader's, the log is     *)
(* compacted, the node crashes and rebuilds its database from the newest   *)
(* snapshot and the log.                                                   *)
(*                                                                         *)
(* hashicorp/raft is external: takeSnapshot, installSnapshot, compactLogs  *)
(* and the restore at start are modelled by the calls they make.           *)
(***************************************************************************)
EXTENDS SnapshotStore, Sequences

CONSTANTS
    MaxLog,         \* bound: committed entries
    Troubles        \* environment: kinds of failure that may happen together

Take == "take"
Inst == "install"

ASSUME NodeThreads == {Take, Inst} \subseteq Writers /\ "fsm" \in Readers
ASSUME NodeBounds == MaxLog \in Nat /\ MaxLog <= MaxIndex
ASSUME TroubleKinds == Troubles \subseteq SUBSET {"busy", "refused", "persist", "transfer", "crash", "io"}

VARIABLES
    log,            \* history: the kinds of the entries the cluster committed
    first, last,    \* the entries first..last are in this node's log
    boot,           \* Raft has restored the newest snapshot since the start
    applied,        \* fsmIdx
    live,           \* the database as queries see it: main file and WAL
    walBase,        \* the WAL holds the pages changed since this version
    moved,          \* a busy checkpoint moved every frame but left the WAL
    modSet,         \* dbModifiedTime is not zero
    modified,       \* the main file was modified since dbModifiedTime
    snap,           \* the runSnapshots goroutine: takeSnapshot
    inst,           \* the installSnapshot handler
    trouble         \* the kinds of failure of this behaviour, which stay the same

nodeVars == <<log, first, last, boot, applied, live, walBase, moved, modSet, modified, snap, inst>>
dbVars == <<applied, live, walBase, moved, modSet, modified>>
logVars == <<log, first, last>>
allVars == <<vars, nodeVars, trouble>>

Entry == {"write", "noop", "load"}
NoSnapshot == [pc |-> "idle", idx |-> 0, kind |-> "empty", img |-> NoFile]
NoInstall == [pc |-> "idle", idx |-> 0]

\* The version of the database once entry i is applied.
VerAt(i) == Cardinality({j \in 1..i : log[j] # "noop"})

NodeInit ==
    /\ Init
    /\ log = << >> /\ first = 1 /\ last = 0
    /\ boot = TRUE
    /\ applied = 0 /\ live = Whole(0) /\ walBase = 0
    /\ moved = FALSE /\ modSet = FALSE /\ modified = FALSE
    /\ snap = NoSnapshot /\ inst = NoInstall
    /\ trouble \in Troubles

Running == status = "up" /\ boot

----------------------------------------------------------------------------
(* The log and the FSM.                                                    *)

Commit(k) ==
    /\ Len(log) < MaxLog
    /\ log' = Append(log, k)
    /\ UNCHANGED <<vars, first, last, boot, dbVars, snap, inst>>

\* An AppendEntries stores the next entry; the raft thread that handles it is
\* the one that handles InstallSnapshot.
Receive ==
    /\ Running /\ inst.pc = "idle" /\ last < Len(log)
    /\ last' = last + 1
    /\ UNCHANGED <<vars, log, first, boot, dbVars, snap, inst>>

\* fsmApply of a statement that changes the database.  A write that finds every
\* frame of the WAL already in the main file starts the WAL afresh.
ApplyWrite ==
    /\ log[applied + 1] = "write"
    /\ live' = Replay(live, <<VerAt(applied), VerAt(applied + 1)>>)
    /\ walBase' = IF moved THEN VerAt(applied) ELSE walBase
    /\ moved' = FALSE
    /\ UNCHANGED <<vars, modSet, modified>>

\* fsmApply of a LOAD: the database file is swapped, and a full snapshot is
\* asked for.
ApplyLoad ==
    /\ log[applied + 1] = "load"
    /\ live' = Whole(VerAt(applied + 1))
    /\ walBase' = VerAt(applied + 1)
    /\ moved' = FALSE
    /\ modified' = TRUE
    /\ fullNeeded' = TRUE
    /\ UNCHANGED <<disk, named, lock, sink, rdr, status, resize, crashes, faults, modSet>>

ApplyNoop ==
    /\ log[applied + 1] = "noop"
    /\ UNCHANGED <<vars, live, walBase, moved, modSet, modified>>

FsmApply ==
    /\ Running
    /\ applied < last /\ first <= applied + 1
    /\ applied' = applied + 1
    /\ ApplyWrite \/ ApplyLoad \/ ApplyNoop
    /\ UNCHANGED <<logVars, boot, snap, inst>>

----------------------------------------------------------------------------
(* takeSnapshot: fsmSnapshot, Create, Persist, Close, Release.             *)

DbModified == modSet /\ modified
\* Mutant: the modification time of the database is not consulted.
FullSnapshotNeeded_FlagOnly == fullNeeded \/ Live = {}

FullSnapshotNeeded == fullNeeded \/ Live = {} \/ DbModified

\* The deferred update of dbModifiedTime, made however fsmSnapshot returns.
StoreModifiedTime == modSet' = TRUE /\ modified' = FALSE

\* fsmSnapshot runs on the FSM's thread: no entry is applied meanwhile.  The
\* WAL, when it is not empty, is copied and then checkpointed and truncated.
FsmSnapshot ==
    LET ver == VerAt(applied) IN
    /\ Running /\ snap.pc = "idle" /\ applied > 0 /\ Readable
    /\ snap' = [pc |-> "taken", idx |-> applied,
                kind |-> IF FullSnapshotNeeded THEN "db"
                         ELSE IF walBase # ver THEN "wal" ELSE "empty",
                img |-> IF FullSnapshotNeeded THEN live
                        ELSE IF walBase # ver THEN <<walBase, ver>> ELSE NoFile]
    /\ walBase' = ver
    /\ moved' = FALSE
    /\ StoreModifiedTime
    /\ UNCHANGED <<vars, logVars, boot, applied, live, inst>>

\* The checkpoint cannot complete because a query holds the WAL.  If it got as
\* far as moving every frame, the next write starts the WAL afresh.
FsmSnapshotBusy ==
    /\ "busy" \in trouble
    /\ Running /\ snap.pc = "idle" /\ applied > 0 /\ Readable
    /\ walBase # VerAt(applied)
    /\ moved' \in {moved, TRUE}
    /\ StoreModifiedTime
    /\ UNCHANGED <<vars, logVars, boot, applied, live, walBase, snap, inst>>

\* The automatic VACUUM or OPTIMIZE that the clock says is due fails, and
\* fsmSnapshot returns.  One that succeeds changes pages and no version.
AutoVacuumFailed ==
    /\ "busy" \in trouble
    /\ Running /\ snap.pc = "idle" /\ applied > 0
    /\ StoreModifiedTime
    /\ UNCHANGED <<vars, logVars, boot, applied, live, walBase, moved, snap, inst>>

\* Mutant: a failed Persist is forgotten.
OnFailure_Forgotten == UNCHANGED fullNeeded /\ snap' = NoSnapshot

\* Release of an FSMSnapshot whose Persist did not succeed: OnFailure.
OnFailure ==
    /\ fullNeeded' = TRUE
    /\ snap' = NoSnapshot

\* Create is refused by MultiRSW, or Raft gives up before it (a configuration
\* change is not yet committed); Release follows.
TakeRefused ==
    /\ snap.pc = "taken"
    /\ writerActive \/ numReaders > 0 \/ "refused" \in trouble
    /\ OnFailure
    /\ UNCHANGED <<disk, named, lock, sink, rdr, status, resize, crashes, faults>>
    /\ UNCHANGED <<logVars, boot, dbVars, inst>>

TakeCreate ==
    /\ snap.pc = "taken"
    /\ Create(Take, snap.idx, VerAt(snap.idx))
    /\ snap' = [snap EXCEPT !.pc = "persist"]
    /\ UNCHANGED <<logVars, boot, dbVars, inst>>

\* Persist copies the database, or the path of the WAL copy, to the sink.
TakePersist ==
    /\ snap.pc = "persist"
    /\ IF snap.kind = "empty" THEN UNCHANGED vars ELSE Write(Take, snap.kind, snap.img)
    /\ snap' = [snap EXCEPT !.pc = "closing"]
    /\ UNCHANGED <<logVars, boot, dbVars, inst>>

\* Persist fails: Raft cancels the sink, and Release runs OnFailure.
TakePersistFailed ==
    /\ "persist" \in trouble
    /\ snap.pc = "persist"
    /\ sink[Take].pc = "open"
    /\ RemoveTmpFiles /\ RemoveTmpDirs
    /\ sink' = [sink EXCEPT ![Take] = NoSink]
    /\ EndWrite
    /\ OnFailure
    /\ UNCHANGED <<named, numReaders, rdr, status, resize, crashes, faults>>
    /\ UNCHANGED <<logVars, boot, dbVars, inst>>

TakeClose ==
    /\ snap.pc = "closing" /\ CloseSink(Take)
    /\ UNCHANGED nodeVars

SinkProgress(w) ==
    \/ ProcessSnapshotData(w) \/ RenameData(w) \/ CommitDir(w) \/ MovePrev(w)
    \/ CheckpointRemove(w) \/ UpdateMetaSize(w) \/ UnsetFullNeeded(w)
    \/ ReapOne(w) \/ Abort(w)

TakeStep == SinkProgress(Take) /\ UNCHANGED nodeVars

\* The snapshot is in place: Raft deletes the log up to it, short of the
\* trailing entries it is configured to keep.
TakeDone ==
    /\ CloseOK(Take)
    /\ snap' = NoSnapshot
    /\ first' \in {first, IF first <= snap.idx THEN snap.idx + 1 ELSE first}
    /\ UNCHANGED <<log, last, boot, dbVars, inst>>

\* Close failed.  Persist had succeeded, so Release does nothing.
TakeCloseFailed ==
    /\ snap.pc = "closing"
    /\ CloseFailed(Take) \/ ("io" \in trouble /\ IOError(Take) /\ sink'[Take] = NoSink)
    /\ snap' = NoSnapshot
    /\ UNCHANGED <<logVars, boot, dbVars, inst>>

TakeIOError ==
    /\ snap.pc = "closing" /\ "io" \in trouble
    /\ IOError(Take) /\ sink'[Take] # NoSink
    /\ UNCHANGED nodeVars

----------------------------------------------------------------------------
(* installSnapshot: the leader sends its snapshot to a node whose log ends *)
(* before it.                                                              *)

InstCreate(i) ==
    /\ Running /\ inst.pc = "idle" /\ last < i
    /\ Create(Inst, i, VerAt(i))
    /\ inst' = [pc |-> "copy", idx |-> i]
    /\ UNCHANGED <<logVars, boot, dbVars, snap>>

InstCopy ==
    /\ inst.pc = "copy"
    /\ Write(Inst, "db", Whole(VerAt(inst.idx)))
    /\ inst' = [inst EXCEPT !.pc = "closing"]
    /\ UNCHANGED <<logVars, boot, dbVars, snap>>

\* Fewer bytes arrived than the leader announced.
InstCancel ==
    /\ "transfer" \in trouble
    /\ inst.pc \in {"copy", "closing"} /\ Cancel(Inst)
    /\ inst' = NoInstall
    /\ UNCHANGED <<logVars, boot, dbVars, snap>>

InstClose ==
    /\ inst.pc = "closing" /\ CloseSink(Inst)
    /\ UNCHANGED nodeVars

InstStep == SinkProgress(Inst) /\ UNCHANGED nodeVars

InstDone ==
    /\ CloseOK(Inst)
    /\ inst' = [inst EXCEPT !.pc = "restore"]
    /\ UNCHANGED <<logVars, boot, dbVars, snap>>

InstFailed ==
    /\ CloseFailed(Inst)
    /\ inst' = NoInstall
    /\ UNCHANGED <<logVars, boot, dbVars, snap>>

\* Raft lists and opens the snapshot it has just closed.  Open is refused while
\* takeSnapshot has a sink: the handler returns an error and the FSM stays as
\* it was.
InstOpen ==
    /\ inst.pc = "restore"
    /\ \/ List("fsm") /\ UNCHANGED inst
       \/ /\ Open("fsm")
          /\ inst' = IF rdr'["fsm"].pc = "open" THEN [inst EXCEPT !.pc = "restoring"]
                                                ELSE NoInstall
    /\ UNCHANGED <<logVars, boot, dbVars, snap>>

\* Mutant: the FSM's index is not moved to the snapshot's.
FsmRestore_OldIndex ==
    /\ CloseSnapshot("fsm")
    /\ live' = db[rdr["fsm"].id]
    /\ walBase' = VerAt(idx[Newest])
    /\ moved' = FALSE
    /\ StoreModifiedTime
    /\ UNCHANGED applied

\* fsmRestore swaps the database in and sets the indexes from the newest
\* snapshot in the Store.
FsmRestore ==
    /\ CloseSnapshot("fsm")
    /\ live' = db[rdr["fsm"].id]
    /\ applied' = idx[Newest]
    /\ walBase' = VerAt(idx[Newest])
    /\ moved' = FALSE
    /\ StoreModifiedTime

InstRestored ==
    /\ inst.pc = "restoring"
    /\ FsmRestore
    /\ inst' = NoInstall
    /\ last' = inst.idx /\ first' = inst.idx + 1
    /\ UNCHANGED <<log, boot, snap>>

----------------------------------------------------------------------------
(* Crash and start.                                                        *)

\* openOnDisk removes the database when the node starts.
NodeCrash ==
    /\ "crash" \in trouble
    /\ Crash
    /\ boot' = FALSE
    /\ applied' = 0 /\ live' = Whole(0) /\ walBase' = 0
    /\ moved' = FALSE /\ modSet' = FALSE /\ modified' = FALSE
    /\ snap' = NoSnapshot /\ inst' = NoInstall
    /\ UNCHANGED logVars

NodeCheck == Check /\ UNCHANGED nodeVars

\* NewRaft restores the newest snapshot, if there is one, and goes on from
\* there with the log.
BootOpen ==
    /\ status = "up" /\ ~boot
    /\ List("fsm") \/ Open("fsm")
    /\ UNCHANGED nodeVars

BootRestore ==
    /\ status = "up" /\ ~boot
    /\ FsmRestore
    /\ boot' = TRUE
    /\ last' = IF last < idx[Newest] THEN idx[Newest] ELSE last
    /\ first' = IF last < idx[Newest] THEN idx[Newest] + 1 ELSE first
    /\ UNCHANGED <<log, snap, inst>>

BootEmpty ==
    /\ status = "up" /\ ~boot /\ Live = {}
    /\ boot' = TRUE
    /\ UNCHANGED <<vars, logVars, dbVars, snap, inst>>

NodeStep ==
    \/ \E k \in Entry : Commit(k)
    \/ Receive \/ FsmApply
    \/ FsmSnapshot \/ FsmSnapshotBusy \/ AutoVacuumFailed
    \/ TakeRefused \/ TakeCreate \/ TakePersist \/ TakePersistFailed \/ TakeClose
    \/ TakeStep \/ TakeDone \/ TakeCloseFailed \/ TakeIOError
    \/ \E i \in 1..Len(log) : InstCreate(i)
    \/ InstCopy \/ InstCancel \/ InstClose \/ InstStep \/ InstDone \/ InstFailed
    \/ InstOpen \/ InstRestored
    \/ NodeCrash \/ NodeCheck \/ BootOpen \/ BootRestore \/ BootEmpty

NodeNext == NodeStep /\ UNCHANGED trouble

NodeSpec == NodeInit /\ [][NodeNext]_allVars

----------------------------------------------------------------------------

\* The database a node serves is exactly the committed log up to its applied
\* index: nothing lost or mixed by snapshots, LOADs, crashes and restores.
LiveIsExact == Running => live = Whole(VerAt(applied))

\* Neither a checkpoint that is busy after it moved every frame nor an I/O error
\* while the sink closes is followed by a full snapshot.
Sound == trouble \cap {"busy", "io"} = {}

\* The newest snapshot is exactly the committed log up to its index, even as a
\* sum of incremental snapshots taken while entries, LOADs, failed attempts
\* and the leader's snapshots go on (fsmSnapshot, Sink.Close).
SnapshotIsExact == Sound /\ Live # {} => RecoveredImage = Whole(VerAt(idx[Newest]))

\* Whenever fsmSnapshot would take an incremental snapshot, the WAL holds every
\* change since the newest snapshot: a WAL that was truncated for a snapshot
\* that never came to be is always followed by a full snapshot.
IncrementalIsSound ==
    Sound /\ Running /\ snap.pc = "idle" /\ inst.pc = "idle" =>
        FullSnapshotNeeded \/ walBase <= VerAt(idx[Newest])

\* The snapshot and the log leave no gap: no committed entry that this node
\* stored is lost by compaction.
NoGap == first <= (IF Live = {} THEN 0 ELSE idx[Newest]) + 1

\* Nothing that was committed is missing from what the next snapshot, and the
\* next start, are made of: the WAL, the newest snapshot and the log.
NothingMissing == IncrementalIsSound /\ NoGap
============================================================================
