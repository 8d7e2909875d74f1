--------------------------- MODULE SnapshotStore ---------------------------
(***************************************************************************)
(* The Snapshot Store of a node (snapshot/store.go, sink.go, state.go):    *)
(* the directory in which Raft snapshots live, the sink that adds one, and *)
(* the check that repairs the directory when the node starts.              *)
(*                                                                         *)
(* Every system call that changes the directory is one step, and the node  *)
(* may crash between any two of them.  Metadata operations are taken to    *)
(* reach the disk in the order in which they are issued.                   *)
(*                                                                         *)
(* A database image is <<lo, hi>>: each of its pages is as of some version *)
(* between lo and hi, so <<v, v>> is the database exactly as of version v. *)
(* A WAL <<b, t>> holds every page that changed after version b, as of     *)
(* version t.                                                              *)
(***************************************************************************)
EXTENDS Integers, FiniteSets

CONSTANTS
    Writers,        \* threads that may hold a Sink: takeSnapshot, installSnapshot
    Readers,        \* threads that may hold an open Snapshot
    MaxSnapshots,   \* bound: calls of Create
    MaxIndex,       \* bound: Raft indexes, and database versions
    MaxCrashes,     \* bound: crashes of the node
    MaxFaults,      \* bound: I/O errors met by a Sink
    Failing         \* environment: the stages of Close that may meet one

ASSUME SnapshotBounds ==
    /\ MaxSnapshots \in Nat /\ MaxIndex \in Nat
    /\ MaxCrashes \in Nat /\ MaxFaults \in Nat

ASSUME ReadersFinite == IsFiniteSet(Readers)

\* Snapshot IDs are <term>-<index>-<msec>: creation order is ID order.
ID == 1..MaxSnapshots
Index == 0..MaxIndex
Version == 0..MaxIndex

NoFile == << >>
Image == Version \X Version
File == Image \cup {NoFile}
Whole(v) == <<v, v>>

VARIABLES
    dir,            \* ID's directory: "none", "tmp" (ID.tmp) or "live"
    meta,           \* meta.json in it: "none", "torn", "zero" (Size 0), "sized"
    db,             \* file ID.db
    wal,            \* file ID.db-wal
    fullNeeded,     \* file FULL_NEEDED exists
    idx,            \* the Raft index in the ID
    want,           \* history: the database version the snapshot stands for
    writerActive,   \* MultiRSW
    numReaders,
    sink,           \* per writer: its Sink, and how far Close has come
    rdr,            \* per reader: idle, has listed an ID, or has it open
    status,         \* the process: "up", "down", "failed" or a step of check()
    resize,         \* check() moved a database and has its size still to set
    used, crashes, faults

disk == <<dir, meta, db, wal>>
lock == <<writerActive, numReaders>>
named == <<idx, want, used>>
vars == <<disk, fullNeeded, named, lock, sink, rdr, status, resize, crashes, faults>>

SinkPC == {"idle", "open", "process", "rename", "commit", "move", "replay",
           "replayed", "unlink", "size", "resize", "unset", "reap", "rmdir",
           "rmdata", "abort", "aborted"}
CheckPC == {"cleaned", "inspect", "replay", "replayed", "unlink",
            "size", "resize"}

SinkState == [pc : SinkPC, id : 0..MaxSnapshots, kind : {"empty", "db", "wal"},
              img : File, victim : 0..MaxSnapshots]
NoSink == [pc |-> "idle", id |-> 0, kind |-> "empty", img |-> NoFile, victim |-> 0]
NoSnap == [pc |-> "idle", id |-> 0]

----------------------------------------------------------------------------
(* The directory as getSnapshots and cmpSnapshotMeta.Less see it.          *)

Live == {i \in ID : dir[i] = "live"}
Tmp == {i \in ID : dir[i] = "tmp"}

\* getSnapshots succeeds only if it can decode every meta.json.
Readable == \A i \in Live : meta[i] \in {"zero", "sized"}

\* Committed entries have terms that grow with their indexes, so (term, index)
\* is compared by index.
Less(a, b) == idx[a] < idx[b] \/ (idx[a] = idx[b] /\ a < b)

NewestOf(S) == CHOOSE n \in S : \A m \in S \ {n} : Less(m, n)
\* Mutant: the snapshots are sorted the wrong way round.
OldestOf_Reversed(S) == CHOOSE n \in S : \A m \in S \ {n} : Less(m, n)

OldestOf(S) == CHOOSE n \in S : \A m \in S \ {n} : Less(n, m)
Newest == NewestOf(Live)
Prev(n) == NewestOf(Live \ {n})

\* What SQLite makes of image d when it checkpoints WAL w into it: the pages in
\* w become current; a page that w does not hold keeps its age.
Replay(d, w) ==
    IF w[1] <= d[1] /\ d[2] <= w[2]
      THEN Whole(w[2])
      ELSE << IF d[1] <= w[2] THEN d[1] ELSE w[2],
              IF d[2] >= w[2] THEN d[2] ELSE w[2] >>

\* The image while the checkpoint is under way.
Mixed(d, w) == << IF d[1] <= w[2] THEN d[1] ELSE w[2],
                  IF d[2] >= w[2] THEN d[2] ELSE w[2] >>

TypeOK ==
    /\ dir \in [ID -> {"none", "tmp", "live"}]
    /\ meta \in [ID -> {"none", "torn", "zero", "sized"}]
    /\ db \in [ID -> File]
    /\ wal \in [ID -> File]
    /\ fullNeeded \in BOOLEAN
    /\ idx \in [ID -> Index]
    /\ want \in [ID -> Version]
    /\ writerActive \in BOOLEAN
    /\ numReaders \in Nat
    /\ sink \in [Writers -> SinkState]
    /\ rdr \in [Readers -> [pc : {"idle", "listed", "open"}, id : 0..MaxSnapshots]]
    /\ status \in {"up", "down", "failed"} \cup CheckPC
    /\ resize \in BOOLEAN
    /\ used \in 0..MaxSnapshots
    /\ crashes \in 0..MaxCrashes
    /\ faults \in 0..MaxFaults

Init ==
    /\ dir = [i \in ID |-> "none"]
    /\ meta = [i \in ID |-> "none"]
    /\ db = [i \in ID |-> NoFile]
    /\ wal = [i \in ID |-> NoFile]
    /\ fullNeeded = FALSE
    /\ idx = [i \in ID |-> 0]
    /\ want = [i \in ID |-> 0]
    /\ writerActive = FALSE
    /\ numReaders = 0
    /\ sink = [w \in Writers |-> NoSink]
    /\ rdr = [r \in Readers |-> NoSnap]
    /\ status = "up"
    /\ resize = FALSE
    /\ used = 0
    /\ crashes = 0
    /\ faults = 0

----------------------------------------------------------------------------
(* Store.Create, the Sink's life, and MultiRSW's write side.               *)

\* Mutant: a writer is let in beside readers.
BeginWrite_BesideReaders == ~writerActive /\ writerActive' = TRUE

\* BeginWrite refuses a second writer, and a writer beside a reader.
BeginWrite == ~writerActive /\ numReaders = 0 /\ writerActive' = TRUE

EndWrite == writerActive' = FALSE

Goto(w, pc) == sink' = [sink EXCEPT ![w].pc = pc]

\* Create: BeginWrite, then Sink.Open makes ID.tmp and the data file.  When
\* BeginWrite refuses, nothing changes.
Create(w, i, v) ==
    /\ status = "up" /\ sink[w].pc = "idle" /\ used < MaxSnapshots
    /\ BeginWrite
    /\ used' = used + 1
    /\ dir' = [dir EXCEPT ![used + 1] = "tmp"]
    /\ idx' = [idx EXCEPT ![used + 1] = i]
    /\ want' = [want EXCEPT ![used + 1] = v]
    /\ sink' = [sink EXCEPT ![w] = [NoSink EXCEPT !.pc = "open", !.id = used + 1]]
    /\ UNCHANGED <<meta, db, wal, fullNeeded, numReaders, rdr, status, resize, crashes, faults>>

\* Write: the data is a SQLite file, or the path of a WAL file to move here.
Write(w, kind, img) ==
    /\ sink[w].pc = "open" /\ sink[w].kind = "empty"
    /\ sink' = [sink EXCEPT ![w].kind = kind, ![w].img = img]
    /\ UNCHANGED <<disk, fullNeeded, named, lock, rdr, status, resize, crashes, faults>>

\* RemoveAllTmpSnapshotData: the data files of a tmp snapshot, then its directory.
RemoveTmpFiles ==
    /\ db' = [i \in ID |-> IF i \in Tmp THEN NoFile ELSE db[i]]
    /\ wal' = [i \in ID |-> IF i \in Tmp THEN NoFile ELSE wal[i]]

RemoveTmpDirs ==
    /\ dir' = [i \in ID |-> IF i \in Tmp THEN "none" ELSE dir[i]]
    /\ meta' = [i \in ID |-> IF i \in Tmp THEN "none" ELSE meta[i]]

Cancel(w) ==
    /\ sink[w].pc = "open"
    /\ RemoveTmpFiles /\ RemoveTmpDirs
    /\ sink' = [sink EXCEPT ![w] = NoSink]
    /\ EndWrite
    /\ UNCHANGED <<fullNeeded, named, numReaders, rdr, status, resize, crashes, faults>>

\* Close writes meta.json, whose Size is still 0, into ID.tmp.
CloseSink(w) ==
    /\ sink[w].pc = "open"
    /\ meta' = [meta EXCEPT ![sink[w].id] = "zero"]
    /\ Goto(w, "process")
    /\ UNCHANGED <<dir, db, wal, fullNeeded, named, lock, rdr, status, resize, crashes, faults>>

\* processSnapshotData's sanity checks.
Acceptable(id, kind) ==
    /\ Readable
    /\ Live = {} => kind = "db"
    /\ Live # {} => Less(Newest, id)
    /\ kind = "wal" => db[Newest] # NoFile

ProcessSnapshotData(w) ==
    /\ sink[w].pc = "process"
    /\ Goto(w, IF Acceptable(sink[w].id, sink[w].kind) THEN "rename" ELSE "abort")
    /\ UNCHANGED <<disk, fullNeeded, named, lock, rdr, status, resize, crashes, faults>>

\* The data file becomes ID.db or ID.db-wal.
RenameData(w) ==
    LET s == sink[w] IN
    /\ s.pc = "rename"
    /\ db' = IF s.kind = "db" THEN [db EXCEPT ![s.id] = s.img] ELSE db
    /\ wal' = IF s.kind = "wal" THEN [wal EXCEPT ![s.id] = s.img] ELSE wal
    /\ Goto(w, "commit")
    /\ UNCHANGED <<dir, meta, fullNeeded, named, lock, rdr, status, resize, crashes, faults>>

\* ID.tmp becomes ID: the snapshot now exists.
CommitDir(w) ==
    LET s == sink[w]
        snapNew == NewestOf(Live \cup {s.id}) IN
    /\ s.pc = "commit"
    /\ dir' = [dir EXCEPT ![s.id] = "live"]
    /\ Goto(w, IF Live # {} /\ (wal[snapNew] # NoFile \/ s.kind = "empty")
                 THEN "move" ELSE "size")
    /\ UNCHANGED <<meta, db, wal, fullNeeded, named, lock, rdr, status, resize, crashes, faults>>

MoveDB(from, to) == db' = [db EXCEPT ![from] = NoFile, ![to] = db[from]]

\* The previous snapshot's database becomes the new one's.
MovePrev(w) ==
    LET snapNew == Newest
        snapPrev == Prev(Newest) IN
    /\ sink[w].pc = "move"
    /\ IF db[snapPrev] = NoFile
         THEN Goto(w, "abort") /\ UNCHANGED db
         ELSE /\ MoveDB(snapPrev, snapNew)
              /\ Goto(w, IF wal[snapNew] = NoFile THEN "size" ELSE "replay")
    /\ UNCHANGED <<dir, meta, wal, fullNeeded, named, lock, rdr, status, resize, crashes, faults>>

\* CheckpointRemove: pages are copied, the copy completes, the WAL is removed.
ReplaySome(n) == db' = [db EXCEPT ![n] = Mixed(db[n], wal[n])]
\* Mutant: the driver in use does not checkpoint when the database is closed.
ReplayAll_NoCheckpoint(n) == UNCHANGED db

ReplayAll(n) == db' = [db EXCEPT ![n] = Replay(db[n], wal[n])]
UnlinkWAL(n) == wal' = [wal EXCEPT ![n] = NoFile]

CheckpointRemove(w) ==
    LET pc == sink[w].pc IN
    /\ \/ pc = "replay" /\ ReplaySome(Newest) /\ UNCHANGED wal /\ Goto(w, "replayed")
       \/ pc = "replayed" /\ ReplayAll(Newest) /\ UNCHANGED wal /\ Goto(w, "unlink")
       \/ pc = "unlink" /\ UnlinkWAL(Newest) /\ UNCHANGED db /\ Goto(w, "size")
    /\ UNCHANGED <<dir, meta, fullNeeded, named, lock, rdr, status, resize, crashes, faults>>

\* updateMetaSize rewrites meta.json in place: os.Create truncates it first.
SetMeta(n, m) == meta' = [meta EXCEPT ![n] = m]

UpdateMetaSize(w) ==
    LET s == sink[w] IN
    /\ \/ s.pc = "size" /\ SetMeta(s.id, "torn") /\ Goto(w, "resize")
       \/ s.pc = "resize" /\ SetMeta(s.id, "sized") /\ Goto(w, "unset")
    /\ UNCHANGED <<dir, db, wal, fullNeeded, named, lock, rdr, status, resize, crashes, faults>>

UnsetFullNeeded(w) ==
    /\ sink[w].pc = "unset"
    /\ fullNeeded' = FALSE
    /\ Goto(w, "reap")
    /\ UNCHANGED <<disk, named, lock, rdr, status, resize, crashes, faults>>

\* Reap: of each older snapshot, oldest first, meta.json, the directory, and
\* then the data files.
ReapOne(w) ==
    LET s == sink[w]
        v == IF s.pc = "reap" THEN OldestOf(Live) ELSE s.victim IN
    /\ \/ /\ s.pc = "reap" /\ Readable /\ Cardinality(Live) > 1
          /\ SetMeta(v, "none")
          /\ sink' = [sink EXCEPT ![w].pc = "rmdir", ![w].victim = v]
          /\ UNCHANGED <<dir, db, wal>>
       \/ /\ s.pc = "rmdir"
          /\ dir' = [dir EXCEPT ![v] = "none"]
          /\ Goto(w, "rmdata")
          /\ UNCHANGED <<meta, db, wal>>
       \/ /\ s.pc = "rmdata"
          /\ db' = [db EXCEPT ![v] = NoFile]
          /\ UnlinkWAL(v)
          /\ Goto(w, "reap")
          /\ UNCHANGED <<dir, meta>>
    /\ UNCHANGED <<fullNeeded, named, lock, rdr, status, resize, crashes, faults>>

\* The sink's Close returns nil and LockingSink releases the lock.
CloseOK(w) ==
    /\ sink[w].pc = "reap" /\ Cardinality(Live) <= 1
    /\ sink' = [sink EXCEPT ![w] = NoSink]
    /\ EndWrite
    /\ UNCHANGED <<disk, fullNeeded, named, numReaders, rdr, status, resize, crashes, faults>>

\* processSnapshotData returned an error: temporary data is removed, Close
\* returns the error, and LockingSink releases the lock.
Abort(w) ==
    /\ sink[w].pc = "abort"
    /\ RemoveTmpFiles
    /\ Goto(w, "aborted")
    /\ UNCHANGED <<dir, meta, fullNeeded, named, lock, rdr, status, resize, crashes, faults>>

CloseFailed(w) ==
    /\ sink[w].pc = "aborted"
    /\ RemoveTmpDirs
    /\ sink' = [sink EXCEPT ![w] = NoSink]
    /\ EndWrite
    /\ UNCHANGED <<db, wal, fullNeeded, named, numReaders, rdr, status, resize, crashes, faults>>

\* Mutant: LockingSink does not release the lock when Close fails.
IOError_KeepsLock(w) ==
    /\ faults < MaxFaults
    /\ faults' = faults + 1
    /\ sink[w].pc \in Failing \ {"idle", "abort", "aborted"}
    /\ sink' = [sink EXCEPT ![w] = NoSink]
    /\ UNCHANGED <<disk, fullNeeded, named, lock, rdr, status, resize, crashes>>

\* A system call of Close fails.  Only processSnapshotData cleans up.
IOError(w) ==
    /\ faults < MaxFaults
    /\ faults' = faults + 1
    /\ sink[w].pc \in Failing \ {"idle", "abort", "aborted"}
    /\ IF sink[w].pc \in {"process", "rename", "commit", "move", "replay", "replayed", "unlink"}
         THEN Goto(w, "abort") /\ UNCHANGED writerActive
         ELSE sink' = [sink EXCEPT ![w] = NoSink] /\ EndWrite
    /\ UNCHANGED <<disk, fullNeeded, named, numReaders, rdr, status, resize, crashes>>

SetFullNeeded ==
    /\ status = "up"
    /\ fullNeeded' = TRUE
    /\ UNCHANGED <<disk, named, lock, sink, rdr, status, resize, crashes, faults>>

SinkStep(w) ==
    \/ ProcessSnapshotData(w) \/ RenameData(w) \/ CommitDir(w) \/ MovePrev(w)
    \/ CheckpointRemove(w) \/ UpdateMetaSize(w) \/ UnsetFullNeeded(w)
    \/ ReapOne(w) \/ CloseOK(w) \/ Abort(w) \/ CloseFailed(w)

----------------------------------------------------------------------------
(* List, Open and the life of an open snapshot: MultiRSW's read side.      *)

\* List takes no lock: it may run while a Sink is being closed.
List(r) ==
    /\ status = "up" /\ rdr[r].pc = "idle"
    /\ Readable /\ Live # {}
    /\ rdr' = [rdr EXCEPT ![r] = [pc |-> "listed", id |-> Newest]]
    /\ UNCHANGED <<disk, fullNeeded, named, lock, sink, status, resize, crashes, faults>>

CanOpen(i) == meta[i] \in {"zero", "sized"} /\ dir[i] = "live" /\ db[i] # NoFile

\* Mutant: a reader is let in beside a writer.
BeginRead_BesideWriter == numReaders' = numReaders + 1

BeginRead == ~writerActive /\ numReaders' = numReaders + 1

EndRead == numReaders' = numReaders - 1

\* Open fails, leaving the lock as it was, when a writer is active or when the
\* snapshot listed before is gone.
Open(r) ==
    /\ rdr[r].pc = "listed"
    /\ \/ /\ CanOpen(rdr[r].id)
          /\ BeginRead
          /\ rdr' = [rdr EXCEPT ![r].pc = "open"]
       \/ /\ writerActive \/ ~CanOpen(rdr[r].id)
          /\ rdr' = [rdr EXCEPT ![r] = NoSnap]
          /\ UNCHANGED numReaders
    /\ UNCHANGED <<disk, fullNeeded, named, writerActive, sink, status, resize, crashes, faults>>

CloseSnapshot(r) ==
    /\ rdr[r].pc = "open"
    /\ rdr' = [rdr EXCEPT ![r] = NoSnap]
    /\ EndRead
    /\ UNCHANGED <<disk, fullNeeded, named, writerActive, sink, status, resize, crashes, faults>>

----------------------------------------------------------------------------
(* Crash, and NewStore's check().                                          *)

Crash ==
    /\ status \notin {"down", "failed"}
    /\ crashes < MaxCrashes
    /\ crashes' = crashes + 1
    /\ status' = "down"
    /\ sink' = [w \in Writers |-> NoSink]
    /\ rdr' = [r \in Readers |-> NoSnap]
    /\ writerActive' = FALSE
    /\ numReaders' = 0
    /\ UNCHANGED <<disk, fullNeeded, named, resize, faults>>

\* What check() does once the temporary data is gone.  Only the branch that
\* moves the previous database goes on to set the size.
Inspect ==
    /\ status = "inspect"
    /\ \/ /\ ~Readable
          /\ status' = "failed"
          /\ UNCHANGED <<db, resize>>
       \/ /\ Readable /\ Live = {}
          /\ status' = "up"
          /\ UNCHANGED <<db, resize>>
       \/ /\ Readable /\ Cardinality(Live) = 1
          /\ status' = IF db[Newest] = NoFile THEN "failed" ELSE "up"
          /\ UNCHANGED <<db, resize>>
       \/ /\ Readable /\ Cardinality(Live) > 1 /\ db[Newest] # NoFile
          /\ status' = IF wal[Newest] = NoFile THEN "up" ELSE "replay"
          /\ resize' = FALSE
          /\ UNCHANGED db
       \/ /\ Readable /\ Cardinality(Live) > 1 /\ db[Newest] = NoFile
          /\ IF db[Prev(Newest)] = NoFile
               THEN status' = "failed" /\ UNCHANGED <<db, resize>>
               ELSE /\ MoveDB(Prev(Newest), Newest)
                    /\ resize' = TRUE
                    /\ status' = IF wal[Newest] = NoFile THEN "size" ELSE "replay"
    /\ UNCHANGED <<dir, meta, wal>>

CheckReplay ==
    /\ \/ /\ status = "replay"
          /\ ReplaySome(Newest) /\ status' = "replayed" /\ UNCHANGED wal
       \/ /\ status = "replayed"
          /\ ReplayAll(Newest) /\ status' = "unlink" /\ UNCHANGED wal
       \/ /\ status = "unlink"
          /\ UnlinkWAL(Newest) /\ UNCHANGED db
          /\ status' = IF resize THEN "size" ELSE "up"
    /\ UNCHANGED <<dir, meta, resize>>

CheckSize ==
    /\ \/ status = "size" /\ SetMeta(Newest, "torn") /\ status' = "resize"
       \/ status = "resize" /\ SetMeta(Newest, "sized") /\ status' = "up"
    /\ UNCHANGED <<dir, db, wal, resize>>

Check ==
    /\ \/ status = "down" /\ RemoveTmpFiles /\ status' = "cleaned" /\ UNCHANGED <<dir, meta, resize>>
       \/ status = "cleaned" /\ RemoveTmpDirs /\ status' = "inspect" /\ UNCHANGED <<db, wal, resize>>
       \/ Inspect
       \/ CheckReplay
       \/ CheckSize
    /\ UNCHANGED <<fullNeeded, named, lock, sink, rdr, crashes, faults>>

----------------------------------------------------------------------------
(* The callers, as far as the Store can tell: Raft asks for a snapshot of  *)
(* index i, which stands for database version v, and the FSM provides the  *)
(* whole database, the WAL since the newest snapshot, or nothing when the  *)
(* database has not changed since.                                         *)

CreateAny(w) ==
    \E i \in Index \ {0} :
        \/ Create(w, i, i)
        \/ Live # {} /\ want[Newest] <= i /\ Create(w, i, want[Newest])

WriteFull(w) ==
    sink[w].pc = "open" /\ Write(w, "db", Whole(want[sink[w].id]))

WriteWAL(w) ==
    /\ sink[w].pc = "open" /\ Live # {}
    /\ want[Newest] < want[sink[w].id]
    /\ Write(w, "wal", <<want[Newest], want[sink[w].id]>>)

CloseWritten(w) ==
    /\ sink[w].pc = "open"
    /\ Live # {} /\ sink[w].kind = "empty" => want[Newest] = want[sink[w].id]
    /\ CloseSink(w)

Next ==
    \/ \E w \in Writers :
          \/ CreateAny(w) \/ WriteFull(w) \/ WriteWAL(w)
          \/ CloseWritten(w) \/ Cancel(w) \/ SinkStep(w) \/ IOError(w)
    \/ \E r \in Readers : List(r) \/ Open(r) \/ CloseSnapshot(r)
    \/ SetFullNeeded
    \/ Crash
    \/ Check

Spec == Init /\ [][Next]_vars

\* Raft closes or cancels every Sink it is given, a goroutine inside Close runs
\* to its end, and a node that went down is started again.
FairSpec ==
    /\ Spec
    /\ \A w \in Writers : WF_vars(SinkStep(w)) /\ WF_vars(CloseWritten(w) \/ Cancel(w))
    /\ \A r \in Readers : WF_vars(CloseSnapshot(r))
    /\ WF_vars(Check)

----------------------------------------------------------------------------
(* What a restart would make of the directory.                             *)

\* The database image check() would leave for the newest snapshot.
RecoveredImage ==
    LET n == Newest
        base == IF db[n] # NoFile \/ Live = {n} THEN db[n] ELSE db[Prev(n)]
    IN  IF wal[n] = NoFile \/ base = NoFile THEN base ELSE Replay(base, wal[n])

\* No crash damages the latest snapshot: whatever system call it interrupted,
\* check() finds in the directory the whole database of the version that the
\* newest snapshot stands for.
LatestIsWhole == Live # {} => RecoveredImage = Whole(want[Newest])

\* A reader that Open gave a snapshot reads exactly the version the snapshot
\* stands for, for as long as it has it open: no Sink moves, checkpoints or
\* reaps the file under it.
OpenIsStable ==
    \A r \in Readers : rdr[r].pc = "open" =>
        /\ dir[rdr[r].id] = "live"
        /\ db[rdr[r].id] = Whole(want[rdr[r].id])

\* NewStore refuses to start only when a crash caught updateMetaSize or Reap
\* between removing the content of a meta.json and completing the operation:
\* no data file is ever missing.
FailsOnlyOnMeta == status = "failed" => ~Readable

\* Every snapshot that Open or a restart finds is whole, and none but a torn
\* meta.json keeps the Store from opening (Sink.Close, Reap, check).
SnapshotsAreWhole == LatestIsWhole /\ OpenIsStable /\ FailsOnlyOnMeta

\* The Store does not stay locked or half-closed: whatever errors Close meets
\* and however often the node crashes, it comes back to a state in which the
\* next snapshot may be created, or it refuses to start.
Available == []<>(status = "failed" \/ (status = "up" /\ ~writerActive))

\* The Store implements the atomic replacement of one snapshot by the next.
Latest == IF Live = {} THEN << >> ELSE <<idx[Newest], RecoveredImage>>
Atomic == INSTANCE AtomicSnapshots WITH latest <- Latest, Indexes <- Index, Versions <- Version
RefinesAtomic == Atomic!Spec

Replayable == Live # {} /\ db[Newest] # NoFile /\ wal[Newest] # NoFile

OpenReaders == {r \in Readers : rdr[r].pc = "open"}

\* MultiRSW and the threads agree: at most one thread holds a Sink, and only
\* with the write lock; the reader count is the number of open snapshots and
\* is zero beside a writer; nobody holds anything in a process that is not up.
LockDiscipline ==
    /\ \A w \in Writers : sink[w].pc # "idle" => writerActive
    /\ \A v, w \in Writers : sink[v].pc # "idle" /\ sink[w].pc # "idle" => v = w
    /\ numReaders = Cardinality(OpenReaders)
    /\ writerActive => numReaders = 0
    /\ status # "up" => ~writerActive /\ \A r \in Readers : rdr[r].pc = "idle"

PhaseOf(w) ==
    /\ sink[w].pc # "idle" => sink[w].id \in ID
    /\ sink[w].pc \in {"open", "process", "rename", "commit"} => dir[sink[w].id] = "tmp"
    /\ sink[w].pc = "move" => Live # {} /\ Live # {Newest}
    /\ sink[w].pc \in {"replay", "replayed"} => Replayable

\* What each stage of Close, and of check(), relies on: the files it is about to
\* rename or replay are there, whatever other threads and crashes did.
Phases ==
    /\ \A w \in Writers : PhaseOf(w)
    /\ status \in {"replay", "replayed"} => Replayable

\* Threads exclude each other, and therefore find the files they count on, and
\* every state is well typed.
StoreInv == TypeOK /\ LockDiscipline /\ Phases

\* While any reader has a snapshot open, no step renames, rewrites or removes a
\* directory or data file of the Store, unless the node crashes.
ReadersFreezeStore ==
    [][(\E r \in Readers : rdr[r].pc = "open" /\ rdr'[r].pc = "open")
         => UNCHANGED <<dir, meta, db, wal>>]_vars
============================================================================
