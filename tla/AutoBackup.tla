----------------------------- MODULE AutoBackup -----------------------------
(***************************************************************************)
(* Automatic backups: every node runs an Uploader                          *)
(* (auto/backup/uploader.go) that, while the node is the leader, copies    *)
(* the main database file (Store.Backup through store/provider.go) and     *)
(* sends it to one object of a storage service, under the index of the     *)
(* last change.  Meanwhile entries are applied to the WAL, snapshots move  *)
(* the WAL into the main file, a LOAD replaces the file, leadership moves  *)
(* and nodes restart.                                                      *)
(*                                                                         *)
(* A file is a pair of pages, each holding the version that wrote it last. *)
(***************************************************************************)
EXTENDS Naturals, Sequences

CONSTANTS
    Node,
    MaxLog,             \* bound: committed changes
    MaxLeaderMoves,     \* bound
    MaxRestarts,        \* bound
    MaxFailures,        \* bound: failed uploads, failed copies
    NumRetries          \* Provider.nRetries

ASSUME BackupParameters ==
    /\ MaxLog \in Nat /\ MaxLeaderMoves \in Nat /\ MaxRestarts \in Nat
    /\ MaxFailures \in Nat /\ NumRetries \in Nat

VARIABLES
    committed,          \* changes in the Raft log
    applied,            \* dbAppliedIdx of each node, also the version queries see
    file,               \* main database file of each node
    cas,                \* owner of snapshotCAS on each node, or "free"
    leader,
    uploader,           \* the goroutine of each node
    lastIndex,          \* Uploader.lastIndex of each node
    stored,             \* the object in the storage service
    vacuum,             \* Provider.vacuum, fixed by the configuration
    moves, restarts, failures

backupVars == <<committed, applied, file, cas, leader, uploader, lastIndex, stored, vacuum,
                moves, restarts, failures>>

NoFd == << >>
Waiting == [pc |-> "wait", li |-> 0, tries |-> 0, fd |-> NoFd, src |-> NoFd, page |-> 0]
Whole(v) == <<v, v>>
NoObject == [id |-> 0, data |-> Whole(0)]

BackupInit ==
    /\ committed = 0 /\ applied = [n \in Node |-> 0]
    /\ file = [n \in Node |-> Whole(0)]
    /\ cas = [n \in Node |-> "free"]
    /\ leader \in Node
    /\ uploader = [n \in Node |-> Waiting] /\ lastIndex = [n \in Node |-> 0]
    /\ stored = NoObject /\ vacuum \in BOOLEAN
    /\ moves = 0 /\ restarts = 0 /\ failures = 0

-----------------------------------------------------------------------------
(* The cluster and the node's database.                                    *)

CommitChange ==
    /\ committed < MaxLog
    /\ committed' = committed + 1
    /\ UNCHANGED <<applied, file, cas, leader, uploader, lastIndex, stored, vacuum, moves, restarts,
                   failures>>

\* The FSM's thread is busy while it takes a snapshot.
FsmFree(n) == applied[n] < committed /\ cas[n] # "snapshot"

\* fsmApply of a statement: the change goes to the WAL.
ApplyChange(n) ==
    /\ FsmFree(n)
    /\ applied' = [applied EXCEPT ![n] = @ + 1]
    /\ UNCHANGED <<committed, file, cas, leader, uploader, lastIndex, stored, vacuum, moves,
                   restarts, failures>>

\* fsmApply of a LOAD: another file takes the path; a copy that is under way
\* goes on with the file it has open.
ApplyLoad(n) ==
    /\ FsmFree(n)
    /\ applied' = [applied EXCEPT ![n] = @ + 1]
    /\ file' = [file EXCEPT ![n] = Whole(applied[n] + 1)]
    /\ uploader' = [uploader EXCEPT ![n] = IF @.pc = "copy" /\ @.src = NoFd
                                           THEN [@ EXCEPT !.src = file[n]] ELSE @]
    /\ UNCHANGED <<committed, cas, leader, lastIndex, stored, vacuum, moves, restarts, failures>>

\* fsmSnapshot takes the gate and moves the WAL into the main file, page by page.
SnapshotBegin(n) ==
    /\ cas[n] = "free" /\ file[n] # Whole(applied[n])
    /\ cas' = [cas EXCEPT ![n] = "snapshot"]
    /\ file' = [file EXCEPT ![n][1] = applied[n]]
    /\ UNCHANGED <<committed, applied, leader, uploader, lastIndex, stored, vacuum, moves, restarts,
                   failures>>

\* The checkpoint completes.  One that a reader keeps from completing fails the
\* snapshot and may leave the main file with a part of the WAL's frames; it is left
\* out, and with it a copy begun between such a failure and the next snapshot.
SnapshotEnd(n) ==
    /\ cas[n] = "snapshot"
    /\ cas' = [cas EXCEPT ![n] = "free"]
    /\ file' = [file EXCEPT ![n][2] = applied[n]]
    /\ UNCHANGED <<committed, applied, leader, uploader, lastIndex, stored, vacuum, moves, restarts,
                   failures>>

LeaderMove(n) ==
    /\ moves < MaxLeaderMoves /\ n # leader
    /\ leader' = n /\ moves' = moves + 1
    /\ UNCHANGED <<committed, applied, file, cas, uploader, lastIndex, stored, vacuum, restarts,
                   failures>>

\* A node that restarts applies its log again, and its Uploader knows nothing.
Restart(n) ==
    /\ restarts < MaxRestarts
    /\ restarts' = restarts + 1
    /\ applied' = [applied EXCEPT ![n] = 0]
    /\ file' = [file EXCEPT ![n] = Whole(0)]
    /\ cas' = [cas EXCEPT ![n] = "free"]
    /\ uploader' = [uploader EXCEPT ![n] = Waiting]
    /\ lastIndex' = [lastIndex EXCEPT ![n] = 0]
    /\ UNCHANGED <<committed, leader, stored, vacuum, moves, failures>>

-----------------------------------------------------------------------------
(* The Uploader of node n.                                                 *)

Go(n, u) == uploader' = [uploader EXCEPT ![n] = u]
At(n, pc) == uploader[n].pc = pc
dbVars == <<committed, applied, file, leader, vacuum, moves, restarts>>

\* The ticker fires on the leader, and something has changed since last time.
UploadStart(n) ==
    /\ At(n, "wait") /\ leader = n
    /\ applied[n] > lastIndex[n]
    /\ Go(n, [Waiting EXCEPT !.pc = "wal", !.li = applied[n]])
    /\ UNCHANGED <<dbVars, cas, lastIndex, stored, failures>>

\* Backup goes on when the WAL is empty, which Snapshot(0) sees to: it returns
\* once fsmSnapshot has run, with or without the error it tolerates.
BackupWal(n) ==
    /\ At(n, "wal") /\ ~vacuum /\ cas[n] = "free"
    /\ IF file[n] = Whole(applied[n])
       THEN /\ Go(n, [uploader[n] EXCEPT !.pc = "begin"])
            /\ UNCHANGED <<cas, file>>
       ELSE /\ Go(n, [uploader[n] EXCEPT !.pc = "snapshotting"])
            /\ cas' = [cas EXCEPT ![n] = "snapshot"]
            /\ file' = [file EXCEPT ![n][1] = applied[n]]
    /\ UNCHANGED <<committed, applied, leader, vacuum, moves, restarts, lastIndex, stored, failures>>

\* With Vacuum, SQLite writes a copy of the database, WAL included.
BackupVacuum(n) ==
    /\ At(n, "wal") /\ vacuum
    /\ Go(n, [uploader[n] EXCEPT !.pc = "check", !.fd = Whole(applied[n])])
    /\ UNCHANGED <<dbVars, cas, lastIndex, stored, failures>>

BackupSnapshotted(n) ==
    /\ At(n, "snapshotting") /\ cas[n] # "snapshot"
    /\ Go(n, [uploader[n] EXCEPT !.pc = "begin"])
    /\ UNCHANGED <<dbVars, cas, lastIndex, stored, failures>>

\* Backup failed.  Provide tries again, into the same file descriptor.
Retry(n, fd) ==
    Go(n, IF uploader[n].tries < NumRetries
          THEN [uploader[n] EXCEPT !.pc = "wal", !.tries = @ + 1, !.fd = fd,
                                  !.src = NoFd, !.page = 0]
          ELSE Waiting)

\* Mutant: the gate is not taken.
BackupBegin_NoGate(n) ==
    /\ At(n, "begin")
    /\ Go(n, [uploader[n] EXCEPT !.pc = "copy"])
    /\ UNCHANGED <<dbVars, cas, lastIndex, stored, failures>>

\* snapshotCAS.Begin("backup"), and the file is opened.
BackupBegin(n) ==
    /\ At(n, "begin")
    /\ IF cas[n] = "free"
       THEN /\ cas' = [cas EXCEPT ![n] = "backup"]
            /\ Go(n, [uploader[n] EXCEPT !.pc = "copy"])
       ELSE /\ Retry(n, uploader[n].fd)
            /\ UNCHANGED cas
    /\ UNCHANGED <<dbVars, lastIndex, stored, failures>>

Source(n) == IF uploader[n].src # NoFd THEN uploader[n].src ELSE file[n]
Copied(n) == [uploader[n] EXCEPT !.page = @ + 1, !.fd = Append(@, Source(n)[uploader[n].page + 1])]

\* io.Copy, a page at a time; the last one releases the gate.
CopyPage(n) ==
    /\ At(n, "copy")
    /\ IF uploader[n].page = 0
       THEN /\ Go(n, Copied(n))
            /\ UNCHANGED cas
       ELSE /\ Go(n, [Copied(n) EXCEPT !.pc = "check"])
            /\ cas' = [cas EXCEPT ![n] = "free"]
    /\ UNCHANGED <<dbVars, lastIndex, stored, failures>>

\* The copy fails half-way: what was written stays in the file descriptor.
CopyFails(n) ==
    /\ At(n, "copy") /\ failures < MaxFailures
    /\ failures' = failures + 1
    /\ cas' = [cas EXCEPT ![n] = "free"]
    /\ Retry(n, uploader[n].fd)
    /\ UNCHANGED <<dbVars, lastIndex, stored>>

\* Mutant: any stored object will do.
CheckID_AnyObject(n) ==
    /\ At(n, "check")
    /\ Go(n, IF lastIndex[n] = 0 /\ stored.id # 0
             THEN Waiting ELSE [uploader[n] EXCEPT !.pc = "upload"])
    /\ UNCHANGED <<dbVars, cas, lastIndex, stored, failures>>

\* The first upload since the start looks at what is stored.
CheckID(n) ==
    /\ At(n, "check")
    /\ Go(n, IF lastIndex[n] = 0 /\ stored.id = uploader[n].li
             THEN Waiting ELSE [uploader[n] EXCEPT !.pc = "upload"])
    /\ UNCHANGED <<dbVars, cas, lastIndex, stored, failures>>

Store(n) == stored' = [id |-> uploader[n].li, data |-> uploader[n].fd]

UploadOK(n) ==
    /\ At(n, "upload")
    /\ Store(n)
    /\ lastIndex' = [lastIndex EXCEPT ![n] = uploader[n].li]
    /\ Go(n, Waiting)
    /\ UNCHANGED <<dbVars, cas, failures>>

\* The upload fails, or only its answer is lost.
UploadFails(n) ==
    /\ At(n, "upload") /\ failures < MaxFailures
    /\ failures' = failures + 1
    /\ Store(n) \/ UNCHANGED stored
    /\ Go(n, Waiting)
    /\ UNCHANGED <<dbVars, cas, lastIndex>>

UploaderStep(n) ==
    UploadStart(n) \/ BackupWal(n) \/ BackupVacuum(n) \/ BackupSnapshotted(n) \/ BackupBegin(n)
    \/ CopyPage(n) \/ CheckID(n) \/ UploadOK(n)

BackupNext ==
    \/ CommitChange
    \/ \E n \in Node :
          \/ ApplyChange(n) \/ ApplyLoad(n) \/ SnapshotBegin(n) \/ SnapshotEnd(n)
          \/ LeaderMove(n) \/ Restart(n)
          \/ UploaderStep(n) \/ CopyFails(n) \/ UploadFails(n)

\* The FSM and the Uploader run; failures are bounded by MaxFailures.
BackupFairness ==
    \A n \in Node :
       /\ WF_backupVars(ApplyChange(n)) /\ WF_backupVars(SnapshotEnd(n))
       /\ WF_backupVars(UploaderStep(n))

BackupSpec == BackupInit /\ [][BackupNext]_backupVars /\ BackupFairness

-----------------------------------------------------------------------------
(***************************************************************************)
(* Properties.                                                             *)
(***************************************************************************)
\* What is stored under an index is a database as it was at some time, and at
\* a time no earlier than that index: a copy is never mixed from two versions
\* and never leaves the WAL's changes out.  (A copy that failed half-way and was
\* tried again is longer than a database: the file is not truncated.)
StoredIsWhole ==
    /\ Len(stored.data) = 2 => /\ stored.data[1] = stored.data[2]
                               /\ stored.data[1] >= stored.id
    /\ Len(stored.data) # 2 => failures > 0

\* When changes and leadership come to rest, what is stored comes to hold the
\* last change, through failed uploads, restarts and a leader that is behind -
\* unless another node has overwritten what the leader had uploaded.
LastChangeIsStored == <>[](stored.id = committed \/ lastIndex[leader] > stored.id)
=============================================================================
