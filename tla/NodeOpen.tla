------------------------------ MODULE NodeOpen ------------------------------
(***************************************************************************)
(* A node that starts from what is on its disk: the test for existing data *)
(* before an automatic restore (store.HasData), and Store.Open: the        *)
(* upgrade of a version 7 snapshot directory (snapshot/upgrader.go), the   *)
(* recovery from a peers file (RecoverNode, store/state.go), a fresh       *)
(* database and the Raft system, which restores the newest snapshot and    *)
(* applies the log.  The process may die between any two steps.            *)
(*                                                                         *)
(* A database is the sequence of the log entries applied to it.  A Store   *)
(* of snapshots keeps the newest one, atomically (module SnapshotStore).   *)
(***************************************************************************)
EXTENDS Naturals, Sequences

CONSTANTS
    LastIndex,      \* last entry in the log of the cluster
    MaxCrashes      \* bound

ASSUME OpenParameters == LastIndex \in Nat \ {0} /\ MaxCrashes \in Nat

VARIABLES
    pc,             \* where the starting process is
    old,            \* version 7 directory: the indexes of its snapshots, or NoDir
    tmp,            \* temporary directory of an upgrade: "none", "made", "filled"
    rsnapshots,     \* the version 8 directory exists
    latest,         \* its newest snapshot; index 0 if it has none
    first,          \* the log holds first..LastIndex
    configEntry,    \* the entry of the log that holds the last configuration
    peers,          \* raft/peers.json: "none", or one that is "valid" or "invalid"
    recovery,       \* recovery.db: the main file and its WAL
    db, conf,       \* the database and the configuration of the node once open
    crashes,
    asked,          \* history: there was a peers file
    excused         \* history: the node died between replaying and the snapshot, or
                    \* the version 8 directory was made before the upgrade looked for it

openVars == <<pc, old, tmp, rsnapshots, latest, first, configEntry, peers, recovery, db, conf,
              crashes, asked, excused>>
diskVars == <<old, tmp, rsnapshots, latest, first, configEntry, peers, recovery>>
histVars == <<crashes, asked, excused>>

NoDir == {0}
Index == 1..LastIndex
UpTo(i) == [k \in 1..i |-> k]
SnapAt(i) == [idx |-> i, db |-> UpTo(i), conf |-> "log"]
NoSnap == SnapAt(0)
Mixed == <<0>>              \* a main file under a WAL written for another one
NoRecovery == [exists |-> FALSE, main |-> << >>, base |-> << >>, wal |-> << >>]

\* A version 8 node, or one of version 7 whose log was compacted up to its
\* newest snapshot at most.
OpenInit ==
    /\ pc = "down" /\ tmp = "none" /\ recovery = NoRecovery
    /\ \/ /\ old = NoDir /\ rsnapshots = TRUE
          /\ latest \in {SnapAt(i) : i \in 0..LastIndex}
          /\ first \in 1..latest.idx + 1
       \/ /\ old \in SUBSET Index /\ rsnapshots = FALSE /\ latest = NoSnap
          /\ first \in 1..LastIndex + 1
          /\ first = 1 \/ \E i \in old : first <= i + 1
    /\ configEntry \in Index
    /\ peers \in {"none", "valid", "invalid"} /\ asked = (peers # "none")
    /\ db = << >> /\ conf = "none"
    /\ crashes = 0 /\ excused = FALSE

Step(from, to) == pc = from /\ pc' = to

\* The process starts; with an automatic restore it looks for data first, which
\* creates the version 8 directory.
HasData(autoRestore) ==
    /\ pc = "down" /\ pc' = "upgrade"
    /\ rsnapshots' = (rsnapshots \/ autoRestore)
    /\ excused' = (excused \/ (~rsnapshots /\ autoRestore))
    /\ UNCHANGED <<old, tmp, latest, first, configEntry, peers, recovery, db, conf, crashes, asked>>

-----------------------------------------------------------------------------
(* Upgrade7To8.                                                            *)

\* What an interrupted upgrade has left is removed, and an old directory that
\* is empty, or that a version 8 directory has replaced.
UpgradeNotNeeded ==
    /\ Step("upgrade", "store")
    /\ old \in {NoDir, {}} \/ rsnapshots
    /\ tmp' = "none" /\ old' = NoDir
    /\ UNCHANGED <<rsnapshots, latest, first, configEntry, peers, recovery, db, conf, histVars>>

UpgradeBegin ==
    /\ Step("upgrade", "copying")
    /\ old \notin {NoDir, {}} /\ ~rsnapshots
    /\ tmp' = "made"
    /\ UNCHANGED <<old, rsnapshots, latest, first, configEntry, peers, recovery, db, conf, histVars>>

UpgradeCopy ==
    /\ Step("copying", "rename")
    /\ tmp' = "filled"
    /\ UNCHANGED <<old, rsnapshots, latest, first, configEntry, peers, recovery, db, conf, histVars>>

getNewest7Snapshot == CHOOSE i \in old : \A j \in old : i >= j
\* Mutant: the snapshots are sorted the other way round.
getOldest7Snapshot == CHOOSE i \in old : \A j \in old : i <= j

\* Mutant: the oldest snapshot of the old directory is taken.
UpgradeRename_Oldest ==
    /\ Step("rename", "removeOld")
    /\ tmp' = "none" /\ rsnapshots' = TRUE /\ latest' = SnapAt(getOldest7Snapshot)
    /\ UNCHANGED <<old, first, configEntry, peers, recovery, db, conf, histVars>>

UpgradeRename ==
    /\ Step("rename", "removeOld")
    /\ tmp' = "none" /\ rsnapshots' = TRUE /\ latest' = SnapAt(getNewest7Snapshot)
    /\ UNCHANGED <<old, first, configEntry, peers, recovery, db, conf, histVars>>

UpgradeDone ==
    /\ Step("removeOld", "store")
    /\ old' = NoDir
    /\ UNCHANGED <<tmp, rsnapshots, latest, first, configEntry, peers, recovery, db, conf, histVars>>

-----------------------------------------------------------------------------
(* The snapshot store, and RecoverNode.                                    *)

NewStore ==
    /\ Step("store", IF peers = "none" THEN "raft" ELSE "recover")
    /\ rsnapshots' = TRUE
    /\ UNCHANGED <<old, tmp, latest, first, configEntry, peers, recovery, db, conf, histVars>>

\* SQLite's view of recovery.db.
RecoveredDb(r) == CASE r.wal = << >>     -> r.main
                [] r.base = r.main   -> r.main \o r.wal
                [] OTHER             -> Mixed

\* An invalid peers file: the process ends, and every later start does.
checkRaftConfiguration ==
    /\ Step("recover", "refused") /\ peers = "invalid"
    /\ UNCHANGED <<diskVars, db, conf, histVars>>

\* The newest snapshot is copied over recovery.db; without one the file is
\* opened as it is found, and a WAL next to no file is dropped.
RecoverCopy ==
    /\ Step("recover", "replay") /\ peers = "valid"
    /\ recovery' = [exists |-> TRUE,
                    main |-> IF latest.idx > 0 THEN latest.db ELSE recovery.main,
                    base |-> recovery.base,
                    wal  |-> IF latest.idx = 0 /\ ~recovery.exists THEN << >> ELSE recovery.wal]
    /\ db' = << >> /\ conf' = "none"
    /\ UNCHANGED <<old, tmp, rsnapshots, latest, first, configEntry, peers, histVars>>

\* Entries past the snapshot; db counts them here.
Replayed == Len(db)
ReplayFrom == latest.idx + 1
RecoverReplay ==
    /\ pc = "replay" /\ pc' = pc
    /\ ReplayFrom + Replayed \in first..LastIndex
    /\ LET r == recovery IN
       recovery' = IF r.wal = << >> THEN [r EXCEPT !.base = r.main, !.wal = <<ReplayFrom + Replayed>>]
                   ELSE [r EXCEPT !.wal = Append(@, ReplayFrom + Replayed)]
    /\ db' = Append(db, ReplayFrom + Replayed)
    /\ UNCHANGED <<old, tmp, rsnapshots, latest, first, configEntry, peers, conf, histVars>>

RecoverCheckpoint ==
    /\ Step("replay", "persist")
    /\ ReplayFrom + Replayed \notin first..LastIndex
    /\ recovery' = [exists |-> TRUE, main |-> RecoveredDb(recovery), base |-> << >>, wal |-> << >>]
    /\ UNCHANGED <<old, tmp, rsnapshots, latest, first, configEntry, peers, db, conf, histVars>>

\* The snapshot takes the index of the last entry replayed.
RecoverPersist ==
    /\ Step("persist", "compact")
    /\ latest' = [idx |-> latest.idx + Replayed, db |-> recovery.main, conf |-> "peers"]
    /\ UNCHANGED <<old, tmp, rsnapshots, first, configEntry, peers, recovery, db, conf, histVars>>

\* The log is deleted; the deferred Remove takes the main file only.
RecoverCompact ==
    /\ Step("compact", "renamePeers")
    /\ first' = LastIndex + 1
    /\ recovery' = [recovery EXCEPT !.exists = FALSE, !.main = << >>]
    /\ UNCHANGED <<old, tmp, rsnapshots, latest, configEntry, peers, db, conf, histVars>>

RenamePeers ==
    /\ Step("renamePeers", "raft")
    /\ peers' = "none"
    /\ UNCHANGED <<old, tmp, rsnapshots, latest, first, configEntry, recovery, db, conf, histVars>>

-----------------------------------------------------------------------------

\* openOnDisk removes the database, and NewRaft restores the newest snapshot and
\* goes on with the log, whose last configuration counts when it is later.
NewRaft ==
    /\ Step("raft", "open")
    /\ db' = latest.db \o [k \in 1..LastIndex - latest.idx |->
                            IF latest.idx + k >= first THEN latest.idx + k ELSE 0]
    /\ conf' = IF configEntry > latest.idx /\ configEntry >= first THEN "log" ELSE latest.conf
    /\ UNCHANGED <<diskVars, histVars>>

\* The node dies, or is stopped and started again.
Crash ==
    /\ pc # "down" /\ pc' = "down"
    /\ crashes < MaxCrashes /\ crashes' = crashes + 1
    /\ excused' = (excused \/ pc \in {"replay", "persist"})
    /\ db' = << >> /\ conf' = "none"
    /\ UNCHANGED <<diskVars, asked>>

OpenNext ==
    \/ \E autoRestore \in BOOLEAN : HasData(autoRestore)
    \/ UpgradeNotNeeded \/ UpgradeBegin \/ UpgradeCopy \/ UpgradeRename \/ UpgradeDone
    \/ NewStore \/ checkRaftConfiguration \/ RecoverCopy \/ RecoverReplay \/ RecoverCheckpoint
    \/ RecoverPersist \/ RecoverCompact \/ RenamePeers \/ NewRaft \/ Crash

OpenSpec == OpenInit /\ [][OpenNext]_openVars

-----------------------------------------------------------------------------
(***************************************************************************)
(* Properties.                                                             *)
(***************************************************************************)
\* Once a peers file was found and the node has opened, the configuration is the
\* one the file gave, and the file is gone, so that it is used once.
PeersUsed == pc = "open" /\ asked => conf = "peers" /\ peers = "none"

\* A node that is open has applied every entry of the log exactly once, and has
\* the configuration it was given, whatever version its data is of and wherever
\* earlier starts died.  Excused: a death while recovering, before the snapshot
\* (recovery.db is left behind, and replayed upon), and version 7 data on a node
\* started with an automatic restore (HasData makes the directory whose absence
\* Upgrade7To8 goes by, which then deletes the old one).
OpenedIsExact == (pc = "open" /\ ~excused => db = UpTo(LastIndex)) /\ PeersUsed
=============================================================================
