-------------------------------- MODULE Boot --------------------------------
(***************************************************************************)
(* Booting a single-node cluster from a SQLite file (http handleBoot,      *)
(* store.go ReadFrom), the swap of the database under SwappableDB's lock,  *)
(* and the copies of the database that are made meanwhile (db.go Dump,     *)
(* Backup, Serialize).                                                     *)
(*                                                                         *)
(* ReadFrom bypasses the log: the file is swapped in by the goroutine of   *)
(* the request while the FSM applies entries, Raft takes snapshots of its  *)
(* own and nodes join.  Only the snapshot it asks for at the end makes the *)
(* file part of what the log and the snapshots say the database is.        *)
(*                                                                         *)
(* A database is the sequence of what it was made of: the entries written  *)
(* to it, after the booted file if there is one.  The Snapshot Store is    *)
(* taken as atomic, which SnapshotStore shows it to be.                    *)
(***************************************************************************)
EXTENDS Integers, Sequences, SequencesExt, Ordered

CONSTANTS
    MaxEntries,     \* bound: entries of the log
    MaxBootCrashes  \* bound: crashes

ASSUME BootBounds == MaxEntries \in Nat /\ MaxBootCrashes \in Nat

VARIABLES
    entries,        \* the kinds of the entries of the log, all committed
    firstKept,      \* the first entry still in the leader's log
    done,           \* fsmIdx of the leader
    live,           \* the leader's database: main file and WAL
    inMain,         \* so much of live is in the main file, the rest in the WAL
    flag,           \* the FULL_NEEDED file
    newer,          \* the main file's modification time is after dbModifiedTime
    upNewer,        \* so is the uploaded file's
    base,           \* the newest snapshot: its index and its database
    take,           \* Raft's runSnapshots goroutine: takeSnapshot
    boot,           \* the boot request: where ReadFrom is, the index of its noop, and
                    \* whether the file is in WAL mode, so that opening it writes nothing
    peer,           \* a second node: member or not, its index and its database
    rd,             \* a reader that holds SwappableDB's lock
    excuse,         \* history: what makes the boot differ from a LOAD
    bcrashes

leaderVars == <<done, live, inMain, newer, upNewer>>
logVars == <<entries, firstKept>>
bootVars == <<logVars, leaderVars, flag, base, take, boot, peer, rd, excuse, bcrashes>>

File == 0
Closed == <<-1>>        \* the swap failed half way: there is no open database
Corrupt == <<-2>>       \* a WAL laid over a database that it is not of

NoTake == [pc |-> "idle", idx |-> 0, full |-> FALSE, from |-> << >>, img |-> << >>, user |-> FALSE]
NoReader == [pc |-> "idle", a |-> << >>, b |-> << >>]

\* The log begins with the configuration of the one node.
BootInit ==
    /\ entries = <<"configuration">> /\ firstKept = 1
    /\ done = 1 /\ live = << >> /\ inMain = 0
    /\ newer = FALSE /\ upNewer = FALSE
    /\ flag = FALSE
    /\ base = [idx |-> 0, db |-> << >>]
    /\ take = NoTake
    /\ boot = [pc |-> "idle", idx |-> 0, wal |-> FALSE]
    /\ peer = [in |-> FALSE, idx |-> 0, db |-> << >>]
    /\ rd = NoReader
    /\ excuse = {}
    /\ bcrashes = 0

\* d after the entries i + 1 .. j of a log, or of this one, have been applied to it.
AfterLog(log, d, i, j) == d \o InOrder({k \in (i + 1)..j : log[k] = "write"})
After(d, i, j) == AfterLog(entries, d, i, j)

\* What the leader's database will be after a restart.
Recovered == After(base.db, base.idx, done)

----------------------------------------------------------------------------
(* The log and the FSM of the leader.                                      *)

Propose ==
    /\ Len(entries) < MaxEntries
    /\ entries' = Append(entries, "write")
    /\ UNCHANGED <<firstKept, leaderVars, flag, base, take, boot, peer, rd, excuse, bcrashes>>

\* fsmSnapshot and fsmApply run on one thread.
ApplyNext ==
    /\ done < Len(entries) /\ take.pc # "fsm"
    /\ done' = done + 1
    /\ live' = IF live = Closed THEN live ELSE After(live, done, done + 1)
    /\ UNCHANGED <<logVars, inMain, newer, upNewer, flag, base, take, boot, peer, rd, excuse, bcrashes>>

----------------------------------------------------------------------------
(* takeSnapshot.                                                           *)

Full == flag \/ base.idx = 0 \/ newer

\* fsmSnapshot decides between a full and an incremental snapshot and copies
\* the WAL for the latter ...
TakeBegin(user) ==
    /\ take.pc = "idle" /\ done > 1 /\ live # Closed
    /\ take' = [pc |-> "fsm", idx |-> done, full |-> Full, from |-> SubSeq(live, 1, inMain),
                img |-> live, user |-> user]
    /\ excuse' = IF boot.pc = "flag" THEN excuse \cup {"raced"} ELSE excuse
    /\ UNCHANGED <<logVars, leaderVars, flag, base, peer, rd, bcrashes>>

\* Raft's own, or asked for with POST /snapshot.
TakeAuto == TakeBegin(FALSE) /\ UNCHANGED boot

\* ... then checkpoints, opens the database for a full one, and on return
\* stores the modification time of the main file.
TakeFsmDone ==
    /\ take.pc = "fsm" /\ live # Closed
    /\ take' = [take EXCEPT !.pc = "persist", !.img = IF take.full THEN live ELSE @]
    /\ inMain' = Len(live)
    /\ newer' = FALSE
    /\ upNewer' = (upNewer /\ inMain = Len(live))
    /\ UNCHANGED <<logVars, done, live, flag, base, boot, peer, rd, excuse, bcrashes>>

\* Mutant: the snapshot that ends a boot leaves the usual number of entries.
Trailing_Default == Len(entries)

\* ReadFrom calls Snapshot(1), which sets TrailingLogs while it waits.
Trailing == IF boot.pc = "snap" THEN 1 ELSE Len(entries)

BootAnswered(answer) == IF take.user THEN [boot EXCEPT !.pc = answer] ELSE boot

\* Persist and Close: the full snapshot replaces what there was, the WAL is
\* checkpointed into it, and the flag is removed.  Raft compacts the log.
TakeDone ==
    LET upto == IF take.idx < Len(entries) - Trailing THEN take.idx ELSE Len(entries) - Trailing IN
    /\ take.pc = "persist"
    /\ base' = [idx |-> take.idx,
                db |-> IF take.full THEN take.img
                       ELSE IF take.from = take.img THEN base.db
                       ELSE IF take.from = base.db THEN take.img ELSE Corrupt]
    /\ flag' = FALSE
    /\ firstKept' = IF upto >= firstKept THEN upto + 1 ELSE firstKept
    /\ boot' = BootAnswered("done")
    /\ take' = NoTake
    /\ UNCHANGED <<entries, leaderVars, peer, rd, excuse, bcrashes>>

\* The sink is refused or Persist fails: Release runs OnFailure.  A checkpoint
\* that fails leaves fsmSnapshot without one.
TakeFails ==
    /\ take.pc # "idle"
    /\ flag' = (flag \/ take.pc = "persist")
    /\ newer' = (newer /\ take.pc = "persist")
    /\ boot' = BootAnswered("failed")
    /\ excuse' = IF take.user THEN excuse \cup {"failed"} ELSE excuse
    /\ take' = NoTake
    /\ UNCHANGED <<logVars, done, live, inMain, upNewer, base, peer, rd, bcrashes>>

----------------------------------------------------------------------------
(* The boot request.                                                       *)

At(pc, next) == boot.pc = pc /\ boot' = [boot EXCEPT !.pc = next]

\* The constraints ReadFrom checks: this node leads and is alone.
SingleNode == ~peer.in

\* handleBoot.
BootCheck ==
    /\ SingleNode
    /\ At("idle", "copy")
    /\ UNCHANGED <<logVars, leaderVars, flag, base, take, peer, rd, excuse, bcrashes>>

\* The body of the request is copied to a file, or cannot be, or is not a
\* SQLite database.
BootCopy ==
    /\ boot.pc = "copy"
    /\ \/ \E w \in BOOLEAN : boot' = [boot EXCEPT !.pc = "noop", !.wal = w] /\ upNewer' = TRUE
       \/ boot' = [boot EXCEPT !.pc = "refused"] /\ UNCHANGED upNewer
    /\ UNCHANGED <<logVars, done, live, inMain, newer, flag, base, take, peer, rd, excuse, bcrashes>>

\* A noop, so that Raft has something to take a snapshot of.
BootNoop ==
    /\ boot.pc = "noop" /\ Len(entries) < MaxEntries
    /\ entries' = Append(entries, "noop")
    /\ boot' = [boot EXCEPT !.pc = "applied", !.idx = Len(entries) + 1]
    /\ UNCHANGED <<firstKept, leaderVars, flag, base, take, peer, rd, excuse, bcrashes>>

\* SwappableDB.Swap takes the lock that every other method holds for reading.
Lockable == rd.pc # "open"

Early == IF peer.in THEN {"early"} ELSE {}
Raced == IF take.pc # "idle" THEN {"raced"} ELSE {}

BootSwap ==
    /\ boot.pc = "applied" /\ boot.idx <= done /\ Lockable
    /\ boot' = [pc |-> "flag", idx |-> 0, wal |-> FALSE]
    /\ live' = <<File>> /\ inMain' = 1
    /\ newer' = (upNewer \/ ~boot.wal)
    /\ upNewer' = FALSE
    /\ excuse' = excuse \cup Early \cup Raced
    /\ UNCHANGED <<logVars, done, flag, base, take, peer, rd, bcrashes>>

\* Closing, removing, renaming or opening a file fails: the old database is
\* closed and there is no other.
BootSwapFails ==
    /\ boot.idx <= done /\ Lockable
    /\ At("applied", "failed")
    /\ live' = Closed /\ inMain' = Len(Closed)
    /\ excuse' = excuse \cup {"failed"}
    /\ UNCHANGED <<logVars, done, newer, upNewer, flag, base, take, peer, rd, bcrashes>>

BootFlag ==
    /\ At("flag", "request")
    /\ flag' = TRUE
    /\ UNCHANGED <<logVars, leaderVars, base, take, peer, rd, excuse, bcrashes>>

\* Snapshot(1) waits for a snapshot that is under way.
BootSnapshot == TakeBegin(TRUE) /\ At("request", "snap")

\* The compare-and-swap gate is held, or Raft refuses.
BootSnapshotRefused ==
    /\ take.pc = "idle"
    /\ At("request", "failed")
    /\ excuse' = excuse \cup {"failed"}
    /\ UNCHANGED <<logVars, leaderVars, flag, base, take, peer, rd, bcrashes>>

----------------------------------------------------------------------------
(* A node that joins: Raft sends it the log, or the snapshot if the log no  *)
(* longer reaches back far enough.                                          *)

Swapped == boot.pc \in {"flag", "request", "snap"}
InProgress == boot.pc \notin {"idle", "refused", "done", "failed"}

PeerJoin ==
    /\ ~peer.in
    /\ peer' = [peer EXCEPT !.in = TRUE]
    /\ excuse' = IF InProgress THEN excuse \cup {"early"} ELSE excuse
    /\ UNCHANGED <<logVars, leaderVars, flag, base, take, boot, rd, bcrashes>>

PeerApply ==
    /\ peer.in /\ peer.idx < Len(entries) /\ firstKept <= peer.idx + 1
    /\ peer' = [peer EXCEPT !.idx = @ + 1, !.db = After(@, peer.idx, peer.idx + 1)]
    /\ UNCHANGED <<logVars, leaderVars, flag, base, take, boot, rd, excuse, bcrashes>>

PeerInstall ==
    /\ peer.in /\ peer.idx + 1 < firstKept
    /\ peer' = [peer EXCEPT !.idx = base.idx, !.db = base.db]
    /\ UNCHANGED <<logVars, leaderVars, flag, base, take, boot, rd, excuse, bcrashes>>

----------------------------------------------------------------------------
(* Copies of the database.  Dump reads the tables one after the other, each *)
(* in a read transaction of its own; Backup copies in one step of SQLite's  *)
(* backup, and Serialize reads a copy that Backup made.                     *)

CopyBegin ==
    /\ rd.pc = "idle" /\ live # Closed
    /\ rd' = [pc |-> "open", a |-> live, b |-> live]
    /\ UNCHANGED <<logVars, leaderVars, flag, base, take, boot, peer, excuse, bcrashes>>

\* It is a dump: the later tables.
DumpRest ==
    /\ rd.pc = "open"
    /\ rd' = [rd EXCEPT !.pc = "written", !.b = live]
    /\ UNCHANGED <<logVars, leaderVars, flag, base, take, boot, peer, excuse, bcrashes>>

\* It is a backup: the copy is put in DELETE mode, vacuumed, or read back.
BackupRest ==
    /\ rd.pc = "open"
    /\ rd' = [rd EXCEPT !.pc = "written"]
    /\ UNCHANGED <<logVars, leaderVars, flag, base, take, boot, peer, excuse, bcrashes>>

CopyEnd ==
    /\ rd.pc = "written"
    /\ rd' = NoReader
    /\ UNCHANGED <<logVars, leaderVars, flag, base, take, boot, peer, excuse, bcrashes>>

----------------------------------------------------------------------------

\* The process dies and starts: the snapshot is restored and the log applied.
BootCrash ==
    /\ bcrashes < MaxBootCrashes
    /\ bcrashes' = bcrashes + 1
    /\ live' = Recovered /\ inMain' = Len(base.db)
    /\ newer' = FALSE /\ upNewer' = FALSE
    /\ take' = NoTake /\ rd' = NoReader
    /\ boot' = IF InProgress THEN [boot EXCEPT !.pc = "refused"] ELSE boot
    /\ excuse' = IF Swapped THEN excuse \cup {"unanswered"} ELSE excuse
    /\ UNCHANGED <<logVars, done, flag, base, peer>>

BootNext ==
    \/ Propose \/ ApplyNext
    \/ TakeAuto \/ TakeFsmDone \/ TakeDone \/ TakeFails
    \/ BootCheck \/ BootCopy \/ BootNoop \/ BootSwap \/ BootSwapFails \/ BootFlag
    \/ BootSnapshot \/ BootSnapshotRefused
    \/ PeerJoin \/ PeerApply \/ PeerInstall
    \/ CopyBegin \/ DumpRest \/ BackupRest \/ CopyEnd
    \/ BootCrash

BootSpec == BootInit /\ [][BootNext]_bootVars

----------------------------------------------------------------------------

\* No copy of the database mixes two databases: what a copy reads later extends
\* what it read first, although a boot may swap the database meanwhile.  (A dump
\* may show a later state of the same database in its later tables.)
CopyIsOfOneDatabase == rd.pc = "written" => IsPrefix(rd.a, rd.b)

\* A boot is kept: unless the request is between its swap and its answer, what
\* the snapshot and the log say is the database that is served, file included,
\* and a node that joins and catches up has it too.  Excused: a boot that failed
\* after the swap, a snapshot of Raft's own across the swap, and, for the other
\* node, a join before the answer and a crash that took the place of the answer.
\* And no copy made meanwhile mixes the two databases.
BootIsAsLoaded ==
    /\ ~Swapped =>
        /\ excuse \cap {"failed", "raced"} = {} => Recovered = live
        /\ excuse = {} /\ peer.in /\ peer.idx = done => peer.db = live
    /\ CopyIsOfOneDatabase
=============================================================================
