--------------------------- MODULE WalCompaction ---------------------------
(***************************************************************************)
(* The compaction of a WAL for an incremental snapshot (db/wal): the fast  *)
(* CompactingScanner reads the frames of the file that SQLite writes, and  *)
(* the Writer writes the last frame of each page to a new WAL, which the   *)
(* Snapshot Store applies to its own copy of the database.                 *)
(*                                                                         *)
(* A frame's checksum covers every frame before it: chain is the frame it  *)
(* was written behind.  A page's content is the serial number of the frame *)
(* that wrote it.  SQLite is external: it writes frames before a           *)
(* transaction ends when its cache is full, a rollback leaves them in the  *)
(* file, the next transaction overwrites them, and a WAL that is all in    *)
(* the database may be started again from its beginning under a new salt.  *)
(***************************************************************************)
EXTENDS Naturals, Sequences, SequencesExt, Ordered

CONSTANTS Pages,        \* the largest size of the database
          MaxFrames     \* bound: frames ever written

ASSUME WalParameters == Pages \in Nat \ {0} /\ MaxFrames \in Nat

VARIABLES
    main,       \* the database file: its pages, as the WAL found them
    wal,        \* the WAL file: its frames
    salt,       \* the salt in its header: another one for each new WAL
    mxFrame,    \* SQLite's end of the committed frames
    written,    \* the frames of the open transaction, from mxFrame on
    moved,      \* a checkpoint has put all committed frames into the database file
    copy,       \* the database of the Snapshot Store
    missed,     \* history: a WAL was started again whose frames no snapshot has
    rebuilt,    \* history: main with the compacted WAL of the last snapshot applied
    scanned,    \* the last answer of the scanner
    serial

storeCopy == <<copy, missed, rebuilt>>
walVars == <<main, wal, salt, mxFrame, written, moved, storeCopy, scanned, serial>>

PageNo == 1..Pages

WalInit ==
    /\ main = <<0>> /\ copy = <<0>> /\ rebuilt = <<0>>
    /\ wal = << >> /\ salt = 0 /\ mxFrame = 0 /\ written = 0
    /\ moved = FALSE /\ missed = FALSE
    /\ scanned = "none" /\ serial = 0

-----------------------------------------------------------------------------
(* SQLite.                                                                 *)

\* The database db with the frames f, of which the last is committing, applied.  A
\* page that is in neither is a hole in the file.
Applied(db, f) ==
    IF f = << >> THEN db
    ELSE [p \in 1..Last(f).commit |->
            LET at == {i \in DOMAIN f : f[i].pgno = p}
            IN  IF at # {} THEN f[CHOOSE i \in at : \A j \in at : j <= i].serial
                ELSE IF p \in DOMAIN db THEN db[p] ELSE 0]

Committed == SubSeq(wal, 1, mxFrame)
Content == Applied(main, Committed)

\* The serial number of the frame before the i-th, 0 for the header.
Before(f, i) == IF i = 1 THEN 0 ELSE f[i - 1].serial

\* A frame is written at the i-th place, over what is there.
WriteFrame(i, pgno, commit) ==
    /\ serial < MaxFrames /\ serial' = serial + 1
    /\ wal' = SubSeq(wal, 1, i - 1)
              \o <<[pgno |-> pgno, commit |-> commit, salt |-> salt', serial |-> serial',
                    chain |-> Before(wal, i)]>>
              \o SubSeq(wal, i + 1, Len(wal))

\* The cache is full.
Spill(pgno) ==
    /\ salt' = salt
    /\ WriteFrame(mxFrame + written + 1, pgno, 0)
    /\ written' = written + 1
    /\ UNCHANGED <<main, mxFrame, moved, storeCopy, scanned>>

\* A transaction ends with a frame that says how large the database is; each of
\* its pages up to there is in the transaction or in the database.
CommitTx(pgno, size) ==
    /\ salt' = salt
    /\ pgno <= size
    /\ \A p \in 1..size : \/ p \in DOMAIN Content \/ p = pgno
                          \/ \E i \in 1..written : wal[mxFrame + i].pgno = p
    /\ WriteFrame(mxFrame + written + 1, pgno, size)
    /\ mxFrame' = mxFrame + written + 1 /\ written' = 0 /\ moved' = FALSE
    /\ UNCHANGED <<main, storeCopy, scanned>>

RollbackTx ==
    /\ written > 0 /\ written' = 0
    /\ UNCHANGED <<main, wal, salt, mxFrame, moved, storeCopy, scanned, serial>>

\* The checkpoint of a snapshot moves all frames but is too busy to truncate the WAL:
\* the snapshot fails.  (A frame that was moved, alone or with all others, is still
\* read from the WAL.)
BusyCheckpoint ==
    /\ written = 0 /\ mxFrame > 0 /\ ~moved
    /\ moved' = TRUE
    /\ UNCHANGED <<main, wal, salt, mxFrame, written, storeCopy, scanned, serial>>

\* A WAL whose frames are all in the database is written from its beginning under a
\* new salt.  fsmSnapshot has stored the file's modification time in spite of its
\* failure, so nothing asks for a full snapshot, which alone would have the frames.
RestartWal(pgno, size) ==
    /\ moved /\ written = 0
    /\ pgno <= size /\ \A p \in 1..size : p \in DOMAIN Content \/ p = pgno
    /\ main' = Content
    /\ salt' = serial
    /\ WriteFrame(1, pgno, size) /\ mxFrame' = 1
    /\ moved' = FALSE /\ missed' = TRUE
    /\ UNCHANGED <<written, copy, rebuilt, scanned>>

\* A checkpoint that truncates.  It is refused in an open transaction.
Truncate ==
    /\ written = 0
    /\ main' = Content
    /\ wal' = << >> /\ mxFrame' = 0 /\ salt' = serial /\ moved' = FALSE
    /\ UNCHANGED <<written, serial>>

-----------------------------------------------------------------------------
(* Reader, CompactingScanner, Writer.                                      *)

\* How many frames the Reader returns before its end of file: as far as the salt
\* is the header's and, when it reads the pages too, the checksum is right.
Readable(f, s, full) ==
    LET Bad == {i \in DOMAIN f : f[i].salt # s \/ (full /\ f[i].chain # Before(f, i))}
    IN  IF Bad = {} THEN Len(f) ELSE (CHOOSE i \in Bad : \A j \in Bad : i <= j) - 1

Frames(full) == SubSeq(wal, 1, Readable(wal, salt, full))

\* The places of the last frame of each page.
LastOfPages(f) == {i \in DOMAIN f : \A j \in DOMAIN f : f[j].pgno = f[i].pgno => j <= i}

\* Mutant: an open transaction is not looked for.
Scan_Open(f) == [err |-> "none", frames |-> InOrder(LastOfPages(f))]

\* scan: the last frame of each page, in the order of the file; an error if the
\* last transaction is open.
Scan(f) ==
    IF f # << >> /\ Last(f).commit = 0
    THEN [err |-> "ErrOpenTransaction", frames |-> << >>]
    ELSE [err |-> "none", frames |-> InOrder(LastOfPages(f))]

\* The Writer: the same salt, and a checksum of its own for each frame.
WriteTo(f, kept) ==
    [k \in DOMAIN kept |->
       [f[kept[k]] EXCEPT !.chain = IF k = 1 THEN 0 ELSE f[kept[k - 1]].serial]]

\* fsmSnapshot, incremental: the WAL is compacted, and SQLite checkpoints and
\* truncates its own.
IncrementalSnapshot ==
    LET f == Frames(FALSE)
        s == Scan(f)
        out == WriteTo(f, s.frames)
        kept == SubSeq(out, 1, Readable(out, salt, TRUE))
    IN  /\ wal # << >>
        /\ \/ /\ s.err = "none" /\ Truncate
              /\ scanned' = "ok"
              /\ copy' = Applied(copy, kept) /\ rebuilt' = Applied(main, kept)
              /\ UNCHANGED missed
           \/ /\ s.err # "none" /\ scanned' = s.err
              /\ UNCHANGED <<main, wal, salt, mxFrame, written, moved, storeCopy, serial>>

\* A full snapshot: a checkpoint, and the database file is copied.
FullSnapshot ==
    /\ wal # << >> /\ Truncate
    /\ copy' = Content /\ missed' = FALSE
    /\ scanned' = "full"
    /\ UNCHANGED rebuilt

WalNext ==
    \/ \E p \in PageNo : Spill(p)
    \/ \E p, size \in PageNo : CommitTx(p, size) \/ RestartWal(p, size)
    \/ RollbackTx \/ BusyCheckpoint \/ IncrementalSnapshot \/ FullSnapshot

WalSpec == WalInit /\ [][WalNext]_walVars

-----------------------------------------------------------------------------
(***************************************************************************)
(* Properties.                                                             *)
(***************************************************************************)
\* Compaction loses and adds nothing: whatever was spilled, rolled back and
\* overwritten, and whatever frames of an older WAL lie behind, the compacted WAL makes
\* of the file that the WAL was begun with the database that SQLite has; and the
\* Snapshot Store's copy is the database, unless a WAL was started again between the
\* snapshots (a busy checkpoint).
CompactedIsExact ==
    wal = << >> /\ scanned = "ok" => rebuilt = Content /\ (missed \/ copy = Content)
=============================================================================
