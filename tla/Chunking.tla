------------------------------ MODULE Chunking ------------------------------
(***************************************************************************)
(* A database loaded in chunks: the Chunker that cuts a file into numbered  *)
(* chunks (command/chunking/chunker.go), the entries they become in the     *)
(* log, and the Dechunkers by which each node's FSM puts the file together  *)
(* again and swaps it in (command/chunking/dechunker.go, the LOAD_CHUNK     *)
(* case of store/command_processor.go).  Streams are interleaved in the     *)
(* log with each other and with writes, a stream may be aborted or never    *)
(* end, and nodes restart from snapshots, which know of no Dechunker.       *)
(*                                                                          *)
(* This version's log may hold such entries, though nothing in it writes    *)
(* them any more.                                                           *)
(***************************************************************************)
EXTENDS Integers, Sequences, FiniteSets

CONSTANTS
    Streams,        \* the Chunkers
    FileLen,        \* FileLen[s]: bytes in the file of stream s
    ChunkSize,      \* the size asked for
    Replicas,
    MaxChunkLog,    \* bound: entries of the log
    MaxRestores     \* bound: restarts

ASSUME ChunkParameters ==
    /\ IsFiniteSet(Streams) /\ IsFiniteSet(Replicas)
    /\ FileLen \in [Streams -> Nat] /\ ChunkSize \in Nat \ {0}
    /\ MaxChunkLog \in Nat /\ MaxRestores \in Nat

VARIABLES
    chunker,        \* chunker[s]: bytes read, sequenceNum, finished
    clog,           \* the log
    replica,        \* replica[n]: fsmIdx, the database, the Dechunkers
    csnap,          \* csnap[n]: the newest snapshot of the node
    restored,       \* history: the nodes that restarted, with the index of the snapshot
    restores

chunkVars == <<chunker, clog, replica, csnap, restored, restores>>

Bytes(i, j) == [k \in 1..(j - i) |-> i + k]
WholeFile(s) == Bytes(0, FileLen[s])
NoDechunker == [seq |-> 0, file |-> << >>]
Fresh == [s \in Streams |-> NoDechunker]

\* A database: the stream it was loaded from, the bytes that were loaded, and
\* the entries written to it since.
EmptyDb == [of |-> "none", file |-> << >>, writes |-> {}]

ChunkInit ==
    /\ chunker = [s \in Streams |-> [read |-> 0, seq |-> 0, finished |-> FALSE]]
    /\ clog = << >>
    /\ replica = [n \in Replicas |-> [idx |-> 0, db |-> EmptyDb, dec |-> Fresh]]
    /\ csnap = [n \in Replicas |-> [idx |-> 0, db |-> EmptyDb]]
    /\ restored = {}
    /\ restores = 0

----------------------------------------------------------------------------
(* The Chunker.                                                            *)

\* Read returns as much as it likes, and Next reads until it has ChunkSize bytes
\* or more, or the file ends.
ChunkLengths(left) ==
    IF left < ChunkSize THEN {left}
    ELSE {t \in ChunkSize..(2 * ChunkSize - 1) : t <= left}

Chunk(s, seq, last, data) == [kind |-> "chunk", of |-> s, seq |-> seq, last |-> last, data |-> data]

\* Next: a file whose chunks end with it is followed by an empty last chunk, an
\* empty file has no chunk at all.
NextChunk(s) ==
    LET c == chunker[s] IN
    /\ ~c.finished /\ Len(clog) < MaxChunkLog
    /\ \E t \in ChunkLengths(FileLen[s] - c.read) :
        /\ chunker' = [chunker EXCEPT ![s] = [read |-> c.read + t, seq |-> c.seq + (IF t > 0 THEN 1 ELSE 0),
                                              finished |-> (t < ChunkSize)]]
        /\ clog' = IF t = 0 /\ c.seq = 0 THEN clog
                   ELSE Append(clog, Chunk(s, c.seq + 1, t < ChunkSize, Bytes(c.read, c.read + t)))
    /\ UNCHANGED <<replica, csnap, restored, restores>>

\* Reading the file fails, and the stream is given up with Abort.
AbortStream(s) ==
    /\ ~chunker[s].finished /\ Len(clog) < MaxChunkLog
    /\ chunker' = [chunker EXCEPT ![s].finished = TRUE]
    /\ clog' = Append(clog, [kind |-> "abort", of |-> s])
    /\ UNCHANGED <<replica, csnap, restored, restores>>

WriteEntry ==
    /\ Len(clog) < MaxChunkLog
    /\ clog' = Append(clog, [kind |-> "write"])
    /\ UNCHANGED <<chunker, replica, csnap, restored, restores>>

----------------------------------------------------------------------------
(* The FSM of a node.                                                      *)

\* Mutant: the sequence number is not checked.
InSequence_Any(d, e) == TRUE

InSequence(d, e) == e.seq = d.seq + 1

\* WriteChunk, and its error: the Dechunker stays as it is.
WriteChunk(d, e) == IF InSequence(d, e) THEN [seq |-> e.seq, file |-> d.file \o e.data] ELSE d

\* The file is not swapped in when a chunk was out of order, or when it has not
\* the first bytes of a database.
Loads(d, e) == e.last /\ InSequence(d, e) /\ d.file \o e.data # << >>

ProcessChunk(r, e) ==
    LET d == WriteChunk(r.dec[e.of], e) IN
    [r EXCEPT !.dec[e.of] = IF e.last /\ InSequence(r.dec[e.of], e) THEN NoDechunker ELSE d,
              !.db = IF Loads(r.dec[e.of], e) THEN [of |-> e.of, file |-> d.file, writes |-> {}] ELSE @]

\* DechunkerManager.Delete.
ProcessAbort(r, e) == [r EXCEPT !.dec[e.of] = NoDechunker]

ProcessEntry(r, e, i) ==
    [CASE e.kind = "chunk" -> ProcessChunk(r, e)
       [] e.kind = "abort" -> ProcessAbort(r, e)
       [] e.kind = "write" -> [r EXCEPT !.db.writes = @ \cup {i}]
     EXCEPT !.idx = i]

ReplicaApply(n) ==
    LET i == replica[n].idx + 1 IN
    /\ i <= Len(clog)
    /\ replica' = [replica EXCEPT ![n] = ProcessEntry(@, clog[i], i)]
    /\ UNCHANGED <<chunker, clog, csnap, restored, restores>>

\* A snapshot holds the database and nothing of the Dechunkers.  That it is exact
\* after a file was swapped in rests on the file's modification time, by which
\* fsmSnapshot takes a full one (dbModified): fsmApply sets FULL_NEEDED for a LOAD
\* only.
ReplicaSnapshot(n) ==
    /\ replica[n].idx > csnap[n].idx
    /\ csnap' = [csnap EXCEPT ![n] = [idx |-> replica[n].idx, db |-> replica[n].db]]
    /\ UNCHANGED <<chunker, clog, replica, restored, restores>>

\* A chunk of a stream whose later chunks come after entry i.
AmidStream(i) ==
    \E j \in 1..i, k \in (i + 1)..Len(clog) :
        clog[j].kind = "chunk" /\ clog[k].kind = "chunk" /\ clog[j].of = clog[k].of

\* The node starts with its newest snapshot and no Dechunker (NewDechunkerManager),
\* and applies the log from there.
ReplicaRestore(n) ==
    /\ restores < MaxRestores
    /\ restores' = restores + 1
    /\ replica' = [replica EXCEPT ![n] = [idx |-> csnap[n].idx, db |-> csnap[n].db, dec |-> Fresh]]
    /\ restored' = restored \cup {<<n, csnap[n].idx>>}
    /\ UNCHANGED <<chunker, clog, csnap>>

ChunkNext ==
    \/ \E s \in Streams : NextChunk(s) \/ AbortStream(s)
    \/ WriteEntry
    \/ \E n \in Replicas : ReplicaApply(n) \/ ReplicaSnapshot(n) \/ ReplicaRestore(n)

ChunkSpec == ChunkInit /\ [][ChunkNext]_chunkVars

----------------------------------------------------------------------------

\* Nothing but a whole file is swapped in.
LoadedIsWhole ==
    \A n \in Replicas : LET d == replica[n].db IN d.of # "none" => d.file = WholeFile(d.of)

\* Nodes at the same entry have the same database, unless one of them restarted
\* from a snapshot that came amid a stream: its Dechunkers are gone and it
\* ignores the rest of the stream, which the others load.
LoadsAgree ==
    \A m, n \in Replicas :
        /\ replica[m].idx = replica[n].idx
        /\ \A x \in restored : x[1] \in {m, n} => ~AmidStream(x[2])
        => replica[m].db = replica[n].db

\* What a node loads from chunks is a whole file, and every node loads the same,
\* whatever the sizes of the reads, the interleaving of streams, aborts,
\* snapshots and restarts (dechunker.go, the LOAD_CHUNK case of Process).
ChunkedLoadIsExact == LoadedIsWhole /\ LoadsAgree
=============================================================================
