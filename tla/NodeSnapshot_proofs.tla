------------------------ MODULE NodeSnapshot_proofs ------------------------
(***************************************************************************)
(* A node's database, its snapshots and its log together, for any number of *)
(* entries, snapshots and crashes: as long as no checkpoint is busy and no  *)
(* I/O error interrupts the Sink, what the node serves, what it would       *)
(* recover and what it would next write to a snapshot are exact.            *)
(***************************************************************************)
EXTENDS NodeSnapshot, SnapshotStore_proofs, SequenceTheorems

----------------------------------------------------------------------------
(* The invariant.                                                          *)

SnapState == [pc : {"idle", "taken", "persist", "closing"}, idx : Nat,
              kind : {"empty", "db", "wal"}, img : File]
InstState == [pc : {"idle", "copy", "closing", "restore", "restoring"}, idx : Nat]

NodeType ==
    /\ log \in Seq(Entry) /\ Len(log) <= MaxLog
    /\ first \in Nat /\ last \in Nat /\ applied \in Nat /\ walBase \in Nat
    /\ applied <= last /\ last <= Len(log)
    /\ snap \in SnapState /\ inst \in InstState

\* Every snapshot stands for the committed log up to its index.
Named == \A i \in ID : idx[i] <= Len(log) /\ want[i] = VerAt(idx[i])

\* The database is the log up to the applied index, in every state.
FsmExact == live = Whole(VerAt(applied)) /\ walBase <= VerAt(applied) /\ ~moved

\* Only takeSnapshot and installSnapshot hold Sinks, only the FSM opens snapshots,
\* and they do so only in a node that runs or, the FSM, that is starting.
Threads ==
    /\ \A w \in Writers : w # Take /\ w # Inst => sink[w].pc = "idle"
    /\ \A r \in Readers : r # "fsm" => rdr[r].pc = "idle"
    /\ snap.pc # "idle" \/ inst.pc # "idle" => Running

\* What fsmSnapshot has handed to Raft, relative to the newest snapshot unless
\* that is later.
Taken ==
    /\ snap.kind = "db" => snap.img = Whole(VerAt(snap.idx))
    /\ snap.kind = "wal" =>
          /\ Live # {}
          /\ \E b \in Version : /\ snap.img = <<b, VerAt(snap.idx)>>
                                /\ idx[Newest] <= snap.idx => b <= want[Newest]
    /\ snap.kind = "empty" =>
          /\ Live # {}
          /\ idx[Newest] <= snap.idx => want[Newest] = VerAt(snap.idx)

\* takeSnapshot and its Sink.
Taking ==
    /\ snap.pc \in {"idle", "taken"} => sink[Take].pc = "idle"
    /\ snap.pc = "persist" => sink[Take].pc = "open" /\ sink[Take].kind = "empty"
    /\ snap.pc = "closing" =>
          /\ sink[Take].pc # "idle"
          /\ sink[Take].pc = "open" => sink[Take].kind = snap.kind
    /\ snap.pc \in {"persist", "closing"} => idx[sink[Take].id] = snap.idx
    /\ snap.pc # "idle" => modSet /\ 0 < snap.idx /\ snap.idx <= applied
    /\ snap.pc # "idle" /\ sink[Take].pc \in {"idle", "open"} => Taken

\* installSnapshot and its Sink.  The snapshot that the FSM is to restore stays
\* the newest: whatever takeSnapshot has in hand is older.
Installing ==
    /\ inst.pc \in {"idle", "restore", "restoring"} => sink[Inst].pc = "idle"
    /\ inst.pc = "copy" => sink[Inst].pc = "open" /\ sink[Inst].kind = "empty"
    /\ inst.pc = "closing" =>
          /\ sink[Inst].pc # "idle"
          /\ sink[Inst].pc = "open" => sink[Inst].kind = "db"
    /\ inst.pc \in {"copy", "closing"} => idx[sink[Inst].id] = inst.idx
    /\ inst.pc # "idle" => last < inst.idx /\ inst.idx <= Len(log)
    /\ inst.pc \in {"restore", "restoring"} => Live # {} /\ idx[Newest] = inst.idx

\* The FSM reads the newest snapshot.
Restoring ==
    rdr["fsm"].pc # "idle" =>
        /\ inst.pc \in {"restore", "restoring"} \/ ~boot
        /\ Live # {} /\ rdr["fsm"].id = Newest

\* The WAL begins no later than the newest snapshot, or than the one that is being
\* taken; or a full snapshot is going to be taken next.
Before == {"idle", "open", "process", "rename", "commit"}
Pending == snap.pc # "idle" /\ sink[Take].pc \in Before

WalSound ==
    \/ DbModified
    \/ Live # {} /\ walBase <= want[Newest]
    \/ Pending /\ walBase <= VerAt(snap.idx)
    \/ ~Pending /\ Live = {}
    \/ snap.pc = "idle" /\ fullNeeded

\* A Sink that has renamed its directory has the newest snapshot.
Committed ==
    \A w \in Writers : sink[w].pc \notin Before \cup {"abort", "aborted"} =>
        Live # {} /\ Newest = sink[w].id

\* meta.json can be decoded, but for the one that is being rewritten or removed.
Decoded(i) == meta[i] \in {"zero", "sized"}
MetaOf(s) ==
    /\ s.pc \in {"process", "rename", "commit"} => Decoded(s.id)
    /\ s.pc = "resize" => \A i \in Live : i # s.id => Decoded(i)
    /\ s.pc = "rmdir" => \A i \in Live : i # s.victim => Decoded(i)
MetaSound ==
    /\ \A w \in Writers : MetaOf(sink[w])
    /\ status \in {"replay", "replayed", "unlink", "size"} => Readable
    /\ status = "up" /\ (\A w \in Writers : sink[w].pc \notin {"resize", "rmdir"}) => Readable
    /\ status = "resize" => \A i \in Live : i # Newest => Decoded(i)

StoreSound == Inv /\ Wholeness /\ Committed /\ MetaSound
NodeInv ==
    /\ StoreSound
    /\ NodeType /\ Named /\ FsmExact /\ Threads
    /\ Taking /\ Installing /\ Restoring /\ WalSound /\ NoGap

----------------------------------------------------------------------------
(* Versions.                                                               *)

Ver(l, i) == Cardinality({j \in 1..i : l[j] # "noop"})

\* The version of the database after an entry, as a function of the log.
LEMMA VerIs == \A i : VerAt(i) = Ver(log, i)
BY DEF VerAt, Ver

\* The same in the next state.
LEMMA VerIsNext ==
    ASSUME NEW i
    PROVE  VerAt(i)' = Ver(log', i')
BY DEF VerAt, Ver

\* An entry adds at most one version.
LEMMA VerBounds ==
    ASSUME NEW l, NEW i \in Nat
    PROVE  Ver(l, i) \in Nat /\ Ver(l, i) <= i /\ Ver(l, 0) = 0
<1> DEFINE S == {j \in 1..i : l[j] # "noop"}
<1>1. IsFiniteSet(1..i) /\ Cardinality(1..i) = i
  BY FS_Interval
<1>2. IsFiniteSet(S) /\ Cardinality(S) <= i
  BY <1>1, FS_Subset
<1>3. Cardinality(S) \in Nat
  BY <1>2, FS_CardinalityType
<1>4. {j \in 1..0 : l[j] # "noop"} = {}
  OBVIOUS
<1> QED BY <1>2, <1>3, <1>4, FS_EmptySet DEF Ver

\* Versions grow along the log.
LEMMA VerGrows ==
    ASSUME NEW l, NEW i \in Nat, NEW k \in Nat, i <= k
    PROVE  Ver(l, i) <= Ver(l, k)
<1> DEFINE S(n) == {j \in 1..n : l[j] # "noop"}
<1>1. IsFiniteSet(1..k)
  BY FS_Interval
<1>2. IsFiniteSet(S(k))
  BY <1>1, FS_Subset
<1>3. S(i) \subseteq S(k)
  OBVIOUS
<1> QED BY <1>2, <1>3, FS_Subset DEF Ver

\* An entry that changes nothing is not a version.
LEMMA VerNoop ==
    ASSUME NEW l, NEW i \in Nat, l[i + 1] = "noop"
    PROVE  Ver(l, i + 1) = Ver(l, i)
<1>1. {j \in 1..(i + 1) : l[j] # "noop"} = {j \in 1..i : l[j] # "noop"}
  OBVIOUS
<1> QED BY <1>1 DEF Ver

\* What is committed stays.
LEMMA VerAppend ==
    ASSUME NEW l \in Seq(Entry), NEW e \in Entry, NEW i \in Nat, i <= Len(l)
    PROVE  Ver(Append(l, e), i) = Ver(l, i)
<1>1. \A j \in 1..i : Append(l, e)[j] = l[j]
  OBVIOUS
<1>2. {j \in 1..i : Append(l, e)[j] # "noop"} = {j \in 1..i : l[j] # "noop"}
  BY <1>1
<1> QED BY <1>2 DEF Ver

----------------------------------------------------------------------------
(* The Store.                                                              *)

\* The steps inside Close keep the Sink, touch no lock, reader or name, and never go
\* back to a stage before the commit.
LEMMA ProgressEffect ==
    ASSUME Inv, NEW w \in Writers, SinkProgress(w)
    PROVE  /\ sink[w].pc \notin {"idle", "open"} /\ sink'[w].pc \notin {"idle", "open"}
           /\ sink'[w].id = sink[w].id
           /\ sink'[w].pc \in Before => sink[w].pc \in Before \ {"commit"}
           /\ \A v \in Writers \ {w} : sink'[v] = sink[v]
           /\ UNCHANGED <<idx, want, used, writerActive, numReaders, rdr, status>>
           /\ fullNeeded' = fullNeeded \/ sink[w].pc = "unset"
<1> USE DEF Before, SinkPC, named, lock, disk
<1>1. CASE ProcessSnapshotData(w)
  BY <1>1, GotoKeeps DEF ProcessSnapshotData
<1>2. CASE RenameData(w)
  BY <1>2, GotoKeeps DEF RenameData
<1>3. CASE CommitDir(w)
  BY <1>3, GotoKeeps DEF CommitDir
<1>4. CASE MovePrev(w)
  BY <1>4, GotoKeeps DEF MovePrev
<1>5. CASE CheckpointRemove(w)
  BY <1>5, GotoKeeps DEF CheckpointRemove
<1>6. CASE UpdateMetaSize(w)
  BY <1>6, GotoKeeps DEF UpdateMetaSize
<1>7. CASE UnsetFullNeeded(w)
  BY <1>7, GotoKeeps DEF UnsetFullNeeded
<1>8. CASE Abort(w)
  BY <1>8, GotoKeeps DEF Abort
<1>9. CASE ReapOne(w)
  <2>1. CASE sink[w].pc = "reap"
    <3>1. PICK n : sink' = [sink EXCEPT ![w].pc = "rmdir", ![w].victim = n]
      BY <1>9, <2>1 DEF ReapOne
    <3>2. /\ sink'[w].pc = "rmdir" /\ sink'[w].id = sink[w].id
          /\ \A v \in Writers \ {w} : sink'[v] = sink[v]
      BY <3>1 DEF Inv, TypeOK, SinkState
    <3> QED BY <1>9, <2>1, <3>2 DEF ReapOne
  <2>2. CASE sink[w].pc # "reap"
    BY <1>9, <2>2, GotoKeeps DEF ReapOne
  <2> QED BY <2>1, <2>2
<1> QED BY <1>1, <1>2, <1>3, <1>4, <1>5, <1>6, <1>7, <1>8, <1>9 DEF SinkProgress

\* A Sink that is past the commit was so before the step, or has just committed.
LEMMA LateBefore ==
    ASSUME Inv, Inv', [AnyStep]_vars, NEW w \in Writers,
           sink'[w].pc \notin Before \cup {"abort", "aborted"}
    PROVE  /\ sink'[w].id = sink[w].id
           /\ sink[w].pc \notin Before \cup {"abort", "aborted"} \/ CommitDir(w)
<1> USE DEF Before
<1>1. CASE UNCHANGED sink
  BY <1>1, GotoKeeps
<1>2. ASSUME NEW v \in Writers, sink'[v].pc \in Before, \A u \in Writers \ {v} : sink'[u] = sink[u]
      PROVE  sink'[w] = sink[w]
  BY <1>2
<1>3. ASSUME NEW v \in Writers, AnyCreate(v) \/ AnyWrite(v) \/ AnyCancel(v) \/ CloseOK(v) \/ CloseFailed(v)
      PROVE  sink'[w] = sink[w]
  <2>1. PICK s : sink' = [sink EXCEPT ![v] = s] /\ s.pc \in Before
    <3>1. CASE AnyCreate(v)
      <4>1. sink' = [sink EXCEPT ![v] = [NoSink EXCEPT !.pc = "open", !.id = used + 1]]
        BY <3>1, Zenon DEF AnyCreate, Create
      <4>2. [NoSink EXCEPT !.pc = "open", !.id = used + 1].pc = "open"
        BY DEF NoSink
      <4> QED BY <4>1, <4>2
    <3>2. CASE AnyWrite(v)
      <4>1. PICK k, x : sink' = [sink EXCEPT ![v].kind = k, ![v].img = x] /\ sink[v].pc = "open"
        BY <3>2 DEF AnyWrite, Write
      <4>2. sink' = [sink EXCEPT ![v] = [sink[v] EXCEPT !.kind = k, !.img = x]]
        BY <4>1 DEF Inv, TypeOK
      <4>3. [sink[v] EXCEPT !.kind = k, !.img = x].pc = "open"
        BY <4>1 DEF Inv, TypeOK, SinkState
      <4> QED BY <4>2, <4>3
    <3>3. CASE AnyCancel(v) \/ CloseOK(v) \/ CloseFailed(v)
      <4>1. sink' = [sink EXCEPT ![v] = NoSink]
        BY <3>3 DEF AnyCancel, CloseOK, CloseFailed
      <4> QED BY <4>1, Blank
    <3> QED BY <1>3, <3>1, <3>2, <3>3
  <2>2. w # v
    BY <2>1 DEF Inv, TypeOK
  <2> QED BY <2>1, <2>2 DEF Inv, TypeOK
<1>4. ASSUME NEW v \in Writers, AnyClose(v)
      PROVE  sink'[w] = sink[w]
  <2>1. Goto(v, "process")
    BY <1>4 DEF AnyClose, CloseSink
  <2> QED BY <1>2, <2>1, GotoKeeps DEF SinkPC
<1>5. ASSUME NEW v \in Writers, SinkProgress(v)
      PROVE  /\ sink'[w].id = sink[w].id
             /\ sink[w].pc \notin Before \cup {"abort", "aborted"} \/ CommitDir(w)
  <2>1. CASE w # v
    BY <1>5, <2>1, ProgressEffect
  <2>2. CASE w = v
    <3>1. sink'[w].id = sink[w].id
      BY <1>5, <2>2, ProgressEffect
    <3>2. ASSUME \/ ProcessSnapshotData(w) \/ RenameData(w) \/ Abort(w)
          PROVE  FALSE
      BY <3>2, GotoKeeps DEF ProcessSnapshotData, RenameData, Abort, SinkPC
    <3>3. \/ CommitDir(w)
          \/ sink[w].pc \notin Before \cup {"abort", "aborted"}
      BY <1>5, <2>2, <3>2 DEF SinkProgress, MovePrev, CheckpointRemove, UpdateMetaSize,
            UnsetFullNeeded, ReapOne
    <3> QED BY <3>1, <3>3
  <2> QED BY <2>1, <2>2
<1>6. CASE \E r \in Readers : List(r) \/ Open(r) \/ CloseSnapshot(r)
  BY <1>1, <1>6 DEF List, Open, CloseSnapshot
<1>7. CASE SetFullNeeded \/ Check \/ UNCHANGED vars
  BY <1>1, <1>7 DEF SetFullNeeded, Check, vars
<1>8. CASE Crash
  BY <1>8, Blank DEF Crash
<1>9. \/ \E v \in Writers : \/ AnyCreate(v) \/ AnyWrite(v) \/ AnyCancel(v) \/ CloseOK(v) \/ CloseFailed(v)
                            \/ AnyClose(v) \/ SinkProgress(v)
      \/ \E r \in Readers : List(r) \/ Open(r) \/ CloseSnapshot(r)
      \/ SetFullNeeded \/ Check \/ UNCHANGED vars \/ Crash
  BY Zenon DEF AnyStep, SinkStep, SinkProgress
<1> QED BY <1>3, <1>4, <1>5, <1>6, <1>7, <1>8, <1>9

\* Only the thread that committed a snapshot can commit another one, and it does not
\* before it has closed its Sink.
LEMMA CommittedStep ==
    ASSUME Inv, Inv', Wholeness, Committed, [AnyStep]_vars
    PROVE  Committed'
<1> SUFFICES ASSUME NEW w \in Writers, sink'[w].pc \notin Before \cup {"abort", "aborted"}
             PROVE  Live' # {} /\ Newest' = sink'[w].id
  BY DEF Committed
<1>1. /\ sink'[w].id = sink[w].id
      /\ sink[w].pc \notin Before \cup {"abort", "aborted"} \/ CommitDir(w)
  BY LateBefore
<1>2. CASE CommitDir(w)
  BY <1>1, <1>2, CommitSound DEF Wholeness
<1>3. CASE sink[w].pc \notin Before \cup {"abort", "aborted"}
  <2>1. Live # {} /\ Newest = sink[w].id
    BY <1>3 DEF Committed
  <2>2. ASSUME NEW v \in Writers, CommitDir(v)
        PROVE  FALSE
    BY <1>3, <2>2 DEF CommitDir, Before, Inv, LockDiscipline
  <2>3. NewestStays
    BY <2>2, OnlyCommit DEF AnyNext
  <2> QED BY <1>1, <2>1, <2>3 DEF NewestStays
<1> QED BY <1>1, <1>2, <1>3

\* The thread in the Sink is the only one to look after.
LEMMA MetaSink ==
    ASSUME NEW w \in Writers, status' = "up",
           \A v \in Writers \ {w} : sink'[v].pc = "idle",
           MetaOf(sink[w])',
           sink'[w].pc \notin {"resize", "rmdir"} => Readable'
    PROVE  MetaSound'
<1>1. \A v \in Writers : MetaOf(sink[v])'
  BY DEF MetaOf
<1> QED BY <1>1 DEF MetaSound

\* A step that changes neither directories nor meta.json, in a stage in which every
\* meta.json can be decoded.
LEMMA MetaKept ==
    ASSUME Inv, MetaSound, NEW w \in Writers, sink[w].pc \notin {"idle", "resize", "rmdir"},
           sink'[w].pc \notin {"resize", "rmdir"}, sink'[w].id = sink[w].id,
           sink'[w].pc \in {"process", "rename", "commit"} => sink[w].pc \in {"process", "rename", "commit"},
           \A v \in Writers \ {w} : sink'[v] = sink[v],
           UNCHANGED <<dir, meta, status>>
    PROVE  MetaSound'
<1>1. status = "up" /\ \A v \in Writers \ {w} : sink[v].pc = "idle" /\ sink'[v].pc = "idle"
  BY OneSink
<1>2. Readable
  BY <1>1 DEF MetaSound
<1>3. Live' = Live /\ Readable'
  BY <1>2 DEF Readable, Live
<1>4. MetaOf(sink[w])'
  BY DEF MetaSound, MetaOf, Decoded
<1> QED BY <1>1, <1>3, <1>4, MetaSink

\* Close and Reap rewrite or remove one meta.json at a time, and put it in order or
\* remove its directory before they go on.
LEMMA MetaProgress ==
    ASSUME Inv, Inv', Wholeness, MetaSound, NEW w \in Writers, SinkProgress(w)
    PROVE  MetaSound'
<1> USE DEF SinkPC, disk, named, lock
<1>1. /\ status = "up" /\ status' = "up"
      /\ \A v \in Writers \ {w} : sink[v].pc = "idle" /\ sink'[v].pc = "idle" /\ sink'[v] = sink[v]
      /\ sink'[w].id = sink[w].id /\ sink[w].id \in ID /\ sink[w].pc # "idle"
  BY ProgressEffect, OneSink DEF Inv, Phases, PhaseOf
<1>2. sink[w].pc \notin {"resize", "rmdir"} => Readable
  BY <1>1 DEF MetaSound
<1>3. MetaOf(sink[w])
  BY DEF MetaSound
<1>4. CASE ProcessSnapshotData(w)
  <2>1. /\ sink[w].pc = "process" /\ sink'[w].pc \in {"rename", "abort"}
        /\ UNCHANGED <<dir, meta, status>>
    BY <1>4, GotoKeeps DEF ProcessSnapshotData
  <2> QED BY <1>1, <2>1, MetaKept
<1>5. CASE RenameData(w)
  <2>1. /\ sink[w].pc = "rename" /\ sink'[w].pc = "commit" /\ UNCHANGED <<dir, meta, status>>
    BY <1>5, GotoKeeps DEF RenameData
  <2> QED BY <1>1, <2>1, MetaKept
<1>6. CASE \/ MovePrev(w) \/ CheckpointRemove(w) \/ UnsetFullNeeded(w) \/ Abort(w)
           \/ ReapOne(w) /\ sink[w].pc = "rmdata"
  <2>1. /\ sink[w].pc \notin {"idle", "resize", "rmdir"}
        /\ sink'[w].pc \notin {"resize", "rmdir", "process", "rename", "commit"}
        /\ UNCHANGED <<dir, meta, status>>
    BY <1>6, GotoKeeps DEF MovePrev, CheckpointRemove, UnsetFullNeeded, Abort, ReapOne
  <2> QED BY <1>1, <2>1, MetaKept
<1>7. CASE CommitDir(w)
  <2>1. /\ sink[w].pc = "commit" /\ sink'[w].pc \in {"move", "size"} /\ UNCHANGED meta
    BY <1>7, GotoKeeps DEF CommitDir
  <2>2. Live' = Live \cup {sink[w].id}
    BY <1>7, CommitSound DEF Wholeness
  <2>3. Decoded(sink[w].id)
    BY <1>3, <2>1 DEF MetaOf
  <2>4. Readable'
    BY <1>2, <2>1, <2>2, <2>3 DEF Readable, Decoded
  <2>5. MetaOf(sink[w])'
    BY <2>1 DEF MetaOf
  <2> QED BY <1>1, <2>4, <2>5, MetaSink
<1>8. CASE UpdateMetaSize(w)
  <2>1. PICK i : i = sink[w].id
    OBVIOUS
  <2>2. i \in ID /\ Live' = Live /\ meta \in [ID -> {"none", "torn", "zero", "sized"}] /\ Live \subseteq ID
    BY <1>1, <1>8, <2>1, LiveIDs DEF UpdateMetaSize, Live, Inv, TypeOK
  <2>3. CASE sink[w].pc = "size"
    <3>1. sink'[w].pc = "resize" /\ meta' = [meta EXCEPT ![i] = "torn"]
      BY <1>8, <2>1, <2>3, GotoKeeps DEF UpdateMetaSize, SetMeta
    <3>2. \A j \in Live' : j # sink'[w].id => Decoded(j)'
      BY <1>1, <1>2, <2>1, <2>2, <2>3, <3>1 DEF Readable, Decoded
    <3>3. MetaOf(sink[w])'
      BY <3>1, <3>2 DEF MetaOf
    <3> QED BY <1>1, <3>1, <3>3, MetaSink
  <2>4. CASE sink[w].pc # "size"
    <3>1. sink[w].pc = "resize" /\ sink'[w].pc = "unset" /\ meta' = [meta EXCEPT ![i] = "sized"]
      BY <1>8, <2>1, <2>4, GotoKeeps DEF UpdateMetaSize, SetMeta
    <3>2. Readable'
      BY <1>3, <2>1, <2>2, <3>1 DEF Readable, Decoded, MetaOf
    <3>3. MetaOf(sink[w])'
      BY <3>1 DEF MetaOf
    <3> QED BY <1>1, <3>2, <3>3, MetaSink
  <2> QED BY <2>3, <2>4
<1>9. CASE ReapOne(w) /\ sink[w].pc = "reap"
  <2>1. PICK n : n = OldestOf(Live)
    OBVIOUS
  <2>2. /\ meta' = [meta EXCEPT ![n] = "none"] /\ UNCHANGED dir
        /\ sink' = [sink EXCEPT ![w].pc = "rmdir", ![w].victim = n]
    BY <1>9, <2>1 DEF ReapOne, SetMeta
  <2>3. sink'[w].pc = "rmdir" /\ sink'[w].victim = n
    BY <2>2 DEF Inv, TypeOK, SinkState
  <2>4. Live' = Live /\ Live \subseteq ID /\ meta \in [ID -> {"none", "torn", "zero", "sized"}]
    BY <2>2, LiveIDs DEF Live, Inv, TypeOK
  <2>5. \A j \in Live' : j # sink'[w].victim => Decoded(j)'
    BY <1>2, <1>9, <2>2, <2>3, <2>4 DEF Readable, Decoded
  <2>6. MetaOf(sink[w])'
    BY <2>3, <2>5 DEF MetaOf
  <2> QED BY <1>1, <2>3, <2>6, MetaSink
<1>10. CASE ReapOne(w) /\ sink[w].pc = "rmdir"
  <2>1. PICK n : n = sink[w].victim
    OBVIOUS
  <2>2. /\ dir' = [dir EXCEPT ![n] = "none"] /\ UNCHANGED meta /\ sink'[w].pc = "rmdata"
    BY <1>10, <2>1, GotoKeeps DEF ReapOne
  <2>3. n \in Live
    BY <1>10, <2>1 DEF Wholeness, FilesSound, Stage
  <2>4. Live' = Live \ {n}
    BY <2>2, <2>3 DEF Live, Inv, TypeOK
  <2>5. Readable'
    BY <1>3, <1>10, <2>1, <2>2, <2>4 DEF Readable, Decoded, MetaOf
  <2>6. MetaOf(sink[w])'
    BY <2>2 DEF MetaOf
  <2> QED BY <1>1, <2>5, <2>6, MetaSink
<1> QED BY <1>4, <1>5, <1>6, <1>7, <1>8, <1>9, <1>10 DEF SinkProgress, ReapOne

\* check() goes on only when it can decode every meta.json.
LEMMA MetaCheck ==
    ASSUME Inv, Inv', MetaSound, Check
    PROVE  MetaSound'
<1> USE DEF disk, named, lock
<1>1. status \notin {"up", "failed"} /\ UNCHANGED <<sink, idx>>
  BY DEF Check, Inspect, CheckReplay, CheckSize
<1>2. \A w \in Writers : sink[w].pc = "idle" /\ sink'[w].pc = "idle" /\ MetaOf(sink[w])'
  BY <1>1 DEF Inv, LockDiscipline, MetaOf
<1>3. CASE status \in {"down", "cleaned"}
  <2>1. status' \in {"cleaned", "inspect"}
    BY <1>3 DEF Check, Inspect, CheckReplay, CheckSize
  <2> QED BY <1>2, <2>1 DEF MetaSound
<1>4. CASE Inspect
  <2>1. Live' = Live /\ UNCHANGED meta
    BY <1>4 DEF Inspect, Live
  <2>2. status' \in {"failed"} \/ (Readable /\ status' \in {"up", "replay", "size"})
    BY <1>4 DEF Inspect
  <2>3. Readable => Readable'
    BY <2>1 DEF Readable
  <2> QED BY <1>2, <2>2, <2>3 DEF MetaSound
<1>5. CASE CheckReplay
  <2>1. Live' = Live /\ UNCHANGED meta
    BY <1>5 DEF CheckReplay, Live
  <2>2. Readable' /\ status' \in {"replayed", "unlink", "size", "up"}
    BY <1>5, <2>1 DEF CheckReplay, MetaSound, Readable
  <2> QED BY <1>2, <2>2 DEF MetaSound
<1>6. CASE CheckSize
  <2>1. /\ Live' = Live /\ Newest' = Newest /\ meta \in [ID -> {"none", "torn", "zero", "sized"}]
        /\ Live \subseteq ID
    BY <1>1, <1>6, SameOrder, LiveIDs DEF CheckSize, Inv, TypeOK
  <2>2. CASE status = "size"
    <3>1. status' = "resize" /\ meta' = [meta EXCEPT ![Newest] = "torn"] /\ Readable
      BY <1>6, <2>2 DEF CheckSize, SetMeta, MetaSound
    <3>2. \A i \in Live' : i # Newest' => Decoded(i)'
      BY <2>1, <3>1 DEF Readable, Decoded
    <3> QED BY <1>2, <3>1, <3>2 DEF MetaSound
  <2>3. CASE status # "size"
    <3>1. status = "resize" /\ status' = "up" /\ meta' = [meta EXCEPT ![Newest] = "sized"]
      BY <1>6, <2>3 DEF CheckSize, SetMeta
    <3>2. Readable'
      BY <2>1, <3>1 DEF Readable, Decoded, MetaSound
    <3> QED BY <1>2, <3>1, <3>2 DEF MetaSound
  <2> QED BY <2>2, <2>3
<1> QED BY <1>3, <1>4, <1>5, <1>6 DEF Check

\* As long as no I/O error interrupts Close, the Store can always list its
\* snapshots, but for the moment in which one meta.json is rewritten or removed.
LEMMA MetaStep ==
    ASSUME Inv, Inv', Wholeness, MetaSound, [AnyStep]_vars
    PROVE  MetaSound'
<1> USE DEF disk, named, lock
<1>1. CASE \/ \E r \in Readers : List(r) \/ Open(r) \/ CloseSnapshot(r)
           \/ SetFullNeeded \/ UNCHANGED vars
  <2>1. UNCHANGED <<dir, meta, idx, sink, status>>
    BY <1>1 DEF List, Open, CloseSnapshot, SetFullNeeded, vars
  <2>2. Live' = Live /\ Newest' = Newest
    BY <2>1, SameOrder
  <2>3. \A w \in Writers : MetaOf(sink[w])'
    BY <2>1, <2>2 DEF MetaSound, MetaOf, Decoded
  <2> QED BY <2>1, <2>2, <2>3 DEF MetaSound, Readable, Decoded
<1>2. CASE Crash
  BY <1>2, Blank DEF Crash, MetaSound, MetaOf
<1>3. CASE Check
  BY <1>3, MetaCheck
<1>4. ASSUME NEW w \in Writers, SinkProgress(w)
      PROVE  MetaSound'
  BY <1>4, MetaProgress
<1>5. ASSUME NEW w \in Writers, AnyCreate(w)
      PROVE  MetaSound'
  <2>1. PICK i, v : Create(w, i, v)
    BY <1>5 DEF AnyCreate
  <2>2. /\ used + 1 \in ID /\ dir[used + 1] = "none"
        /\ dir' = [dir EXCEPT ![used + 1] = "tmp"] /\ UNCHANGED <<meta, status>>
        /\ status = "up"
    BY <2>1, SnapshotBounds DEF Create, Inv, TypeOK, ID, Wholeness, FilesSound, Fresh
  <2>3. Live' = Live
    BY <2>2 DEF Live, Inv, TypeOK
  <2>4. sink'[w].pc = "open" /\ \A u \in Writers \ {w} : sink'[u].pc = "idle"
    <3>1. sink' = [sink EXCEPT ![w] = [NoSink EXCEPT !.pc = "open", !.id = used + 1]]
      BY <2>1 DEF Create
    <3>2. [NoSink EXCEPT !.pc = "open", !.id = used + 1].pc = "open"
      BY DEF NoSink
    <3>3. \A u \in Writers : sink[u].pc = "idle"
      BY <2>1 DEF Create, BeginWrite, Inv, LockDiscipline
    <3> QED BY <3>1, <3>2, <3>3 DEF Inv, TypeOK
  <2>5. Readable
    BY <2>1, <2>2 DEF Create, BeginWrite, Inv, LockDiscipline, MetaSound
  <2>6. Readable'
    BY <2>2, <2>3, <2>5 DEF Readable
  <2>7. MetaOf(sink[w])'
    BY <2>4 DEF MetaOf
  <2> QED BY <2>2, <2>4, <2>6, <2>7, MetaSink
<1>6. ASSUME NEW w \in Writers, AnyWrite(w)
      PROVE  MetaSound'
  <2>1. PICK k, x : sink' = [sink EXCEPT ![w].kind = k, ![w].img = x]
    BY <1>6 DEF AnyWrite, Write
  <2>2. /\ sink[w].pc = "open" /\ UNCHANGED <<dir, meta, status>>
    BY <1>6 DEF AnyWrite, Write
  <2>3. /\ sink'[w].pc = "open" /\ sink'[w].id = sink[w].id
        /\ \A v \in Writers \ {w} : sink'[v] = sink[v]
    BY <2>1, <2>2 DEF Inv, TypeOK, SinkState
  <2> QED BY <2>2, <2>3, MetaKept
<1>7. ASSUME NEW w \in Writers, AnyClose(w)
      PROVE  MetaSound'
  <2>1. PICK i : i = sink[w].id
    OBVIOUS
  <2>2. /\ sink[w].pc = "open" /\ sink'[w].pc = "process" /\ sink'[w].id = i
        /\ \A v \in Writers \ {w} : sink'[v] = sink[v]
        /\ i \in ID /\ dir[i] = "tmp" /\ UNCHANGED <<dir, status>>
        /\ meta' = [meta EXCEPT ![i] = "zero"]
    BY <1>7, <2>1, GotoKeeps DEF AnyClose, CloseSink, SinkPC, Inv, Phases, PhaseOf
  <2>3. status = "up" /\ \A v \in Writers \ {w} : sink[v].pc = "idle" /\ sink'[v].pc = "idle"
    BY <2>2, OneSink
  <2>4. Readable /\ Live' = Live /\ i \notin Live
    BY <2>2, <2>3 DEF MetaSound, Live
  <2>5. Readable' /\ Decoded(i)'
    BY <2>2, <2>4 DEF Readable, Decoded, Inv, TypeOK
  <2>6. MetaOf(sink[w])'
    BY <2>2, <2>5 DEF MetaOf, Decoded
  <2> QED BY <2>2, <2>3, <2>5, <2>6, MetaSink
<1>8. ASSUME NEW w \in Writers, AnyCancel(w) \/ CloseOK(w) \/ CloseFailed(w)
      PROVE  MetaSound'
  <2>1. /\ sink[w].pc \in {"open", "reap", "aborted"} /\ sink' = [sink EXCEPT ![w] = NoSink]
        /\ UNCHANGED status
    BY <1>8 DEF AnyCancel, CloseOK, CloseFailed
  <2>2. sink'[w].pc = "idle" /\ \A v \in Writers \ {w} : sink'[v] = sink[v]
    BY <2>1, Blank DEF Inv, TypeOK
  <2>3. status = "up" /\ \A v \in Writers \ {w} : sink[v].pc = "idle" /\ sink'[v].pc = "idle"
    BY <2>1, <2>2, OneSink
  <2>4. Readable
    BY <2>1, <2>3 DEF MetaSound
  <2>5. \/ UNCHANGED <<dir, meta>>
        \/ RemoveTmpDirs
    BY <1>8 DEF AnyCancel, CloseOK, CloseFailed
  <2>6. Live' = Live /\ \A i \in Live : meta'[i] = meta[i]
    BY <2>5 DEF RemoveTmpDirs, Live, Tmp
  <2>7. Readable'
    BY <2>4, <2>6 DEF Readable
  <2>8. MetaOf(sink[w])'
    BY <2>2 DEF MetaOf
  <2> QED BY <2>1, <2>3, <2>7, <2>8, MetaSink
<1>9. \/ \E v \in Writers : \/ AnyCreate(v) \/ AnyWrite(v) \/ AnyClose(v) \/ SinkProgress(v)
                            \/ AnyCancel(v) \/ CloseOK(v) \/ CloseFailed(v)
      \/ \E r \in Readers : List(r) \/ Open(r) \/ CloseSnapshot(r)
      \/ SetFullNeeded \/ Check \/ UNCHANGED vars \/ Crash
  BY Zenon DEF AnyStep, SinkStep, SinkProgress
<1> QED BY <1>1, <1>2, <1>3, <1>4, <1>5, <1>6, <1>7, <1>8, <1>9

\* What is known of the Store is kept by every step of any caller.
LEMMA StoreStep ==
    ASSUME StoreSound, [AnyStep]_vars
    PROVE  StoreSound'
<1>1. [AnyNext]_vars
  BY DEF AnyNext
<1>2. Inv'
  BY <1>1, InvStep DEF StoreSound
<1>3. Wholeness'
  BY <1>1, <1>2, WholenessStep DEF StoreSound
<1> QED BY <1>2, <1>3, CommittedStep, MetaStep DEF StoreSound

----------------------------------------------------------------------------
(* The node is a caller of the Store.                                      *)

\* Entries of the log have versions and indexes the Store knows.
LEMMA VerInRange ==
    ASSUME NodeType, NEW i \in Nat, i <= Len(log)
    PROVE  VerAt(i) \in Version /\ i \in Index
<1>1. PICK n \in Nat : n = Len(log)
  BY DEF NodeType
<1>2. n <= MaxLog
  BY <1>1 DEF NodeType
<1>3. VerAt(i) \in Nat /\ VerAt(i) <= i
  BY VerIs, VerBounds
<1> QED BY <1>1, <1>2, <1>3, NodeBounds, SnapshotBounds DEF Version, Index

\* The numbers in the threads' records.
LEMMA Numbers ==
    ASSUME NodeType
    PROVE  /\ snap.idx \in Nat /\ inst.idx \in Nat /\ Len(log) \in Nat
           /\ snap.pc \in {"idle", "taken", "persist", "closing"}
           /\ inst.pc \in {"idle", "copy", "closing", "restore", "restoring"}
           /\ snap.kind \in {"empty", "db", "wal"}
BY DEF NodeType, SnapState, InstState

\* The snapshot in hand is of an entry of the log.
LEMMA SnapInLog ==
    ASSUME NodeType, Taking, snap.pc # "idle"
    PROVE  snap.idx \in Nat /\ snap.idx <= Len(log) /\ snap.idx <= last
<1>1. PICK n \in Nat, i \in Nat : n = Len(log) /\ i = snap.idx
  BY Numbers
<1> QED BY <1>1 DEF NodeType, Taking

\* A snapshot in the directory.
LEMMA NewestNumbers ==
    ASSUME Inv, NodeType, Named, Live # {}
    PROVE  /\ Newest \in ID /\ idx[Newest] \in Nat /\ want[Newest] \in Nat
           /\ idx[Newest] <= Len(log) /\ want[Newest] = VerAt(idx[Newest])
<1>1. Newest \in ID /\ want[Newest] \in Nat
  BY TwoNewest
<1> QED BY <1>1, SnapshotBounds DEF Inv, TypeOK, Index, Named

\* A Sink whose snapshot has index i stands for entry i of the log.
LEMMA SinkStandsFor ==
    ASSUME Inv, Named, NEW w \in Writers, sink[w].pc # "idle"
    PROVE  sink[w].id \in ID /\ want[sink[w].id] = VerAt(idx[sink[w].id]) /\ idx[sink[w].id] \in Nat
BY SnapshotBounds DEF Inv, Phases, PhaseOf, Named, TypeOK, Index

\* What Persist and Close give to the Store is what any caller may give.
LEMMA TakeGives ==
    ASSUME NodeInv, snap.pc \in {"persist", "closing"}, sink[Take].pc = "open"
    PROVE  /\ want[sink[Take].id] = VerAt(snap.idx)
           /\ Less(Newest, sink[Take].id) /\ Live # {} =>
                 idx[Newest] <= snap.idx /\ want[Newest] <= VerAt(snap.idx)
<1> USE DEF NodeInv
<1>1. Inv /\ Take \in Writers
  BY NodeThreads DEF StoreSound
<1>2. sink[Take].id \in ID /\ idx[sink[Take].id] = snap.idx /\ want[sink[Take].id] = VerAt(snap.idx)
  BY <1>1, SinkStandsFor DEF Taking
<1>3. ASSUME Less(Newest, sink[Take].id), Live # {}
      PROVE  idx[Newest] <= snap.idx /\ want[Newest] <= VerAt(snap.idx)
  <2>1. PICK i \in Nat, s \in Nat : i = idx[Newest] /\ s = snap.idx
    BY <1>1, <1>3, NewestNumbers, Numbers
  <2>2. i <= s
    BY <1>2, <1>3, <2>1 DEF Less
  <2>3. VerAt(i) <= VerAt(s)
    BY <2>1, <2>2, VerIs, VerGrows
  <2> QED BY <1>1, <1>3, <2>1, <2>2, <2>3, NewestNumbers
<1> QED BY <1>2, <1>3

\* takeSnapshot's calls.
LEMMA TakeIsAny ==
    ASSUME NodeInv, Sound,
           \/ TakeRefused \/ TakeCreate \/ TakePersist \/ TakePersistFailed \/ TakeClose
           \/ TakeStep \/ TakeDone \/ TakeCloseFailed \/ TakeIOError
    PROVE  [AnyStep]_vars
<1> USE NodeThreads DEF NodeInv
<1>0. Take \in Writers
  OBVIOUS
<1>1. CASE TakeRefused
  <2>1. SetFullNeeded
    BY <1>1 DEF TakeRefused, OnFailure, SetFullNeeded, Threads, Running
  <2> QED BY <2>1 DEF AnyStep
<1>2. CASE TakeCreate
  <2>1. snap.idx \in Nat /\ snap.idx <= Len(log)
    BY <1>2, SnapInLog DEF TakeCreate
  <2>2. snap.idx \in Index /\ VerAt(snap.idx) \in Version
    BY <2>1, VerInRange
  <2>3. AnyCreate(Take)
    BY <1>2, <2>2 DEF TakeCreate, AnyCreate
  <2> QED BY <2>3 DEF AnyStep
<1>3. CASE TakePersist
  <2>1. CASE snap.kind = "empty"
    BY <1>3, <2>1 DEF TakePersist
  <2>2. CASE snap.kind # "empty"
    <3>1. Write(Take, snap.kind, snap.img) /\ snap.pc = "persist" /\ sink[Take].pc = "open"
      BY <1>3, <2>2 DEF TakePersist, Taking
    <3>2. Taken
      BY <3>1 DEF Taking
    <3>3. want[sink[Take].id] = VerAt(snap.idx)
      BY <3>1, TakeGives
    <3>4. CASE snap.kind = "db"
      BY <3>1, <3>2, <3>3, <3>4 DEF Taken, AnyWrite, AnyStep
    <3>5. CASE snap.kind = "wal"
      <4>1. PICK b \in Version : /\ snap.img = <<b, VerAt(snap.idx)>>
                                 /\ idx[Newest] <= snap.idx => b <= want[Newest]
        BY <3>2, <3>5 DEF Taken
      <4>2. Completes(b, VerAt(snap.idx), sink[Take].id)
        BY <3>1, <3>2, <3>5, <4>1, TakeGives DEF Taken, Completes
      <4>3. Write(Take, "wal", <<b, VerAt(snap.idx)>>)
        BY <3>1, <3>5, <4>1
      <4>4. AnyWrite(Take)
        BY <3>1, <3>3, <4>2, <4>3 DEF AnyWrite
      <4> QED BY <4>4 DEF AnyStep
    <3> QED BY <2>2, <3>4, <3>5, Numbers
  <2> QED BY <2>1, <2>2
<1>4. CASE TakePersistFailed
  <2>1. AnyCancel(Take)
    BY <1>4, Zenon DEF TakePersistFailed, OnFailure, AnyCancel
  <2> QED BY <2>1 DEF AnyStep
<1>5. CASE TakeClose
  <2>1. snap.pc = "closing" /\ CloseSink(Take) /\ sink[Take].pc = "open"
    BY <1>5 DEF TakeClose, CloseSink
  <2>2. Taken /\ sink[Take].kind = snap.kind
    BY <2>1 DEF Taking
  <2>3. AnyClose(Take)
    BY <2>1, <2>2, TakeGives DEF Taken, AnyClose
  <2> QED BY <2>3 DEF AnyStep
<1>6. CASE TakeStep \/ TakeDone \/ TakeCloseFailed
  <2>1. SinkStep(Take)
    BY <1>6 DEF TakeStep, TakeDone, TakeCloseFailed, SinkProgress, SinkStep, Sound
  <2> QED BY <2>1 DEF AnyStep
<1>7. CASE TakeIOError
  BY <1>7 DEF TakeIOError, Sound
<1> QED BY <1>1, <1>2, <1>3, <1>4, <1>5, <1>6, <1>7

\* installSnapshot's calls.
LEMMA InstIsAny ==
    ASSUME NodeInv,
           \/ \E i \in 1..Len(log) : InstCreate(i)
           \/ InstCopy \/ InstCancel \/ InstClose \/ InstStep \/ InstDone \/ InstFailed
           \/ InstOpen \/ InstRestored
    PROVE  [AnyStep]_vars
<1> USE NodeThreads DEF NodeInv
<1>0. Inst \in Writers /\ "fsm" \in Readers
  OBVIOUS
<1>1. ASSUME NEW i \in 1..Len(log), InstCreate(i)
      PROVE  AnyStep
  <2>1. i \in Nat /\ i <= Len(log)
    BY Numbers
  <2>2. AnyCreate(Inst)
    BY <1>1, <2>1, VerInRange DEF InstCreate, AnyCreate
  <2> QED BY <2>2 DEF AnyStep
<1>2. CASE InstCopy
  <2>1. sink[Inst].pc = "open" /\ idx[sink[Inst].id] = inst.idx /\ Write(Inst, "db", Whole(VerAt(inst.idx)))
    BY <1>2 DEF InstCopy, Installing
  <2>2. want[sink[Inst].id] = VerAt(inst.idx)
    BY <1>0, <2>1, SinkStandsFor DEF StoreSound
  <2>3. AnyWrite(Inst)
    BY <2>1, <2>2 DEF AnyWrite
  <2> QED BY <2>3 DEF AnyStep
<1>3. CASE InstCancel
  <2>1. fullNeeded \in BOOLEAN
    BY DEF StoreSound, Inv, TypeOK
  <2>2. AnyCancel(Inst)
    BY <1>3, <2>1, Zenon DEF InstCancel, Cancel, AnyCancel
  <2> QED BY <2>2 DEF AnyStep
<1>4. CASE InstClose
  <2>1. sink[Inst].pc = "open" /\ sink[Inst].kind = "db" /\ CloseSink(Inst)
    BY <1>4 DEF InstClose, CloseSink, Installing
  <2>2. AnyClose(Inst)
    BY <2>1 DEF AnyClose
  <2> QED BY <2>2 DEF AnyStep
<1>5. CASE InstStep \/ InstDone \/ InstFailed
  <2>1. SinkStep(Inst)
    BY <1>5 DEF InstStep, InstDone, InstFailed, SinkProgress, SinkStep
  <2> QED BY <2>1 DEF AnyStep
<1>6. CASE InstOpen \/ InstRestored
  <2>1. List("fsm") \/ Open("fsm") \/ CloseSnapshot("fsm")
    BY <1>6 DEF InstOpen, InstRestored, FsmRestore
  <2> QED BY <2>1 DEF AnyStep
<1> QED BY <1>1, <1>2, <1>3, <1>4, <1>5, <1>6

\* Every step of a sound node is, for the Store, a step of one of its callers.
LEMMA NodeIsAny ==
    ASSUME NodeInv, Sound, NodeStep
    PROVE  [AnyStep]_vars
<1>1. CASE \/ \E k \in Entry : Commit(k)
           \/ Receive \/ FsmSnapshot \/ BootEmpty
  BY <1>1 DEF Commit, Receive, FsmSnapshot, BootEmpty
<1>2. CASE FsmApply
  <2>1. CASE ApplyWrite \/ ApplyNoop
    BY <2>1 DEF ApplyWrite, ApplyNoop
  <2>2. CASE ApplyLoad
    <3>1. SetFullNeeded
      BY <1>2, <2>2 DEF FsmApply, Running, ApplyLoad, SetFullNeeded
    <3> QED BY <3>1 DEF AnyStep
  <2> QED BY <1>2, <2>1, <2>2 DEF FsmApply
<1>3. CASE FsmSnapshotBusy \/ AutoVacuumFailed
  BY <1>3 DEF FsmSnapshotBusy, AutoVacuumFailed, Sound
<1>4. CASE NodeCrash \/ NodeCheck
  BY <1>4 DEF NodeCrash, NodeCheck, AnyStep
<1>5. CASE BootOpen \/ BootRestore
  <2>1. List("fsm") \/ Open("fsm") \/ CloseSnapshot("fsm")
    BY <1>5 DEF BootOpen, BootRestore, FsmRestore
  <2> QED BY <2>1, NodeThreads DEF AnyStep
<1> QED BY <1>1, <1>2, <1>3, <1>4, <1>5, TakeIsAny, InstIsAny DEF NodeStep

----------------------------------------------------------------------------
(* The node's own state.                                                   *)

\* The records that the threads are given are records of their types.
LEMMA SnapRecords ==
    /\ NoSnapshot \in SnapState /\ NoInstall \in InstState
    /\ \A s \in SnapState : \A p \in {"idle", "taken", "persist", "closing"} :
          /\ [s EXCEPT !.pc = p] \in SnapState
          /\ [s EXCEPT !.pc = p].pc = p /\ [s EXCEPT !.pc = p].idx = s.idx
          /\ [s EXCEPT !.pc = p].kind = s.kind /\ [s EXCEPT !.pc = p].img = s.img
    /\ \A s \in InstState : \A p \in {"idle", "copy", "closing", "restore", "restoring"} :
          /\ [s EXCEPT !.pc = p] \in InstState
          /\ [s EXCEPT !.pc = p].pc = p /\ [s EXCEPT !.pc = p].idx = s.idx
    /\ NoSnapshot.pc = "idle" /\ NoInstall.pc = "idle"
BY DEF NoSnapshot, NoInstall, SnapState, InstState, File

\* What fsmSnapshot returns.
LEMMA FsmSnapshotEffect ==
    ASSUME NodeInv, FsmSnapshot
    PROVE  /\ snap' \in SnapState /\ snap'.pc = "taken" /\ snap'.idx = applied
           /\ FullSnapshotNeeded => snap'.kind = "db" /\ snap'.img = live
           /\ ~FullSnapshotNeeded /\ walBase # VerAt(applied) =>
                 snap'.kind = "wal" /\ snap'.img = <<walBase, VerAt(applied)>>
           /\ ~FullSnapshotNeeded /\ walBase = VerAt(applied) => snap'.kind = "empty"
           /\ walBase' = VerAt(applied) /\ VerAt(applied) \in Nat /\ applied \in Nat
           /\ walBase \in Version /\ VerAt(applied) \in Version
<1>1. applied \in Nat /\ applied <= Len(log)
  <2>1. PICK n \in Nat : n = Len(log)
    BY Numbers DEF NodeInv
  <2> QED BY <2>1 DEF NodeInv, NodeType
<1>2. VerAt(applied) \in Version /\ VerAt(applied) \in Nat
  BY <1>1, VerInRange, SnapshotBounds DEF NodeInv, Version
<1>3. walBase \in Version
  BY <1>2, SnapshotBounds DEF NodeInv, NodeType, FsmExact, Version
<1> DEFINE k == IF FullSnapshotNeeded THEN "db" ELSE IF walBase # VerAt(applied) THEN "wal" ELSE "empty"
           x == IF FullSnapshotNeeded THEN live ELSE IF walBase # VerAt(applied) THEN <<walBase, VerAt(applied)>> ELSE NoFile
<1>4. snap' = [pc |-> "taken", idx |-> applied, kind |-> k, img |-> x] /\ walBase' = VerAt(applied)
  BY DEF FsmSnapshot
<1>5. k \in {"empty", "db", "wal"}
  OBVIOUS
<1>6. x \in File
  BY <1>2, <1>3, Images DEF NodeInv, FsmExact, File, Image
<1>7. /\ FullSnapshotNeeded => k = "db" /\ x = live
      /\ ~FullSnapshotNeeded /\ walBase # VerAt(applied) => k = "wal" /\ x = <<walBase, VerAt(applied)>>
      /\ ~FullSnapshotNeeded /\ walBase = VerAt(applied) => k = "empty"
  OBVIOUS
<1> HIDE DEF k, x
<1>8. snap' \in SnapState /\ snap'.pc = "taken" /\ snap'.idx = applied /\ snap'.kind = k /\ snap'.img = x
  BY <1>1, <1>4, <1>5, <1>6 DEF SnapState
<1> QED BY <1>1, <1>2, <1>3, <1>4, <1>7, <1>8

\* The records of takeSnapshot and installSnapshot.
LEMMA RecordStep ==
    ASSUME NodeInv, NodeStep
    PROVE  snap' \in SnapState /\ inst' \in InstState
<1>0. snap \in SnapState /\ inst \in InstState
  BY DEF NodeInv, NodeType
<1>1. snap' \in SnapState
  <2>1. CASE FsmSnapshot
    BY <2>1, FsmSnapshotEffect
  <2>2. CASE snap' = snap \/ snap' = NoSnapshot \/ snap' = [snap EXCEPT !.pc = "persist"]
             \/ snap' = [snap EXCEPT !.pc = "closing"]
    <3>1. NoSnapshot \in SnapState
      BY SnapRecords
    <3>2. \A p \in {"persist", "closing"} : [snap EXCEPT !.pc = p] \in SnapState
      BY <1>0, SnapRecords
    <3> QED BY <1>0, <2>2, <3>1, <3>2
  <2> QED BY <2>1, <2>2 DEF NodeStep, nodeVars, logVars, dbVars, Commit, Receive, FsmApply,
        FsmSnapshotBusy, AutoVacuumFailed, TakeRefused, OnFailure, TakeCreate, TakePersist,
        TakePersistFailed, TakeClose, TakeStep, TakeDone, TakeCloseFailed, TakeIOError, InstCreate,
        InstCopy, InstCancel, InstClose, InstStep, InstDone, InstFailed, InstOpen, InstRestored,
        NodeCrash, NodeCheck, BootOpen, BootRestore, BootEmpty
<1>2. inst' \in InstState
  <2>1. ASSUME NEW i \in 1..Len(log), InstCreate(i) PROVE inst' \in InstState
    BY <2>1 DEF InstCreate, InstState
  <2>2. CASE \/ inst' = inst \/ inst' = NoInstall \/ inst' = [inst EXCEPT !.pc = "closing"]
             \/ inst' = [inst EXCEPT !.pc = "restore"] \/ inst' = [inst EXCEPT !.pc = "restoring"]
    <3>1. NoInstall \in InstState
      BY SnapRecords
    <3>2. \A p \in {"closing", "restore", "restoring"} : [inst EXCEPT !.pc = p] \in InstState
      BY <1>0, SnapRecords
    <3> QED BY <1>0, <2>2, <3>1, <3>2
  <2> QED BY <2>1, <2>2 DEF NodeStep, nodeVars, logVars, dbVars, Commit, Receive, FsmApply, FsmSnapshot,
        FsmSnapshotBusy, AutoVacuumFailed, TakeRefused, OnFailure, TakeCreate, TakePersist,
        TakePersistFailed, TakeClose, TakeStep, TakeDone, TakeCloseFailed, TakeIOError,
        InstCopy, InstCancel, InstClose, InstStep, InstDone, InstFailed, InstOpen, InstRestored,
        NodeCrash, NodeCheck, BootOpen, BootRestore, BootEmpty
<1> QED BY <1>1, <1>2

\* The log only grows, and what it held keeps its version.
LEMMA LogStep ==
    ASSUME NodeInv, NodeStep
    PROVE  /\ log' \in Seq(Entry) /\ Len(log') \in Nat /\ Len(log) <= Len(log') /\ Len(log') <= MaxLog
           /\ \A i \in Nat : i <= Len(log) => Ver(log', i) = Ver(log, i)
<1>0. log \in Seq(Entry) /\ Len(log) <= MaxLog /\ Len(log) \in Nat
  BY Numbers DEF NodeInv, NodeType
<1>1. ASSUME NEW k \in Entry, Commit(k)
      PROVE  /\ log' \in Seq(Entry) /\ Len(log') \in Nat /\ Len(log) <= Len(log') /\ Len(log') <= MaxLog
             /\ \A i \in Nat : i <= Len(log) => Ver(log', i) = Ver(log, i)
  <2>1. log' = Append(log, k) /\ Len(log) < MaxLog
    BY <1>1 DEF Commit
  <2>2. log' \in Seq(Entry) /\ Len(log') = Len(log) + 1
    BY <1>0, <2>1
  <2>3. \A i \in Nat : i <= Len(log) => Ver(log', i) = Ver(log, i)
    BY <1>0, <2>1, VerAppend
  <2>4. PICK n \in Nat : n = Len(log)
    BY <1>0
  <2> QED BY <2>1, <2>2, <2>3, <2>4, NodeBounds
<1>2. CASE log' = log
  BY <1>0, <1>2
<1>3. UNCHANGED log \/ \E k \in Entry : Commit(k)
  BY DEF NodeStep, nodeVars, logVars, Receive, FsmApply, FsmSnapshot,
     FsmSnapshotBusy, AutoVacuumFailed, TakeRefused, TakeCreate, TakePersist,
     TakePersistFailed, TakeClose, TakeStep, TakeDone, TakeCloseFailed, TakeIOError, InstCreate,
     InstCopy, InstCancel, InstClose, InstStep, InstDone, InstFailed, InstOpen, InstRestored,
     NodeCrash, NodeCheck, BootOpen, BootRestore, BootEmpty
<1> QED BY <1>1, <1>2, <1>3

\* fsmRestore leaves the database of the newest snapshot, whole.
LEMMA RestoreEffect ==
    ASSUME NodeInv, FsmRestore
    PROVE  /\ Live # {} /\ Live' = Live /\ Newest' = Newest
           /\ idx[Newest] \in Nat /\ idx[Newest] <= Len(log)
           /\ want[Newest] = VerAt(idx[Newest]) /\ want[Newest] \in Nat
           /\ applied' = idx[Newest] /\ live' = Whole(VerAt(idx[Newest]))
           /\ walBase' = want[Newest] /\ ~moved' /\ modSet'
           /\ UNCHANGED <<dir, idx, want, sink, status, fullNeeded>>
           /\ rdr'["fsm"].pc = "idle" /\ \A r \in Readers : r # "fsm" => rdr'[r] = rdr[r]
<1> USE NodeThreads DEF NodeInv
<1>1. /\ rdr["fsm"].pc = "open" /\ rdr' = [rdr EXCEPT !["fsm"] = NoSnap]
      /\ UNCHANGED <<dir, idx, want, sink, status, fullNeeded>>
  BY DEF FsmRestore, CloseSnapshot, disk, named
<1>2. Live # {} /\ rdr["fsm"].id = Newest /\ Live' = Live /\ Newest' = Newest
  BY <1>1, SameOrder DEF Restoring
<1>3. db[Newest] = Whole(want[Newest])
  BY <1>1, <1>2 DEF StoreSound, Wholeness, OpenIsStable
<1>4. /\ idx[Newest] \in Nat /\ idx[Newest] <= Len(log)
      /\ want[Newest] = VerAt(idx[Newest]) /\ want[Newest] \in Nat
  BY <1>2, NewestNumbers DEF StoreSound
<1>5. /\ applied' = idx[Newest] /\ live' = db[Newest] /\ walBase' = VerAt(idx[Newest]) /\ ~moved' /\ modSet'
  BY <1>2 DEF FsmRestore, StoreModifiedTime
<1>6. rdr'["fsm"].pc = "idle" /\ \A r \in Readers : r # "fsm" => rdr'[r] = rdr[r]
  BY <1>1, Blank DEF StoreSound, Inv, TypeOK
<1> QED BY <1>1, <1>2, <1>3, <1>4, <1>5, <1>6

\* The numbers stay in order: what is applied is stored, what is stored committed.
LEMMA TypeNode ==
    ASSUME NodeInv, Sound, NodeStep
    PROVE  NodeType'
<1>1. PICK n \in Nat, m \in Nat : n = Len(log) /\ m = Len(log') /\ n <= m /\ m <= MaxLog
  BY LogStep, Numbers DEF NodeInv
<1>2. /\ first \in Nat /\ last \in Nat /\ applied \in Nat /\ walBase \in Nat
      /\ applied <= last /\ last <= n
  BY <1>1 DEF NodeInv, NodeType
<1> SUFFICES /\ first' \in Nat /\ last' \in Nat /\ applied' \in Nat /\ walBase' \in Nat
             /\ applied' <= last' /\ last' <= m
  BY <1>1, LogStep, RecordStep DEF NodeType
<1>3. CASE UNCHANGED <<first, last, applied, walBase>>
  BY <1>1, <1>2, <1>3
<1>4. CASE Receive
  BY <1>1, <1>2, <1>4 DEF Receive, dbVars
<1>5. CASE FsmApply
  <2>1. UNCHANGED <<first, last>> /\ applied' = applied + 1 /\ applied < last
    BY <1>5 DEF FsmApply, logVars
  <2>2. VerAt(applied) \in Nat /\ VerAt(applied + 1) \in Nat
    BY <1>2, VerIs, VerBounds
  <2>3. walBase' \in {walBase, VerAt(applied), VerAt(applied + 1)}
    BY <1>5 DEF FsmApply, ApplyWrite, ApplyLoad, ApplyNoop
  <2> QED BY <1>1, <1>2, <2>1, <2>2, <2>3
<1>6. CASE FsmSnapshot
  <2>1. UNCHANGED <<first, last, applied>> /\ walBase' \in Nat
    BY <1>6, FsmSnapshotEffect DEF FsmSnapshot, logVars
  <2> QED BY <1>1, <1>2, <2>1
<1>7. CASE TakeDone
  <2>1. UNCHANGED <<last, applied, walBase>> /\ first' \in {first, snap.idx + 1}
    BY <1>7 DEF TakeDone, dbVars
  <2>2. snap.idx \in Nat
    BY Numbers DEF NodeInv
  <2> QED BY <1>1, <1>2, <2>1, <2>2
<1>8. CASE InstRestored \/ BootRestore
  <2>1. PICK i \in Nat : i = idx[Newest] /\ i <= n /\ applied' = i /\ walBase' \in Nat
    BY <1>1, <1>8, RestoreEffect DEF InstRestored, BootRestore
  <2>2. CASE InstRestored
    <3>1. inst.idx = i
      BY <2>1, <2>2 DEF InstRestored, NodeInv, Installing
    <3> QED BY <1>1, <2>1, <2>2, <3>1 DEF InstRestored
  <2>3. CASE BootRestore
    BY <1>1, <1>2, <2>1, <2>3 DEF BootRestore
  <2> QED BY <1>8, <2>2, <2>3
<1>9. CASE NodeCrash
  BY <1>1, <1>2, <1>9 DEF NodeCrash, logVars
<1> QED BY <1>3, <1>4, <1>5, <1>6, <1>7, <1>8, <1>9 DEF NodeStep, nodeVars, logVars, dbVars, Commit,
     FsmSnapshotBusy, AutoVacuumFailed, TakeRefused, TakeCreate, TakePersist,
     TakePersistFailed, TakeClose, TakeStep, TakeCloseFailed, TakeIOError, InstCreate,
     InstCopy, InstCancel, InstClose, InstStep, InstDone, InstFailed, InstOpen,
     NodeCheck, BootOpen, BootEmpty

\* Create names a snapshot after an entry of the log; nothing else names one.
LEMMA NamedStep ==
    ASSUME NodeInv, NodeStep
    PROVE  Named'
<1>1. PICK n \in Nat, m \in Nat : n = Len(log) /\ m = Len(log') /\ n <= m
  BY LogStep, Numbers DEF NodeInv
<1>2. \A i \in ID : idx[i] \in Nat /\ idx[i] <= n /\ want[i] = Ver(log, idx[i])
  BY <1>1, VerIs, SnapshotBounds DEF NodeInv, Named, StoreSound, Inv, TypeOK, Index
<1> SUFFICES ASSUME NEW i \in ID
             PROVE  idx'[i] <= m /\ want'[i] = Ver(log', idx'[i])
  BY <1>1, VerIsNext DEF Named
<1>3. Ver(log', idx[i]) = Ver(log, idx[i])
  BY <1>1, <1>2, LogStep
<1>4. CASE UNCHANGED <<idx, want>>
  BY <1>1, <1>2, <1>3, <1>4
<1>5. ASSUME NEW w, NEW k \in Nat, k <= n, UNCHANGED log, Create(w, k, VerAt(k))
      PROVE  idx'[i] <= m /\ want'[i] = Ver(log', idx'[i])
  <2>1. idx' = [idx EXCEPT ![used + 1] = k] /\ want' = [want EXCEPT ![used + 1] = VerAt(k)]
    BY <1>5 DEF Create
  <2>2. CASE i = used + 1
    BY <1>1, <1>5, <2>1, <2>2, VerIs DEF NodeInv, StoreSound, Inv, TypeOK
  <2>3. CASE i # used + 1
    BY <1>1, <1>2, <1>5, <2>1, <2>3 DEF NodeInv, StoreSound, Inv, TypeOK
  <2> QED BY <2>2, <2>3
<1>6. CASE TakeCreate
  BY <1>1, <1>5, <1>6, SnapInLog DEF TakeCreate, logVars, NodeInv
<1>7. ASSUME NEW k \in 1..Len(log), InstCreate(k)
      PROVE  idx'[i] <= m /\ want'[i] = Ver(log', idx'[i])
  <2>1. k \in Nat /\ k <= n
    BY <1>1
  <2> QED BY <1>5, <1>7, <2>1 DEF InstCreate, logVars
<1>8. ASSUME NEW w, SinkProgress(w)
      PROVE  UNCHANGED <<idx, want>>
  BY <1>8 DEF SinkProgress, named, ProcessSnapshotData, RenameData, CommitDir, MovePrev,
     CheckpointRemove, UpdateMetaSize, UnsetFullNeeded, ReapOne, Abort
<1>9. CASE TakeStep \/ InstStep
  BY <1>4, <1>8, <1>9 DEF TakeStep, InstStep
<1>10. CASE ~(TakeStep \/ InstStep \/ TakeCreate \/ \E k \in 1..Len(log) : InstCreate(k))
  <2>1. UNCHANGED <<idx, want>>
    BY <1>10 DEF NodeStep, vars, named, Commit, Receive, FsmApply, ApplyWrite, ApplyLoad, ApplyNoop,
       FsmSnapshot, FsmSnapshotBusy, AutoVacuumFailed, TakeRefused, TakePersist, Write,
       TakePersistFailed, TakeClose, CloseSink, TakeDone, CloseOK, TakeCloseFailed, CloseFailed,
       TakeIOError, IOError, InstCopy, InstCancel, Cancel, InstClose, InstDone, InstFailed,
       InstOpen, List, Open, InstRestored, FsmRestore, CloseSnapshot,
       NodeCrash, Crash, NodeCheck, Check, BootOpen, BootRestore, BootEmpty
  <2> QED BY <1>4, <2>1
<1> QED BY <1>6, <1>7, <1>9, <1>10

\* The database after a step is the log up to the applied index.
LEMMA FsmStep ==
    ASSUME NodeInv, Sound, NodeStep
    PROVE  FsmExact'
<1>1. PICK n \in Nat : n = Len(log)
  BY Numbers DEF NodeInv
<1>2. applied \in Nat /\ applied <= n /\ walBase \in Nat /\ last \in Nat /\ last <= n
  BY <1>1 DEF NodeInv, NodeType
<1>3. live = Whole(Ver(log, applied)) /\ walBase <= Ver(log, applied) /\ ~moved
  BY VerIs DEF NodeInv, FsmExact
<1>4. \A i \in Nat : i <= n => Ver(log', i) = Ver(log, i)
  BY <1>1, LogStep
<1> SUFFICES live' = Whole(Ver(log', applied')) /\ walBase' <= Ver(log', applied') /\ ~moved'
  BY VerIsNext DEF FsmExact, Whole
<1>5. CASE UNCHANGED <<live, applied, walBase, moved>>
  BY <1>2, <1>3, <1>4, <1>5
<1>6. CASE FsmApply
  <2>1. applied' = applied + 1 /\ log' = log
    BY <1>6 DEF FsmApply, logVars
  <2>2. PICK a \in Nat, b \in Nat : a = Ver(log, applied) /\ b = Ver(log, applied + 1) /\ a <= b
    BY <1>2, VerBounds, VerGrows
  <2>3. CASE ApplyWrite
    <3>1. live' = Replay(Whole(a), <<a, b>>) /\ walBase' = walBase /\ ~moved'
      BY <1>3, <2>2, <2>3, VerIs DEF ApplyWrite
    <3>2. Replay(Whole(a), <<a, b>>) = Whole(b)
      BY <2>2 DEF Replay, Whole
    <3> QED BY <1>2, <1>3, <2>1, <2>2, <3>1, <3>2
  <2>4. CASE ApplyLoad
    BY <2>1, <2>2, <2>4, VerIs DEF ApplyLoad
  <2>5. CASE ApplyNoop
    <3>1. a = b /\ UNCHANGED <<live, walBase, moved>>
      BY <1>2, <2>2, <2>5, VerNoop DEF ApplyNoop
    <3> QED BY <1>3, <2>1, <2>2, <3>1
  <2> QED BY <1>6, <2>3, <2>4, <2>5 DEF FsmApply
<1>7. CASE FsmSnapshot
  <2>1. UNCHANGED <<log, live, applied>> /\ walBase' = Ver(log, applied) /\ ~moved'
    BY <1>7, VerIs DEF FsmSnapshot, logVars
  <2>2. Ver(log, applied) \in Nat
    BY <1>2, VerBounds
  <2> QED BY <1>3, <2>1, <2>2
<1>8. CASE InstRestored \/ BootRestore
  <2>1. FsmRestore /\ log' = log
    BY <1>8 DEF InstRestored, BootRestore
  <2>2. /\ idx[Newest] \in Nat /\ applied' = idx[Newest] /\ live' = Whole(Ver(log, idx[Newest]))
        /\ walBase' = Ver(log, idx[Newest]) /\ ~moved'
    BY <2>1, RestoreEffect, VerIs
  <2>3. Ver(log, idx[Newest]) \in Nat
    BY <2>2, VerBounds
  <2> QED BY <2>1, <2>2, <2>3
<1>9. CASE NodeCrash
  <2>1. log' = log /\ applied' = 0 /\ live' = Whole(0) /\ walBase' = 0 /\ ~moved'
    BY <1>9 DEF NodeCrash, logVars
  <2>2. Ver(log, 0) = 0
    BY VerBounds
  <2> QED BY <2>1, <2>2
<1>10. CASE FsmSnapshotBusy
  BY <1>10 DEF FsmSnapshotBusy, Sound
<1> QED BY <1>5, <1>6, <1>7, <1>8, <1>9, <1>10 DEF NodeStep, nodeVars, dbVars, Commit, Receive,
     AutoVacuumFailed, TakeRefused, TakeCreate, TakePersist,
     TakePersistFailed, TakeClose, TakeStep, TakeDone, TakeCloseFailed, TakeIOError, InstCreate,
     InstCopy, InstCancel, InstClose, InstStep, InstDone, InstFailed, InstOpen,
     NodeCheck, BootOpen, BootEmpty

----------------------------------------------------------------------------
(* The threads and their Sinks.                                            *)

\* A Sink that has been made.
LEMMA CreateEffect ==
    ASSUME Inv, NEW w \in Writers, NEW i, NEW v, Create(w, i, v)
    PROVE  /\ sink'[w].pc = "open" /\ sink'[w].kind = "empty" /\ idx'[sink'[w].id] = i
           /\ \A u \in Writers \ {w} : sink'[u] = sink[u]
           /\ \A u \in Writers : sink[u].pc = "idle"
           /\ UNCHANGED <<rdr, status, fullNeeded>>
<1>1. PICK s : s = [NoSink EXCEPT !.pc = "open", !.id = used + 1]
  OBVIOUS
<1>2. s.pc = "open" /\ s.kind = "empty" /\ s.id = used + 1
  BY <1>1 DEF NoSink
<1>3. sink' = [sink EXCEPT ![w] = s] /\ idx' = [idx EXCEPT ![used + 1] = i]
  BY <1>1 DEF Create
<1>4. used + 1 \in ID
  BY SnapshotBounds DEF Create, Inv, TypeOK, ID
<1>5. sink \in [Writers -> SinkState] /\ idx \in [ID -> Index]
  BY DEF Inv, TypeOK
<1>6. sink'[w] = s /\ \A u \in Writers \ {w} : sink'[u] = sink[u]
  BY <1>3, <1>5
<1>7. idx'[used + 1] = i
  BY <1>3, <1>4, <1>5
<1>8. \A u \in Writers : sink[u].pc = "idle"
  BY DEF Create, BeginWrite, Inv, LockDiscipline
<1>9. UNCHANGED <<rdr, status, fullNeeded>>
  BY DEF Create
<1> QED BY <1>2, <1>6, <1>7, <1>8, <1>9

\* A Sink that has been given its data.
LEMMA WriteEffect ==
    ASSUME Inv, NEW w \in Writers, NEW k, NEW x, Write(w, k, x)
    PROVE  /\ sink[w].pc = "open" /\ sink'[w].pc = "open" /\ sink'[w].kind = k
           /\ sink'[w].id = sink[w].id
           /\ \A u \in Writers \ {w} : sink'[u] = sink[u]
           /\ UNCHANGED <<dir, idx, want, rdr, status, fullNeeded>>
<1>1. sink' = [sink EXCEPT ![w] = [sink[w] EXCEPT !.kind = k, !.img = x]] /\ sink[w].pc = "open"
  BY DEF Write, Inv, TypeOK
<1>2. \A s \in SinkState : /\ [s EXCEPT !.kind = k, !.img = x].pc = s.pc
                           /\ [s EXCEPT !.kind = k, !.img = x].kind = k
                           /\ [s EXCEPT !.kind = k, !.img = x].id = s.id
  BY DEF SinkState
<1>3. sink[w] \in SinkState
  BY DEF Inv, TypeOK
<1>4. PICK s : s = [sink[w] EXCEPT !.kind = k, !.img = x]
  OBVIOUS
<1>5. s.pc = "open" /\ s.kind = k /\ s.id = sink[w].id
  BY <1>1, <1>2, <1>3, <1>4
<1> QED BY <1>1, <1>4, <1>5 DEF Write, disk, named, Inv, TypeOK

\* A Sink that is being closed.
LEMMA CloseEffect ==
    ASSUME Inv, NEW w \in Writers, CloseSink(w)
    PROVE  /\ sink[w].pc = "open" /\ sink'[w].pc = "process" /\ sink'[w].id = sink[w].id
           /\ \A u \in Writers \ {w} : sink'[u] = sink[u]
           /\ UNCHANGED <<dir, idx, want, rdr, status, fullNeeded>>
<1>1. Goto(w, "process")
  BY DEF CloseSink
<1> QED BY <1>1, GotoKeeps DEF CloseSink, named, SinkPC

\* A Sink that is gone.
LEMMA EndEffect ==
    ASSUME Inv, NEW w \in Writers, sink' = [sink EXCEPT ![w] = NoSink]
    PROVE  sink'[w].pc = "idle" /\ \A u \in Writers \ {w} : sink'[u] = sink[u]
BY Blank DEF Inv, TypeOK

\* What the steps of takeSnapshot do to the Sinks.
LEMMA TakeEffect ==
    ASSUME NodeInv, Sound,
           \/ TakeRefused \/ TakeCreate \/ TakePersist \/ TakePersistFailed \/ TakeClose
           \/ TakeStep \/ TakeDone \/ TakeCloseFailed \/ TakeIOError
    PROVE  /\ \A w \in Writers \ {Take} : sink'[w] = sink[w]
           /\ UNCHANGED <<rdr, status, boot, inst, last, applied, log>>
           /\ snap.pc # "idle"
           /\ \/ snap'.pc = "idle" /\ sink'[Take].pc = "idle"
              \/ TakeCreate \/ TakePersist \/ TakeClose \/ TakeStep
<1> USE NodeThreads DEF NodeInv
<1>0. Take \in Writers /\ Inv /\ snap \in SnapState
  BY DEF StoreSound, NodeType
<1>1. CASE TakeRefused
  BY <1>1, SnapRecords DEF TakeRefused, OnFailure, logVars, dbVars, Taking
<1>2. CASE TakeCreate
  BY <1>0, <1>2, CreateEffect DEF TakeCreate, logVars, dbVars
<1>3. CASE TakePersist
  <2>1. CASE snap.kind = "empty"
    BY <1>3, <2>1 DEF TakePersist, logVars, dbVars, vars
  <2>2. CASE snap.kind # "empty"
    BY <1>0, <1>3, <2>2, WriteEffect DEF TakePersist, logVars, dbVars
  <2> QED BY <2>1, <2>2
<1>4. CASE TakePersistFailed
  BY <1>0, <1>4, EndEffect, SnapRecords DEF TakePersistFailed, OnFailure, logVars, dbVars
<1>5. CASE TakeClose
  BY <1>0, <1>5, CloseEffect DEF TakeClose, nodeVars
<1>6. CASE TakeStep
  <2>1. snap.pc # "idle"
    BY <1>0, <1>6, ProgressEffect DEF TakeStep, Taking
  <2> QED BY <1>0, <1>6, <2>1, ProgressEffect DEF TakeStep, nodeVars
<1>7. CASE TakeDone
  <2>1. snap.pc # "idle"
    BY <1>7 DEF TakeDone, CloseOK, Taking
  <2> QED BY <1>0, <1>7, <2>1, EndEffect, SnapRecords DEF TakeDone, CloseOK, dbVars
<1>8. CASE TakeCloseFailed
  <2>1. CloseFailed(Take) /\ snap.pc # "idle"
    BY <1>8 DEF TakeCloseFailed, Sound
  <2> QED BY <1>0, <1>8, <2>1, EndEffect, SnapRecords DEF TakeCloseFailed, CloseFailed, logVars, dbVars
<1>9. CASE TakeIOError
  BY <1>9 DEF TakeIOError, Sound
<1> QED BY <1>1, <1>2, <1>3, <1>4, <1>5, <1>6, <1>7, <1>8, <1>9

\* What the steps of installSnapshot up to the end of Close do to the Sinks.
LEMMA InstEffect ==
    ASSUME NodeInv,
           \/ \E i \in 1..Len(log) : InstCreate(i)
           \/ InstCopy \/ InstCancel \/ InstClose \/ InstStep \/ InstDone \/ InstFailed
    PROVE  /\ \A w \in Writers \ {Inst} : sink'[w] = sink[w]
           /\ UNCHANGED <<rdr, status, boot, snap, dbVars, logVars>>
           /\ Running
           /\ inst.pc \in {"idle", "copy", "closing"}
           /\ \/ inst'.pc = "idle" /\ sink'[Inst].pc = "idle"
              \/ \E i \in 1..Len(log) : InstCreate(i)
              \/ InstCopy \/ InstClose \/ InstStep \/ InstDone
<1> USE NodeThreads DEF NodeInv
<1>0. Inst \in Writers /\ Inv
  BY DEF StoreSound
<1>1. ASSUME NEW i \in 1..Len(log), InstCreate(i)
      PROVE  /\ \A w \in Writers \ {Inst} : sink'[w] = sink[w]
             /\ UNCHANGED <<rdr, status, boot, snap, dbVars, logVars>>
             /\ Running
             /\ inst.pc \in {"idle", "copy", "closing"}
  <2>1. Create(Inst, i, VerAt(i))
    BY <1>1 DEF InstCreate
  <2> QED BY <1>0, <1>1, <2>1, CreateEffect DEF InstCreate
<1>2. CASE InstCopy
  <2>1. Write(Inst, "db", Whole(VerAt(inst.idx))) /\ inst.pc = "copy" /\ Running
    BY <1>2 DEF InstCopy, Threads
  <2> QED BY <1>0, <1>2, <2>1, WriteEffect DEF InstCopy
<1>3. CASE InstCancel
  <2>1. inst.pc \in {"copy", "closing"} /\ Running
    BY <1>3 DEF InstCancel, Threads
  <2> QED BY <1>0, <1>3, <2>1, EndEffect, SnapRecords DEF InstCancel, Cancel
<1>4. CASE InstClose
  <2>1. inst.pc = "closing" /\ Running
    BY <1>4 DEF InstClose, Threads
  <2> QED BY <1>0, <1>4, <2>1, CloseEffect DEF InstClose, nodeVars, dbVars, logVars
<1>5. CASE InstStep
  <2>1. sink[Inst].pc \notin {"idle", "open"}
    BY <1>0, <1>5, ProgressEffect DEF InstStep
  <2>2. inst.pc = "closing" /\ Running
    BY <2>1, Numbers DEF Installing, Threads
  <2> QED BY <1>0, <1>5, <2>2, ProgressEffect DEF InstStep, nodeVars, dbVars, logVars
<1>6. CASE InstDone \/ InstFailed
  <2>1. sink[Inst].pc \notin {"idle", "open"} /\ sink' = [sink EXCEPT ![Inst] = NoSink]
        /\ UNCHANGED <<rdr, status>>
    BY <1>6 DEF InstDone, InstFailed, CloseOK, CloseFailed
  <2>2. inst.pc = "closing" /\ Running
    BY <2>1, Numbers DEF Installing, Threads
  <2> QED BY <1>0, <1>6, <2>1, <2>2, EndEffect, SnapRecords DEF InstDone, InstFailed
<1> QED BY <1>1, <1>2, <1>3, <1>4, <1>5, <1>6

NodeElse ==
    \/ \E k \in Entry : Commit(k)
    \/ Receive \/ FsmApply \/ FsmSnapshot \/ InstOpen \/ InstRestored
    \/ NodeCheck \/ BootOpen \/ BootRestore \/ BootEmpty

\* Everything else, but for a crash, leaves the Sinks alone.
LEMMA ElseEffect ==
    ASSUME NodeElse
    PROVE  UNCHANGED <<sink, idx, want>> /\ (UNCHANGED dir \/ NodeCheck)
BY DEF NodeElse, vars, disk, named, Commit, Receive, FsmApply, ApplyWrite, ApplyLoad, ApplyNoop,
       FsmSnapshot, InstOpen, List, Open, InstRestored, FsmRestore, CloseSnapshot,
       NodeCheck, Check, BootOpen, BootRestore, BootEmpty

\* The steps of a sound node, by thread.
LEMMA NodeCases ==
    ASSUME Sound, NodeStep
    PROVE  \/ NodeElse \/ NodeCrash
           \/ \/ TakeRefused \/ TakeCreate \/ TakePersist \/ TakePersistFailed \/ TakeClose
              \/ TakeStep \/ TakeDone \/ TakeCloseFailed \/ TakeIOError
           \/ \/ \E i \in 1..Len(log) : InstCreate(i)
              \/ InstCopy \/ InstCancel \/ InstClose \/ InstStep \/ InstDone \/ InstFailed
<1>1. ~FsmSnapshotBusy /\ ~AutoVacuumFailed
  BY DEF FsmSnapshotBusy, AutoVacuumFailed, Sound
<1> QED BY <1>1, Zenon DEF NodeStep, NodeElse

\* Sinks and snapshots belong to the threads, and the threads to a running node.
LEMMA ThreadsStep ==
    ASSUME NodeInv, Sound, NodeStep
    PROVE  Threads'
<1> USE NodeThreads DEF NodeInv
<1>0. Inv /\ Take # Inst
  BY DEF StoreSound, Take, Inst
<1>1. CASE NodeCrash
  <2>1. snap'.pc = "idle" /\ inst'.pc = "idle"
    BY <1>1, SnapRecords DEF NodeCrash
  <2>2. (\A w \in Writers : sink'[w].pc = "idle") /\ (\A r \in Readers : rdr'[r].pc = "idle")
    BY <1>1, Blank DEF NodeCrash, Crash
  <2> QED BY <2>1, <2>2 DEF Threads
<1>2. CASE \/ TakeRefused \/ TakeCreate \/ TakePersist \/ TakePersistFailed \/ TakeClose
           \/ TakeStep \/ TakeDone \/ TakeCloseFailed \/ TakeIOError
  BY <1>0, <1>2, TakeEffect DEF Threads, Running
<1>3. CASE \/ \E i \in 1..Len(log) : InstCreate(i)
           \/ InstCopy \/ InstCancel \/ InstClose \/ InstStep \/ InstDone \/ InstFailed
  BY <1>0, <1>3, InstEffect DEF Threads, Running
<1>4. CASE NodeElse
  <2>1. \A w \in Writers : w # Take /\ w # Inst => sink'[w].pc = "idle"
    BY <1>4, ElseEffect DEF Threads
  <2>2. \A r \in Readers : r # "fsm" => rdr'[r].pc = "idle"
    <3>1. CASE UNCHANGED rdr
      BY <3>1 DEF Threads
    <3>2. CASE InstRestored \/ BootRestore
      BY <3>2, RestoreEffect DEF InstRestored, BootRestore, Threads
    <3>3. CASE InstOpen \/ BootOpen
      <4>1. List("fsm") \/ Open("fsm")
        BY <3>3 DEF InstOpen, BootOpen
      <4>2. \A r \in Readers : r # "fsm" => rdr'[r] = rdr[r]
        BY <4>1 DEF List, Open, StoreSound, Inv, TypeOK
      <4> QED BY <4>2 DEF Threads
    <3> QED BY <1>4, <3>1, <3>2, <3>3 DEF NodeElse, vars, Commit, Receive, FsmApply, ApplyWrite,
          ApplyLoad, ApplyNoop, FsmSnapshot, NodeCheck, Check, BootEmpty
  <2>3. CASE NodeCheck
    <3>1. status # "up" /\ UNCHANGED <<snap, inst>>
      BY <2>3 DEF NodeCheck, Check, Inspect, CheckReplay, CheckSize, nodeVars
    <3> QED BY <2>1, <2>2, <3>1 DEF Threads, Running
  <2>4. CASE ~NodeCheck
    <3>1. UNCHANGED status
      BY <1>4, <2>4 DEF NodeElse, vars, Commit, Receive, FsmApply, ApplyWrite, ApplyLoad, ApplyNoop,
         FsmSnapshot, InstOpen, List, Open, InstRestored, FsmRestore, CloseSnapshot,
         BootOpen, BootRestore, BootEmpty
    <3>2. boot => boot'
      BY <1>4, <2>4 DEF NodeElse, Commit, Receive, FsmApply, FsmSnapshot, InstOpen, InstRestored,
         BootOpen, BootRestore, BootEmpty, nodeVars
    <3>3. Running => Running'
      BY <3>1, <3>2 DEF Running
    <3>4. CASE FsmSnapshot
      BY <2>1, <2>2, <3>3, <3>4 DEF Threads, FsmSnapshot
    <3>5. CASE ~FsmSnapshot
      <4>1. snap' = snap /\ (inst'.pc # "idle" => inst.pc # "idle")
        BY <1>4, <2>4, <3>5, SnapRecords DEF NodeElse, Commit, Receive, FsmApply, InstOpen, InstRestored,
           BootOpen, BootRestore, BootEmpty, nodeVars
      <4> QED BY <2>1, <2>2, <3>3, <4>1 DEF Threads
    <3> QED BY <3>4, <3>5
  <2> QED BY <2>3, <2>4
<1> QED BY <1>1, <1>2, <1>3, <1>4, NodeCases

\* A thread that has committed its snapshot.
LEMMA CommitEffect ==
    ASSUME NodeInv, StoreSound', NEW w \in Writers, CommitDir(w)
    PROVE  /\ sink[w].pc = "commit" /\ Live' # {} /\ Newest' = sink[w].id /\ UNCHANGED <<idx, want>>
           /\ idx[sink[w].id] \in Nat /\ want[sink[w].id] = VerAt(idx[sink[w].id])
           /\ Live # {} => /\ idx[Newest] <= idx[sink[w].id]
                           /\ want[Newest] <= want[sink[w].id]
<1> USE DEF NodeInv, StoreSound
<1>1. /\ sink[w].pc = "commit" /\ UNCHANGED <<idx, want>>
      /\ Live # {} => Less(Newest, sink[w].id)
  BY DEF CommitDir, named, Wholeness, FilesSound, Stage
<1>2. Live' # {} /\ Newest' = sink[w].id
  BY CommitSound DEF Wholeness
<1>3. idx[sink[w].id] \in Nat /\ want[sink[w].id] = VerAt(idx[sink[w].id])
  BY <1>1, SinkStandsFor
<1>4. ASSUME Live # {}
      PROVE  idx[Newest] <= idx[sink[w].id] /\ want[Newest] <= want[sink[w].id]
  <2>1. PICK i \in Nat, k \in Nat : i = idx[Newest] /\ k = idx[sink[w].id]
    BY <1>3, <1>4, NewestNumbers
  <2>2. i <= k
    BY <1>1, <1>4, <2>1 DEF Less
  <2>3. Ver(log, i) <= Ver(log, k)
    BY <2>1, <2>2, VerGrows
  <2> QED BY <1>3, <1>4, <2>1, <2>2, <2>3, VerIs, NewestNumbers
<1> QED BY <1>1, <1>2, <1>3, <1>4

\* The newest snapshot changes only when one of the threads commits.
LEMMA NewestNode ==
    ASSUME NodeInv, StoreSound', Sound, NodeStep
    PROVE  NewestStays \/ (TakeStep /\ CommitDir(Take)) \/ (InstStep /\ CommitDir(Inst))
<1> USE NodeThreads DEF NodeInv
<1>0. Inv /\ Inv' /\ Take # Inst /\ Wholeness
  BY DEF StoreSound, Take, Inst
<1>1. NewestStays \/ \E w \in Writers : CommitDir(w)
  BY <1>0, NodeIsAny, OnlyCommit DEF AnyNext
<1> SUFFICES ASSUME NEW w \in Writers, CommitDir(w)
             PROVE  (TakeStep /\ w = Take) \/ (InstStep /\ w = Inst)
  BY <1>1
<1>2. sink[w].pc = "commit" /\ sink'[w].pc \in {"move", "size"}
  BY <1>0, GotoKeeps DEF CommitDir, SinkPC
<1>3. w = Take \/ w = Inst
  BY <1>2 DEF Threads
<1>4. w = Take => snap.pc = "closing"
  BY <1>2, Numbers DEF Taking
<1>5. w = Inst => inst.pc = "closing"
  BY <1>2, Numbers DEF Installing
<1>6. CASE NodeElse
  BY <1>2, <1>6, ElseEffect
<1>7. CASE NodeCrash
  BY <1>2, <1>7, Blank DEF NodeCrash, Crash
<1>8. CASE \/ TakeRefused \/ TakeCreate \/ TakePersist \/ TakePersistFailed \/ TakeClose
           \/ TakeStep \/ TakeDone \/ TakeCloseFailed \/ TakeIOError
  <2>1. w = Take
    BY <1>2, <1>8, TakeEffect
  <2>2. ~TakeCreate /\ ~TakePersist /\ ~TakeClose
    BY <1>2, <1>4, <2>1 DEF TakeCreate, TakePersist, TakeClose, CloseSink
  <2> QED BY <1>2, <1>8, <2>1, <2>2, TakeEffect
<1>9. CASE \/ \E i \in 1..Len(log) : InstCreate(i)
           \/ InstCopy \/ InstCancel \/ InstClose \/ InstStep \/ InstDone \/ InstFailed
  <2>1. w = Inst
    BY <1>2, <1>9, InstEffect
  <2>2. /\ ~(\E i \in 1..Len(log) : InstCreate(i)) /\ ~InstCopy /\ ~InstClose /\ ~InstDone
    BY <1>2, <1>5, <2>1 DEF InstCreate, InstCopy, InstClose, CloseSink, InstDone, CloseOK
  <2> QED BY <1>2, <1>9, <2>1, <2>2, InstEffect
<1> QED BY <1>6, <1>7, <1>8, <1>9, NodeCases

----------------------------------------------------------------------------
(* takeSnapshot, installSnapshot and the FSM's reader.                     *)

\* What takeSnapshot has in hand stays right as long as the newest snapshot does
\* not change, or when a later one than its own is installed.
LEMMA TakenKept ==
    ASSUME NodeInv, NodeStep, Taken, snap.pc # "idle",
           snap'.idx = snap.idx, snap'.kind = snap.kind, snap'.img = snap.img,
           NewestStays \/ (Live # {} => Live' # {} /\ snap.idx < idx'[Newest'] /\ idx'[Newest'] \in Nat)
    PROVE  Taken'
<1>1. snap.idx \in Nat /\ snap.idx <= Len(log)
  BY SnapInLog DEF NodeInv
<1>2. Ver(log', snap.idx) = Ver(log, snap.idx)
  BY <1>1, LogStep
<1>3. PICK v : v = VerAt(snap.idx)
  OBVIOUS
<1>4. VerAt(snap.idx)' = v
  BY <1>2, <1>3, VerIs, VerIsNext
<1>5. CASE NewestStays
  BY <1>3, <1>4, <1>5 DEF Taken, NewestStays, Whole
<1>6. CASE Live # {} => Live' # {} /\ snap.idx < idx'[Newest'] /\ idx'[Newest'] \in Nat
  <2>1. Live # {} => Live' # {} /\ ~(idx'[Newest'] <= snap'.idx)
    BY <1>1, <1>6
  <2> QED BY <1>3, <1>4, <2>1 DEF Taken, Whole
<1> QED BY <1>5, <1>6

\* What fsmSnapshot hands to Raft: the whole database, the WAL since the newest
\* snapshot or earlier, or nothing when there is nothing since.
LEMMA TakenFirst ==
    ASSUME NodeInv, FsmSnapshot
    PROVE  Taken'
<1> USE DEF NodeInv
<1>1. UNCHANGED <<log, dir, idx, want>> /\ snap.pc = "idle"
  BY DEF FsmSnapshot, vars, disk, named, logVars
<1>2. Live' = Live /\ Newest' = Newest
  BY <1>1, SameOrder
<1>3. PICK v \in Nat : v = VerAt(applied)
  BY FsmSnapshotEffect
<1>4. VerAt(snap.idx)' = v
  BY <1>1, <1>3, FsmSnapshotEffect, VerIs, VerIsNext
<1>5. CASE FullSnapshotNeeded
  <2>1. snap'.kind = "db" /\ snap'.img = Whole(v)
    BY <1>3, <1>5, FsmSnapshotEffect DEF FsmExact
  <2> QED BY <1>4, <2>1 DEF Taken, Whole
<1>6. CASE ~FullSnapshotNeeded
  <2>1. Live # {} /\ walBase <= want[Newest]
    BY <1>1, <1>6 DEF WalSound, FullSnapshotNeeded, Pending
  <2>2. CASE walBase # VerAt(applied)
    <3>1. snap'.kind = "wal" /\ snap'.img = <<walBase, v>> /\ walBase \in Version
      BY <1>3, <1>6, <2>2, FsmSnapshotEffect
    <3> QED BY <1>1, <1>2, <1>4, <2>1, <3>1 DEF Taken
  <2>3. CASE walBase = VerAt(applied)
    <3>1. snap'.kind = "empty" /\ snap'.idx = applied /\ applied \in Nat
      BY <1>6, <2>3, FsmSnapshotEffect
    <3>2. PICK i \in Nat, k \in Nat : i = idx[Newest] /\ k = want[Newest] /\ k = Ver(log, i)
      BY <2>1, NewestNumbers, VerIs DEF StoreSound
    <3>3. i <= applied => k <= v
      BY <1>3, <3>1, <3>2, VerGrows, VerIs
    <3>4. i <= applied => k = v
      BY <1>3, <2>1, <2>3, <3>2, <3>3
    <3> QED BY <1>1, <1>2, <1>4, <2>1, <3>1, <3>2, <3>4 DEF Taken
  <2> QED BY <2>2, <2>3
<1> QED BY <1>5, <1>6

\* takeSnapshot and its Sink go together.
LEMMA TakingStep ==
    ASSUME NodeInv, StoreSound', Sound, NodeStep
    PROVE  Taking'
<1> USE NodeThreads DEF NodeInv
<1>0. Inv /\ Inv' /\ Take # Inst /\ Take \in Writers /\ Inst \in Writers /\ snap \in SnapState
  BY DEF StoreSound, Take, Inst, NodeType
<1>1. CASE snap'.pc = "idle" /\ sink'[Take].pc = "idle"
  BY <1>1 DEF Taking
<1>2. CASE FsmSnapshot
  <2>1. /\ snap'.pc = "taken" /\ snap'.idx = applied /\ applied \in Nat
        /\ UNCHANGED <<sink, applied>> /\ sink[Take].pc = "idle" /\ modSet' /\ 0 < applied
    BY <1>2, FsmSnapshotEffect DEF FsmSnapshot, vars, Taking, StoreModifiedTime
  <2>2. Taken'
    BY <1>2, TakenFirst
  <2> QED BY <2>1, <2>2 DEF Taking
<1>3. CASE TakeCreate
  <2>1. /\ snap.pc = "taken" /\ Create(Take, snap.idx, VerAt(snap.idx)) /\ UNCHANGED <<modSet, applied>>
        /\ snap' = [snap EXCEPT !.pc = "persist"]
    BY <1>3 DEF TakeCreate, dbVars
  <2>2. snap'.pc = "persist" /\ snap'.idx = snap.idx /\ snap'.kind = snap.kind /\ snap'.img = snap.img
    BY <1>0, <2>1, SnapRecords
  <2>3. sink'[Take].pc = "open" /\ sink'[Take].kind = "empty" /\ idx'[sink'[Take].id] = snap.idx
    BY <1>0, <2>1, CreateEffect
  <2>4. NewestStays
    <3>1. ~TakeStep /\ ~InstStep
      BY <1>0, <2>1, CreateEffect, ProgressEffect DEF TakeStep, InstStep
    <3> QED BY <3>1, NewestNode
  <2>5. Taken
    BY <2>1 DEF Taking
  <2>6. Taken'
    BY <2>1, <2>2, <2>4, <2>5, TakenKept
  <2> QED BY <2>1, <2>2, <2>3, <2>6 DEF Taking
<1>4. CASE TakePersist
  <2>1. /\ snap.pc = "persist" /\ UNCHANGED <<modSet, applied>> /\ snap' = [snap EXCEPT !.pc = "closing"]
    BY <1>4 DEF TakePersist, dbVars
  <2>2. snap'.pc = "closing" /\ snap'.idx = snap.idx /\ snap'.kind = snap.kind /\ snap'.img = snap.img
    BY <1>0, <2>1, SnapRecords
  <2>3. /\ sink[Take].pc = "open" /\ sink'[Take].pc = "open" /\ sink'[Take].kind = snap.kind
        /\ sink'[Take].id = sink[Take].id /\ UNCHANGED <<dir, idx, want>>
    <3>1. CASE snap.kind = "empty"
      BY <1>4, <2>1, <3>1 DEF TakePersist, Taking, vars, disk, named
    <3>2. CASE snap.kind # "empty"
      BY <1>0, <1>4, <2>1, <3>2, WriteEffect DEF TakePersist
    <3> QED BY <3>1, <3>2
  <2>4. NewestStays
    <3>1. Live' = Live /\ Newest' = Newest
      BY <2>3, SameOrder
    <3> QED BY <2>3, <3>1 DEF NewestStays
  <2>5. Taken /\ idx[sink[Take].id] = snap.idx
    BY <2>1, <2>3 DEF Taking
  <2>6. Taken'
    BY <2>1, <2>2, <2>4, <2>5, TakenKept
  <2> QED BY <2>1, <2>2, <2>3, <2>5, <2>6 DEF Taking
<1>5. CASE TakeClose \/ TakeStep
  <2>1. snap' = snap /\ UNCHANGED <<modSet, applied>>
    BY <1>5 DEF TakeClose, TakeStep, nodeVars
  <2>2. /\ sink[Take].pc # "idle" /\ sink'[Take].pc \notin {"idle", "open"}
        /\ sink'[Take].id = sink[Take].id /\ UNCHANGED idx
    BY <1>0, <1>5, CloseEffect, ProgressEffect DEF TakeClose, TakeStep
  <2>3. snap.pc = "closing"
    <3>1. snap.pc \notin {"idle", "taken"}
      BY <2>2 DEF Taking
    <3>2. snap.pc # "persist"
      BY <1>0, <1>5, ProgressEffect DEF TakeClose, TakeStep, Taking
    <3> QED BY <3>1, <3>2, Numbers
  <2> QED BY <2>1, <2>2, <2>3 DEF Taking
<1>6. CASE snap' = snap /\ snap.pc # "idle" /\ sink'[Take] = sink[Take]
  <2>1. modSet /\ 0 < snap.idx /\ snap.idx <= applied /\ Running
    BY <1>6 DEF Taking, Threads
  <2>2. PICK i \in Nat : i = snap.idx
    BY Numbers
  <2>3. applied \in Nat /\ last \in Nat /\ applied <= last
    BY DEF NodeType
  <2>4. modSet' /\ ~NodeCrash
    BY <1>6, <2>1, SnapRecords DEF NodeStep, nodeVars, dbVars, Commit, Receive, FsmApply, ApplyWrite,
       ApplyLoad, ApplyNoop, FsmSnapshot, FsmSnapshotBusy, AutoVacuumFailed, StoreModifiedTime,
       TakeRefused, OnFailure, TakeCreate, TakePersist, TakePersistFailed, TakeClose, TakeStep,
       TakeDone, TakeCloseFailed, TakeIOError, InstCreate,
       InstCopy, InstCancel, InstClose, InstStep, InstDone, InstFailed, InstOpen, InstRestored,
       FsmRestore, NodeCrash, NodeCheck, BootOpen, BootRestore, BootEmpty
  <2>5. applied' = applied \/ applied' = applied + 1 \/ InstRestored
    BY <2>1, <2>4 DEF NodeStep, nodeVars, dbVars, Commit, Receive, FsmApply,
       FsmSnapshot, FsmSnapshotBusy, AutoVacuumFailed, Running,
       TakeRefused, OnFailure, TakeCreate, TakePersist, TakePersistFailed, TakeClose, TakeStep,
       TakeDone, TakeCloseFailed, TakeIOError, InstCreate,
       InstCopy, InstCancel, InstClose, InstStep, InstDone, InstFailed, InstOpen,
       NodeCheck, BootOpen, BootRestore, BootEmpty
  <2>6. i <= applied'
    <3>1. CASE InstRestored
      <4>1. PICK k \in Nat : k = inst.idx /\ last < k /\ applied' = k
        BY <3>1, Numbers, RestoreEffect DEF InstRestored, Installing
      <4> QED BY <2>1, <2>2, <2>3, <4>1
    <3> QED BY <2>1, <2>2, <2>3, <2>5, <3>1
  <2>7. snap.pc \in {"persist", "closing"} => idx'[sink'[Take].id] = snap.idx
    <3> SUFFICES ASSUME snap.pc \in {"persist", "closing"} PROVE idx'[sink[Take].id] = snap.idx
      BY <1>6
    <3>1. sink[Take].pc # "idle" /\ idx[sink[Take].id] = snap.idx
      BY DEF Taking
    <3>2. UNCHANGED idx
      <4>1. CASE NodeElse
        BY <4>1, ElseEffect
      <4>2. CASE InstCopy \/ InstClose \/ InstStep
        BY <1>0, <4>2, WriteEffect, CloseEffect, ProgressEffect DEF InstCopy, InstClose, InstStep
      <4>3. CASE InstCancel \/ InstDone \/ InstFailed
        BY <4>3 DEF InstCancel, Cancel, InstDone, CloseOK, InstFailed, CloseFailed, named
      <4>4. ASSUME NEW k \in 1..Len(log), InstCreate(k) PROVE FALSE
        BY <1>0, <3>1, <4>4, CreateEffect DEF InstCreate
      <4>5. CASE \/ TakeRefused \/ TakePersist \/ TakePersistFailed \/ TakeClose
                 \/ TakeStep \/ TakeDone \/ TakeCloseFailed
        BY <1>0, <1>4, <4>5, CloseEffect, ProgressEffect, WriteEffect DEF TakeRefused, TakePersist, TakePersistFailed,
           TakeClose, TakeStep, TakeDone, CloseOK, TakeCloseFailed, CloseFailed, Sound, named, vars
      <4>6. CASE TakeCreate
        BY <1>0, <3>1, <4>6, CreateEffect DEF TakeCreate
      <4>7. CASE TakeIOError
        BY <4>7 DEF TakeIOError, Sound
      <4> QED BY <2>4, <4>1, <4>2, <4>3, <4>4, <4>5, <4>6, <4>7, NodeCases
    <3> QED BY <3>1, <3>2
  <2>8. sink'[Take].pc \in {"idle", "open"} => Taken'
    <3> SUFFICES ASSUME sink[Take].pc \in {"idle", "open"} PROVE Taken'
      BY <1>6
    <3>1. Taken
      BY <1>6 DEF Taking
    <3>2. NewestStays \/ (Live' # {} /\ snap.idx < idx'[Newest'] /\ idx'[Newest'] \in Nat)
      <4>1. ~(TakeStep /\ CommitDir(Take))
        BY DEF CommitDir
      <4>2. ASSUME InstStep, CommitDir(Inst)
            PROVE  Live' # {} /\ snap.idx < idx'[Newest'] /\ idx'[Newest'] \in Nat
        <5>1. inst.pc = "closing"
          BY <4>2, Numbers DEF CommitDir, Installing
        <5>2. PICK k \in Nat : k = inst.idx /\ last < k
          BY <5>1, Numbers DEF Installing
        <5>3. idx'[Newest'] = k /\ Live' # {}
          BY <1>0, <4>2, <5>1, <5>2, CommitEffect DEF Installing
        <5> QED BY <2>1, <2>2, <2>3, <5>2, <5>3
      <4> QED BY <4>1, <4>2, NewestNode
    <3> QED BY <1>6, <3>1, <3>2, TakenKept
  <2> QED BY <1>6, <2>1, <2>2, <2>4, <2>6, <2>7, <2>8 DEF Taking
<1>7. CASE snap' = snap /\ snap.pc = "idle" /\ sink'[Take] = sink[Take]
  BY <1>1, <1>7 DEF Taking
<1>8. CASE NodeElse /\ ~FsmSnapshot
  <2>1. snap' = snap
    BY <1>8 DEF NodeElse, Commit, Receive, FsmApply, InstOpen, InstRestored, NodeCheck, nodeVars,
       BootOpen, BootRestore, BootEmpty
  <2>2. sink' = sink
    BY <1>8, ElseEffect
  <2> QED BY <1>6, <1>7, <2>1, <2>2
<1>9. CASE NodeCrash
  BY <1>0, <1>1, <1>9, Blank, SnapRecords DEF NodeCrash, Crash
<1>10. CASE \/ \E i \in 1..Len(log) : InstCreate(i)
            \/ InstCopy \/ InstCancel \/ InstClose \/ InstStep \/ InstDone \/ InstFailed
  BY <1>0, <1>6, <1>7, <1>10, InstEffect
<1>11. CASE \/ TakeRefused \/ TakeCreate \/ TakePersist \/ TakePersistFailed \/ TakeClose
            \/ TakeStep \/ TakeDone \/ TakeCloseFailed \/ TakeIOError
  BY <1>1, <1>3, <1>4, <1>5, <1>11, TakeEffect
<1> QED BY <1>2, <1>8, <1>9, <1>10, <1>11, NodeCases

\* Until the FSM has restored the leader's snapshot, no other becomes the newest:
\* what takeSnapshot may have in hand is older, and the Store refuses it.
LEMMA InstalledStays ==
    ASSUME NodeInv, StoreSound', Sound, NodeStep,
           inst.pc \in {"restore", "restoring"} \/ ~boot
    PROVE  NewestStays
<1> USE NodeThreads DEF NodeInv
<1>1. ASSUME CommitDir(Take) PROVE FALSE
  <2>1. sink[Take].pc = "commit"
    BY <1>1 DEF CommitDir
  <2>2. snap.pc = "closing" /\ Running
    BY <2>1, Numbers DEF Taking, Threads
  <2>3. inst.pc \in {"restore", "restoring"}
    BY <2>2 DEF Running
  <2>4. PICK i \in Nat, s \in Nat : i = inst.idx /\ s = snap.idx /\ last < i /\ s <= last /\ last \in Nat
    BY <2>2, <2>3, Numbers, SnapInLog DEF Installing, NodeType
  <2>5. Live # {} /\ idx[Newest] = i /\ idx[sink[Take].id] = s
    BY <2>2, <2>3, <2>4 DEF Installing, Taking
  <2>6. i <= s
    BY <1>1, <2>5, CommitEffect
  <2> QED BY <2>4, <2>6
<1>2. ASSUME CommitDir(Inst) PROVE FALSE
  <2>1. sink[Inst].pc = "commit"
    BY <1>2 DEF CommitDir
  <2>2. inst.pc = "closing" /\ Running
    BY <2>1, Numbers DEF Installing, Threads
  <2> QED BY <2>2 DEF Running
<1> QED BY <1>1, <1>2, NewestNode

\* The last index of the log does not pass the snapshot that is being installed.
LEMMA LastStays ==
    ASSUME NodeInv, NodeStep, inst.pc # "idle"
    PROVE  UNCHANGED last \/ InstRestored
<1>1. boot
  BY DEF NodeInv, Threads, Running
<1> QED BY <1>1 DEF NodeStep, nodeVars, logVars, Commit, Receive, FsmApply, FsmSnapshot, FsmSnapshotBusy,
     AutoVacuumFailed, TakeRefused, TakeCreate, TakePersist, TakePersistFailed, TakeClose, TakeStep,
     TakeDone, TakeCloseFailed, TakeIOError, InstCreate,
     InstCopy, InstCancel, InstClose, InstStep, InstDone, InstFailed, InstOpen,
     NodeCrash, NodeCheck, BootOpen, BootRestore, BootEmpty

\* installSnapshot and its Sink go together.
LEMMA InstallingStep ==
    ASSUME NodeInv, StoreSound', Sound, NodeStep
    PROVE  Installing'
<1> USE NodeThreads DEF NodeInv
<1>0. Inv /\ Inv' /\ Take # Inst /\ Take \in Writers /\ Inst \in Writers /\ inst \in InstState
  BY DEF StoreSound, Take, Inst, NodeType
<1>1. CASE inst'.pc = "idle" /\ sink'[Inst].pc = "idle"
  BY <1>1 DEF Installing
<1>2. PICK n \in Nat, m \in Nat : n = Len(log) /\ m = Len(log') /\ n <= m
  BY LogStep, Numbers
<1>3. inst.pc # "idle" /\ inst'.idx = inst.idx /\ ~InstRestored
        => last' < inst'.idx /\ inst'.idx <= Len(log')
  <2> SUFFICES ASSUME inst.pc # "idle", ~InstRestored
               PROVE  last' < inst.idx /\ inst.idx <= Len(log')
    OBVIOUS
  <2>1. PICK i \in Nat : i = inst.idx
    BY Numbers
  <2>2. last' = last /\ last < i /\ i <= n
    BY <1>2, <2>1, LastStays DEF Installing
  <2> QED BY <1>2, <2>1, <2>2
<1>4. ASSUME NEW i \in 1..Len(log), InstCreate(i)
      PROVE  Installing'
  <2>1. Create(Inst, i, VerAt(i)) /\ inst' = [pc |-> "copy", idx |-> i] /\ UNCHANGED <<log, last>> /\ last < i
    BY <1>4 DEF InstCreate, logVars
  <2>2. inst'.pc = "copy" /\ inst'.idx = i
    BY <2>1
  <2>3. sink'[Inst].pc = "open" /\ sink'[Inst].kind = "empty" /\ idx'[sink'[Inst].id] = i
    BY <1>0, <2>1, CreateEffect
  <2>4. i <= Len(log)
    BY <1>2
  <2> QED BY <2>1, <2>2, <2>3, <2>4 DEF Installing
<1>5. CASE InstCopy
  <2>1. /\ inst.pc = "copy" /\ Write(Inst, "db", Whole(VerAt(inst.idx)))
        /\ inst' = [inst EXCEPT !.pc = "closing"]
    BY <1>5 DEF InstCopy
  <2>2. inst'.pc = "closing" /\ inst'.idx = inst.idx
    BY <1>0, <2>1, SnapRecords
  <2>3. /\ sink'[Inst].pc = "open" /\ sink'[Inst].kind = "db" /\ sink'[Inst].id = sink[Inst].id
        /\ UNCHANGED idx
    BY <1>0, <2>1, WriteEffect
  <2>4. ~InstRestored /\ idx[sink[Inst].id] = inst.idx
    BY <2>1 DEF InstRestored, Installing
  <2> QED BY <1>3, <2>1, <2>2, <2>3, <2>4 DEF Installing
<1>6. CASE InstClose \/ InstStep
  <2>1. inst' = inst
    BY <1>6 DEF InstClose, InstStep, nodeVars
  <2>2. /\ sink[Inst].pc # "idle" /\ sink'[Inst].pc \notin {"idle", "open"}
        /\ sink'[Inst].id = sink[Inst].id /\ UNCHANGED idx
    BY <1>0, <1>6, CloseEffect, ProgressEffect DEF InstClose, InstStep
  <2>3. inst.pc = "closing"
    <3>1. inst.pc \in {"copy", "closing"}
      BY <2>2, Numbers DEF Installing
    <3>2. inst.pc # "copy"
      BY <1>0, <1>6, ProgressEffect DEF InstClose, InstStep, Installing
    <3> QED BY <3>1, <3>2
  <2>4. ~InstRestored
    BY <2>3 DEF InstRestored
  <2> QED BY <1>3, <2>1, <2>2, <2>3, <2>4 DEF Installing
<1>7. CASE InstDone
  <2>1. inst' = [inst EXCEPT !.pc = "restore"] /\ sink[Inst].pc = "reap"
    BY <1>7 DEF InstDone, CloseOK
  <2>2. inst'.pc = "restore" /\ inst'.idx = inst.idx
    BY <1>0, <2>1, SnapRecords
  <2>3. inst.pc = "closing" /\ ~InstRestored
    BY <2>1, Numbers DEF Installing, InstRestored
  <2>4. Live # {} /\ Newest = sink[Inst].id /\ idx[sink[Inst].id] = inst.idx
    BY <1>0, <2>1, <2>3 DEF StoreSound, Committed, Before, Installing
  <2>5. sink'[Inst].pc = "idle" /\ UNCHANGED <<dir, idx>>
    BY <1>0, <1>7, EndEffect DEF InstDone, CloseOK, disk, named
  <2>6. Live' = Live /\ Newest' = Newest
    BY <2>5, SameOrder
  <2> QED BY <1>3, <2>2, <2>3, <2>4, <2>5, <2>6 DEF Installing
<1>8. CASE InstOpen
  <2>1. /\ inst.pc = "restore" /\ UNCHANGED <<sink, dir, idx>>
        /\ inst' \in {inst, NoInstall, [inst EXCEPT !.pc = "restoring"]}
    BY <1>8, ElseEffect DEF InstOpen, NodeElse, List, Open, disk
  <2>2. sink[Inst].pc = "idle" /\ Live # {} /\ idx[Newest] = inst.idx /\ ~InstRestored
    BY <2>1 DEF Installing, InstRestored
  <2>3. Live' = Live /\ Newest' = Newest
    BY <2>1, SameOrder
  <2>4. inst'.pc = "idle" \/ (inst'.pc \in {"restore", "restoring"} /\ inst'.idx = inst.idx)
    <3>1. PICK s : s = [inst EXCEPT !.pc = "restoring"]
      OBVIOUS
    <3>2. s.pc = "restoring" /\ s.idx = inst.idx
      BY <1>0, <3>1, SnapRecords
    <3>3. inst' = inst \/ inst' = NoInstall \/ inst' = s
      BY <2>1, <3>1
    <3> QED BY <2>1, <3>2, <3>3, SnapRecords
  <2> QED BY <1>3, <2>1, <2>2, <2>3, <2>4 DEF Installing
<1>9. CASE InstRestored
  <2>1. inst'.pc = "idle" /\ sink'[Inst].pc = "idle"
    BY <1>9, ElseEffect, SnapRecords DEF InstRestored, NodeElse, Installing
  <2> QED BY <1>1, <2>1
<1>10. CASE NodeCrash
  BY <1>0, <1>1, <1>10, Blank, SnapRecords DEF NodeCrash, Crash
<1>11. CASE /\ inst' = inst /\ sink'[Inst] = sink[Inst] /\ ~InstRestored
            /\ sink[Inst].pc # "idle" => UNCHANGED idx
  <2>1. inst.pc # "idle" => last' < inst.idx /\ inst.idx <= Len(log')
    BY <1>3, <1>11
  <2>2. inst.pc \in {"restore", "restoring"} => Live' # {} /\ idx'[Newest'] = inst.idx
    BY InstalledStays DEF Installing, NewestStays
  <2>3. inst.pc \in {"copy", "closing"} => idx'[sink'[Inst].id] = inst.idx
    BY <1>11 DEF Installing
  <2> QED BY <1>11, <2>1, <2>2, <2>3 DEF Installing
<1>12. CASE NodeElse /\ ~InstOpen /\ ~InstRestored
  <2>1. inst' = inst
    BY <1>12 DEF NodeElse, Commit, Receive, FsmApply, FsmSnapshot, NodeCheck, nodeVars,
       BootOpen, BootRestore, BootEmpty
  <2> QED BY <1>11, <1>12, <2>1, ElseEffect
<1>13. CASE \/ TakeRefused \/ TakeCreate \/ TakePersist \/ TakePersistFailed \/ TakeClose
            \/ TakeStep \/ TakeDone \/ TakeCloseFailed \/ TakeIOError
  <2>1. inst' = inst /\ sink'[Inst] = sink[Inst] /\ ~InstRestored
    <3>1. inst' = inst /\ sink'[Inst] = sink[Inst] /\ UNCHANGED last /\ UNCHANGED rdr
      BY <1>0, <1>13, TakeEffect
    <3>2. InstRestored => rdr["fsm"].pc = "open" /\ rdr'["fsm"].pc = "idle"
      BY RestoreEffect DEF InstRestored, FsmRestore, CloseSnapshot
    <3> QED BY <3>1, <3>2
  <2>2. sink[Inst].pc # "idle" => UNCHANGED idx
    <3> SUFFICES ASSUME sink[Inst].pc # "idle" PROVE UNCHANGED idx
      OBVIOUS
    <3>1. sink[Take].pc = "idle"
      BY <1>0 DEF Inv, LockDiscipline
    <3>2. ~TakeCreate
      BY <1>0, CreateEffect DEF TakeCreate
    <3>3. snap.pc \in {"idle", "taken"}
      BY <3>1, Numbers DEF Taking
    <3>4. TakeRefused
      BY <1>0, <1>13, <3>1, <3>2, <3>3, ProgressEffect DEF TakePersist, TakePersistFailed, TakeClose, TakeStep, TakeDone, CloseOK,
         TakeCloseFailed, TakeIOError
    <3> QED BY <3>4 DEF TakeRefused, named
  <2> QED BY <1>11, <2>1, <2>2
<1>14. CASE InstCancel \/ InstFailed
  <2>1. inst'.pc = "idle" /\ sink'[Inst].pc = "idle"
    BY <1>0, <1>14, EndEffect, SnapRecords DEF InstCancel, Cancel, InstFailed, CloseFailed
  <2> QED BY <1>1, <2>1
<1> QED BY <1>4, <1>5, <1>6, <1>7, <1>8, <1>9, <1>10, <1>12, <1>13, <1>14, NodeCases

\* The FSM reads the newest snapshot, which stays the newest meanwhile.
LEMMA RestoringStep ==
    ASSUME NodeInv, StoreSound', Sound, NodeStep
    PROVE  Restoring'
<1> USE NodeThreads DEF NodeInv
<1>0. Inv /\ "fsm" \in Readers /\ inst \in InstState
  BY DEF StoreSound, NodeType
<1>1. CASE rdr'["fsm"].pc = "idle"
  BY <1>1 DEF Restoring
<1>2. CASE /\ rdr'["fsm"] = rdr["fsm"] /\ inst'.pc = inst.pc /\ boot' = boot
  <2> SUFFICES ASSUME rdr["fsm"].pc # "idle"
               PROVE  /\ inst.pc \in {"restore", "restoring"} \/ ~boot
                      /\ Live' # {} /\ rdr["fsm"].id = Newest'
    BY <1>2 DEF Restoring
  <2>1. /\ inst.pc \in {"restore", "restoring"} \/ ~boot
        /\ Live # {} /\ rdr["fsm"].id = Newest
    BY DEF Restoring
  <2> QED BY <2>1, InstalledStays DEF NewestStays
<1>3. CASE InstRestored \/ BootRestore
  BY <1>1, <1>3, RestoreEffect DEF InstRestored, BootRestore
<1>4. CASE NodeCrash
  BY <1>1, <1>4, Blank DEF NodeCrash, Crash
<1>5. CASE InstOpen \/ BootOpen
  <2>1. UNCHANGED <<dir, idx, boot>> /\ (List("fsm") \/ Open("fsm"))
    BY <1>5, ElseEffect DEF NodeElse, InstOpen, BootOpen, List, Open, disk, nodeVars
  <2>2. Live' = Live /\ Newest' = Newest
    BY <2>1, SameOrder
  <2>3. ASSUME rdr'["fsm"].pc # "idle"
        PROVE  inst'.pc \in {"restore", "restoring"} \/ ~boot
    <3>1. CASE BootOpen
      BY <3>1 DEF BootOpen
    <3>2. CASE InstOpen
      <4>1. CASE List("fsm") /\ UNCHANGED inst
        BY <3>2, <4>1 DEF InstOpen
      <4>2. CASE /\ Open("fsm")
                 /\ inst' = IF rdr'["fsm"].pc = "open" THEN [inst EXCEPT !.pc = "restoring"] ELSE NoInstall
        <5>1. rdr'["fsm"].pc = "open"
          <6>1. \/ rdr' = [rdr EXCEPT !["fsm"].pc = "open"]
                \/ rdr' = [rdr EXCEPT !["fsm"] = NoSnap]
            BY <4>2 DEF Open
          <6> QED BY <1>0, <2>3, <6>1, Blank DEF Inv, TypeOK
        <5> QED BY <1>0, <4>2, <5>1, SnapRecords
      <4> QED BY <3>2, <4>1, <4>2 DEF InstOpen
    <3> QED BY <1>5, <3>1, <3>2
  <2>4. CASE List("fsm")
    <3>1. rdr' = [rdr EXCEPT !["fsm"] = [pc |-> "listed", id |-> Newest]] /\ Live # {}
      BY <2>4 DEF List
    <3>2. rdr'["fsm"].id = Newest
      BY <1>0, <3>1 DEF Inv, TypeOK
    <3> QED BY <2>1, <2>2, <2>3, <3>1, <3>2 DEF Restoring
  <2>5. CASE Open("fsm")
    <3>1. rdr'["fsm"].pc = "idle" \/ rdr'["fsm"].id = rdr["fsm"].id
      BY <1>0, <2>5, Blank DEF Open, Inv, TypeOK
    <3>2. rdr["fsm"].pc # "idle"
      BY <2>5 DEF Open
    <3> QED BY <2>1, <2>2, <2>3, <3>1, <3>2 DEF Restoring
  <2> QED BY <2>1, <2>4, <2>5
<1>6. CASE BootEmpty
  <2>1. rdr["fsm"].pc = "idle" /\ UNCHANGED rdr
    BY <1>6 DEF BootEmpty, Restoring, vars
  <2> QED BY <1>1, <2>1
<1>7. CASE NodeElse /\ ~(InstOpen \/ InstRestored \/ BootOpen \/ BootRestore \/ BootEmpty)
  <2>1. UNCHANGED <<rdr, inst, boot>>
    BY <1>7 DEF NodeElse, vars, Commit, Receive, FsmApply, ApplyWrite,
       ApplyLoad, ApplyNoop, FsmSnapshot, NodeCheck, Check, nodeVars
  <2> QED BY <1>2, <2>1
<1>8. CASE \/ TakeRefused \/ TakeCreate \/ TakePersist \/ TakePersistFailed \/ TakeClose
           \/ TakeStep \/ TakeDone \/ TakeCloseFailed \/ TakeIOError
  BY <1>2, <1>8, TakeEffect
<1>9. CASE \/ \E i \in 1..Len(log) : InstCreate(i)
           \/ InstCopy \/ InstCancel \/ InstClose \/ InstStep \/ InstDone \/ InstFailed
  <2>1. rdr' = rdr /\ Running /\ inst.pc \in {"idle", "copy", "closing"}
    BY <1>9, InstEffect
  <2>2. rdr["fsm"].pc = "idle"
    BY <2>1 DEF Running, Restoring
  <2> QED BY <1>1, <2>1, <2>2
<1> QED BY <1>3, <1>4, <1>5, <1>6, <1>7, <1>8, <1>9, NodeCases

----------------------------------------------------------------------------
(* The log and the WAL.                                                    *)

\* The log is compacted only up to the newest snapshot.
LEMMA GapStep ==
    ASSUME NodeInv, StoreSound', Sound, NodeStep
    PROVE  NoGap'
<1> USE NodeThreads DEF NodeInv
<1>0. Inv /\ Take \in Writers /\ Inst \in Writers /\ first \in Nat
  BY DEF StoreSound, NodeType
<1>1. CASE InstRestored \/ BootRestore
  <2>1. PICK i \in Nat : i = idx[Newest]
    BY <1>1, RestoreEffect DEF InstRestored, BootRestore
  <2>2. Live # {} /\ Live' # {} /\ idx'[Newest'] = i
    BY <1>1, <2>1, RestoreEffect DEF InstRestored, BootRestore
  <2>3. first <= i + 1
    BY <2>1, <2>2 DEF NoGap
  <2>4. first' = first \/ first' = i + 1
    BY <1>1, <2>1 DEF InstRestored, BootRestore, Installing
  <2> QED BY <2>1, <2>2, <2>3, <2>4 DEF NoGap
<1>2. CASE TakeDone
  <2>1. sink[Take].pc = "reap" /\ UNCHANGED <<dir, idx>> /\ first' \in {first, snap.idx + 1}
    BY <1>2 DEF TakeDone, CloseOK, disk, named
  <2>2. Live # {} /\ Newest = sink[Take].id
    BY <1>0, <2>1 DEF StoreSound, Committed, Before
  <2>3. PICK i \in Nat : i = snap.idx /\ idx[Newest] = i
    BY <2>1, <2>2, Numbers DEF Taking
  <2>4. Live' = Live /\ Newest' = Newest
    BY <2>1, SameOrder
  <2>5. first <= i + 1
    BY <2>2, <2>3 DEF NoGap
  <2> QED BY <1>0, <2>1, <2>2, <2>3, <2>4, <2>5 DEF NoGap
<1>3. CASE UNCHANGED first
  <2>1. CASE NewestStays
    BY <1>3, <2>1 DEF NoGap, NewestStays
  <2>2. ASSUME NEW w \in {Take, Inst}, CommitDir(w)
        PROVE  NoGap'
    <3>1. w \in Writers
      BY <1>0
    <3>2. PICK k \in Nat : Live' # {} /\ idx'[Newest'] = k /\ (Live # {} => idx[Newest] <= k)
      BY <2>2, <3>1, CommitEffect
    <3>3. Live # {} => idx[Newest] \in Nat
      BY <1>0, NewestNumbers
    <3> QED BY <1>0, <1>3, <3>2, <3>3 DEF NoGap
  <2> QED BY <2>1, <2>2, NewestNode
<1> QED BY <1>1, <1>2, <1>3 DEF NodeStep, nodeVars, logVars, Commit, Receive, FsmApply, FsmSnapshot, FsmSnapshotBusy,
     AutoVacuumFailed, TakeRefused, TakeCreate, TakePersist, TakePersistFailed, TakeClose, TakeStep,
     TakeCloseFailed, TakeIOError, InstCreate,
     InstCopy, InstCancel, InstClose, InstStep, InstDone, InstFailed, InstOpen,
     NodeCrash, NodeCheck, BootOpen, BootEmpty

\* Nothing about the WAL changes when neither it nor the snapshots do.
LEMMA WalKept ==
    ASSUME NodeInv, NodeStep, WalSound, NewestStays,
           UNCHANGED <<modSet, modified, walBase, fullNeeded>>,
           (snap'.pc = "idle") <=> (snap.pc = "idle"), snap'.idx = snap.idx,
           Pending' <=> Pending
    PROVE  WalSound'
<1>1. snap.pc # "idle" => VerAt(snap.idx)' = VerAt(snap.idx)
  <2> SUFFICES ASSUME snap.pc # "idle" PROVE VerAt(snap.idx)' = VerAt(snap.idx)
    OBVIOUS
  <2>1. snap.idx \in Nat /\ snap.idx <= Len(log)
    BY SnapInLog DEF NodeInv
  <2> QED BY <2>1, LogStep, VerIs, VerIsNext
<1>2. Pending => snap.pc # "idle"
  BY DEF Pending
<1> QED BY <1>1, <1>2 DEF WalSound, NewestStays, DbModified

\* A Sink that refuses takeSnapshot's data does so because a later snapshot is
\* there, or because there is none.
LEMMA RefusedTake ==
    ASSUME NodeInv, ProcessSnapshotData(Take), sink'[Take].pc = "abort", Live # {}
    PROVE  VerAt(snap.idx) <= want[Newest]
<1> USE NodeThreads DEF NodeInv
<1>0. Inv /\ Wholeness /\ MetaSound /\ Take \in Writers
  BY DEF StoreSound
<1>1. PICK s \in SinkState : s = sink[Take]
  BY <1>0 DEF Inv, TypeOK
<1>2. s.pc = "process" /\ snap.pc = "closing"
  BY <1>1, Numbers DEF ProcessSnapshotData, Taking
<1>3. ~Acceptable(s.id, s.kind)
  BY <1>0, <1>1, GotoKeeps DEF ProcessSnapshotData, SinkPC
<1>4. status = "up" /\ \A w \in Writers : w # Take => sink[w].pc = "idle"
  BY <1>0, <1>1, <1>2 DEF Inv, LockDiscipline
<1>5. Readable
  BY <1>0, <1>1, <1>2, <1>4 DEF MetaSound
<1>6. db[Newest] # NoFile
  <2>1. db[Newest] = Whole(want[Newest])
    BY <1>0, <1>1, <1>2, <1>4 DEF Wholeness, FilesSound, NewestSettled, Halfway
  <2> QED BY <2>1 DEF Whole, NoFile
<1>7. ~Less(Newest, s.id)
  BY <1>3, <1>5, <1>6 DEF Acceptable
<1>8. s.id \in ID /\ s.id = used /\ dir[s.id] = "tmp" /\ idx[s.id] = snap.idx
  BY <1>0, <1>1, <1>2 DEF Inv, Phases, PhaseOf, Wholeness, FilesSound, Stage, Taking
<1>9. Newest \in Live /\ Newest <= used /\ Newest # s.id
  <2>1. Newest \in Live
    BY <1>0, TwoNewest
  <2> QED BY <1>0, <1>8, <2>1, LiveIsUsed DEF Live, Wholeness, FilesSound
<1>10. PICK i \in Nat, k \in Nat : i = idx[Newest] /\ k = snap.idx
  BY <1>0, NewestNumbers, Numbers
<1>11. Newest \in Nat /\ used \in Nat
  BY <1>9, LiveIDs, SnapshotBounds DEF ID, StoreSound, Inv, TypeOK
<1>12. k <= i
  BY <1>7, <1>8, <1>9, <1>10, <1>11 DEF Less
<1>13. Ver(log, k) <= Ver(log, i)
  BY <1>12, VerGrows
<1> QED BY <1>0, <1>10, <1>13, NewestNumbers, VerIs

\* takeSnapshot inside Close: the WAL that was emptied for its snapshot begins no
\* later than the newest one, whether the snapshot comes to be or is refused.
LEMMA WalTake ==
    ASSUME NodeInv, StoreSound', Sound, NodeStep, TakeStep
    PROVE  WalSound'
<1> USE NodeThreads DEF NodeInv
<1>0. Inv /\ Inv' /\ Take \in Writers
  BY DEF StoreSound
<1>1. /\ UNCHANGED <<modSet, modified, walBase, snap, log>>
      /\ SinkProgress(Take)
  BY DEF TakeStep, nodeVars
<1>2. /\ sink[Take].pc \notin {"idle", "open"} /\ sink'[Take].pc \notin {"idle", "open"}
      /\ sink'[Take].id = sink[Take].id /\ UNCHANGED <<idx, want>>
      /\ sink'[Take].pc \in Before => sink[Take].pc \in Before \ {"commit"}
  BY <1>0, <1>1, ProgressEffect
<1>3. snap.pc = "closing" /\ idx[sink[Take].id] = snap.idx
  BY <1>2, Numbers DEF Taking
<1>4. want[sink[Take].id] = VerAt(snap.idx) /\ VerAt(snap.idx) \in Nat /\ walBase \in Nat
  <2>1. VerAt(snap.idx) \in Nat
    BY Numbers, VerIs, VerBounds
  <2> QED BY <1>0, <1>2, <1>3, <2>1, SinkStandsFor DEF NodeType
<1>5. \/ DbModified
      \/ Live # {} /\ walBase <= want[Newest]
      \/ Pending /\ walBase <= VerAt(snap.idx)
      \/ ~Pending /\ Live = {}
  BY <1>3 DEF WalSound
<1>6. Live # {} => want[Newest] \in Nat
  BY <1>0, TwoNewest
<1>7. CASE DbModified
  BY <1>1, <1>7 DEF WalSound, DbModified
<1>8. CASE ~DbModified /\ sink'[Take].pc \notin Before \cup {"abort", "aborted"}
  <2>1. Live' # {} /\ Newest' = sink[Take].id
    BY <1>0, <1>2, <1>8 DEF StoreSound, Committed
  <2>2. want'[Newest'] = VerAt(snap.idx)
    BY <1>2, <1>4, <2>1
  <2>3. CASE NewestStays
    BY <1>1, <1>5, <1>8, <2>1, <2>2, <2>3 DEF NewestStays, WalSound
  <2>4. CASE CommitDir(Take)
    <3>1. Pending /\ (Live # {} => want[Newest] <= VerAt(snap.idx))
      BY <1>0, <1>3, <1>4, <2>4, CommitEffect DEF Pending, Before
    <3>2. walBase <= VerAt(snap.idx)
      BY <1>4, <1>5, <1>6, <1>8, <3>1
    <3> QED BY <1>1, <2>1, <2>2, <3>2 DEF WalSound
  <2>5. ~(InstStep /\ CommitDir(Inst))
    BY <1>0, <1>2 DEF CommitDir, Inv, LockDiscipline, Take, Inst
  <2> QED BY <2>3, <2>4, <2>5, NewestNode
<1>9. CASE ~DbModified /\ sink'[Take].pc \in Before \cup {"abort", "aborted"}
  <2>1. NewestStays
    <3>1. ~CommitDir(Take)
      BY <1>0, <1>9, GotoKeeps DEF CommitDir, SinkPC, Before
    <3>2. ~(InstStep /\ CommitDir(Inst))
      BY <1>0, <1>2 DEF CommitDir, Inv, LockDiscipline, Take, Inst
    <3> QED BY <3>1, <3>2, NewestNode
  <2>2. VerAt(snap.idx)' = VerAt(snap.idx)
    BY <1>1, VerIs, VerIsNext
  <2>3. CASE sink'[Take].pc \in Before
    <3>1. Pending /\ Pending'
      BY <1>1, <1>2, <1>3, <2>3 DEF Pending
    <3> QED BY <1>1, <1>5, <1>9, <2>1, <2>2, <3>1 DEF WalSound, NewestStays
  <2>4. CASE sink'[Take].pc \in {"abort", "aborted"}
    <3>1. ~Pending'
      BY <2>4 DEF Pending, Before
    <3>2. CASE ~Pending
      BY <1>1, <1>5, <1>9, <2>1, <3>1, <3>2 DEF WalSound, NewestStays
    <3>3. CASE Pending
      <4>1. ProcessSnapshotData(Take)
        <5>1. sink[Take].pc \in {"process", "rename", "commit"}
          BY <1>2, <3>3 DEF Pending, Before
        <5>2. ~RenameData(Take) /\ ~CommitDir(Take)
          BY <1>0, <2>4, GotoKeeps DEF RenameData, CommitDir, SinkPC
        <5> QED BY <1>1, <5>1, <5>2 DEF SinkProgress, MovePrev, CheckpointRemove, UpdateMetaSize,
              UnsetFullNeeded, ReapOne, Abort
      <4>2. sink'[Take].pc = "abort"
        BY <1>0, <2>4, <4>1, GotoKeeps DEF ProcessSnapshotData, SinkPC
      <4>3. Live # {} => VerAt(snap.idx) <= want[Newest]
        BY <4>1, <4>2, RefusedTake
      <4>4. Live # {} => walBase <= want[Newest]
        BY <1>4, <1>5, <1>6, <1>9, <3>3, <4>3
      <4> QED BY <1>1, <2>1, <3>1, <4>4 DEF WalSound, NewestStays
    <3> QED BY <3>2, <3>3
  <2> QED BY <1>9, <2>3, <2>4
<1> QED BY <1>7, <1>8, <1>9

\* installSnapshot: the snapshot it commits is later than all that is in the WAL.
LEMMA WalInst ==
    ASSUME NodeInv, StoreSound', Sound, NodeStep,
           \/ \E i \in 1..Len(log) : InstCreate(i)
           \/ InstCopy \/ InstCancel \/ InstClose \/ InstStep \/ InstDone \/ InstFailed
    PROVE  WalSound'
<1> USE NodeThreads DEF NodeInv
<1>0. Inv /\ Inv' /\ Take # Inst /\ Take \in Writers /\ Inst \in Writers
  BY DEF StoreSound, Take, Inst
<1>1. /\ sink'[Take] = sink[Take] /\ snap' = snap
      /\ UNCHANGED <<modSet, modified, walBase, applied, log, last>>
  BY <1>0, InstEffect DEF dbVars, logVars
<1>2. Pending' <=> Pending
  BY <1>1 DEF Pending
<1>3. CASE InstStep /\ sink'[Inst].pc \notin Before \cup {"abort", "aborted"}
  <2>1. /\ sink[Inst].pc \notin {"idle", "open"} /\ sink'[Inst].id = sink[Inst].id
        /\ UNCHANGED <<idx, want>>
    BY <1>0, <1>3, ProgressEffect DEF InstStep
  <2>2. inst.pc = "closing" /\ idx[sink[Inst].id] = inst.idx
    BY <2>1, Numbers DEF Installing
  <2>3. Live' # {} /\ Newest' = sink[Inst].id
    BY <1>0, <1>3, <2>1 DEF StoreSound, Committed
  <2>4. PICK i \in Nat : i = inst.idx /\ last < i
    BY <2>2, Numbers DEF Installing
  <2>5. want'[Newest'] = Ver(log, i)
    BY <1>0, <2>1, <2>2, <2>3, <2>4, SinkStandsFor, VerIs
  <2>6. applied \in Nat /\ applied <= last /\ last \in Nat /\ walBase \in Nat /\ walBase <= Ver(log, applied)
    BY VerIs DEF NodeType, FsmExact
  <2>7. Ver(log, applied) <= Ver(log, i) /\ Ver(log, applied) \in Nat /\ Ver(log, i) \in Nat
    BY <2>4, <2>6, VerGrows, VerBounds
  <2> QED BY <1>1, <2>3, <2>5, <2>6, <2>7 DEF WalSound
<1>4. CASE ~(InstStep /\ sink'[Inst].pc \notin Before \cup {"abort", "aborted"})
  <2>1. NewestStays
    <3>1. ~(InstStep /\ CommitDir(Inst))
      BY <1>0, <1>4, GotoKeeps DEF CommitDir, SinkPC, Before
    <3>2. ~TakeStep
      <4>1. TakeStep => sink[Take].pc # "idle"
        BY <1>0, ProgressEffect DEF TakeStep
      <4>2. TakeStep => snap' = snap /\ inst' = inst /\ status' = status
        BY TakeEffect DEF TakeStep, nodeVars
      <4>3. sink[Inst].pc # "idle" \/ sink'[Inst].pc # "idle" \/ \E i \in 1..Len(log) : InstCreate(i)
        BY <1>0, ProgressEffect DEF InstCopy, Write, InstCancel, Cancel, InstClose, CloseSink, InstStep,
           InstDone, CloseOK, InstFailed, CloseFailed
      <4>4. TakeStep => sink'[Take].pc # "idle"
        BY <1>0, ProgressEffect DEF TakeStep
      <4>5. ASSUME NEW i \in 1..Len(log), InstCreate(i) PROVE sink'[Inst].pc # "idle"
        BY <1>0, <4>5, CreateEffect DEF InstCreate
      <4> QED BY <1>0, <4>1, <4>3, <4>4, <4>5 DEF Inv, LockDiscipline
    <3> QED BY <3>1, <3>2, NewestNode
  <2>2. UNCHANGED fullNeeded
    <3>1. CASE InstStep
      <4>1. UnsetFullNeeded(Inst) => FALSE
        BY <1>0, <1>4, <3>1, GotoKeeps DEF UnsetFullNeeded, SinkPC, Before
      <4> QED BY <3>1, <4>1 DEF InstStep, SinkProgress, ProcessSnapshotData, RenameData, CommitDir, MovePrev,
            CheckpointRemove, UpdateMetaSize, ReapOne, Abort
    <3>2. CASE InstCopy \/ InstClose
      BY <1>0, <3>2, WriteEffect, CloseEffect DEF InstCopy, InstClose
    <3>3. ASSUME NEW i \in 1..Len(log), InstCreate(i) PROVE UNCHANGED fullNeeded
      BY <1>0, <3>3, CreateEffect DEF InstCreate
    <3>4. CASE InstCancel \/ InstDone \/ InstFailed
      BY <3>4 DEF InstCancel, Cancel, InstDone, CloseOK, InstFailed, CloseFailed
    <3> QED BY <3>1, <3>2, <3>3, <3>4
  <2> QED BY <1>1, <1>2, <2>1, <2>2, WalKept
<1> QED BY <1>3, <1>4

\* The WAL holds what the next incremental snapshot needs, or that one is full.
LEMMA WalStep ==
    ASSUME NodeInv, StoreSound', Sound, NodeStep
    PROVE  WalSound'
<1> USE NodeThreads DEF NodeInv
<1>0. Inv /\ Inv' /\ Take \in Writers /\ snap \in SnapState
  BY DEF StoreSound, NodeType
<1>1. CASE NodeCrash
  <2>1. walBase' = 0 /\ snap'.pc = "idle"
    BY <1>1, SnapRecords DEF NodeCrash
  <2>2. Live' # {} => want'[Newest'] \in Nat
    <3>1. UNCHANGED <<dir, idx, want>>
      BY <1>1 DEF NodeCrash, Crash, disk, named
    <3>2. Live' = Live /\ Newest' = Newest
      BY <3>1, SameOrder
    <3> QED BY <1>0, <3>1, <3>2, TwoNewest
  <2> QED BY <2>1, <2>2 DEF WalSound, Pending
<1>2. CASE InstRestored \/ BootRestore
  <2>1. Live' # {} /\ walBase' = want'[Newest'] /\ want'[Newest'] \in Nat
    BY <1>2, RestoreEffect DEF InstRestored, BootRestore
  <2> QED BY <2>1 DEF WalSound
<1>3. CASE FsmSnapshot
  <2>1. /\ snap'.pc = "taken" /\ snap'.idx = applied /\ walBase' = Ver(log, applied)
        /\ UNCHANGED <<sink, log>> /\ sink[Take].pc = "idle" /\ Ver(log, applied) \in Nat
    BY <1>3, FsmSnapshotEffect, VerIs DEF FsmSnapshot, vars, logVars, Taking
  <2>2. VerAt(snap.idx)' = Ver(log, applied)
    BY <2>1, VerIsNext
  <2>3. Pending'
    BY <2>1 DEF Pending, Before
  <2> QED BY <2>1, <2>2, <2>3 DEF WalSound
<1>4. CASE FsmApply
  <2>1. UNCHANGED <<sink, snap, idx, want, dir, log, modSet>>
    BY <1>4 DEF FsmApply, ApplyWrite, ApplyLoad, ApplyNoop, logVars, vars, disk, named
  <2>2. CASE ApplyLoad
    <3>1. fullNeeded' /\ modified'
      BY <2>2 DEF ApplyLoad
    <3>2. snap.pc # "idle" => modSet
      BY DEF Taking
    <3> QED BY <2>1, <3>1, <3>2 DEF WalSound, DbModified
  <2>3. CASE ApplyWrite \/ ApplyNoop
    <3>1. UNCHANGED <<modified, walBase, fullNeeded>>
      BY <2>3 DEF ApplyWrite, ApplyNoop, FsmExact, vars
    <3>2. Live' = Live /\ Newest' = Newest
      BY <2>1, SameOrder
    <3>3. NewestStays /\ (Pending' <=> Pending)
      BY <2>1, <3>2 DEF NewestStays, Pending
    <3> QED BY <2>1, <3>1, <3>3, WalKept
  <2> QED BY <1>4, <2>2, <2>3 DEF FsmApply
<1>5. CASE \/ (\E k \in Entry : Commit(k)) \/ Receive \/ InstOpen \/ NodeCheck \/ BootOpen \/ BootEmpty
  <2>1. UNCHANGED <<sink, snap, fullNeeded, modSet, modified, walBase>>
    BY <1>5, ElseEffect DEF NodeElse, Commit, Receive, InstOpen, NodeCheck, BootOpen, BootEmpty,
       nodeVars, dbVars, vars, List, Open, Check
  <2>2. NewestStays
    <3>1. (~TakeStep /\ ~InstStep) \/ NewestStays
      <4>1. ASSUME NEW w \in Writers, CommitDir(w) PROVE FALSE
        <5>1. sink[w].pc = "commit" /\ sink'[w].pc # "commit"
          BY <1>0, <4>1, GotoKeeps DEF CommitDir, SinkPC
        <5> QED BY <2>1, <5>1
      <4> QED BY <4>1, NewestNode
    <3> QED BY <3>1, NewestNode
  <2>3. Pending' <=> Pending
    BY <2>1 DEF Pending
  <2> QED BY <2>1, <2>2, <2>3, WalKept
<1>6. CASE TakeRefused \/ TakePersistFailed
  <2>1. fullNeeded' /\ snap'.pc = "idle"
    BY <1>6, SnapRecords DEF TakeRefused, TakePersistFailed, OnFailure
  <2> QED BY <2>1 DEF WalSound
<1>7. CASE TakeStep
  BY <1>7, WalTake
<1>8. CASE TakeCreate \/ TakePersist \/ TakeClose
  <2>1. /\ snap.pc # "idle" /\ snap'.pc # "idle" /\ snap'.idx = snap.idx
        /\ UNCHANGED <<modSet, modified, walBase>>
    <3>1. CASE TakeCreate
      BY <1>0, <3>1, SnapRecords DEF TakeCreate, dbVars
    <3>2. CASE TakePersist
      BY <1>0, <3>2, SnapRecords DEF TakePersist, dbVars
    <3>3. CASE TakeClose
      BY <3>3 DEF TakeClose, nodeVars
    <3> QED BY <1>8, <3>1, <3>2, <3>3
  <2>2. /\ sink[Take].pc \in {"idle", "open"} /\ sink'[Take].pc \in {"open", "process"}
        /\ UNCHANGED fullNeeded
    <3>1. CASE TakeCreate
      BY <1>0, <3>1, CreateEffect DEF TakeCreate
    <3>2. CASE TakePersist
      <4>1. CASE snap.kind = "empty"
        BY <3>2, <4>1 DEF TakePersist, Taking, vars
      <4>2. CASE snap.kind # "empty"
        BY <1>0, <3>2, <4>2, WriteEffect DEF TakePersist
      <4> QED BY <4>1, <4>2
    <3>3. CASE TakeClose
      BY <1>0, <3>3, CloseEffect DEF TakeClose
    <3> QED BY <1>8, <3>1, <3>2, <3>3
  <2>3. Pending /\ Pending'
    BY <2>1, <2>2 DEF Pending, Before
  <2>4. NewestStays
    <3>1. ~CommitDir(Take)
      BY <2>2 DEF CommitDir
    <3>2. ~CommitDir(Inst)
      <4>1. ASSUME CommitDir(Inst) PROVE FALSE
        <5>1. sink[Inst].pc = "commit" /\ sink'[Inst].pc \in {"move", "size"}
          BY <1>0, <4>1, GotoKeeps DEF CommitDir, SinkPC
        <5> QED BY <1>0, <2>2, <5>1 DEF Inv, LockDiscipline, Take, Inst
      <4> QED BY <4>1
    <3> QED BY <3>1, <3>2, NewestNode
  <2> QED BY <2>1, <2>2, <2>3, <2>4, WalKept
<1>9. CASE TakeDone \/ TakeCloseFailed
  <2>1. /\ snap'.pc = "idle" /\ UNCHANGED <<modSet, modified, walBase, fullNeeded>>
        /\ sink[Take].pc \in {"reap", "aborted"} /\ sink'[Take].pc = "idle"
    <3>1. CASE TakeDone
      BY <1>0, <3>1, EndEffect, SnapRecords DEF TakeDone, CloseOK, dbVars
    <3>2. CASE TakeCloseFailed
      BY <1>0, <3>2, EndEffect, SnapRecords DEF TakeCloseFailed, CloseFailed, Sound, dbVars
    <3> QED BY <1>9, <3>1, <3>2
  <2>2. NewestStays
    <3>1. ~CommitDir(Take)
      BY <2>1 DEF CommitDir
    <3>2. ~CommitDir(Inst)
      BY <1>0, <2>1 DEF CommitDir, Inv, LockDiscipline, Take, Inst
    <3> QED BY <3>1, <3>2, NewestNode
  <2>3. ~Pending /\ snap.pc # "idle" /\ ~Pending'
    BY <2>1, Numbers DEF Pending, Before, Taking
  <2>4. DbModified \/ (Live # {} /\ walBase <= want[Newest]) \/ Live = {}
    BY <2>3 DEF WalSound
  <2> QED BY <2>1, <2>2, <2>3, <2>4 DEF WalSound, DbModified, NewestStays
<1>10. CASE TakeIOError
  BY <1>10 DEF TakeIOError, Sound
<1> QED BY <1>1, <1>2, <1>3, <1>4, <1>5, <1>6, <1>7, <1>8, <1>9, <1>10, NodeCases, WalInst DEF NodeElse

----------------------------------------------------------------------------
(* The theorems.                                                           *)

\* A node that starts for the first time.
LEMMA NodeInitInv == NodeInit => NodeInv
<1> SUFFICES ASSUME NodeInit PROVE NodeInv
  OBVIOUS
<1>0. Init /\ Inv /\ Wholeness
  BY InitInv, FilesInit DEF NodeInit
<1>1. Live = {} /\ \A w \in Writers : sink[w].pc = "idle"
  BY <1>0, Blank DEF Init, Live
<1>2. StoreSound
  BY <1>0, <1>1 DEF StoreSound, Committed, MetaSound, MetaOf, Before, Init, Readable
<1>3. NodeType
  BY SnapRecords, NodeBounds DEF NodeInit, NodeType
<1>4. Ver(log, 0) = 0
  BY VerBounds
<1>5. Named
  BY <1>0, <1>4, VerIs DEF NodeInit, Init, Named
<1>6. FsmExact
  BY <1>4, VerIs DEF NodeInit, FsmExact
<1>7. Threads /\ Taking /\ Installing /\ Restoring /\ WalSound
  BY <1>0, <1>1, Blank, SnapRecords, NodeThreads
     DEF NodeInit, Init, Threads, Taking, Installing, Restoring, WalSound, Pending
<1>8. NoGap
  BY <1>1 DEF NodeInit, NoGap
<1> QED BY <1>2, <1>3, <1>5, <1>6, <1>7, <1>8 DEF NodeInv

\* Every step of a sound node keeps the invariant.
LEMMA NodeInvStep ==
    ASSUME Sound => NodeInv, [NodeNext]_allVars
    PROVE  (Sound => NodeInv)'
<1> SUFFICES ASSUME Sound', NodeInv, Sound PROVE NodeInv'
  BY DEF Sound, NodeNext, allVars
<1>1. CASE NodeStep
  <2>1. StoreSound'
    BY <1>1, NodeIsAny, StoreStep DEF NodeInv
  <2> QED BY <1>1, <2>1, TypeNode, NamedStep, FsmStep, ThreadsStep, TakingStep, InstallingStep,
        RestoringStep, WalStep, GapStep DEF NodeInv
<1>2. CASE UNCHANGED allVars
  <2>1. UNCHANGED vars /\ UNCHANGED nodeVars
    BY <1>2 DEF allVars
  <2>2. StoreSound'
    BY <2>1, StoreStep DEF NodeInv
  <2>3. /\ UNCHANGED <<dir, idx, want, sink, rdr, status, fullNeeded>>
        /\ UNCHANGED <<log, first, last, boot, applied, live, walBase, moved, modSet, modified, snap, inst>>
    BY <2>1 DEF vars, disk, named, nodeVars
  <2>4. Live' = Live /\ Newest' = Newest
    BY <2>3, SameOrder
  <2>6. NodeType' /\ Named' /\ FsmExact'
    BY <2>3 DEF NodeInv, NodeType, Named, FsmExact, VerAt, Whole
  <2>7. Threads' /\ Restoring' /\ NoGap' /\ Installing'
    BY <2>3, <2>4 DEF NodeInv, Threads, Running, Restoring, NoGap, Installing
  <2>8. Taking'
    BY <2>3, <2>4 DEF NodeInv, Taking, Taken, VerAt, Whole
  <2>9. WalSound'
    BY <2>3, <2>4 DEF NodeInv, WalSound, Pending, DbModified, VerAt
  <2> QED BY <2>2, <2>6, <2>7, <2>8, <2>9 DEF NodeInv
<1> QED BY <1>1, <1>2 DEF NodeNext

\* As long as no checkpoint is busy and no I/O error interrupts the Sink, the
\* database a running node serves is exactly the committed log up to its applied
\* index, across snapshots, LOADs, crashes and restores (store/fsm.go, fsmApply and
\* fsmRestore).
THEOREM ServedIsExact == NodeSpec => [](Sound => LiveIsExact)
<1>1. NodeInit => (Sound => NodeInv)
  BY NodeInitInv
<1>2. (Sound => NodeInv) /\ [NodeNext]_allVars => (Sound => NodeInv)'
  BY NodeInvStep
<1>3. (Sound => NodeInv) => (Sound => LiveIsExact)
  BY DEF NodeInv, FsmExact, LiveIsExact
<1> QED BY <1>1, <1>2, <1>3, PTL DEF NodeSpec

\* The newest snapshot is recovered as exactly the committed log up to its index,
\* also as the sum of incremental ones (store/fsm.go, fsmSnapshot; snapshot/sink.go,
\* Close).
THEOREM SnapshotsAreExact == NodeSpec => []SnapshotIsExact
<1>1. NodeInit => (Sound => NodeInv)
  BY NodeInitInv
<1>2. (Sound => NodeInv) /\ [NodeNext]_allVars => (Sound => NodeInv)'
  BY NodeInvStep
<1>3. (Sound => NodeInv) => SnapshotIsExact
  <2> SUFFICES ASSUME NodeInv, Live # {} PROVE RecoveredImage = Whole(VerAt(idx[Newest]))
    BY DEF SnapshotIsExact
  <2>1. RecoveredImage = Whole(want[Newest])
    BY SoundIsWhole DEF NodeInv, StoreSound, SnapshotsAreWhole, LatestIsWhole
  <2>2. want[Newest] = VerAt(idx[Newest])
    BY NewestNumbers DEF NodeInv, StoreSound
  <2> QED BY <2>1, <2>2
<1> QED BY <1>1, <1>2, <1>3, PTL DEF NodeSpec

\* No committed change is missing from what the next snapshot and the next start are
\* made of: an incremental snapshot finds in the WAL every change since the newest
\* one, and the log is compacted only up to it (store/fsm.go, fsmSnapshot and the
\* OnFailure it registers; store/state.go).
THEOREM NothingIsMissing == NodeSpec => [](Sound => NothingMissing)
<1>1. NodeInit => (Sound => NodeInv)
  BY NodeInitInv
<1>2. (Sound => NodeInv) /\ [NodeNext]_allVars => (Sound => NodeInv)'
  BY NodeInvStep
<1>3. (Sound => NodeInv) => (Sound => NothingMissing)
  <2> SUFFICES ASSUME NodeInv, Sound PROVE IncrementalIsSound /\ NoGap
    BY DEF NothingMissing
  <2>1. ASSUME snap.pc = "idle", ~FullSnapshotNeeded
        PROVE  walBase <= VerAt(idx[Newest])
    <3>1. Live # {} /\ walBase <= want[Newest]
      BY <2>1 DEF NodeInv, WalSound, FullSnapshotNeeded, Pending
    <3> QED BY <3>1, NewestNumbers DEF NodeInv, StoreSound
  <2> QED BY <2>1 DEF NodeInv, IncrementalIsSound
<1> QED BY <1>1, <1>2, <1>3, PTL DEF NodeSpec
=============================================================================
