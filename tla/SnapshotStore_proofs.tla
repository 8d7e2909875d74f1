------------------------ MODULE SnapshotStore_proofs ------------------------
(***************************************************************************)
(* Type correctness and the lock discipline of the Snapshot Store, for any *)
(* number of writers, readers, snapshots, crashes and I/O errors, and what *)
(* follows from them: nothing in the Store changes under a reader, its     *)
(* snapshots are whole, and it implements AtomicSnapshots.                 *)
(***************************************************************************)
EXTENDS SnapshotStore, FiniteSetTheorems, WellFoundedInduction, TLAPS

----------------------------------------------------------------------------
(* The order of the snapshots.                                             *)

\* A set of naturals that is not empty has a least element.
LEMMA LeastNatural ==
    ASSUME NEW T, T \subseteq Nat, T # {}
    PROVE  \E x \in T : \A y \in T : x <= y
<1> DEFINE R == OpToRel(<, Nat)
<1>1. IsWellFoundedOn(R, Nat)
  BY NatLessThanWellFounded
<1>2. \A x, y \in Nat : y < x => <<y, x>> \in R
  BY DEF OpToRel
<1> HIDE DEF R
<1>3. PICK x \in T : \A y \in T : ~(<<y, x>> \in R)
  BY <1>1, WFMin, Zenon
<1>4. \A y \in T : ~(y < x)
  BY <1>2, <1>3, Zenon
<1>5. \A y \in T : x <= y
  BY <1>4
<1> QED BY <1>5


\* A function to the naturals has its least value somewhere.
LEMMA LeastValue ==
    ASSUME NEW S, S # {}, NEW g \in [S -> Nat]
    PROVE  \E n \in S : \A m \in S : g[n] <= g[m]
<1> DEFINE T == {g[n] : n \in S}
<1>1. T # {}
  OBVIOUS
<1>2. T \subseteq Nat
  OBVIOUS
<1>3. \A n \in S : g[n] \in T
  OBVIOUS
<1>4. \A x \in T : \E n \in S : x = g[n]
  OBVIOUS
<1> HIDE DEF T
<1>5. PICK x \in T : \A y \in T : x <= y
  BY <1>1, <1>2, LeastNatural
<1>6. PICK n \in S : x = g[n]
  BY <1>4, <1>5
<1> QED BY <1>3, <1>5, <1>6

\* The snapshots sorted by sort.Sort(snapMetaSlice) have a last element.
LEMMA LastExists ==
    ASSUME NEW f \in [ID -> Index], NEW S, S \subseteq ID, S # {}
    PROVE  \E n \in S : \A m \in S \ {n} : f[m] < f[n] \/ (f[m] = f[n] /\ m < n)
<1> USE SnapshotBounds DEF ID, Index
<1>1. PICK a \in S : \A m \in S : f[m] <= f[a]
  <2> DEFINE g == [n \in S |-> MaxIndex - f[n]]
  <2>1. g \in [S -> Nat]  OBVIOUS
  <2>2. PICK n \in S : \A m \in S : g[n] <= g[m]  BY <2>1, LeastValue
  <2> QED BY <2>2
<1> DEFINE S1 == {n \in S : f[n] = f[a]}
<1>2. PICK n \in S1 : \A m \in S1 : m <= n
  <2> DEFINE g == [m \in S1 |-> MaxSnapshots - m]
  <2>1. S1 # {}  OBVIOUS
  <2>2. g \in [S1 -> Nat]
    <3>1. \A m \in S1 : MaxSnapshots - m \in Nat  OBVIOUS
    <3> HIDE DEF S1
    <3> QED BY <3>1
  <2>3. PICK n \in S1 : \A m \in S1 : g[n] <= g[m]  BY <2>1, <2>2, LeastValue
  <2> QED BY <2>3
<1>3. ASSUME NEW m \in S \ {n}
      PROVE  f[m] < f[n] \/ (f[m] = f[n] /\ m < n)
  <2>1. CASE m \in S1  BY <1>2, <2>1
  <2>2. CASE m \notin S1  BY <1>1, <1>2, <2>2
  <2> QED BY <2>1, <2>2
<1> QED BY <1>2, <1>3

\* ... and a first one.
LEMMA FirstExists ==
    ASSUME NEW f \in [ID -> Index], NEW S, S \subseteq ID, S # {}
    PROVE  \E n \in S : \A m \in S \ {n} : f[n] < f[m] \/ (f[n] = f[m] /\ n < m)
<1> USE SnapshotBounds DEF ID, Index
<1>1. PICK a \in S : \A m \in S : f[a] <= f[m]
  <2> DEFINE g == [n \in S |-> f[n]]
  <2>1. g \in [S -> Nat]  OBVIOUS
  <2>2. PICK n \in S : \A m \in S : g[n] <= g[m]  BY <2>1, LeastValue
  <2> QED BY <2>2
<1> DEFINE S1 == {n \in S : f[n] = f[a]}
<1>2. PICK n \in S1 : \A m \in S1 : n <= m
  <2> DEFINE g == [m \in S1 |-> m]
  <2>1. S1 # {}  OBVIOUS
  <2>2. g \in [S1 -> Nat]
    <3>1. \A m \in S1 : m \in Nat  OBVIOUS
    <3> HIDE DEF S1
    <3> QED BY <3>1
  <2>3. PICK n \in S1 : \A m \in S1 : g[n] <= g[m]  BY <2>1, <2>2, LeastValue
  <2> QED BY <2>3
<1>3. ASSUME NEW m \in S \ {n}
      PROVE  f[n] < f[m] \/ (f[n] = f[m] /\ n < m)
  <2>1. CASE m \in S1  BY <1>2, <2>1
  <2>2. CASE m \notin S1  BY <1>1, <1>2, <2>2
  <2> QED BY <2>1, <2>2
<1> QED BY <1>2, <1>3

\* NewestOf picks the last of the sorted snapshots.
LEMMA NewestIn ==
    ASSUME TypeOK, NEW S, S \subseteq ID, S # {}
    PROVE  /\ NewestOf(S) \in S
           /\ \A m \in S \ {NewestOf(S)} : Less(m, NewestOf(S))
<1>1. idx \in [ID -> Index]  BY DEF TypeOK
<1>2. \E n \in S : \A m \in S \ {n} : Less(m, n)
  BY <1>1, LastExists DEF Less
<1> QED BY <1>2 DEF NewestOf

\* Reap's victim is one of the snapshots it was given.
LEMMA OldestIn ==
    ASSUME TypeOK, NEW S, S \subseteq ID, S # {}
    PROVE  OldestOf(S) \in S
<1>1. idx \in [ID -> Index]  BY DEF TypeOK
<1>2. \E n \in S : \A m \in S \ {n} : Less(n, m)
  BY <1>1, FirstExists DEF Less
<1> QED BY <1>2 DEF OldestOf

\* A step that leaves the directories and their indexes alone leaves the newest
\* snapshot the newest.
LEMMA SameNewest ==
    ASSUME UNCHANGED <<dir, idx>>
    PROVE  Live' = Live /\ Newest' = Newest
<1>1. Live' = Live  BY DEF Live
<1> QED BY <1>1 DEF Newest, NewestOf, Less

----------------------------------------------------------------------------
(* Files.                                                                  *)

\* A checkpoint leaves a database image, and an image is never an absent file.
LEMMA Images ==
    /\ \A v \in Version : Whole(v) \in Image
    /\ \A x \in Image : x # NoFile
    /\ \A d, w \in Image : Replay(d, w) \in Image /\ Mixed(d, w) \in Image
<1> USE SnapshotBounds DEF Image, Version, Whole
<1>1. \A v \in Version : Whole(v) \in Image
  OBVIOUS
<1>2. \A x \in Image : x # NoFile
  BY DEF NoFile
<1>3. \A d, w \in Image : Mixed(d, w) \in Image
  BY DEF Mixed
<1>4. \A d, w \in Image : Replay(d, w) \in Image
  BY DEF Replay
<1> QED BY <1>1, <1>2, <1>3, <1>4

\* Only named directories are live.
LEMMA LiveIDs == Live \subseteq ID
BY DEF Live

\* More than one live snapshot: there is one beside the newest.
LEMMA PrevIn ==
    ASSUME TypeOK, Live # {}, Live # {Newest}
    PROVE  Newest \in ID /\ Prev(Newest) \in ID /\ Prev(Newest) # Newest
<1>1. Newest \in Live  BY NewestIn, LiveIDs DEF Newest
<1>2. Prev(Newest) \in Live \ {Newest}
  BY <1>1, NewestIn, LiveIDs DEF Prev
<1> QED BY <1>1, <1>2, LiveIDs

\* The guard of check() and Reap: more than one snapshot means one beside the newest.
LEMMA ManyLive ==
    ASSUME Cardinality(Live) > 1
    PROVE  Live # {} /\ Live # {Newest}
BY FS_EmptySet, FS_Singleton

\* Moving on to the next stage changes one field of one Sink.
LEMMA GotoEffect ==
    ASSUME TypeOK, NEW w \in Writers, NEW p \in SinkPC, Goto(w, p)
    PROVE  /\ sink' \in [Writers -> SinkState]
           /\ sink'[w].pc = p /\ sink'[w].id = sink[w].id
           /\ \A v \in Writers \ {w} : sink'[v] = sink[v]
BY DEF TypeOK, SinkState, Goto

----------------------------------------------------------------------------
(* The callers.  What is proved of the Store holds for more callers than   *)
(* the runs enumerate: a snapshot of any version, and a WAL that begins no *)
(* later than the newest snapshot, unless that is one the Store will not   *)
(* replace.  Module NodeSnapshot_proofs shows that a node is such a caller.*)

AnyCreate(w) == \E i \in Index, v \in Version : Create(w, i, v)

\* The WAL <<b, v>> completes the newest snapshot to version v.
Completes(b, v, n) ==
    Live # {} /\ (Less(Newest, n) => b <= want[Newest] /\ want[Newest] <= v)

AnyWrite(w) ==
    LET v == want[sink[w].id] IN
    /\ sink[w].pc = "open"
    /\ \/ Write(w, "db", Whole(v))
       \/ \E b \in Version : Completes(b, v, sink[w].id) /\ Write(w, "wal", <<b, v>>)

AnyClose(w) ==
    /\ sink[w].pc = "open"
    /\ sink[w].kind = "empty" /\ Live # {} /\ Less(Newest, sink[w].id)
         => want[Newest] = want[sink[w].id]
    /\ CloseSink(w)

\* A caller that cancels may ask for a full snapshot in the same step.
AnyCancel(w) ==
    /\ sink[w].pc = "open"
    /\ RemoveTmpFiles /\ RemoveTmpDirs
    /\ sink' = [sink EXCEPT ![w] = NoSink]
    /\ EndWrite
    /\ fullNeeded' \in BOOLEAN
    /\ UNCHANGED <<named, numReaders, rdr, status, resize, crashes, faults>>

AnyStep ==
    \/ \E w \in Writers : AnyCreate(w) \/ AnyWrite(w) \/ AnyClose(w) \/ AnyCancel(w) \/ SinkStep(w)
    \/ \E r \in Readers : List(r) \/ Open(r) \/ CloseSnapshot(r)
    \/ SetFullNeeded \/ Crash \/ Check
AnyNext == AnyStep \/ \E w \in Writers : IOError(w)

----------------------------------------------------------------------------
(* The inductive invariant.  TypeOK alone is not inductive: that Close and *)
(* check() find a file where they rename or replay one needs Phases, and   *)
(* Phases needs that no second thread is inside a Sink.                    *)

Inv == TypeOK /\ LockDiscipline /\ Phases

\* A thread that holds nothing.
LEMMA Blank ==
    /\ NoSink \in SinkState /\ NoSink.pc = "idle"
    /\ NoSnap \in [pc : {"idle", "listed", "open"}, id : 0..MaxSnapshots]
    /\ NoSnap.pc = "idle"
BY SnapshotBounds DEF NoSink, NoSnap, SinkState, SinkPC, File

\* An empty directory, as NewStore first creates it.
LEMMA InitInv == Init => Inv
<1> SUFFICES ASSUME Init PROVE Inv
  OBVIOUS
<1> USE SnapshotBounds DEF Init
<1>1. TypeOK
  <2>1. sink \in [Writers -> SinkState]  BY Blank
  <2>2. rdr \in [Readers -> [pc : {"idle", "listed", "open"}, id : 0..MaxSnapshots]]  BY Blank
  <2>3. db \in [ID -> File] /\ wal \in [ID -> File]  BY DEF File
  <2>4. idx \in [ID -> Index] /\ want \in [ID -> Version]  BY DEF Index, Version
  <2>5. fullNeeded \in BOOLEAN /\ writerActive \in BOOLEAN /\ resize \in BOOLEAN  BY Zenon
  <2> QED BY <2>1, <2>2, <2>3, <2>4, <2>5 DEF TypeOK
<1>2. LockDiscipline
  <2>1. OpenReaders = {}  BY Blank DEF OpenReaders
  <2> QED BY <2>1, Blank, FS_EmptySet DEF LockDiscipline
<1>3. Phases
  BY Blank DEF Phases, PhaseOf
<1> QED BY <1>1, <1>2, <1>3 DEF Inv

\* Type correctness, one action at a time.
LEMMA TypeStep == Inv /\ [AnyNext]_vars => TypeOK'
<1> SUFFICES ASSUME Inv, [AnyNext]_vars PROVE TypeOK'
  OBVIOUS
<1> USE SnapshotBounds DEF Inv, disk, lock, named
<1>1. ASSUME NEW w \in Writers, AnyCreate(w) PROVE TypeOK'
  <2>2. PICK i \in Index, v \in Version : Create(w, i, v)
    BY <1>1 DEF AnyCreate
  <2>3. used + 1 \in ID /\ used' \in 0..MaxSnapshots
    BY <2>2 DEF Create, TypeOK, ID
  <2>4. sink' \in [Writers -> SinkState]
    <3>1. [NoSink EXCEPT !.pc = "open", !.id = used + 1] \in SinkState
      <4>1. \A n \in 0..MaxSnapshots : \A s \in SinkState :
              [s EXCEPT !.pc = "open", !.id = n] \in SinkState
        BY DEF SinkState, SinkPC
      <4>2. used + 1 \in 0..MaxSnapshots
        BY <2>3 DEF ID
      <4> QED BY <4>1, <4>2, Blank, Zenon
    <3> QED BY <2>2, <3>1 DEF Create, TypeOK
  <2> QED BY <2>2, <2>3, <2>4 DEF TypeOK, Create, BeginWrite
<1>2. ASSUME NEW w \in Writers, AnyWrite(w) PROVE TypeOK'
  <2>1. PICK kind \in {"db", "wal"}, img \in File : Write(w, kind, img)
    <3>1. sink[w].id \in ID
      BY <1>2 DEF Phases, PhaseOf, AnyWrite
    <3>2. Whole(want[sink[w].id]) \in File
      BY <3>1, Images DEF TypeOK, File
    <3>3. \A b \in Version : <<b, want[sink[w].id]>> \in File
      BY <3>1 DEF TypeOK, File, Image
    <3> QED BY <1>2, <3>2, <3>3 DEF AnyWrite
  <2>2. sink' \in [Writers -> SinkState]
    <3>1. \A s \in SinkState : [s EXCEPT !.kind = kind, !.img = img] \in SinkState
      BY DEF SinkState
    <3>2. sink' = [sink EXCEPT ![w] = [sink[w] EXCEPT !.kind = kind, !.img = img]]
      BY <2>1 DEF Write, TypeOK
    <3> QED BY <3>1, <3>2 DEF TypeOK
  <2> QED BY <2>1, <2>2 DEF TypeOK, Write
<1>3. ASSUME NEW w \in Writers, AnyClose(w) PROVE TypeOK'
  <2>1. sink' \in [Writers -> SinkState]
    BY <1>3, GotoEffect DEF AnyClose, CloseSink, SinkPC
  <2> QED BY <1>3, <2>1 DEF TypeOK, AnyClose, CloseSink
<1>4. ASSUME NEW w \in Writers, AnyCancel(w) PROVE TypeOK'
  BY <1>4, Blank DEF TypeOK, AnyCancel, RemoveTmpFiles, RemoveTmpDirs, EndWrite, File
<1>5. ASSUME NEW w \in Writers, ProcessSnapshotData(w) PROVE TypeOK'
  <2>1. sink' \in [Writers -> SinkState]
    BY <1>5, GotoEffect DEF ProcessSnapshotData, SinkPC
  <2> QED BY <1>5, <2>1 DEF TypeOK, ProcessSnapshotData
<1>6. ASSUME NEW w \in Writers, RenameData(w) PROVE TypeOK'
  <2>1. sink' \in [Writers -> SinkState]
    BY <1>6, GotoEffect DEF RenameData, SinkPC
  <2>2. sink[w].img \in File
    BY DEF TypeOK, SinkState
  <2> QED BY <1>6, <2>1, <2>2 DEF TypeOK, RenameData
<1>7. ASSUME NEW w \in Writers, CommitDir(w) PROVE TypeOK'
  <2>1. sink' \in [Writers -> SinkState]
    BY <1>7, GotoEffect DEF CommitDir, SinkPC
  <2> QED BY <1>7, <2>1 DEF TypeOK, CommitDir
<1>8. ASSUME NEW w \in Writers, MovePrev(w) PROVE TypeOK'
  <2>1. sink' \in [Writers -> SinkState]
    BY <1>8, GotoEffect DEF MovePrev, SinkPC
  <2>2. db' \in [ID -> File]
    <3>1. Prev(Newest) \in ID
      BY <1>8, PrevIn DEF MovePrev, Phases, PhaseOf
    <3> QED BY <1>8, <3>1 DEF MovePrev, MoveDB, TypeOK, File
  <2> QED BY <1>8, <2>1, <2>2 DEF TypeOK, MovePrev
<1>9. ASSUME NEW w \in Writers, CheckpointRemove(w) PROVE TypeOK'
  <2>1. sink' \in [Writers -> SinkState]
    BY <1>9, GotoEffect DEF CheckpointRemove, SinkPC
  <2>2. db' \in [ID -> File] /\ wal' \in [ID -> File]
    <3>1. sink[w].pc \in {"replay", "replayed"} =>
            /\ Newest \in ID /\ db[Newest] \in Image /\ wal[Newest] \in Image
      BY NewestIn, LiveIDs DEF Phases, PhaseOf, Replayable, TypeOK, File, Newest
    <3> QED BY <1>9, <3>1, Images
          DEF CheckpointRemove, ReplaySome, ReplayAll, UnlinkWAL, TypeOK, File
  <2> QED BY <1>9, <2>1, <2>2 DEF TypeOK, CheckpointRemove
<1>10. ASSUME NEW w \in Writers, UpdateMetaSize(w) PROVE TypeOK'
  <2>1. sink' \in [Writers -> SinkState]
    BY <1>10, GotoEffect DEF UpdateMetaSize, SinkPC
  <2> QED BY <1>10, <2>1 DEF TypeOK, UpdateMetaSize, SetMeta
<1>11. ASSUME NEW w \in Writers, UnsetFullNeeded(w) PROVE TypeOK'
  <2>1. sink' \in [Writers -> SinkState]
    BY <1>11, GotoEffect DEF UnsetFullNeeded, SinkPC
  <2> QED BY <1>11, <2>1 DEF TypeOK, UnsetFullNeeded
<1>12. ASSUME NEW w \in Writers, ReapOne(w) PROVE TypeOK'
  <2>1. sink' \in [Writers -> SinkState]
    <3>1. CASE sink[w].pc = "reap"
      <4>1. OldestOf(Live) \in 0..MaxSnapshots
        BY <1>12, <3>1, ManyLive, OldestIn, LiveIDs DEF ReapOne, ID
      <4> QED BY <1>12, <3>1, <4>1 DEF ReapOne, TypeOK, SinkState, SinkPC
    <3> QED BY <1>12, <3>1, GotoEffect DEF ReapOne, SinkPC
  <2> QED BY <1>12, <2>1 DEF TypeOK, ReapOne, SetMeta, UnlinkWAL, File
<1>13. ASSUME NEW w \in Writers, CloseOK(w) PROVE TypeOK'
  BY <1>13, Blank DEF TypeOK, CloseOK, EndWrite
<1>14. ASSUME NEW w \in Writers, Abort(w) \/ CloseFailed(w) PROVE TypeOK'
  <2>1. sink' \in [Writers -> SinkState]
    BY <1>14, GotoEffect, Blank DEF Abort, CloseFailed, SinkPC, TypeOK
  <2> QED BY <1>14, <2>1
        DEF TypeOK, Abort, CloseFailed, RemoveTmpFiles, RemoveTmpDirs, EndWrite, File
<1>15. ASSUME NEW w \in Writers, IOError(w) PROVE TypeOK'
  <2>1. sink' \in [Writers -> SinkState]
    BY <1>15, GotoEffect, Blank DEF IOError, SinkPC, TypeOK
  <2>2. writerActive' \in BOOLEAN
    BY <1>15, Zenon DEF IOError, EndWrite, TypeOK
  <2> QED BY <1>15, <2>1, <2>2 DEF TypeOK, IOError
<1>16. ASSUME NEW r \in Readers, List(r) \/ Open(r) \/ CloseSnapshot(r) PROVE TypeOK'
  <2>1. CASE List(r)
    <3>1. Newest \in ID
      BY <2>1, NewestIn, LiveIDs DEF List, Newest
    <3>2. Newest \in 0..MaxSnapshots
      BY <3>1 DEF ID
    <3> QED BY <2>1, <3>2 DEF TypeOK, List
  <2>2. CASE Open(r)
    BY <2>2, Blank DEF TypeOK, Open, BeginRead
  <2>3. CASE CloseSnapshot(r)
    <3>1. r \in OpenReaders /\ IsFiniteSet(OpenReaders)
      BY <2>3, ReadersFinite, FS_Subset DEF CloseSnapshot, OpenReaders
    <3>2. numReaders # 0
      BY <3>1, FS_EmptySet DEF LockDiscipline
    <3> QED BY <2>3, <3>2, Blank DEF TypeOK, CloseSnapshot, EndRead
  <2> QED BY <1>16, <2>1, <2>2, <2>3
<1>17. CASE SetFullNeeded \/ Crash
  <2>1. CASE SetFullNeeded
    BY <2>1 DEF TypeOK, SetFullNeeded
  <2>2. CASE Crash
    <3>1. sink' \in [Writers -> SinkState]
      BY <2>2, Blank DEF Crash
    <3>2. rdr' \in [Readers -> [pc : {"idle", "listed", "open"}, id : 0..MaxSnapshots]]
      BY <2>2, Blank DEF Crash
    <3>3. writerActive' \in BOOLEAN
      BY <2>2, Zenon DEF Crash
    <3> QED BY <2>2, <3>1, <3>2, <3>3 DEF TypeOK, Crash
  <2> QED BY <1>17, <2>1, <2>2
<1>18. CASE Check
  <2>1. CASE Inspect
    <3>1. Cardinality(Live) > 1 => Newest \in ID /\ Prev(Newest) \in ID
      BY ManyLive, PrevIn
    <3>2. db' \in [ID -> File]
      BY <2>1, <3>1 DEF Inspect, MoveDB, TypeOK, File
    <3> QED BY <1>18, <2>1, <3>2 DEF TypeOK, Check, Inspect, CheckPC
  <2>2. CASE CheckReplay
    <3>1. status \in {"replay", "replayed"} =>
            /\ Newest \in ID /\ db[Newest] \in Image /\ wal[Newest] \in Image
      BY NewestIn, LiveIDs DEF Phases, PhaseOf, Replayable, TypeOK, File, Newest
    <3>2. db' \in [ID -> File] /\ wal' \in [ID -> File]
      BY <2>2, <3>1, Images
        DEF CheckReplay, ReplaySome, ReplayAll, UnlinkWAL, TypeOK, File
    <3> QED BY <1>18, <2>2, <3>2 DEF TypeOK, Check, CheckReplay, CheckPC
  <2>3. CASE CheckSize
    BY <1>18, <2>3 DEF TypeOK, Check, CheckSize, SetMeta, CheckPC
  <2>4. CASE status \in {"down", "cleaned"} /\ ~Inspect /\ ~CheckReplay /\ ~CheckSize
    BY <1>18, <2>4 DEF TypeOK, Check, RemoveTmpFiles, RemoveTmpDirs, CheckPC, File
  <2> QED BY <1>18, <2>1, <2>2, <2>3, <2>4 DEF Check
<1>19. CASE UNCHANGED vars
  BY <1>19 DEF TypeOK, vars
<1> QED BY <1>1, <1>2, <1>3, <1>4, <1>5, <1>6, <1>7, <1>8, <1>9, <1>10, <1>11, <1>12,
           <1>13, <1>14, <1>15, <1>16, <1>17, <1>18, <1>19 DEF AnyNext, AnyStep, SinkStep

----------------------------------------------------------------------------
(* The lock.                                                               *)

\* A step of the thread that holds the Sink, with which it keeps the lock ...
LEMMA KeepLock ==
    ASSUME Inv, NEW w \in Writers, sink[w].pc # "idle",
           \A v \in Writers \ {w} : sink'[v] = sink[v],
           UNCHANGED <<lock, rdr, status>>
    PROVE  LockDiscipline'
<1>1. OpenReaders' = OpenReaders  BY DEF OpenReaders
<1> QED BY <1>1 DEF Inv, LockDiscipline, lock

\* ... and one with which it gives the Sink and the lock back.
LEMMA DropLock ==
    ASSUME Inv, NEW w \in Writers, sink[w].pc # "idle",
           sink' = [sink EXCEPT ![w] = NoSink], EndWrite,
           UNCHANGED <<numReaders, rdr, status>>
    PROVE  LockDiscipline'
<1>1. OpenReaders' = OpenReaders  BY DEF OpenReaders
<1>2. \A v \in Writers : sink'[v].pc = "idle"
  BY Blank DEF Inv, TypeOK, LockDiscipline
<1> QED BY <1>1, <1>2 DEF Inv, LockDiscipline, EndWrite

\* The lock discipline, one action at a time.
LEMMA LockStep == Inv /\ [AnyNext]_vars => LockDiscipline'
<1> SUFFICES ASSUME Inv, [AnyNext]_vars PROVE LockDiscipline'
  OBVIOUS
<1> USE DEF disk, lock, named
<1>1. ASSUME NEW w \in Writers, AnyCreate(w) PROVE LockDiscipline'
  <2>1. PICK i, v : Create(w, i, v)
    BY <1>1 DEF AnyCreate
  <2>2. OpenReaders' = OpenReaders
    BY <2>1 DEF OpenReaders, Create
  <2>3. \A v1 \in Writers : sink[v1].pc = "idle"
    BY <2>1 DEF Create, BeginWrite, Inv, LockDiscipline
  <2>4. \A v1 \in Writers \ {w} : sink'[v1].pc = "idle"
    BY <2>1, <2>3 DEF Create, Inv, TypeOK
  <2> QED BY <2>1, <2>2, <2>4 DEF Create, BeginWrite, Inv, LockDiscipline
<1>2. ASSUME NEW w \in Writers,
             \/ AnyWrite(w) \/ AnyClose(w) \/ ProcessSnapshotData(w)
             \/ RenameData(w) \/ CommitDir(w) \/ MovePrev(w) \/ CheckpointRemove(w)
             \/ UpdateMetaSize(w) \/ UnsetFullNeeded(w) \/ ReapOne(w) \/ Abort(w)
      PROVE LockDiscipline'
  <2>1. sink[w].pc # "idle" /\ UNCHANGED <<lock, rdr, status>>
    BY <1>2 DEF AnyWrite, Write, AnyClose, CloseSink, ProcessSnapshotData,
                RenameData, CommitDir, MovePrev, CheckpointRemove, UpdateMetaSize,
                UnsetFullNeeded, ReapOne, Abort
  <2>2. \A v \in Writers \ {w} : sink'[v] = sink[v]
    BY <1>2 DEF Goto, Inv, TypeOK, AnyWrite, Write, AnyClose, CloseSink,
                ProcessSnapshotData, RenameData, CommitDir, MovePrev, CheckpointRemove,
                UpdateMetaSize, UnsetFullNeeded, ReapOne, Abort
  <2> QED BY <2>1, <2>2, KeepLock
<1>3. ASSUME NEW w \in Writers, AnyCancel(w) \/ CloseOK(w) \/ CloseFailed(w)
      PROVE LockDiscipline'
  BY <1>3, DropLock DEF AnyCancel, CloseOK, CloseFailed
<1>4. ASSUME NEW w \in Writers, IOError(w) PROVE LockDiscipline'
  <2>1. CASE sink' = [sink EXCEPT ![w] = NoSink] /\ EndWrite
    BY <1>4, <2>1, DropLock DEF IOError
  <2>2. CASE Goto(w, "abort") /\ UNCHANGED writerActive
    <3>1. \A v \in Writers \ {w} : sink'[v] = sink[v]
      BY <2>2 DEF Goto, Inv, TypeOK
    <3> QED BY <1>4, <2>2, <3>1, KeepLock DEF IOError
  <2> QED BY <1>4, <2>1, <2>2 DEF IOError
<1>5. ASSUME NEW r \in Readers, List(r) PROVE LockDiscipline'
  <2>1. OpenReaders' = OpenReaders
    BY <1>5 DEF List, OpenReaders, Inv, TypeOK
  <2> QED BY <1>5, <2>1 DEF List, Inv, LockDiscipline
<1>6. ASSUME NEW r \in Readers, Open(r) PROVE LockDiscipline'
  <2>1. status = "up" /\ UNCHANGED <<writerActive, sink, status>>
    BY <1>6 DEF Open, Inv, LockDiscipline
  <2>2. CASE BeginRead /\ rdr' = [rdr EXCEPT ![r].pc = "open"]
    <3>1. OpenReaders' = OpenReaders \cup {r} /\ r \notin OpenReaders
      BY <1>6, <2>2 DEF Open, OpenReaders, Inv, TypeOK
    <3>2. IsFiniteSet(OpenReaders)
      BY ReadersFinite, FS_Subset DEF OpenReaders
    <3>3. numReaders' = Cardinality(OpenReaders')
      BY <2>2, <3>1, <3>2, FS_AddElement DEF BeginRead, Inv, LockDiscipline
    <3> QED BY <2>1, <2>2, <3>3 DEF BeginRead, Inv, LockDiscipline
  <2>3. CASE rdr' = [rdr EXCEPT ![r] = NoSnap] /\ UNCHANGED numReaders
    <3>1. OpenReaders' = OpenReaders
      BY <1>6, <2>3, Blank DEF Open, OpenReaders, Inv, TypeOK
    <3> QED BY <2>1, <2>3, <3>1 DEF Inv, LockDiscipline
  <2> QED BY <1>6, <2>2, <2>3 DEF Open
<1>7. ASSUME NEW r \in Readers, CloseSnapshot(r) PROVE LockDiscipline'
  <2>1. OpenReaders' = OpenReaders \ {r} /\ r \in OpenReaders
    BY <1>7, Blank DEF CloseSnapshot, OpenReaders, Inv, TypeOK
  <2>2. IsFiniteSet(OpenReaders)
    BY ReadersFinite, FS_Subset DEF OpenReaders
  <2>3. numReaders' = Cardinality(OpenReaders')
    BY <1>7, <2>1, <2>2, FS_RemoveElement DEF CloseSnapshot, EndRead, Inv, LockDiscipline
  <2>4. status = "up" /\ ~writerActive
    BY <1>7, <2>1, <2>2, FS_EmptySet DEF CloseSnapshot, Inv, LockDiscipline
  <2> QED BY <1>7, <2>3, <2>4 DEF CloseSnapshot, Inv, LockDiscipline
<1>8. CASE Crash
  <2>1. OpenReaders' = {}
    BY <1>8, Blank DEF Crash, OpenReaders
  <2> QED BY <1>8, <2>1, Blank, FS_EmptySet DEF Crash, LockDiscipline
<1>9. CASE SetFullNeeded \/ Check \/ UNCHANGED vars
  <2>1. UNCHANGED <<lock, sink, rdr>> /\ (status' # "up" => status # "up")
    BY <1>9 DEF SetFullNeeded, Check, Inspect, CheckReplay, CheckSize, vars
  <2>2. OpenReaders' = OpenReaders
    BY <2>1 DEF OpenReaders
  <2> QED BY <2>1, <2>2 DEF Inv, LockDiscipline
<1> QED BY <1>1, <1>2, <1>3, <1>4, <1>5, <1>6, <1>7, <1>8, <1>9 DEF AnyNext, AnyStep, SinkStep

----------------------------------------------------------------------------
(* The stages of Close and of check().                                     *)

\* The thread that holds the Sink has only its own stage to look after.
LEMMA OnlyPhase ==
    ASSUME Inv, NEW w \in Writers, sink[w].pc # "idle",
           \A v \in Writers \ {w} : sink'[v] = sink[v],
           UNCHANGED status, PhaseOf(w)'
    PROVE  Phases'
<1>1. status = "up" /\ \A v \in Writers \ {w} : sink[v].pc = "idle"
  BY DEF Inv, LockDiscipline
<1>2. \A v \in Writers \ {w} : PhaseOf(v)'
  BY <1>1 DEF PhaseOf
<1> QED BY <1>1, <1>2 DEF Phases

\* A process that is not up, or is just going down, has no Sink.
LEMMA NoPhase ==
    ASSUME \A w \in Writers : sink'[w].pc = "idle",
           status' \in {"replay", "replayed"} => Replayable'
    PROVE  Phases'
BY DEF Phases, PhaseOf

\* The stages, one action at a time.
LEMMA PhasesStep == Inv /\ [AnyNext]_vars => Phases'
<1> SUFFICES ASSUME Inv, [AnyNext]_vars PROVE Phases'
  OBVIOUS
<1> USE DEF disk, lock, named
<1>0. dir \in [ID -> {"none", "tmp", "live"}] /\ db \in [ID -> File] /\ wal \in [ID -> File]
  BY DEF Inv, TypeOK
<1>1. ASSUME NEW w \in Writers, AnyCreate(w) PROVE Phases'
  <2>1. PICK i, v : Create(w, i, v)
    BY <1>1 DEF AnyCreate
  <2>2. used + 1 \in ID
    BY <2>1, SnapshotBounds DEF Create, Inv, TypeOK, ID
  <2>3. \A v1 \in Writers \ {w} : sink'[v1] = sink[v1] /\ sink[v1].pc = "idle"
    BY <2>1 DEF Create, BeginWrite, Inv, TypeOK, LockDiscipline
  <2>4. sink'[w].pc = "open" /\ sink'[w].id = used + 1 /\ status' = "up"
    BY <2>1 DEF Create, Inv, TypeOK, NoSink
  <2>5. dir'[used + 1] = "tmp"
    BY <2>1, <2>2, <1>0 DEF Create
  <2> QED BY <2>2, <2>3, <2>4, <2>5 DEF Phases, PhaseOf
<1>2. ASSUME NEW w \in Writers, AnyWrite(w) PROVE Phases'
  <2>1. PICK kind, img : Write(w, kind, img)
    BY <1>2 DEF AnyWrite
  <2>2. sink'[w].pc = "open" /\ sink'[w].id = sink[w].id
    BY <2>1 DEF Write, Inv, TypeOK, SinkState
  <2>3. PhaseOf(w)'
    BY <2>1, <2>2 DEF Write, PhaseOf, Inv, Phases
  <2> QED BY <2>1, <2>3, OnlyPhase DEF Write, Inv, TypeOK
<1>3. ASSUME NEW w \in Writers,
             \/ AnyClose(w) \/ ProcessSnapshotData(w) \/ RenameData(w)
             \/ UpdateMetaSize(w) \/ UnsetFullNeeded(w) \/ Abort(w)
      PROVE Phases'
  <2>1. PICK p \in SinkPC \ {"idle", "open", "move", "replay", "replayed"} :
          /\ Goto(w, p)
          /\ p \in {"process", "rename", "commit"} =>
                sink[w].pc \in {"open", "process", "rename"}
    BY <1>3 DEF AnyClose, CloseSink, ProcessSnapshotData, RenameData, UpdateMetaSize,
                UnsetFullNeeded, Abort, SinkPC
  <2>2. sink[w].pc # "idle" /\ UNCHANGED <<dir, status>>
    BY <1>3 DEF AnyClose, CloseSink, ProcessSnapshotData, RenameData, UpdateMetaSize,
                UnsetFullNeeded, Abort
  <2>3. /\ sink'[w].pc = p /\ sink'[w].id = sink[w].id
        /\ \A v \in Writers \ {w} : sink'[v] = sink[v]
    BY <2>1, GotoEffect DEF Inv
  <2>4. PhaseOf(w)'
    BY <2>1, <2>2, <2>3 DEF PhaseOf, Inv, Phases
  <2> QED BY <2>2, <2>3, <2>4, OnlyPhase
<1>4. ASSUME NEW w \in Writers, CommitDir(w) PROVE Phases'
  <2>1. sink[w].id \in ID /\ dir[sink[w].id] = "tmp"
    BY <1>4 DEF CommitDir, Inv, Phases, PhaseOf
  <2>2. Live' = Live \cup {sink[w].id} /\ sink[w].id \notin Live
    BY <1>0, <1>4, <2>1 DEF CommitDir, Live
  <2>3. PICK p \in {"move", "size"} : Goto(w, p) /\ (p = "move" => Live # {})
    BY <1>4 DEF CommitDir
  <2>4. /\ sink'[w].pc = p /\ sink'[w].id = sink[w].id
        /\ \A v \in Writers \ {w} : sink'[v] = sink[v]
    BY <2>3, GotoEffect DEF Inv, SinkPC
  <2>5. Live # {} => Live' # {} /\ Live' # {Newest'}
    BY <2>2
  <2>6. PhaseOf(w)'
    BY <2>1, <2>3, <2>4, <2>5 DEF PhaseOf
  <2> QED BY <1>4, <2>4, <2>6, OnlyPhase DEF CommitDir
<1>5. ASSUME NEW w \in Writers, MovePrev(w) PROVE Phases'
  <2>1. Newest \in ID /\ Prev(Newest) \in ID /\ Prev(Newest) # Newest /\ Live # {}
    BY <1>5, PrevIn DEF MovePrev, Inv, Phases, PhaseOf
  <2>2. Live' = Live /\ Newest' = Newest
    BY <1>5, SameNewest DEF MovePrev
  <2>3. PICK p \in {"abort", "size", "replay"} :
          /\ Goto(w, p)
          /\ p = "replay" => MoveDB(Prev(Newest), Newest) /\ db[Prev(Newest)] # NoFile
                             /\ wal[Newest] # NoFile
    BY <1>5 DEF MovePrev
  <2>4. /\ sink'[w].pc = p /\ sink'[w].id = sink[w].id
        /\ \A v \in Writers \ {w} : sink'[v] = sink[v]
    BY <2>3, GotoEffect DEF Inv, SinkPC
  <2>5. p = "replay" => Replayable'
    BY <1>0, <1>5, <2>1, <2>2, <2>3 DEF MovePrev, MoveDB, Replayable
  <2>6. PhaseOf(w)'
    BY <1>5, <2>4, <2>5 DEF MovePrev, PhaseOf, Inv, Phases
  <2> QED BY <1>5, <2>4, <2>6, OnlyPhase DEF MovePrev
<1>6. ASSUME NEW w \in Writers, CheckpointRemove(w) PROVE Phases'
  <2>1. Live' = Live /\ Newest' = Newest
    BY <1>6, SameNewest DEF CheckpointRemove
  <2>2. PICK p \in {"replayed", "unlink", "size"} :
          Goto(w, p) /\ (p = "replayed" => sink[w].pc = "replay" /\ ReplaySome(Newest)
                                           /\ UNCHANGED wal)
    BY <1>6 DEF CheckpointRemove
  <2>3. /\ sink'[w].pc = p /\ sink'[w].id = sink[w].id
        /\ \A v \in Writers \ {w} : sink'[v] = sink[v]
    BY <2>2, GotoEffect DEF Inv, SinkPC
  <2>4. p = "replayed" => Replayable'
    <3> SUFFICES ASSUME p = "replayed" PROVE Replayable'
      OBVIOUS
    <3>1. Replayable /\ Newest \in ID
      BY <2>2, NewestIn, LiveIDs DEF Inv, Phases, PhaseOf, Replayable, Newest
    <3>2. Mixed(db[Newest], wal[Newest]) # NoFile
      BY <1>0, <3>1, Images DEF Replayable, File
    <3> QED BY <1>0, <2>1, <2>2, <3>1, <3>2 DEF ReplaySome, Replayable
  <2>5. PhaseOf(w)'
    BY <1>6, <2>3, <2>4 DEF CheckpointRemove, PhaseOf, Inv, Phases
  <2> QED BY <1>6, <2>3, <2>5, OnlyPhase DEF CheckpointRemove
<1>7. ASSUME NEW w \in Writers, ReapOne(w) PROVE Phases'
  <2>1. /\ sink'[w].pc \in {"rmdir", "rmdata", "reap"} /\ sink'[w].id = sink[w].id
        /\ \A v \in Writers \ {w} : sink'[v] = sink[v]
    BY <1>7 DEF ReapOne, Goto, Inv, TypeOK, SinkState
  <2>2. PhaseOf(w)'
    BY <1>7, <2>1 DEF ReapOne, PhaseOf, Inv, Phases
  <2> QED BY <1>7, <2>1, <2>2, OnlyPhase DEF ReapOne
<1>8. ASSUME NEW w \in Writers, AnyCancel(w) \/ CloseOK(w) \/ CloseFailed(w) PROVE Phases'
  <2>1. sink[w].pc # "idle" /\ sink' = [sink EXCEPT ![w] = NoSink] /\ UNCHANGED status
    BY <1>8 DEF AnyCancel, CloseOK, CloseFailed
  <2>2. sink'[w].pc = "idle" /\ \A v \in Writers \ {w} : sink'[v] = sink[v]
    BY <2>1, Blank DEF Inv, TypeOK
  <2>3. PhaseOf(w)'
    BY <2>2 DEF PhaseOf
  <2> QED BY <2>1, <2>2, <2>3, OnlyPhase
<1>9. ASSUME NEW w \in Writers, IOError(w) PROVE Phases'
  <2>1. /\ sink'[w].pc \in {"idle", "abort"}
        /\ sink'[w].pc = "abort" => sink'[w].id = sink[w].id
        /\ \A v \in Writers \ {w} : sink'[v] = sink[v]
    BY <1>9, Blank DEF IOError, Goto, Inv, TypeOK, SinkState
  <2>2. PhaseOf(w)'
    BY <1>9, <2>1 DEF IOError, PhaseOf, Inv, Phases
  <2> QED BY <1>9, <2>1, <2>2, OnlyPhase DEF IOError
<1>10. CASE \/ \E r \in Readers : List(r) \/ Open(r) \/ CloseSnapshot(r)
            \/ SetFullNeeded \/ UNCHANGED vars
  <2>1. UNCHANGED <<dir, db, wal, idx, sink, status>>
    BY <1>10 DEF List, Open, CloseSnapshot, SetFullNeeded, vars
  <2>2. Live' = Live /\ Newest' = Newest
    BY <2>1, SameNewest
  <2>3. Replayable' <=> Replayable
    BY <2>1, <2>2 DEF Replayable
  <2> QED BY <2>1, <2>2, <2>3 DEF Inv, Phases, PhaseOf
<1>11. CASE Crash
  BY <1>11, Blank, NoPhase DEF Crash
<1>12. CASE Check
  <2>1. \A w \in Writers : sink'[w].pc = "idle"
    BY <1>12 DEF Check, Inspect, CheckReplay, CheckSize, Inv, LockDiscipline
  <2>2. status' = "replay" => Replayable'
    <3> SUFFICES ASSUME status' = "replay" PROVE Replayable'
      OBVIOUS
    <3>1. Inspect /\ Cardinality(Live) > 1 /\ wal[Newest] # NoFile
      BY <1>12 DEF Check, Inspect, CheckReplay, CheckSize
    <3>2. Newest \in ID /\ Prev(Newest) \in ID /\ Prev(Newest) # Newest /\ Live # {}
      BY <3>1, ManyLive, PrevIn DEF Inv
    <3>3. Live' = Live /\ Newest' = Newest
      BY <1>12, <3>1, SameNewest DEF Check, Inspect
    <3>4. db'[Newest] # NoFile
      BY <1>0, <3>1, <3>2 DEF Inspect, MoveDB
    <3> QED BY <3>1, <3>2, <3>3, <3>4 DEF Inspect, Replayable
  <2>3. status' = "replayed" => Replayable'
    <3> SUFFICES ASSUME status' = "replayed" PROVE Replayable'
      OBVIOUS
    <3>1. status = "replay" /\ ReplaySome(Newest) /\ UNCHANGED <<dir, wal, idx>>
      BY <1>12 DEF Check, Inspect, CheckReplay, CheckSize
    <3>2. Replayable /\ Newest \in ID
      BY <3>1, NewestIn, LiveIDs DEF Inv, Phases, Replayable, Newest
    <3>3. Mixed(db[Newest], wal[Newest]) # NoFile
      BY <1>0, <3>2, Images DEF Replayable, File
    <3>4. Live' = Live /\ Newest' = Newest
      BY <3>1, SameNewest
    <3> QED BY <1>0, <3>1, <3>2, <3>3, <3>4 DEF ReplaySome, Replayable
  <2> QED BY <2>1, <2>2, <2>3, NoPhase
<1> QED BY <1>1, <1>2, <1>3, <1>4, <1>5, <1>6, <1>7, <1>8, <1>9, <1>10, <1>11, <1>12
        DEF AnyNext, AnyStep, SinkStep

\* The invariant is inductive.
LEMMA InvStep == Inv /\ [AnyNext]_vars => Inv'
BY TypeStep, LockStep, PhasesStep DEF Inv

\* The callers of the runs are such callers.
LEMMA NextIsAny == Inv /\ [Next]_vars => [AnyNext]_vars
<1> SUFFICES ASSUME Inv, Next PROVE AnyNext
  BY DEF Inv
<1>1. Live # {} => want[Newest] \in Version
  BY NewestIn, LiveIDs DEF Inv, TypeOK, Newest
<1>2. ASSUME NEW w \in Writers, CreateAny(w) PROVE AnyCreate(w)
  BY <1>1, <1>2, SnapshotBounds DEF CreateAny, AnyCreate, Index, Version
<1>3. ASSUME NEW w \in Writers, WriteFull(w) PROVE AnyWrite(w)
  BY <1>3 DEF WriteFull, AnyWrite
<1>4. ASSUME NEW w \in Writers, WriteWAL(w) PROVE AnyWrite(w)
  <2>1. want[Newest] \in Version /\ want[sink[w].id] \in Version
    BY <1>1, <1>4 DEF WriteWAL, Inv, TypeOK, Phases, PhaseOf
  <2>2. want[Newest] <= want[Newest] /\ want[Newest] <= want[sink[w].id]
    BY <1>4, <2>1, SnapshotBounds DEF WriteWAL, Version
  <2>3. Completes(want[Newest], want[sink[w].id], sink[w].id)
    BY <1>4, <2>2 DEF WriteWAL, Completes
  <2> QED BY <1>4, <2>1, <2>3 DEF WriteWAL, AnyWrite
<1>5. ASSUME NEW w \in Writers, CloseWritten(w) PROVE AnyClose(w)
  BY <1>5 DEF CloseWritten, AnyClose
<1>6. ASSUME NEW w \in Writers, Cancel(w) PROVE AnyCancel(w)
  BY <1>6 DEF Cancel, AnyCancel, Inv, TypeOK
<1> QED BY <1>2, <1>3, <1>4, <1>5, <1>6 DEF Next, AnyNext, AnyStep

\* Types, lock and stages hold together in every state that the Store reaches.
THEOREM Invariance == Spec => []Inv
<1>1. Init => Inv  BY InitInv
<1>2. Inv /\ [Next]_vars => Inv'  BY InvStep, NextIsAny
<1> QED BY <1>1, <1>2, PTL DEF Spec

----------------------------------------------------------------------------
(* The results.                                                            *)

\* Every state of the Store is well typed: in particular no handler of
\* snapshot/store.go or sink.go reads a file that is not there.
THEOREM TypeCorrect == Spec => []TypeOK
<1>1. Inv => TypeOK  BY DEF Inv
<1> QED BY <1>1, Invariance, PTL

\* MultiRSW does what its callers count on: one Sink at a time, none beside an
\* open snapshot, and a reader count that is never off by one; and each stage of
\* Sink.Close and of check() finds the files it works on.
THEOREM StoreInvariant == Spec => []StoreInv
<1>1. Inv => StoreInv  BY DEF Inv, StoreInv
<1> QED BY <1>1, Invariance, PTL

\* While a reader has a snapshot open no step touches a file of the Store.
LEMMA FrozenStep ==
    Inv /\ AnyNext => ((\E r \in Readers : rdr[r].pc = "open" /\ rdr'[r].pc = "open")
                        => UNCHANGED <<dir, meta, db, wal>>)
<1> SUFFICES ASSUME Inv, AnyNext, NEW r \in Readers, rdr[r].pc = "open", rdr'[r].pc = "open"
             PROVE  UNCHANGED <<dir, meta, db, wal>>
  OBVIOUS
<1>1. numReaders # 0
  <2>1. r \in OpenReaders /\ IsFiniteSet(OpenReaders)
    BY ReadersFinite, FS_Subset DEF OpenReaders
  <2> QED BY <2>1, FS_EmptySet DEF Inv, LockDiscipline
<1>2. status = "up" /\ ~writerActive /\ \A w \in Writers : sink[w].pc = "idle"
  BY <1>1 DEF Inv, LockDiscipline
<1>3. ~Check /\ ~Crash
  BY <1>2, Blank DEF Check, Inspect, CheckReplay, CheckSize, Crash
<1>4. ASSUME NEW w \in Writers
      PROVE  /\ ~AnyCreate(w) /\ ~AnyWrite(w) /\ ~AnyClose(w)
             /\ ~AnyCancel(w) /\ ~SinkStep(w) /\ ~IOError(w)
  <2>1. ~AnyCreate(w)
    BY <1>1 DEF AnyCreate, Create, BeginWrite
  <2>2. ~AnyWrite(w) /\ ~AnyClose(w) /\ ~AnyCancel(w) /\ ~IOError(w)
    BY <1>2 DEF AnyWrite, AnyClose, AnyCancel, IOError
  <2>3. ~SinkStep(w)
    BY <1>2 DEF SinkStep, ProcessSnapshotData, RenameData, CommitDir, MovePrev,
                CheckpointRemove, UpdateMetaSize, UnsetFullNeeded, ReapOne, CloseOK, Abort,
                CloseFailed
  <2> QED BY <2>1, <2>2, <2>3
<1> QED BY <1>3, <1>4 DEF AnyNext, AnyStep, List, Open, CloseSnapshot, SetFullNeeded, disk

\* Nothing renames, rewrites or removes a directory or data file of the Store
\* while any thread has a snapshot open (snapshot/store.go, Open and Create).
THEOREM StoreFrozenUnderReaders == Spec => ReadersFreezeStore
<1>1. Inv /\ [Next]_vars =>
        [(\E r \in Readers : rdr[r].pc = "open" /\ rdr'[r].pc = "open")
             => UNCHANGED <<dir, meta, db, wal>>]_vars
  BY FrozenStep, NextIsAny
<1> QED BY <1>1, Invariance, PTL DEF Spec, ReadersFreezeStore

----------------------------------------------------------------------------
(* Whole snapshots, and the refinement of AtomicSnapshots: no I/O error    *)
(* falls between the rename of a snapshot's directory and the end of its   *)
(* checkpoint.                                                             *)

\* The stages that leave a committed snapshot without its own database.
Halfway == {"move", "replay", "replayed"}

\* No I/O error in these stages; a crash may fall into any.
ErrorsElsewhere == Failing \cap Halfway = {}

----------------------------------------------------------------------------
(* The invariant.                                                          *)

\* IDs are given out in order, and nothing is named by one to come.
Fresh ==
    \A i \in ID : i > used => dir[i] = "none" /\ db[i] = NoFile /\ wal[i] = NoFile

\* d is an image that the WAL w turns into the database as of version v, also
\* when some of its pages have been copied already.
Covered(d, w, v) == w[1] <= d[1] /\ d[1] <= d[2] /\ d[2] <= w[2] /\ w[2] = v

\* What the newest snapshot n consists of: its database; an image and the WAL
\* that completes it; or, when its directory has been renamed and nothing else,
\* the database of the snapshot p before it, with the WAL in between if anything
\* changed.
Own(n) == db[n] = Whole(want[n]) /\ wal[n] = NoFile
Completed(n) == db[n] \in Image /\ wal[n] \in Image /\ Covered(db[n], wal[n], want[n])
Inherits(n, p) ==
    /\ db[n] = NoFile /\ db[p] = Whole(want[p])
    /\ \/ wal[n] = NoFile /\ want[n] = want[p]
       \/ \E b \in Version : wal[n] = <<b, want[n]>> /\ b <= want[p] /\ want[p] <= want[n]

NewestSound ==
    Live # {} =>
        /\ \/ Own(Newest) \/ Completed(Newest)
           \/ Live # {Newest} /\ Inherits(Newest, Prev(Newest))
        /\ Live = {Newest} => db[Newest] = Whole(want[Newest])

\* Outside those stages, and those of check(), the newest snapshot has its own
\* database.
NewestSettled ==
    /\ \/ status = "up" /\ \A w \in Writers : sink[w].pc \notin Halfway
       \/ status \in {"unlink", "size", "resize"}
    => (Live # {} => db[Newest] = Whole(want[Newest]))

\* An older snapshot has its database or has handed it on.
OlderSound ==
    \A i \in Live : i # Newest => db[i] \in {NoFile, Whole(want[i])}

\* The data given to a Sink is what the snapshot stands for, relative to the
\* newest snapshot there is.
GivenData(s) ==
    /\ s.kind = "db" => s.img = Whole(want[s.id])
    /\ s.kind = "wal" =>
          \E b \in Version : s.img = <<b, want[s.id]>> /\ Completes(b, want[s.id], s.id)
    /\ s.kind = "empty" /\ s.pc # "open" /\ Live # {} /\ Less(Newest, s.id)
          => want[Newest] = want[s.id]

\* How far the holder of a Sink has come, and what is in place by then.
Stage(s) ==
    /\ s.pc # "idle" => s.id = used
    /\ s.pc \in {"open", "process", "rename"} => db[s.id] = NoFile /\ wal[s.id] = NoFile
    /\ s.pc \in {"open", "process", "rename", "commit"} => GivenData(s)
    /\ s.pc \in {"rename", "commit"} => /\ Live # {} => Less(Newest, s.id)
                                        /\ Live = {} => s.kind = "db"
    /\ s.pc = "commit" => /\ db[s.id] = (IF s.kind = "db" THEN s.img ELSE NoFile)
                          /\ wal[s.id] = (IF s.kind = "wal" THEN s.img ELSE NoFile)
    /\ s.pc = "move" => Inherits(Newest, Prev(Newest))
    /\ s.pc = "rmdir" => s.victim \in Live /\ s.victim # Newest
    /\ s.pc = "rmdata" => s.victim \in ID \ Live

FilesSound ==
    /\ Fresh /\ NewestSound /\ NewestSettled /\ OlderSound
    /\ \A w \in Writers : Stage(sink[w])

\* A reader knows the ID of a snapshot that was once listed.
Listed == \A r \in Readers : rdr[r].pc # "idle" => rdr[r].id \in ID

Wholeness == FilesSound /\ Listed /\ OpenIsStable /\ FailsOnlyOnMeta

----------------------------------------------------------------------------
(* The order of the snapshots, as a function of their indexes.             *)

NewestBy(f, S) == CHOOSE n \in S : \A m \in S \ {n} : f[m] < f[n] \/ (f[m] = f[n] /\ m < n)

\* The newest snapshot and the one before it.
LEMMA NewestIsBy ==
    /\ Newest = NewestBy(idx, Live)
    /\ Prev(Newest) = NewestBy(idx, Live \ {Newest})
BY Zenon DEF Newest, Prev, NewestOf, NewestBy, Less

\* The same in the next state.
LEMMA NewestIsByNext ==
    /\ Newest' = NewestBy(idx', Live')
    /\ Prev(Newest)' = NewestBy(idx', Live' \ {Newest'})
BY Zenon DEF Newest, Prev, NewestOf, NewestBy, Less

\* It is one of the snapshots, and all others are less.
LEMMA NewestByIn ==
    ASSUME NEW f \in [ID -> Index], NEW S, S \subseteq ID, S # {}
    PROVE  /\ NewestBy(f, S) \in S
           /\ \A m \in S \ {NewestBy(f, S)} :
                 f[m] < f[NewestBy(f, S)] \/ (f[m] = f[NewestBy(f, S)] /\ m < NewestBy(f, S))
<1>1. \E n \in S : \A m \in S \ {n} : f[m] < f[n] \/ (f[m] = f[n] /\ m < n)
  BY LastExists
<1> QED BY <1>1 DEF NewestBy

\* There is only one such.
LEMMA NewestByIs ==
    ASSUME NEW f \in [ID -> Index], NEW S, S \subseteq ID, NEW n \in S,
           \A m \in S \ {n} : f[m] < f[n] \/ (f[m] = f[n] /\ m < n)
    PROVE  NewestBy(f, S) = n
<1>1. PICK x : x = NewestBy(f, S)
  OBVIOUS
<1>2. x \in S /\ \A m \in S \ {x} : f[m] < f[x] \/ (f[m] = f[x] /\ m < x)
  BY <1>1, NewestByIn
<1>3. x \in Nat /\ n \in Nat /\ f[x] \in Nat /\ f[n] \in Nat
  BY <1>2, SnapshotBounds DEF ID, Index
<1>4. x = n
  BY <1>2, <1>3
<1> QED BY <1>1, <1>4

\* It depends on the indexes of the snapshots only.
LEMMA NewestBySame ==
    ASSUME NEW f \in [ID -> Index], NEW g \in [ID -> Index], NEW S, S \subseteq ID, S # {},
           \A i \in S : f[i] = g[i]
    PROVE  NewestBy(g, S) = NewestBy(f, S)
<1>1. PICK n : n = NewestBy(f, S)
  OBVIOUS
<1>2. n \in S /\ \A m \in S \ {n} : f[m] < f[n] \/ (f[m] = f[n] /\ m < n)
  BY <1>1, NewestByIn
<1>3. \A m \in S \ {n} : g[m] < g[n] \/ (g[m] = g[n] /\ m < n)
  BY <1>2
<1>4. NewestBy(g, S) = n
  BY <1>2, <1>3, NewestByIs
<1> QED BY <1>1, <1>4

\* A later snapshot becomes the newest; removing an older one changes nothing.
LEMMA NewestByAdd ==
    ASSUME NEW f \in [ID -> Index], NEW S, S \subseteq ID, NEW i \in ID \ S,
           S # {} => LET n == NewestBy(f, S) IN f[n] < f[i] \/ (f[n] = f[i] /\ n < i)
    PROVE  NewestBy(f, S \cup {i}) = i
<1>1. ASSUME NEW m \in S
      PROVE  f[m] < f[i] \/ (f[m] = f[i] /\ m < i)
  <2>1. PICK n : n = NewestBy(f, S)
    OBVIOUS
  <2>2. n \in S /\ \A k \in S \ {n} : f[k] < f[n] \/ (f[k] = f[n] /\ k < n)
    BY <2>1, NewestByIn
  <2>3. f[n] < f[i] \/ (f[n] = f[i] /\ n < i)
    BY <2>1
  <2>4. m \in Nat /\ n \in Nat /\ i \in Nat /\ f[m] \in Nat /\ f[n] \in Nat /\ f[i] \in Nat
    BY <2>2, SnapshotBounds DEF ID, Index
  <2>5. CASE m = n
    BY <2>3, <2>5
  <2>6. CASE m # n
    <3>1. f[m] < f[n] \/ (f[m] = f[n] /\ m < n)
      BY <2>2, <2>6
    <3> QED BY <2>3, <2>4, <3>1
  <2> QED BY <2>5, <2>6
<1> QED BY <1>1, NewestByIs

\* Removing a snapshot that is not the newest leaves the newest the newest.
LEMMA NewestByRemove ==
    ASSUME NEW f \in [ID -> Index], NEW S, S \subseteq ID, NEW v \in S, v # NewestBy(f, S)
    PROVE  NewestBy(f, S \ {v}) = NewestBy(f, S)
<1>1. PICK n : n = NewestBy(f, S)
  OBVIOUS
<1>2. n \in S /\ \A m \in S \ {n} : f[m] < f[n] \/ (f[m] = f[n] /\ m < n)
  BY <1>1, NewestByIn
<1>3. n \in S \ {v}
  BY <1>1, <1>2
<1>4. NewestBy(f, S \ {v}) = n
  BY <1>2, <1>3, NewestByIs
<1> QED BY <1>1, <1>4

----------------------------------------------------------------------------
(* Steps that leave the live snapshots and their files alone.              *)

SameLive ==
    /\ Live' = Live
    /\ \A i \in Live : idx'[i] = idx[i] /\ want'[i] = want[i]
                       /\ db'[i] = db[i] /\ wal'[i] = wal[i]

\* A step that leaves the live snapshots and their indexes alone leaves the newest
\* and the one before it where they were.
LEMMA LiveKept ==
    ASSUME Inv, Inv', SameLive, Live # {}
    PROVE  /\ Newest \in Live /\ Newest' = Newest
           /\ Live # {Newest} => Prev(Newest) \in Live \ {Newest}
                                 /\ Prev(Newest)' = Prev(Newest)
<1>1. PICK f \in [ID -> Index] : f = idx
  BY DEF Inv, TypeOK
<1>2. PICK g \in [ID -> Index] : g = idx'
  BY DEF Inv, TypeOK
<1>3. \A i \in Live : f[i] = g[i]
  BY <1>1, <1>2 DEF SameLive
<1>4. PICK S : S = Live
  OBVIOUS
<1>5. S \subseteq ID /\ S # {} /\ \A i \in S : f[i] = g[i]
  BY <1>3, <1>4, LiveIDs
<1>6. NewestBy(g, S) = NewestBy(f, S) /\ NewestBy(f, S) \in S
  BY <1>5, NewestBySame, NewestByIn
<1>7. Newest \in Live /\ Newest' = Newest
  BY <1>1, <1>2, <1>4, <1>6, NewestIsBy, NewestIsByNext DEF SameLive
<1>8. PICK T : T = S \ {NewestBy(f, S)}
  OBVIOUS
<1>9. T # {} => NewestBy(g, T) = NewestBy(f, T) /\ NewestBy(f, T) \in T
  BY <1>5, <1>8, NewestBySame, NewestByIn
<1>10. T = Live \ {Newest} /\ T = Live' \ {Newest'}
  BY <1>1, <1>4, <1>7, <1>8, NewestIsBy DEF SameLive
<1>11. Prev(Newest) = NewestBy(f, T) /\ Prev(Newest)' = NewestBy(g, T)
  BY <1>1, <1>2, <1>10, NewestIsBy, NewestIsByNext
<1>12. Live # {Newest} => T # {}
  BY <1>7, <1>10
<1> QED BY <1>7, <1>9, <1>10, <1>11, <1>12

\* They keep what is known of the files.
LEMMA FilesKept ==
    ASSUME Inv, Inv', SameLive, NewestSound, OlderSound
    PROVE  NewestSound' /\ OlderSound'
<1>1. CASE Live = {}
  BY <1>1 DEF NewestSound, OlderSound, SameLive
<1>2. CASE Live # {}
  <2>1. /\ Newest \in Live /\ Newest' = Newest /\ Live' = Live
        /\ Live # {Newest} => Prev(Newest) \in Live \ {Newest}
                              /\ Prev(Newest)' = Prev(Newest)
    BY <1>2, LiveKept DEF SameLive
  <2>2. OlderSound'
    BY <2>1 DEF OlderSound, SameLive, Whole
  <2>3. /\ Own(Newest) => Own(Newest)'
        /\ Completed(Newest) => Completed(Newest)'
        /\ Live # {Newest} /\ Inherits(Newest, Prev(Newest)) => Inherits(Newest, Prev(Newest))'
    BY <2>1 DEF Own, Completed, Inherits, SameLive, Whole
  <2>4. Live = {Newest} => db'[Newest'] = Whole(want'[Newest'])
    BY <1>2, <2>1 DEF NewestSound, SameLive, Whole
  <2> QED BY <1>2, <2>1, <2>2, <2>3, <2>4 DEF NewestSound, Whole
<1> QED BY <1>1, <1>2

----------------------------------------------------------------------------
(* The threads.                                                            *)

\* Only one thread is inside a Sink, and only while the process is up.
LEMMA OneSink ==
    ASSUME Inv, NEW w \in Writers, sink[w].pc # "idle",
           \A v \in Writers \ {w} : sink'[v] = sink[v]
    PROVE  /\ status = "up"
           /\ \A v \in Writers \ {w} : sink[v].pc = "idle" /\ sink'[v].pc = "idle"
BY DEF Inv, LockDiscipline

\* Moving on to the next stage keeps the Sink's data.
LEMMA GotoKeeps ==
    ASSUME Inv, NEW w \in Writers, NEW p \in SinkPC, Goto(w, p)
    PROVE  /\ sink'[w].pc = p /\ sink'[w].id = sink[w].id /\ sink'[w].kind = sink[w].kind
           /\ sink'[w].img = sink[w].img /\ sink'[w].victim = sink[w].victim
           /\ \A v \in Writers \ {w} : sink'[v] = sink[v]
BY DEF Inv, TypeOK, SinkState, Goto

\* A thread that is in no Sink.
LEMMA IdleStage ==
    ASSUME NEW w, sink'[w].pc = "idle"
    PROVE  Stage(sink[w])'
BY DEF Stage

\* What is known of a Sink that is being filled and of its snapshot does not
\* change as long as the live snapshots do not.
LEMMA GivenKept ==
    ASSUME Inv, Inv', SameLive, NEW w, GivenData(sink[w]),
           sink'[w].kind = sink[w].kind, sink'[w].img = sink[w].img,
           sink'[w].id = sink[w].id, want'[sink[w].id] = want[sink[w].id],
           idx'[sink[w].id] = idx[sink[w].id],
           sink'[w].pc = "open" \/ sink[w].pc # "open"
    PROVE  GivenData(sink[w])'
<1>1. CASE Live = {}
  BY <1>1 DEF GivenData, Completes, SameLive, Whole
<1>2. CASE Live # {}
  <2>1. Newest \in Live /\ Newest' = Newest /\ Live' = Live
    BY <1>2, LiveKept DEF SameLive
  <2>2. want'[Newest'] = want[Newest] /\ (Less(Newest, sink[w].id)' <=> Less(Newest, sink[w].id))
    BY <2>1 DEF SameLive, Less
  <2> QED BY <1>2, <2>1, <2>2 DEF GivenData, Completes, Whole
<1> QED BY <1>1, <1>2

\* A step of the thread inside the Sink that leaves the live snapshots alone has
\* only its own stage to look after.
LEMMA SinkStepSound ==
    ASSUME Inv, Inv', FilesSound, SameLive, Fresh', NEW w \in Writers,
           sink[w].pc \notin Halfway \cup {"idle"}, sink'[w].pc \notin Halfway,
           \A v \in Writers \ {w} : sink'[v] = sink[v],
           Stage(sink[w])'
    PROVE  FilesSound'
<1>1. /\ status = "up"
      /\ \A v \in Writers \ {w} : sink[v].pc = "idle" /\ sink'[v].pc = "idle"
  BY OneSink
<1>2. NewestSound' /\ OlderSound'
  BY FilesKept DEF FilesSound
<1>3. \A v \in Writers : sink[v].pc \notin Halfway
  BY <1>1 DEF Halfway
<1>4. Live # {} => db[Newest] = Whole(want[Newest])
  BY <1>1, <1>3 DEF FilesSound, NewestSettled
<1>5. Live' # {} => db'[Newest'] = Whole(want'[Newest'])
  BY <1>4, LiveKept DEF SameLive, Whole
<1>6. NewestSettled'
  BY <1>5 DEF NewestSettled, Whole
<1>7. \A v \in Writers : Stage(sink[v])'
  BY <1>1, IdleStage
<1> QED BY <1>2, <1>6, <1>7 DEF FilesSound

----------------------------------------------------------------------------
(* The actions.                                                            *)

\* Store.Create: a new sink's stage owes nothing yet.
LEMMA CreateSound ==
    ASSUME Inv, Inv', FilesSound, NEW w \in Writers, NEW i \in Index, NEW v \in Version,
           Create(w, i, v)
    PROVE  FilesSound'
<1>1. /\ used + 1 \in ID /\ used' = used + 1 /\ used \in Nat
      /\ dir \in [ID -> {"none", "tmp", "live"}] /\ idx \in [ID -> Index] /\ want \in [ID -> Version]
      /\ sink \in [Writers -> SinkState]
  BY SnapshotBounds DEF Create, Inv, TypeOK, ID
<1>2. /\ dir' = [dir EXCEPT ![used + 1] = "tmp"] /\ UNCHANGED <<db, wal, status>>
      /\ idx' = [idx EXCEPT ![used + 1] = i] /\ want' = [want EXCEPT ![used + 1] = v]
      /\ status = "up" /\ \A u \in Writers : sink[u].pc = "idle"
  BY DEF Create, BeginWrite, Inv, LockDiscipline
<1>3. dir[used + 1] = "none" /\ db[used + 1] = NoFile /\ wal[used + 1] = NoFile
  BY <1>1 DEF FilesSound, Fresh
<1>4. SameLive
  BY <1>1, <1>2, <1>3 DEF SameLive, Live
<1>5. NewestSound' /\ OlderSound'
  BY <1>4, FilesKept DEF FilesSound
<1>6. Fresh'
  BY <1>1, <1>2 DEF FilesSound, Fresh, ID
<1>7. NewestSettled'
  <2>1. Live # {} => db[Newest] = Whole(want[Newest])
    BY <1>2 DEF FilesSound, NewestSettled, Halfway
  <2>2. Live' # {} => db'[Newest'] = Whole(want'[Newest'])
    BY <1>4, <2>1, LiveKept DEF SameLive, Whole
  <2> QED BY <2>2 DEF NewestSettled, Whole
<1>8. \A u \in Writers \ {w} : Stage(sink[u])'
  BY <1>1, <1>2, IdleStage DEF Create
<1>9. Stage(sink[w])'
  <2>1. sink'[w].pc = "open" /\ sink'[w].id = used + 1 /\ sink'[w].kind = "empty"
    BY <1>1 DEF Create, NoSink
  <2> QED BY <1>1, <1>2, <1>3, <2>1 DEF Stage, GivenData
<1> QED BY <1>5, <1>6, <1>7, <1>8, <1>9 DEF FilesSound

\* Sink.Write: what is written goes to the sink's own temporary directory.
LEMMA WriteSound ==
    ASSUME Inv, Inv', FilesSound, NEW w \in Writers, AnyWrite(w)
    PROVE  FilesSound'
<1>0. sink \in [Writers -> SinkState] /\ sink[w].id \in ID /\ sink[w].pc = "open"
  BY DEF Inv, TypeOK, Phases, PhaseOf, AnyWrite
<1>1. PICK kind, img :
        /\ Write(w, kind, img)
        /\ \/ kind = "db" /\ img = Whole(want[sink[w].id])
           \/ /\ kind = "wal"
              /\ \E b \in Version : /\ img = <<b, want[sink[w].id]>>
                                    /\ Completes(b, want[sink[w].id], sink[w].id)
  BY DEF AnyWrite
<1>2. UNCHANGED <<dir, db, wal, idx, want, used>>
  BY <1>1 DEF Write, disk, named
<1>3. SameLive /\ Fresh'
  BY <1>2 DEF SameLive, Live, FilesSound, Fresh
<1>4. /\ sink'[w].pc = "open" /\ sink'[w].id = sink[w].id
      /\ sink'[w].kind = kind /\ sink'[w].img = img
      /\ \A v \in Writers \ {w} : sink'[v] = sink[v]
  BY <1>0, <1>1 DEF Write, SinkState
<1>5. GivenData(sink[w])'
  <2>1. Live # {} => Newest' = Newest /\ Live' = Live
    BY <1>3, LiveKept DEF SameLive
  <2> QED BY <1>1, <1>2, <1>4, <2>1 DEF GivenData, Completes, Less, Whole
<1>6. Stage(sink[w])'
  BY <1>0, <1>2, <1>4, <1>5 DEF Stage, FilesSound
<1> QED BY <1>0, <1>3, <1>4, <1>6, SinkStepSound DEF Halfway

\* Sink.Close up to the rename: the files are still temporary.
LEMMA CloseSound ==
    ASSUME Inv, Inv', FilesSound, NEW w \in Writers, AnyClose(w)
    PROVE  FilesSound'
<1>1. UNCHANGED <<dir, db, wal, idx, want, used>> /\ sink[w].pc = "open" /\ Goto(w, "process")
  BY DEF AnyClose, CloseSink, named
<1>2. SameLive /\ Fresh'
  BY <1>1 DEF SameLive, Live, FilesSound, Fresh
<1>3. /\ sink'[w].pc = "process" /\ sink'[w].id = sink[w].id /\ sink'[w].kind = sink[w].kind
      /\ sink'[w].img = sink[w].img
      /\ \A v \in Writers \ {w} : sink'[v] = sink[v]
  BY <1>1, GotoKeeps DEF SinkPC
<1>4. Live # {} => Newest' = Newest /\ Live' = Live
  BY <1>2, LiveKept DEF SameLive
<1>5. GivenData(sink[w]) /\ (Live # {} /\ sink[w].kind = "empty" /\ Less(Newest, sink[w].id)
                               => want[Newest] = want[sink[w].id])
  BY <1>1 DEF AnyClose, FilesSound, Stage
<1>6. GivenData(sink[w])'
  <2>1. CASE Live = {}
    BY <1>1, <1>2, <1>3, <1>5, <2>1 DEF GivenData, Completes, Whole, SameLive
  <2>2. CASE Live # {}
    BY <1>1, <1>3, <1>4, <1>5, <2>2 DEF GivenData, Completes, Less, Whole
  <2> QED BY <2>1, <2>2
<1>7. Stage(sink[w])'
  BY <1>1, <1>3, <1>6 DEF Stage, FilesSound
<1> QED BY <1>1, <1>2, <1>3, <1>7, SinkStepSound DEF Halfway

\* processSnapshotData finds that the snapshot is newer than those there are.
LEMMA ProcessSound ==
    ASSUME Inv, Inv', FilesSound, NEW w \in Writers, ProcessSnapshotData(w)
    PROVE  FilesSound'
<1>1. UNCHANGED <<dir, db, wal, idx, want, used>> /\ sink[w].pc = "process"
  BY DEF ProcessSnapshotData, disk, named
<1>2. SameLive /\ Fresh'
  BY <1>1 DEF SameLive, Live, FilesSound, Fresh
<1>3. PICK p \in {"rename", "abort"} :
        Goto(w, p) /\ (p = "rename" => Acceptable(sink[w].id, sink[w].kind))
  BY DEF ProcessSnapshotData
<1>4. /\ sink'[w].pc = p /\ sink'[w].id = sink[w].id /\ sink'[w].kind = sink[w].kind
      /\ sink'[w].img = sink[w].img
      /\ \A v \in Writers \ {w} : sink'[v] = sink[v]
  BY <1>3, GotoKeeps DEF SinkPC
<1>5. Live # {} => Newest' = Newest /\ Live' = Live
  BY <1>2, LiveKept DEF SameLive
<1>6. GivenData(sink[w])'
  BY <1>1, <1>2, <1>4, GivenKept DEF FilesSound, Stage
<1>7. p = "rename" => /\ Live' # {} => Less(Newest, sink[w].id)'
                      /\ Live' = {} => sink'[w].kind = "db"
  BY <1>1, <1>2, <1>3, <1>4, <1>5 DEF Acceptable, Less, SameLive
<1>8. Stage(sink[w])'
  BY <1>1, <1>4, <1>6, <1>7 DEF Stage, FilesSound
<1> QED BY <1>1, <1>2, <1>4, <1>8, SinkStepSound DEF Halfway

\* Sink.Close renames the temporary file; the directory is still temporary.
LEMMA RenameSound ==
    ASSUME Inv, Inv', FilesSound, NEW w \in Writers, RenameData(w)
    PROVE  FilesSound'
<1>1. /\ UNCHANGED <<dir, idx, want, used>> /\ sink[w].pc = "rename" /\ Goto(w, "commit")
      /\ sink[w].id \in ID /\ dir[sink[w].id] = "tmp" /\ sink[w].id = used
  BY DEF RenameData, named, Inv, Phases, PhaseOf, FilesSound, Stage
<1>2. \A i \in ID \ {sink[w].id} : db'[i] = db[i] /\ wal'[i] = wal[i]
  BY DEF RenameData, Inv, TypeOK
<1>3. /\ db'[sink[w].id] = (IF sink[w].kind = "db" THEN sink[w].img ELSE NoFile)
      /\ wal'[sink[w].id] = (IF sink[w].kind = "wal" THEN sink[w].img ELSE NoFile)
  BY <1>1 DEF RenameData, Inv, TypeOK, FilesSound, Stage
<1>4. SameLive
  BY <1>1, <1>2 DEF SameLive, Live
<1>5. Fresh'
  <2>1. used \in Nat
    BY SnapshotBounds DEF Inv, TypeOK
  <2> QED BY <1>1, <1>2, <2>1 DEF FilesSound, Fresh
<1>6. /\ sink'[w].pc = "commit" /\ sink'[w].id = sink[w].id /\ sink'[w].kind = sink[w].kind
      /\ sink'[w].img = sink[w].img
      /\ \A v \in Writers \ {w} : sink'[v] = sink[v]
  BY <1>1, GotoKeeps DEF SinkPC
<1>7. GivenData(sink[w])'
  BY <1>1, <1>4, <1>6, GivenKept DEF FilesSound, Stage
<1>8. Live # {} => Newest' = Newest /\ Live' = Live
  BY <1>4, LiveKept DEF SameLive
<1>9. /\ Live' # {} => Less(Newest, sink[w].id)'
      /\ Live' = {} => sink'[w].kind = "db"
  BY <1>1, <1>4, <1>6, <1>8 DEF FilesSound, Stage, Less, SameLive
<1>10. Stage(sink[w])'
  BY <1>1, <1>3, <1>6, <1>7, <1>9 DEF Stage, FilesSound
<1> QED BY <1>1, <1>4, <1>5, <1>6, <1>10, SinkStepSound DEF Halfway

\* The steps after the snapshot has its database, and those that give up.
LEMMA LateSound ==
    ASSUME Inv, Inv', FilesSound, NEW w \in Writers,
           \/ UpdateMetaSize(w) \/ UnsetFullNeeded(w) \/ CloseOK(w)
           \/ AnyCancel(w) \/ Abort(w) \/ CloseFailed(w)
    PROVE  FilesSound'
<1>1. sink[w].pc \notin Halfway \cup {"idle"} /\ UNCHANGED <<idx, want, used>>
  BY DEF UpdateMetaSize, UnsetFullNeeded, CloseOK, AnyCancel, Abort, CloseFailed, named, Halfway
<1>2. \A i \in ID : \/ dir[i] = "tmp" /\ dir'[i] \in {"tmp", "none"}
                       /\ db'[i] \in {db[i], NoFile} /\ wal'[i] \in {wal[i], NoFile}
                    \/ dir'[i] = dir[i] /\ db'[i] = db[i] /\ wal'[i] = wal[i]
  BY DEF UpdateMetaSize, UnsetFullNeeded, CloseOK, AnyCancel, Abort, CloseFailed, disk,
         RemoveTmpFiles, RemoveTmpDirs, Tmp
<1>3. SameLive
  BY <1>1, <1>2 DEF SameLive, Live
<1>4. Fresh'
  BY <1>1, <1>2 DEF FilesSound, Fresh
<1>5. /\ sink'[w].pc \in {"idle", "resize", "unset", "reap", "aborted"}
      /\ sink'[w].pc # "idle" => sink'[w].id = sink[w].id
      /\ \A v \in Writers \ {w} : sink'[v] = sink[v]
  BY Blank DEF UpdateMetaSize, UnsetFullNeeded, CloseOK, AnyCancel, Abort, CloseFailed, Goto,
               Inv, TypeOK, SinkState
<1>6. Stage(sink[w])'
  BY <1>1, <1>5 DEF Stage, FilesSound
<1> QED BY <1>1, <1>3, <1>4, <1>5, <1>6, SinkStepSound DEF Halfway

\* An I/O error, outside the stages that must not meet one.
LEMMA ErrorSound ==
    ASSUME ErrorsElsewhere, Inv, Inv', FilesSound, NEW w \in Writers, IOError(w)
    PROVE  FilesSound'
<1>1. sink[w].pc \notin Halfway \cup {"idle"} /\ UNCHANGED <<dir, db, wal, idx, want, used>>
  BY DEF IOError, disk, named, ErrorsElsewhere
<1>2. SameLive /\ Fresh'
  BY <1>1 DEF SameLive, Live, FilesSound, Fresh
<1>3. /\ sink'[w].pc \in {"idle", "abort"}
      /\ sink'[w].pc # "idle" => sink'[w].id = sink[w].id
      /\ \A v \in Writers \ {w} : sink'[v] = sink[v]
  BY Blank DEF IOError, Goto, Inv, TypeOK, SinkState
<1>4. Stage(sink[w])'
  BY <1>1, <1>3 DEF Stage, FilesSound
<1> QED BY <1>1, <1>2, <1>3, <1>4, SinkStepSound DEF Halfway

----------------------------------------------------------------------------
(* The steps that change live snapshots.                                   *)

\* A step that leaves the directories and indexes alone.
LEMMA SameOrder ==
    ASSUME UNCHANGED <<dir, idx>>
    PROVE  Live' = Live /\ Newest' = Newest /\ Prev(Newest)' = Prev(Newest)
<1>1. Live' = Live /\ Newest' = Newest
  BY SameNewest
<1> QED BY <1>1, NewestIsBy, NewestIsByNext

\* The newest of several live snapshots and the one before it.
LEMMA TwoNewest ==
    ASSUME Inv, Live # {}
    PROVE  /\ Newest \in Live /\ Newest \in ID
           /\ want[Newest] \in Nat
           /\ Live # {Newest} => /\ Prev(Newest) \in Live \ {Newest} /\ Prev(Newest) \in ID
                                 /\ want[Prev(Newest)] \in Nat
<1>1. Newest \in Live
  BY NewestIn, LiveIDs DEF Newest, Inv
<1>2. Live # {Newest} => Prev(Newest) \in Live \ {Newest}
  BY <1>1, NewestIn, LiveIDs DEF Prev, Inv
<1> QED BY <1>1, <1>2, LiveIDs, SnapshotBounds DEF Inv, TypeOK, Version

\* What is live has been given out.
LEMMA LiveIsUsed ==
    ASSUME Inv, Fresh, NEW i \in Live
    PROVE  i \in ID /\ i <= used
<1>1. i \in ID /\ dir[i] = "live"
  BY DEF Live
<1>2. i \in Nat /\ used \in Nat
  BY <1>1, SnapshotBounds DEF Inv, TypeOK, ID
<1> QED BY <1>1, <1>2 DEF Fresh

\* The rename of the previous database, in Close or in check().
LEMMA MoveSound ==
    ASSUME Inv, Inv', FilesSound, Live # {}, Live # {Newest},
           Inherits(Newest, Prev(Newest)), MoveDB(Prev(Newest), Newest),
           UNCHANGED <<dir, wal, idx, want, used>>
    PROVE  /\ Fresh' /\ NewestSound' /\ OlderSound'
           /\ wal[Newest] = NoFile => db'[Newest] = Whole(want[Newest])
           /\ wal[Newest] # NoFile => Completed(Newest)'
<1>1. Live' = Live /\ Newest' = Newest /\ Prev(Newest)' = Prev(Newest)
  BY SameOrder
<1>2. PICK n, p : n = Newest /\ p = Prev(Newest)
  OBVIOUS
<1>3. n \in Live /\ p \in Live /\ n \in ID /\ p \in ID /\ p # n
      /\ want[n] \in Nat /\ want[p] \in Nat
  BY <1>2, TwoNewest
<1>4. /\ db'[n] = Whole(want[p]) /\ db'[p] = NoFile
      /\ \A i \in ID \ {n, p} : db'[i] = db[i]
  BY <1>2, <1>3 DEF MoveDB, Inherits, Inv, TypeOK
<1>5. \/ wal[n] = NoFile /\ want[n] = want[p]
      \/ \E b \in Version : wal[n] = <<b, want[n]>> /\ b <= want[p] /\ want[p] <= want[n]
  BY <1>2 DEF Inherits
<1>6. wal[n] = NoFile => db'[n] = Whole(want[n]) /\ Own(n)'
  BY <1>4, <1>5 DEF Own, NoFile
<1>7. wal[n] # NoFile => Completed(n)'
  <2> SUFFICES ASSUME wal[n] # NoFile PROVE Completed(n)'
    OBVIOUS
  <2>1. PICK b \in Version : wal[n] = <<b, want[n]>> /\ b <= want[p] /\ want[p] <= want[n]
    BY <1>5
  <2>2. want[n] \in Version /\ want[p] \in Version
    BY <1>3 DEF Inv, TypeOK
  <2>3. db'[n] \in Image /\ wal[n] \in Image
    BY <1>4, <2>1, <2>2 DEF Image, Whole
  <2>4. Covered(db'[n], wal[n], want[n])
    BY <1>3, <1>4, <2>1 DEF Covered, Whole
  <2> QED BY <2>3, <2>4 DEF Completed
<1>8. NewestSound'
  BY <1>1, <1>2, <1>6, <1>7 DEF NewestSound
<1>9. OlderSound'
  <2>1. \A i \in Live \ {n} : db'[i] \in {NoFile, Whole(want[i])}
    BY <1>2, <1>3, <1>4, LiveIDs DEF FilesSound, OlderSound
  <2> QED BY <1>1, <1>2, <2>1 DEF OlderSound, Whole
<1>10. Fresh'
  <2>1. n <= used /\ p <= used /\ n \in Nat /\ p \in Nat /\ used \in Nat
    BY <1>3, LiveIsUsed, SnapshotBounds DEF FilesSound, Inv, TypeOK, ID
  <2> QED BY <1>4, <2>1 DEF FilesSound, Fresh
<1> QED BY <1>1, <1>2, <1>6, <1>7, <1>8, <1>9, <1>10

\* The checkpoint: some pages, then all, then the WAL goes.
LEMMA ReplaySound ==
    ASSUME Inv, Inv', FilesSound, Live # {}, NEW n, n = Newest,
           \/ Completed(n) /\ UNCHANGED wal /\ (ReplaySome(n) \/ ReplayAll(n))
           \/ db[n] = Whole(want[n]) /\ UNCHANGED db /\ UnlinkWAL(n),
           UNCHANGED <<dir, idx, want, used>>
    PROVE  /\ Fresh' /\ NewestSound' /\ OlderSound'
           /\ ReplayAll(n) \/ UnlinkWAL(n) => db'[n] = Whole(want[n])
<1>1. Live' = Live /\ Newest' = n
  BY SameOrder
<1>2. n \in Live /\ n \in ID /\ want[n] \in Nat
  BY TwoNewest
<1>3. /\ db \in [ID -> File] /\ wal \in [ID -> File]
      /\ \A i \in ID \ {n} : db'[i] = db[i] /\ wal'[i] = wal[i]
  BY <1>2 DEF ReplaySome, ReplayAll, UnlinkWAL, Inv, TypeOK
<1>4. Completed(n) => /\ Replay(db[n], wal[n]) = Whole(want[n])
                      /\ Covered(Mixed(db[n], wal[n]), wal[n], want[n])
                      /\ Covered(Whole(want[n]), wal[n], want[n])
                      /\ Mixed(db[n], wal[n]) \in Image /\ Whole(want[n]) \in Image
  <2> SUFFICES ASSUME Completed(n)
               PROVE  /\ Replay(db[n], wal[n]) = Whole(want[n])
                      /\ Covered(Mixed(db[n], wal[n]), wal[n], want[n])
                      /\ Covered(Whole(want[n]), wal[n], want[n])
                      /\ Mixed(db[n], wal[n]) \in Image /\ Whole(want[n]) \in Image
    OBVIOUS
  <2>1. PICK d \in Image, x \in Image : d = db[n] /\ x = wal[n]
    BY DEF Completed
  <2>2. Covered(d, x, want[n])
    BY <2>1 DEF Completed
  <2>3. d[1] \in Nat /\ d[2] \in Nat /\ x[1] \in Nat /\ x[2] \in Nat
    BY SnapshotBounds DEF Image, Version
  <2>4. Replay(d, x) = Whole(want[n])
    BY <2>2, <2>3 DEF Replay, Covered, Whole
  <2>5. Covered(Mixed(d, x), x, want[n])
    BY <2>2, <2>3 DEF Mixed, Covered
  <2>6. Covered(Whole(want[n]), x, want[n])
    BY <2>2, <2>3 DEF Covered, Whole
  <2>7. Mixed(d, x) \in Image /\ Whole(want[n]) \in Image
    BY <1>2, Images DEF Inv, TypeOK
  <2> QED BY <2>1, <2>4, <2>5, <2>6, <2>7
<1>5. Completed(n) /\ UNCHANGED wal /\ ReplaySome(n) => Completed(n)'
  BY <1>2, <1>3, <1>4 DEF ReplaySome, Completed
<1>6. Completed(n) /\ UNCHANGED wal /\ ReplayAll(n) => Completed(n)' /\ db'[n] = Whole(want[n])
  BY <1>2, <1>3, <1>4 DEF ReplayAll, Completed
<1>7. db[n] = Whole(want[n]) /\ UNCHANGED db /\ UnlinkWAL(n) => Own(n)' /\ db'[n] = Whole(want[n])
  BY <1>2, <1>3 DEF UnlinkWAL, Own, Whole
<1>8. ReplayAll(n) \/ UnlinkWAL(n) => db'[n] = Whole(want[n])
  <2>1. ReplayAll(n) /\ Completed(n) => db'[n] = Whole(want[n])
    BY <1>2, <1>3, <1>4 DEF ReplayAll
  <2>2. Completed(n) => wal[n] # NoFile
    BY Images DEF Completed
  <2>3. UnlinkWAL(n) => wal'[n] = NoFile
    BY <1>2, <1>3 DEF UnlinkWAL
  <2>4. CASE Completed(n) /\ UNCHANGED wal
    BY <2>1, <2>2, <2>3, <2>4
  <2>5. CASE db[n] = Whole(want[n]) /\ UNCHANGED db
    BY <2>5
  <2> QED BY <2>4, <2>5
<1>9. Live = {n} => db'[n] = Whole(want[n])
  <2> SUFFICES ASSUME Live = {n} PROVE db'[n] = Whole(want[n])
    OBVIOUS
  <2>1. db[n] = Whole(want[n])
    BY DEF FilesSound, NewestSound
  <2>2. Completed(n) => Mixed(db[n], wal[n]) = Whole(want[n])
    <3> SUFFICES ASSUME Completed(n) PROVE Mixed(db[n], wal[n]) = Whole(want[n])
      OBVIOUS
    <3>1. PICK x \in Image : x = wal[n]
      BY DEF Completed
    <3>2. x[2] = want[n]
      BY <3>1 DEF Completed, Covered
    <3> QED BY <1>2, <2>1, <3>1, <3>2 DEF Mixed, Whole
  <2>3. Completed(n) /\ ReplaySome(n) => db'[n] = Whole(want[n])
    BY <1>2, <1>3, <2>2 DEF ReplaySome
  <2> QED BY <1>6, <1>7, <2>3
<1>10. NewestSound'
  BY <1>1, <1>5, <1>6, <1>7, <1>9 DEF NewestSound, Whole
<1>11. OlderSound'
  BY <1>1, <1>3, LiveIDs DEF FilesSound, OlderSound, Whole
<1>12. Fresh'
  <2>1. n <= used /\ n \in Nat /\ used \in Nat
    BY <1>2, LiveIsUsed, SnapshotBounds DEF FilesSound, Inv, TypeOK, ID
  <2> QED BY <1>3, <2>1 DEF FilesSound, Fresh
<1> QED BY <1>8, <1>10, <1>11, <1>12

\* A step of the thread inside the Sink that changes live snapshots.
LEMMA SinkChangeSound ==
    ASSUME Inv, Inv', NEW w \in Writers, sink[w].pc # "idle",
           \A v \in Writers \ {w} : sink'[v] = sink[v],
           Fresh', NewestSound', OlderSound', UNCHANGED status,
           sink'[w].pc \notin Halfway => db'[Newest'] = Whole(want'[Newest']),
           Stage(sink[w])'
    PROVE  FilesSound'
<1>1. status = "up" /\ \A v \in Writers \ {w} : sink'[v].pc = "idle"
  BY OneSink
<1>2. \A v \in Writers : Stage(sink[v])'
  BY <1>1, IdleStage
<1>3. NewestSettled'
  BY <1>1 DEF NewestSettled, Whole
<1> QED BY <1>2, <1>3 DEF FilesSound

\* The directory is renamed: the new snapshot is the newest.
LEMMA CommitSound ==
    ASSUME Inv, Inv', FilesSound, NEW w \in Writers, CommitDir(w)
    PROVE  FilesSound' /\ Newest' = sink[w].id /\ Live' = Live \cup {sink[w].id}
<1>1. PICK s \in SinkState : s = sink[w]
  BY DEF Inv, TypeOK
<1>2. /\ s.pc = "commit" /\ s.id \in ID /\ dir[s.id] = "tmp" /\ s.id = used
      /\ UNCHANGED <<db, wal, idx, want, used, status>> /\ dir' = [dir EXCEPT ![s.id] = "live"]
      /\ dir \in [ID -> {"none", "tmp", "live"}]
  BY <1>1 DEF CommitDir, named, Inv, TypeOK, Phases, PhaseOf, FilesSound, Stage
<1>3. Live' = Live \cup {s.id} /\ s.id \notin Live
  BY <1>2 DEF Live
<1>4. /\ Live # {} => Less(Newest, s.id)
      /\ Live = {} => s.kind = "db"
      /\ GivenData(s)
      /\ db[s.id] = (IF s.kind = "db" THEN s.img ELSE NoFile)
      /\ wal[s.id] = (IF s.kind = "wal" THEN s.img ELSE NoFile)
  BY <1>1, <1>2 DEF FilesSound, Stage
<1>5. NewestBy(idx, Live \cup {s.id}) = s.id
  <2>1. PICK f \in [ID -> Index] : f = idx
    BY DEF Inv, TypeOK
  <2>2. PICK S : S = Live
    OBVIOUS
  <2>3. S # {} => LET n == NewestBy(f, S) IN f[n] < f[s.id] \/ (f[n] = f[s.id] /\ n < s.id)
    BY <1>4, <2>1, <2>2, NewestIsBy DEF Less
  <2>4. S \subseteq ID /\ s.id \in ID \ S
    BY <1>2, <1>3, <2>2, LiveIDs
  <2>5. NewestBy(f, S \cup {s.id}) = s.id
    BY <2>3, <2>4, NewestByAdd
  <2> QED BY <2>1, <2>2, <2>5
<1>6. Newest' = s.id /\ NewestOf(Live \cup {s.id}) = s.id
  <2>1. Newest' = s.id
    BY <1>2, <1>3, <1>5, NewestIsByNext
  <2>2. NewestOf(Live \cup {s.id}) = NewestBy(idx, Live \cup {s.id})
    BY Zenon DEF NewestOf, NewestBy, Less
  <2> QED BY <1>5, <2>1, <2>2
<1>7. Live # {} => Prev(Newest)' = Newest
  BY <1>2, <1>3, <1>6, NewestIsBy, NewestIsByNext
<1>8. Live # {} => db[Newest] = Whole(want[Newest]) /\ Newest \in Live
  <2>1. status = "up" /\ \A v \in Writers \ {w} : sink[v].pc = "idle"
    BY <1>1, <1>2 DEF Inv, LockDiscipline
  <2>2. \A v \in Writers : sink[v].pc \notin Halfway
    BY <1>1, <1>2, <2>1 DEF Halfway
  <2> QED BY <2>1, <2>2, TwoNewest DEF FilesSound, NewestSettled
<1>9. PICK p \in {"move", "size"} :
        /\ Goto(w, p)
        /\ p = "move" <=> Live # {} /\ (wal[s.id] # NoFile \/ s.kind = "empty")
  BY <1>1, <1>6 DEF CommitDir
<1>10. /\ sink'[w].pc = p /\ sink'[w].id = s.id
       /\ \A v \in Writers \ {w} : sink'[v] = sink[v]
  BY <1>1, <1>9, GotoKeeps DEF SinkPC
<1>11. s.kind \in {"empty", "db", "wal"}
  BY DEF SinkState
<1>12. CASE s.kind = "db"
  <2>1. db[s.id] = Whole(want[s.id]) /\ wal[s.id] = NoFile /\ p = "size"
    BY <1>4, <1>9, <1>12 DEF GivenData
  <2>2. Own(s.id)'
    BY <1>2, <2>1 DEF Own, Whole
  <2>3. NewestSound'
    BY <1>2, <1>6, <2>1, <2>2 DEF NewestSound, Whole
  <2>4. OlderSound'
    BY <1>2, <1>3, <1>6, <1>8 DEF FilesSound, OlderSound, Whole
  <2>5. Fresh'
    <3>1. used \in Nat
      BY SnapshotBounds DEF Inv, TypeOK
    <3> QED BY <1>2, <3>1 DEF FilesSound, Fresh
  <2>6. Stage(sink[w])'
    BY <1>2, <1>10, <2>1 DEF Stage
  <2>7. db'[Newest'] = Whole(want'[Newest'])
    BY <1>2, <1>6, <2>1 DEF Whole
  <2> QED BY <1>1, <1>2, <1>3, <1>6, <1>10, <2>3, <2>4, <2>5, <2>6, <2>7, SinkChangeSound
<1>13. CASE s.kind # "db"
  <2>1. Live # {} /\ db[s.id] = NoFile
    BY <1>4, <1>13
  <2>2. \/ wal[s.id] = NoFile /\ want[s.id] = want[Newest] /\ s.kind = "empty"
        \/ \E b \in Version : /\ wal[s.id] = <<b, want[s.id]>>
                               /\ b <= want[Newest] /\ want[Newest] <= want[s.id]
    BY <1>2, <1>4, <1>11, <1>13, <2>1 DEF GivenData, Completes
  <2>3. p = "move"
    <3>1. \A x, y : <<x, y>> # NoFile
      BY DEF NoFile
    <3>2. wal[s.id] # NoFile \/ s.kind = "empty"
      BY <2>2, <3>1
    <3> QED BY <1>9, <2>1, <3>2, Zenon
  <2>4. Inherits(Newest, Prev(Newest))'
    <3>1. db'[s.id] = NoFile /\ db'[Newest] = Whole(want'[Newest])
      BY <1>2, <1>8, <2>1 DEF Whole
    <3>2. \/ wal'[s.id] = NoFile /\ want'[s.id] = want'[Newest]
          \/ \E b \in Version : /\ wal'[s.id] = <<b, want'[s.id]>>
                                 /\ b <= want'[Newest] /\ want'[Newest] <= want'[s.id]
      BY <1>2, <2>2
    <3> QED BY <1>6, <1>7, <2>1, <3>1, <3>2 DEF Inherits
  <2>5. Live' # {Newest'}
    BY <1>3, <1>6, <1>8, <2>1
  <2>6. NewestSound'
    BY <2>4, <2>5 DEF NewestSound
  <2>7. OlderSound'
    BY <1>2, <1>3, <1>6, <1>8 DEF FilesSound, OlderSound, Whole
  <2>8. Fresh'
    <3>1. used \in Nat
      BY SnapshotBounds DEF Inv, TypeOK
    <3> QED BY <1>2, <3>1 DEF FilesSound, Fresh
  <2>9. Stage(sink[w])'
    BY <1>2, <1>10, <2>3, <2>4 DEF Stage
  <2> QED BY <1>1, <1>2, <1>3, <1>6, <1>10, <2>3, <2>6, <2>7, <2>8, <2>9, SinkChangeSound DEF Halfway
<1> QED BY <1>12, <1>13

\* The database of the previous snapshot is moved; it is always there.
LEMMA MovePrevSound ==
    ASSUME Inv, Inv', FilesSound, NEW w \in Writers, MovePrev(w)
    PROVE  FilesSound'
<1>1. /\ sink[w].pc = "move" /\ UNCHANGED <<dir, wal, idx, want, used, status>>
      /\ Live # {} /\ Live # {Newest} /\ Inherits(Newest, Prev(Newest))
      /\ sink[w].id = used
  BY DEF MovePrev, named, Inv, Phases, PhaseOf, FilesSound, Stage
<1>2. db[Prev(Newest)] # NoFile
  BY <1>1 DEF Inherits, NoFile, Whole
<1>3. /\ MoveDB(Prev(Newest), Newest)
      /\ Goto(w, IF wal[Newest] = NoFile THEN "size" ELSE "replay")
  BY <1>2 DEF MovePrev
<1>4. /\ Fresh' /\ NewestSound' /\ OlderSound'
      /\ wal[Newest] = NoFile => db'[Newest] = Whole(want[Newest])
  BY <1>1, <1>3, MoveSound
<1>5. Newest' = Newest
  BY <1>1, SameOrder
<1>6. PICK p \in {"size", "replay"} : Goto(w, p) /\ (p = "size" => wal[Newest] = NoFile)
  BY <1>3
<1>7. /\ sink'[w].pc = p /\ sink'[w].id = sink[w].id
      /\ \A v \in Writers \ {w} : sink'[v] = sink[v]
  BY <1>6, GotoKeeps DEF SinkPC
<1>8. p = "size" => db'[Newest'] = Whole(want'[Newest'])
  BY <1>1, <1>4, <1>5, <1>6 DEF Whole
<1>9. Stage(sink[w])'
  BY <1>1, <1>6, <1>7 DEF Stage
<1> QED BY <1>1, <1>4, <1>6, <1>7, <1>8, <1>9, SinkChangeSound DEF Halfway

\* The WAL of an incremental snapshot is checkpointed into the database file, in
\* steps, and then removed.
LEMMA CheckpointSound ==
    ASSUME Inv, Inv', FilesSound, NEW w \in Writers, CheckpointRemove(w)
    PROVE  FilesSound'
<1>1. UNCHANGED <<dir, idx, want, used, status>>
  BY DEF CheckpointRemove, named
<1>2. PICK n : n = Newest
  OBVIOUS
<1>3. PICK p \in {"replayed", "unlink", "size"} :
        /\ Goto(w, p) /\ sink[w].pc \in {"replay", "replayed", "unlink"}
        /\ p = "replayed" => sink[w].pc = "replay" /\ ReplaySome(n) /\ UNCHANGED wal
        /\ p = "unlink" => sink[w].pc = "replayed" /\ ReplayAll(n) /\ UNCHANGED wal
        /\ p = "size" => sink[w].pc = "unlink" /\ UnlinkWAL(n) /\ UNCHANGED db
  BY <1>2 DEF CheckpointRemove
<1>4. /\ sink'[w].pc = p /\ sink'[w].id = sink[w].id
      /\ \A v \in Writers \ {w} : sink'[v] = sink[v]
  BY <1>3, GotoKeeps DEF SinkPC
<1>5. status = "up" /\ \A v \in Writers \ {w} : sink[v].pc = "idle"
  BY <1>3, <1>4, OneSink
<1>6. CASE Live = {}
  <2>1. p = "size"
    BY <1>3, <1>6 DEF Inv, Phases, PhaseOf, Replayable
  <2>2. Live' = {} /\ SameLive
    BY <1>1, <1>6, SameOrder DEF SameLive
  <2>3. Fresh'
    BY <1>1, <1>3, <2>1 DEF UnlinkWAL, FilesSound, Fresh, Inv, TypeOK
  <2>4. Stage(sink[w])'
    BY <1>1, <1>3, <1>4, <2>1 DEF Stage, FilesSound
  <2> QED BY <1>3, <1>4, <2>1, <2>2, <2>3, <2>4, SinkStepSound DEF Halfway
<1>7. CASE Live # {}
  <2>1. p # "size" => Completed(n)
    <3>1. p # "size" => db[n] # NoFile /\ wal[n] # NoFile
      BY <1>2, <1>3 DEF Inv, Phases, PhaseOf, Replayable
    <3> QED BY <1>2, <1>7, <3>1 DEF FilesSound, NewestSound, Own, Inherits
  <2>2. p = "size" => db[n] = Whole(want[n])
    <3>1. p = "size" => \A v \in Writers : sink[v].pc \notin Halfway
      BY <1>3, <1>5 DEF Halfway
    <3> QED BY <1>2, <1>5, <1>7, <3>1 DEF FilesSound, NewestSettled
  <2>3. /\ Fresh' /\ NewestSound' /\ OlderSound'
        /\ ReplayAll(n) \/ UnlinkWAL(n) => db'[n] = Whole(want[n])
    BY <1>1, <1>2, <1>3, <1>7, <2>1, <2>2, ReplaySound
  <2>4. Newest' = n
    BY <1>1, <1>2, SameOrder
  <2>5. p # "replayed" => db'[Newest'] = Whole(want'[Newest'])
    BY <1>1, <1>3, <2>3, <2>4 DEF Whole
  <2>6. Stage(sink[w])'
    BY <1>1, <1>3, <1>4 DEF Stage, FilesSound
  <2> QED BY <1>1, <1>3, <1>4, <2>3, <2>5, <2>6, SinkChangeSound DEF Halfway
<1> QED BY <1>6, <1>7

\* Reap takes the oldest snapshot, which is not the newest, out of the directory
\* before it removes the files.
LEMMA ReapSound ==
    ASSUME Inv, Inv', FilesSound, NEW w \in Writers, ReapOne(w)
    PROVE  FilesSound'
<1>1. UNCHANGED <<idx, want, used, status>> /\ sink[w].pc \in {"reap", "rmdir", "rmdata"}
  BY DEF ReapOne, named
<1>2. /\ sink'[w].id = sink[w].id
      /\ \A v \in Writers \ {w} : sink'[v] = sink[v]
  BY DEF ReapOne, Goto, Inv, TypeOK, SinkState
<1>3. sink[w].id = used
  BY <1>1 DEF FilesSound, Stage
<1>4. CASE sink[w].pc = "reap"
  <2>1. /\ UNCHANGED <<dir, db, wal>> /\ Cardinality(Live) > 1
        /\ sink'[w].pc = "rmdir" /\ sink'[w].victim = OldestOf(Live)
    BY <1>4 DEF ReapOne, Inv, TypeOK, SinkState
  <2>2. Live # {} /\ Live # {Newest}
    BY <2>1, ManyLive
  <2>3. OldestOf(Live) \in Live /\ OldestOf(Live) # Newest
    <3>1. \E n \in Live : \A m \in Live \ {n} : Less(n, m)
      BY <2>2, FirstExists, LiveIDs DEF Less, Inv, TypeOK
    <3>2. /\ OldestOf(Live) \in Live
          /\ \A m \in Live \ {OldestOf(Live)} : Less(OldestOf(Live), m)
      BY <3>1 DEF OldestOf
    <3>3. /\ Newest \in Live
          /\ \A m \in Live \ {Newest} : Less(m, Newest)
      BY <2>2, NewestIn, LiveIDs DEF Newest, Inv
    <3>4. PICK m \in Live : m # Newest
      BY <2>2, <3>3
    <3>5. Less(m, Newest)
      BY <3>3, <3>4
    <3>6. ~Less(Newest, m)
      BY <3>3, <3>4, <3>5, LiveIDs, SnapshotBounds DEF Less, Inv, TypeOK, Index, ID
    <3> QED BY <3>2, <3>4, <3>6
  <2>4. SameLive /\ Fresh'
    BY <1>1, <2>1 DEF SameLive, Live, FilesSound, Fresh
  <2>5. Live' = Live /\ Newest' = Newest
    BY <1>1, <2>1, SameOrder
  <2>6. Stage(sink[w])'
    BY <1>1, <1>2, <1>3, <2>1, <2>3, <2>5 DEF Stage
  <2> QED BY <1>2, <1>4, <2>1, <2>4, <2>6, SinkStepSound DEF Halfway
<1>5. CASE sink[w].pc = "rmdir"
  <2>1. PICK v : v = sink[w].victim
    OBVIOUS
  <2>2. /\ v \in Live /\ v # Newest /\ v \in ID /\ UNCHANGED <<db, wal>>
        /\ dir' = [dir EXCEPT ![v] = "none"] /\ sink'[w].pc = "rmdata" /\ sink'[w].victim = v
    BY <1>5, <2>1, LiveIDs DEF ReapOne, Goto, Inv, TypeOK, SinkState, FilesSound, Stage
  <2>3. Live' = Live \ {v}
    BY <2>2 DEF Live, Inv, TypeOK
  <2>4. Newest' = Newest
    <3>1. PICK f \in [ID -> Index] : f = idx
      BY DEF Inv, TypeOK
    <3>2. PICK S : S = Live
      OBVIOUS
    <3>3. v \in S /\ v # NewestBy(f, S) /\ S \subseteq ID
      BY <2>2, <3>1, <3>2, NewestIsBy, LiveIDs
    <3>4. NewestBy(f, S \ {v}) = NewestBy(f, S)
      BY <3>3, NewestByRemove
    <3> QED BY <1>1, <2>3, <3>1, <3>2, <3>4, NewestIsBy, NewestIsByNext
  <2>5. db[Newest] = Whole(want[Newest])
    <3>1. status = "up" /\ \A u \in Writers \ {w} : sink[u].pc = "idle"
      BY <1>2, <1>5, OneSink
    <3>2. \A u \in Writers : sink[u].pc \notin Halfway
      BY <1>5, <3>1 DEF Halfway
    <3> QED BY <2>2, <3>1, <3>2 DEF FilesSound, NewestSettled
  <2>6. Own(Newest) \/ Completed(Newest)
    BY <2>2, <2>5 DEF FilesSound, NewestSound, Inherits, NoFile, Whole
  <2>7. NewestSound'
    <3>1. /\ Own(Newest) => Own(Newest)'
          /\ Completed(Newest) => Completed(Newest)'
      BY <1>1, <2>2, <2>4 DEF Own, Completed, Whole
    <3>2. db'[Newest'] = Whole(want'[Newest'])
      BY <1>1, <2>2, <2>4, <2>5 DEF Whole
    <3> QED BY <2>6, <3>1, <3>2 DEF NewestSound, Whole
  <2>8. OlderSound'
    BY <1>1, <2>2, <2>3, <2>4 DEF FilesSound, OlderSound, Whole
  <2>9. Fresh'
    BY <1>1, <2>2 DEF FilesSound, Fresh, Inv, TypeOK
  <2>10. Stage(sink[w])'
    BY <1>1, <1>2, <1>3, <2>2, <2>3 DEF Stage
  <2>11. db'[Newest'] = Whole(want'[Newest'])
    BY <1>1, <2>2, <2>4, <2>5 DEF Whole
  <2> QED BY <1>1, <1>2, <1>5, <2>7, <2>8, <2>9, <2>10, <2>11, SinkChangeSound
<1>6. CASE sink[w].pc = "rmdata"
  <2>1. PICK v : v = sink[w].victim
    OBVIOUS
  <2>2. /\ v \in ID \ Live /\ UNCHANGED dir
        /\ db' = [db EXCEPT ![v] = NoFile] /\ wal' = [wal EXCEPT ![v] = NoFile]
        /\ sink'[w].pc = "reap"
    BY <1>6, <2>1 DEF ReapOne, Goto, UnlinkWAL, Inv, TypeOK, SinkState, FilesSound, Stage
  <2>3. SameLive
    BY <1>1, <2>2 DEF SameLive, Live, Inv, TypeOK
  <2>4. Fresh'
    BY <1>1, <2>2 DEF FilesSound, Fresh, Inv, TypeOK
  <2>5. Stage(sink[w])'
    BY <1>1, <1>2, <1>3, <2>2 DEF Stage
  <2> QED BY <1>2, <1>6, <2>2, <2>3, <2>4, <2>5, SinkStepSound DEF Halfway
<1> QED BY <1>1, <1>4, <1>5, <1>6

\* Readers, requests for a full snapshot, and a crash touch no file.
LEMMA OutsideSound ==
    ASSUME Inv, Inv', FilesSound,
           \/ \E r \in Readers : List(r) \/ Open(r) \/ CloseSnapshot(r)
           \/ SetFullNeeded \/ Crash \/ UNCHANGED vars
    PROVE  FilesSound'
<1>1. /\ UNCHANGED <<dir, db, wal, idx, want, used>>
      /\ \/ UNCHANGED <<sink, status>>
         \/ status' = "down" /\ \A w \in Writers : sink'[w].pc = "idle"
  BY Blank DEF List, Open, CloseSnapshot, SetFullNeeded, Crash, vars, disk, named
<1>2. Live' = Live /\ Newest' = Newest /\ Prev(Newest)' = Prev(Newest)
  BY <1>1, SameOrder
<1>3. SameLive /\ Fresh'
  BY <1>1, <1>2 DEF SameLive, FilesSound, Fresh
<1>4. NewestSound' /\ OlderSound'
  BY <1>3, FilesKept DEF FilesSound
<1>5. NewestSettled'
  BY <1>1, <1>2 DEF FilesSound, NewestSettled, Whole
<1>6. ASSUME NEW w \in Writers
      PROVE  Stage(sink[w])'
  <2>1. CASE sink'[w].pc = "idle"
    BY <2>1, IdleStage
  <2>2. CASE UNCHANGED sink
    BY <1>1, <1>2, <2>2 DEF FilesSound, Stage, GivenData, Inherits, Less, Completes, Whole
  <2> QED BY <1>1, <2>1, <2>2
<1> QED BY <1>3, <1>4, <1>5, <1>6 DEF FilesSound

\* check(): what a crash has left becomes a snapshot with a database of its own,
\* and no data file is missing.
LEMMA CheckSound ==
    ASSUME Inv, Inv', FilesSound, Check
    PROVE  FilesSound' /\ (status' = "failed" => ~Readable')
<1>1. UNCHANGED <<idx, want, used, sink>> /\ status # "failed" /\ status # "up"
  BY DEF Check, Inspect, CheckReplay, CheckSize, named
<1>2. \A w \in Writers : sink'[w].pc = "idle"
  BY <1>1 DEF Inv, LockDiscipline
<1>3. \A w \in Writers : Stage(sink[w])'
  BY <1>2, IdleStage
<1>4. CASE status \in {"down", "cleaned"}
  <2>1. /\ status' \in {"cleaned", "inspect"}
        /\ \A i \in ID : \/ dir[i] = "tmp" /\ dir'[i] \in {"tmp", "none"}
                            /\ db'[i] \in {db[i], NoFile} /\ wal'[i] \in {wal[i], NoFile}
                         \/ dir'[i] = dir[i] /\ db'[i] = db[i] /\ wal'[i] = wal[i]
    BY <1>4 DEF Check, Inspect, CheckReplay, CheckSize, RemoveTmpFiles, RemoveTmpDirs, Tmp
  <2>2. SameLive
    BY <1>1, <2>1 DEF SameLive, Live
  <2>3. Fresh'
    BY <1>1, <2>1 DEF FilesSound, Fresh
  <2>4. NewestSound' /\ OlderSound'
    BY <2>2, FilesKept DEF FilesSound
  <2>5. NewestSettled'
    BY <2>1 DEF NewestSettled
  <2> QED BY <1>3, <2>1, <2>3, <2>4, <2>5 DEF FilesSound
<1>5. CASE Inspect /\ ~(Readable /\ Cardinality(Live) > 1 /\ db[Newest] = NoFile)
  <2>1. /\ UNCHANGED <<dir, meta, db, wal>> /\ status = "inspect"
        /\ status' \in {"failed", "up", "replay"}
    BY <1>5 DEF Inspect
  <2>2. SameLive /\ Fresh' /\ Live' = Live /\ Newest' = Newest
    BY <1>1, <1>5, <2>1, SameOrder DEF SameLive, FilesSound, Fresh
  <2>3. NewestSound' /\ OlderSound'
    BY <2>2, FilesKept DEF FilesSound
  <2>4. Cardinality(Live) = 1 => Live # {} /\ db[Newest] = Whole(want[Newest])
    <3> SUFFICES ASSUME Cardinality(Live) = 1
                 PROVE  Live # {} /\ db[Newest] = Whole(want[Newest])
      OBVIOUS
    <3>1. IsFiniteSet(Live)
      <4>1. IsFiniteSet(1..MaxSnapshots)
        BY FS_Interval, SnapshotBounds
      <4>2. Live \in SUBSET (1..MaxSnapshots)
        BY LiveIDs DEF ID
      <4> QED BY <4>1, <4>2, FS_Subset, Zenon
    <3>2. PICK x : Live = {x}
      BY <3>1, FS_Singleton
    <3>3. Newest \in Live
      BY <3>2, TwoNewest
    <3> QED BY <3>2, <3>3 DEF FilesSound, NewestSound
  <2>5. \A v : Whole(v) # NoFile
    BY DEF Whole, NoFile
  <2>6. Cardinality(Live) > 1 => Live # {} /\ Live # {Newest}
    BY ManyLive
  <2>8. Cardinality(Live) > 1 /\ db[Newest] # NoFile /\ wal[Newest] = NoFile
            => db[Newest] = Whole(want[Newest])
    BY <2>6, Images DEF FilesSound, NewestSound, Own, Completed, Inherits
  <2>10. status' = "failed" => ~Readable
    BY <1>5, <2>4, <2>5 DEF Inspect
  <2>11. status' = "up" => (Live # {} => db[Newest] = Whole(want[Newest]))
    BY <1>5, <2>4, <2>8 DEF Inspect
  <2>12. NewestSettled'
    BY <1>1, <1>5, <2>1, <2>2, <2>11 DEF NewestSettled, Whole
  <2>13. Readable' = Readable
    BY <2>1, <2>2 DEF Readable
  <2> QED BY <1>3, <2>2, <2>3, <2>10, <2>12, <2>13 DEF FilesSound
<1>6. CASE Inspect /\ Readable /\ Cardinality(Live) > 1 /\ db[Newest] = NoFile
  <2>1. Live # {} /\ Live # {Newest}
    BY <1>6, ManyLive
  <2>2. Inherits(Newest, Prev(Newest)) /\ db[Prev(Newest)] # NoFile
    <3>1. \A v : Whole(v) # NoFile
      BY DEF Whole, NoFile
    <3>2. ~Own(Newest) /\ ~Completed(Newest)
      BY <1>6, <3>1, Images DEF Own, Completed
    <3>3. Inherits(Newest, Prev(Newest))
      BY <2>1, <3>2 DEF FilesSound, NewestSound
    <3> QED BY <3>1, <3>3 DEF Inherits
  <2>3. /\ UNCHANGED <<dir, meta, wal>> /\ MoveDB(Prev(Newest), Newest)
        /\ status' = (IF wal[Newest] = NoFile THEN "size" ELSE "replay")
    <3>1. ~(Cardinality(Live) = 1)
      BY <1>6
    <3> QED BY <1>6, <2>1, <2>2, <3>1 DEF Inspect
  <2>4. /\ Fresh' /\ NewestSound' /\ OlderSound'
        /\ wal[Newest] = NoFile => db'[Newest] = Whole(want[Newest])
    BY <1>1, <2>1, <2>2, <2>3, MoveSound
  <2>5. Newest' = Newest
    BY <1>1, <2>3, SameOrder
  <2>6. NewestSettled'
    BY <1>1, <2>3, <2>4, <2>5 DEF NewestSettled, Whole
  <2> QED BY <1>3, <2>3, <2>4, <2>6 DEF FilesSound
<1>7. CASE CheckReplay
  <2>1. PICK n : n = Newest
    OBVIOUS
  <2>2. /\ UNCHANGED <<dir, meta>>
        /\ \/ status = "replay" /\ ReplaySome(n) /\ UNCHANGED wal /\ status' = "replayed"
           \/ status = "replayed" /\ ReplayAll(n) /\ UNCHANGED wal /\ status' = "unlink"
           \/ status = "unlink" /\ UnlinkWAL(n) /\ UNCHANGED db /\ status' \in {"size", "up"}
    BY <1>7, <2>1 DEF CheckReplay
  <2>3. Live' = Live /\ Newest' = n
    BY <1>1, <2>1, <2>2, SameOrder
  <2>4. CASE Live = {}
    <3>1. status = "unlink" /\ UnlinkWAL(n) /\ UNCHANGED db
      BY <2>2, <2>4 DEF Inv, Phases, Replayable
    <3>2. Fresh'
      BY <1>1, <2>2, <3>1 DEF UnlinkWAL, FilesSound, Fresh, Inv, TypeOK
    <3>3. NewestSound' /\ OlderSound' /\ NewestSettled'
      BY <2>3, <2>4 DEF NewestSound, OlderSound, NewestSettled
    <3> QED BY <1>3, <2>2, <3>2, <3>3 DEF FilesSound
  <2>5. CASE Live # {}
    <3>1. status \in {"replay", "replayed"} => Completed(n)
      <4>1. status \in {"replay", "replayed"} => db[n] # NoFile /\ wal[n] # NoFile
        BY <2>1 DEF Inv, Phases, Replayable
      <4> QED BY <2>1, <2>5, <4>1 DEF FilesSound, NewestSound, Own, Inherits
    <3>2. status = "unlink" => db[n] = Whole(want[n])
      BY <2>1, <2>5 DEF FilesSound, NewestSettled
    <3>3. /\ Fresh' /\ NewestSound' /\ OlderSound'
          /\ ReplayAll(n) \/ UnlinkWAL(n) => db'[n] = Whole(want[n])
      BY <1>1, <2>1, <2>2, <2>5, <3>1, <3>2, ReplaySound
    <3>4. NewestSettled'
      BY <1>1, <2>2, <2>3, <3>3 DEF NewestSettled, Whole
    <3> QED BY <1>3, <2>2, <3>3, <3>4 DEF FilesSound
  <2> QED BY <2>4, <2>5
<1>8. CASE CheckSize
  <2>1. /\ UNCHANGED <<dir, db, wal>> /\ status \in {"size", "resize"}
        /\ status' \in {"resize", "up"}
    BY <1>8 DEF CheckSize
  <2>2. SameLive /\ Fresh' /\ Live' = Live /\ Newest' = Newest
    BY <1>1, <2>1, SameOrder DEF SameLive, FilesSound, Fresh
  <2>3. NewestSound' /\ OlderSound'
    BY <2>2, FilesKept DEF FilesSound
  <2>4. NewestSettled'
    BY <1>1, <2>1, <2>2 DEF FilesSound, NewestSettled, Whole
  <2> QED BY <1>3, <2>1, <2>2, <2>3, <2>4 DEF FilesSound
<1> QED BY <1>4, <1>5, <1>6, <1>7, <1>8 DEF Check

----------------------------------------------------------------------------
(* The invariant.                                                          *)

\* An empty store satisfies the invariant.
LEMMA FilesInit == Init => Wholeness
<1> SUFFICES ASSUME Init PROVE Wholeness
  OBVIOUS
<1>1. Live = {} /\ Fresh
  BY DEF Init, Live, Fresh
<1>2. NewestSound /\ NewestSettled /\ OlderSound
  BY <1>1 DEF NewestSound, NewestSettled, OlderSound
<1>3. \A w \in Writers : Stage(sink[w])
  BY Blank DEF Init, Stage
<1>4. Listed /\ OpenIsStable /\ FailsOnlyOnMeta
  BY Blank DEF Init, Listed, OpenIsStable, FailsOnlyOnMeta
<1> QED BY <1>1, <1>2, <1>3, <1>4 DEF FilesSound, Wholeness

\* Every step of the store keeps its files sound.
LEMMA FilesStep ==
    ASSUME Inv, Inv', FilesSound, [AnyStep]_vars
    PROVE  FilesSound'
<1>1. ASSUME NEW w \in Writers, AnyCreate(w) PROVE FilesSound'
  BY <1>1, CreateSound DEF AnyCreate
<1>2. ASSUME NEW w \in Writers, SinkStep(w) PROVE FilesSound'
  BY <1>2, ProcessSound, RenameSound, CommitSound, MovePrevSound, CheckpointSound, ReapSound,
     LateSound DEF SinkStep
<1>3. ASSUME NEW w \in Writers,
             AnyWrite(w) \/ AnyClose(w) \/ AnyCancel(w)
      PROVE  FilesSound'
  BY <1>3, WriteSound, CloseSound, LateSound
<1>4. CASE \/ \E r \in Readers : List(r) \/ Open(r) \/ CloseSnapshot(r)
           \/ SetFullNeeded \/ Crash \/ UNCHANGED vars
  BY <1>4, OutsideSound
<1>5. CASE Check
  BY <1>5, CheckSound
<1> QED BY <1>1, <1>2, <1>3, <1>4, <1>5, Zenon DEF AnyStep

\* What a step may do to the readers.
LEMMA ReaderMoves ==
    ASSUME [AnyNext]_vars
    PROVE  \/ UNCHANGED rdr
           \/ \E r \in Readers : List(r) \/ Open(r) \/ CloseSnapshot(r)
           \/ rdr' = [r \in Readers |-> NoSnap]
BY DEF AnyNext, AnyStep, vars, AnyCreate, Create, AnyWrite, Write,
       AnyClose, CloseSink, AnyCancel, SinkStep, ProcessSnapshotData, RenameData, CommitDir,
       MovePrev, CheckpointRemove, UpdateMetaSize, UnsetFullNeeded, ReapOne, CloseOK, Abort,
       CloseFailed, IOError, SetFullNeeded, Crash, Check

\* Every step keeps what List returns in step with the files.
LEMMA ListedStep ==
    ASSUME Inv, Listed, [AnyNext]_vars
    PROVE  Listed'
<1>0. rdr \in [Readers -> [pc : {"idle", "listed", "open"}, id : 0..MaxSnapshots]]
  BY DEF Inv, TypeOK
<1>1. ASSUME NEW r \in Readers, List(r) PROVE Listed'
  <2>1. Newest \in ID
    BY <1>1, NewestIn, LiveIDs DEF List, Newest, Inv
  <2> QED BY <1>0, <1>1, <2>1 DEF List, Listed
<1>2. ASSUME NEW r \in Readers, Open(r) \/ CloseSnapshot(r) PROVE Listed'
  BY <1>0, <1>2, Blank DEF Open, CloseSnapshot, Listed
<1>3. CASE UNCHANGED rdr \/ rdr' = [r \in Readers |-> NoSnap]
  BY <1>3, Blank DEF Listed
<1> QED BY <1>1, <1>2, <1>3, ReaderMoves

\* A snapshot that is open was whole when it was opened, and nothing has touched
\* it since.
LEMMA OpenStep ==
    ASSUME Inv, FilesSound, Listed, OpenIsStable, [AnyNext]_vars
    PROVE  OpenIsStable'
<1> SUFFICES ASSUME NEW r \in Readers, rdr'[r].pc = "open"
             PROVE  dir'[rdr'[r].id] = "live" /\ db'[rdr'[r].id] = Whole(want'[rdr'[r].id])
  BY DEF OpenIsStable, Whole
<1>0. rdr \in [Readers -> [pc : {"idle", "listed", "open"}, id : 0..MaxSnapshots]]
  BY DEF Inv, TypeOK
<1>1. CASE rdr[r].pc = "open"
  <2>1. rdr'[r].id = rdr[r].id
    BY <1>0, <1>1, Blank, ReaderMoves DEF List, Open, CloseSnapshot
  <2>2. UNCHANGED <<dir, meta, db, wal>>
    BY <1>1, FrozenStep DEF vars, disk
  <2>3. UNCHANGED want
    <3>1. numReaders # 0
      <4>1. r \in OpenReaders /\ IsFiniteSet(OpenReaders)
        BY <1>1, ReadersFinite, FS_Subset DEF OpenReaders
      <4> QED BY <4>1, FS_EmptySet DEF Inv, LockDiscipline
    <3> QED BY <3>1 DEF AnyNext, AnyStep, vars, named, AnyCreate, Create, BeginWrite, AnyWrite, Write,
          AnyClose, CloseSink, AnyCancel, SinkStep, ProcessSnapshotData, RenameData, CommitDir,
          MovePrev, CheckpointRemove, UpdateMetaSize, UnsetFullNeeded, ReapOne, CloseOK, Abort,
          CloseFailed, IOError, List, Open, CloseSnapshot, SetFullNeeded, Crash, Check
  <2> QED BY <1>1, <2>1, <2>2, <2>3 DEF OpenIsStable, Whole
<1>2. CASE rdr[r].pc # "open"
  <2>1. Open(r)
    BY <1>0, <1>2, Blank, ReaderMoves DEF List, CloseSnapshot, Open
  <2>2. /\ CanOpen(rdr[r].id) /\ ~writerActive /\ rdr'[r].id = rdr[r].id
        /\ UNCHANGED <<dir, db, want>>
    BY <1>0, <2>1, Blank DEF Open, BeginRead, disk, named
  <2>3. status = "up" /\ \A w \in Writers : sink[w].pc \notin Halfway
    BY <2>1, <2>2 DEF Open, Inv, LockDiscipline, Halfway
  <2>4. rdr[r].id \in Live
    <3>1. dir[rdr[r].id] = "live" /\ rdr[r].id \in ID
      BY <2>1, <2>2 DEF CanOpen, Listed, Open
    <3> QED BY <3>1 DEF Live
  <2>5. db[rdr[r].id] = Whole(want[rdr[r].id])
    BY <2>2, <2>3, <2>4 DEF CanOpen, FilesSound, NewestSettled, OlderSound
  <2> QED BY <2>2, <2>5 DEF CanOpen, Whole
<1> QED BY <1>1, <1>2

\* A Store that does not open stays as it is.
LEMMA FailedStep ==
    ASSUME Inv, Inv', FilesSound, FailsOnlyOnMeta, [AnyNext]_vars
    PROVE  FailsOnlyOnMeta'
<1> SUFFICES ASSUME status' = "failed" PROVE ~Readable'
  BY DEF FailsOnlyOnMeta
<1>1. CASE Check
  BY <1>1, CheckSound
<1>2. CASE ~Check
  <2>1. UNCHANGED status
    BY <1>2 DEF AnyNext, AnyStep, vars, AnyCreate, Create, AnyWrite, Write,
          AnyClose, CloseSink, AnyCancel, SinkStep, ProcessSnapshotData, RenameData, CommitDir,
          MovePrev, CheckpointRemove, UpdateMetaSize, UnsetFullNeeded, ReapOne, CloseOK, Abort,
          CloseFailed, IOError, List, Open, CloseSnapshot, SetFullNeeded, Crash
  <2>2. \A w \in Writers : sink[w].pc = "idle"
    BY <2>1 DEF Inv, LockDiscipline
  <2>3. UNCHANGED <<dir, meta>>
    BY <1>2, <2>1, <2>2 DEF AnyNext, AnyStep, vars, disk, AnyCreate, Create, AnyWrite, Write,
          AnyClose, CloseSink, AnyCancel, SinkStep, ProcessSnapshotData, RenameData, CommitDir,
          MovePrev, CheckpointRemove, UpdateMetaSize, UnsetFullNeeded, ReapOne, CloseOK, Abort,
          CloseFailed, IOError, List, Open, CloseSnapshot, SetFullNeeded, Crash
  <2> QED BY <2>1, <2>3 DEF FailsOnlyOnMeta, Readable, Live
<1> QED BY <1>1, <1>2

\* Every step keeps the inductive invariant, an I/O error outside those stages too.
LEMMA WholenessStep ==
    ASSUME Inv, Inv', Wholeness, [AnyNext]_vars, ErrorsElsewhere \/ [AnyStep]_vars
    PROVE  Wholeness'
<1>1. FilesSound'
  BY FilesStep, ErrorSound DEF Wholeness, AnyNext
<1> QED BY <1>1, ListedStep, OpenStep, FailedStep DEF Wholeness

\* From what the newest snapshot consists of check() makes the database it stands
\* for.
LEMMA SoundIsWhole ==
    ASSUME Inv, Wholeness
    PROVE  SnapshotsAreWhole
<1> SUFFICES ASSUME Live # {} PROVE RecoveredImage = Whole(want[Newest])
  BY DEF Wholeness, SnapshotsAreWhole, LatestIsWhole
<1>1. PICK n : n = Newest
  OBVIOUS
<1>2. PICK p : p = Prev(n)
  OBVIOUS
<1>3. /\ n \in ID /\ want[n] \in Nat
      /\ Live # {n} => p \in ID /\ want[p] \in Nat
  BY <1>1, <1>2, TwoNewest
<1>4. \A v : Whole(v) # NoFile
  BY DEF Whole, NoFile
<1> DEFINE base == IF db[n] # NoFile \/ Live = {n} THEN db[n] ELSE db[p]
<1>5. RecoveredImage = IF wal[n] = NoFile \/ base = NoFile THEN base ELSE Replay(base, wal[n])
  BY <1>1, <1>2 DEF RecoveredImage
<1>6. CASE Own(n)
  BY <1>1, <1>4, <1>5, <1>6 DEF Own
<1>7. CASE Completed(n)
  <2>1. db[n] \in Image /\ wal[n] \in Image /\ db[n] # NoFile /\ wal[n] # NoFile
    BY <1>7, Images DEF Completed
  <2>2. PICK d \in Image, x \in Image : d = db[n] /\ x = wal[n]
    BY <2>1
  <2>3. Replay(d, x) = Whole(want[n])
    <3>1. d[1] \in Nat /\ d[2] \in Nat /\ x[1] \in Nat /\ x[2] \in Nat
      BY SnapshotBounds DEF Image, Version
    <3> QED BY <1>7, <2>2, <3>1 DEF Completed, Covered, Replay, Whole
  <2> QED BY <1>1, <1>5, <2>1, <2>2, <2>3
<1>8. CASE Live # {n} /\ Inherits(n, p)
  <2>1. base = Whole(want[p]) /\ base # NoFile
    BY <1>4, <1>8 DEF Inherits
  <2>2. CASE wal[n] = NoFile
    <3>1. want[n] = want[p]
      BY <1>8, <2>2 DEF Inherits, NoFile
    <3> QED BY <1>1, <1>5, <2>1, <2>2, <3>1
  <2>3. CASE wal[n] # NoFile
    <3>1. PICK b \in Version : wal[n] = <<b, want[n]>> /\ b <= want[p] /\ want[p] <= want[n]
      BY <1>8, <2>3 DEF Inherits
    <3>2. Replay(Whole(want[p]), <<b, want[n]>>) = Whole(want[n])
      BY <1>3, <1>8, <3>1 DEF Replay, Whole
    <3> QED BY <1>1, <1>5, <2>1, <2>3, <3>1, <3>2
  <2> QED BY <2>2, <2>3
<1> QED BY <1>1, <1>2, <1>6, <1>7, <1>8 DEF Wholeness, FilesSound, NewestSound

\* Whatever system call a crash interrupts, and whatever I/O errors are met outside
\* the checkpoint, the newest snapshot is recovered whole, an open one is what it
\* stands for, and only a torn meta.json keeps the Store from opening
\* (snapshot/sink.go, Close; snapshot/store.go, check and Reap).
THEOREM SnapshotsStayWhole == ErrorsElsewhere => (Spec => []SnapshotsAreWhole)
<1> SUFFICES ASSUME ErrorsElsewhere PROVE Spec => []SnapshotsAreWhole
  OBVIOUS
<1>1. Init => Inv /\ Wholeness
  BY InitInv, FilesInit
<1>2. Inv /\ Wholeness /\ [Next]_vars => (Inv /\ Wholeness)'
  BY InvStep, WholenessStep, NextIsAny
<1>3. Inv /\ Wholeness => SnapshotsAreWhole
  BY SoundIsWhole
<1> QED BY <1>1, <1>2, <1>3, PTL DEF Spec

----------------------------------------------------------------------------
(* The refinement.  A snapshot is installed when CommitDir renames its      *)
(* directory; every other step, of any thread or of check(), leaves the     *)
(* newest snapshot, and what would be recovered of it, as it is.            *)

NewestStays ==
    \/ Live = {} /\ Live' = {}
    \/ /\ Live # {} /\ Live' # {} /\ Newest' = Newest
       /\ idx'[Newest] = idx[Newest] /\ want'[Newest] = want[Newest]

\* Only a commit changes the newest snapshot.
LEMMA OnlyCommit ==
    ASSUME Inv, Inv', Wholeness, [AnyNext]_vars
    PROVE  NewestStays \/ \E w \in Writers : CommitDir(w)
<1> USE DEF disk, named
<1>1. ASSUME UNCHANGED <<dir, idx, want>>
      PROVE  NewestStays
  BY <1>1, SameOrder DEF NewestStays
<1>2. ASSUME Live' = Live, UNCHANGED <<idx, want>>
      PROVE  NewestStays
  BY <1>2, NewestIsBy, NewestIsByNext DEF NewestStays
<1>3. ASSUME RemoveTmpDirs, UNCHANGED <<idx, want>>
      PROVE  NewestStays
  <2>1. Live' = Live
    BY <1>3 DEF RemoveTmpDirs, Live, Tmp
  <2> QED BY <1>2, <1>3, <2>1
<1>4. ASSUME NEW w \in Writers, AnyCreate(w)
      PROVE  NewestStays
  <2>1. PICK i, v : Create(w, i, v)
    BY <1>4 DEF AnyCreate
  <2>2. /\ used + 1 \in ID /\ dir[used + 1] = "none"
        /\ dir' = [dir EXCEPT ![used + 1] = "tmp"]
        /\ idx' = [idx EXCEPT ![used + 1] = i] /\ want' = [want EXCEPT ![used + 1] = v]
        /\ UNCHANGED <<db, wal>>
    BY <2>1, SnapshotBounds DEF Create, Inv, TypeOK, ID, Wholeness, FilesSound, Fresh
  <2>3. SameLive
    BY <2>2 DEF SameLive, Live, Inv, TypeOK
  <2>4. CASE Live = {}
    BY <2>3, <2>4 DEF SameLive, NewestStays
  <2>5. CASE Live # {}
    <3>1. Newest \in Live /\ Newest' = Newest
      BY <2>3, <2>5, LiveKept
    <3> QED BY <2>3, <2>5, <3>1 DEF SameLive, NewestStays
  <2> QED BY <2>4, <2>5
<1>5. ASSUME NEW w \in Writers, ReapOne(w), sink[w].pc = "rmdir"
      PROVE  NewestStays
  <2>1. PICK v : v = sink[w].victim
    OBVIOUS
  <2>2. /\ v \in Live /\ v # Newest /\ UNCHANGED <<idx, want>>
        /\ dir' = [dir EXCEPT ![v] = "none"]
    BY <1>5, <2>1 DEF ReapOne, Wholeness, FilesSound, Stage
  <2>3. Live' = Live \ {v}
    BY <2>2 DEF Live, Inv, TypeOK
  <2>4. Newest \in Live
    BY <2>2, TwoNewest
  <2>5. Newest' = Newest
    <3>1. PICK f \in [ID -> Index] : f = idx
      BY DEF Inv, TypeOK
    <3>2. PICK S : S = Live
      OBVIOUS
    <3>3. v \in S /\ v # NewestBy(f, S) /\ S \subseteq ID
      BY <2>2, <3>1, <3>2, NewestIsBy, LiveIDs
    <3>4. NewestBy(f, S \ {v}) = NewestBy(f, S)
      BY <3>3, NewestByRemove
    <3> QED BY <2>2, <2>3, <3>1, <3>2, <3>4, NewestIsBy, NewestIsByNext
  <2> QED BY <2>2, <2>3, <2>4, <2>5 DEF NewestStays
<1>6. ASSUME NEW w \in Writers,
             \/ AnyWrite(w) \/ AnyClose(w) \/ IOError(w)
             \/ ProcessSnapshotData(w) \/ RenameData(w) \/ MovePrev(w) \/ CheckpointRemove(w)
             \/ UpdateMetaSize(w) \/ UnsetFullNeeded(w) \/ CloseOK(w) \/ Abort(w)
             \/ ReapOne(w) /\ sink[w].pc # "rmdir"
      PROVE  NewestStays
  <2>1. UNCHANGED <<dir, idx, want>>
    BY <1>6 DEF AnyWrite, Write, AnyClose, CloseSink, IOError,
          ProcessSnapshotData, RenameData, MovePrev, CheckpointRemove, UpdateMetaSize,
          UnsetFullNeeded, CloseOK, Abort, ReapOne
  <2> QED BY <1>1, <2>1
<1>7. ASSUME NEW w \in Writers, AnyCancel(w) \/ CloseFailed(w)
      PROVE  NewestStays
  BY <1>3, <1>7 DEF AnyCancel, CloseFailed
<1>8. CASE \/ \E r \in Readers : List(r) \/ Open(r) \/ CloseSnapshot(r)
           \/ SetFullNeeded \/ Crash \/ UNCHANGED vars
  BY <1>1, <1>8 DEF List, Open, CloseSnapshot, SetFullNeeded, Crash, vars
<1>9. CASE Check
  BY <1>1, <1>3, <1>9 DEF Check, Inspect, CheckReplay, CheckSize
<1> QED BY <1>4, <1>5, <1>6, <1>7, <1>8, <1>9 DEF AnyNext, AnyStep, SinkStep

\* Every step of the Store is the installation of a snapshot or changes nothing
\* that the rest of the node can see of it.
LEMMA AtomicStep ==
    ASSUME Inv, Inv', Wholeness, LatestIsWhole, LatestIsWhole', [AnyNext]_vars
    PROVE  [Atomic!Install]_Latest
<1>1. /\ Live = {} => Latest = << >>
      /\ Live # {} => Latest = <<idx[Newest], Whole(want[Newest])>>
  BY DEF Latest, LatestIsWhole
<1>2. /\ Live' = {} => Latest' = << >>
      /\ Live' # {} => Latest' = <<idx'[Newest'], Whole(want'[Newest'])>>
  BY DEF Latest, LatestIsWhole, Whole
<1>3. CASE NewestStays
  <2>1. Latest' = Latest
    BY <1>1, <1>2, <1>3 DEF NewestStays, Whole
  <2> QED BY <2>1
<1>4. ASSUME NEW w \in Writers, CommitDir(w)
      PROVE  Atomic!Install
  <2>1. PICK i : i = sink[w].id
    OBVIOUS
  <2>2. Newest' = i /\ Live' = Live \cup {i}
    BY <1>4, <2>1, CommitSound DEF Wholeness
  <2>3. UNCHANGED <<idx, want>> /\ (Live # {} => Less(Newest, i)) /\ i \in ID
    BY <1>4, <2>1 DEF CommitDir, named, Wholeness, FilesSound, Stage, Inv, Phases, PhaseOf
  <2>4. Latest' = <<idx[i], <<want[i], want[i]>>>>
    BY <1>2, <2>2, <2>3 DEF Whole
  <2>5. idx[i] \in Index /\ want[i] \in Version
    BY <2>3 DEF Inv, TypeOK
  <2>6. Latest # << >> => Latest[1] <= idx[i]
    <3> SUFFICES ASSUME Live # {} PROVE Latest[1] <= idx[i]
      BY <1>1
    <3>1. Latest[1] = idx[Newest] /\ Newest \in ID
      BY <1>1, TwoNewest
    <3>2. idx[Newest] \in Nat /\ idx[i] \in Nat
      BY <2>3, <3>1, SnapshotBounds DEF Inv, TypeOK, Index
    <3> QED BY <2>3, <3>1, <3>2 DEF Less
  <2> QED BY <2>4, <2>5, <2>6 DEF Atomic!Install
<1> QED BY <1>3, <1>4, OnlyCommit

\* The Store implements the atomic replacement of one snapshot by a later one: the
\* rename of the directory is the one step at which the latest snapshot changes,
\* and it does so whole (snapshot/sink.go, processSnapshotData).
THEOREM StoreImplementsAtomic == ErrorsElsewhere => (Spec => RefinesAtomic)
<1> SUFFICES ASSUME ErrorsElsewhere PROVE Spec => RefinesAtomic
  OBVIOUS
<1>1. Init => Atomic!Init
  BY DEF Init, Atomic!Init, Latest, Live
<1>2. Init => Inv /\ Wholeness
  BY InitInv, FilesInit
<1>3. Inv /\ Wholeness /\ [Next]_vars => (Inv /\ Wholeness)'
  BY InvStep, WholenessStep, NextIsAny
<1>4. Inv /\ Wholeness => LatestIsWhole
  BY SoundIsWhole DEF SnapshotsAreWhole
<1>5. Inv /\ Inv' /\ Wholeness /\ LatestIsWhole /\ LatestIsWhole' /\ [Next]_vars
        => [Atomic!Install]_Latest
  BY AtomicStep, NextIsAny
<1> QED BY <1>1, <1>2, <1>3, <1>4, <1>5, PTL DEF Spec, RefinesAtomic, Atomic!Spec
=============================================================================
