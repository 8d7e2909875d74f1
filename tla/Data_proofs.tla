----------------------------- MODULE Data_proofs -----------------------------
(***************************************************************************)
(* What becomes of the data of a node, for every number of entries,        *)
(* restarts and failures: the automatic backups that are stored, the       *)
(* database a node opens with, and the databases it loads in chunks.       *)
(***************************************************************************)
EXTENDS AutoBackup, NodeOpen, Chunking, WellFoundedInduction, TLAPS

----------------------------------------------------------------------------
(* Automatic backups.                                                      *)

UploadState == [pc : {"wait", "wal", "snapshotting", "begin", "copy", "check", "upload"}, li : Nat,
                tries : Nat, fd : Seq(Nat), src : Seq(Nat), page : {0, 1, 2}]

\* The two pages of a database.
DbFile == {f \in Seq(Nat) : Len(f) = 2}

BackupTypeOK ==
    /\ applied \in [Node -> Nat] /\ file \in [Node -> DbFile]
    /\ cas \in [Node -> {"free", "snapshot", "backup"}]
    /\ uploader \in [Node -> UploadState] /\ lastIndex \in [Node -> Nat]
    /\ stored \in [id : Nat, data : Seq(Nat)]
    /\ failures \in Nat

\* The main file f of a node at version a holds one version, and mixes it with the
\* next only while a snapshot, for which the gate is c, moves the WAL into it.
FileIsWhole(f, a, c) ==
    /\ f[1] <= a
    /\ c = "snapshot" => f[1] = a
    /\ c # "snapshot" => f[1] = f[2]

\* f is an upload of the database as it was at the index li or later; when it is
\* not as long as a database, a copy has failed half-way.
Upload(f, li, fails) ==
    /\ Len(f) = 2 => f[1] = f[2] /\ f[1] >= li
    /\ Len(f) # 2 => fails > 0

\* The Uploader u of such a node: a copy holds the gate and reads one version, of the
\* index asked for or later, even when the file is replaced meanwhile.
Reads(u, f) == IF u.src # NoFd THEN u.src ELSE f
CopyIsOf(u, f, a, c, fails) ==
    /\ u.pc = "copy" =>
          /\ c = "backup" /\ u.page \in {0, 1}
          /\ Reads(u, f) \in DbFile /\ Reads(u, f)[1] = Reads(u, f)[2] /\ Reads(u, f)[1] >= u.li
          /\ Len(u.fd) >= u.page
          /\ Len(u.fd) # u.page => fails > 0
          /\ Len(u.fd) = 1 /\ u.page = 1 => u.fd[1] = Reads(u, f)[1]
    /\ u.pc \in {"wal", "snapshotting", "begin"} =>
          u.page = 0 /\ u.src = NoFd /\ (u.fd # << >> => fails > 0)
    /\ u.pc \in {"snapshotting", "begin"} => f[1] >= u.li
    /\ u.pc \in {"check", "upload"} => Upload(u.fd, u.li, fails)
    /\ u.pc # "wait" => u.li <= a

NodeOK(n) ==
    /\ FileIsWhole(file[n], applied[n], cas[n])
    /\ CopyIsOf(uploader[n], file[n], applied[n], cas[n], failures)

BackupInv ==
    /\ BackupTypeOK
    /\ \A n \in Node : NodeOK(n)
    /\ Upload(stored.data, stored.id, failures)

\* The elements of a sequence are where it says.
LEMMA ElementsIn == ASSUME NEW S, NEW f \in Seq(S) PROVE \A j \in 1..Len(f) : f[j] \in S
OBVIOUS

\* A file with both pages of one version, and one whose page is written.
LEMMA Pages ==
    /\ \A v \in Nat : Whole(v) \in DbFile /\ Whole(v)[1] = v /\ Whole(v)[2] = v
    /\ \A f \in DbFile, v \in Nat :
          /\ [f EXCEPT ![1] = v] \in DbFile /\ [f EXCEPT ![2] = v] \in DbFile
          /\ [f EXCEPT ![1] = v][1] = v /\ [f EXCEPT ![1] = v][2] = f[2]
          /\ [f EXCEPT ![2] = v][1] = f[1] /\ [f EXCEPT ![2] = v][2] = v
    /\ \A f \in DbFile : f[1] \in Nat /\ f[2] \in Nat /\ f # NoFd
<1>1. \A f \in DbFile : f[1] \in Nat /\ f[2] \in Nat /\ f # NoFd
  <2> TAKE f \in DbFile
  <2>1. f \in Seq(Nat) /\ Len(f) = 2 /\ DOMAIN f = 1..2
    BY DEF DbFile
  <2>2. 1 \in DOMAIN f /\ 2 \in DOMAIN f /\ 1 \notin DOMAIN NoFd
    BY <2>1 DEF NoFd
  <2>3. \A j \in 1..Len(f) : f[j] \in Nat
    BY <2>1, ElementsIn
  <2>4. f # NoFd
    BY <2>2, Zenon
  <2> QED BY <2>1, <2>2, <2>3, <2>4
<1>2. \A v \in Nat : Whole(v) \in DbFile /\ Whole(v)[1] = v /\ Whole(v)[2] = v
  BY DEF Whole, DbFile
<1>3. ASSUME NEW f \in DbFile, NEW v \in Nat, NEW i \in {1, 2}, NEW g, g = [f EXCEPT ![i] = v]
      PROVE  g \in DbFile /\ g[i] = v /\ \A j \in {1, 2} : j # i => g[j] = f[j]
  <2>1. f \in Seq(Nat) /\ Len(f) = 2 /\ DOMAIN f = 1..2
    BY DEF DbFile
  <2>2. g = [j \in 1..2 |-> IF j = i THEN v ELSE f[j]]
    BY <1>3, <2>1
  <2>3. \A j \in 1..2 : g[j] \in Nat
    BY <2>1, <2>2
  <2>4. g \in Seq(Nat) /\ Len(g) = 2
    BY <2>2, <2>3
  <2> QED BY <2>2, <2>4 DEF DbFile
<1> QED BY <1>1, <1>2, <1>3

\* There is nothing in no file.
LEMMA NothingCopied == NoFd \in Seq(Nat) /\ Len(NoFd) = 0 /\ NoFd = << >>
BY DEF NoFd

\* An Uploader that waits.
LEMMA WaitingIs == Waiting \in UploadState /\ Waiting.pc = "wait"
BY NothingCopied DEF Waiting, UploadState

\* A cluster that has stored nothing satisfies the invariant.
LEMMA BackupInitInv == BackupInit => BackupInv
<1> SUFFICES ASSUME BackupInit PROVE BackupInv
  OBVIOUS
<1>1. BackupTypeOK
  BY Pages, WaitingIs DEF BackupInit, BackupTypeOK, NoObject, DbFile
<1>2. \A n \in Node : NodeOK(n)
  <2> TAKE n \in Node
  <2>1. file[n] = Whole(0) /\ applied[n] = 0 /\ cas[n] = "free" /\ uploader[n] = Waiting
    BY DEF BackupInit
  <2>2. uploader[n].pc = "wait"
    BY <2>1, WaitingIs
  <2>3. FileIsWhole(file[n], applied[n], cas[n])
    BY <2>1, Pages DEF FileIsWhole
  <2>4. CopyIsOf(uploader[n], file[n], applied[n], cas[n], failures)
    BY <2>2 DEF CopyIsOf
  <2> QED BY <2>3, <2>4 DEF NodeOK
<1>3. stored.id = 0 /\ stored.data = Whole(0)
  BY DEF BackupInit, NoObject
<1>4. Upload(stored.data, stored.id, failures)
  BY <1>3, Pages DEF Upload, DbFile
<1> QED BY <1>1, <1>2, <1>4 DEF BackupInv

\* The state of every node but n is as it was.
OthersKept(n) ==
    \A m \in Node \ {n} : /\ applied'[m] = applied[m] /\ file'[m] = file[m]
                          /\ cas'[m] = cas[m] /\ uploader'[m] = uploader[m]

\* Node n has version a, file f, gate c and Uploader u after the step.
Becomes(n, a, f, c, u) ==
    applied'[n] = a /\ file'[n] = f /\ cas'[n] = c /\ uploader'[n] = u

\* A step that changes what belongs to node n only keeps the invariant if it does so
\* for n.
LEMMA OneNode ==
    ASSUME BackupInv, NEW n \in Node, NEW a, NEW f, NEW c, NEW u, BackupTypeOK',
           Becomes(n, a, f, c, u), OthersKept(n),
           FileIsWhole(f, a, c), CopyIsOf(u, f, a, c, failures'),
           failures' = failures \/ failures' = failures + 1,
           stored' = stored \/ Upload(stored'.data, stored'.id, failures)
    PROVE  BackupInv'
<1>0. failures \in Nat /\ failures' \in Nat /\ (failures > 0 => failures' > 0)
  BY DEF BackupInv, BackupTypeOK
<1>2. \A g, i : Upload(g, i, failures) => Upload(g, i, failures')
  BY <1>0 DEF Upload
<1>3. Upload(stored.data, stored.id, failures)'
  BY <1>2 DEF BackupInv
<1>4. ASSUME NEW m \in Node PROVE NodeOK(m)'
  <2>1. CASE m = n
    BY <2>1 DEF NodeOK, Becomes
  <2>2. CASE m # n
    <3>1. UNCHANGED <<applied[m], file[m], cas[m], uploader[m]>>
      BY <2>2 DEF OthersKept
    <3>2. FileIsWhole(file[m], applied[m], cas[m])
          /\ CopyIsOf(uploader[m], file[m], applied[m], cas[m], failures)
      BY DEF BackupInv, NodeOK
    <3>3. CopyIsOf(uploader[m], file[m], applied[m], cas[m], failures')
      BY <1>0, <1>2, <3>2 DEF CopyIsOf
    <3> QED BY <3>1, <3>2, <3>3 DEF NodeOK
  <2> QED BY <2>1, <2>2
<1> QED BY <1>3, <1>4 DEF BackupInv

\* The log, the FSM, leadership and restarts keep the invariant.
LEMMA DatabaseInv ==
    ASSUME BackupInv, NEW n \in Node,
           ApplyChange(n) \/ ApplyLoad(n) \/ SnapshotBegin(n) \/ SnapshotEnd(n) \/ Restart(n)
    PROVE  BackupInv'
<1>0. PICK a \in Nat, f \in DbFile, c \in {"free", "snapshot", "backup"}, u \in UploadState :
        a = applied[n] /\ f = file[n] /\ c = cas[n] /\ u = uploader[n]
  BY DEF BackupInv, BackupTypeOK
<1>1. FileIsWhole(f, a, c) /\ CopyIsOf(u, f, a, c, failures)
  BY <1>0 DEF BackupInv, NodeOK
<1>3. f[1] \in Nat /\ f[2] \in Nat /\ u.li \in Nat
  BY Pages DEF UploadState
<1>t. BackupTypeOK
  BY DEF BackupInv
<1>4. CASE ApplyChange(n)
  <2>1. /\ applied' = [applied EXCEPT ![n] = applied[n] + 1] /\ cas[n] # "snapshot"
        /\ UNCHANGED <<file, cas, uploader, lastIndex, stored, failures>>
    BY <1>4 DEF ApplyChange, FsmFree
  <2>2. BackupTypeOK' /\ Becomes(n, a + 1, f, c, u) /\ OthersKept(n)
    BY <1>0, <1>t, <2>1 DEF BackupTypeOK, Becomes, OthersKept
  <2>3. FileIsWhole(f, a + 1, c)
    BY <1>0, <1>1, <1>3, <2>1 DEF FileIsWhole
  <2>4. CopyIsOf(u, f, a + 1, c, failures')
    BY <1>0, <1>1, <1>3, <2>1 DEF CopyIsOf
  <2> QED BY <2>1, <2>2, <2>3, <2>4, OneNode
<1>5. CASE ApplyLoad(n)
  <2>1. PICK v : v = IF u.pc = "copy" /\ u.src = NoFd THEN [u EXCEPT !.src = f] ELSE u
    OBVIOUS
  <2>2. PICK g \in DbFile : g = Whole(a + 1) /\ g[1] = a + 1 /\ g[2] = a + 1
    BY Pages
  <2>3. /\ applied' = [applied EXCEPT ![n] = a + 1] /\ c # "snapshot"
        /\ file' = [file EXCEPT ![n] = g] /\ uploader' = [uploader EXCEPT ![n] = v]
        /\ UNCHANGED <<cas, lastIndex, stored, failures>>
    BY <1>0, <1>5, <2>1, <2>2 DEF ApplyLoad, FsmFree
  <2>4. /\ v \in UploadState /\ v.pc = u.pc /\ v.li = u.li /\ v.fd = u.fd /\ v.page = u.page
        /\ v.pc # "copy" => v.src = u.src
        /\ v.pc = "copy" => v.src = IF u.src = NoFd THEN f ELSE u.src
    BY <2>1 DEF UploadState, DbFile
  <2>5. BackupTypeOK' /\ Becomes(n, a + 1, g, c, v) /\ OthersKept(n)
    BY <1>0, <1>t, <2>3, <2>4 DEF BackupTypeOK, Becomes, OthersKept
  <2>6. FileIsWhole(g, a + 1, c)
    BY <2>2, <2>3 DEF FileIsWhole
  <2>7. v.pc = "copy" => Reads(v, g) = Reads(u, f)
    BY <2>4, Pages DEF Reads
  <2>8. CopyIsOf(v, g, a + 1, c, failures')
    BY <1>1, <1>3, <2>2, <2>3, <2>4, <2>7 DEF CopyIsOf
  <2> QED BY <2>3, <2>5, <2>6, <2>8, OneNode
<1>6. CASE SnapshotBegin(n)
  <2>1. PICK g \in DbFile : g = [f EXCEPT ![1] = a] /\ g[1] = a
    <3>1. [f EXCEPT ![1] = a] \in DbFile /\ [f EXCEPT ![1] = a][1] = a
      BY Pages
    <3> QED BY <3>1, Zenon
  <2>2. /\ c = "free" /\ cas' = [cas EXCEPT ![n] = "snapshot"] /\ file' = [file EXCEPT ![n] = g]
        /\ UNCHANGED <<applied, uploader, lastIndex, stored, failures>>
    BY <1>0, <1>6, <2>1 DEF SnapshotBegin
  <2>3. BackupTypeOK' /\ Becomes(n, a, g, "snapshot", u) /\ OthersKept(n)
    BY <1>0, <1>t, <2>2 DEF BackupTypeOK, Becomes, OthersKept
  <2>4. FileIsWhole(g, a, "snapshot")
    BY <2>1 DEF FileIsWhole
  <2>5. CopyIsOf(u, g, a, "snapshot", failures')
    BY <1>1, <1>3, <2>1, <2>2 DEF CopyIsOf
  <2> QED BY <2>2, <2>3, <2>4, <2>5, OneNode
<1>7. CASE SnapshotEnd(n)
  <2>1. PICK g \in DbFile : g = [f EXCEPT ![2] = a] /\ g[2] = a /\ g[1] = f[1]
    BY Pages
  <2>2. /\ c = "snapshot" /\ cas' = [cas EXCEPT ![n] = "free"] /\ file' = [file EXCEPT ![n] = g]
        /\ UNCHANGED <<applied, uploader, lastIndex, stored, failures>>
    BY <1>0, <1>7, <2>1 DEF SnapshotEnd
  <2>3. BackupTypeOK' /\ Becomes(n, a, g, "free", u) /\ OthersKept(n)
    BY <1>0, <1>t, <2>2 DEF BackupTypeOK, Becomes, OthersKept
  <2>4. FileIsWhole(g, a, "free")
    BY <1>1, <2>1, <2>2 DEF FileIsWhole
  <2>5. CopyIsOf(u, g, a, "free", failures')
    BY <1>1, <1>3, <2>1, <2>2 DEF CopyIsOf
  <2> QED BY <2>2, <2>3, <2>4, <2>5, OneNode
<1>8. CASE Restart(n)
  <2>1. PICK g \in DbFile : g = Whole(0) /\ g[1] = 0 /\ g[2] = 0
    BY Pages
  <2>2. /\ applied' = [applied EXCEPT ![n] = 0] /\ file' = [file EXCEPT ![n] = g]
        /\ cas' = [cas EXCEPT ![n] = "free"] /\ uploader' = [uploader EXCEPT ![n] = Waiting]
        /\ lastIndex' = [lastIndex EXCEPT ![n] = 0] /\ UNCHANGED <<stored, failures>>
    BY <1>8, <2>1 DEF Restart
  <2>3. BackupTypeOK' /\ Becomes(n, 0, g, "free", Waiting) /\ OthersKept(n)
    BY <1>t, <2>2, WaitingIs DEF BackupTypeOK, Becomes, OthersKept
  <2>4. FileIsWhole(g, 0, "free")
    BY <2>1 DEF FileIsWhole
  <2>5. CopyIsOf(Waiting, g, 0, "free", failures')
    BY WaitingIs DEF CopyIsOf
  <2> QED BY <2>2, <2>3, <2>4, <2>5, OneNode
<1> QED BY <1>4, <1>5, <1>6, <1>7, <1>8

\* Retry starts again with what is in the file descriptor, or gives up.
LEMMA RetryIs ==
    ASSUME NEW u \in UploadState, NEW v,
           v = IF u.tries < NumRetries
               THEN [u EXCEPT !.pc = "wal", !.tries = @ + 1, !.fd = u.fd, !.src = NoFd, !.page = 0]
               ELSE Waiting
    PROVE  /\ v \in UploadState
           /\ v = Waiting \/ (v.pc = "wal" /\ v.li = u.li /\ v.fd = u.fd /\ v.src = NoFd /\ v.page = 0)
<1>1. CASE ~(u.tries < NumRetries)
  BY <1>1, WaitingIs
<1>2. CASE u.tries < NumRetries
  <2>1. v = [u EXCEPT !.pc = "wal", !.tries = @ + 1, !.fd = u.fd, !.src = NoFd, !.page = 0]
    BY <1>2
  <2>2. u.tries + 1 \in Nat
    BY DEF UploadState
  <2> QED BY <2>1, <2>2, NothingCopied DEF UploadState
<1> QED BY <1>1, <1>2

\* The Uploader's steps up to the copy keep the invariant: the WAL is in the main
\* file, and the gate is taken, before the file is read.
LEMMA PrepareInv ==
    ASSUME BackupInv, NEW n \in Node,
           UploadStart(n) \/ BackupWal(n) \/ BackupVacuum(n) \/ BackupSnapshotted(n) \/ BackupBegin(n)
    PROVE  BackupInv'
<1>0. PICK a \in Nat, f \in DbFile, c \in {"free", "snapshot", "backup"}, u \in UploadState :
        a = applied[n] /\ f = file[n] /\ c = cas[n] /\ u = uploader[n]
  BY DEF BackupInv, BackupTypeOK
<1>1. FileIsWhole(f, a, c) /\ CopyIsOf(u, f, a, c, failures)
  BY <1>0 DEF BackupInv, NodeOK
<1>3. f[1] \in Nat /\ f[2] \in Nat /\ u.li \in Nat
  BY Pages DEF UploadState
<1>t. BackupTypeOK
  BY DEF BackupInv
<1>4. CASE UploadStart(n)
  <2>1. PICK v : v = [Waiting EXCEPT !.pc = "wal", !.li = a]
    OBVIOUS
  <2>2. /\ v \in UploadState /\ v.pc = "wal" /\ v.li = a /\ v.fd = NoFd /\ v.src = NoFd /\ v.page = 0
    BY <2>1, NothingCopied DEF Waiting, UploadState
  <2>3. /\ uploader' = [uploader EXCEPT ![n] = v]
        /\ UNCHANGED <<applied, file, cas, lastIndex, stored, failures>>
    BY <1>0, <1>4, <2>1 DEF UploadStart, Go, dbVars
  <2>4. BackupTypeOK' /\ Becomes(n, a, f, c, v) /\ OthersKept(n)
    BY <1>0, <1>t, <2>2, <2>3 DEF BackupTypeOK, Becomes, OthersKept
  <2>5. CopyIsOf(v, f, a, c, failures')
    BY <2>2, NothingCopied DEF CopyIsOf
  <2> QED BY <1>1, <2>3, <2>4, <2>5, OneNode
<1>5. CASE BackupWal(n) /\ f = Whole(a)
  <2>1. PICK v : v = [u EXCEPT !.pc = "begin"]
    OBVIOUS
  <2>2. /\ v \in UploadState /\ v.pc = "begin" /\ v.li = u.li /\ v.fd = u.fd /\ v.src = u.src
        /\ v.page = u.page
    BY <2>1 DEF UploadState
  <2>3. /\ uploader' = [uploader EXCEPT ![n] = v] /\ u.pc = "wal"
        /\ UNCHANGED <<applied, file, cas, lastIndex, stored, failures>>
    BY <1>0, <1>5, <2>1 DEF BackupWal, At, Go
  <2>4. BackupTypeOK' /\ Becomes(n, a, f, c, v) /\ OthersKept(n)
    BY <1>0, <1>t, <2>2, <2>3 DEF BackupTypeOK, Becomes, OthersKept
  <2>5. f[1] = a
    BY <1>5, Pages
  <2>6. CopyIsOf(v, f, a, c, failures')
    BY <1>1, <1>3, <2>2, <2>3, <2>5 DEF CopyIsOf
  <2> QED BY <1>1, <2>3, <2>4, <2>6, OneNode
<1>6. CASE BackupWal(n) /\ f # Whole(a)
  <2>1. PICK v : v = [u EXCEPT !.pc = "snapshotting"]
    OBVIOUS
  <2>2. /\ v \in UploadState /\ v.pc = "snapshotting" /\ v.li = u.li /\ v.fd = u.fd /\ v.src = u.src
        /\ v.page = u.page
    BY <2>1 DEF UploadState
  <2>3. PICK g \in DbFile : g = [f EXCEPT ![1] = a] /\ g[1] = a
    <3>1. [f EXCEPT ![1] = a] \in DbFile /\ [f EXCEPT ![1] = a][1] = a
      BY Pages
    <3> QED BY <3>1, Zenon
  <2>4. /\ uploader' = [uploader EXCEPT ![n] = v] /\ u.pc = "wal"
        /\ cas' = [cas EXCEPT ![n] = "snapshot"] /\ file' = [file EXCEPT ![n] = g]
        /\ UNCHANGED <<applied, lastIndex, stored, failures>>
    BY <1>0, <1>6, <2>1, <2>3 DEF BackupWal, At, Go
  <2>5. BackupTypeOK' /\ Becomes(n, a, g, "snapshot", v) /\ OthersKept(n)
    BY <1>0, <1>t, <2>2, <2>4 DEF BackupTypeOK, Becomes, OthersKept
  <2>6. FileIsWhole(g, a, "snapshot")
    BY <2>3 DEF FileIsWhole
  <2>7. CopyIsOf(v, g, a, "snapshot", failures')
    BY <1>1, <1>3, <2>2, <2>3, <2>4 DEF CopyIsOf
  <2> QED BY <2>4, <2>5, <2>6, <2>7, OneNode
<1>7. CASE BackupVacuum(n)
  <2>1. PICK g \in DbFile : g = Whole(a) /\ g[1] = a /\ g[2] = a
    BY Pages
  <2>2. PICK v : v = [u EXCEPT !.pc = "check", !.fd = g]
    OBVIOUS
  <2>3. g \in Seq(Nat) /\ Len(g) = 2
    BY DEF DbFile
  <2>4. v \in UploadState /\ v.pc = "check" /\ v.li = u.li /\ v.fd = g
    BY <2>2, <2>3 DEF UploadState
  <2>5. /\ uploader' = [uploader EXCEPT ![n] = v] /\ u.pc = "wal"
        /\ UNCHANGED <<applied, file, cas, lastIndex, stored, failures>>
    BY <1>0, <1>7, <2>1, <2>2 DEF BackupVacuum, At, Go, dbVars
  <2>6. BackupTypeOK' /\ Becomes(n, a, f, c, v) /\ OthersKept(n)
    BY <1>0, <1>t, <2>4, <2>5 DEF BackupTypeOK, Becomes, OthersKept
  <2>7. CopyIsOf(v, f, a, c, failures')
    BY <1>1, <1>3, <2>1, <2>3, <2>4, <2>5 DEF CopyIsOf, Upload
  <2> QED BY <1>1, <2>5, <2>6, <2>7, OneNode
<1>8. CASE BackupSnapshotted(n)
  <2>1. PICK v : v = [u EXCEPT !.pc = "begin"]
    OBVIOUS
  <2>2. /\ v \in UploadState /\ v.pc = "begin" /\ v.li = u.li /\ v.fd = u.fd /\ v.src = u.src
        /\ v.page = u.page
    BY <2>1 DEF UploadState
  <2>3. /\ uploader' = [uploader EXCEPT ![n] = v] /\ u.pc = "snapshotting"
        /\ UNCHANGED <<applied, file, cas, lastIndex, stored, failures>>
    BY <1>0, <1>8, <2>1 DEF BackupSnapshotted, At, Go, dbVars
  <2>4. BackupTypeOK' /\ Becomes(n, a, f, c, v) /\ OthersKept(n)
    BY <1>0, <1>t, <2>2, <2>3 DEF BackupTypeOK, Becomes, OthersKept
  <2>5. CopyIsOf(v, f, a, c, failures')
    BY <1>1, <1>3, <2>2, <2>3 DEF CopyIsOf
  <2> QED BY <1>1, <2>3, <2>4, <2>5, OneNode
<1>9. CASE BackupBegin(n) /\ c = "free"
  <2>1. PICK v : v = [u EXCEPT !.pc = "copy"]
    OBVIOUS
  <2>2. /\ v \in UploadState /\ v.pc = "copy" /\ v.li = u.li /\ v.fd = u.fd /\ v.src = u.src
        /\ v.page = u.page
    BY <2>1 DEF UploadState
  <2>3. /\ uploader' = [uploader EXCEPT ![n] = v] /\ u.pc = "begin"
        /\ cas' = [cas EXCEPT ![n] = "backup"]
        /\ UNCHANGED <<applied, file, lastIndex, stored, failures>>
    BY <1>0, <1>9, <2>1 DEF BackupBegin, At, Go, dbVars
  <2>4. BackupTypeOK' /\ Becomes(n, a, f, "backup", v) /\ OthersKept(n)
    BY <1>0, <1>t, <2>2, <2>3 DEF BackupTypeOK, Becomes, OthersKept
  <2>5. FileIsWhole(f, a, "backup")
    BY <1>1, <1>9 DEF FileIsWhole
  <2>6. /\ u.page = 0 /\ u.src = NoFd /\ (u.fd # << >> => failures > 0)
        /\ f[1] >= u.li /\ u.li <= a
    BY <1>1, <2>3 DEF CopyIsOf
  <2>7. Reads(v, f) = f
    BY <2>2, <2>6 DEF Reads
  <2>8. u.fd \in Seq(Nat)
    BY DEF UploadState
  <2>9. CopyIsOf(v, f, a, "backup", failures')
    BY <1>3, <2>2, <2>3, <2>5, <2>6, <2>7, <2>8 DEF CopyIsOf, FileIsWhole
  <2> QED BY <2>3, <2>4, <2>5, <2>9, OneNode
<1>10. CASE BackupBegin(n) /\ c # "free"
  <2>1. PICK v : v = IF u.tries < NumRetries
                THEN [u EXCEPT !.pc = "wal", !.tries = @ + 1, !.fd = u.fd, !.src = NoFd, !.page = 0]
                ELSE Waiting
    OBVIOUS
  <2>2. /\ v \in UploadState
        /\ v = Waiting \/ (v.pc = "wal" /\ v.li = u.li /\ v.fd = u.fd /\ v.src = NoFd /\ v.page = 0)
    BY <2>1, RetryIs
  <2>3. /\ uploader' = [uploader EXCEPT ![n] = v] /\ u.pc = "begin"
        /\ UNCHANGED <<applied, file, cas, lastIndex, stored, failures>>
    BY <1>0, <1>10, <2>1 DEF BackupBegin, Retry, At, Go, dbVars
  <2>4. BackupTypeOK' /\ Becomes(n, a, f, c, v) /\ OthersKept(n)
    BY <1>0, <1>t, <2>2, <2>3 DEF BackupTypeOK, Becomes, OthersKept
  <2>5. CopyIsOf(v, f, a, c, failures')
    BY <1>1, <2>2, <2>3, WaitingIs DEF CopyIsOf
  <2> QED BY <1>1, <2>3, <2>4, <2>5, OneNode
<1> QED BY <1>4, <1>5, <1>6, <1>7, <1>8, <1>9, <1>10

\* A file of two pages had one page before its last one was written.
LEMMA Second ==
    ASSUME NEW l \in Nat
    PROVE  l + 1 = 2 <=> l = 1
OBVIOUS

\* io.Copy keeps it: page by page what is written is one version of the file.
LEMMA CopyInv ==
    ASSUME BackupInv, NEW n \in Node, CopyPage(n) \/ CopyFails(n)
    PROVE  BackupInv'
<1>0. PICK a \in Nat, f \in DbFile, c \in {"free", "snapshot", "backup"}, u \in UploadState :
        a = applied[n] /\ f = file[n] /\ c = cas[n] /\ u = uploader[n]
  BY DEF BackupInv, BackupTypeOK
<1>1. FileIsWhole(f, a, c) /\ CopyIsOf(u, f, a, c, failures)
  BY <1>0 DEF BackupInv, NodeOK
<1>t. BackupTypeOK
  BY DEF BackupInv
<1>2. /\ u.pc = "copy" /\ c = "backup" /\ u.page \in {0, 1} /\ u.fd \in Seq(Nat)
      /\ Len(u.fd) >= u.page /\ (Len(u.fd) # u.page => failures > 0)
      /\ Len(u.fd) = 1 /\ u.page = 1 => u.fd[1] = Reads(u, f)[1]
      /\ u.li <= a
  BY <1>0, <1>1 DEF CopyPage, CopyFails, At, CopyIsOf, UploadState
<1>3. PICK x \in Nat : Reads(u, f)[1] = x /\ Reads(u, f)[2] = x /\ x >= u.li
  BY <1>1, <1>2, Pages DEF CopyIsOf
<1>4. FileIsWhole(f, a, "free")
  BY <1>1, <1>2 DEF FileIsWhole
<1>5. CASE CopyFails(n)
  <2>1. PICK v : v = IF u.tries < NumRetries
                THEN [u EXCEPT !.pc = "wal", !.tries = @ + 1, !.fd = u.fd, !.src = NoFd, !.page = 0]
                ELSE Waiting
    OBVIOUS
  <2>2. /\ v \in UploadState
        /\ v = Waiting \/ (v.pc = "wal" /\ v.li = u.li /\ v.fd = u.fd /\ v.src = NoFd /\ v.page = 0)
    BY <2>1, RetryIs
  <2>3. /\ uploader' = [uploader EXCEPT ![n] = v] /\ cas' = [cas EXCEPT ![n] = "free"]
        /\ failures' = failures + 1
        /\ UNCHANGED <<applied, file, lastIndex, stored>>
    BY <1>0, <1>5, <2>1 DEF CopyFails, Retry, At, Go, dbVars
  <2>4. BackupTypeOK' /\ Becomes(n, a, f, "free", v) /\ OthersKept(n)
    BY <1>0, <1>t, <2>2, <2>3 DEF BackupTypeOK, Becomes, OthersKept
  <2>5. failures' > 0
    BY <1>t, <2>3 DEF BackupTypeOK
  <2>6. CopyIsOf(v, f, a, "free", failures')
    BY <1>2, <2>2, <2>5, WaitingIs DEF CopyIsOf
  <2> QED BY <1>4, <2>3, <2>4, <2>6, OneNode
<1>6. CASE CopyPage(n)
  <2>1. PICK p \in {"copy", "check"} : (p = "copy") <=> (u.page = 0)
    BY <1>2
  <2>2. PICK g : g = Append(u.fd, x)
    OBVIOUS
  <2>3. /\ g \in Seq(Nat) /\ Len(g) = Len(u.fd) + 1 /\ g[Len(u.fd) + 1] = x
        /\ \A i \in 1..Len(u.fd) : g[i] = u.fd[i]
    BY <1>2, <2>2
  <2>4. PICK k \in {1, 2} : k = u.page + 1
    BY <1>2
  <2>a. PICK v : v = IF p = "copy" THEN [u EXCEPT !.page = k, !.fd = g]
                     ELSE [[u EXCEPT !.page = k, !.fd = g] EXCEPT !.pc = "check"]
    OBVIOUS
  <2>5. /\ v \in UploadState /\ v.pc = p /\ v.li = u.li /\ v.src = u.src /\ v.page = k /\ v.fd = g
    BY <1>2, <2>1, <2>3, <2>a DEF UploadState
  <2>6. uploader' = [uploader EXCEPT ![n] = v]
    <3>1. Source(n) = Reads(u, f)
      BY <1>0 DEF Source, Reads
    <3>2. Source(n)[k] = x
      BY <1>3, <3>1
    <3>3. Copied(n) = [u EXCEPT !.page = k, !.fd = g]
      BY <1>0, <2>2, <2>4, <3>2 DEF Copied
    <3> QED BY <1>0, <1>2, <1>6, <2>1, <2>a, <3>3 DEF CopyPage, Go
  <2>7. /\ cas' = [cas EXCEPT ![n] = IF p = "copy" THEN "backup" ELSE "free"]
        /\ UNCHANGED <<applied, file, lastIndex, stored, failures>>
    BY <1>0, <1>2, <1>6, <1>t, <2>1 DEF CopyPage, dbVars, BackupTypeOK
  <2>8. BackupTypeOK' /\ Becomes(n, a, f, IF p = "copy" THEN "backup" ELSE "free", v) /\ OthersKept(n)
    BY <1>0, <1>t, <2>5, <2>6, <2>7 DEF BackupTypeOK, Becomes, OthersKept
  <2>9. FileIsWhole(f, a, IF p = "copy" THEN "backup" ELSE "free")
    BY <1>1, <1>2, <1>4
  <2>10. CASE p = "copy"
    <3>1. /\ Reads(v, f) = Reads(u, f) /\ Reads(u, f) \in DbFile /\ v.page = 1
      BY <1>1, <1>2, <2>1, <2>4, <2>5, <2>10 DEF Reads, CopyIsOf
    <3>2. Len(g) >= 1 /\ (Len(g) # 1 => failures > 0) /\ (Len(g) = 1 => g[1] = x)
      BY <1>2, <2>1, <2>3, <2>10
    <3>3. CopyIsOf(v, f, a, "backup", failures')
      BY <1>2, <1>3, <2>5, <2>7, <2>10, <3>1, <3>2 DEF CopyIsOf
    <3> QED BY <2>7, <2>8, <2>9, <2>10, <3>3, OneNode
  <2>11. CASE p = "check"
    <3>1. /\ Len(g) = 2 => g[1] = x /\ g[2] = x
          /\ Len(g) # 2 => failures > 0
      <4>1. u.page = 1
        BY <1>2, <2>1, <2>11
      <4>a. PICK l \in Nat : l = Len(u.fd) /\ Len(g) = l + 1
        <5>1. u.fd \in Seq(Nat)
          BY <1>2
        <5> QED BY <2>3, <5>1
      <4>2. ASSUME Len(g) = 2 PROVE g[1] = x /\ g[2] = x
        <5>b. l = 1
          BY <4>2, <4>a, Second
        <5>1. Len(u.fd) = 1
          BY <4>a, <5>b
        <5>2. g[1] = u.fd[1] /\ g[2] = x
          BY <2>3, <5>1
        <5> QED BY <1>2, <1>3, <4>1, <5>1, <5>2
      <4>3. Len(g) # 2 => failures > 0
        <5>1. PICK m : m = Len(g)
          OBVIOUS
        <5>2. m # 2 => l # 1
          BY <4>a, <5>1, Second
        <5>3. l # 1 => failures > 0
          BY <1>2, <4>1, <4>a
        <5> QED BY <5>1, <5>2, <5>3
      <4> QED BY <4>2, <4>3
    <3>2. CopyIsOf(v, f, a, "free", failures')
      BY <1>2, <1>3, <2>5, <2>7, <2>11, <3>1 DEF CopyIsOf, Upload
    <3> QED BY <2>7, <2>8, <2>9, <2>11, <3>2, OneNode
  <2> QED BY <2>10, <2>11
<1> QED BY <1>5, <1>6

\* What is uploaded is what was copied, whether the answer comes or not.
LEMMA UploadInv ==
    ASSUME BackupInv, NEW n \in Node, CheckID(n) \/ UploadOK(n) \/ UploadFails(n)
    PROVE  BackupInv'
<1>0. PICK a \in Nat, f \in DbFile, c \in {"free", "snapshot", "backup"}, u \in UploadState :
        a = applied[n] /\ f = file[n] /\ c = cas[n] /\ u = uploader[n]
  BY DEF BackupInv, BackupTypeOK
<1>1. FileIsWhole(f, a, c) /\ CopyIsOf(u, f, a, c, failures)
  BY <1>0 DEF BackupInv, NodeOK
<1>t. BackupTypeOK
  BY DEF BackupInv
<1>2. u.pc \in {"check", "upload"} /\ Upload(u.fd, u.li, failures) /\ u.li <= a /\ u.li \in Nat
      /\ u.fd \in Seq(Nat)
  BY <1>0, <1>1 DEF CheckID, UploadOK, UploadFails, At, CopyIsOf, UploadState
<1>3. PICK w : w = [u EXCEPT !.pc = "upload"]
  OBVIOUS
<1>4. w \in UploadState /\ w.pc = "upload" /\ w.li = u.li /\ w.fd = u.fd
  BY <1>3 DEF UploadState
<1>5. PICK o : o = [id |-> u.li, data |-> u.fd]
  OBVIOUS
<1>6. o \in [id : Nat, data : Seq(Nat)] /\ o.id = u.li /\ o.data = u.fd
  BY <1>2, <1>5
<1>7. PICK v \in {Waiting, w} :
        /\ uploader' = [uploader EXCEPT ![n] = v]
        /\ UNCHANGED <<applied, file, cas>>
        /\ stored' = stored \/ stored' = o
        /\ failures' = failures \/ failures' = failures + 1
        /\ lastIndex' = lastIndex \/ lastIndex' = [lastIndex EXCEPT ![n] = u.li]
  BY <1>0, <1>3, <1>5 DEF CheckID, UploadOK, UploadFails, Store, Go, dbVars
<1>8. BackupTypeOK' /\ Becomes(n, a, f, c, v) /\ OthersKept(n)
  <2>1. v \in UploadState
    BY <1>4, WaitingIs
  <2>2. stored' \in [id : Nat, data : Seq(Nat)]
    BY <1>6, <1>7, <1>t DEF BackupTypeOK
  <2>3. lastIndex' \in [Node -> Nat] /\ failures' \in Nat
    BY <1>2, <1>7, <1>t DEF BackupTypeOK
  <2>4. uploader' \in [Node -> UploadState] /\ uploader'[n] = v
        /\ \A m \in Node \ {n} : uploader'[m] = uploader[m]
    BY <1>7, <1>t, <2>1 DEF BackupTypeOK
  <2> QED BY <1>0, <1>7, <1>t, <2>2, <2>3, <2>4 DEF BackupTypeOK, Becomes, OthersKept
<1>9. Upload(u.fd, u.li, failures')
  BY <1>2, <1>7, <1>t DEF Upload, BackupTypeOK
<1>10. CopyIsOf(v, f, a, c, failures')
  BY <1>2, <1>4, <1>9, WaitingIs DEF CopyIsOf
<1>11. stored' = stored \/ Upload(stored'.data, stored'.id, failures)
  BY <1>2, <1>6, <1>7
<1> QED BY <1>1, <1>7, <1>8, <1>10, <1>11, OneNode

\* Every object that is stored under an index is a database as it was at that index
\* or later, for every number of nodes, changes, restarts and retries, or a copy of
\* it failed half-way (Store.Backup, Provider.Provide, Uploader.upload).
THEOREM StoredBackupIsWhole == BackupSpec => []StoredIsWhole
<1>1. BackupInv /\ UNCHANGED <<applied, file, cas, uploader, lastIndex, stored, failures>> => BackupInv'
  BY DEF BackupInv, BackupTypeOK, NodeOK, Upload
<1>2. BackupInv /\ [BackupNext]_backupVars => BackupInv'
  BY <1>1, DatabaseInv, PrepareInv, CopyInv, UploadInv
     DEF BackupNext, UploaderStep, CommitChange, LeaderMove, backupVars
<1>3. BackupInv => StoredIsWhole
  BY DEF BackupInv, Upload, StoredIsWhole
<1> QED BY <1>2, <1>3, BackupInitInv, PTL DEF BackupSpec

----------------------------------------------------------------------------
(* A node that starts from its disk.                                       *)

UpgradePc == {"copying", "rename"}
RecoverPc == {"recover", "refused", "replay", "persist", "compact", "renamePeers"}
OpenPc == {"down", "upgrade", "removeOld", "store", "raft", "open"} \cup UpgradePc \cup RecoverPc

Snapshot == [idx : Nat, db : Seq(Nat), conf : {"log", "peers"}]
RecoveryDb == [exists : BOOLEAN, main : Seq(Nat), base : Seq(Nat), wal : Seq(Nat)]

OpenTypeOK ==
    /\ pc \in OpenPc /\ old \in SUBSET (0..LastIndex) /\ rsnapshots \in BOOLEAN
    /\ latest \in Snapshot /\ first \in 1..LastIndex + 1 /\ configEntry \in Index
    /\ peers \in {"none", "valid", "invalid"} /\ recovery \in RecoveryDb
    /\ db \in Seq(Nat) /\ asked \in BOOLEAN /\ excused \in BOOLEAN

\* Which directory there is, at each step: the upgrade runs without the new one.
Directories ==
    /\ pc \in UpgradePc => ~rsnapshots /\ old # {}
    /\ pc \in RecoverPc \cup {"removeOld", "raft", "open"} => rsnapshots
    /\ ~rsnapshots => latest = NoSnap
    /\ pc = "store" => old = NoDir

\* A peers file is there until its configuration is in a snapshot no entry of the
\* log comes after.
PeersKept ==
    /\ pc \in RecoverPc => peers # "none"
    /\ pc \in {"raft", "open"} => peers = "none"
    /\ pc \in {"compact", "renamePeers"} => latest.conf = "peers"
    /\ pc = "renamePeers" => first = LastIndex + 1
    /\ peers # "none" => asked
    /\ asked /\ peers = "none" => rsnapshots /\ latest.conf = "peers" /\ first = LastIndex + 1
    /\ pc = "open" /\ asked => conf = "peers"

\* The newest snapshot and the log hold every entry between them.
NothingLost ==
    /\ latest.idx <= LastIndex /\ latest.db = UpTo(latest.idx)
    /\ rsnapshots => first <= latest.idx + 1
    /\ ~rsnapshots => first = 1 \/ \E i \in old : first <= i + 1

\* recovery.db at each step of a recovery.  Outside one it has no WAL, and it is
\* empty unless a snapshot will be copied over it.
RecoveryIsExact ==
    /\ pc \notin {"replay", "persist"} =>
          recovery.wal = << >> /\ (latest.idx = 0 => recovery.main = << >>)
    /\ pc = "replay" =>
          /\ recovery.main = UpTo(latest.idx) /\ recovery.wal = db
          /\ recovery.wal # << >> => recovery.base = recovery.main
          /\ latest.idx + Len(db) <= LastIndex
          /\ \A k \in 1..Len(db) : db[k] = latest.idx + k
    /\ pc = "persist" =>
          recovery.main = UpTo(LastIndex) /\ recovery.wal = << >> /\ latest.idx + Len(db) = LastIndex
    /\ pc \in {"compact", "renamePeers"} => latest.idx = LastIndex
    /\ pc = "open" => db = UpTo(LastIndex)

OpenInv ==
    /\ OpenTypeOK /\ Directories /\ PeersKept
    /\ ~excused => NothingLost /\ RecoveryIsExact

\* A set of naturals that is not empty and is bounded has a greatest element.
LEMMA GreatestNatural ==
    ASSUME NEW N \in Nat, NEW T, T \subseteq 0..N, T # {}
    PROVE  \E x \in T : \A y \in T : x >= y
<1> DEFINE R == OpToRel(<, Nat)  S == {N - x : x \in T}
<1>1. IsWellFoundedOn(R, Nat)
  BY NatLessThanWellFounded
<1>2. \A x, y \in Nat : y < x => <<y, x>> \in R
  BY DEF OpToRel
<1>a. \A x \in T : N - x \in Nat
  OBVIOUS
<1>3. S \subseteq Nat /\ S # {}
  BY <1>a, Zenon
<1> HIDE DEF R, S
<1>4. PICK z \in S : \A y \in S : ~(<<y, z>> \in R)
  BY <1>1, <1>3, WFMin, Zenon
<1>5. PICK x \in T : z = N - x
  BY <1>4 DEF S
<1>6. ASSUME NEW y \in T PROVE x >= y
  <2>1. N - y \in S /\ N - y \in Nat /\ z \in Nat /\ x \in Nat /\ y \in Nat
    BY <1>3, <1>4 DEF S
  <2>2. ~(N - y < z)
    BY <1>2, <1>4, <2>1
  <2> QED BY <1>5, <2>1, <2>2
<1> QED BY <1>6

\* The first i entries followed by the rest are all of them.
LEMMA UpToConcat ==
    ASSUME NEW i \in Nat, NEW j \in Nat, NEW s \in Seq(Nat), Len(s) = j,
           \A k \in 1..j : s[k] = i + k
    PROVE  UpTo(i) \o s = UpTo(i + j)
<1>1. UpTo(i) \in Seq(Nat) /\ Len(UpTo(i)) = i /\ \A k \in 1..i : UpTo(i)[k] = k
  BY DEF UpTo
<1>2. PICK u \in Seq(Nat) : u = UpTo(i)
  BY <1>1
<1>3. UpTo(i + j) = [k \in 1..(i + j) |-> k]
  BY DEF UpTo
<1>4. u \o s \in Seq(Nat) /\ Len(u \o s) = i + j
  BY <1>1, <1>2
<1>5. \A k \in 1..(i + j) : (u \o s)[k] = k
  BY <1>1, <1>2, <1>4
<1>6. u \o s = [k \in 1..(i + j) |-> (u \o s)[k]]
  <2>1. PICK w \in Seq(Nat) : w = u \o s
    BY <1>4
  <2>2. w = [k \in 1..Len(w) |-> w[k]]
    OBVIOUS
  <2> QED BY <1>4, <2>1, <2>2
<1> QED BY <1>2, <1>3, <1>5, <1>6

\* The snapshot of the first i entries.
LEMMA SnapAtIs ==
    ASSUME NEW i \in Nat
    PROVE  /\ SnapAt(i) \in Snapshot /\ SnapAt(i).idx = i
           /\ SnapAt(i).db = UpTo(i) /\ SnapAt(i).conf = "log"
BY DEF SnapAt, Snapshot, UpTo

\* A node that is not started yet has nothing of a recovery in hand.
LEMMA OpenInitInv == OpenInit => OpenInv
<1> SUFFICES ASSUME OpenInit PROVE OpenInv
  OBVIOUS
<1>1. /\ NoRecovery \in RecoveryDb /\ NoRecovery.wal = << >> /\ NoRecovery.main = << >>
  BY DEF NoRecovery, RecoveryDb
<1>2. /\ latest \in Snapshot /\ latest.idx \in 0..LastIndex /\ latest.db = UpTo(latest.idx)
      /\ ~rsnapshots => latest = NoSnap
      /\ old \in SUBSET (0..LastIndex) /\ rsnapshots \in BOOLEAN
  <2>1. CASE old = NoDir /\ rsnapshots = TRUE /\ latest \in {SnapAt(i) : i \in 0..LastIndex}
    BY <2>1, SnapAtIs, OpenParameters DEF NoDir
  <2>2. CASE old \in SUBSET Index /\ rsnapshots = FALSE /\ latest = NoSnap
    <3>1. /\ latest \in Snapshot /\ latest.idx = 0 /\ latest.db = UpTo(0)
      BY <2>2, SnapAtIs DEF NoSnap
    <3>2. Index \subseteq 0..LastIndex /\ 0 \in 0..LastIndex
      BY OpenParameters DEF Index
    <3> QED BY <2>2, <3>1, <3>2
  <2> QED BY <2>1, <2>2 DEF OpenInit
<1>3. /\ first \in 1..LastIndex + 1
      /\ rsnapshots => first <= latest.idx + 1
      /\ ~rsnapshots => first = 1 \/ \E i \in old : first <= i + 1
  <2>1. CASE rsnapshots = TRUE /\ first \in 1..latest.idx + 1
    BY <1>2, <2>1, OpenParameters
  <2>2. CASE rsnapshots = FALSE /\ first \in 1..LastIndex + 1 /\ (first = 1 \/ \E i \in old : first <= i + 1)
    BY <2>2
  <2> QED BY <2>1, <2>2 DEF OpenInit
<1>4. OpenTypeOK
  <2>1. pc \in OpenPc /\ db \in Seq(Nat) /\ asked \in BOOLEAN /\ excused \in BOOLEAN
    <3>1. asked \in BOOLEAN /\ excused \in BOOLEAN
      BY Zenon DEF OpenInit
    <3> QED BY <3>1 DEF OpenInit, OpenPc
  <2>2. configEntry \in Index /\ peers \in {"none", "valid", "invalid"} /\ recovery \in RecoveryDb
    BY <1>1 DEF OpenInit
  <2> QED BY <1>2, <1>3, <2>1, <2>2 DEF OpenTypeOK
<1>5. Directories /\ PeersKept
  BY <1>2 DEF OpenInit, Directories, PeersKept, UpgradePc, RecoverPc
<1>6. NothingLost
  BY <1>2, <1>3, OpenParameters DEF NothingLost
<1>7. RecoveryIsExact
  BY <1>1 DEF OpenInit, RecoveryIsExact
<1> QED BY <1>4, <1>5, <1>6, <1>7 DEF OpenInv

\* The upgrade takes the newest snapshot, and removes the old directory only when
\* the new one has replaced it or nothing was in it.
LEMMA UpgradeInv ==
    ASSUME OpenInv,
           \/ \E autoRestore \in BOOLEAN : HasData(autoRestore)
           \/ UpgradeNotNeeded \/ UpgradeBegin \/ UpgradeCopy \/ UpgradeRename \/ UpgradeDone
           \/ NewStore
    PROVE  OpenInv'
<1> USE DEF Step, UpgradePc, RecoverPc
<1>0. OpenTypeOK /\ Directories /\ PeersKept
  BY DEF OpenInv
<1>1. ASSUME NEW a \in BOOLEAN, HasData(a) PROVE OpenInv'
  <2>1. OpenTypeOK' /\ Directories' /\ PeersKept'
    BY <1>0, <1>1 DEF HasData, OpenTypeOK, OpenPc, Directories, PeersKept, Index
  <2>2. ~excused' => NothingLost' /\ RecoveryIsExact'
    <3> SUFFICES ASSUME ~excused' PROVE NothingLost' /\ RecoveryIsExact'
      OBVIOUS
    <3>1. ~excused /\ rsnapshots' = rsnapshots
      BY <1>0, <1>1 DEF HasData, OpenTypeOK
    <3> QED BY <1>1, <3>1 DEF OpenInv, HasData, NothingLost, RecoveryIsExact
  <2> QED BY <2>1, <2>2 DEF OpenInv
<1>2. CASE UpgradeNotNeeded
  <2>1. OpenTypeOK' /\ Directories' /\ PeersKept'
    BY <1>0, <1>2, OpenParameters
       DEF UpgradeNotNeeded, histVars, NoDir, OpenTypeOK, OpenPc, Directories, PeersKept, Index
  <2>2. ~excused' => NothingLost' /\ RecoveryIsExact'
    BY <1>0, <1>2 DEF OpenInv, UpgradeNotNeeded, histVars, NoDir, NothingLost, RecoveryIsExact, OpenTypeOK
  <2> QED BY <2>1, <2>2 DEF OpenInv
<1>3. CASE UpgradeBegin \/ UpgradeCopy
  <2>1. OpenTypeOK' /\ Directories' /\ PeersKept'
    <3>1. /\ pc \in {"upgrade", "copying"} /\ pc' \in {"copying", "rename"} /\ old # {} /\ ~rsnapshots
          /\ UNCHANGED <<old, rsnapshots, latest, first, configEntry, peers, recovery, db, conf>>
          /\ UNCHANGED <<asked, excused>>
      BY <1>0, <1>3 DEF UpgradeBegin, UpgradeCopy, histVars, Directories
    <3>2. OpenTypeOK'
      BY <1>0, <3>1 DEF OpenTypeOK, OpenPc, Index
    <3> QED BY <1>0, <3>1, <3>2 DEF Directories, PeersKept
  <2>2. ~excused' => NothingLost' /\ RecoveryIsExact'
    BY <1>3 DEF OpenInv, UpgradeBegin, UpgradeCopy, histVars, NothingLost, RecoveryIsExact
  <2> QED BY <2>1, <2>2 DEF OpenInv
<1>4. CASE UpgradeRename
  <2>1. old # {} /\ old \subseteq 0..LastIndex /\ ~rsnapshots
    BY <1>0, <1>4 DEF UpgradeRename, Directories, OpenTypeOK
  <2>2. PICK i \in Nat : /\ i = getNewest7Snapshot /\ i \in old /\ i <= LastIndex
                         /\ \A j \in old : i >= j
    <3>1. \E i \in old : \A j \in old : i >= j
      BY <2>1, GreatestNatural, OpenParameters
    <3>2. getNewest7Snapshot \in old /\ \A j \in old : getNewest7Snapshot >= j
      BY <3>1 DEF getNewest7Snapshot
    <3> QED BY <2>1, <3>2, OpenParameters
  <2>3. PICK s : s = SnapAt(i)
    OBVIOUS
  <2>4. s \in Snapshot /\ s.idx = i /\ s.db = UpTo(i)
    BY <2>3, SnapAtIs
  <2>5. latest' = s /\ rsnapshots' = TRUE
    BY <1>4, <2>2, <2>3 DEF UpgradeRename
  <2>6. OpenTypeOK' /\ Directories'
    BY <1>0, <1>4, <2>4, <2>5 DEF UpgradeRename, histVars, OpenTypeOK, OpenPc, Directories, Index
  <2>7. PeersKept'
    BY <1>0, <1>4, <2>1 DEF UpgradeRename, histVars, PeersKept
  <2>8. ~excused' => NothingLost' /\ RecoveryIsExact'
    <3> SUFFICES ASSUME ~excused' PROVE NothingLost' /\ RecoveryIsExact'
      OBVIOUS
    <3>1. ~excused /\ UNCHANGED <<first, old, recovery, db>> /\ pc = "rename" /\ pc' = "removeOld"
      BY <1>4 DEF UpgradeRename, histVars
    <3>2. first <= i + 1
      <4>1. first \in Nat /\ old \subseteq Nat
        BY <1>0, <2>1, OpenParameters DEF OpenTypeOK
      <4>2. first = 1 \/ \E j \in old : first <= j + 1
        BY <2>1, <3>1 DEF OpenInv, NothingLost
      <4> QED BY <2>2, <4>1, <4>2
    <3>3. NothingLost'
      BY <2>2, <2>4, <2>5, <3>1, <3>2 DEF NothingLost
    <3>4. recovery.wal = << >> /\ recovery.main = << >>
      <4>1. latest.idx = 0
        BY <1>0, <2>1, SnapAtIs DEF Directories, NoSnap
      <4> QED BY <3>1, <4>1 DEF OpenInv, RecoveryIsExact
    <3>5. RecoveryIsExact'
      BY <3>1, <3>4 DEF RecoveryIsExact
    <3> QED BY <3>3, <3>5
  <2> QED BY <2>6, <2>7, <2>8 DEF OpenInv
<1>5. CASE UpgradeDone
  <2>1. OpenTypeOK' /\ Directories' /\ PeersKept'
    BY <1>0, <1>5, OpenParameters
       DEF UpgradeDone, histVars, NoDir, OpenTypeOK, OpenPc, Directories, PeersKept, Index
  <2>2. ~excused' => NothingLost' /\ RecoveryIsExact'
    BY <1>0, <1>5 DEF OpenInv, UpgradeDone, histVars, NothingLost, RecoveryIsExact, Directories
  <2> QED BY <2>1, <2>2 DEF OpenInv
<1>6. CASE NewStore
  <2>1. OpenTypeOK' /\ Directories' /\ PeersKept'
    BY <1>0, <1>6
       DEF NewStore, histVars, OpenTypeOK, OpenPc, Directories, PeersKept, Index
  <2>2. ~excused' => NothingLost' /\ RecoveryIsExact'
    BY <1>0, <1>6, SnapAtIs
       DEF OpenInv, NewStore, histVars, NothingLost, RecoveryIsExact, Directories, NoSnap, NoDir
  <2> QED BY <2>1, <2>2 DEF OpenInv
<1> QED BY <1>1, <1>2, <1>3, <1>4, <1>5, <1>6

\* What SQLite makes of a WAL that was written for its main file, or of none.
LEMMA RecoveredIs ==
    ASSUME NEW r \in RecoveryDb, r.wal # << >> => r.base = r.main
    PROVE  RecoveredDb(r) = r.main \o r.wal
<1>1. r.wal = << >> => r.main \o r.wal = r.main
  BY DEF RecoveryDb
<1> QED BY <1>1, Zenon DEF RecoveredDb

\* A WAL makes a sequence of entries of the main file, or shows as a mixture.
LEMMA RecoveredType ==
    ASSUME NEW r \in RecoveryDb
    PROVE  RecoveredDb(r) \in Seq(Nat)
<1>1. r.main \in Seq(Nat) /\ r.main \o r.wal \in Seq(Nat) /\ Mixed \in Seq(Nat)
  BY DEF RecoveryDb, Mixed
<1> QED BY <1>1, Zenon DEF RecoveredDb

\* The records of recovery.db that the steps of a recovery make of one another.
LEMMA RecoveryWal ==
    ASSUME NEW r \in RecoveryDb, NEW w \in Seq(Nat)
    PROVE  LET q == [r EXCEPT !.wal = w] IN
           q \in RecoveryDb /\ q.main = r.main /\ q.base = r.base /\ q.wal = w
BY DEF RecoveryDb

\* A checkpoint of recovery.db: the base of the new snapshot is its main file.
LEMMA RecoveryBase ==
    ASSUME NEW r \in RecoveryDb, NEW w \in Seq(Nat)
    PROVE  LET q == [r EXCEPT !.base = r.main, !.wal = w] IN
           q \in RecoveryDb /\ q.main = r.main /\ q.base = r.main /\ q.wal = w
BY DEF RecoveryDb

\* recovery.db once its file is removed, with whatever WAL is left beside it.
LEMMA RecoveryGone ==
    ASSUME NEW r \in RecoveryDb, NEW m \in Seq(Nat)
    PROVE  LET q == [r EXCEPT !.exists = FALSE, !.main = m] IN
           q \in RecoveryDb /\ q.main = m /\ q.wal = r.wal
BY DEF RecoveryDb

\* An empty main file is the database without entries.
LEMMA UpToZero == UpTo(0) = << >>
BY DEF UpTo

\* The entries past the snapshot are replayed upon a copy of it, each once, and
\* what they make becomes the snapshot that replaces the log.
LEMMA RecoverInv ==
    ASSUME OpenInv,
           \/ checkRaftConfiguration \/ RecoverCopy \/ RecoverReplay \/ RecoverCheckpoint
           \/ RecoverPersist \/ RecoverCompact \/ RenamePeers
    PROVE  OpenInv'
<1> USE DEF Step, UpgradePc, RecoverPc
<1>0. OpenTypeOK /\ Directories /\ PeersKept
  BY DEF OpenInv
<1>a. PICK l \in Snapshot, r \in RecoveryDb, d \in Seq(Nat) : l = latest /\ r = recovery /\ d = db
  BY <1>0 DEF OpenTypeOK
<1>b. /\ l.idx \in Nat /\ l.db \in Seq(Nat) /\ r.main \in Seq(Nat) /\ r.base \in Seq(Nat) /\ r.wal \in Seq(Nat)
      /\ Len(d) \in Nat /\ r.exists \in BOOLEAN
  BY DEF Snapshot, RecoveryDb
<1>n. LastIndex \in Nat /\ LastIndex > 0
  BY OpenParameters
<1>1. CASE checkRaftConfiguration
  BY <1>0, <1>1 DEF checkRaftConfiguration, diskVars, histVars, OpenInv, OpenTypeOK, OpenPc, Directories,
                    PeersKept, NothingLost, RecoveryIsExact, Index
<1>2. CASE RecoverCopy
  <2>1. PICK q : q = [exists |-> TRUE,
                      main |-> IF l.idx > 0 THEN l.db ELSE r.main,
                      base |-> r.base,
                      wal  |-> IF l.idx = 0 /\ ~r.exists THEN << >> ELSE r.wal]
    OBVIOUS
  <2>2. q \in RecoveryDb /\ (r.wal = << >> => q.wal = << >>)
        /\ q.main = IF l.idx > 0 THEN l.db ELSE r.main
    BY <1>b, <2>1 DEF RecoveryDb
  <2>3. /\ pc = "recover" /\ pc' = "replay" /\ recovery' = q /\ db' = << >>
        /\ UNCHANGED <<old, rsnapshots, latest, first, configEntry, peers, asked, excused>>
    BY <1>2, <1>a, <2>1 DEF RecoverCopy, histVars
  <2>4. OpenTypeOK' /\ Directories' /\ PeersKept'
    BY <1>0, <2>2, <2>3 DEF OpenTypeOK, OpenPc, Directories, PeersKept, Index
  <2>5. ~excused' => NothingLost' /\ RecoveryIsExact'
    <3> SUFFICES ASSUME ~excused' PROVE NothingLost' /\ RecoveryIsExact'
      OBVIOUS
    <3>1. NothingLost /\ RecoveryIsExact
      BY <2>3 DEF OpenInv
    <3>2. NothingLost'
      BY <2>3, <3>1 DEF NothingLost
    <3>3. q.main = UpTo(l.idx) /\ q.wal = << >>
      BY <1>a, <1>b, <2>2, <2>3, <3>1, UpToZero DEF NothingLost, RecoveryIsExact
    <3>4. l.idx + Len(<< >>) <= LastIndex
      BY <1>a, <1>b, <3>1 DEF NothingLost
    <3>5. RecoveryIsExact'
      BY <1>a, <2>3, <3>3, <3>4 DEF RecoveryIsExact
    <3> QED BY <3>2, <3>5
  <2> QED BY <2>4, <2>5 DEF OpenInv
<1>3. CASE RecoverReplay
  <2>1. PICK x \in Nat : x = l.idx + 1 + Len(d)
    BY <1>b
  <2>2. PICK q : q = IF r.wal = << >> THEN [r EXCEPT !.base = r.main, !.wal = <<x>>]
                     ELSE [r EXCEPT !.wal = Append(@, x)]
    OBVIOUS
  <2>3. PICK e : e = Append(d, x)
    OBVIOUS
  <2>4. /\ e \in Seq(Nat) /\ Len(e) = Len(d) + 1 /\ e[Len(d) + 1] = x
        /\ \A k \in 1..Len(d) : e[k] = d[k]
    BY <2>3
  <2>5. /\ q \in RecoveryDb /\ q.main = r.main /\ q.wal = Append(r.wal, x)
        /\ q.base = IF r.wal = << >> THEN r.main ELSE r.base
    <3>1. CASE r.wal = << >>
      <4>1. q = [r EXCEPT !.base = r.main, !.wal = <<x>>]
        BY <2>2, <3>1
      <4>2. <<x>> \in Seq(Nat) /\ <<x>> = Append(r.wal, x)
        BY <3>1
      <4> QED BY <3>1, <4>1, <4>2, RecoveryBase
    <3>2. CASE r.wal # << >>
      <4>1. q = [r EXCEPT !.wal = Append(r.wal, x)]
        BY <2>2, <3>2
      <4>2. Append(r.wal, x) \in Seq(Nat)
        BY <1>b
      <4> QED BY <3>2, <4>1, <4>2, RecoveryWal
    <3> QED BY <3>1, <3>2
  <2>6. /\ pc = "replay" /\ pc' = pc /\ recovery' = q /\ db' = e /\ x \in first..LastIndex
        /\ UNCHANGED <<old, rsnapshots, latest, first, configEntry, peers, asked, excused>>
    BY <1>3, <1>a, <2>1, <2>2, <2>3 DEF RecoverReplay, histVars, ReplayFrom, Replayed
  <2>7. OpenTypeOK' /\ Directories' /\ PeersKept'
    BY <1>0, <2>4, <2>5, <2>6 DEF OpenTypeOK, OpenPc, Directories, PeersKept, Index
  <2>8. ~excused' => NothingLost' /\ RecoveryIsExact'
    <3> SUFFICES ASSUME ~excused' PROVE NothingLost' /\ RecoveryIsExact'
      OBVIOUS
    <3>1. NothingLost /\ RecoveryIsExact
      BY <2>6 DEF OpenInv
    <3>2. NothingLost'
      BY <2>6, <3>1 DEF NothingLost
    <3>3. /\ r.main = UpTo(l.idx) /\ r.wal = d /\ (r.wal # << >> => r.base = r.main)
          /\ \A k \in 1..Len(d) : d[k] = l.idx + k
      BY <1>a, <2>6, <3>1 DEF RecoveryIsExact
    <3>4. q.main = UpTo(l.idx) /\ q.wal = e /\ q.base = q.main
      BY <2>3, <2>5, <3>3
    <3>5. l.idx + Len(e) <= LastIndex /\ \A k \in 1..Len(e) : e[k] = l.idx + k
      <4>1. first \in Nat
        BY <1>0 DEF OpenTypeOK
      <4>2. l.idx + Len(e) = x
        <5>1. PICK n \in Nat : n = Len(d)
          BY <1>b
        <5>2. Len(e) = n + 1 /\ x = l.idx + 1 + n
          BY <2>1, <2>4, <5>1
        <5>3. PICK i \in Nat : i = l.idx
          BY <1>b
        <5>4. i + (n + 1) = i + 1 + n
          OBVIOUS
        <5> QED BY <5>2, <5>3, <5>4
      <4>3. x <= LastIndex
        BY <1>n, <2>6, <4>1
      <4>4. ASSUME NEW k \in 1..Len(e) PROVE e[k] = l.idx + k
        <5>1. k \in 1..Len(d) \/ k = Len(d) + 1
          BY <1>b, <2>4
        <5> QED BY <1>b, <2>1, <2>4, <3>3, <5>1
      <4> QED BY <4>2, <4>3, <4>4
    <3>6. RecoveryIsExact'
      BY <1>a, <2>6, <3>4, <3>5 DEF RecoveryIsExact
    <3> QED BY <3>2, <3>6
  <2> QED BY <2>7, <2>8 DEF OpenInv
<1>4. CASE RecoverCheckpoint
  <2>1. PICK m \in Seq(Nat) : m = RecoveredDb(r)
    BY RecoveredType
  <2>2. PICK q : q = [exists |-> TRUE, main |-> m, base |-> << >>, wal |-> << >>]
    OBVIOUS
  <2>3. q \in RecoveryDb /\ q.main = m /\ q.wal = << >>
    BY <2>2 DEF RecoveryDb
  <2>4. /\ pc = "replay" /\ pc' = "persist" /\ recovery' = q
        /\ l.idx + 1 + Len(d) \notin first..LastIndex
        /\ UNCHANGED <<old, rsnapshots, latest, first, configEntry, peers, db, asked, excused>>
    BY <1>4, <1>a, <2>1, <2>2 DEF RecoverCheckpoint, histVars, ReplayFrom, Replayed
  <2>5. OpenTypeOK' /\ Directories' /\ PeersKept'
    BY <1>0, <2>3, <2>4 DEF OpenTypeOK, OpenPc, Directories, PeersKept, Index
  <2>6. ~excused' => NothingLost' /\ RecoveryIsExact'
    <3> SUFFICES ASSUME ~excused' PROVE NothingLost' /\ RecoveryIsExact'
      OBVIOUS
    <3>1. NothingLost /\ RecoveryIsExact
      BY <2>4 DEF OpenInv
    <3>2. NothingLost'
      BY <2>4, <3>1 DEF NothingLost
    <3>3. /\ r.main = UpTo(l.idx) /\ r.wal = d /\ (r.wal # << >> => r.base = r.main)
          /\ l.idx + Len(d) <= LastIndex
          /\ \A k \in 1..Len(d) : d[k] = l.idx + k
      BY <1>a, <2>4, <3>1 DEF RecoveryIsExact
    <3>4. l.idx + Len(d) = LastIndex
      <4>1. first \in Nat /\ first <= l.idx + 1
        BY <1>0, <1>a, <2>4, <3>1 DEF OpenTypeOK, NothingLost, Directories
      <4>2. PICK n \in Nat : n = Len(d)
        BY <1>b
      <4>3. l.idx + n <= LastIndex /\ l.idx + 1 + n \notin first..LastIndex
        BY <2>4, <3>3, <4>2
      <4>4. l.idx + n = LastIndex
        <5>1. PICK i \in Nat : i = l.idx
          BY <1>b
        <5>2. first <= i + 1 /\ i + n <= LastIndex /\ i + 1 + n \notin first..LastIndex
          BY <4>1, <4>3, <5>1
        <5>3. i + n = LastIndex
          BY <1>n, <4>1, <5>2
        <5> QED BY <5>1, <5>3
      <4> QED BY <4>2, <4>4
    <3>5. m = UpTo(LastIndex)
      <4>1. m = UpTo(l.idx) \o d
        BY <2>1, <3>3, RecoveredIs
      <4>2. UpTo(l.idx) \o d = UpTo(l.idx + Len(d))
        BY <1>b, <3>3, UpToConcat
      <4> QED BY <3>4, <4>1, <4>2
    <3>6. RecoveryIsExact'
      BY <1>a, <2>3, <2>4, <3>4, <3>5 DEF RecoveryIsExact
    <3> QED BY <3>2, <3>6
  <2> QED BY <2>5, <2>6 DEF OpenInv
<1>5. CASE RecoverPersist
  <2>1. PICK s : s = [idx |-> l.idx + Len(d), db |-> r.main, conf |-> "peers"]
    OBVIOUS
  <2>2. s \in Snapshot /\ s.idx = l.idx + Len(d) /\ s.db = r.main /\ s.conf = "peers"
    BY <1>b, <2>1 DEF Snapshot
  <2>3. /\ pc = "persist" /\ pc' = "compact" /\ latest' = s
        /\ UNCHANGED <<old, rsnapshots, first, configEntry, peers, recovery, db, asked, excused>>
    BY <1>5, <1>a, <2>1 DEF RecoverPersist, histVars, Replayed
  <2>4. OpenTypeOK' /\ Directories' /\ PeersKept'
    BY <1>0, <2>2, <2>3 DEF OpenTypeOK, OpenPc, Directories, PeersKept, Index
  <2>5. ~excused' => NothingLost' /\ RecoveryIsExact'
    <3> SUFFICES ASSUME ~excused' PROVE NothingLost' /\ RecoveryIsExact'
      OBVIOUS
    <3>1. NothingLost /\ RecoveryIsExact
      BY <2>3 DEF OpenInv
    <3>2. r.main = UpTo(LastIndex) /\ r.wal = << >> /\ l.idx + Len(d) = LastIndex
      BY <1>a, <2>3, <3>1 DEF RecoveryIsExact
    <3>3. first \in Nat /\ first <= LastIndex + 1 /\ rsnapshots
      BY <1>0, <2>3, <1>n DEF OpenTypeOK, Directories
    <3>4. NothingLost'
      BY <1>n, <2>2, <2>3, <3>2, <3>3 DEF NothingLost
    <3>5. RecoveryIsExact'
      BY <1>a, <1>n, <2>2, <2>3, <3>2 DEF RecoveryIsExact
    <3> QED BY <3>4, <3>5
  <2> QED BY <2>4, <2>5 DEF OpenInv
<1>6. CASE RecoverCompact
  <2>1. PICK q : q = [r EXCEPT !.exists = FALSE, !.main = << >>]
    OBVIOUS
  <2>2. q \in RecoveryDb /\ q.main = << >> /\ q.wal = r.wal
    <3>1. << >> \in Seq(Nat)
      OBVIOUS
    <3> QED BY <2>1, <3>1, RecoveryGone
  <2>3. /\ pc = "compact" /\ pc' = "renamePeers" /\ recovery' = q /\ first' = LastIndex + 1
        /\ UNCHANGED <<old, rsnapshots, latest, configEntry, peers, db, conf, asked, excused>>
    BY <1>6, <1>a, <2>1 DEF RecoverCompact, histVars
  <2>4. OpenTypeOK' /\ Directories' /\ PeersKept'
    BY <1>0, <1>n, <2>2, <2>3 DEF OpenTypeOK, OpenPc, Directories, PeersKept, Index
  <2>5. ~excused' => NothingLost' /\ RecoveryIsExact'
    BY <1>0, <1>a, <1>n, <2>2, <2>3 DEF OpenInv, NothingLost, RecoveryIsExact, Directories
  <2> QED BY <2>4, <2>5 DEF OpenInv
<1>7. CASE RenamePeers
  <2>1. OpenTypeOK' /\ Directories' /\ PeersKept'
    BY <1>0, <1>7 DEF RenamePeers, histVars, OpenTypeOK, OpenPc, Directories, PeersKept, Index
  <2>2. ~excused' => NothingLost' /\ RecoveryIsExact'
    BY <1>7 DEF RenamePeers, histVars, OpenInv, NothingLost, RecoveryIsExact
  <2> QED BY <2>1, <2>2 DEF OpenInv
<1> QED BY <1>1, <1>2, <1>3, <1>4, <1>5, <1>6, <1>7

\* Raft restores the snapshot and applies what the log holds past it; a death
\* amid a recovery is excused.
LEMMA StartInv ==
    ASSUME OpenInv, NewRaft \/ Crash
    PROVE  OpenInv'
<1> USE DEF Step, UpgradePc, RecoverPc
<1>0. OpenTypeOK /\ Directories /\ PeersKept
  BY DEF OpenInv
<1>a. PICK l \in Snapshot : l = latest
  BY <1>0 DEF OpenTypeOK
<1>b. l.idx \in Nat /\ l.db \in Seq(Nat)
  BY DEF Snapshot
<1>n. LastIndex \in Nat /\ LastIndex > 0 /\ first \in Nat /\ configEntry <= LastIndex /\ configEntry \in Nat
  BY <1>0, OpenParameters DEF OpenTypeOK, Index
<1>1. CASE NewRaft
  <2>1. PICK t : t = [k \in 1..LastIndex - l.idx |-> IF l.idx + k >= first THEN l.idx + k ELSE 0]
    OBVIOUS
  <2>2. t \in Seq(Nat)
    <3>1. CASE l.idx <= LastIndex
      BY <1>b, <1>n, <2>1, <3>1
    <3>2. CASE ~(l.idx <= LastIndex)
      <4>1. 1..LastIndex - l.idx = {}
        BY <1>b, <1>n, <3>2
      <4>2. t = << >>
        BY <2>1, <4>1
      <4> QED BY <4>2
    <3> QED BY <3>1, <3>2
  <2>3. /\ pc = "raft" /\ pc' = "open" /\ db' = l.db \o t
        /\ UNCHANGED <<old, rsnapshots, latest, first, configEntry, peers, recovery, asked, excused>>
        /\ conf' = IF configEntry > l.idx /\ configEntry >= first THEN "log" ELSE l.conf
    BY <1>1, <1>a, <2>1 DEF NewRaft, diskVars, histVars
  <2>4. db' \in Seq(Nat)
    BY <1>b, <2>2, <2>3
  <2>5. asked => conf' = "peers"
    <3>1. asked => l.conf = "peers" /\ first = LastIndex + 1
      BY <1>0, <1>a, <2>3 DEF PeersKept
    <3> QED BY <1>n, <2>3, <3>1
  <2>6. OpenTypeOK' /\ Directories' /\ PeersKept'
    BY <1>0, <2>3, <2>4, <2>5 DEF OpenTypeOK, OpenPc, Directories, PeersKept, Index
  <2>7. ~excused' => NothingLost' /\ RecoveryIsExact'
    <3> SUFFICES ASSUME ~excused' PROVE NothingLost' /\ RecoveryIsExact'
      OBVIOUS
    <3>1. NothingLost /\ RecoveryIsExact
      BY <2>3 DEF OpenInv
    <3>2. NothingLost'
      BY <2>3, <3>1 DEF NothingLost
    <3>3. l.idx <= LastIndex /\ l.db = UpTo(l.idx) /\ first <= l.idx + 1
      BY <1>0, <1>a, <2>3, <3>1 DEF NothingLost, Directories
    <3>4. PICK j \in Nat : j = LastIndex - l.idx
      BY <1>b, <1>n, <3>3
    <3>5. Len(t) = j /\ \A k \in 1..j : t[k] = l.idx + k
      BY <1>b, <1>n, <2>1, <3>3, <3>4
    <3>6. UpTo(l.idx) \o t = UpTo(l.idx + j)
      BY <1>b, <2>2, <3>5, UpToConcat
    <3>7. l.idx + j = LastIndex
      BY <1>b, <1>n, <3>4
    <3>8. db' = UpTo(LastIndex)
      BY <2>3, <3>3, <3>6, <3>7
    <3>9. RecoveryIsExact'
      BY <2>3, <3>1, <3>8 DEF RecoveryIsExact
    <3> QED BY <3>2, <3>9
  <2> QED BY <2>6, <2>7 DEF OpenInv
<1>2. CASE Crash
  <2>1. OpenTypeOK' /\ Directories' /\ PeersKept'
    <3>1. excused' \in BOOLEAN
      BY <1>2, Zenon DEF Crash
    <3>2. /\ pc' = "down" /\ db' = << >>
          /\ UNCHANGED <<old, rsnapshots, latest, first, configEntry, peers, recovery, asked>>
      BY <1>2 DEF Crash, diskVars
    <3> QED BY <1>0, <3>1, <3>2 DEF OpenTypeOK, OpenPc, Directories, PeersKept, Index
  <2>2. ~excused' => NothingLost' /\ RecoveryIsExact'
    BY <1>0, <1>2 DEF Crash, diskVars, OpenInv, NothingLost, RecoveryIsExact, OpenTypeOK
  <2> QED BY <2>1, <2>2 DEF OpenInv
<1> QED BY <1>1, <1>2

\* A node that opens has every entry of the log, once, and the configuration that
\* a peers file gave, for every log, every version 7 or 8 data directory and every
\* number of deaths on the way (Store.Open, Upgrade7To8, RecoverNode); a death
\* while it recovers, and version 7 data with an automatic restore, are excused.
THEOREM OpenedNodeIsExact == OpenSpec => []OpenedIsExact
<1>1. OpenInv /\ UNCHANGED openVars => OpenInv'
  BY DEF OpenInv, openVars, OpenTypeOK, Directories, PeersKept, NothingLost, RecoveryIsExact
<1>2. OpenInv /\ [OpenNext]_openVars => OpenInv'
  BY <1>1, UpgradeInv, RecoverInv, StartInv DEF OpenNext
<1>3. OpenInv => OpenedIsExact
  BY DEF OpenInv, PeersKept, RecoveryIsExact, OpenedIsExact, PeersUsed
<1> QED BY <1>2, <1>3, OpenInitInv, PTL DEF OpenSpec

----------------------------------------------------------------------------
(* Databases loaded in chunks.                                             *)

ChunkEntry == [kind : {"chunk"}, of : Streams, seq : Nat, last : BOOLEAN, data : Seq(Nat)]
LogEntry == ChunkEntry \cup [kind : {"abort"}, of : Streams] \cup [kind : {"write"}]
Db == [of : Streams \cup {"none"}, file : Seq(Nat), writes : SUBSET Nat]
Dechunker == [seq : Nat, file : Seq(Nat)]
ReplicaState == [idx : Nat, db : Db, dec : [Streams -> Dechunker]]

ChunkerState == [read : Nat, seq : Nat, finished : BOOLEAN]

ChunkTypeOK ==
    /\ chunker \in [Streams -> ChunkerState]
    /\ clog \in Seq(LogEntry)
    /\ replica \in [Replicas -> ReplicaState]
    /\ csnap \in [Replicas -> [idx : Nat, db : Db]]

\* The number of chunks that the Chunker c may have in the log.
Sent(c) == c.seq + (IF c.finished THEN 1 ELSE 0)

\* A file of len bytes was cut as f says: its chunk k ends at byte f[k].
ChunkerAt(f, c, len) ==
    /\ f[0] = 0 /\ c.read <= len
    /\ ~c.finished => f[c.seq] = c.read

CutAsSent(f, e, sent, len) ==
    /\ e.seq > 0 /\ e.seq <= sent
    /\ f[e.seq - 1] <= f[e.seq]
    /\ e.data = Bytes(f[e.seq - 1], f[e.seq])
    /\ e.last => f[e.seq] = len

\* The Dechunker d has put the chunks together up to one of them.
PutTogether(f, d, sent) == d.seq <= sent /\ d.file = Bytes(0, f[d.seq])

CutBy(E) ==
    /\ \A s \in Streams : ChunkerAt(E[s], chunker[s], FileLen[s])
    /\ \A i \in 1..Len(clog) : clog[i].kind = "chunk" =>
         CutAsSent(E[clog[i].of], clog[i], Sent(chunker[clog[i].of]), FileLen[clog[i].of])
    /\ \A n \in Replicas, s \in Streams : PutTogether(E[s], replica[n].dec[s], Sent(chunker[s]))

WholeDb(b) == b.of # "none" => b.file = WholeFile(b.of)

LoadInv ==
    /\ ChunkTypeOK
    /\ \A n \in Replicas : WholeDb(replica[n].db) /\ WholeDb(csnap[n].db)
    /\ \E E \in [Streams -> [Nat -> Nat]] : CutBy(E)

\* What the chunk e makes of a Dechunker, and of the database.
NewDec(d, e) == IF e.last /\ InSequence(d, e) THEN NoDechunker ELSE WriteChunk(d, e)
NewDb(b, d, e) == IF Loads(d, e) THEN [of |-> e.of, file |-> WriteChunk(d, e).file, writes |-> {}] ELSE b

\* The bytes of a file, in two parts.
LEMMA BytesJoin ==
    ASSUME NEW a \in Nat, NEW b \in Nat, a <= b
    PROVE  /\ Bytes(0, a) \in Seq(Nat) /\ Bytes(a, b) \in Seq(Nat)
           /\ Bytes(0, a) \o Bytes(a, b) = Bytes(0, b)
           /\ Bytes(0, 0) = << >>
<1>1. Bytes(0, a) \in Seq(Nat) /\ Len(Bytes(0, a)) = a
  BY DEF Bytes
<1>2. Bytes(a, b) \in Seq(Nat) /\ Len(Bytes(a, b)) = b - a
  BY DEF Bytes
<1>3. Bytes(0, b) \in Seq(Nat) /\ Len(Bytes(0, b)) = b
  BY DEF Bytes
<1>4. Bytes(0, 0) = << >>
  BY DEF Bytes
<1>5. \A k \in 1..a : Bytes(0, a)[k] = k
  BY DEF Bytes
<1>6. \A k \in 1..(b - a) : Bytes(a, b)[k] = a + k
  BY DEF Bytes
<1>7. \A k \in 1..b : Bytes(0, b)[k] = k
  BY DEF Bytes
<1>8. PICK p \in Seq(Nat), q \in Seq(Nat) : p = Bytes(0, a) /\ q = Bytes(a, b)
  BY <1>1, <1>2
<1>9. p \o q \in Seq(Nat) /\ Len(p \o q) = b /\ \A k \in 1..b : (p \o q)[k] = k
  <2>1. Len(p) = a /\ Len(q) = b - a
    BY <1>1, <1>2, <1>8
  <2>2. p \o q \in Seq(Nat) /\ Len(p \o q) = b
    BY <2>1
  <2>3. \A k \in 1..a : p[k] = k
    BY <1>5, <1>8
  <2>4. \A k \in 1..(b - a) : q[k] = a + k
    BY <1>6, <1>8
  <2> QED BY <2>1, <2>2, <2>3, <2>4
<1>10. p \o q = Bytes(0, b)
  <2>1. PICK w \in Seq(Nat) : w = p \o q
    BY <1>9
  <2>2. Bytes(0, b) = [k \in 1..b |-> k]
    BY DEF Bytes
  <2>3. w = [k \in 1..Len(w) |-> w[k]]
    OBVIOUS
  <2> QED BY <1>9, <2>1, <2>2, <2>3
<1> QED BY <1>1, <1>2, <1>4, <1>8, <1>10

\* The kinds of entries.
LEMMA EntryFields ==
    ASSUME NEW e \in LogEntry
    PROVE  /\ e.kind \in {"chunk", "abort", "write"}
           /\ e.kind \in {"chunk", "abort"} => e.of \in Streams
           /\ e.kind = "chunk" => e.seq \in Nat /\ e.last \in BOOLEAN /\ e.data \in Seq(Nat)
BY DEF LogEntry, ChunkEntry

\* A Dechunker after a chunk.
LEMMA NewDecType ==
    ASSUME NEW d \in Dechunker, NEW e \in LogEntry, e.kind = "chunk"
    PROVE  NewDec(d, e) \in Dechunker
<1>1. e.seq \in Nat /\ e.data \in Seq(Nat)
  BY EntryFields
<1>2. NoDechunker \in Dechunker
  BY DEF NoDechunker, Dechunker
<1>3. WriteChunk(d, e) \in Dechunker
  BY <1>1 DEF WriteChunk, Dechunker
<1> QED BY <1>2, <1>3 DEF NewDec

\* The database after a chunk.
LEMMA NewDbType ==
    ASSUME NEW b \in Db, NEW d \in Dechunker, NEW e \in LogEntry, e.kind = "chunk"
    PROVE  NewDb(b, d, e) \in Db
<1>1. e.seq \in Nat /\ e.data \in Seq(Nat) /\ e.of \in Streams
  BY EntryFields
<1>2. WriteChunk(d, e).file \in Seq(Nat)
  BY <1>1 DEF WriteChunk, Dechunker
<1>3. [of |-> e.of, file |-> WriteChunk(d, e).file, writes |-> {}] \in Db
  BY <1>1, <1>2 DEF Db
<1> QED BY <1>3 DEF NewDb

\* The entry e, at index i, makes q of the node r.
Processed(r, e, i, q) ==
    /\ q \in ReplicaState /\ q.idx = i
    /\ e.kind = "chunk" =>
         /\ q.dec = [r.dec EXCEPT ![e.of] = NewDec(r.dec[e.of], e)]
         /\ q.db = NewDb(r.db, r.dec[e.of], e)
    /\ e.kind = "abort" => q.dec = [r.dec EXCEPT ![e.of] = NoDechunker] /\ q.db = r.db
    /\ e.kind = "write" => q.dec = r.dec /\ q.db = [r.db EXCEPT !.writes = @ \cup {i}]

\* What an entry does to a node, field by field.
LEMMA ProcessFields ==
    ASSUME NEW r \in ReplicaState, NEW e \in LogEntry, NEW i \in Nat
    PROVE  ProcessEntry(r, e, i) \in ReplicaState /\ Processed(r, e, i, ProcessEntry(r, e, i))
<1>0. /\ r.idx \in Nat /\ r.db \in Db /\ r.dec \in [Streams -> Dechunker]
      /\ r = [idx |-> r.idx, db |-> r.db, dec |-> r.dec]
  BY DEF ReplicaState
<1>1. CASE e.kind = "chunk"
  <2>1. e.of \in Streams /\ r.dec[e.of] \in Dechunker
    BY <1>0, <1>1, EntryFields
  <2>2. PICK d2, b2 : d2 = [r.dec EXCEPT ![e.of] = NewDec(r.dec[e.of], e)] /\ b2 = NewDb(r.db, r.dec[e.of], e)
    OBVIOUS
  <2>3. NewDec(r.dec[e.of], e) \in Dechunker /\ b2 \in Db
    BY <1>0, <1>1, <2>1, <2>2, NewDecType, NewDbType
  <2>4. d2 \in [Streams -> Dechunker]
    BY <1>0, <2>1, <2>2, <2>3
  <2>5. ProcessChunk(r, e) = [r EXCEPT !.dec = d2, !.db = b2]
    BY <1>0, <2>1, <2>2, Zenon DEF ProcessChunk, NewDec, NewDb
  <2>6. ProcessEntry(r, e, i) = [[r EXCEPT !.dec = d2, !.db = b2] EXCEPT !.idx = i]
    BY <1>1, <2>5 DEF ProcessEntry
  <2>7. ProcessEntry(r, e, i) = [idx |-> i, db |-> b2, dec |-> d2]
    BY <1>0, <2>6
  <2> QED BY <1>1, <2>2, <2>3, <2>4, <2>7 DEF ReplicaState, Processed
<1>2. CASE e.kind = "abort"
  <2>1. e.of \in Streams
    BY <1>2, EntryFields
  <2>2. PICK d2 : d2 = [r.dec EXCEPT ![e.of] = NoDechunker]
    OBVIOUS
  <2>3. NoDechunker \in Dechunker
    BY DEF NoDechunker, Dechunker
  <2>4. d2 \in [Streams -> Dechunker]
    BY <1>0, <2>1, <2>2, <2>3
  <2>5. ProcessEntry(r, e, i) = [[r EXCEPT !.dec = d2] EXCEPT !.idx = i]
    BY <1>2, <2>2 DEF ProcessEntry, ProcessAbort
  <2>6. ProcessEntry(r, e, i) = [idx |-> i, db |-> r.db, dec |-> d2]
    BY <1>0, <2>5
  <2> QED BY <1>0, <1>2, <2>2, <2>4, <2>6 DEF ReplicaState, Processed
<1>3. CASE e.kind = "write"
  <2>1. PICK b2 : b2 = [r.db EXCEPT !.writes = @ \cup {i}]
    OBVIOUS
  <2>2. b2 \in Db
    BY <1>0, <2>1 DEF Db
  <2>3. ProcessEntry(r, e, i) = [[r EXCEPT !.db = b2] EXCEPT !.idx = i]
    BY <1>3, <2>1 DEF ProcessEntry
  <2>4. ProcessEntry(r, e, i) = [idx |-> i, db |-> b2, dec |-> r.dec]
    BY <1>0, <2>3
  <2> QED BY <1>0, <1>3, <2>1, <2>2, <2>4 DEF ReplicaState, Processed
<1> QED BY <1>1, <1>2, <1>3, EntryFields


\* An entry is appended to the log.
LEMMA LogMore ==
    ASSUME NEW l \in Seq(LogEntry), NEW e \in LogEntry
    PROVE  /\ Append(l, e) \in Seq(LogEntry) /\ Len(l) \in Nat /\ Len(Append(l, e)) = Len(l) + 1
           /\ \A i \in 1..Len(l) : Append(l, e)[i] = l[i]
           /\ Append(l, e)[Len(l) + 1] = e
OBVIOUS

\* Nothing was sent, put together or loaded.
LEMMA LoadInitInv == ChunkInit => LoadInv
<1> SUFFICES ASSUME ChunkInit PROVE LoadInv
  OBVIOUS
<1>1. NoDechunker \in Dechunker /\ NoDechunker.seq = 0 /\ NoDechunker.file = << >>
  BY DEF NoDechunker, Dechunker
<1>2. EmptyDb \in Db /\ EmptyDb.of = "none"
  BY DEF EmptyDb, Db
<1>3. Fresh \in [Streams -> Dechunker] /\ \A s \in Streams : Fresh[s] = NoDechunker
  BY <1>1 DEF Fresh
<1>4. ChunkTypeOK
  <2>1. chunker \in [Streams -> ChunkerState]
    BY DEF ChunkInit, ChunkerState
  <2>2. clog \in Seq(LogEntry)
    BY DEF ChunkInit
  <2>3. replica \in [Replicas -> ReplicaState]
    BY <1>2, <1>3 DEF ChunkInit, ReplicaState
  <2>4. csnap \in [Replicas -> [idx : Nat, db : Db]]
    BY <1>2 DEF ChunkInit
  <2> QED BY <2>1, <2>2, <2>3, <2>4 DEF ChunkTypeOK
<1>5. \A n \in Replicas : WholeDb(replica[n].db) /\ WholeDb(csnap[n].db)
  BY <1>2 DEF ChunkInit, WholeDb
<1>6. PICK E \in [Streams -> [Nat -> Nat]] : E = [s \in Streams |-> [k \in Nat |-> 0]]
  OBVIOUS
<1>7. CutBy(E)
  <2>1. \A s \in Streams : E[s][0] = 0
    BY <1>6
  <2>2. \A s \in Streams : chunker[s].seq = 0 /\ chunker[s].read = 0 /\ chunker[s].finished = FALSE
    BY DEF ChunkInit
  <2>3. \A s \in Streams : ChunkerAt(E[s], chunker[s], FileLen[s])
    BY <2>1, <2>2, ChunkParameters DEF ChunkerAt
  <2>4. Len(clog) = 0
    BY DEF ChunkInit
  <2>5. Bytes(0, 0) = << >>
    BY DEF Bytes
  <2>6. ASSUME NEW n \in Replicas, NEW s \in Streams
        PROVE  PutTogether(E[s], replica[n].dec[s], Sent(chunker[s]))
    <3>1. replica[n].dec[s] = NoDechunker
      BY <1>3 DEF ChunkInit
    <3> QED BY <1>1, <2>1, <2>2, <2>5, <3>1 DEF PutTogether, Sent
  <2> QED BY <2>3, <2>4, <2>6 DEF CutBy
<1> QED BY <1>4, <1>5, <1>6, <1>7 DEF LoadInv

\* The next t bytes are read of a file of which rd were, in sq chunks.
CutMore(f, g, rd, sq, t, c2, len) ==
    /\ f[0] = 0 /\ rd + t <= len
    /\ g[sq + 1] = rd + t /\ \A k \in 0..sq : g[k] = f[k]
    /\ c2.read = rd + t /\ c2.seq = sq + (IF t > 0 THEN 1 ELSE 0)
    /\ t < ChunkSize => c2.finished = TRUE
    /\ ~(t < ChunkSize) => c2.finished = FALSE

\* The Chunker after it.
LEMMA OneMoreCut ==
    ASSUME NEW f \in [Nat -> Nat], NEW g \in [Nat -> Nat], NEW rd \in Nat, NEW sq \in Nat, NEW t \in Nat,
           NEW c2, NEW len \in Nat, CutMore(f, g, rd, sq, t, c2, len)
    PROVE  ChunkerAt(g, c2, len) /\ Sent(c2) \in Nat /\ Sent(c2) >= sq + 1
<1>1. /\ f[0] = 0 /\ rd + t <= len
      /\ g[sq + 1] = rd + t /\ \A k \in 0..sq : g[k] = f[k]
      /\ c2.read = rd + t /\ c2.seq = sq + (IF t > 0 THEN 1 ELSE 0)
      /\ t < ChunkSize => c2.finished = TRUE
      /\ ~(t < ChunkSize) => c2.finished = FALSE
  BY DEF CutMore
<1>2. ChunkSize \in Nat /\ ChunkSize > 0
  BY ChunkParameters
<1>3. g[0] = 0
  BY <1>1
<1>4. Sent(c2) \in Nat /\ Sent(c2) >= sq + 1
  <2>1. CASE t < ChunkSize
    <3>1. c2.finished /\ c2.seq \in Nat /\ c2.seq >= sq
      BY <1>1, <2>1
    <3> QED BY <3>1 DEF Sent
  <2>2. CASE ~(t < ChunkSize)
    <3>1. ~c2.finished /\ c2.seq = sq + 1
      BY <1>1, <1>2, <2>2
    <3> QED BY <3>1 DEF Sent
  <2> QED BY <2>1, <2>2
<1>5. ChunkerAt(g, c2, len)
  <2>1. CASE t < ChunkSize
    BY <1>1, <1>3, <2>1 DEF ChunkerAt
  <2>2. CASE ~(t < ChunkSize)
    <3>1. t > 0 /\ c2.seq = sq + 1
      BY <1>1, <1>2, <2>2
    <3> QED BY <1>1, <1>3, <2>2, <3>1 DEF ChunkerAt
  <2> QED BY <2>1, <2>2
<1> QED BY <1>4, <1>5

\* What was sent and put together before.
LEMMA EarlierCuts ==
    ASSUME NEW f \in [Nat -> Nat], NEW g \in [Nat -> Nat], NEW len, NEW sq \in Nat, NEW m \in Nat,
           sq <= m, \A k \in 0..sq : g[k] = f[k]
    PROVE  /\ \A e : e.seq \in Nat /\ CutAsSent(f, e, sq, len) => CutAsSent(g, e, m, len)
           /\ \A d : d.seq \in Nat /\ PutTogether(f, d, sq) => PutTogether(g, d, m)
<1>1. ASSUME NEW e, e.seq \in Nat, CutAsSent(f, e, sq, len) PROVE CutAsSent(g, e, m, len)
  <2>1. PICK k \in Nat : k = e.seq
    BY <1>1
  <2>2. k > 0 /\ k <= sq
    BY <1>1, <2>1 DEF CutAsSent
  <2>3. g[k] = f[k] /\ g[k - 1] = f[k - 1] /\ k <= m
    BY <2>2
  <2> QED BY <1>1, <2>1, <2>2, <2>3 DEF CutAsSent
<1>2. ASSUME NEW d, d.seq \in Nat, PutTogether(f, d, sq) PROVE PutTogether(g, d, m)
  <2>1. PICK k \in Nat : k = d.seq
    BY <1>2
  <2>2. k <= sq
    BY <1>2, <2>1 DEF PutTogether
  <2>3. g[k] = f[k] /\ k <= m
    BY <2>2
  <2> QED BY <1>2, <2>1, <2>2, <2>3 DEF PutTogether
<1> QED BY <1>1, <1>2

\* The types of what belongs to one stream.
LEMMA StreamTypes ==
    ASSUME ChunkTypeOK, NEW s \in Streams
    PROVE  /\ chunker[s].read \in Nat /\ chunker[s].seq \in Nat /\ chunker[s].finished \in BOOLEAN
           /\ Sent(chunker[s]) \in Nat /\ FileLen[s] \in Nat
           /\ \A n \in Replicas : replica[n].dec[s].seq \in Nat
<1>1. chunker[s].read \in Nat /\ chunker[s].seq \in Nat /\ chunker[s].finished \in BOOLEAN
  BY DEF ChunkTypeOK, ChunkerState
<1>2. \A n \in Replicas : replica[n].dec[s].seq \in Nat
  BY DEF ChunkTypeOK, ReplicaState, Dechunker
<1>3. Sent(chunker[s]) \in Nat
  BY <1>1 DEF Sent
<1> QED BY <1>1, <1>2, <1>3, ChunkParameters

\* A chunk is part of what is left, and all of it when it is a short one.
LEMMA ChunkLengthsFit ==
    ASSUME NEW len \in Nat, NEW rd \in Nat, rd <= len, NEW t \in ChunkLengths(len - rd)
    PROVE  t \in Nat /\ rd + t <= len /\ (t < ChunkSize => rd + t = len)
<1>1. ChunkSize \in Nat \ {0}
  BY ChunkParameters
<1>2. PICK left \in Nat : left = len - rd
  OBVIOUS
<1>3. t \in IF left < ChunkSize THEN {left} ELSE {u \in ChunkSize..(2 * ChunkSize - 1) : u <= left}
  BY <1>2, Zenon DEF ChunkLengths
<1>4. PICK u \in Nat : u = t /\ u <= left /\ (u < ChunkSize => u = left)
  <2>1. CASE left < ChunkSize
    BY <1>1, <1>3, <2>1
  <2>2. CASE ~(left < ChunkSize)
    BY <1>1, <1>3, <2>2
  <2> QED BY <2>1, <2>2
<1>5. rd + u <= len /\ (u < ChunkSize => rd + u = len)
  BY <1>2, <1>4
<1> QED BY <1>4, <1>5

\* The next chunk, of t bytes.
LEMMA NextChunkLoads ==
    ASSUME LoadInv, NEW s \in Streams, NextChunk(s) PROVE LoadInv'
<1>1. PICK E \in [Streams -> [Nat -> Nat]] : CutBy(E)
  BY DEF LoadInv
<1>2. PICK rd \in Nat, sq \in Nat : /\ rd = chunker[s].read /\ sq = chunker[s].seq
                                    /\ chunker[s].finished = FALSE
  BY StreamTypes DEF LoadInv, NextChunk
<1>3. /\ ChunkTypeOK /\ UNCHANGED <<replica, csnap>>
      /\ \A n \in Replicas : WholeDb(replica[n].db) /\ WholeDb(csnap[n].db)
  BY DEF LoadInv, NextChunk
<1>4. PICK len \in Nat : len = FileLen[s] /\ rd <= len
  BY <1>1, <1>2, <1>3, StreamTypes DEF CutBy, ChunkerAt
<1>5. PICK f \in [Nat -> Nat] : f = E[s] /\ f[sq] = rd /\ f[0] = 0
  BY <1>1, <1>2 DEF CutBy, ChunkerAt
<1>6. PICK t \in ChunkLengths(len - rd) :
        /\ chunker' = [chunker EXCEPT ![s] = [read |-> rd + t, seq |-> sq + (IF t > 0 THEN 1 ELSE 0),
                                              finished |-> (t < ChunkSize)]]
        /\ clog' = IF t = 0 /\ sq = 0 THEN clog
                   ELSE Append(clog, Chunk(s, sq + 1, t < ChunkSize, Bytes(rd, rd + t)))
  BY <1>2, <1>4, Zenon DEF NextChunk
<1>7. t \in Nat /\ rd + t <= len /\ (t < ChunkSize => rd + t = len)
  BY <1>4, ChunkLengthsFit
<1>8. PICK c2 \in ChunkerState : /\ c2.read = rd + t /\ c2.seq = sq + (IF t > 0 THEN 1 ELSE 0)
                                 /\ t < ChunkSize => c2.finished = TRUE
                                 /\ ~(t < ChunkSize) => c2.finished = FALSE
                                 /\ chunker' = [chunker EXCEPT ![s] = c2]
  <2>1. [read |-> rd + t, seq |-> sq + (IF t > 0 THEN 1 ELSE 0), finished |-> (t < ChunkSize)] \in ChunkerState
    <3>1. sq + (IF t > 0 THEN 1 ELSE 0) \in Nat /\ rd + t \in Nat /\ (t < ChunkSize) \in BOOLEAN
      BY <1>7
    <3> QED BY <3>1 DEF ChunkerState
  <2>2. (t < ChunkSize) = TRUE \/ (t < ChunkSize) = FALSE
    OBVIOUS
  <2> QED BY <1>6, <2>1, <2>2
<1>9. /\ chunker' \in [Streams -> ChunkerState] /\ chunker'[s] = c2
      /\ \A q \in Streams : q # s => chunker'[q] = chunker[q]
  BY <1>3, <1>8 DEF ChunkTypeOK
<1>10. PICK g \in [Nat -> Nat] : g = [f EXCEPT ![sq + 1] = rd + t]
  <2>1. rd + t \in Nat
    BY <1>7
  <2> QED BY <2>1
<1>11. PICK F \in [Streams -> [Nat -> Nat]] : F = [E EXCEPT ![s] = g]
  OBVIOUS
<1>12. F[s] = g /\ \A q \in Streams : q # s => F[q] = E[q]
  BY <1>11
<1>13. /\ ChunkerAt(g, c2, len) /\ Sent(c2) \in Nat /\ Sent(c2) >= sq + 1
       /\ g[sq] = rd /\ g[sq + 1] = rd + t /\ \A k \in 0..sq : g[k] = f[k]
  <2>1. g[sq] = rd /\ g[sq + 1] = rd + t /\ \A k \in 0..sq : g[k] = f[k]
    BY <1>5, <1>7, <1>10
  <2>2. ChunkerAt(g, c2, len) /\ Sent(c2) \in Nat /\ Sent(c2) >= sq + 1
    <3>1. CutMore(f, g, rd, sq, t, c2, len)
      BY <1>5, <1>7, <1>8, <2>1 DEF CutMore
    <3> QED BY <1>7, <3>1, OneMoreCut, Zenon
  <2> QED BY <2>1, <2>2
<1>14. Sent(chunker[s]) = sq
  BY <1>2 DEF Sent
<1>15. /\ \A e : e.seq \in Nat /\ CutAsSent(f, e, sq, len) => CutAsSent(g, e, Sent(c2), len)
       /\ \A d : d.seq \in Nat /\ PutTogether(f, d, sq) => PutTogether(g, d, Sent(c2))
  <2>1. sq <= Sent(c2)
    BY <1>13
  <2> QED BY <1>13, <2>1, EarlierCuts
<1>16. \A q \in Streams : ChunkerAt(F[q], chunker'[q], FileLen[q])
  BY <1>1, <1>4, <1>9, <1>12, <1>13 DEF CutBy
<1>17. ASSUME NEW i \in 1..Len(clog), clog[i].kind = "chunk"
       PROVE  CutAsSent(F[clog[i].of], clog[i], Sent(chunker'[clog[i].of]), FileLen[clog[i].of])
  <2>1. clog[i] \in LogEntry
    BY <1>3 DEF ChunkTypeOK
  <2>2. clog[i].of \in Streams /\ clog[i].seq \in Nat
    BY <1>17, <2>1, EntryFields
  <2>3. CutAsSent(E[clog[i].of], clog[i], Sent(chunker[clog[i].of]), FileLen[clog[i].of])
    BY <1>1, <1>17 DEF CutBy
  <2>4. CASE clog[i].of # s
    BY <1>9, <1>12, <2>2, <2>3, <2>4
  <2>5. CASE clog[i].of = s
    BY <1>4, <1>5, <1>9, <1>12, <1>14, <1>15, <2>2, <2>3, <2>5
  <2> QED BY <2>4, <2>5
<1>18. /\ clog' \in Seq(LogEntry)
       /\ \A i \in 1..Len(clog') : clog'[i].kind = "chunk" =>
            CutAsSent(F[clog'[i].of], clog'[i], Sent(chunker'[clog'[i].of]), FileLen[clog'[i].of])
  <2>0. clog \in Seq(LogEntry)
    BY <1>3 DEF ChunkTypeOK
  <2>1. CASE clog' = clog
    BY <1>17, <2>0, <2>1
  <2>2. CASE clog' # clog
    <3>1. PICK e : /\ e = [kind |-> "chunk", of |-> s, seq |-> sq + 1, last |-> (t < ChunkSize),
                           data |-> Bytes(rd, rd + t)]
                   /\ clog' = Append(clog, e)
      BY <1>6, <2>2 DEF Chunk
    <3>2. /\ e.kind = "chunk" /\ e.of = s /\ e.seq = sq + 1 /\ (e.last => t < ChunkSize)
          /\ e.data = Bytes(rd, rd + t)
      BY <3>1
    <3>3. e \in LogEntry
      <4>1. rd + t \in Nat /\ rd <= rd + t /\ (t < ChunkSize) \in BOOLEAN
        BY <1>7
      <4>2. Bytes(rd, rd + t) \in Seq(Nat)
        BY <4>1, BytesJoin
      <4> QED BY <3>1, <4>1, <4>2 DEF LogEntry, ChunkEntry
    <3>4. CutAsSent(F[e.of], e, Sent(chunker'[e.of]), FileLen[e.of])
      <4>1. sq + 1 - 1 = sq /\ sq + 1 > 0 /\ rd <= rd + t
        BY <1>7
      <4>2. F[e.of] = g /\ chunker'[e.of] = c2 /\ FileLen[e.of] = len
        BY <1>4, <1>9, <1>12, <3>2
      <4>3. PICK k \in Nat : k = e.seq /\ k = sq + 1
        BY <3>2
      <4>4. k > 0 /\ k <= Sent(c2) /\ k - 1 = sq /\ g[k - 1] = rd /\ g[k] = rd + t
        BY <1>13, <4>3
      <4>5. CutAsSent(g, e, Sent(c2), len)
        BY <1>7, <3>2, <4>1, <4>3, <4>4 DEF CutAsSent
      <4> QED BY <4>2, <4>5
    <3>5. /\ clog' \in Seq(LogEntry) /\ Len(clog) \in Nat /\ Len(clog') = Len(clog) + 1
          /\ \A i \in 1..Len(clog) : clog'[i] = clog[i]
          /\ clog'[Len(clog) + 1] = e
      BY <2>0, <3>1, <3>3, LogMore
    <3>6. \A i \in 1..Len(clog') : i \in 1..Len(clog) \/ i = Len(clog) + 1
      BY <3>5
    <3> QED BY <1>17, <3>4, <3>5, <3>6, Zenon
  <2> QED BY <2>1, <2>2
<1>19. ASSUME NEW n \in Replicas, NEW q \in Streams
       PROVE  PutTogether(F[q], replica[n].dec[q], Sent(chunker'[q]))
  <2>1. replica[n].dec[q].seq \in Nat /\ PutTogether(E[q], replica[n].dec[q], Sent(chunker[q]))
    BY <1>1, <1>3, StreamTypes DEF CutBy
  <2>2. CASE q # s
    BY <1>9, <1>12, <2>1, <2>2
  <2>3. CASE q = s
    BY <1>5, <1>9, <1>12, <1>14, <1>15, <2>1, <2>3
  <2> QED BY <2>2, <2>3
<1>20. ChunkTypeOK'
  BY <1>3, <1>9, <1>18 DEF ChunkTypeOK
<1>21. CutBy(F)'
  BY <1>3, <1>16, <1>18, <1>19 DEF CutBy
<1> QED BY <1>3, <1>11, <1>20, <1>21 DEF LoadInv, WholeDb

\* A Dechunker takes a chunk: it has the next part of the file, or ignores it.
LEMMA PutChunk ==
    ASSUME NEW f \in [Nat -> Nat], f[0] = 0, NEW sent \in Nat, NEW len \in Nat,
           NEW d \in Dechunker, NEW e \in LogEntry, e.kind = "chunk",
           CutAsSent(f, e, sent, len), PutTogether(f, d, sent)
    PROVE  /\ PutTogether(f, NewDec(d, e), sent)
           /\ Loads(d, e) => WriteChunk(d, e).file = Bytes(0, len)
<1>1. PICK k \in Nat, m \in Nat : k = d.seq /\ m = e.seq /\ m > 0 /\ m <= sent
  <2>1. e.seq \in Nat /\ d.seq \in Nat
    BY EntryFields DEF Dechunker
  <2> QED BY <2>1 DEF CutAsSent
<1>2. k <= sent /\ d.file = Bytes(0, f[k])
  BY <1>1 DEF PutTogether
<1>3. f[m - 1] <= f[m] /\ e.data = Bytes(f[m - 1], f[m]) /\ (e.last => f[m] = len)
  BY <1>1 DEF CutAsSent
<1>4. CASE InSequence(d, e)
  <2>1. m = k + 1 /\ m - 1 = k /\ f[k] \in Nat /\ f[m] \in Nat
    BY <1>1, <1>4 DEF InSequence
  <2>2. d.file \o e.data = Bytes(0, f[m])
    <3>1. PICK a \in Nat, b \in Nat : a = f[k] /\ b = f[m]
      BY <2>1
    <3>2. a <= b /\ d.file = Bytes(0, a) /\ e.data = Bytes(a, b)
      BY <1>2, <1>3, <2>1, <3>1
    <3>3. Bytes(0, a) \o Bytes(a, b) = Bytes(0, b)
      BY <3>2, BytesJoin
    <3> QED BY <3>1, <3>2, <3>3
  <2>3. WriteChunk(d, e).seq = m /\ WriteChunk(d, e).file = Bytes(0, f[m])
    BY <1>1, <1>4, <2>2 DEF WriteChunk
  <2>4. PutTogether(f, WriteChunk(d, e), sent)
    BY <1>1, <2>3 DEF PutTogether
  <2>5. PutTogether(f, NoDechunker, sent)
    <3>1. NoDechunker.seq = 0 /\ NoDechunker.file = << >> /\ Bytes(0, 0) = << >> /\ 0 <= sent
      BY DEF NoDechunker, Bytes
    <3> QED BY <3>1 DEF PutTogether
  <2>6. Loads(d, e) => e.last
    BY DEF Loads
  <2> QED BY <1>3, <2>3, <2>4, <2>5, <2>6 DEF NewDec
<1>5. CASE ~InSequence(d, e)
  BY <1>5 DEF NewDec, WriteChunk, Loads
<1> QED BY <1>4, <1>5

\* A stream is aborted.
LEMMA AbortLoads ==
    ASSUME LoadInv, NEW s \in Streams, AbortStream(s) PROVE LoadInv'
<1>1. PICK E \in [Streams -> [Nat -> Nat]] : CutBy(E)
  BY DEF LoadInv
<1>2. PICK rd \in Nat, sq \in Nat : rd = chunker[s].read /\ sq = chunker[s].seq /\ chunker[s].finished = FALSE
  BY StreamTypes DEF LoadInv, AbortStream
<1>3. /\ ChunkTypeOK /\ UNCHANGED <<replica, csnap>>
      /\ \A n \in Replicas : WholeDb(replica[n].db) /\ WholeDb(csnap[n].db)
  BY DEF LoadInv, AbortStream
<1>4. PICK c2 \in ChunkerState : /\ c2.read = rd /\ c2.seq = sq /\ c2.finished = TRUE
                                 /\ chunker' = [chunker EXCEPT ![s] = c2]
  <2>1. PICK c \in ChunkerState : c = chunker[s]
    BY <1>3 DEF ChunkTypeOK
  <2>2. chunker' = [chunker EXCEPT ![s] = [c EXCEPT !.finished = TRUE]]
    BY <2>1 DEF AbortStream
  <2>3. /\ [c EXCEPT !.finished = TRUE] \in ChunkerState /\ [c EXCEPT !.finished = TRUE].read = rd
        /\ [c EXCEPT !.finished = TRUE].seq = sq /\ [c EXCEPT !.finished = TRUE].finished = TRUE
    BY <1>2, <2>1 DEF ChunkerState
  <2> QED BY <2>2, <2>3
<1>5. /\ chunker' \in [Streams -> ChunkerState] /\ chunker'[s] = c2
      /\ \A q \in Streams : q # s => chunker'[q] = chunker[q]
  BY <1>3, <1>4 DEF ChunkTypeOK
<1>6. Sent(chunker[s]) = sq /\ Sent(c2) = sq + 1 /\ sq + 1 \in Nat /\ sq <= sq + 1
  BY <1>2, <1>4 DEF Sent
<1>7. PICK f \in [Nat -> Nat] : f = E[s]
  BY <1>1
<1>8. /\ \A e : e.seq \in Nat /\ CutAsSent(f, e, sq, FileLen[s]) => CutAsSent(f, e, sq + 1, FileLen[s])
      /\ \A d : d.seq \in Nat /\ PutTogether(f, d, sq) => PutTogether(f, d, sq + 1)
  BY <1>6, EarlierCuts
<1>9. \A q \in Streams : ChunkerAt(E[q], chunker'[q], FileLen[q])
  <2>1. ChunkerAt(E[s], c2, FileLen[s])
    BY <1>1, <1>2, <1>4 DEF CutBy, ChunkerAt
  <2> QED BY <1>1, <1>5, <2>1 DEF CutBy
<1>10. ASSUME NEW i \in 1..Len(clog), clog[i].kind = "chunk"
       PROVE  CutAsSent(E[clog[i].of], clog[i], Sent(chunker'[clog[i].of]), FileLen[clog[i].of])
  <2>1. clog[i] \in LogEntry
    BY <1>3 DEF ChunkTypeOK
  <2>2. clog[i].of \in Streams /\ clog[i].seq \in Nat
    BY <1>10, <2>1, EntryFields
  <2>3. CutAsSent(E[clog[i].of], clog[i], Sent(chunker[clog[i].of]), FileLen[clog[i].of])
    BY <1>1, <1>10 DEF CutBy
  <2>4. CASE clog[i].of # s
    BY <1>5, <2>2, <2>3, <2>4
  <2>5. CASE clog[i].of = s
    BY <1>5, <1>6, <1>7, <1>8, <2>2, <2>3, <2>5
  <2> QED BY <2>4, <2>5
<1>11. /\ clog' \in Seq(LogEntry)
       /\ \A i \in 1..Len(clog') : clog'[i].kind = "chunk" =>
            CutAsSent(E[clog'[i].of], clog'[i], Sent(chunker'[clog'[i].of]), FileLen[clog'[i].of])
  <2>1. PICK e \in LogEntry : e.kind = "abort" /\ clog' = Append(clog, e)
    <3>1. [kind |-> "abort", of |-> s] \in LogEntry
      BY DEF LogEntry
    <3> QED BY <3>1 DEF AbortStream
  <2>2. /\ clog' \in Seq(LogEntry) /\ Len(clog) \in Nat /\ Len(clog') = Len(clog) + 1
        /\ \A i \in 1..Len(clog) : clog'[i] = clog[i]
        /\ clog'[Len(clog) + 1] = e
    BY <1>3, <2>1, LogMore DEF ChunkTypeOK
  <2>3. \A i \in 1..Len(clog') : i \in 1..Len(clog) \/ i = Len(clog) + 1
    BY <2>2
  <2>4. e.kind # "chunk"
    BY <2>1
  <2> QED BY <1>10, <2>2, <2>3, <2>4, Zenon
<1>12. ASSUME NEW n \in Replicas, NEW q \in Streams
       PROVE  PutTogether(E[q], replica[n].dec[q], Sent(chunker'[q]))
  <2>1. replica[n].dec[q].seq \in Nat /\ PutTogether(E[q], replica[n].dec[q], Sent(chunker[q]))
    BY <1>1, <1>3, StreamTypes DEF CutBy
  <2>2. CASE q # s
    BY <1>5, <2>1, <2>2
  <2>3. CASE q = s
    BY <1>5, <1>6, <1>7, <1>8, <2>1, <2>3
  <2> QED BY <2>2, <2>3
<1>13. ChunkTypeOK'
  BY <1>3, <1>5, <1>11 DEF ChunkTypeOK
<1>14. CutBy(E)'
  BY <1>3, <1>9, <1>11, <1>12 DEF CutBy
<1> QED BY <1>1, <1>3, <1>13, <1>14 DEF LoadInv, WholeDb

\* Another entry.
LEMMA WriteLoads == ASSUME LoadInv, WriteEntry PROVE LoadInv'
<1>1. PICK E \in [Streams -> [Nat -> Nat]] : CutBy(E)
  BY DEF LoadInv
<1>2. /\ ChunkTypeOK /\ UNCHANGED <<chunker, replica, csnap>>
      /\ \A n \in Replicas : WholeDb(replica[n].db) /\ WholeDb(csnap[n].db)
  BY DEF LoadInv, WriteEntry
<1>3. PICK e \in LogEntry : e.kind = "write" /\ clog' = Append(clog, e)
  <2>1. [kind |-> "write"] \in LogEntry
    BY DEF LogEntry
  <2> QED BY <2>1 DEF WriteEntry
<1>4. /\ clog' \in Seq(LogEntry) /\ Len(clog) \in Nat /\ Len(clog') = Len(clog) + 1
      /\ \A i \in 1..Len(clog) : clog'[i] = clog[i]
      /\ clog'[Len(clog) + 1] = e
  BY <1>2, <1>3, LogMore DEF ChunkTypeOK
<1>5. \A i \in 1..Len(clog') : clog'[i].kind = "chunk" => i \in 1..Len(clog)
  <2>1. \A i \in 1..Len(clog') : i \in 1..Len(clog) \/ i = Len(clog) + 1
    BY <1>4
  <2>2. e.kind # "chunk"
    BY <1>3
  <2> QED BY <1>4, <2>1, <2>2, Zenon
<1>6. CutBy(E)'
  <2>1. \A i \in 1..Len(clog') : clog'[i].kind = "chunk" =>
          CutAsSent(E[clog'[i].of], clog'[i], Sent(chunker[clog'[i].of]), FileLen[clog'[i].of])
    BY <1>1, <1>4, <1>5, Zenon DEF CutBy
  <2> QED BY <1>1, <1>2, <2>1 DEF CutBy
<1>7. ChunkTypeOK'
  BY <1>2, <1>4 DEF ChunkTypeOK
<1> QED BY <1>1, <1>2, <1>6, <1>7 DEF LoadInv, WholeDb

\* A node changes, and nothing else.
LEMMA ReplicaLoads ==
    ASSUME LoadInv, NEW n \in Replicas, NEW r \in ReplicaState, replica' = [replica EXCEPT ![n] = r],
           UNCHANGED <<chunker, clog, csnap>>, WholeDb(r.db),
           \A E \in [Streams -> [Nat -> Nat]] : CutBy(E) =>
               \A s \in Streams : PutTogether(E[s], r.dec[s], Sent(chunker[s]))
    PROVE  LoadInv'
<1>1. PICK E \in [Streams -> [Nat -> Nat]] : CutBy(E)
  BY DEF LoadInv
<1>2. /\ ChunkTypeOK /\ UNCHANGED <<chunker, clog, csnap>>
      /\ \A m \in Replicas : WholeDb(replica[m].db) /\ WholeDb(csnap[m].db)
  BY DEF LoadInv
<1>3. replica' \in [Replicas -> ReplicaState] /\ \A m \in Replicas : replica'[m] = IF m = n THEN r ELSE replica[m]
  BY <1>2 DEF ChunkTypeOK
<1>4. \A m \in Replicas : WholeDb(replica'[m].db) /\ WholeDb(csnap'[m].db)
  BY <1>2, <1>3
<1>5. \A m \in Replicas, s \in Streams : PutTogether(E[s], replica'[m].dec[s], Sent(chunker[s]))
  BY <1>1, <1>3 DEF CutBy
<1>6. CutBy(E)'
  BY <1>1, <1>2, <1>5 DEF CutBy
<1>7. ChunkTypeOK'
  BY <1>2, <1>3 DEF ChunkTypeOK
<1> QED BY <1>1, <1>4, <1>6, <1>7 DEF LoadInv, WholeDb

\* A node applies the next entry.
LEMMA ApplyLoads == ASSUME LoadInv, NEW n \in Replicas, ReplicaApply(n) PROVE LoadInv'
<1>1. PICK i \in Nat : i = replica[n].idx + 1 /\ i \in 1..Len(clog)
  BY DEF LoadInv, ChunkTypeOK, ReplicaState, ReplicaApply
<1>2. PICK o \in ReplicaState, e \in LogEntry : o = replica[n] /\ e = clog[i]
  BY <1>1 DEF LoadInv, ChunkTypeOK
<1>3. PICK r \in ReplicaState : r = ProcessEntry(o, e, i) /\ Processed(o, e, i, r)
  BY ProcessFields, Zenon
<1>4. replica' = [replica EXCEPT ![n] = r] /\ UNCHANGED <<chunker, clog, csnap>>
  BY <1>1, <1>2, <1>3 DEF ReplicaApply
<1>5. o.db \in Db /\ o.dec \in [Streams -> Dechunker] /\ WholeDb(o.db)
  BY <1>2 DEF ReplicaState, LoadInv
<1>6. /\ e.kind = "chunk" => r.dec = [o.dec EXCEPT ![e.of] = NewDec(o.dec[e.of], e)] /\ r.db = NewDb(o.db, o.dec[e.of], e)
      /\ e.kind = "abort" => r.dec = [o.dec EXCEPT ![e.of] = NoDechunker] /\ r.db = o.db
      /\ e.kind = "write" => r.dec = o.dec /\ r.db = [o.db EXCEPT !.writes = @ \cup {i}]
  BY <1>3 DEF Processed
<1>7. ASSUME NEW E \in [Streams -> [Nat -> Nat]], CutBy(E)
      PROVE  /\ WholeDb(r.db)
             /\ \A s \in Streams : PutTogether(E[s], r.dec[s], Sent(chunker[s]))
  <2>1. \A s \in Streams : E[s][0] = 0 /\ PutTogether(E[s], o.dec[s], Sent(chunker[s])) /\ Sent(chunker[s]) \in Nat
    <3>1. \A s \in Streams : Sent(chunker[s]) \in Nat
      BY StreamTypes DEF LoadInv
    <3> QED BY <1>2, <1>7, <3>1 DEF CutBy, ChunkerAt
  <2>2. CASE e.kind = "chunk"
    <3>1. PICK s \in Streams, d \in Dechunker : s = e.of /\ d = o.dec[s]
      BY <1>5, <2>2, EntryFields
    <3>2. PICK f \in [Nat -> Nat], sent \in Nat, len \in Nat : f = E[s] /\ sent = Sent(chunker[s]) /\ len = FileLen[s]
      BY <2>1, ChunkParameters
    <3>3. CutAsSent(f, e, sent, len) /\ PutTogether(f, d, sent) /\ f[0] = 0
      BY <1>1, <1>2, <1>7, <2>1, <2>2, <3>1, <3>2 DEF CutBy
    <3>4. PutTogether(f, NewDec(d, e), sent) /\ (Loads(d, e) => WriteChunk(d, e).file = Bytes(0, len))
      BY <2>2, <3>3, PutChunk
    <3>5. r.dec = [o.dec EXCEPT ![s] = NewDec(d, e)] /\ r.db = NewDb(o.db, d, e)
      BY <1>5, <1>6, <2>2, <3>1
    <3>6. \A q \in Streams : r.dec[q] = IF q = s THEN NewDec(d, e) ELSE o.dec[q]
      BY <1>5, <3>5
    <3>7. \A q \in Streams : PutTogether(E[q], r.dec[q], Sent(chunker[q]))
      BY <2>1, <3>2, <3>4, <3>6
    <3>8. WholeDb(r.db)
      <4>1. CASE Loads(d, e)
        <5>1. r.db.of = s /\ r.db.file = Bytes(0, len)
          BY <3>1, <3>4, <3>5, <4>1 DEF NewDb
        <5> QED BY <3>2, <5>1 DEF WholeDb, WholeFile
      <4>2. CASE ~Loads(d, e)
        BY <1>5, <3>5, <4>2 DEF NewDb
      <4> QED BY <4>1, <4>2
    <3> QED BY <3>7, <3>8
  <2>3. CASE e.kind = "abort"
    <3>1. \A s \in Streams : PutTogether(E[s], NoDechunker, Sent(chunker[s]))
      <4>1. NoDechunker.seq = 0 /\ NoDechunker.file = << >> /\ Bytes(0, 0) = << >>
        BY DEF NoDechunker, Bytes
      <4> QED BY <2>1, <4>1 DEF PutTogether
    <3>2. \A q \in Streams : r.dec[q] = o.dec[q] \/ r.dec[q] = NoDechunker
      BY <1>5, <1>6, <2>3
    <3> QED BY <1>5, <1>6, <2>1, <2>3, <3>1, <3>2
  <2>4. CASE e.kind = "write"
    <3>1. r.db.of = o.db.of /\ r.db.file = o.db.file
      BY <1>5, <1>6, <2>4 DEF Db
    <3> QED BY <1>5, <1>6, <2>1, <2>4, <3>1 DEF WholeDb
  <2> QED BY <2>2, <2>3, <2>4, EntryFields
<1>8. WholeDb(r.db)
  BY <1>7 DEF LoadInv
<1> QED BY <1>4, <1>7, <1>8, ReplicaLoads

\* A node starts from its snapshot.
LEMMA RestoreLoads == ASSUME LoadInv, NEW n \in Replicas, ReplicaRestore(n) PROVE LoadInv'
<1>1. NoDechunker \in Dechunker /\ NoDechunker.seq = 0 /\ NoDechunker.file = << >> /\ Bytes(0, 0) = << >>
  BY DEF NoDechunker, Dechunker, Bytes
<1>2. Fresh \in [Streams -> Dechunker] /\ \A s \in Streams : Fresh[s] = NoDechunker
  BY <1>1 DEF Fresh
<1>3. csnap[n].idx \in Nat /\ csnap[n].db \in Db /\ WholeDb(csnap[n].db)
  BY DEF LoadInv, ChunkTypeOK
<1>4. PICK r \in ReplicaState : /\ r.db = csnap[n].db /\ r.dec = Fresh
                                /\ replica' = [replica EXCEPT ![n] = r]
  BY <1>2, <1>3 DEF ReplicaRestore, ReplicaState
<1>5. UNCHANGED <<chunker, clog, csnap>>
  BY DEF ReplicaRestore
<1>6. ASSUME NEW E \in [Streams -> [Nat -> Nat]], CutBy(E), NEW s \in Streams
      PROVE  PutTogether(E[s], r.dec[s], Sent(chunker[s]))
  <2>1. E[s][0] = 0 /\ Sent(chunker[s]) \in Nat
    BY <1>6, StreamTypes DEF CutBy, ChunkerAt, LoadInv
  <2> QED BY <1>1, <1>2, <1>4, <2>1 DEF PutTogether
<1> QED BY <1>3, <1>4, <1>5, <1>6, ReplicaLoads

\* A node stores a snapshot.
LEMMA SnapshotLoads == ASSUME LoadInv, NEW n \in Replicas, ReplicaSnapshot(n) PROVE LoadInv'
<1>1. PICK E \in [Streams -> [Nat -> Nat]] : CutBy(E)
  BY DEF LoadInv
<1>2. /\ ChunkTypeOK /\ UNCHANGED <<chunker, clog, replica>>
      /\ \A m \in Replicas : WholeDb(replica[m].db) /\ WholeDb(csnap[m].db)
  BY DEF LoadInv, ReplicaSnapshot
<1>3. PICK p \in [idx : Nat, db : Db] : p.db = replica[n].db /\ csnap' = [csnap EXCEPT ![n] = p]
  <2>1. replica[n].idx \in Nat /\ replica[n].db \in Db
    BY <1>2 DEF ChunkTypeOK, ReplicaState
  <2> QED BY <2>1 DEF ReplicaSnapshot
<1>4. /\ csnap' \in [Replicas -> [idx : Nat, db : Db]]
      /\ \A m \in Replicas : csnap'[m] = IF m = n THEN p ELSE csnap[m]
  BY <1>2, <1>3 DEF ChunkTypeOK
<1>5. \A m \in Replicas : WholeDb(replica'[m].db) /\ WholeDb(csnap'[m].db)
  BY <1>2, <1>3, <1>4
<1>6. CutBy(E)'
  BY <1>1, <1>2 DEF CutBy
<1>7. ChunkTypeOK'
  BY <1>2, <1>4 DEF ChunkTypeOK
<1> QED BY <1>1, <1>5, <1>6, <1>7 DEF LoadInv, WholeDb

----------------------------------------------------------------------------
(* Every node loads the same.                                              *)

\* H[i] is what a node that never restarts has made of the first i entries.
History(H) ==
    /\ H[0].db = EmptyDb /\ H[0].dec = Fresh
    /\ \A i \in 1..Len(clog) : H[i] = ProcessEntry(H[i - 1], clog[i], i)

\* Stream s has a chunk among the first i entries.
Begun(s, i) == \E j \in 1..i : clog[j].kind = "chunk" /\ clog[j].of = s

\* The node never restarted amid a stream.
Unbroken(n) == \A x \in restored : x[1] = n => ~AmidStream(x[2])

\* The node has, up to entry i, restarted after a chunk of s.
Forgot(n, s, i) == \E x \in restored : x[1] = n /\ x[2] \in 0..i /\ Begun(s, x[2])

\* The database of such a node is that of one that did not restart, and so are the
\* Dechunkers of the streams whose chunks it did not forget.
AsApplied(H, n) ==
    /\ replica[n].db = H[replica[n].idx].db
    /\ csnap[n].db = H[csnap[n].idx].db
    /\ \A s \in Streams : replica[n].dec[s] = H[replica[n].idx].dec[s] \/ Forgot(n, s, replica[n].idx)

AgreeBy(H) ==
    /\ History(H)
    /\ \A s \in Streams, i \in 0..Len(clog) : ~Begun(s, i) => H[i].dec[s] = NoDechunker
    /\ \A n \in Replicas : Unbroken(n) => AsApplied(H, n)

AgreeInv ==
    /\ LoadInv
    /\ restored \subseteq Replicas \X Nat
    /\ \A n \in Replicas : replica[n].idx \in 0..Len(clog) /\ csnap[n].idx \in 0..Len(clog)
    /\ \E H \in [Nat -> ReplicaState] : AgreeBy(H)

\* The invariant gives the property.
LEMMA AgreeExact == AgreeInv => ChunkedLoadIsExact
<1> SUFFICES ASSUME AgreeInv PROVE ChunkedLoadIsExact
  OBVIOUS
<1>1. LoadedIsWhole
  BY DEF AgreeInv, LoadInv, WholeDb, LoadedIsWhole
<1>2. PICK H \in [Nat -> ReplicaState] : AgreeBy(H)
  BY DEF AgreeInv
<1>3. LoadsAgree
  <2> SUFFICES ASSUME NEW m \in Replicas, NEW n \in Replicas, replica[m].idx = replica[n].idx,
                      \A x \in restored : x[1] \in {m, n} => ~AmidStream(x[2])
               PROVE  replica[m].db = replica[n].db
    BY DEF LoadsAgree
  <2>1. Unbroken(m) /\ Unbroken(n)
    BY DEF Unbroken
  <2> QED BY <1>2, <2>1 DEF AgreeBy, AsApplied
<1> QED BY <1>1, <1>3 DEF ChunkedLoadIsExact

\* Every node has an empty database.
LEMMA AgreeInitInv == ChunkInit => AgreeInv
<1> SUFFICES ASSUME ChunkInit PROVE AgreeInv
  OBVIOUS
<1>1. LoadInv
  BY LoadInitInv
<1>2. PICK r \in ReplicaState : r.idx = 0 /\ r.db = EmptyDb /\ r.dec = Fresh
  <2>1. EmptyDb \in Db
    BY DEF EmptyDb, Db
  <2>2. Fresh \in [Streams -> Dechunker]
    BY DEF Fresh, NoDechunker, Dechunker
  <2>3. [idx |-> 0, db |-> EmptyDb, dec |-> Fresh] \in ReplicaState
    BY <2>1, <2>2 DEF ReplicaState
  <2> QED BY <2>3
<1>3. PICK H \in [Nat -> ReplicaState] : H = [i \in Nat |-> r]
  OBVIOUS
<1>4. Len(clog) = 0 /\ restored = {}
  BY DEF ChunkInit
<1>5. \A n \in Replicas : replica[n].idx = 0 /\ csnap[n].idx = 0 /\ replica[n].db = EmptyDb
                          /\ csnap[n].db = EmptyDb /\ replica[n].dec = Fresh
  BY DEF ChunkInit
<1>6. History(H)
  BY <1>2, <1>3, <1>4 DEF History
<1>7. \A s \in Streams, i \in 0..Len(clog) : H[i].dec[s] = NoDechunker
  BY <1>2, <1>3, <1>4 DEF Fresh
<1>8. \A n \in Replicas : AsApplied(H, n)
  BY <1>2, <1>3, <1>5 DEF AsApplied
<1> QED BY <1>1, <1>3, <1>4, <1>5, <1>6, <1>7, <1>8 DEF AgreeInv, AgreeBy

\* The log grows by an entry.
LEMMA LogGrows ==
    ASSUME clog \in Seq(LogEntry), NEW e \in LogEntry, clog' = Append(clog, e),
           restored' = restored, restored \subseteq Replicas \X Nat
    PROVE  /\ \A s \in Streams, i \in 0..Len(clog) : Begun(s, i)' <=> Begun(s, i)
           /\ \A i \in Nat : AmidStream(i) => AmidStream(i)'
           /\ \A n \in Replicas : Unbroken(n)' => Unbroken(n)
<1>1. /\ Len(clog) \in Nat /\ Len(clog') = Len(clog) + 1
      /\ \A i \in 1..Len(clog) : clog'[i] = clog[i]
  BY LogMore
<1>2. ASSUME NEW s \in Streams, NEW i \in 0..Len(clog) PROVE Begun(s, i)' <=> Begun(s, i)
  <2>1. \A j \in 1..i : clog'[j] = clog[j]
    BY <1>1
  <2> QED BY <2>1 DEF Begun
<1>3. ASSUME NEW i \in Nat, AmidStream(i) PROVE AmidStream(i)'
  <2>1. PICK j \in 1..i, k \in (i + 1)..Len(clog) :
          clog[j].kind = "chunk" /\ clog[k].kind = "chunk" /\ clog[j].of = clog[k].of
    BY <1>3 DEF AmidStream
  <2>2. j \in 1..Len(clog) /\ k \in 1..Len(clog) /\ k \in (i + 1)..Len(clog')
    BY <1>1, <2>1
  <2>3. clog'[j] = clog[j] /\ clog'[k] = clog[k]
    BY <1>1, <2>2
  <2> QED BY <2>1, <2>2, <2>3 DEF AmidStream
<1>4. ASSUME NEW n \in Replicas, Unbroken(n)' PROVE Unbroken(n)
  <2>1. \A x \in restored : x[2] \in Nat
    OBVIOUS
  <2> QED BY <1>3, <1>4, <2>1 DEF Unbroken
<1> QED BY <1>2, <1>3, <1>4

\* An entry reaches the log: what the nodes have does not change, and what they are
\* to make of it is one step more.
LEMMA AppendAgrees ==
    ASSUME AgreeInv, LoadInv', NEW e \in LogEntry, clog' = Append(clog, e),
           UNCHANGED <<replica, csnap, restored>>
    PROVE  AgreeInv'
<1>1. PICK H \in [Nat -> ReplicaState] : AgreeBy(H)
  BY DEF AgreeInv
<1>2. clog \in Seq(LogEntry) /\ restored \subseteq Replicas \X Nat
  BY DEF AgreeInv, LoadInv, ChunkTypeOK
<1>3. PICK l \in Nat : /\ l = Len(clog) /\ Len(clog') = l + 1
                       /\ (\A i \in 1..l : clog'[i] = clog[i]) /\ clog'[l + 1] = e
  BY <1>2, LogMore
<1>4. PICK h \in ReplicaState, m \in Nat : h = H[l] /\ m = l + 1
  BY <1>3
<1>5. PICK r \in ReplicaState : r = ProcessEntry(h, e, m) /\ Processed(h, e, m, r)
  BY ProcessFields, Zenon
<1>6. /\ e.kind = "chunk" => r.dec = [h.dec EXCEPT ![e.of] = NewDec(h.dec[e.of], e)]
      /\ e.kind = "abort" => r.dec = [h.dec EXCEPT ![e.of] = NoDechunker]
      /\ e.kind = "write" => r.dec = h.dec
  BY <1>5 DEF Processed
<1>7. PICK G \in [Nat -> ReplicaState] : G = [H EXCEPT ![l + 1] = r]
  OBVIOUS
<1>8. G[l + 1] = r /\ \A i \in 0..l : G[i] = H[i]
  BY <1>7
<1>9. /\ \A s \in Streams, i \in 0..l : Begun(s, i)' <=> Begun(s, i)
      /\ \A n \in Replicas : Unbroken(n)' => Unbroken(n)
  BY <1>2, <1>3, LogGrows
<1>10. History(G)'
  <2>1. G[0].db = EmptyDb /\ G[0].dec = Fresh
    BY <1>1, <1>8 DEF AgreeBy, History
  <2>2. ASSUME NEW i \in 1..(l + 1) PROVE G[i] = ProcessEntry(G[i - 1], clog'[i], i)
    <3>1. CASE i \in 1..l
      <4>1. i - 1 \in 0..l /\ i \in 0..l
        BY <3>1
      <4>2. H[i] = ProcessEntry(H[i - 1], clog[i], i)
        BY <1>1, <1>3, <3>1 DEF AgreeBy, History
      <4> QED BY <1>3, <1>8, <3>1, <4>1, <4>2
    <3>2. CASE i = l + 1
      <4>1. i - 1 = l /\ i = m /\ G[i - 1] = h
        BY <1>4, <1>8, <3>2
      <4>2. G[i] = r /\ clog'[i] = e
        BY <1>3, <1>8, <3>2
      <4> QED BY <1>5, <4>1, <4>2, Zenon
    <3>3. i \in 1..l \/ i = l + 1
      BY <1>3
    <3> QED BY <3>1, <3>2, <3>3
  <2> QED BY <1>3, <2>1, <2>2 DEF History
<1>11. ASSUME NEW s \in Streams, NEW i \in 0..(l + 1), ~Begun(s, i)' PROVE G[i].dec[s] = NoDechunker
  <2>1. CASE i \in 0..l
    BY <1>1, <1>3, <1>8, <1>9, <1>11, <2>1 DEF AgreeBy
  <2>2. CASE i = l + 1
    <3>1. ~Begun(s, l)'
      <4>1. \A j \in 1..l : j \in 1..i
        BY <2>2
      <4> QED BY <1>11, <4>1 DEF Begun
    <3>2. h.dec[s] = NoDechunker
      BY <1>1, <1>3, <1>4, <1>9, <3>1 DEF AgreeBy
    <3>3. ~(e.kind = "chunk" /\ e.of = s)
      BY <1>3, <1>11, <2>2 DEF Begun
    <3>4. h.dec \in [Streams -> Dechunker]
      BY DEF ReplicaState
    <3>5. r.dec[s] = NoDechunker
      <4>1. CASE e.kind = "chunk"
        BY <1>6, <3>2, <3>3, <3>4, <4>1
      <4>2. CASE e.kind = "abort"
        BY <1>6, <3>2, <3>4, <4>2
      <4>3. CASE e.kind = "write"
        BY <1>6, <3>2, <4>3
      <4> QED BY <4>1, <4>2, <4>3, EntryFields
    <3>6. G[i] = r
      BY <1>8, <2>2
    <3> QED BY <3>5, <3>6
  <2> QED BY <2>1, <2>2
<1>12. \A n \in Replicas : /\ replica'[n].idx \in 0..l /\ csnap'[n].idx \in 0..l
                           /\ replica'[n] = replica[n] /\ csnap'[n] = csnap[n]
  BY <1>3 DEF AgreeInv
<1>13. ASSUME NEW n \in Replicas, Unbroken(n)' PROVE AsApplied(G, n)'
  <2>1. AsApplied(H, n)
    BY <1>1, <1>9, <1>13 DEF AgreeBy
  <2>2. ASSUME NEW s \in Streams, Forgot(n, s, replica[n].idx) PROVE Forgot(n, s, replica[n].idx)'
    <3>1. PICK x \in restored : x[1] = n /\ x[2] \in 0..replica[n].idx /\ Begun(s, x[2])
      BY <2>2 DEF Forgot
    <3>2. PICK k \in 0..l : k = x[2]
      BY <1>12, <3>1
    <3>3. Begun(s, k)'
      BY <1>9, <3>1, <3>2
    <3> QED BY <3>1, <3>2, <3>3 DEF Forgot, Begun
  <2> QED BY <1>8, <1>12, <2>1, <2>2 DEF AsApplied
<1>14. \A n \in Replicas : replica'[n].idx \in 0..Len(clog') /\ csnap'[n].idx \in 0..Len(clog')
  BY <1>3, <1>12
<1>15. AgreeBy(G)'
  BY <1>3, <1>10, <1>11, <1>13 DEF AgreeBy
<1> QED BY <1>2, <1>7, <1>14, <1>15 DEF AgreeInv

\* A node that restarted amid no stream applies the next entry as the others did.
LEMMA ApplyAgrees ==
    ASSUME AgreeInv, NEW n \in Replicas, ReplicaApply(n) PROVE AgreeInv'
<1>1. PICK H \in [Nat -> ReplicaState] : AgreeBy(H)
  BY DEF AgreeInv
<1>2. LoadInv /\ LoadInv' /\ ChunkTypeOK /\ restored \subseteq Replicas \X Nat
  BY ApplyLoads DEF AgreeInv, LoadInv
<1>3. PICK p \in Nat, i \in Nat : p = replica[n].idx /\ i = p + 1 /\ i \in 1..Len(clog) /\ i - 1 = p
  BY <1>2 DEF ChunkTypeOK, ReplicaState, ReplicaApply
<1>4. PICK o \in ReplicaState, h \in ReplicaState, e \in LogEntry : o = replica[n] /\ h = H[p] /\ e = clog[i]
  BY <1>2, <1>3 DEF ChunkTypeOK
<1>5. PICK r \in ReplicaState, g \in ReplicaState : /\ r = ProcessEntry(o, e, i) /\ Processed(o, e, i, r)
                                                    /\ g = ProcessEntry(h, e, i) /\ Processed(h, e, i, g)
  BY ProcessFields, Zenon
<1>6. H[i] = g
  BY <1>1, <1>3, <1>4, <1>5 DEF AgreeBy, History
<1>7. /\ replica' = [replica EXCEPT ![n] = r] /\ UNCHANGED <<clog, csnap, restored>>
  BY <1>3, <1>4, <1>5 DEF ReplicaApply
<1>8. replica'[n] = r /\ \A m \in Replicas : m # n => replica'[m] = replica[m]
  BY <1>2, <1>7 DEF ChunkTypeOK
<1>9. r.idx = i
  BY <1>5 DEF Processed
<1>10. ASSUME Unbroken(n) PROVE AsApplied(H, n)'
  <2>1. o.db = h.db /\ csnap[n].db = H[csnap[n].idx].db
        /\ \A s \in Streams : o.dec[s] = h.dec[s] \/ Forgot(n, s, p)
    BY <1>1, <1>3, <1>4, <1>10 DEF AgreeBy, AsApplied
  <2>2. o.dec \in [Streams -> Dechunker] /\ h.dec \in [Streams -> Dechunker]
    BY DEF ReplicaState
  <2>3. \A s \in Streams : Forgot(n, s, p) => Forgot(n, s, i)
    <3>1. \A k \in 0..p : k \in 0..i
      BY <1>3
    <3> QED BY <3>1, Zenon DEF Forgot
  <2>4. ASSUME NEW s \in Streams, e.kind = "chunk", e.of = s PROVE ~Forgot(n, s, p)
    <3> SUFFICES ASSUME Forgot(n, s, p) PROVE FALSE
      OBVIOUS
    <3>1. PICK x \in restored : x[1] = n /\ x[2] \in 0..p /\ Begun(s, x[2])
      BY DEF Forgot
    <3>2. PICK k \in 0..p : k = x[2]
      BY <3>1
    <3>3. PICK j \in 1..k : clog[j].kind = "chunk" /\ clog[j].of = s
      BY <3>1, <3>2 DEF Begun
    <3>4. i \in (k + 1)..Len(clog)
      BY <1>2, <1>3 DEF ChunkTypeOK
    <3>5. AmidStream(k)
      BY <1>4, <2>4, <3>3, <3>4 DEF AmidStream
    <3> QED BY <1>10, <3>1, <3>2, <3>5 DEF Unbroken
  <2>5. r.db = g.db /\ \A s \in Streams : r.dec[s] = g.dec[s] \/ Forgot(n, s, i)
    <3>1. CASE e.kind = "chunk"
      <4>1. PICK q \in Streams : q = e.of /\ o.dec[q] = h.dec[q]
        BY <2>1, <2>4, <3>1, EntryFields
      <4>2. /\ r.dec = [o.dec EXCEPT ![q] = NewDec(o.dec[q], e)] /\ r.db = NewDb(o.db, o.dec[q], e)
            /\ g.dec = [h.dec EXCEPT ![q] = NewDec(h.dec[q], e)] /\ g.db = NewDb(h.db, h.dec[q], e)
        BY <1>5, <2>2, <3>1, <4>1 DEF Processed
      <4>3. \A s \in Streams : \/ r.dec[s] = g.dec[s]
                               \/ s # q /\ r.dec[s] = o.dec[s] /\ g.dec[s] = h.dec[s]
        BY <2>2, <4>1, <4>2
      <4> QED BY <2>1, <2>3, <4>1, <4>2, <4>3
    <3>2. CASE e.kind = "abort"
      <4>1. PICK q \in Streams : q = e.of
        BY <3>2, EntryFields
      <4>2. /\ r.dec = [o.dec EXCEPT ![q] = NoDechunker] /\ r.db = o.db
            /\ g.dec = [h.dec EXCEPT ![q] = NoDechunker] /\ g.db = h.db
        BY <1>5, <3>2, <4>1 DEF Processed
      <4>3. \A s \in Streams : \/ r.dec[s] = g.dec[s]
                               \/ r.dec[s] = o.dec[s] /\ g.dec[s] = h.dec[s]
        BY <2>2, <4>1, <4>2
      <4> QED BY <2>1, <2>3, <4>2, <4>3
    <3>3. CASE e.kind = "write"
      <4>1. /\ r.dec = o.dec /\ r.db = [o.db EXCEPT !.writes = @ \cup {i}]
            /\ g.dec = h.dec /\ g.db = [h.db EXCEPT !.writes = @ \cup {i}]
        BY <1>5, <3>3 DEF Processed
      <4> QED BY <2>1, <2>3, <4>1
    <3> QED BY <3>1, <3>2, <3>3, EntryFields
  <2>6. \A s \in Streams : Forgot(n, s, i) => Forgot(n, s, i)'
    BY <1>7 DEF Forgot, Begun
  <2> QED BY <1>6, <1>7, <1>8, <1>9, <2>1, <2>5, <2>6 DEF AsApplied
<1>11. \A m \in Replicas : Unbroken(m)' => Unbroken(m)
  BY <1>7 DEF Unbroken, AmidStream
<1>12. ASSUME NEW m \in Replicas, Unbroken(m)' PROVE AsApplied(H, m)'
  <2>1. CASE m = n
    BY <1>10, <1>11, <1>12, <2>1
  <2>2. CASE m # n
    <3>1. AsApplied(H, m) /\ replica'[m] = replica[m] /\ csnap' = csnap
      BY <1>1, <1>7, <1>8, <1>11, <1>12, <2>2 DEF AgreeBy
    <3>2. \A s \in Streams : Forgot(m, s, replica[m].idx) => Forgot(m, s, replica[m].idx)'
      BY <1>7, <3>1 DEF Forgot, Begun
    <3> QED BY <3>1, <3>2 DEF AsApplied
  <2> QED BY <2>1, <2>2
<1>13. \A m \in Replicas : replica'[m].idx \in 0..Len(clog') /\ csnap'[m].idx \in 0..Len(clog')
  <2>1. i \in 0..Len(clog)
    BY <1>3
  <2> QED BY <1>7, <1>8, <1>9, <2>1 DEF AgreeInv
<1>14. AgreeBy(H)'
  BY <1>1, <1>7, <1>12 DEF AgreeBy, History, Begun
<1> QED BY <1>2, <1>7, <1>13, <1>14 DEF AgreeInv

\* A node stores a snapshot of its database.
LEMMA SnapshotAgrees ==
    ASSUME AgreeInv, NEW n \in Replicas, ReplicaSnapshot(n) PROVE AgreeInv'
<1>1. PICK H \in [Nat -> ReplicaState] : AgreeBy(H)
  BY DEF AgreeInv
<1>2. LoadInv' /\ ChunkTypeOK /\ restored \subseteq Replicas \X Nat
  BY SnapshotLoads DEF AgreeInv, LoadInv
<1>3. UNCHANGED <<clog, replica, restored>>
  BY DEF ReplicaSnapshot
<1>4. /\ csnap'[n].idx = replica[n].idx /\ csnap'[n].db = replica[n].db
      /\ \A m \in Replicas : m # n => csnap'[m] = csnap[m]
  BY <1>2 DEF ChunkTypeOK, ReplicaSnapshot
<1>5. ASSUME NEW m \in Replicas, Unbroken(m)' PROVE AsApplied(H, m)'
  <2>1. Unbroken(m)
    BY <1>3, <1>5 DEF Unbroken, AmidStream
  <2>2. AsApplied(H, m)
    BY <1>1, <2>1 DEF AgreeBy
  <2>3. csnap'[m].db = H[csnap'[m].idx].db
    BY <1>4, <2>2 DEF AsApplied
  <2>4. \A s \in Streams : Forgot(m, s, replica[m].idx) => Forgot(m, s, replica[m].idx)'
    BY <1>3 DEF Forgot, Begun
  <2> QED BY <1>3, <2>2, <2>3, <2>4 DEF AsApplied
<1>6. \A m \in Replicas : replica'[m].idx \in 0..Len(clog') /\ csnap'[m].idx \in 0..Len(clog')
  BY <1>3, <1>4 DEF AgreeInv
<1>7. AgreeBy(H)'
  BY <1>1, <1>3, <1>5 DEF AgreeBy, History, Begun
<1> QED BY <1>2, <1>3, <1>6, <1>7 DEF AgreeInv

\* A node starts from its snapshot, without Dechunkers.
LEMMA RestoreAgrees ==
    ASSUME AgreeInv, NEW n \in Replicas, ReplicaRestore(n) PROVE AgreeInv'
<1>1. PICK H \in [Nat -> ReplicaState] : AgreeBy(H)
  BY DEF AgreeInv
<1>2. LoadInv' /\ ChunkTypeOK /\ restored \subseteq Replicas \X Nat
  BY RestoreLoads DEF AgreeInv, LoadInv
<1>3. PICK i \in Nat : i = csnap[n].idx /\ i \in 0..Len(clog)
  BY <1>2 DEF AgreeInv, ChunkTypeOK
<1>4. /\ UNCHANGED <<clog, csnap>> /\ restored' = restored \cup {<<n, i>>}
      /\ replica'[n].idx = i /\ replica'[n].db = csnap[n].db /\ replica'[n].dec = Fresh
      /\ \A m \in Replicas : m # n => replica'[m] = replica[m]
  BY <1>2, <1>3 DEF ChunkTypeOK, ReplicaRestore
<1>5. restored' \subseteq Replicas \X Nat
  BY <1>2, <1>4
<1>6. \A m \in Replicas : Unbroken(m)' => Unbroken(m)
  BY <1>4 DEF Unbroken, AmidStream
<1>7. ASSUME NEW m \in Replicas, NEW s \in Streams, NEW k, Forgot(m, s, k) PROVE Forgot(m, s, k)'
  BY <1>4, <1>7 DEF Forgot, Begun
<1>8. ASSUME Unbroken(n)' PROVE AsApplied(H, n)'
  <2>1. csnap[n].db = H[i].db
    BY <1>1, <1>3, <1>6, <1>8 DEF AgreeBy, AsApplied
  <2>2. ASSUME NEW s \in Streams PROVE Fresh[s] = H[i].dec[s] \/ Forgot(n, s, i)'
    <3>1. CASE Begun(s, i)
      <4>1. <<n, i>> \in restored' /\ <<n, i>>[1] = n /\ <<n, i>>[2] = i /\ i \in 0..i
        BY <1>4
      <4>2. Begun(s, i)'
        BY <1>4, <3>1 DEF Begun
      <4> QED BY <4>1, <4>2 DEF Forgot, Begun
    <3>2. CASE ~Begun(s, i)
      BY <1>1, <1>3, <3>2 DEF AgreeBy, Fresh
    <3> QED BY <3>1, <3>2
  <2> QED BY <1>3, <1>4, <2>1, <2>2 DEF AsApplied
<1>9. ASSUME NEW m \in Replicas, Unbroken(m)' PROVE AsApplied(H, m)'
  <2>1. CASE m = n
    BY <1>8, <1>9, <2>1
  <2>2. CASE m # n
    <3>1. AsApplied(H, m) /\ replica'[m] = replica[m] /\ csnap' = csnap
      BY <1>1, <1>4, <1>6, <1>9, <2>2 DEF AgreeBy
    <3>2. \A s \in Streams : Forgot(m, s, replica[m].idx) => Forgot(m, s, replica[m].idx)'
      BY <1>4, <3>1 DEF Forgot, Begun
    <3> QED BY <3>1, <3>2 DEF AsApplied
  <2> QED BY <2>1, <2>2
<1>10. \A m \in Replicas : replica'[m].idx \in 0..Len(clog') /\ csnap'[m].idx \in 0..Len(clog')
  BY <1>3, <1>4 DEF AgreeInv
<1>11. AgreeBy(H)'
  BY <1>1, <1>4, <1>9 DEF AgreeBy, History, Begun
<1> QED BY <1>2, <1>5, <1>10, <1>11 DEF AgreeInv

\* The log, and all that is kept of it, stays as it is.
LEMMA StutterAgrees ==
    ASSUME AgreeInv, LoadInv', UNCHANGED <<clog, replica, csnap, restored>> PROVE AgreeInv'
BY DEF AgreeInv, AgreeBy, History, Begun, Unbroken, AmidStream, AsApplied, Forgot

\* A step.
LEMMA AgreeStep == AgreeInv /\ [ChunkNext]_chunkVars => AgreeInv'
<1> SUFFICES ASSUME AgreeInv, [ChunkNext]_chunkVars PROVE AgreeInv'
  OBVIOUS
<1>0. LoadInv
  BY DEF AgreeInv
<1>1. ASSUME NEW s \in Streams, NextChunk(s) PROVE AgreeInv'
  <2>1. LoadInv' /\ UNCHANGED <<replica, csnap, restored>>
    BY <1>0, <1>1, NextChunkLoads DEF NextChunk
  <2>2. CASE clog' = clog
    BY <2>1, <2>2, StutterAgrees
  <2>3. CASE clog' # clog
    <3>1. PICK e : clog' = Append(clog, e)
      BY <1>1, <2>3 DEF NextChunk
    <3>2. e \in LogEntry
      <4>1. clog' \in Seq(LogEntry) /\ clog \in Seq(LogEntry)
        BY <1>0, <2>1 DEF LoadInv, ChunkTypeOK
      <4>2. Append(clog, e)[Len(clog) + 1] = e /\ Len(Append(clog, e)) = Len(clog) + 1
        BY <4>1
      <4>3. clog'[Len(clog) + 1] \in LogEntry
        BY <3>1, <4>1, <4>2
      <4> QED BY <3>1, <4>2, <4>3
    <3> QED BY <2>1, <3>1, <3>2, AppendAgrees
  <2> QED BY <2>2, <2>3
<1>2. ASSUME NEW s \in Streams, AbortStream(s) PROVE AgreeInv'
  <2>1. LoadInv' /\ UNCHANGED <<replica, csnap, restored>>
    BY <1>0, <1>2, AbortLoads DEF AbortStream
  <2>2. [kind |-> "abort", of |-> s] \in LogEntry
    BY DEF LogEntry
  <2>3. PICK e \in LogEntry : clog' = Append(clog, e)
    BY <1>2, <2>2 DEF AbortStream
  <2> QED BY <2>1, <2>3, AppendAgrees
<1>3. CASE WriteEntry
  <2>1. LoadInv' /\ UNCHANGED <<replica, csnap, restored>>
    BY <1>0, <1>3, WriteLoads DEF WriteEntry
  <2>2. [kind |-> "write"] \in LogEntry
    BY DEF LogEntry
  <2>3. PICK e \in LogEntry : clog' = Append(clog, e)
    BY <1>3, <2>2 DEF WriteEntry
  <2> QED BY <2>1, <2>3, AppendAgrees
<1>4. CASE UNCHANGED chunkVars
  <2>1. UNCHANGED <<chunker, clog, replica, csnap, restored>>
    BY <1>4 DEF chunkVars
  <2>2. LoadInv'
    BY <1>0, <2>1 DEF LoadInv, ChunkTypeOK, CutBy
  <2> QED BY <2>1, <2>2, StutterAgrees
<1> QED BY <1>1, <1>2, <1>3, <1>4, ApplyAgrees, SnapshotAgrees, RestoreAgrees DEF ChunkNext

\* What a node loads from chunks is a whole file, and every node loads the same,
\* for every size of chunks and files, number of streams, nodes and restarts:
\* Chunker.Next, Dechunker.WriteChunk and the LOAD_CHUNK case of Process.
THEOREM ChunkedLoads == ChunkSpec => []ChunkedLoadIsExact
<1>1. ChunkInit => AgreeInv
  BY AgreeInitInv
<1>2. AgreeInv /\ [ChunkNext]_chunkVars => AgreeInv'
  BY AgreeStep
<1>3. AgreeInv => ChunkedLoadIsExact
  BY AgreeExact
<1> QED BY <1>1, <1>2, <1>3, PTL DEF ChunkSpec
=============================================================================
