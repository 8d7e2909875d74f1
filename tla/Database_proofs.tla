-------------------------- MODULE Database_proofs ---------------------------
(***************************************************************************)
(* The database of a node, for every number of pages, frames, entries,     *)
(* statements, restarts and crashes: compacting a WAL loses nothing, a     *)
(* node booted from a SQLite file has the database of that file, a         *)
(* transaction that fails leaves nothing behind, and replicas that apply   *)
(* the same log have the same database.                                    *)
(***************************************************************************)
EXTENDS Database, WalCompaction, Boot, FiniteSetTheorems, SequenceTheorems,
        WellFoundedInduction, TLAPS

----------------------------------------------------------------------------
(* The compaction of a WAL.                                                *)

Frame == [pgno : PageNo, commit : 0..Pages, salt : Nat, serial : Nat, chain : Nat]

\* The committed frames and those of the open transaction have the salt of the
\* header, any frame behind them that has it too is of a transaction that was
\* rolled back, and all others have the salt of an earlier WAL.
SaltsInv ==
    /\ salt <= serial /\ \A i \in DOMAIN wal : wal[i].salt < serial
    /\ \A i \in 1..(mxFrame + written) : wal[i].salt = salt
    /\ \A i \in DOMAIN wal : i > mxFrame /\ wal[i].salt = salt => wal[i].commit = 0

\* As long as no WAL was missed the copy is the main file, and what the last snapshot's
\* WAL makes of the file before it is the file after it.
WalInv ==
    /\ wal \in Seq(Frame)
    /\ salt \in Nat /\ mxFrame \in Nat /\ written \in Nat /\ serial \in Nat
    /\ mxFrame + written <= Len(wal)
    /\ SaltsInv
    /\ missed \in BOOLEAN /\ (~missed => copy = main)
    /\ wal = << >> /\ scanned = "ok" => rebuilt = main

\* A set of naturals that is not empty has a least element.
LEMMA LeastNatural ==
    ASSUME NEW T, T \subseteq Nat, T # {}
    PROVE  \E x \in T : \A y \in T : x <= y
<1> DEFINE R == OpToRel(<, Nat)
<1>1. IsWellFoundedOn(R, Nat)
  BY NatLessThanWellFounded
<1>2. \A x, y \in Nat : y < x => <<y, x>> \in R
  BY DEF OpToRel
<1> HIDE DEF R
<1>3. PICK x \in T : \A y \in T : ~(<<y, x>> \in R)
  BY <1>1, WFMin, Zenon
<1>4. ASSUME NEW y \in T PROVE x <= y
  <2>1. x \in Nat /\ y \in Nat
    OBVIOUS
  <2>2. ~(y < x)
    BY <1>2, <1>3, <2>1
  <2> QED BY <2>1, <2>2
<1> QED BY <1>4

\* A set of naturals that is not empty and is bounded has a greatest element.
LEMMA GreatestOfNaturals ==
    ASSUME NEW N \in Nat, NEW T, T \subseteq 0..N, T # {}
    PROVE  \E x \in T : \A y \in T : x >= y
<1> DEFINE S == {N - x : x \in T}
<1>1. \A x \in T : N - x \in Nat
  OBVIOUS
<1>2. S \subseteq Nat /\ S # {}
  BY <1>1, Zenon
<1>3. PICK z \in S : \A y \in S : z <= y
  BY <1>2, LeastNatural
<1>4. PICK x \in T : z = N - x
  BY <1>3
<1>5. ASSUME NEW y \in T PROVE x >= y
  <2>1. N - y \in S
    OBVIOUS
  <2>2. z <= N - y /\ x \in 0..N /\ y \in 0..N
    BY <1>3, <2>1
  <2> QED BY <1>4, <2>2
<1> QED BY <1>5

\* s lists the members of S, the smaller ones first.
Sorts(s, m, S) ==
    /\ s \in [1..m -> S]
    /\ \A i, j \in 1..m : i < j => s[i] < s[j]
    /\ \A x \in S : \E i \in 1..m : s[i] = x

\* One more member, greater than all others.
LEMMA SortOneMore ==
    ASSUME NEW S \in SUBSET Nat, NEW n \in Nat, NEW m \in Nat, NEW s, Sorts(s, m, S \cap (0..n)), n + 1 \in S
    PROVE  \E t : Sorts(t, m + 1, S \cap (0..(n + 1)))
<1> DEFINE t == [i \in 1..(m + 1) |-> IF i = m + 1 THEN n + 1 ELSE s[i]]
<1>1. \A i \in 1..m : s[i] \in S /\ s[i] \in 0..n
  BY DEF Sorts
<1>2. t \in [1..(m + 1) -> S \cap (0..(n + 1))]
  BY <1>1
<1>3. ASSUME NEW i \in 1..(m + 1), NEW j \in 1..(m + 1), i < j PROVE t[i] < t[j]
  <2>1. i \in 1..m /\ t[i] = s[i]
    BY <1>3
  <2>2. CASE j = m + 1
    BY <1>1, <2>1, <2>2
  <2>3. CASE j # m + 1
    <3>1. j \in 1..m /\ t[j] = s[j]
      BY <2>3
    <3> QED BY <2>1, <3>1, <1>3 DEF Sorts
  <2> QED BY <2>2, <2>3
<1>4. ASSUME NEW x \in S \cap (0..(n + 1)) PROVE \E i \in 1..(m + 1) : t[i] = x
  <2>1. CASE x = n + 1
    <3>1. m + 1 \in 1..(m + 1) /\ t[m + 1] = n + 1
      OBVIOUS
    <3> QED BY <2>1, <3>1
  <2>2. CASE x # n + 1
    <3>1. x \in S \cap (0..n)
      BY <2>2
    <3>2. PICK i \in 1..m : s[i] = x
      BY <3>1 DEF Sorts
    <3>3. i \in 1..(m + 1) /\ t[i] = s[i]
      OBVIOUS
    <3> QED BY <3>2, <3>3
  <2> QED BY <2>1, <2>2
<1> HIDE DEF t
<1> QED BY <1>2, <1>3, <1>4 DEF Sorts

\* A bounded set of naturals can be sorted, as sort.Sort does.
LEMMA SortExists ==
    ASSUME NEW S \in SUBSET Nat, NEW n \in Nat
    PROVE  \E m \in Nat : \E s : Sorts(s, m, S \cap (0..n))
<1> DEFINE P(k) == \E m \in Nat : \E s : Sorts(s, m, S \cap (0..k))
           Bad == {k \in Nat : ~P(k)}
<1>1. P(0)
  <2>1. CASE 0 \in S
    <3>1. S \cap (0..0) = {0}
      BY <2>1
    <3>2. Sorts([i \in 1..1 |-> 0], 1, {0})
      BY DEF Sorts
    <3>3. 1 \in Nat
      OBVIOUS
    <3> QED BY <3>1, <3>2, <3>3
  <2>2. CASE 0 \notin S
    <3>1. S \cap (0..0) = {}
      BY <2>2
    <3>2. Sorts([i \in 1..0 |-> 0], 0, {})
      BY DEF Sorts
    <3>3. 0 \in Nat
      OBVIOUS
    <3> QED BY <3>1, <3>2, <3>3
  <2> QED BY <2>1, <2>2
<1>2. ASSUME NEW k \in Nat, P(k) PROVE P(k + 1)
  <2>1. PICK m \in Nat : \E s : Sorts(s, m, S \cap (0..k))
    BY <1>2
  <2>2. PICK s : Sorts(s, m, S \cap (0..k))
    BY <2>1
  <2>3. CASE k + 1 \in S
    <3>1. \E t : Sorts(t, m + 1, S \cap (0..(k + 1)))
      BY <2>2, <2>3, SortOneMore
    <3>2. m + 1 \in Nat
      OBVIOUS
    <3> QED BY <3>1, <3>2
  <2>4. CASE k + 1 \notin S
    <3>1. S \cap (0..(k + 1)) = S \cap (0..k)
      BY <2>4
    <3> QED BY <2>2, <3>1
  <2> QED BY <2>3, <2>4
<1> HIDE DEF P
<1>3. Bad = {}
  <2>1. SUFFICES ASSUME Bad # {} PROVE FALSE
    OBVIOUS
  <2>2. PICK x \in Bad : \A y \in Bad : x <= y
    BY <2>1, LeastNatural
  <2>3. x \in Nat /\ x # 0 /\ ~P(x)
    BY <1>1, <2>2
  <2>4. x - 1 \in Nat /\ ~(x <= x - 1) /\ (x - 1) + 1 = x
    BY <2>3
  <2>5. P(x - 1)
    BY <2>2, <2>4
  <2> QED BY <1>2, <2>3, <2>4, <2>5
<1>4. P(n)
  BY <1>3
<1> QED BY <1>4 DEF P

\* InOrder lists a bounded set of numbers in increasing order, each once.
LEMMA InOrderSorts ==
    ASSUME NEW S \in SUBSET Nat, NEW n \in Nat, S \subseteq 0..n
    PROVE  \E m \in Nat : Sorts(InOrder(S), m, S)
<1>1. S \cap (0..n) = S
  OBVIOUS
<1>2. PICK m \in Nat : \E s : Sorts(s, m, S)
  BY <1>1, SortExists
<1>3. PICK s : Sorts(s, m, S)
  BY <1>2
<1>4. IsFiniteSet(S) /\ IsFiniteSet(1..m) /\ Cardinality(1..m) = m
  <2>1. \A x \in S : x <= n
    OBVIOUS
  <2>2. IsFiniteSet(S)
    BY <2>1, FS_BoundedSetOfNaturals
  <2>3. 1 \in Int /\ m \in Int
    OBVIOUS
  <2> QED BY <2>2, <2>3, FS_Interval
<1>5. s \in Bijection(1..m, S)
  <2>1. \A i \in 1..m : s[i] \in Nat
    BY <1>3 DEF Sorts
  <2>2. \A i, j \in 1..m : i # j => s[i] # s[j]
    <3> TAKE i, j \in 1..m
    <3>1. i < j => s[i] < s[j]
      BY <1>3 DEF Sorts
    <3>2. j < i => s[j] < s[i]
      BY <1>3 DEF Sorts
    <3> QED BY <2>1, <3>1, <3>2
  <2> QED BY <1>3, <2>2 DEF Sorts, Bijection, Injection, Surjection, IsInjective
<1>6. Cardinality(S) = m
  <2>1. ExistsBijection(1..m, S)
    BY <1>5 DEF ExistsBijection
  <2> QED BY <1>4, <2>1, FS_Bijection
<1> DEFINE Ordered(r) == \A i, j \in 1..m : i < j => r[i] < r[j]
<1>7. InOrder(S) = CHOOSE r \in [1..m -> S] : Ordered(r)
  BY <1>6 DEF InOrder
<1>8. s \in [1..m -> S] /\ Ordered(s)
  BY <1>3 DEF Sorts
<1> HIDE DEF Ordered
<1>9. InOrder(S) \in [1..m -> S] /\ Ordered(InOrder(S))
  BY <1>7, <1>8
<1>10. PICK r : r = InOrder(S)
  OBVIOUS
<1>11. r \in [1..m -> S] /\ \A i, j \in 1..m : i < j => r[i] < r[j]
  BY <1>9, <1>10 DEF Ordered
<1>12. r \in Injection(1..m, S)
  <2>1. \A i \in 1..m : r[i] \in Nat
    BY <1>11
  <2>2. \A i, j \in 1..m : i # j => r[i] # r[j]
    <3> TAKE i, j \in 1..m
    <3>1. i < j => r[i] < r[j]
      BY <1>11
    <3>2. j < i => r[j] < r[i]
      BY <1>11
    <3> QED BY <2>1, <3>1, <3>2
  <2> QED BY <1>11, <2>2 DEF Injection, IsInjective
<1>13. r \in Surjection(1..m, S)
  BY <1>4, <1>6, <1>12, FS_Injection
<1>14. \A x \in S : \E i \in 1..m : r[i] = x
  BY <1>13 DEF Surjection
<1> QED BY <1>10, <1>11, <1>14 DEF Sorts
\* A frame written at the i-th place of the WAL, or at its end.
LEMMA WriteFrameIs ==
    ASSUME wal \in Seq(Frame), serial \in Nat, salt' \in Nat, NEW i \in 1..(Len(wal) + 1),
           NEW p \in PageNo, NEW c \in 0..Pages, WriteFrame(i, p, c)
    PROVE  \E fr \in Frame :
             /\ fr.commit = c /\ fr.salt = salt' /\ fr.pgno = p
             /\ wal' \in Seq(Frame)
             /\ Len(wal') = IF i <= Len(wal) THEN Len(wal) ELSE i
             /\ wal'[i] = fr
             /\ \A j \in DOMAIN wal' : j # i => j \in DOMAIN wal /\ wal'[j] = wal[j]
<1> DEFINE fr == [pgno |-> p, commit |-> c, salt |-> salt', serial |-> serial', chain |-> Before(wal, i)]
           a == SubSeq(wal, 1, i - 1)
           b == SubSeq(wal, i + 1, Len(wal))
<1>1. serial' \in Nat /\ wal' = a \o <<fr>> \o b
  BY DEF WriteFrame
<1>2. Before(wal, i) \in Nat
  <2>1. CASE i = 1
    BY <2>1 DEF Before
  <2>2. CASE i # 1
    <3>1. i - 1 \in 1..Len(wal) /\ wal[i - 1] \in Frame
      BY <2>2
    <3> QED BY <2>2, <3>1 DEF Before, Frame
  <2> QED BY <2>1, <2>2
<1>3. fr \in Frame
  BY <1>1, <1>2 DEF Frame
<1>f. fr.commit = c /\ fr.salt = salt' /\ fr.pgno = p
  OBVIOUS
<1>4. a \in Seq(Frame) /\ Len(a) = i - 1 /\ \A j \in 1..(i - 1) : a[j] = wal[j]
  OBVIOUS
<1>5. b \in Seq(Frame) /\ Len(b) = (IF i <= Len(wal) THEN Len(wal) - i ELSE 0)
      /\ \A j \in 1..Len(b) : b[j] = wal[i + j]
  OBVIOUS
<1> HIDE DEF a, b, fr
<1>a. PICK a1 \in Seq(Frame) : a1 = a
  BY <1>4
<1>b. PICK b1 \in Seq(Frame) : b1 = b
  BY <1>5
<1>g. PICK g \in Frame : g = fr
  BY <1>3
<1>d. Len(a1 \o <<g>>) = Len(a1) + 1 /\ (a1 \o <<g>>)[Len(a1) + 1] = g
      /\ a1 \o <<g>> \in Seq(Frame) /\ \A j \in 1..Len(a1) : (a1 \o <<g>>)[j] = a1[j]
  OBVIOUS
<1>e. Len(a1) = i - 1 /\ Len(a1) + 1 = i /\ \A j \in 1..(i - 1) : a1[j] = wal[j]
  BY <1>a, <1>4
<1>c. PICK c1 \in Seq(Frame) :
        c1 = a1 \o <<g>> /\ Len(c1) = i /\ c1[i] = g /\ \A j \in 1..(i - 1) : c1[j] = wal[j]
  <2>1. PICK c2 \in Seq(Frame) : c2 = a1 \o <<g>>
    BY <1>d
  <2>2. Len(c2) = i /\ c2[i] = g /\ \A j \in 1..(i - 1) : c2[j] = a1[j]
    BY <1>d, <1>e, <2>1
  <2> QED BY <1>e, <2>1, <2>2
<1>6. PICK w : w = c1 \o b1
  OBVIOUS
<1>h. Len(w) = Len(c1) + Len(b1) /\ w \in Seq(Frame) /\ \A j \in 1..Len(c1) : w[j] = c1[j]
  BY <1>6
<1>7. w \in Seq(Frame) /\ Len(w) = i + Len(b) /\ w[i] = fr
  <2>1. i \in 1..Len(c1)
    BY <1>c
  <2> QED BY <1>h, <1>c, <1>g, <1>b, <2>1
<1>8. ASSUME NEW j \in 1..Len(w), j # i PROVE j \in 1..Len(wal) /\ w[j] = wal[j]
  <2>1. CASE j < i
    BY <2>1, <1>c, <1>h
  <2>2. CASE j > i
    <3>1. j - i \in 1..Len(b) /\ w[j] = b[j - i]
      BY <2>2, <1>b, <1>c, <1>5, <1>6, <1>7
    <3>a. PICK h \in 1..Len(b) : h = j - i
      BY <3>1
    <3>b. b[h] = wal[i + h]
      BY <1>5
    <3>c. i + (j - i) = j
      BY <1>7
    <3>2. b[j - i] = wal[i + (j - i)] /\ i + (j - i) = j
      BY <3>a, <3>b, <3>c
    <3> QED BY <3>1, <3>2, <1>5
  <2> QED BY <1>8, <2>1, <2>2
<1>9. Len(w) = IF i <= Len(wal) THEN Len(wal) ELSE i
  BY <1>5, <1>7
<1>10. wal' = w
  BY <1>1, <1>a, <1>b, <1>g, <1>c, <1>6
<1>11. \A j \in DOMAIN w : j # i => j \in DOMAIN wal /\ w[j] = wal[j]
  BY <1>7, <1>8
<1> QED BY <1>3, <1>f, <1>7, <1>9, <1>10, <1>11

\* The compacted WAL: the last frames of the pages, each behind the one before it.
LEMMA WriteToIs ==
    ASSUME NEW f \in Seq(Frame), NEW m \in Nat, NEW kept \in [1..m -> DOMAIN f]
    PROVE  /\ WriteTo(f, kept) \in Seq(Frame) /\ Len(WriteTo(f, kept)) = m
           /\ \A k \in 1..m :
                 /\ WriteTo(f, kept)[k].pgno = f[kept[k]].pgno
                 /\ WriteTo(f, kept)[k].commit = f[kept[k]].commit
                 /\ WriteTo(f, kept)[k].salt = f[kept[k]].salt
                 /\ WriteTo(f, kept)[k].serial = f[kept[k]].serial
                 /\ WriteTo(f, kept)[k].chain = IF k = 1 THEN 0 ELSE f[kept[k - 1]].serial
<1>1. \A k \in 1..m : f[kept[k]] \in Frame
  OBVIOUS
<1>2. DOMAIN kept = 1..m
  OBVIOUS
<1> DEFINE ch(k) == IF k = 1 THEN 0 ELSE f[kept[k - 1]].serial
           r(k) == [f[kept[k]] EXCEPT !.chain = ch(k)]
<1>3. ASSUME NEW k \in 1..m
      PROVE  /\ r(k) \in Frame /\ r(k).pgno = f[kept[k]].pgno /\ r(k).commit = f[kept[k]].commit
             /\ r(k).salt = f[kept[k]].salt /\ r(k).serial = f[kept[k]].serial /\ r(k).chain = ch(k)
  <2>1. ch(k) \in Nat
    <3>1. CASE k = 1
      BY <3>1
    <3>2. CASE k # 1
      <4>1. k - 1 \in 1..m
        BY <3>2
      <4> QED BY <3>2, <4>1, <1>1 DEF Frame
    <3> QED BY <3>1, <3>2
  <2>2. PICK c \in Nat : c = ch(k)
    BY <2>1
  <2>3. PICK g \in Frame : g = f[kept[k]]
    BY <1>1
  <2>4. /\ [g EXCEPT !.chain = c] \in Frame /\ [g EXCEPT !.chain = c].pgno = g.pgno
        /\ [g EXCEPT !.chain = c].commit = g.commit /\ [g EXCEPT !.chain = c].salt = g.salt
        /\ [g EXCEPT !.chain = c].serial = g.serial /\ [g EXCEPT !.chain = c].chain = c
    BY DEF Frame
  <2> QED BY <2>2, <2>3, <2>4
<1>4. WriteTo(f, kept) = [k \in 1..m |-> r(k)]
  BY <1>2 DEF WriteTo
<1> HIDE DEF r
<1>5. PICK out : out = WriteTo(f, kept)
  OBVIOUS
<1>6. out = [k \in 1..m |-> r(k)]
  BY <1>4, <1>5
<1>7. out \in Seq(Frame) /\ Len(out) = m /\ \A k \in 1..m : out[k] = r(k)
  BY <1>3, <1>6
<1> QED BY <1>3, <1>5, <1>7

\* All of it is readable.
LEMMA CompactedIsReadable ==
    ASSUME NEW f \in Seq(Frame), NEW m \in Nat, NEW kept \in [1..m -> DOMAIN f],
           NEW s, \A i \in DOMAIN f : f[i].salt = s
    PROVE  Readable(WriteTo(f, kept), s, TRUE) = m
<1>1. PICK out \in Seq(Frame) :
        /\ out = WriteTo(f, kept) /\ Len(out) = m
        /\ \A k \in 1..m : /\ out[k].salt = f[kept[k]].salt
                           /\ out[k].serial = f[kept[k]].serial
                           /\ out[k].chain = IF k = 1 THEN 0 ELSE f[kept[k - 1]].serial
  BY WriteToIs
<1> DEFINE Bad == {i \in DOMAIN out : out[i].salt # s \/ (TRUE /\ out[i].chain # Before(out, i))}
<1>2. ASSUME NEW k \in 1..m PROVE out[k].salt = s /\ out[k].chain = Before(out, k)
  <2>1. out[k].salt = s
    BY <1>1
  <2>2. CASE k = 1
    BY <1>1, <2>1, <2>2 DEF Before
  <2>3. CASE k # 1
    <3>1. k - 1 \in 1..m
      BY <2>3
    <3>2. out[k].chain = f[kept[k - 1]].serial /\ out[k - 1].serial = f[kept[k - 1]].serial
      BY <1>1, <2>3, <3>1
    <3> QED BY <2>1, <2>3, <3>2 DEF Before
  <2> QED BY <2>2, <2>3
<1>3. Bad = {}
  BY <1>1, <1>2
<1>4. Readable(out, s, TRUE) = Len(out)
  BY <1>3 DEF Readable
<1> QED BY <1>1, <1>4

\* The last frame of page p.
LastAt(f, p) == CHOOSE i \in {i \in DOMAIN f : f[i].pgno = p} :
                   \A j \in {j \in DOMAIN f : f[j].pgno = p} : j <= i

\* LastAt is the last frame of a page.
LEMMA LastAtIs ==
    ASSUME NEW f \in Seq(Frame), NEW p, NEW i \in DOMAIN f, f[i].pgno = p,
           \A j \in DOMAIN f : f[j].pgno = p => j <= i
    PROVE  LastAt(f, p) = i
<1> DEFINE at == {j \in DOMAIN f : f[j].pgno = p}
<1>1. i \in at /\ \A j \in at : j <= i
  OBVIOUS
<1>2. LastAt(f, p) = CHOOSE k \in at : \A j \in at : j <= k
  BY DEF LastAt
<1>3. at \subseteq Nat
  OBVIOUS
<1> HIDE DEF at
<1>4. PICK z : z = CHOOSE k \in at : \A j \in at : j <= k
  OBVIOUS
<1>5. z \in at /\ \A j \in at : j <= z
  BY <1>1, <1>4
<1>6. i <= z /\ z <= i /\ z \in Nat /\ i \in Nat
  BY <1>1, <1>3, <1>5
<1> QED BY <1>2, <1>4, <1>6

\* Applying the compacted WAL is applying the WAL.
LEMMA CompactedIsApplied ==
    ASSUME NEW f \in Seq(Frame), NEW m \in Nat, NEW kept, Sorts(kept, m, LastOfPages(f)), NEW db
    PROVE  Applied(db, WriteTo(f, kept)) = Applied(db, f)
<1>1. kept \in [1..m -> DOMAIN f]
  BY DEF Sorts, LastOfPages
<1>2. PICK out \in Seq(Frame) :
        /\ out = WriteTo(f, kept) /\ Len(out) = m
        /\ \A k \in 1..m : /\ out[k].pgno = f[kept[k]].pgno
                           /\ out[k].commit = f[kept[k]].commit
                           /\ out[k].serial = f[kept[k]].serial
  BY <1>1, WriteToIs
<1>3. DOMAIN f = 1..Len(f) /\ DOMAIN out = 1..m
  BY <1>2
<1>4. \A i, j \in 1..m : i < j => kept[i] < kept[j]
  BY DEF Sorts
<1>5. \A x \in LastOfPages(f) : \E k \in 1..m : kept[k] = x
  BY DEF Sorts
<1>6. CASE f = << >>
  <2>1. m = 0
    <3>1. SUFFICES ASSUME m # 0 PROVE FALSE
      OBVIOUS
    <3>2. 1 \in 1..m
      BY <3>1
    <3> QED BY <1>1, <1>3, <1>6, <3>2
  <2>2. out = << >>
    BY <1>2, <2>1
  <2> QED BY <1>2, <1>6, <2>2
<1>7. CASE f # << >>
  <2>1. Len(f) \in 1..Len(f) /\ Len(f) \in LastOfPages(f)
    BY <1>3, <1>7 DEF LastOfPages
  <2>2. PICK l \in 1..m : kept[l] = Len(f)
    BY <1>5, <2>1
  <2>3. l = m
    <3>1. SUFFICES ASSUME l < m PROVE FALSE
      OBVIOUS
    <3>2. m \in 1..m /\ kept[m] \in 1..Len(f) /\ kept[l] < kept[m]
      BY <1>1, <1>3, <1>4, <3>1
    <3> QED BY <2>2, <3>2
  <2>4. out # << >> /\ Last(out).commit = Last(f).commit
    <3>1. m \in 1..m /\ out[m].commit = f[Len(f)].commit
      BY <1>2, <2>2, <2>3
    <3> QED BY <1>2, <3>1 DEF Last
  <2> DEFINE at(g, p) == {i \in DOMAIN g : g[i].pgno = p}
             page(g, p) == IF at(g, p) # {} THEN g[LastAt(g, p)].serial
                           ELSE IF p \in DOMAIN db THEN db[p] ELSE 0
  <2>5. /\ Applied(db, f) = [p \in 1..Last(f).commit |-> page(f, p)]
        /\ Applied(db, out) = [p \in 1..Last(out).commit |-> page(out, p)]
    BY <1>7, <2>4 DEF Applied, LastAt
  <2>6. ASSUME NEW p PROVE page(out, p) = page(f, p)
    <3>1. CASE at(f, p) = {}
      <4>1. at(out, p) = {}
        BY <1>1, <1>2, <1>3, <3>1
      <4> QED BY <3>1, <4>1
    <3>2. CASE at(f, p) # {}
      <4>1. PICK i \in at(f, p) : \A j \in at(f, p) : i >= j
        <5>1. at(f, p) \subseteq 0..Len(f) /\ Len(f) \in Nat
          BY <1>3
        <5> QED BY <3>2, <5>1, GreatestOfNaturals
      <4>2. i \in DOMAIN f /\ f[i].pgno = p /\ \A j \in DOMAIN f : f[j].pgno = p => j <= i
        BY <4>1
      <4>3. LastAt(f, p) = i
        BY <4>2, LastAtIs
      <4>4. i \in LastOfPages(f)
        BY <4>2 DEF LastOfPages
      <4>5. PICK k \in 1..m : kept[k] = i
        BY <1>5, <4>4
      <4>6. out[k].pgno = p /\ out[k].serial = f[i].serial
        BY <1>2, <4>2, <4>5
      <4>7. ASSUME NEW j \in 1..m, out[j].pgno = p PROVE j <= k
        <5>1. f[kept[j]].pgno = p /\ kept[j] \in LastOfPages(f)
          BY <1>2, <4>7 DEF Sorts
        <5>2. i <= kept[j]
          BY <5>1, <4>2 DEF LastOfPages
        <5>3. kept[j] \in 1..Len(f) /\ kept[j] <= i /\ i \in 1..Len(f)
          BY <1>1, <1>3, <4>2, <5>1
        <5>4. ~(k < j)
          BY <1>4, <4>5, <5>3
        <5> QED BY <5>4
      <4>8. LastAt(out, p) = k /\ k \in at(out, p)
        BY <1>3, <4>6, <4>7, LastAtIs
      <4> QED BY <3>2, <4>3, <4>6, <4>8
    <3> QED BY <3>1, <3>2
  <2> HIDE DEF page
  <2> QED BY <1>2, <2>4, <2>5, <2>6
<1> QED BY <1>6, <1>7
\* What the fast scanner reads is the committed frames, or ends with a frame that
\* does not commit.
LEMMA ScannerReads ==
    ASSUME WalInv, written = 0
    PROVE  /\ Frames(FALSE) \in Seq(Frame)
           /\ \A i \in DOMAIN Frames(FALSE) : Frames(FALSE)[i].salt = salt
           /\ Scan(Frames(FALSE)).err = "none" => Frames(FALSE) = Committed
<1> DEFINE Bad == {i \in DOMAIN wal : wal[i].salt # salt \/ (FALSE /\ wal[i].chain # Before(wal, i))}
           L == IF Bad = {} THEN Len(wal) ELSE (CHOOSE i \in Bad : \A j \in Bad : i <= j) - 1
<1>1. Readable(wal, salt, FALSE) = L
  BY DEF Readable
<1>2. L \in Nat /\ L <= Len(wal) /\ mxFrame <= L /\ \A i \in 1..L : wal[i].salt = salt
  <2>1. CASE Bad = {}
    BY <2>1 DEF WalInv
  <2>2. CASE Bad # {}
    <3>1. Bad \subseteq Nat
      BY DEF WalInv
    <3>2. \E x \in Bad : \A y \in Bad : x <= y
      BY <2>2, <3>1, LeastNatural
    <3>3. PICK z : z = CHOOSE i \in Bad : \A j \in Bad : i <= j
      OBVIOUS
    <3>4. z \in Bad /\ \A j \in Bad : z <= j
      <4> HIDE DEF Bad
      <4> QED BY <3>2, <3>3
    <3>5. L = z - 1 /\ z \in 1..Len(wal)
      BY <2>2, <3>3, <3>4 DEF WalInv
    <3>6. ~(z <= mxFrame)
      <4>1. wal[z].salt # salt
        BY <3>4
      <4> QED BY <3>5, <4>1 DEF WalInv, SaltsInv
    <3>7. \A i \in 1..(z - 1) : wal[i].salt = salt
      <4> TAKE i \in 1..(z - 1)
      <4>1. i \in DOMAIN wal /\ ~(z <= i)
        BY <3>5 DEF WalInv
      <4> QED BY <3>4, <4>1
    <3> HIDE DEF L
    <3>8. mxFrame \in Nat /\ Len(wal) \in Nat
      BY DEF WalInv
    <3> QED BY <3>5, <3>6, <3>7, <3>8
  <2> QED BY <2>1, <2>2
<1> HIDE DEF L
<1>3. PICK f : f = Frames(FALSE)
  OBVIOUS
<1>4. f = SubSeq(wal, 1, L)
  BY <1>1, <1>3 DEF Frames
<1>5. f \in Seq(Frame) /\ Len(f) = L /\ \A i \in 1..L : f[i] = wal[i]
  BY <1>2, <1>4 DEF WalInv
<1>6. ASSUME Scan(f).err = "none" PROVE f = Committed
  <2>1. L = mxFrame
    <3>1. SUFFICES ASSUME L > mxFrame PROVE FALSE
      BY <1>2 DEF WalInv
    <3>2. L \in DOMAIN wal /\ wal[L].salt = salt /\ L \in 1..L
      BY <1>2, <3>1 DEF WalInv
    <3>3. f # << >> /\ Last(f) = wal[L] /\ wal[L].commit = 0
      BY <1>5, <3>1, <3>2 DEF Last, WalInv, SaltsInv
    <3> QED BY <1>6, <3>3 DEF Scan
  <2> QED BY <1>4, <2>1 DEF Committed
<1>7. \A i \in DOMAIN f : f[i].salt = salt
  BY <1>2, <1>5
<1> QED BY <1>3, <1>5, <1>6, <1>7

\* The places of the last frames are places of the file.
LEMMA LastOfPagesIn ==
    ASSUME NEW f \in Seq(Frame)
    PROVE  LastOfPages(f) \in SUBSET Nat /\ Len(f) \in Nat /\ LastOfPages(f) \subseteq 0..Len(f)
<1>1. DOMAIN f = 1..Len(f) /\ Len(f) \in Nat
  OBVIOUS
<1>2. LastOfPages(f) \subseteq DOMAIN f
  BY DEF LastOfPages
<1> QED BY <1>1, <1>2

\* The compacted WAL makes of any database what SQLite's checkpoint of the WAL makes of it.
LEMMA CompactedIsContent ==
    ASSUME WalInv, written = 0, NEW db,
           NEW f \in Seq(Frame), f = Frames(FALSE), Scan(f).err = "none",
           NEW out, out = WriteTo(f, Scan(f).frames)
    PROVE  Applied(db, SubSeq(out, 1, Readable(out, salt, TRUE))) = Applied(db, Committed)
<1>1. f \in Seq(Frame) /\ f = Committed /\ \A i \in DOMAIN f : f[i].salt = salt
  BY ScannerReads
<1>2. Scan(f).frames = InOrder(LastOfPages(f))
  BY DEF Scan
<1>3. PICK m \in Nat : Sorts(InOrder(LastOfPages(f)), m, LastOfPages(f))
  <2>1. LastOfPages(f) \in SUBSET Nat /\ Len(f) \in Nat /\ LastOfPages(f) \subseteq 0..Len(f)
    BY LastOfPagesIn, Zenon
  <2> QED BY <2>1, InOrderSorts
<1>4. PICK kept : kept = InOrder(LastOfPages(f))
  OBVIOUS
<1>5. Sorts(kept, m, LastOfPages(f)) /\ out = WriteTo(f, kept)
  BY <1>2, <1>3, <1>4
<1>6. kept \in [1..m -> DOMAIN f]
  BY <1>5 DEF Sorts, LastOfPages
<1>7. WriteTo(f, kept) \in Seq(Frame) /\ Len(WriteTo(f, kept)) = m
  BY <1>6, WriteToIs
<1>8. Readable(out, salt, TRUE) = m
  BY <1>1, <1>5, <1>6, CompactedIsReadable
<1>9. SubSeq(out, 1, m) = out
  <2>1. PICK w \in Seq(Frame) : w = out /\ Len(w) = m
    BY <1>5, <1>7
  <2>2. w = [k \in 1..Len(w) |-> w[k]]
    OBVIOUS
  <2>3. SubSeq(w, 1, m) = [k \in 1..m |-> w[k]]
    BY <2>1
  <2> QED BY <2>1, <2>2, <2>3
<1>10. Applied(db, WriteTo(f, kept)) = Applied(db, f)
  BY <1>5, CompactedIsApplied
<1> QED BY <1>1, <1>5, <1>8, <1>9, <1>10

\* In the beginning the WAL is empty.
LEMMA WalInitInv == WalInit => WalInv
<1> SUFFICES ASSUME WalInit PROVE WalInv
  OBVIOUS
<1>1. wal = << >> /\ wal \in Seq(Frame) /\ Len(wal) = 0 /\ DOMAIN wal = {}
  BY DEF WalInit
<1>2. /\ salt = 0 /\ mxFrame = 0 /\ written = 0 /\ serial = 0
      /\ missed = FALSE /\ copy = main /\ scanned = "none"
  BY DEF WalInit
<1>3. SaltsInv
  BY <1>1, <1>2 DEF SaltsInv
<1>4. missed \in BOOLEAN /\ (~missed => copy = main)
  BY <1>2
<1>5. scanned # "ok"
  BY <1>2
<1>6. mxFrame + written <= Len(wal)
  BY <1>1, <1>2
<1>7. salt \in Nat /\ mxFrame \in Nat /\ written \in Nat /\ serial \in Nat /\ wal \in Seq(Frame)
  BY <1>1, <1>2
<1> QED BY <1>3, <1>4, <1>5, <1>6, <1>7 DEF WalInv

\* A WAL that was checkpointed and truncated.
LEMMA TruncatedInv ==
    ASSUME WalInv, written = 0, wal' = << >>, mxFrame' = 0, salt' = serial, serial' = serial, written' = written,
           missed' \in BOOLEAN, ~missed' => copy' = main', scanned' = "ok" => rebuilt' = main'
    PROVE  WalInv'
<1>1. wal' \in Seq(Frame) /\ Len(wal') = 0 /\ DOMAIN wal' = {}
  OBVIOUS
<1> QED BY <1>1 DEF WalInv, SaltsInv

\* A frame behind the committed ones and those of the open transaction.
LEMMA NextFrame ==
    ASSUME WalInv, NEW p \in PageNo, NEW c \in 0..Pages, salt' = salt,
           WriteFrame(mxFrame + written + 1, p, c),
           \/ mxFrame' = mxFrame /\ written' = written + 1 /\ c = 0
           \/ mxFrame' = mxFrame + written + 1 /\ written' = 0,
           UNCHANGED <<main, storeCopy, scanned>>
    PROVE  WalInv'
<1> DEFINE i == mxFrame + written + 1
<1>1. i \in 1..(Len(wal) + 1) /\ i \in Nat
  BY DEF WalInv
<1>2. PICK fr \in Frame :
             /\ fr.commit = c /\ fr.salt = salt'
             /\ wal' \in Seq(Frame)
             /\ Len(wal') = IF i <= Len(wal) THEN Len(wal) ELSE i
             /\ wal'[i] = fr
             /\ \A j \in DOMAIN wal' : j # i => j \in DOMAIN wal /\ wal'[j] = wal[j]
  BY <1>1, WriteFrameIs DEF WalInv
<1>3. serial' = serial + 1
  BY DEF WriteFrame
<1>4. mxFrame' + written' = i /\ mxFrame' \in Nat /\ written' \in Nat /\ mxFrame' >= mxFrame
  BY DEF WalInv
<1>5. ASSUME NEW j \in DOMAIN wal' PROVE wal'[j].salt < serial'
  <2>1. CASE j = i
    BY <1>2, <1>3, <2>1 DEF WalInv, SaltsInv
  <2>2. CASE j # i
    <3>1. j \in DOMAIN wal /\ wal'[j] = wal[j] /\ wal[j] \in Frame /\ wal[j].salt < serial
      BY <1>2, <2>2 DEF WalInv, SaltsInv
    <3>2. wal[j].salt \in Nat
      BY <3>1 DEF Frame
    <3> QED BY <1>3, <3>1, <3>2 DEF WalInv
  <2> QED BY <2>1, <2>2
<1>6. ASSUME NEW j \in 1..i PROVE wal'[j].salt = salt'
  <2>1. CASE j = i
    BY <1>2, <2>1
  <2>2. CASE j # i
    <3>1. j \in DOMAIN wal' /\ j \in 1..(mxFrame + written)
      BY <1>1, <1>2, <2>2 DEF WalInv
    <3> QED BY <1>2, <2>2, <3>1 DEF WalInv, SaltsInv
  <2> QED BY <2>1, <2>2
<1>7. ASSUME NEW j \in DOMAIN wal', j > mxFrame', wal'[j].salt = salt' PROVE wal'[j].commit = 0
  <2>1. CASE j = i
    <3>1. c = 0
      BY <1>4, <1>7, <2>1 DEF WalInv
    <3> QED BY <1>2, <2>1, <3>1
  <2>2. CASE j # i
    <3>1. j \in DOMAIN wal /\ wal'[j] = wal[j] /\ j > mxFrame
      BY <1>2, <1>4, <1>7, <2>2 DEF WalInv
    <3> QED BY <1>7, <3>1 DEF WalInv, SaltsInv
  <2> QED BY <2>1, <2>2
<1>8. mxFrame' + written' <= Len(wal') /\ salt' <= serial' /\ salt' \in Nat /\ serial' \in Nat
  BY <1>2, <1>3, <1>4 DEF WalInv, SaltsInv
<1>9. wal' # << >>
  BY <1>1, <1>2 DEF WalInv
<1>10. missed' \in BOOLEAN /\ (~missed' => copy' = main')
  BY DEF WalInv, storeCopy
<1> HIDE DEF i
<1> QED BY <1>2, <1>4, <1>5, <1>6, <1>7, <1>8, <1>9, <1>10 DEF WalInv, SaltsInv

\* The first frame of a new WAL over the frames of the old one.
LEMMA RestartInv ==
    ASSUME WalInv, WalParameters!1, NEW p \in PageNo, NEW size \in PageNo, RestartWal(p, size)
    PROVE  WalInv'
<1>0. size \in 0..Pages /\ 1 \in 1..(Len(wal) + 1) /\ salt' = serial /\ salt' \in Nat
      /\ serial' = serial + 1 /\ mxFrame' = 1 /\ written' = 0 /\ written = 0 /\ missed' = TRUE
  BY DEF RestartWal, WriteFrame, PageNo, WalInv
<1>1. WriteFrame(1, p, size)
  BY DEF RestartWal
<1>2. PICK fr \in Frame :
             /\ fr.commit = size /\ fr.salt = salt'
             /\ wal' \in Seq(Frame)
             /\ Len(wal') = IF 1 <= Len(wal) THEN Len(wal) ELSE 1
             /\ wal'[1] = fr
             /\ \A j \in DOMAIN wal' : j # 1 => j \in DOMAIN wal /\ wal'[j] = wal[j]
  <2>1. wal \in Seq(Frame) /\ serial \in Nat
    BY DEF WalInv
  <2>2. PICK i \in 1..(Len(wal) + 1) : i = 1
    BY <1>0
  <2>3. WriteFrame(i, p, size)
    BY <1>1, <2>2
  <2>4. PICK fr \in Frame :
             /\ fr.commit = size /\ fr.salt = salt' /\ fr.pgno = p
             /\ wal' \in Seq(Frame)
             /\ Len(wal') = IF i <= Len(wal) THEN Len(wal) ELSE i
             /\ wal'[i] = fr
             /\ \A j \in DOMAIN wal' : j # i => j \in DOMAIN wal /\ wal'[j] = wal[j]
    BY <1>0, <2>1, <2>3, WriteFrameIs
  <2> QED BY <2>2, <2>4
<1>3. ASSUME NEW j \in DOMAIN wal', j # 1 PROVE wal'[j].salt < salt' /\ wal'[j].salt \in Nat
  <2>1. wal[j] \in Frame /\ wal[j].salt < serial /\ wal'[j] = wal[j]
    BY <1>2, <1>3 DEF WalInv, SaltsInv
  <2> QED BY <1>0, <2>1 DEF Frame
<1>4. ASSUME NEW j \in DOMAIN wal' PROVE wal'[j].salt < serial'
  <2>1. CASE j = 1
    BY <1>0, <1>2, <2>1
  <2>2. CASE j # 1
    BY <1>0, <1>3, <2>2
  <2> QED BY <2>1, <2>2
<1>5. ASSUME NEW j \in DOMAIN wal', j > mxFrame', wal'[j].salt = salt' PROVE wal'[j].commit = 0
  <2>1. j # 1
    BY <1>0, <1>5
  <2> QED BY <1>0, <1>3, <1>5, <2>1
<1>6. \A j \in 1..(mxFrame' + written') : wal'[j].salt = salt'
  BY <1>0, <1>2
<1>7. mxFrame' + written' <= Len(wal') /\ mxFrame' \in Nat /\ written' \in Nat /\ serial' \in Nat /\ salt' <= serial'
  BY <1>0, <1>2 DEF WalInv
<1>8. wal' # << >>
  <2>1. Len(wal') > 0
    BY <1>7, <1>0
  <2> QED BY <2>1
<1> QED BY <1>0, <1>2, <1>4, <1>5, <1>6, <1>7, <1>8 DEF WalInv, SaltsInv

\* Every write, commit, rollback, checkpoint and scan keeps the invariant.
LEMMA WalStep == WalInv /\ [WalNext]_walVars => WalInv'
<1> SUFFICES ASSUME WalInv, [WalNext]_walVars PROVE WalInv'
  OBVIOUS
<1>0. Pages \in Nat /\ 0 \in 0..Pages /\ \A p \in PageNo : p \in 0..Pages
  BY WalParameters DEF PageNo
<1>1. ASSUME NEW p \in PageNo, Spill(p) PROVE WalInv'
  BY <1>0, <1>1, NextFrame DEF Spill
<1>2. ASSUME NEW p \in PageNo, NEW size \in PageNo, CommitTx(p, size) PROVE WalInv'
  BY <1>0, <1>2, NextFrame DEF CommitTx
<1>3. ASSUME NEW p \in PageNo, NEW size \in PageNo, RestartWal(p, size) PROVE WalInv'
  BY <1>3, RestartInv, WalParameters
<1>4. CASE RollbackTx
  <2>1. wal' = wal /\ salt' = salt /\ serial' = serial /\ mxFrame' = mxFrame /\ written' = 0
        /\ main' = main /\ copy' = copy /\ missed' = missed /\ rebuilt' = rebuilt /\ scanned' = scanned
    BY <1>4 DEF RollbackTx, storeCopy
  <2>2. \A i \in 1..(mxFrame + 0) : i \in 1..(mxFrame + written)
    BY DEF WalInv
  <2> QED BY <2>1, <2>2 DEF WalInv, SaltsInv
<1>5. CASE IncrementalSnapshot
  <2> DEFINE f == Frames(FALSE)
             s == Scan(f)
             out == WriteTo(f, s.frames)
             kept == SubSeq(out, 1, Readable(out, salt, TRUE))
  <2>0. wal # << >>
    BY <1>5 DEF IncrementalSnapshot
  <2>1. CASE s.err # "none"
    <3>1. UNCHANGED <<main, wal, salt, mxFrame, written, copy, missed, rebuilt, serial>>
      BY <1>5, <2>1 DEF IncrementalSnapshot, storeCopy
    <3> QED BY <2>0, <3>1 DEF WalInv, SaltsInv
  <2>2. CASE s.err = "none"
    <3>1. /\ written = 0 /\ missed' = missed
          /\ copy' = Applied(copy, kept) /\ rebuilt' = Applied(main, kept)
          /\ main' = Content
          /\ wal' = << >> /\ mxFrame' = 0 /\ salt' = serial /\ written' = written /\ serial' = serial
      BY <1>5, <2>2 DEF IncrementalSnapshot, Truncate
    <3>2. \A db : Applied(db, kept) = Applied(db, Committed)
      <4> HIDE DEF f, out
      <4>2. f = Frames(FALSE) /\ out = WriteTo(f, Scan(f).frames)
        BY DEF f, out
      <4>3. f \in Seq(Frame) /\ Scan(f).err = "none"
        BY <2>2, <3>1, <4>2, ScannerReads
      <4> QED BY <3>1, <4>2, <4>3, CompactedIsContent
    <3> HIDE DEF kept
    <3>3. rebuilt' = main'
      BY <3>1, <3>2 DEF Content
    <3>4. missed' \in BOOLEAN /\ (~missed' => copy' = main')
      BY <3>1, <3>2 DEF Content, WalInv
    <3> QED BY <3>1, <3>3, <3>4, TruncatedInv
  <2> QED BY <2>1, <2>2
<1>6. CASE FullSnapshot
  <2>1. /\ written = 0 /\ missed' = FALSE /\ copy' = main' /\ scanned' = "full"
        /\ wal' = << >> /\ mxFrame' = 0 /\ salt' = serial /\ written' = written /\ serial' = serial
    BY <1>6 DEF FullSnapshot, Truncate
  <2> QED BY <2>1, TruncatedInv
<1>8. CASE BusyCheckpoint
  BY <1>8 DEF BusyCheckpoint, storeCopy, WalInv, SaltsInv
<1>7. CASE UNCHANGED walVars
  BY <1>7 DEF walVars, storeCopy, WalInv, SaltsInv
<1> QED BY <1>1, <1>2, <1>3, <1>4, <1>5, <1>6, <1>7, <1>8 DEF WalNext

\* Compaction loses and adds nothing (CompactingScanner, Writer): for databases of every
\* size and every number of frames, whatever was spilled, rolled back, overwritten or left
\* behind by an older WAL, the compacted WAL makes of the file before it the database that
\* SQLite has; and the Snapshot Store's copy is that database, unless a WAL that a busy
\* checkpoint had moved was started again between the snapshots.
THEOREM CompactionIsExact == WalSpec => []CompactedIsExact
<1>1. WalInv => CompactedIsExact
  <2> SUFFICES ASSUME WalInv, wal = << >>, scanned = "ok"
               PROVE  rebuilt = Content /\ (missed \/ copy = Content)
    BY DEF CompactedIsExact
  <2>1. Len(wal) = 0 /\ mxFrame = 0 /\ rebuilt = main /\ (missed \/ copy = main)
    BY DEF WalInv
  <2>2. Committed = << >>
    BY <2>1 DEF Committed
  <2> QED BY <2>1, <2>2 DEF Content, Applied
<1> QED BY <1>1, WalInitInv, WalStep, PTL DEF WalSpec

----------------------------------------------------------------------------
(* Booting from a SQLite file.                                             *)

\* A database that is open.
Db == Seq(Int \ {-1})

TakeState == [pc : {"idle", "fsm", "persist"}, idx : Nat, full : BOOLEAN,
              from : Seq(Int), img : Db, user : BOOLEAN]
BootState == [pc : {"idle", "copy", "refused", "noop", "applied", "flag", "request", "snap", "done", "failed"},
              idx : Nat, wal : BOOLEAN]

EntryKinds == {"configuration", "write", "noop"}

BootTypeOK ==
    /\ entries \in Seq(EntryKinds) /\ firstKept \in Nat \ {0}
    /\ done \in Nat /\ 1 <= done /\ done <= Len(entries)
    /\ live \in Seq(Int) /\ (live \in Db \/ live = Closed)
    /\ inMain \in Nat /\ inMain <= Len(live)
    /\ base \in [idx : Nat, db : Db] /\ base.idx <= done
    /\ take \in TakeState /\ take.idx <= done
    /\ boot \in BootState
    /\ peer \in [in : BOOLEAN, idx : Nat, db : Db] /\ peer.idx <= Len(entries)
    /\ excuse \subseteq {"early", "raced", "failed", "unanswered"}

\* The snapshot that the request waits for is the one under way; a node that has
\* not joined has nothing.
Bookkeeping ==
    /\ take.user <=> boot.pc = "snap"
    /\ take.pc = "idle" => ~take.user
    /\ take.pc # "idle" => take.idx > 1
    /\ ~peer.in => peer.idx = 0 /\ peer.db = << >>

\* What a copy has read is still what the database begins with.
ReaderInv ==
    /\ rd.pc \in {"idle", "open", "written"}
    /\ rd.pc \in {"open", "written"} => rd.a \in Seq(Int) /\ rd.b \in Seq(Int)
    /\ rd.pc = "open" => rd.b = rd.a /\ IsPrefix(rd.a, live)
    /\ rd.pc = "written" => IsPrefix(rd.a, rd.b)

\* The boot request is at pc.  Between the swap and the answer the snapshot and the
\* log may be those of the old database, and then the next snapshot is a full one.
Owed(pc, fl) == pc = "flag" \/ (pc \in {"request", "snap"} /\ fl)
SwappedAt(pc) == pc \in {"flag", "request", "snap"}

\* e, dn, lv, im, fl, b, t, pc: the log, the leader's index, database and main file, the
\* flag, the newest snapshot, the one under way, and the request.
SyncedInv(e, dn, lv, fl, b, pc) == ~Owed(pc, fl) => AfterLog(e, b.db, b.idx, dn) = lv
MainInv(lv, im, fl, b, t, pc) ==
    pc # "flag" /\ t.pc # "persist" /\ ~fl /\ b.idx # 0 => SubSeq(lv, 1, im) = b.db
TakeInv(e, dn, lv, im, b, t, pc) ==
    /\ t.pc # "idle" =>
         /\ pc # "flag"
         /\ AfterLog(e, t.img, t.idx, dn) = lv
         /\ t.full \/ t.from = b.db
         /\ b.idx <= t.idx
         /\ ~SwappedAt(pc) => AfterLog(e, b.db, b.idx, t.idx) = t.img
    /\ t.pc = "fsm" => t.idx = dn /\ t.img = lv
    /\ t.pc = "persist" => SubSeq(lv, 1, im) = t.img
KeptInv(e, dn, lv, im, fl, b, t, pc) ==
    /\ lv \in Db
    /\ SyncedInv(e, dn, lv, fl, b, pc)
    /\ MainInv(lv, im, fl, b, t, pc)
    /\ TakeInv(e, dn, lv, im, b, t, pc)

\* A node with the database d at the index i is on the way that leads through the
\* snapshot b.
Consistent(e, b, i, d) ==
    /\ b.idx <= i => d = AfterLog(e, b.db, b.idx, i)
    /\ i <= b.idx => AfterLog(e, d, i, b.idx) = b.db

\* So is a node that joined, unless it has yet to be sent the snapshot; none joins
\* before the answer.
PeerInv(e, fk, b, p, pc) ==
    /\ SwappedAt(pc) => ~p.in
    /\ ~SwappedAt(pc) => (p.idx = 0 /\ fk > 1) \/ Consistent(e, b, p.idx, p.db)

BootInv ==
    /\ BootTypeOK /\ Bookkeeping /\ ReaderInv
    /\ excuse \cap {"failed", "raced"} = {} => KeptInv(entries, done, live, inMain, flag, base, take, boot.pc)
    /\ excuse = {} => PeerInv(entries, firstKept, base, peer, boot.pc)

\* There is one way to sort a set.
LEMMA SortsOnce ==
    ASSUME NEW S \in SUBSET Nat, NEW m \in Nat, NEW s, Sorts(s, m, S), NEW n \in Nat, NEW t, Sorts(t, n, S)
    PROVE  m = n /\ s = t
<1>1. /\ \A i \in 1..m : s[i] \in S /\ s[i] \in Nat
      /\ \A i \in 1..n : t[i] \in S /\ t[i] \in Nat
  BY DEF Sorts
<1>2. /\ \A i, j \in 1..m : i < j => s[i] < s[j]
      /\ \A i, j \in 1..n : i < j => t[i] < t[j]
  BY DEF Sorts
<1>3. /\ \A x \in S : \E i \in 1..m : s[i] = x
      /\ \A x \in S : \E i \in 1..n : t[i] = x
  BY DEF Sorts
<1> DEFINE Bad == {i \in Nat : /\ i # 0
                               /\ i <= m \/ i <= n
                               /\ ~(i <= m /\ i <= n /\ s[i] = t[i])}
<1>4. Bad = {}
  <2>1. SUFFICES ASSUME Bad # {} PROVE FALSE
    OBVIOUS
  <2>2. PICK k \in Bad : \A y \in Bad : k <= y
    BY <2>1, LeastNatural
  <2>3. k \in Nat /\ k # 0 /\ (k <= m \/ k <= n) /\ ~(k <= m /\ k <= n /\ s[k] = t[k])
    BY <2>2
  <2>4. ASSUME NEW i \in Nat, i # 0, i < k PROVE i <= m /\ i <= n /\ s[i] = t[i]
    <3>1. ~(k <= i) /\ i \notin Bad
      BY <2>2, <2>3, <2>4
    <3>2. i <= m \/ i <= n
      BY <2>3, <2>4
    <3> QED BY <3>1, <3>2, <2>4
  <2> HIDE DEF Bad
  <2>5. ASSUME k <= m PROVE k <= n /\ t[k] <= s[k]
    <3>1. k \in 1..m /\ s[k] \in S /\ s[k] \in Nat
      BY <1>1, <2>3, <2>5
    <3>2. PICK l \in 1..n : t[l] = s[k]
      BY <1>3, <3>1
    <3>3. ~(l < k)
      <4>1. SUFFICES ASSUME l < k PROVE FALSE
        OBVIOUS
      <4>2. l \in 1..m /\ s[l] = t[l]
        BY <2>4, <4>1
      <4>3. s[l] < s[k] /\ s[l] \in Nat
        BY <1>1, <1>2, <3>1, <4>1, <4>2
      <4> QED BY <3>1, <3>2, <4>2, <4>3
    <3>4. k \in 1..n
      BY <2>3, <3>2, <3>3
    <3>5. t[k] <= t[l]
      <4>1. CASE k = l
        BY <1>1, <3>4, <4>1
      <4>2. CASE k < l
        BY <1>1, <1>2, <3>4, <4>2
      <4> QED BY <2>3, <3>2, <3>3, <4>1, <4>2
    <3> QED BY <3>2, <3>4, <3>5
  <2>6. ASSUME k <= n PROVE k <= m /\ s[k] <= t[k]
    <3>1. k \in 1..n /\ t[k] \in S /\ t[k] \in Nat
      BY <1>1, <2>3, <2>6
    <3>2. PICK l \in 1..m : s[l] = t[k]
      BY <1>3, <3>1
    <3>3. ~(l < k)
      <4>1. SUFFICES ASSUME l < k PROVE FALSE
        OBVIOUS
      <4>2. l \in 1..n /\ s[l] = t[l]
        BY <2>4, <4>1
      <4>3. t[l] < t[k] /\ t[l] \in Nat
        BY <1>1, <1>2, <3>1, <4>1, <4>2
      <4> QED BY <3>1, <3>2, <4>2, <4>3
    <3>4. k \in 1..m
      BY <2>3, <3>2, <3>3
    <3>5. s[k] <= s[l]
      <4>1. CASE k = l
        BY <1>1, <3>4, <4>1
      <4>2. CASE k < l
        BY <1>1, <1>2, <3>4, <4>2
      <4> QED BY <2>3, <3>2, <3>3, <4>1, <4>2
    <3> QED BY <3>2, <3>4, <3>5
  <2>7. k <= m /\ k <= n
    BY <2>3, <2>5, <2>6
  <2>8. s[k] \in Nat /\ t[k] \in Nat
    BY <1>1, <2>3, <2>7
  <2> QED BY <2>3, <2>5, <2>6, <2>7, <2>8
<1>5. \A i \in Nat : i # 0 /\ (i <= m \/ i <= n) => i <= m /\ i <= n /\ s[i] = t[i]
  BY <1>4
<1> HIDE DEF Bad
<1>6. m = n
  BY <1>5
<1>7. \A i \in 1..m : s[i] = t[i]
  BY <1>5
<1>8. s \in [1..m -> S] /\ t \in [1..m -> S]
  BY <1>6 DEF Sorts
<1> QED BY <1>6, <1>7, <1>8

\* The places that are written to among i + 1 .. j, in order.
Written(e, i, j) == InOrder({k \in (i + 1)..j : e[k] = "write"})

\* Written lists the writes of a part of the log in their order.
LEMMA WrittenSorts ==
    ASSUME NEW e, NEW i \in Nat, NEW j \in Nat
    PROVE  \E m \in Nat : Sorts(Written(e, i, j), m, {k \in (i + 1)..j : e[k] = "write"})
<1> DEFINE S == {k \in (i + 1)..j : e[k] = "write"}
<1>1. S \in SUBSET Nat /\ S \subseteq 0..j
  OBVIOUS
<1> HIDE DEF S
<1>2. \E m \in Nat : Sorts(InOrder(S), m, S)
  BY <1>1, InOrderSorts
<1> QED BY <1>2 DEF Written, S

\* They are indexes of the log.
LEMMA WrittenType ==
    ASSUME NEW e, NEW i \in Nat, NEW j \in Nat
    PROVE  Written(e, i, j) \in Seq(Nat \ {0})
<1>1. PICK m \in Nat : Sorts(Written(e, i, j), m, {k \in (i + 1)..j : e[k] = "write"})
  BY WrittenSorts
<1>2. PICK s : s = Written(e, i, j)
  OBVIOUS
<1>3. s \in [1..m -> Nat \ {0}]
  BY <1>1, <1>2 DEF Sorts
<1> QED BY <1>2, <1>3

\* A longer log begins with the same entries.
LEMMA WrittenSame ==
    ASSUME NEW e, NEW f, NEW i \in Nat, NEW j \in Nat, \A k \in (i + 1)..j : e[k] = f[k]
    PROVE  Written(e, i, j) = Written(f, i, j)
<1>1. {k \in (i + 1)..j : e[k] = "write"} = {k \in (i + 1)..j : f[k] = "write"}
  OBVIOUS
<1> QED BY <1>1 DEF Written

\* An empty part of the log has no writes.
LEMMA WrittenNone == ASSUME NEW e, NEW i \in Nat PROVE Written(e, i, i) = << >>
<1>1. {k \in (i + 1)..i : e[k] = "write"} = {}
  OBVIOUS
<1>2. PICK m \in Nat : Sorts(Written(e, i, i), m, {})
  BY <1>1, WrittenSorts
<1>3. PICK s : s = Written(e, i, i)
  OBVIOUS
<1>4. m = 0 /\ s \in [1..m -> {}]
  <2>1. s \in [1..m -> {}]
    BY <1>2, <1>3 DEF Sorts
  <2>2. ~(1 \in 1..m)
    BY <2>1
  <2> QED BY <2>1, <2>2
<1>5. s \in Seq(Nat) /\ Len(s) = 0
  BY <1>4
<1>6. s = << >>
  BY <1>5
<1> QED BY <1>3, <1>6

\* Two stretches of the log, one after the other.
LEMMA WrittenConcat ==
    ASSUME NEW e, NEW i \in Nat, NEW j \in Nat, NEW l \in Nat, i <= j, j <= l
    PROVE  Written(e, i, j) \o Written(e, j, l) = Written(e, i, l)
<1> DEFINE S(x, y) == {k \in (x + 1)..y : e[k] = "write"}
<1>1. PICK m \in Nat : Sorts(Written(e, i, j), m, S(i, j))
  BY WrittenSorts
<1>2. PICK n \in Nat : Sorts(Written(e, j, l), n, S(j, l))
  BY WrittenSorts
<1>3. PICK o \in Nat : Sorts(Written(e, i, l), o, S(i, l))
  BY WrittenSorts
<1>4. PICK s \in Seq(Nat) : s = Written(e, i, j)
  BY WrittenType
<1>5. PICK t \in Seq(Nat) : t = Written(e, j, l)
  BY WrittenType
<1>6. s \in [1..m -> S(i, j)] /\ t \in [1..n -> S(j, l)]
  BY <1>1, <1>2, <1>4, <1>5 DEF Sorts
<1>7. Len(s) = m /\ Len(t) = n
  BY <1>6
<1>8. PICK u \in Seq(Nat) : /\ u = s \o t /\ Len(u) = m + n
                            /\ \A k \in 1..m : u[k] = s[k]
                            /\ \A k \in 1..n : u[m + k] = t[k]
  <2>1. /\ s \o t \in Seq(Nat) /\ Len(s \o t) = Len(s) + Len(t)
        /\ \A k \in 1..Len(s) : (s \o t)[k] = s[k]
        /\ \A k \in 1..Len(t) : (s \o t)[Len(s) + k] = t[k]
    OBVIOUS
  <2> QED BY <1>7, <2>1
<1>9. \A k \in 1..m : u[k] \in Nat /\ u[k] <= j /\ i < u[k] /\ e[u[k]] = "write"
  BY <1>6, <1>8
<1>10. \A k \in 1..n : u[m + k] \in Nat /\ u[m + k] <= l /\ j < u[m + k] /\ e[u[m + k]] = "write"
  BY <1>6, <1>8
<1>11. \A k \in (m + 1)..(m + n) : k - m \in 1..n /\ m + (k - m) = k
  OBVIOUS
<1>12. \A k \in (m + 1)..(m + n) : u[k] = t[k - m] /\ u[k] \in Nat /\ u[k] <= l /\ j < u[k] /\ e[u[k]] = "write"
  BY <1>8, <1>10, <1>11
<1>13. \A k \in 1..(m + n) : k \in 1..m \/ k \in (m + 1)..(m + n)
  OBVIOUS
<1>14. \A k \in 1..(m + n) : u[k] \in S(i, l)
  <2> TAKE k \in 1..(m + n)
  <2>1. CASE k \in 1..m
    BY <1>9, <2>1
  <2>2. CASE k \in (m + 1)..(m + n)
    BY <1>12, <2>2
  <2> QED BY <1>13, <2>1, <2>2
<1>15. ASSUME NEW a \in 1..(m + n), NEW b \in 1..(m + n), a < b PROVE u[a] < u[b]
  <2>1. CASE b \in 1..m
    <3>1. a \in 1..m
      BY <1>15, <2>1
    <3> QED BY <1>1, <1>4, <1>8, <1>15, <2>1, <3>1 DEF Sorts
  <2>2. CASE b \in (m + 1)..(m + n)
    <3>1. CASE a \in 1..m
      BY <1>9, <1>12, <2>2, <3>1
    <3>2. CASE a \in (m + 1)..(m + n)
      <4>1. a - m \in 1..n /\ b - m \in 1..n /\ a - m < b - m
        BY <1>11, <1>15, <2>2, <3>2
      <4>2. t[a - m] < t[b - m]
        BY <1>2, <1>5, <4>1 DEF Sorts
      <4> QED BY <1>12, <2>2, <3>2, <4>2
    <3> QED BY <1>13, <3>1, <3>2
  <2> QED BY <1>13, <2>1, <2>2
<1>16. ASSUME NEW x \in S(i, l) PROVE \E k \in 1..(m + n) : u[k] = x
  <2>1. CASE x <= j
    <3>1. x \in S(i, j)
      BY <2>1
    <3>2. PICK k \in 1..m : s[k] = x
      BY <1>1, <1>4, <3>1 DEF Sorts
    <3>3. k \in 1..(m + n)
      OBVIOUS
    <3> QED BY <1>8, <3>2, <3>3
  <2>2. CASE ~(x <= j)
    <3>1. x \in S(j, l)
      BY <2>2
    <3>2. PICK k \in 1..n : t[k] = x
      BY <1>2, <1>5, <3>1 DEF Sorts
    <3>3. m + k \in 1..(m + n)
      OBVIOUS
    <3> QED BY <1>8, <3>2, <3>3
  <2> QED BY <2>1, <2>2
<1>17. Sorts(u, m + n, S(i, l))
  <2>1. u = [k \in 1..Len(u) |-> u[k]]
    OBVIOUS
  <2>2. u \in [1..(m + n) -> S(i, l)]
    <3> HIDE DEF S
    <3> QED BY <1>8, <1>14, <2>1
  <2> HIDE DEF S
  <2> QED BY <1>15, <1>16, <2>2 DEF Sorts
<1>18. S(i, l) \in SUBSET Nat /\ m + n \in Nat
  OBVIOUS
<1> HIDE DEF S
<1>19. u = Written(e, i, l)
  BY <1>3, <1>17, <1>18, SortsOnce, Zenon
<1> QED BY <1>4, <1>5, <1>8, <1>19
\* A sequence followed by another.
LEMMA Concatenated ==
    ASSUME NEW S, NEW a \in Seq(S), NEW b \in Seq(S)
    PROVE  /\ a \o b \in Seq(S) /\ Len(a \o b) = Len(a) + Len(b)
           /\ \A k \in 1..Len(a) : (a \o b)[k] = a[k]
  OBVIOUS

\* A database with more behind it.
LEMMA DbConcat ==
    /\ \A a, b \in Db : /\ a \o b \in Db /\ Len(a \o b) = Len(a) + Len(b)
                        /\ \A k \in 1..Len(a) : (a \o b)[k] = a[k]
    /\ \A a, b, c \in Db : (a \o b) \o c = a \o (b \o c)
<1> DEFINE E == Int \ {-1}
<1>1. Db = Seq(E)
  BY DEF Db
<1> HIDE DEF E
<1>2. ASSUME NEW a \in Seq(E), NEW b \in Seq(E)
      PROVE  /\ a \o b \in Seq(E) /\ Len(a \o b) = Len(a) + Len(b)
             /\ \A k \in 1..Len(a) : (a \o b)[k] = a[k]
  BY Concatenated
<1>3. ASSUME NEW a \in Seq(E), NEW b \in Seq(E), NEW c \in Seq(E)
      PROVE  (a \o b) \o c = a \o (b \o c)
  BY ConcatAssociative
<1> QED BY <1>1, <1>2, <1>3

\* Applying entries only adds to a database.
LEMMA AfterType ==
    ASSUME NEW e, NEW d \in Db, NEW i \in Nat, NEW j \in Nat
    PROVE  /\ AfterLog(e, d, i, j) \in Db
           /\ Len(d) <= Len(AfterLog(e, d, i, j))
           /\ \A k \in Nat : k <= Len(d) => SubSeq(AfterLog(e, d, i, j), 1, k) = SubSeq(d, 1, k)
<1>1. PICK w \in Seq(Nat \ {0}) : w = Written(e, i, j)
  BY WrittenType
<1>2. w \in Db
  BY <1>1 DEF Db
<1>3. PICK r \in Db : r = d \o w /\ Len(r) = Len(d) + Len(w) /\ \A k \in 1..Len(d) : r[k] = d[k]
  BY <1>2, DbConcat
<1>4. AfterLog(e, d, i, j) = r
  BY <1>1, <1>3 DEF AfterLog, Written
<1>5. ASSUME NEW k \in Nat, k <= Len(d) PROVE SubSeq(r, 1, k) = SubSeq(d, 1, k)
  <2>1. SubSeq(r, 1, k) = [x \in 1..k |-> r[x]]
    BY <1>3, <1>5 DEF Db
  <2>2. SubSeq(d, 1, k) = [x \in 1..k |-> d[x]]
    BY <1>5 DEF Db
  <2>3. \A x \in 1..k : r[x] = d[x]
    BY <1>3, <1>5 DEF Db
  <2> QED BY <2>1, <2>2, <2>3
<1>6. Len(d) \in Nat /\ Len(w) \in Nat
  BY DEF Db
<1> QED BY <1>3, <1>4, <1>5, <1>6

\* Nothing is applied.
LEMMA AfterNone == ASSUME NEW e, NEW d \in Db, NEW i \in Nat PROVE AfterLog(e, d, i, i) = d
<1>1. AfterLog(e, d, i, i) = d \o << >>
  BY WrittenNone DEF AfterLog, Written
<1> QED BY <1>1 DEF Db

\* What was applied in two parts is what is applied at once.
LEMMA AfterAfter ==
    ASSUME NEW e, NEW d \in Db, NEW i \in Nat, NEW j \in Nat, NEW l \in Nat, i <= j, j <= l
    PROVE  AfterLog(e, AfterLog(e, d, i, j), j, l) = AfterLog(e, d, i, l)
<1>1. PICK w \in Seq(Nat \ {0}) : w = Written(e, i, j)
  BY WrittenType
<1>2. PICK v \in Seq(Nat \ {0}) : v = Written(e, j, l)
  BY WrittenType
<1>3. w \in Db /\ v \in Db
  BY <1>1, <1>2 DEF Db
<1>4. (d \o w) \o v = d \o (w \o v)
  BY <1>3, DbConcat
<1>5. w \o v = Written(e, i, l)
  BY <1>1, <1>2, WrittenConcat
<1> QED BY <1>1, <1>2, <1>4, <1>5 DEF AfterLog, Written

\* Entries that follow do not matter.
LEMMA AfterSame ==
    ASSUME NEW e \in Seq(EntryKinds), NEW x, NEW d, NEW i \in Nat, NEW j \in Nat, j <= Len(e)
    PROVE  AfterLog(Append(e, x), d, i, j) = AfterLog(e, d, i, j)
<1>1. \A k \in (i + 1)..j : k \in 1..Len(e)
  OBVIOUS
<1>2. \A k \in (i + 1)..j : Append(e, x)[k] = e[k]
  BY <1>1
<1> QED BY <1>2, WrittenSame DEF AfterLog, Written
\* In the beginning nothing is in the log, nor in the database.
LEMMA BootInitInv == BootInit => BootInv
<1> SUFFICES ASSUME BootInit PROVE BootInv
  OBVIOUS
<1>1. << >> \in Db /\ << >> \in Seq(Int) /\ <<"configuration">> \in Seq(EntryKinds) /\ Len(<<"configuration">>) = 1
  BY DEF Db, EntryKinds
<1>2. /\ entries = <<"configuration">> /\ firstKept = 1 /\ done = 1 /\ live = << >> /\ inMain = 0
      /\ base.idx = 0 /\ base.db = << >> /\ boot.pc = "idle" /\ peer.idx = 0 /\ peer.db = << >>
      /\ peer.in = FALSE /\ excuse = {} /\ take.pc = "idle" /\ take.idx = 0 /\ take.user = FALSE
      /\ rd.pc = "idle"
  BY DEF BootInit, NoTake, NoReader
<1>3. BootTypeOK
  BY <1>1, <1>2 DEF BootTypeOK, BootInit, TakeState, BootState, NoTake
<1>4. Bookkeeping /\ ReaderInv
  BY <1>2 DEF Bookkeeping, ReaderInv
<1>5. AfterLog(entries, << >>, 0, 0) = << >>
  BY <1>1, AfterNone
<1>6. AfterLog(entries, << >>, 0, 1) = << >>
  <2>1. {k \in (0 + 1)..1 : entries[k] = "write"} = {} /\ {k \in (0 + 1)..0 : entries[k] = "write"} = {}
    BY <1>2
  <2> QED BY <1>5, <2>1 DEF AfterLog
<1>7. KeptInv(entries, done, live, inMain, flag, base, take, boot.pc)
  BY <1>1, <1>2, <1>6 DEF KeptInv, SyncedInv, MainInv, TakeInv
<1>8. PeerInv(entries, firstKept, base, peer, boot.pc)
  BY <1>2, <1>5 DEF PeerInv, SwappedAt, Consistent
<1> QED BY <1>3, <1>4, <1>7, <1>8 DEF BootInv

\* The request moves on, before the swap or after the answer.
LEMMA RequestMoves ==
    ASSUME NEW e, NEW dn, NEW lv, NEW im, NEW fl, NEW b, NEW t, NEW fk, NEW p, NEW pc, NEW q,
           ~SwappedAt(pc), ~SwappedAt(q)
    PROVE  /\ KeptInv(e, dn, lv, im, fl, b, t, pc) => KeptInv(e, dn, lv, im, fl, b, t, q)
           /\ PeerInv(e, fk, b, p, pc) => PeerInv(e, fk, b, p, q)
  BY DEF KeptInv, PeerInv, SyncedInv, MainInv, TakeInv, SwappedAt, Owed

\* The log grows.
LEMMA LogGrown ==
    ASSUME BootTypeOK, NEW x \in EntryKinds
    PROVE  /\ KeptInv(entries, done, live, inMain, flag, base, take, boot.pc)
                => KeptInv(Append(entries, x), done, live, inMain, flag, base, take, boot.pc)
           /\ PeerInv(entries, firstKept, base, peer, boot.pc)
                => PeerInv(Append(entries, x), firstKept, base, peer, boot.pc)
<1> DEFINE f == Append(entries, x)
<1>1. /\ entries \in Seq(EntryKinds) /\ done \in Nat /\ done <= Len(entries) /\ base.idx \in Nat /\ base.idx <= Len(entries)
      /\ take.idx \in Nat /\ take.idx <= Len(entries) /\ peer.idx \in Nat /\ peer.idx <= Len(entries)
  BY DEF BootTypeOK, TakeState
<1>2. \A d : \A i \in Nat : /\ AfterLog(f, d, i, done) = AfterLog(entries, d, i, done)
                            /\ AfterLog(f, d, i, base.idx) = AfterLog(entries, d, i, base.idx)
                            /\ AfterLog(f, d, i, take.idx) = AfterLog(entries, d, i, take.idx)
                            /\ AfterLog(f, d, i, peer.idx) = AfterLog(entries, d, i, peer.idx)
  BY <1>1, AfterSame
<1> HIDE DEF f
<1>3. /\ AfterLog(f, base.db, base.idx, done) = AfterLog(entries, base.db, base.idx, done)
      /\ AfterLog(f, take.img, take.idx, done) = AfterLog(entries, take.img, take.idx, done)
      /\ AfterLog(f, base.db, base.idx, take.idx) = AfterLog(entries, base.db, base.idx, take.idx)
      /\ AfterLog(f, base.db, base.idx, peer.idx) = AfterLog(entries, base.db, base.idx, peer.idx)
      /\ AfterLog(f, peer.db, peer.idx, base.idx) = AfterLog(entries, peer.db, peer.idx, base.idx)
  BY <1>1, <1>2
<1>4. KeptInv(entries, done, live, inMain, flag, base, take, boot.pc)
                => KeptInv(f, done, live, inMain, flag, base, take, boot.pc)
  BY <1>3, Zenon DEF KeptInv, SyncedInv, MainInv, TakeInv
<1>5. PeerInv(entries, firstKept, base, peer, boot.pc)
                => PeerInv(f, firstKept, base, peer, boot.pc)
  BY <1>3, Zenon DEF PeerInv, Consistent
<1> QED BY <1>4, <1>5 DEF f

\* A write is appended to the log.
LEMMA ProposeBoot == ASSUME BootInv, Propose PROVE BootInv'
<1>1. /\ entries' = Append(entries, "write")
      /\ UNCHANGED <<firstKept, done, live, inMain, flag, base, take, boot, peer, rd, excuse>>
  BY DEF Propose, leaderVars
<1>k. "write" \in EntryKinds /\ "noop" \in EntryKinds
  BY DEF EntryKinds
<1>2. entries' \in Seq(EntryKinds) /\ Len(entries') = Len(entries) + 1
  BY <1>1, <1>k DEF BootInv, BootTypeOK
<1>3. BootTypeOK'
  BY <1>1, <1>2 DEF BootInv, BootTypeOK
<1>4. Bookkeeping' /\ ReaderInv'
  BY <1>1 DEF BootInv, Bookkeeping, ReaderInv
<1>5. /\ excuse \cap {"failed", "raced"} = {} => KeptInv(entries', done, live, inMain, flag, base, take, boot.pc)
      /\ excuse = {} => PeerInv(entries', firstKept, base, peer, boot.pc)
  BY <1>1, <1>k, LogGrown DEF BootInv
<1> QED BY <1>1, <1>3, <1>4, <1>5 DEF BootInv

\* The boot request's noop is appended to the log.
LEMMA NoopBoot == ASSUME BootInv, BootNoop PROVE BootInv'
<1>1. /\ entries' = Append(entries, "noop")
      /\ UNCHANGED <<firstKept, done, live, inMain, flag, base, take, peer, rd, excuse>>
      /\ boot.pc = "noop" /\ boot' = [boot EXCEPT !.pc = "applied", !.idx = Len(entries) + 1]
  BY DEF BootNoop, leaderVars
<1>k. "write" \in EntryKinds /\ "noop" \in EntryKinds
  BY DEF EntryKinds
<1>2. entries' \in Seq(EntryKinds) /\ Len(entries') = Len(entries) + 1
  BY <1>1, <1>k DEF BootInv, BootTypeOK
<1>3. boot' \in BootState /\ boot'.pc = "applied"
  <2>1. Len(entries) + 1 \in Nat /\ boot \in BootState
    BY DEF BootInv, BootTypeOK
  <2> QED BY <1>1, <2>1 DEF BootState
<1>4. BootTypeOK'
  BY <1>1, <1>2, <1>3 DEF BootInv, BootTypeOK
<1>5. Bookkeeping' /\ ReaderInv'
  BY <1>1, <1>3 DEF BootInv, Bookkeeping, ReaderInv
<1>6. /\ excuse \cap {"failed", "raced"} = {} => KeptInv(entries', done, live, inMain, flag, base, take, "noop")
      /\ excuse = {} => PeerInv(entries', firstKept, base, peer, "noop")
  BY <1>1, <1>k, LogGrown DEF BootInv
<1>7. ~SwappedAt("noop") /\ ~SwappedAt("applied")
  BY DEF SwappedAt
<1>8. /\ excuse \cap {"failed", "raced"} = {} => KeptInv(entries', done, live, inMain, flag, base, take, "applied")
      /\ excuse = {} => PeerInv(entries', firstKept, base, peer, "applied")
  BY <1>6, <1>7, RequestMoves
<1> QED BY <1>1, <1>3, <1>4, <1>5, <1>8 DEF BootInv

\* The steps of the request that only move it on.
LEMMA RequestBoot == ASSUME BootInv, BootCheck \/ BootCopy PROVE BootInv'
<1>1. /\ UNCHANGED <<entries, firstKept, done, live, inMain, flag, base, take, peer, rd, excuse>>
      /\ boot.pc \in {"idle", "copy"}
      /\ boot' \in BootState /\ boot'.pc \in {"copy", "noop", "refused"}
  BY DEF BootCheck, BootCopy, At, leaderVars, logVars, BootInv, BootTypeOK, BootState
<1>2. BootTypeOK'
  BY <1>1 DEF BootInv, BootTypeOK
<1>3. Bookkeeping' /\ ReaderInv'
  BY <1>1 DEF BootInv, Bookkeeping, ReaderInv
<1>4. ~SwappedAt(boot.pc) /\ ~SwappedAt(boot'.pc)
  BY <1>1 DEF SwappedAt
<1>5. /\ excuse \cap {"failed", "raced"} = {} => KeptInv(entries, done, live, inMain, flag, base, take, boot'.pc)
      /\ excuse = {} => PeerInv(entries, firstKept, base, peer, boot'.pc)
  BY <1>4, RequestMoves DEF BootInv
<1> QED BY <1>1, <1>2, <1>3, <1>5 DEF BootInv

\* The readers.
LEMMA PrefixOfSelf == ASSUME NEW s \in Seq(Int) PROVE IsPrefix(s, s)
  BY DEF IsPrefix

\* The steps of a copy of the database (backup or dump) change nothing but the copy.
LEMMA CopyBoot ==
    ASSUME BootInv, CopyBegin \/ DumpRest \/ BackupRest \/ CopyEnd
    PROVE  BootInv'
<1>1. UNCHANGED <<entries, firstKept, done, live, inMain, flag, base, take, boot, peer, excuse>>
  BY DEF CopyBegin, DumpRest, BackupRest, CopyEnd, leaderVars, logVars
<1>2. ReaderInv'
  <2>1. CASE CopyBegin
    <3>1. rd' = [pc |-> "open", a |-> live, b |-> live] /\ live \in Seq(Int) /\ live' = live
      BY <1>1, <2>1 DEF CopyBegin, BootInv, BootTypeOK
    <3>2. rd'.pc = "open" /\ rd'.a = live /\ rd'.b = live
      BY <3>1
    <3> QED BY <3>1, <3>2, PrefixOfSelf DEF ReaderInv
  <2>2. CASE DumpRest
    <3>1. rd'.pc = "written" /\ rd'.a = rd.a /\ rd'.b = live /\ live \in Seq(Int) /\ rd.pc = "open"
      BY <2>2 DEF DumpRest, BootInv, BootTypeOK, ReaderInv
    <3> QED BY <1>1, <3>1 DEF ReaderInv, BootInv
  <2>3. CASE BackupRest
    <3>1. rd'.pc = "written" /\ rd'.a = rd.a /\ rd'.b = rd.b /\ rd.pc = "open"
      BY <2>3 DEF BackupRest, BootInv, ReaderInv
    <3> QED BY <1>1, <3>1, PrefixOfSelf DEF ReaderInv, BootInv
  <2>4. CASE CopyEnd
    BY <2>4 DEF CopyEnd, NoReader, ReaderInv
  <2> QED BY <2>1, <2>2, <2>3, <2>4
<1>3. BootTypeOK' /\ Bookkeeping'
  BY <1>1 DEF BootInv, BootTypeOK, Bookkeeping
<1> QED BY <1>1, <1>2, <1>3 DEF BootInv
\* No database that is open is the closed one.
LEMMA ClosedIsNoDb == Closed \notin Db /\ Closed \in Seq(Int) /\ Len(Closed) = 1
<1>1. Closed \in Seq(Int) /\ Len(Closed) = 1 /\ Closed[1] = -1
  BY DEF Closed
<1> DEFINE E == Int \ {-1}
<1>2. ASSUME NEW d \in Seq(E), Len(d) = 1 PROVE d[1] \in E
  <2> HIDE DEF E
  <2> QED BY <1>2
<1>3. Db = Seq(E) /\ -1 \notin E
  BY DEF Db
<1> HIDE DEF E
<1> QED BY <1>1, <1>2, <1>3

\* One more entry is applied to the database of the leader.
LEMMA AppliedKept ==
    ASSUME NEW e, NEW dn \in Nat, NEW lv \in Db, NEW im \in Nat, im <= Len(lv), NEW fl,
           NEW b, b.idx \in Nat, b.db \in Db, b.idx <= dn,
           NEW t, t.idx \in Nat, t.img \in Db, t.idx <= dn, t.pc # "fsm", NEW pc,
           KeptInv(e, dn, lv, im, fl, b, t, pc)
    PROVE  KeptInv(e, dn + 1, AfterLog(e, lv, dn, dn + 1), im, fl, b, t, pc)
<1>3. dn + 1 \in Nat /\ dn <= dn + 1
  OBVIOUS
<1>1. PICK r \in Db : r = AfterLog(e, lv, dn, dn + 1)
  BY <1>3, AfterType
<1>2. SubSeq(r, 1, im) = SubSeq(lv, 1, im)
  BY <1>1, <1>3, AfterType
<1>4. AfterLog(e, AfterLog(e, b.db, b.idx, dn), dn, dn + 1) = AfterLog(e, b.db, b.idx, dn + 1)
  BY <1>3, AfterAfter
<1>5. AfterLog(e, AfterLog(e, t.img, t.idx, dn), dn, dn + 1) = AfterLog(e, t.img, t.idx, dn + 1)
  BY <1>3, AfterAfter
<1>6. SyncedInv(e, dn + 1, r, fl, b, pc)
  BY <1>1, <1>4 DEF KeptInv, SyncedInv
<1>7. MainInv(r, im, fl, b, t, pc)
  BY <1>2 DEF KeptInv, MainInv
<1>8. TakeInv(e, dn + 1, r, im, b, t, pc)
  BY <1>1, <1>2, <1>5 DEF KeptInv, TakeInv
<1> QED BY <1>1, <1>6, <1>7, <1>8 DEF KeptInv

\* The leader applies the next entry.
LEMMA ApplyBoot == ASSUME BootInv, ApplyNext PROVE BootInv'
<1>1. /\ UNCHANGED <<entries, firstKept, inMain, flag, base, take, boot, peer, rd, excuse>>
      /\ done' = done + 1 /\ done < Len(entries) /\ take.pc # "fsm"
      /\ live' = IF live = Closed THEN live ELSE AfterLog(entries, live, done, done + 1)
  BY DEF ApplyNext, logVars, After
<1>2. /\ done \in Nat /\ done + 1 \in Nat /\ done + 1 <= Len(entries) /\ (live \in Db \/ live = Closed) /\ live \in Seq(Int)
      /\ inMain \in Nat /\ inMain <= Len(live)
      /\ base.idx \in Nat /\ base.db \in Db /\ base.idx <= done
      /\ take.idx \in Nat /\ take.img \in Db /\ take.idx <= done
  BY <1>1 DEF BootInv, BootTypeOK, TakeState
<1>3. CASE live = Closed
  <2>1. ~(excuse \cap {"failed", "raced"} = {}) /\ live' = live
    BY <1>1, <1>3, ClosedIsNoDb DEF BootInv, KeptInv
  <2>2. BootTypeOK'
    BY <1>1, <1>2, <2>1 DEF BootInv, BootTypeOK
  <2>3. Bookkeeping' /\ ReaderInv'
    BY <1>1, <2>1 DEF BootInv, Bookkeeping, ReaderInv
  <2> QED BY <1>1, <2>1, <2>2, <2>3 DEF BootInv
<1>4. CASE live # Closed
  <2>1. live' = AfterLog(entries, live, done, done + 1) /\ live \in Db
    BY <1>1, <1>2, <1>4
  <2>2. live' \in Db /\ Len(live) <= Len(live')
        /\ \A k \in Nat : k <= Len(live) => SubSeq(live', 1, k) = SubSeq(live, 1, k)
    <3>1. PICK lv \in Db : lv = live
      BY <2>1
    <3>2. live' = AfterLog(entries, lv, done, done + 1)
      BY <2>1, <3>1
    <3>3. PICK r : r = live'
      OBVIOUS
    <3>4. r \in Db /\ Len(lv) <= Len(r) /\ \A k \in Nat : k <= Len(lv) => SubSeq(r, 1, k) = SubSeq(lv, 1, k)
      <4>1. PICK i \in Nat : i = done
        BY <1>2
      <4>2. PICK j \in Nat : j = done + 1
        BY <1>2
      <4>3. r = AfterLog(entries, lv, i, j)
        BY <3>2, <3>3, <4>1, <4>2
      <4>4. /\ AfterLog(entries, lv, i, j) \in Db /\ Len(lv) <= Len(AfterLog(entries, lv, i, j))
            /\ \A k \in Nat : k <= Len(lv) => SubSeq(AfterLog(entries, lv, i, j), 1, k) = SubSeq(lv, 1, k)
        BY AfterType
      <4> QED BY <4>3, <4>4
    <3> QED BY <3>1, <3>3, <3>4
  <2>3. live' \in Seq(Int) /\ Len(live) \in Nat /\ Len(live') \in Nat
    BY <1>2, <2>2 DEF Db
  <2>4. BootTypeOK'
    BY <1>1, <1>2, <2>2, <2>3 DEF BootInv, BootTypeOK
  <2>5. Bookkeeping'
    BY <1>1 DEF BootInv, Bookkeeping
  <2>6. ReaderInv'
    <3>1. ASSUME rd.pc = "open" PROVE IsPrefix(rd.a, live')
      <4>1. rd.a \in Seq(Int) /\ Len(rd.a) <= Len(live) /\ SubSeq(rd.a, 1, Len(rd.a)) = SubSeq(live, 1, Len(rd.a))
        BY <3>1 DEF BootInv, ReaderInv, IsPrefix
      <4>2. Len(rd.a) \in Nat
        BY <4>1
      <4>3. SubSeq(live', 1, Len(rd.a)) = SubSeq(live, 1, Len(rd.a)) /\ Len(rd.a) <= Len(live')
        BY <2>2, <2>3, <4>1, <4>2
      <4> QED BY <4>1, <4>3 DEF IsPrefix
    <3> QED BY <1>1, <3>1 DEF BootInv, ReaderInv
  <2>7. excuse \cap {"failed", "raced"} = {} => KeptInv(entries, done', live', inMain, flag, base, take, boot.pc)
    BY <1>1, <1>2, <2>1, AppliedKept DEF BootInv
  <2> QED BY <1>1, <2>4, <2>5, <2>6, <2>7 DEF BootInv
<1> QED BY <1>3, <1>4

\* A snapshot begins: what it will take is the database, and it is a full one unless the
\* main file is what the newest snapshot has.
LEMMA BeginKept ==
    ASSUME NEW e, NEW dn \in Nat, NEW lv \in Db, NEW im, NEW fl, NEW nw,
           NEW b, b.idx \in Nat, b.db \in Db, b.idx <= dn,
           NEW t, NEW u, NEW pc, NEW q, t.pc = "idle", pc # "flag",
           u.pc = "fsm", u.idx = dn, u.img = lv, u.from = SubSeq(lv, 1, im),
           fl \/ b.idx = 0 \/ nw => u.full = TRUE,
           q = pc \/ (pc = "request" /\ q = "snap"),
           KeptInv(e, dn, lv, im, fl, b, t, pc)
    PROVE  KeptInv(e, dn, lv, im, fl, b, u, q)
<1>1. AfterLog(e, lv, dn, dn) = lv
  BY AfterNone
<1>2. SyncedInv(e, dn, lv, fl, b, q)
  BY DEF KeptInv, SyncedInv, Owed
<1>3. MainInv(lv, im, fl, b, u, q)
  BY DEF KeptInv, MainInv
<1>4. u.full \/ u.from = b.db
  BY DEF KeptInv, MainInv
<1>5. ~SwappedAt(q) => AfterLog(e, b.db, b.idx, dn) = lv
  BY DEF KeptInv, SyncedInv, SwappedAt, Owed
<1>6. TakeInv(e, dn, lv, im, b, u, q)
  BY <1>1, <1>4, <1>5 DEF TakeInv
<1> QED BY <1>2, <1>3, <1>6 DEF KeptInv

\* A snapshot starts, Raft's own or the one the boot request asks for.
LEMMA BeginBoot ==
    ASSUME BootInv, NEW user \in BOOLEAN, TakeBegin(user),
           boot' \in BootState,
           user => boot.pc = "request" /\ boot'.pc = "snap",
           ~user => boot'.pc = boot.pc
    PROVE  BootInv'
<1>1. /\ UNCHANGED <<entries, firstKept, done, live, inMain, flag, base, peer, rd>>
      /\ take.pc = "idle" /\ done > 1 /\ live # Closed
      /\ take' = [pc |-> "fsm", idx |-> done, full |-> Full, from |-> SubSeq(live, 1, inMain),
                img |-> live, user |-> user]
      /\ excuse' = IF boot.pc = "flag" THEN excuse \cup {"raced"} ELSE excuse
  BY DEF TakeBegin, logVars, leaderVars
<1>2. /\ done \in Nat /\ live \in Db /\ live \in Seq(Int) /\ inMain \in Nat /\ inMain <= Len(live)
      /\ base.idx \in Nat /\ base.db \in Db /\ base.idx <= done
  BY <1>1 DEF BootInv, BootTypeOK
<1>3. /\ take'.pc = "fsm" /\ take'.idx = done /\ take'.img = live /\ take'.user = user
      /\ take'.from = SubSeq(live, 1, inMain) /\ take'.full = Full
  BY <1>1
<1>4. SubSeq(live, 1, inMain) \in Seq(Int)
  BY <1>2
<1>5. Full \in BOOLEAN
  BY DEF Full
<1>6. take' \in TakeState
  BY <1>1, <1>2, <1>4, <1>5 DEF TakeState
<1>7. BootTypeOK'
  BY <1>1, <1>2, <1>3, <1>6 DEF BootInv, BootTypeOK
<1>8. Bookkeeping'
  BY <1>1, <1>3 DEF BootInv, Bookkeeping
<1>9. ReaderInv'
  BY <1>1 DEF BootInv, ReaderInv
<1>10. ASSUME excuse' \cap {"failed", "raced"} = {}
       PROVE  KeptInv(entries, done, live, inMain, flag, base, take', boot'.pc)
  <2>1. boot.pc # "flag" /\ excuse' = excuse
    BY <1>1, <1>10
  <2>2. KeptInv(entries, done, live, inMain, flag, base, take, boot.pc)
    BY <1>10, <2>1 DEF BootInv
  <2>3. flag \/ base.idx = 0 \/ newer => take'.full = TRUE
    BY <1>3 DEF Full
  <2>4. boot'.pc = boot.pc \/ (boot.pc = "request" /\ boot'.pc = "snap")
    OBVIOUS
  <2> QED BY <1>1, <1>2, <1>3, <2>1, <2>2, <2>3, <2>4, BeginKept
<1>11. ASSUME excuse' = {} PROVE PeerInv(entries, firstKept, base, peer, boot'.pc)
  <2>1. PeerInv(entries, firstKept, base, peer, boot.pc)
    BY <1>1, <1>11 DEF BootInv
  <2>2. SwappedAt(boot'.pc) = SwappedAt(boot.pc)
    BY DEF SwappedAt
  <2> QED BY <2>1, <2>2 DEF PeerInv
<1> QED BY <1>1, <1>7, <1>8, <1>9, <1>10, <1>11 DEF BootInv

\* Raft's snapshot starts.
LEMMA TakeAutoBoot == ASSUME BootInv, TakeAuto PROVE BootInv'
<1>1. TakeBegin(FALSE) /\ boot' = boot /\ boot \in BootState
  BY DEF TakeAuto, BootInv, BootTypeOK
<1> QED BY <1>1, BeginBoot

\* The boot request's snapshot starts.
LEMMA BootSnapshotBoot == ASSUME BootInv, BootSnapshot PROVE BootInv'
<1>1. TakeBegin(TRUE) /\ boot.pc = "request" /\ boot' = [boot EXCEPT !.pc = "snap"] /\ boot \in BootState
  BY DEF BootSnapshot, At, BootInv, BootTypeOK
<1>2. boot' \in BootState /\ boot'.pc = "snap"
  BY <1>1 DEF BootState
<1> QED BY <1>1, <1>2, BeginBoot
\* fsmSnapshot returns: what it took is the database, all of it in the main file.
LEMMA FsmDoneKept ==
    ASSUME NEW e, NEW dn \in Nat, NEW lv \in Db, NEW im, NEW fl, NEW b, NEW t, NEW u, NEW pc,
           t.pc = "fsm", u.pc = "persist", u.idx = t.idx, u.full = t.full, u.from = t.from, u.img = t.img,
           KeptInv(e, dn, lv, im, fl, b, t, pc)
    PROVE  KeptInv(e, dn, lv, Len(lv), fl, b, u, pc)
<1>1. SubSeq(lv, 1, Len(lv)) = lv
  BY DEF Db
<1>2. MainInv(lv, Len(lv), fl, b, u, pc)
  BY DEF MainInv
<1>3. TakeInv(e, dn, lv, Len(lv), b, u, pc)
  BY <1>1 DEF KeptInv, TakeInv
<1> QED BY <1>2, <1>3 DEF KeptInv

\* The FSM has given the snapshot its database, full or incremental.
LEMMA FsmDoneBoot == ASSUME BootInv, TakeFsmDone PROVE BootInv'
<1>1. /\ UNCHANGED <<entries, firstKept, done, live, flag, base, boot, peer, rd, excuse>>
      /\ take.pc = "fsm" /\ live # Closed
      /\ take' = [take EXCEPT !.pc = "persist", !.img = IF take.full THEN live ELSE @]
      /\ inMain' = Len(live)
  BY DEF TakeFsmDone, logVars
<1>2. /\ done \in Nat /\ live \in Db /\ live \in Seq(Int) /\ Len(live) \in Nat /\ take \in TakeState
  BY <1>1 DEF BootInv, BootTypeOK
<1>3. /\ take'.pc = "persist" /\ take'.idx = take.idx /\ take'.full = take.full /\ take'.from = take.from
      /\ take'.user = take.user /\ take'.img = (IF take.full THEN live ELSE take.img) /\ take' \in TakeState
  BY <1>1, <1>2 DEF TakeState
<1>4. BootTypeOK'
  BY <1>1, <1>2, <1>3 DEF BootInv, BootTypeOK
<1>5. Bookkeeping' /\ ReaderInv'
  BY <1>1, <1>3 DEF BootInv, Bookkeeping, ReaderInv
<1>6. ASSUME excuse \cap {"failed", "raced"} = {}
      PROVE  KeptInv(entries, done, live, Len(live), flag, base, take', boot.pc)
  <2>1. KeptInv(entries, done, live, inMain, flag, base, take, boot.pc)
    BY <1>6 DEF BootInv
  <2>2. take'.img = take.img
    BY <1>1, <1>3, <2>1 DEF KeptInv, TakeInv
  <2> QED BY <1>1, <1>2, <1>3, <2>1, <2>2, FsmDoneKept
<1> QED BY <1>1, <1>4, <1>5, <1>6 DEF BootInv

\* The snapshot is there: it is the database as it was taken, also when it was an
\* incremental one, since the WAL goes with the snapshot that it is laid over.
NewBase(t, b) == IF t.full THEN t.img ELSE IF t.from = t.img THEN b.db
                 ELSE IF t.from = b.db THEN t.img ELSE Corrupt

\* A node that is on the way through a snapshot is on the way through the next one.
LEMMA ConsistentNext ==
    ASSUME NEW e, NEW b, b.idx \in Nat, b.db \in Db, NEW c, c.idx \in Nat, c.db \in Db, b.idx <= c.idx,
           AfterLog(e, b.db, b.idx, c.idx) = c.db,
           NEW i \in Nat, NEW d \in Db, Consistent(e, b, i, d)
    PROVE  Consistent(e, c, i, d)
<1>1. ASSUME c.idx <= i PROVE d = AfterLog(e, c.db, c.idx, i)
  <2>1. d = AfterLog(e, b.db, b.idx, i)
    BY <1>1 DEF Consistent
  <2>2. AfterLog(e, AfterLog(e, b.db, b.idx, c.idx), c.idx, i) = AfterLog(e, b.db, b.idx, i)
    BY <1>1, AfterAfter
  <2> QED BY <2>1, <2>2
<1>2. ASSUME i <= c.idx, b.idx <= i PROVE AfterLog(e, d, i, c.idx) = c.db
  <2>1. d = AfterLog(e, b.db, b.idx, i)
    BY <1>2 DEF Consistent
  <2>2. AfterLog(e, AfterLog(e, b.db, b.idx, i), i, c.idx) = AfterLog(e, b.db, b.idx, c.idx)
    BY <1>2, AfterAfter
  <2> QED BY <2>1, <2>2
<1>3. ASSUME i <= c.idx, i <= b.idx PROVE AfterLog(e, d, i, c.idx) = c.db
  <2>1. AfterLog(e, d, i, b.idx) = b.db
    BY <1>3 DEF Consistent
  <2>2. AfterLog(e, AfterLog(e, d, i, b.idx), b.idx, c.idx) = AfterLog(e, d, i, c.idx)
    BY <1>3, AfterAfter
  <2> QED BY <2>1, <2>2
<1>4. b.idx <= i \/ i <= b.idx
  OBVIOUS
<1> QED BY <1>1, <1>2, <1>3, <1>4 DEF Consistent

\* The log begins with another entry after the snapshot that ends a boot.
LEMMA Compacted ==
    ASSUME BootInv, TakeDone
    PROVE  /\ firstKept' \in Nat \ {0} /\ firstKept' >= firstKept
           /\ boot.pc = "snap" => firstKept' > 1
<1> DEFINE tr == Trailing
           upto == IF take.idx < Len(entries) - tr THEN take.idx ELSE Len(entries) - tr
<1>1. firstKept' = (IF upto >= firstKept THEN upto + 1 ELSE firstKept) /\ take.pc = "persist"
  BY DEF TakeDone
<1>2. /\ Len(entries) \in Nat /\ take.idx \in Nat /\ take.idx > 1 /\ take.idx <= Len(entries)
      /\ firstKept \in Nat \ {0}
  BY <1>1 DEF BootInv, BootTypeOK, Bookkeeping, TakeState
<1>3. tr \in Nat /\ (boot.pc = "snap" => tr = 1)
  BY <1>2 DEF Trailing
<1> HIDE DEF tr
<1>4. upto \in Int /\ (boot.pc = "snap" => upto >= 1)
  BY <1>2, <1>3
<1> HIDE DEF upto
<1> QED BY <1>1, <1>2, <1>4

\* The snapshot is stored, and the log truncated.
LEMMA DoneBoot == ASSUME BootInv, TakeDone PROVE BootInv'
<1>1. /\ UNCHANGED <<entries, done, live, inMain, peer, rd, excuse>>
      /\ take.pc = "persist"
      /\ base' = [idx |-> take.idx, db |-> NewBase(take, base)]
      /\ flag' = FALSE /\ boot' = BootAnswered("done") /\ take' = NoTake
  BY DEF TakeDone, leaderVars, NewBase
<1>2. /\ done \in Nat /\ live \in Seq(Int) /\ take \in TakeState /\ base.db \in Db /\ base.idx \in Nat
      /\ boot \in BootState /\ take.idx \in Nat /\ take.idx <= done /\ peer.idx \in Nat /\ peer.db \in Db
  BY DEF BootInv, BootTypeOK, TakeState
<1>3. Corrupt \in Db /\ << >> \in Db /\ << >> \in Seq(Int)
  BY DEF Corrupt, Db
<1>4. take.img \in Db /\ NewBase(take, base) \in Db
  BY <1>2, <1>3 DEF NewBase, TakeState
<1>5. base'.idx = take.idx /\ base'.db = NewBase(take, base) /\ base' \in [idx : Nat, db : Db]
  BY <1>1, <1>2, <1>4
<1>6. take' \in TakeState /\ take'.pc = "idle" /\ take'.idx = 0 /\ take'.user = FALSE
  BY <1>1, <1>3 DEF NoTake, TakeState
<1>7. /\ boot' \in BootState
      /\ boot.pc = "snap" => boot'.pc = "done"
      /\ boot.pc # "snap" => boot'.pc = boot.pc
  BY <1>1, <1>2 DEF BootAnswered, BootState, BootInv, Bookkeeping
<1>8. firstKept' \in Nat \ {0} /\ firstKept' >= firstKept /\ (boot.pc = "snap" => firstKept' > 1)
  BY Compacted
<1>9. BootTypeOK'
  BY <1>1, <1>2, <1>5, <1>6, <1>7, <1>8 DEF BootInv, BootTypeOK
<1>10. Bookkeeping' /\ ReaderInv'
  BY <1>1, <1>6, <1>7 DEF BootInv, Bookkeeping, ReaderInv
<1>11. ASSUME excuse \cap {"failed", "raced"} = {}
       PROVE  base'.db = take.img /\ KeptInv(entries, done, live, inMain, FALSE, base', take', boot'.pc)
  <2>1. KeptInv(entries, done, live, inMain, flag, base, take, boot.pc)
    BY <1>11 DEF BootInv
  <2>2. live \in Db
    BY <2>1 DEF KeptInv
  <2>3. boot.pc = boot'.pc \/ (boot.pc = "snap" /\ boot'.pc = "done")
    BY <1>7
  <2>4. PICK c, u, q : c = base' /\ u = take' /\ q = boot'.pc
    OBVIOUS
  <2>5. u.pc = "idle" /\ c.idx = take.idx /\ c.db = NewBase(take, base)
    BY <1>5, <1>6, <2>4
  <2>6. boot.pc = q \/ (boot.pc = "snap" /\ q = "done")
    BY <2>3, <2>4
  <2>7. c.db = take.img
    BY <1>1, <2>1, <2>5 DEF NewBase, KeptInv, TakeInv
  <2>8. SyncedInv(entries, done, live, FALSE, c, q)
    BY <1>1, <2>1, <2>5, <2>6, <2>7 DEF KeptInv, SyncedInv, TakeInv
  <2>9. MainInv(live, inMain, FALSE, c, u, q)
    BY <1>1, <2>1, <2>5, <2>6, <2>7 DEF KeptInv, MainInv, TakeInv
  <2>10. TakeInv(entries, done, live, inMain, c, u, q)
    BY <2>5 DEF TakeInv
  <2> QED BY <2>2, <2>4, <2>7, <2>8, <2>9, <2>10 DEF KeptInv
<1>12. ASSUME excuse = {} PROVE PeerInv(entries, firstKept', base', peer, boot'.pc)
  <2>1. PeerInv(entries, firstKept, base, peer, boot.pc)
    BY <1>12 DEF BootInv
  <2>2. CASE boot.pc = "snap"
    <3>1. peer.idx = 0 /\ ~SwappedAt(boot'.pc)
      BY <1>7, <2>1, <2>2 DEF PeerInv, SwappedAt, BootInv, Bookkeeping
    <3> QED BY <1>8, <2>2, <3>1 DEF PeerInv
  <2>3. CASE boot.pc # "snap"
    <3>1. boot'.pc = boot.pc
      BY <1>7, <2>3
    <3>2. CASE SwappedAt(boot.pc)
      BY <2>1, <3>1, <3>2 DEF PeerInv
    <3>3. CASE ~SwappedAt(boot.pc)
      <4>1. CASE peer.idx = 0 /\ firstKept > 1
        <5>1. firstKept' > 1
          <6>1. firstKept \in Nat /\ firstKept' \in Nat
            BY <1>8 DEF BootInv, BootTypeOK
          <6> QED BY <1>8, <4>1, <6>1
        <5> QED BY <3>1, <3>3, <4>1, <5>1 DEF PeerInv
      <4>2. CASE ~(peer.idx = 0 /\ firstKept > 1)
        <5>1. Consistent(entries, base, peer.idx, peer.db)
          BY <2>1, <3>3, <4>2 DEF PeerInv
        <5>2. /\ KeptInv(entries, done, live, inMain, flag, base, take, boot.pc)
              /\ base'.db = take.img
          BY <1>11, <1>12 DEF BootInv
        <5>3. AfterLog(entries, base.db, base.idx, base'.idx) = base'.db /\ base.idx <= base'.idx
          BY <1>1, <1>5, <3>3, <5>2 DEF KeptInv, TakeInv
        <5>4. PICK c : c = base'
          OBVIOUS
        <5>5. Consistent(entries, c, peer.idx, peer.db)
          BY <1>2, <1>4, <1>5, <5>1, <5>3, <5>4, ConsistentNext
        <5> QED BY <3>1, <3>3, <5>4, <5>5 DEF PeerInv
      <4> QED BY <4>1, <4>2
    <3> QED BY <3>2, <3>3
  <2> QED BY <2>2, <2>3
<1> QED BY <1>1, <1>9, <1>10, <1>11, <1>12 DEF BootInv

\* It fails: if the WAL may be gone, the next one is a full one.
LEMMA FailsKept ==
    ASSUME NEW e, NEW dn, NEW lv, NEW im, NEW fl, NEW b, NEW t, NEW u, NEW gl, NEW pc,
           t.pc # "idle", u.pc = "idle", gl = (fl \/ t.pc = "persist"),
           KeptInv(e, dn, lv, im, fl, b, t, pc)
    PROVE  KeptInv(e, dn, lv, im, gl, b, u, pc)
<1>1. SyncedInv(e, dn, lv, gl, b, pc)
  BY DEF KeptInv, SyncedInv, Owed
<1>2. MainInv(lv, im, gl, b, u, pc)
  BY DEF KeptInv, MainInv
<1>3. TakeInv(e, dn, lv, im, b, u, pc)
  BY DEF TakeInv
<1> QED BY <1>1, <1>2, <1>3 DEF KeptInv

\* The snapshot fails, and nothing is stored.
LEMMA FailsBoot == ASSUME BootInv, TakeFails PROVE BootInv'
<1>1. /\ UNCHANGED <<entries, firstKept, done, live, inMain, base, peer, rd>>
      /\ take.pc # "idle"
      /\ flag' = (flag \/ take.pc = "persist") /\ boot' = BootAnswered("failed") /\ take' = NoTake
      /\ excuse' = IF take.user THEN excuse \cup {"failed"} ELSE excuse
  BY DEF TakeFails, logVars
<1>2. boot \in BootState
  BY DEF BootInv, BootTypeOK
<1>3. << >> \in Db /\ << >> \in Seq(Int)
  BY DEF Db
<1>6. take' \in TakeState /\ take'.pc = "idle" /\ take'.idx = 0 /\ take'.user = FALSE
  BY <1>1, <1>3 DEF NoTake, TakeState
<1>7. /\ boot' \in BootState
      /\ boot.pc = "snap" => boot'.pc = "failed" /\ excuse' = excuse \cup {"failed"}
      /\ boot.pc # "snap" => boot'.pc = boot.pc /\ excuse' = excuse
  BY <1>1, <1>2 DEF BootAnswered, BootState, BootInv, Bookkeeping
<1>8. BootTypeOK'
  BY <1>1, <1>6, <1>7 DEF BootInv, BootTypeOK
<1>9. Bookkeeping' /\ ReaderInv'
  BY <1>1, <1>6, <1>7 DEF BootInv, Bookkeeping, ReaderInv
<1>10. ASSUME excuse' \cap {"failed", "raced"} = {}
       PROVE  boot'.pc = boot.pc /\ excuse' = excuse
  BY <1>7, <1>10
<1>11. ASSUME excuse' \cap {"failed", "raced"} = {}
       PROVE  KeptInv(entries, done, live, inMain, flag', base, take', boot.pc)
  <2>1. KeptInv(entries, done, live, inMain, flag, base, take, boot.pc)
    BY <1>10, <1>11 DEF BootInv
  <2> QED BY <1>1, <1>6, <2>1, FailsKept
<1>12. excuse' = {} => PeerInv(entries, firstKept, base, peer, boot.pc)
  BY <1>10 DEF BootInv
<1> QED BY <1>1, <1>8, <1>9, <1>10, <1>11, <1>12 DEF BootInv
\* The swap: from now on the database is the file, and a full snapshot of it is owed.
LEMMA SwapBoot == ASSUME BootInv, BootSwap PROVE BootInv'
<1>1. /\ UNCHANGED <<entries, firstKept, done, flag, base, take, peer, rd>>
      /\ boot.pc = "applied" /\ rd.pc # "open"
      /\ boot' = [pc |-> "flag", idx |-> 0, wal |-> FALSE]
      /\ live' = <<File>> /\ inMain' = 1
      /\ excuse' = excuse \cup Early \cup Raced
  BY DEF BootSwap, logVars, Lockable
<1>2. /\ live' \in Db /\ live' \in Seq(Int) /\ Len(live') = 1
  BY <1>1 DEF Db, File
<1>3. boot' \in BootState /\ boot'.pc = "flag"
  BY <1>1 DEF BootState
<1>4. /\ excuse' \subseteq {"early", "raced", "failed", "unanswered"}
      /\ excuse' \cap {"failed", "raced"} = {} => take.pc = "idle"
      /\ excuse' = {} => ~peer.in
  <2>1. excuse \subseteq {"early", "raced", "failed", "unanswered"}
    BY DEF BootInv, BootTypeOK
  <2> QED BY <1>1, <2>1 DEF Early, Raced
<1>5. BootTypeOK'
  BY <1>1, <1>2, <1>3, <1>4 DEF BootInv, BootTypeOK
<1>6. Bookkeeping' /\ ReaderInv'
  BY <1>1, <1>3 DEF BootInv, Bookkeeping, ReaderInv
<1>7. take.pc = "idle" => KeptInv(entries, done, live', 1, flag, base, take, "flag")
  BY <1>2 DEF KeptInv, SyncedInv, Owed, MainInv, TakeInv
<1>8. ~peer.in => PeerInv(entries, firstKept, base, peer, "flag")
  BY DEF PeerInv, SwappedAt
<1> QED BY <1>1, <1>3, <1>4, <1>5, <1>6, <1>7, <1>8 DEF BootInv

\* Steps after which a boot is known to have failed.
LEMMA SwapFailsBoot == ASSUME BootInv, BootSwapFails \/ BootSnapshotRefused PROVE BootInv'
<1>1. /\ UNCHANGED <<entries, firstKept, done, flag, base, take, peer, rd>>
      /\ boot.pc \in {"applied", "request"}
      /\ boot' = [boot EXCEPT !.pc = "failed"]
      /\ excuse' = excuse \cup {"failed"}
      /\ \/ rd.pc # "open" /\ live' = Closed /\ inMain' = 1
         \/ live' = live /\ inMain' = inMain
  BY ClosedIsNoDb DEF BootSwapFails, BootSnapshotRefused, At, logVars, leaderVars, Lockable
<1>2. boot' \in BootState /\ boot'.pc = "failed"
  BY <1>1 DEF BootState, BootInv, BootTypeOK
<1>3. BootTypeOK'
  <2>1. live' \in Seq(Int) /\ (live' \in Db \/ live' = Closed) /\ inMain' \in Nat /\ inMain' <= Len(live')
    <3>1. CASE live' = Closed /\ inMain' = 1
      <4>1. Closed \in Seq(Int) /\ Len(Closed) = 1
        BY DEF Closed
      <4> QED BY <3>1, <4>1
    <3>2. CASE live' = live /\ inMain' = inMain
      BY <3>2 DEF BootInv, BootTypeOK
    <3> QED BY <1>1, <3>1, <3>2
  <2>2. excuse' \subseteq {"early", "raced", "failed", "unanswered"}
    BY <1>1 DEF BootInv, BootTypeOK
  <2> QED BY <1>1, <1>2, <2>1, <2>2 DEF BootInv, BootTypeOK
<1>4. Bookkeeping' /\ ReaderInv'
  BY <1>1, <1>2 DEF BootInv, Bookkeeping, ReaderInv
<1>5. ~(excuse' \cap {"failed", "raced"} = {}) /\ excuse' # {}
  BY <1>1
<1> QED BY <1>3, <1>4, <1>5 DEF BootInv

\* The boot request marks that the next snapshot must be full.
LEMMA FlagBoot == ASSUME BootInv, BootFlag PROVE BootInv'
<1>1. /\ UNCHANGED <<entries, firstKept, done, live, inMain, base, take, peer, rd, excuse>>
      /\ boot.pc = "flag" /\ boot' = [boot EXCEPT !.pc = "request"] /\ flag' = TRUE
  BY DEF BootFlag, At, logVars, leaderVars
<1>2. boot' \in BootState /\ boot'.pc = "request"
  BY <1>1 DEF BootState, BootInv, BootTypeOK
<1>3. BootTypeOK'
  BY <1>1, <1>2 DEF BootInv, BootTypeOK
<1>4. Bookkeeping' /\ ReaderInv'
  BY <1>1, <1>2 DEF BootInv, Bookkeeping, ReaderInv
<1>5. KeptInv(entries, done, live, inMain, flag, base, take, "flag")
        => KeptInv(entries, done, live, inMain, TRUE, base, take, "request")
  BY DEF KeptInv, SyncedInv, Owed, MainInv, TakeInv
<1>6. PeerInv(entries, firstKept, base, peer, "flag") => PeerInv(entries, firstKept, base, peer, "request")
  BY DEF PeerInv, SwappedAt
<1> QED BY <1>1, <1>2, <1>3, <1>4, <1>5, <1>6 DEF BootInv

\* A second node joins.
LEMMA JoinBoot == ASSUME BootInv, PeerJoin PROVE BootInv'
<1>1. /\ UNCHANGED <<entries, firstKept, done, live, inMain, flag, base, take, boot, rd>>
      /\ ~peer.in /\ peer' = [peer EXCEPT !.in = TRUE]
      /\ excuse' = IF InProgress THEN excuse \cup {"early"} ELSE excuse
  BY DEF PeerJoin, logVars, leaderVars
<1>2. /\ peer' \in [in : BOOLEAN, idx : Nat, db : Db] /\ peer'.in = TRUE /\ peer'.idx = peer.idx
      /\ peer'.db = peer.db
  BY <1>1 DEF BootInv, BootTypeOK
<1>3. BootTypeOK'
  BY <1>1, <1>2 DEF BootInv, BootTypeOK
<1>4. Bookkeeping' /\ ReaderInv'
  BY <1>1, <1>2 DEF BootInv, Bookkeeping, ReaderInv
<1>5. excuse' \cap {"failed", "raced"} = {} => excuse \cap {"failed", "raced"} = {}
  BY <1>1
<1>6. excuse' = {} => excuse = {} /\ ~SwappedAt(boot.pc)
  BY <1>1 DEF InProgress, SwappedAt
<1>7. ASSUME excuse' = {} PROVE PeerInv(entries, firstKept, base, peer', boot.pc)
  <2>1. PeerInv(entries, firstKept, base, peer, boot.pc) /\ ~SwappedAt(boot.pc)
    BY <1>6, <1>7 DEF BootInv
  <2> QED BY <1>2, <2>1 DEF PeerInv
<1> QED BY <1>1, <1>3, <1>4, <1>5, <1>7 DEF BootInv

\* A node on the way applies one more entry.
LEMMA ConsistentMore ==
    ASSUME NEW e, NEW b, b.idx \in Nat, b.db \in Db, NEW i \in Nat, NEW d \in Db, Consistent(e, b, i, d)
    PROVE  Consistent(e, b, i + 1, AfterLog(e, d, i, i + 1))
<1>0. i + 1 \in Nat /\ i <= i + 1 /\ (b.idx <= i \/ i + 1 <= b.idx)
  OBVIOUS
<1>1. CASE b.idx <= i
  <2>1. d = AfterLog(e, b.db, b.idx, i)
    BY <1>1 DEF Consistent
  <2>2. AfterLog(e, AfterLog(e, b.db, b.idx, i), i, i + 1) = AfterLog(e, b.db, b.idx, i + 1)
    BY <1>0, <1>1, AfterAfter
  <2>3. ~(i + 1 <= b.idx)
    BY <1>1
  <2> QED BY <2>1, <2>2, <2>3 DEF Consistent
<1>2. CASE i + 1 <= b.idx
  <2>1. AfterLog(e, d, i, b.idx) = b.db
    BY <1>2 DEF Consistent
  <2>2. PICK f \in Db : f = AfterLog(e, d, i, i + 1)
    BY <1>0, AfterType
  <2>3. AfterLog(e, f, i + 1, b.idx) = AfterLog(e, d, i, b.idx)
    BY <1>0, <1>2, <2>2, AfterAfter
  <2>4. ASSUME b.idx <= i + 1 PROVE f = AfterLog(e, b.db, b.idx, i + 1)
    <3>1. b.idx = i + 1
      BY <1>2, <2>4
    <3>2. AfterLog(e, f, i + 1, i + 1) = f /\ AfterLog(e, b.db, i + 1, i + 1) = b.db
      BY <1>0, AfterNone
    <3> QED BY <2>1, <2>3, <3>1, <3>2
  <2> QED BY <2>1, <2>2, <2>3, <2>4 DEF Consistent
<1> QED BY <1>0, <1>1, <1>2

\* It applies an entry of the log.
LEMMA PeerApplyBoot == ASSUME BootInv, PeerApply PROVE BootInv'
<1>1. /\ UNCHANGED <<entries, firstKept, done, live, inMain, flag, base, take, boot, rd, excuse>>
      /\ peer.in /\ peer.idx < Len(entries) /\ firstKept <= peer.idx + 1
      /\ peer' = [peer EXCEPT !.idx = @ + 1, !.db = AfterLog(entries, @, peer.idx, peer.idx + 1)]
  BY DEF PeerApply, logVars, leaderVars, After
<1>2. /\ peer \in [in : BOOLEAN, idx : Nat, db : Db] /\ peer.idx \in Nat /\ peer.db \in Db
      /\ base.idx \in Nat /\ base.db \in Db /\ Len(entries) \in Nat /\ peer.idx + 1 \in Nat
      /\ firstKept \in Nat
  BY DEF BootInv, BootTypeOK
<1>3. PICK f \in Db : f = AfterLog(entries, peer.db, peer.idx, peer.idx + 1)
  BY <1>2, AfterType
<1>4. /\ peer' \in [in : BOOLEAN, idx : Nat, db : Db] /\ peer'.in = TRUE /\ peer'.idx = peer.idx + 1
      /\ peer'.db = f
  BY <1>1, <1>2, <1>3
<1>5. BootTypeOK'
  BY <1>1, <1>2, <1>4 DEF BootInv, BootTypeOK
<1>6. Bookkeeping' /\ ReaderInv'
  BY <1>1, <1>4 DEF BootInv, Bookkeeping, ReaderInv
<1>7. ASSUME excuse = {} PROVE PeerInv(entries, firstKept, base, peer', boot.pc)
  <2>1. PeerInv(entries, firstKept, base, peer, boot.pc)
    BY <1>7 DEF BootInv
  <2>2. ~SwappedAt(boot.pc) /\ ~(peer.idx = 0 /\ firstKept > 1)
    BY <1>1, <1>2, <2>1 DEF PeerInv
  <2>3. Consistent(entries, base, peer.idx, peer.db)
    BY <2>1, <2>2 DEF PeerInv
  <2>4. Consistent(entries, base, peer.idx + 1, f)
    BY <1>2, <1>3, <2>3, ConsistentMore
  <2> QED BY <1>4, <2>2, <2>4 DEF PeerInv
<1> QED BY <1>1, <1>5, <1>6, <1>7 DEF BootInv

\* It is sent the newest snapshot.
LEMMA InstallBoot == ASSUME BootInv, PeerInstall PROVE BootInv'
<1>1. /\ UNCHANGED <<entries, firstKept, done, live, inMain, flag, base, take, boot, rd, excuse>>
      /\ peer.in /\ peer' = [peer EXCEPT !.idx = base.idx, !.db = base.db]
  BY DEF PeerInstall, logVars, leaderVars
<1>2. /\ peer \in [in : BOOLEAN, idx : Nat, db : Db] /\ base.idx \in Nat /\ base.db \in Db
      /\ base.idx <= done /\ done <= Len(entries) /\ Len(entries) \in Nat /\ done \in Nat
  BY DEF BootInv, BootTypeOK
<1>4. /\ peer' \in [in : BOOLEAN, idx : Nat, db : Db] /\ peer'.in = TRUE /\ peer'.idx = base.idx
      /\ peer'.db = base.db
  BY <1>1, <1>2
<1>5. BootTypeOK'
  BY <1>1, <1>2, <1>4 DEF BootInv, BootTypeOK
<1>6. Bookkeeping' /\ ReaderInv'
  BY <1>1, <1>4 DEF BootInv, Bookkeeping, ReaderInv
<1>7. ASSUME excuse = {} PROVE PeerInv(entries, firstKept, base, peer', boot.pc)
  <2>1. ~SwappedAt(boot.pc)
    BY <1>1, <1>7 DEF BootInv, PeerInv
  <2>2. Consistent(entries, base, base.idx, base.db)
    BY <1>2, AfterNone DEF Consistent
  <2> QED BY <1>4, <2>1, <2>2 DEF PeerInv
<1> QED BY <1>1, <1>5, <1>6, <1>7 DEF BootInv

\* A restart: the database is what the snapshot and the log say.
LEMMA CrashBoot == ASSUME BootInv, BootCrash PROVE BootInv'
<1>1. /\ UNCHANGED <<entries, firstKept, done, flag, base, peer>>
      /\ live' = AfterLog(entries, base.db, base.idx, done) /\ inMain' = Len(base.db)
      /\ take' = NoTake /\ rd' = NoReader
      /\ boot' = IF InProgress THEN [boot EXCEPT !.pc = "refused"] ELSE boot
      /\ excuse' = IF Swapped THEN excuse \cup {"unanswered"} ELSE excuse
  BY DEF BootCrash, logVars, Recovered, After
<1>2. base.idx \in Nat /\ base.db \in Db /\ done \in Nat /\ boot \in BootState /\ base.idx <= done
  BY DEF BootInv, BootTypeOK
<1>3. << >> \in Db /\ << >> \in Seq(Int)
  BY DEF Db
<1>4. /\ live' \in Db /\ Len(base.db) <= Len(live')
      /\ SubSeq(live', 1, Len(base.db)) = base.db
  <2>1. PICK d \in Db : d = base.db
    BY <1>2
  <2>2. PICK i \in Nat, j \in Nat : i = base.idx /\ j = done
    BY <1>2
  <2>3. /\ AfterLog(entries, d, i, j) \in Db /\ Len(d) <= Len(AfterLog(entries, d, i, j))
        /\ \A k \in Nat : k <= Len(d) => SubSeq(AfterLog(entries, d, i, j), 1, k) = SubSeq(d, 1, k)
    BY AfterType
  <2>4. Len(d) \in Nat /\ SubSeq(d, 1, Len(d)) = d
    BY DEF Db
  <2>5. Len(d) <= Len(d)
    BY <2>4
  <2> QED BY <1>1, <2>1, <2>2, <2>3, <2>4, <2>5
<1>5. live' \in Seq(Int) /\ inMain' \in Nat
  BY <1>1, <1>2, <1>4 DEF Db
<1>6. take' \in TakeState /\ take'.pc = "idle" /\ take'.idx = 0 /\ take'.user = FALSE /\ rd'.pc = "idle"
  BY <1>1, <1>3 DEF NoTake, TakeState, NoReader
<1>7. boot' \in BootState /\ ~SwappedAt(boot'.pc) /\ (SwappedAt(boot.pc) => excuse' = excuse \cup {"unanswered"})
      /\ (~SwappedAt(boot.pc) => excuse' = excuse)
  BY <1>1, <1>2 DEF InProgress, Swapped, SwappedAt, BootState
<1>8. BootTypeOK'
  BY <1>1, <1>2, <1>4, <1>5, <1>6, <1>7 DEF BootInv, BootTypeOK
<1>9. Bookkeeping' /\ ReaderInv'
  <2>1. boot'.pc # "snap"
    BY <1>7 DEF SwappedAt
  <2> QED BY <1>1, <1>6, <2>1 DEF BootInv, Bookkeeping, ReaderInv
<1>10. KeptInv(entries, done, live', inMain', flag, base, take', boot'.pc)
  BY <1>1, <1>4, <1>6, <1>7 DEF KeptInv, SyncedInv, MainInv, TakeInv, Owed, SwappedAt
<1>11. ASSUME excuse' = {} PROVE PeerInv(entries, firstKept, base, peer, boot'.pc)
  <2>1. ~SwappedAt(boot.pc) /\ excuse = {}
    BY <1>7, <1>11
  <2>2. PeerInv(entries, firstKept, base, peer, boot.pc)
    BY <2>1 DEF BootInv
  <2> QED BY <1>7, <2>1, <2>2 DEF PeerInv
<1> QED BY <1>1, <1>8, <1>9, <1>10, <1>11 DEF BootInv

\* Every step keeps the invariant.
LEMMA BootStep == BootInv /\ [BootNext]_bootVars => BootInv'
<1> SUFFICES ASSUME BootInv, [BootNext]_bootVars PROVE BootInv'
  OBVIOUS
<1>1. CASE Propose \/ ApplyNext
  BY <1>1, ProposeBoot, ApplyBoot
<1>2. CASE TakeAuto \/ TakeFsmDone \/ TakeDone \/ TakeFails
  BY <1>2, TakeAutoBoot, FsmDoneBoot, DoneBoot, FailsBoot
<1>3. CASE BootCheck \/ BootCopy \/ BootNoop \/ BootSwap \/ BootSwapFails \/ BootFlag
  BY <1>3, RequestBoot, NoopBoot, SwapBoot, SwapFailsBoot, FlagBoot
<1>4. CASE BootSnapshot \/ BootSnapshotRefused
  BY <1>4, BootSnapshotBoot, SwapFailsBoot
<1>5. CASE PeerJoin \/ PeerApply \/ PeerInstall
  BY <1>5, JoinBoot, PeerApplyBoot, InstallBoot
<1>6. CASE CopyBegin \/ DumpRest \/ BackupRest \/ CopyEnd
  BY <1>6, CopyBoot
<1>7. CASE BootCrash
  BY <1>7, CrashBoot
<1>8. CASE UNCHANGED bootVars
  <2>1. UNCHANGED <<entries, firstKept, done, live, inMain, flag, base, take, boot, peer, rd, excuse>>
    BY <1>8 DEF bootVars, logVars, leaderVars
  <2>2. BootTypeOK'
    BY <2>1 DEF BootInv, BootTypeOK
  <2>3. Bookkeeping' /\ ReaderInv'
    BY <2>1 DEF BootInv, Bookkeeping, ReaderInv
  <2> QED BY <2>1, <2>2, <2>3 DEF BootInv
<1> QED BY <1>1, <1>2, <1>3, <1>4, <1>5, <1>6, <1>7, <1>8 DEF BootNext

\* The invariant says what is promised of a boot.
LEMMA BootInvSuffices == BootInv => BootIsAsLoaded
<1> SUFFICES ASSUME BootInv PROVE BootIsAsLoaded
  OBVIOUS
<1>1. ASSUME ~Swapped, excuse \cap {"failed", "raced"} = {} PROVE Recovered = live
  BY <1>1 DEF BootInv, KeptInv, SyncedInv, Owed, Swapped, Recovered, After
<1>2. ASSUME ~Swapped, excuse = {}, peer.in, peer.idx = done PROVE peer.db = live
  <2>1. done \in Nat /\ done # 0 /\ base.idx <= done
    BY DEF BootInv, BootTypeOK
  <2>2. ~SwappedAt(boot.pc) /\ PeerInv(entries, firstKept, base, peer, boot.pc)
    BY <1>2 DEF BootInv, Swapped, SwappedAt
  <2>3. Consistent(entries, base, peer.idx, peer.db)
    BY <1>2, <2>1, <2>2 DEF PeerInv
  <2>4. peer.db = AfterLog(entries, base.db, base.idx, done)
    BY <1>2, <2>1, <2>3 DEF Consistent
  <2>5. Recovered = live
    BY <1>1, <1>2
  <2> QED BY <2>4, <2>5 DEF Recovered, After
<1>3. CopyIsOfOneDatabase
  BY DEF BootInv, ReaderInv, CopyIsOfOneDatabase
<1> QED BY <1>1, <1>2, <1>3 DEF BootIsAsLoaded

\* A boot is kept (handleBoot, ReadFrom): for every number of entries and crashes, unless
\* the request is between its swap and its answer, what the newest snapshot and the log say is
\* the database that is served, file included, and a node that joined and has caught up has it
\* too; no copy mixes the databases before and after the swap.  The excuses are in the property.
THEOREM BootKeepsTheFile == BootSpec => []BootIsAsLoaded
  BY BootInitInv, BootStep, BootInvSuffices, PTL DEF BootSpec

----------------------------------------------------------------------------
(* The requests of the log, run on the database of a node.                 *)

Row == Nat \X Nat \X ({"literal"} \cup Node)
Statement == [kind : Kinds, literal : BOOLEAN, forceQuery : BOOLEAN]
Paths == {"execute", "request", "query", "load"}
Entry == [path : Paths, tx : BOOLEAN, timeout : BOOLEAN, stmts : Seq(Statement)]
DbState == [committed : Seq(Row), view : Seq(Row), open : BOOLEAN]
Results == {"E", "Q", "Error"}
Progress == [d : DbState, tx : BOOLEAN, done : BOOLEAN, results : Seq(Results)]

\* No row of s comes from an entry behind b.
RowsUpTo(s, b) == \A k \in DOMAIN s : s[k][1] <= b

\* Such a database; outside a transaction the connection sees what is committed.
Within(d, b) ==
    /\ d \in DbState
    /\ RowsUpTo(d.committed, b) /\ RowsUpTo(d.view, b)
    /\ ~d.open => d.view = d.committed

\* Each thing that SQLite does with a database leaves it such a database.
LEMMA HoldingWithin ==
    ASSUME NEW rows \in Seq(Row), NEW b, RowsUpTo(rows, b)
    PROVE  Within(Holding(rows), b) /\ Holding(rows).committed = rows /\ ~Holding(rows).open
BY DEF Holding, Within, DbState

\* A row of an entry up to b may be appended.
LEMMA AppendUpTo ==
    ASSUME NEW rows \in Seq(Row), NEW b, RowsUpTo(rows, b), NEW row \in Row, row[1] <= b
    PROVE  Append(rows, row) \in Seq(Row) /\ RowsUpTo(Append(rows, row), b)
<1>1. Append(rows, row) \in Seq(Row)
  OBVIOUS
<1>2. ASSUME NEW k \in DOMAIN Append(rows, row) PROVE Append(rows, row)[k][1] <= b
  <2>1. k \in 1..(Len(rows) + 1) /\ Len(rows) \in Nat
    BY <1>2
  <2>2. CASE k = Len(rows) + 1
    <3>1. Append(rows, row)[k] = row
      BY <2>2
    <3> QED BY <3>1
  <2>3. CASE k # Len(rows) + 1
    <3>1. k \in 1..Len(rows)
      BY <2>1, <2>3
    <3>2. Append(rows, row)[k] = rows[k] /\ k \in DOMAIN rows
      BY <3>1
    <3> QED BY <3>2 DEF RowsUpTo
  <2> QED BY <2>2, <2>3
<1> QED BY <1>1, <1>2 DEF RowsUpTo

\* A write keeps it such, and inside a transaction leaves what is committed alone.
LEMMA WriteWithin ==
    ASSUME NEW d, NEW b, Within(d, b), NEW row \in Row, row[1] <= b
    PROVE  /\ Within(Write(d, row), b)
           /\ d.open => Write(d, row).committed = d.committed /\ Write(d, row).open
<1>1. d.view \in Seq(Row) /\ d.open \in BOOLEAN /\ RowsUpTo(d.view, b)
  BY DEF Within, DbState
<1>2. PICK rows \in Seq(Row) : rows = Append(d.view, row) /\ RowsUpTo(rows, b)
  BY <1>1, AppendUpTo
<1>3. CASE d.open
  <2>1. Write(d, row) = [d EXCEPT !.view = rows]
    BY <1>2, <1>3 DEF Write
  <2> QED BY <1>2, <1>3, <2>1 DEF Within, DbState
<1>4. CASE ~d.open
  <2>1. Write(d, row) = Holding(rows)
    BY <1>2, <1>4 DEF Write
  <2> QED BY <1>2, <1>4, <2>1, HoldingWithin
<1> QED BY <1>1, <1>3, <1>4

\* So do commit, rollback and begin, and only a commit changes what is committed.
LEMMA EndsWithin ==
    ASSUME NEW d, NEW b, Within(d, b)
    PROVE  /\ Within(Commit(d), b) /\ Within(Rollback(d), b)
           /\ Rollback(d).committed = d.committed
           /\ Within([d EXCEPT !.open = TRUE], b)
           /\ [d EXCEPT !.open = TRUE].committed = d.committed
           /\ [d EXCEPT !.open = TRUE].open
<1>1. d.view \in Seq(Row) /\ d.committed \in Seq(Row) /\ RowsUpTo(d.view, b) /\ RowsUpTo(d.committed, b)
  BY DEF Within, DbState
<1>2. Within(Holding(d.view), b) /\ Within(Holding(d.committed), b) /\ Holding(d.committed).committed = d.committed
  BY <1>1, HoldingWithin
<1>3. Within([d EXCEPT !.open = TRUE], b) /\ [d EXCEPT !.open = TRUE].committed = d.committed
      /\ [d EXCEPT !.open = TRUE].open
  BY DEF Within, DbState
<1> QED BY <1>2, <1>3 DEF Commit, Rollback

\* A statement keeps it within b when what it writes is; inside a transaction nothing
\* is committed but by COMMIT; a write that is not refused is a change.
LEMMA SqlWithin ==
    ASSUME NEW d, NEW b, Within(d, b), NEW kind \in Kinds, NEW row \in Row, kind \in Writes => row[1] <= b
    PROVE  /\ Within(Sql(d, kind, row).d, b) /\ Sql(d, kind, row).ok \in BOOLEAN
           /\ kind \in Writes => Sql(d, kind, row).ok
           /\ kind \in {"fails", "syntax"} => ~Sql(d, kind, row).ok
           /\ d.open /\ kind \notin {"commit", "rollback"} =>
                 Sql(d, kind, row).d.committed = d.committed /\ Sql(d, kind, row).d.open
<1>0. d.open \in BOOLEAN
  BY DEF Within, DbState
<1>1. CASE kind \in Writes
  <2>1. Sql(d, kind, row) = [d |-> Write(d, row), ok |-> TRUE]
    BY <1>1 DEF Sql, Writes
  <2>2. /\ Within(Write(d, row), b)
        /\ d.open => Write(d, row).committed = d.committed /\ Write(d, row).open
    BY <1>1, WriteWithin
  <2>3. kind \notin {"fails", "syntax"}
    BY <1>1 DEF Writes
  <2> QED BY <2>1, <2>2, <2>3
<1>2. CASE kind = "select"
  <2>1. Sql(d, kind, row) = [d |-> d, ok |-> TRUE]
    BY <1>2 DEF Sql, Writes
  <2>2. kind \notin {"fails", "syntax"}
    BY <1>2
  <2>3. Sql(d, kind, row).d = d /\ Sql(d, kind, row).ok = TRUE
    BY <2>1
  <2> QED BY <1>0, <2>2, <2>3
<1>3. CASE kind = "begin"
  <2>1. Sql(d, kind, row) = [d |-> [d EXCEPT !.open = TRUE], ok |-> ~d.open] /\ kind \notin Writes
    BY <1>3 DEF Sql, Writes
  <2>2. /\ Within(Commit(d), b) /\ Within(Rollback(d), b)
        /\ Within([d EXCEPT !.open = TRUE], b)
        /\ [d EXCEPT !.open = TRUE].committed = d.committed
        /\ [d EXCEPT !.open = TRUE].open
    BY EndsWithin
  <2>3. kind \notin {"fails", "syntax"}
    BY <1>3
  <2>4. Sql(d, kind, row).d = [d EXCEPT !.open = TRUE] /\ Sql(d, kind, row).ok \in BOOLEAN /\ kind \notin Writes
    BY <1>0, <2>1
  <2> QED BY <1>0, <2>2, <2>3, <2>4
<1>4. CASE kind = "commit"
  <2>1. Sql(d, kind, row) = [d |-> Commit(d), ok |-> d.open] /\ kind \notin Writes /\ d.open \in BOOLEAN
    BY <1>4 DEF Sql, Writes, Within, DbState
  <2>2. /\ Within(Commit(d), b) /\ Within(Rollback(d), b)
        /\ Within([d EXCEPT !.open = TRUE], b)
        /\ [d EXCEPT !.open = TRUE].committed = d.committed
        /\ [d EXCEPT !.open = TRUE].open
    BY EndsWithin
  <2> QED BY <1>0, <1>4, <2>1, <2>2
<1>5. CASE kind = "rollback"
  <2>1. Sql(d, kind, row) = [d |-> Rollback(d), ok |-> d.open] /\ kind \notin Writes /\ d.open \in BOOLEAN
    BY <1>5 DEF Sql, Writes, Within, DbState
  <2>2. /\ Within(Commit(d), b) /\ Within(Rollback(d), b)
        /\ Within([d EXCEPT !.open = TRUE], b)
        /\ [d EXCEPT !.open = TRUE].committed = d.committed
        /\ [d EXCEPT !.open = TRUE].open
    BY EndsWithin
  <2> QED BY <1>0, <1>5, <2>1, <2>2
<1>6. CASE kind \notin Writes /\ kind \notin {"select", "begin", "commit", "rollback"}
  <2>1. Sql(d, kind, row) = [d |-> d, ok |-> FALSE]
    BY <1>6 DEF Sql
  <2> QED BY <1>6, <2>1
<1> QED BY <1>1, <1>2, <1>3, <1>4, <1>5, <1>6

\* What a statement s of a request leaves, as r says it.
StmtDone(d, b, s, r) ==
    /\ Within(r.d, b) /\ r.res \in Results /\ r.err \in BOOLEAN
    /\ d.open /\ s.kind \notin {"commit", "rollback"} => r.d.committed = d.committed /\ r.d.open

\* An executed statement does that, and says so when it fails.
LEMMA executeDone ==
    ASSUME NEW d, NEW b, Within(d, b), NEW s \in Statement, NEW row \in Row, s.kind \in Writes => row[1] <= b, NEW late
    PROVE  /\ StmtDone(d, b, s, executeStmtWithConn(d, s, row, late))
           /\ s.kind \in {"fails", "syntax"} /\ ~s.forceQuery => executeStmtWithConn(d, s, row, late).err
<1>1. s.kind \in Kinds /\ s.forceQuery \in BOOLEAN
  BY DEF Statement
<1>2. PICK q : /\ q = IF late \/ ~parametersToValues(s) THEN [d |-> d, ok |-> FALSE] ELSE Sql(d, s.kind, row)
  OBVIOUS
<1>3. PICK kind \in Kinds : kind = s.kind
  BY <1>1
<1>4. /\ Within(Sql(d, kind, row).d, b) /\ Sql(d, kind, row).ok \in BOOLEAN
      /\ kind \in {"fails", "syntax"} => ~Sql(d, kind, row).ok
      /\ d.open /\ kind \notin {"commit", "rollback"} =>
                 Sql(d, kind, row).d.committed = d.committed /\ Sql(d, kind, row).d.open
  BY <1>3, SqlWithin
<1>5. /\ Within(q.d, b) /\ q.ok \in BOOLEAN
      /\ kind \in {"fails", "syntax"} => ~q.ok
      /\ d.open /\ kind \notin {"commit", "rollback"} => q.d.committed = d.committed /\ q.d.open
  BY <1>2, <1>3, <1>4
<1>6. executeStmtWithConn(d, s, row, late) =
        [d |-> q.d, res |-> IF ~q.ok THEN "Error" ELSE IF s.forceQuery THEN "Q" ELSE "E",
         err |-> ~q.ok /\ parametersToValues(s) /\ ~s.forceQuery]
  BY <1>2 DEF executeStmtWithConn
<1>7. d.open \in BOOLEAN
  BY DEF Within, DbState
<1>8. PICK r : r = executeStmtWithConn(d, s, row, late)
  OBVIOUS
<1>9. r.d = q.d /\ r.res \in Results /\ r.err \in BOOLEAN
  BY <1>6, <1>8 DEF Results
<1>10. kind \in {"fails", "syntax"} /\ ~s.forceQuery => r.err
  <2>1. r.err = (~q.ok /\ parametersToValues(s) /\ ~s.forceQuery)
    BY <1>6, <1>8
  <2>2. ASSUME kind \in {"fails", "syntax"}, ~s.forceQuery PROVE r.err
    <3>1. q.ok = FALSE /\ s.kind # "badParam"
      BY <1>3, <1>5, <2>2
    <3> QED BY <2>1, <2>2, <3>1 DEF parametersToValues
  <2> QED BY <2>2
<1> QED BY <1>3, <1>5, <1>7, <1>8, <1>9, <1>10 DEF StmtDone

\* So does a statement that is queried.
LEMMA queryDone ==
    ASSUME NEW d, NEW b, Within(d, b), NEW s \in Statement, NEW row \in Row, s.kind \notin Writes, NEW late
    PROVE  StmtDone(d, b, s, queryStmtWithConn(d, s, row, late))
<1>2. PICK q : /\ q = IF late THEN [d |-> d, ok |-> FALSE] ELSE Sql(d, s.kind, row)
  OBVIOUS
<1>3. PICK kind \in Kinds : kind = s.kind
  BY DEF Statement
<1>4. /\ Within(Sql(d, kind, row).d, b) /\ Sql(d, kind, row).ok \in BOOLEAN
      /\ d.open /\ kind \notin {"commit", "rollback"} =>
                 Sql(d, kind, row).d.committed = d.committed /\ Sql(d, kind, row).d.open
  BY <1>3, SqlWithin
<1>5. /\ Within(q.d, b) /\ q.ok \in BOOLEAN
      /\ d.open /\ kind \notin {"commit", "rollback"} => q.d.committed = d.committed /\ q.d.open
  BY <1>2, <1>3, <1>4
<1>6. queryStmtWithConn(d, s, row, late) = [d |-> q.d, res |-> "Q", err |-> ~q.ok]
  BY <1>2 DEF queryStmtWithConn
<1> QED BY <1>3, <1>5, <1>6 DEF StmtDone, Results

\* A write that is not a query in disguise is told, or does nothing.
LEMMA executeTold ==
    ASSUME NEW d, NEW b, Within(d, b), NEW s \in Statement, NEW row \in Row, s.kind \in Writes,
           ~s.forceQuery, NEW late
    PROVE  \/ executeStmtWithConn(d, s, row, late).res = "E"
           \/ StmtDone(d, b, s, executeStmtWithConn(d, s, row, late))
<1>1. s.kind # "badParam" /\ s.kind \in Kinds
  BY DEF Writes, Statement
<1>2. CASE late
  <2>1. executeStmtWithConn(d, s, row, late) =
          [d |-> d, res |-> "Error", err |-> parametersToValues(s) /\ ~s.forceQuery]
    BY <1>2 DEF executeStmtWithConn
  <2> QED BY <2>1 DEF StmtDone, Results
<1>3. CASE ~late
  <2>1. Sql(d, s.kind, row) = [d |-> Write(d, row), ok |-> TRUE]
    BY DEF Sql, Writes
  <2> QED BY <1>1, <1>3, <2>1 DEF executeStmtWithConn, parametersToValues
<1> QED BY <1>2, <1>3

\* A list of results that shows a change shows it when it grows.
LEMMA MutationAppend ==
    ASSUME NEW rs \in Seq(Results), NEW r \in Results
    PROVE  /\ Append(rs, r) \in Seq(Results)
           /\ Mutation(rs) => Mutation(Append(rs, r))
           /\ r = "E" => Mutation(Append(rs, r))
<1>1. Append(rs, r) \in Seq(Results) /\ Len(Append(rs, r)) = Len(rs) + 1 /\ Len(rs) \in Nat
      /\ Append(rs, r)[Len(rs) + 1] = r /\ \A k \in 1..Len(rs) : Append(rs, r)[k] = rs[k]
  OBVIOUS
<1>2. DOMAIN rs = 1..Len(rs) /\ DOMAIN Append(rs, r) = 1..(Len(rs) + 1)
  BY <1>1
<1> QED BY <1>1, <1>2 DEF Mutation

\* How a request goes on after a statement: an error ends its transaction.
LEMMA AfterStmtIs ==
    ASSUME NEW c \in Progress, NEW b, NEW s, NEW r, StmtDone(c.d, b, s, r)
    PROVE  /\ AfterStmt(c, r) \in Progress /\ Within(AfterStmt(c, r).d, b)
           /\ Mutation(c.results) \/ r.res = "E" => Mutation(AfterStmt(c, r).results)
           /\ c.tx /\ c.d.open /\ s.kind \notin {"commit", "rollback"} =>
                 /\ AfterStmt(c, r).d.committed = c.d.committed
                 /\ AfterStmt(c, r).done => ~AfterStmt(c, r).tx
                 /\ ~AfterStmt(c, r).done => AfterStmt(c, r).tx /\ AfterStmt(c, r).d.open /\ ~r.err
<1>1. /\ c.tx \in BOOLEAN /\ c.results \in Seq(Results) /\ r.err \in BOOLEAN /\ r.res \in Results
      /\ Within(r.d, b) /\ c.d.open \in BOOLEAN
  BY DEF Progress, DbState, StmtDone
<1>2. PICK x : x = AfterStmt(c, r)
  OBVIOUS
<1>3. x = [d |-> IF c.tx /\ r.err THEN Rollback(r.d) ELSE r.d, tx |-> c.tx /\ ~(c.tx /\ r.err),
           done |-> c.tx /\ r.err, results |-> Append(c.results, r.res)]
  BY <1>2 DEF AfterStmt
<1>4. Append(c.results, r.res) \in Seq(Results)
      /\ (Mutation(c.results) \/ r.res = "E" => Mutation(Append(c.results, r.res)))
  BY <1>1, MutationAppend
<1>5. Within(Rollback(r.d), b) /\ Rollback(r.d).committed = r.d.committed
  BY <1>1, EndsWithin
<1>6. /\ x.d = Rollback(r.d) \/ x.d = r.d
      /\ x.tx = (c.tx /\ ~r.err) /\ x.done = (c.tx /\ r.err) /\ x.results = Append(c.results, r.res)
      /\ ~(c.tx /\ r.err) => x.d = r.d
  BY <1>1, <1>3
<1>7. Within(x.d, b) /\ x.d.committed = r.d.committed
  BY <1>1, <1>5, <1>6
<1>8. x \in Progress
  <2>1. x.d \in DbState
    BY <1>7 DEF Within
  <2>2. x = [d |-> x.d, tx |-> x.tx, done |-> x.done, results |-> x.results]
    BY <1>3
  <2> QED BY <1>1, <1>4, <1>6, <2>1, <2>2 DEF Progress
<1>9. ASSUME c.tx, c.d.open, s.kind \notin {"commit", "rollback"}
      PROVE  /\ x.d.committed = c.d.committed
             /\ x.done => ~x.tx
             /\ ~x.done => x.tx /\ x.d.open /\ ~r.err
  <2>1. r.d.committed = c.d.committed /\ r.d.open
    BY <1>9 DEF StmtDone
  <2> QED BY <1>1, <1>6, <1>7, <1>9, <2>1
<1> QED BY <1>2, <1>4, <1>6, <1>7, <1>8, <1>9

\* What a statement s of an entry e makes of the request c that is being run.
StmtRun(c, b, e, s, x) ==
    /\ x \in Progress /\ Within(x.d, b)
    /\ Mutation(c.results) => Mutation(x.results)
    /\ c.done => x = c
    /\ ~c.done /\ c.tx /\ c.d.open /\ s.kind \notin {"commit", "rollback"} =>
          /\ x.d.committed = c.d.committed
          /\ x.done => ~x.tx
          /\ ~x.done => x.tx /\ x.d.open /\ ~(Fatal(e, s) /\ ~s.forceQuery)

\* A statement does that.
LEMMA RunStmtIs ==
    ASSUME NEW c \in Progress, NEW b, Within(c.d, b), NEW e, NEW s \in Statement, NEW row \in Row,
           s.kind \in Writes => row[1] <= b, NEW late
    PROVE  StmtRun(c, b, e, s, RunStmt(c, e, s, row, late))
<1>1. /\ c.done \in BOOLEAN /\ c.tx \in BOOLEAN /\ c.d.open \in BOOLEAN /\ c.results \in Seq(Results)
      /\ s.forceQuery \in BOOLEAN
  BY DEF Progress, DbState, Statement
<1>2. PICK x : x = RunStmt(c, e, s, row, late)
  OBVIOUS
<1> SUFFICES /\ x \in Progress /\ Within(x.d, b)
             /\ Mutation(c.results) => Mutation(x.results)
             /\ c.done => x = c
             /\ ~c.done /\ c.tx /\ c.d.open /\ s.kind \notin {"commit", "rollback"} =>
                   /\ x.d.committed = c.d.committed
                   /\ x.done => ~x.tx
                   /\ ~x.done => x.tx /\ x.d.open /\ ~(Fatal(e, s) /\ ~s.forceQuery)
  BY <1>2 DEF StmtRun
<1>3. CASE c.done \/ s.kind = "empty"
  <2>1. x = c
    BY <1>2, <1>3 DEF RunStmt
  <2>2. s.kind = "empty" => ~Fatal(e, s)
    BY DEF Fatal
  <2> QED BY <1>1, <1>3, <2>1, <2>2
<1>4. CASE ~(c.done \/ s.kind = "empty") /\ e.path = "request" /\ s.kind = "syntax"
  <2>1. x = [c EXCEPT !.results = Append(@, "Error")]
    BY <1>2, <1>4 DEF RunStmt
  <2>2. Append(c.results, "Error") \in Seq(Results) /\ (Mutation(c.results) => Mutation(Append(c.results, "Error")))
    <3>1. "Error" \in Results
      BY DEF Results
    <3> QED BY <1>1, <3>1, MutationAppend
  <2>3. x \in Progress /\ x.d = c.d /\ x.results = Append(c.results, "Error") /\ x.done = c.done /\ x.tx = c.tx
    BY <2>1, <2>2 DEF Progress
  <2>4. ~Fatal(e, s)
    BY <1>4 DEF Fatal
  <2> QED BY <1>1, <1>4, <2>2, <2>3, <2>4
<1>5. CASE ~(c.done \/ s.kind = "empty") /\ e.path = "request" /\ StmtReadOnly(s.kind)
  <2>1. s.kind \notin {"fails", "syntax"} /\ s.kind \notin Writes
    BY <1>5 DEF StmtReadOnly, Writes
  <2>2. PICK r : r = queryStmtWithConn(c.d, s, row, late)
    OBVIOUS
  <2>3. StmtDone(c.d, b, s, r)
    BY <2>1, <2>2, queryDone
  <2>4. x = AfterStmt(c, r)
    BY <1>2, <1>5, <2>1, <2>2 DEF RunStmt
  <2>5. ~Fatal(e, s)
    BY <2>1 DEF Fatal
  <2> QED BY <1>1, <1>5, <2>3, <2>4, <2>5, AfterStmtIs
<1>6. CASE /\ ~(c.done \/ s.kind = "empty") /\ ~(e.path = "request" /\ s.kind = "syntax")
           /\ ~(e.path = "request" /\ StmtReadOnly(s.kind))
  <2>2. PICK r : r = executeStmtWithConn(c.d, s, row, late)
    OBVIOUS
  <2>3. StmtDone(c.d, b, s, r)
    BY <2>2, executeDone
  <2>4. x = AfterStmt(c, r)
    BY <1>2, <1>6, <2>2 DEF RunStmt
  <2>5. Fatal(e, s) /\ ~s.forceQuery => r.err
    <3>1. s.kind \in {"fails", "syntax"} /\ ~s.forceQuery => r.err
      BY <2>2, executeDone
    <3> QED BY <3>1 DEF Fatal
  <2> QED BY <1>1, <1>6, <2>3, <2>4, <2>5, AfterStmtIs
<1> QED BY <1>1, <1>3, <1>4, <1>5, <1>6

\* In a unified request a statement that is not a query in disguise is told, or leaves
\* no row that was not there.
LEMMA RunStmtTold ==
    ASSUME NEW c \in Progress, NEW b, Within(c.d, b), NEW e, NEW s \in Statement, NEW row \in Row,
           s.kind \in Writes => ~s.forceQuery, NEW late
    PROVE  Mutation(RunStmt(c, e, s, row, late).results) \/ Within(RunStmt(c, e, s, row, late).d, b)
<1>1. CASE s.kind \notin Writes
  BY <1>1, RunStmtIs DEF StmtRun
<1>2. CASE s.kind \in Writes /\ ~c.done
  <2>1. s.kind # "empty" /\ s.kind # "syntax" /\ ~StmtReadOnly(s.kind)
    BY <1>2 DEF Writes, StmtReadOnly
  <2>2. PICK r : r = executeStmtWithConn(c.d, s, row, late)
    OBVIOUS
  <2>3. RunStmt(c, e, s, row, late) = AfterStmt(c, r)
    BY <1>2, <2>1, <2>2 DEF RunStmt
  <2>4. CASE StmtDone(c.d, b, s, r)
    BY <2>3, <2>4, AfterStmtIs
  <2>5. CASE r.res = "E"
    <3>1. c.results \in Seq(Results) /\ "E" \in Results
      BY DEF Progress, Results
    <3>2. AfterStmt(c, r).results = Append(c.results, "E")
      BY <2>5 DEF AfterStmt
    <3> QED BY <2>3, <3>1, <3>2, MutationAppend
  <2> QED BY <1>2, <2>2, <2>4, <2>5, executeTold
<1>3. CASE c.done
  BY <1>3 DEF RunStmt
<1> QED BY <1>1, <1>2, <1>3

\* The statements up to the m-th, run in order.
RanTo(f, m, d, e, rows, expiry) ==
    [j \in 0..m |-> IF j = 0 THEN Begun(d, e)
                    ELSE RunStmt(f[j - 1], e, e.stmts[j], rows[j], j > expiry)]
IsRan(f, m, d, e, rows, expiry) == f = RanTo(f, m, d, e, rows, expiry)

\* There is such a run for every number of statements.
LEMMA RanToExists ==
    ASSUME NEW d, NEW e, NEW rows, NEW expiry, NEW m \in Nat
    PROVE  \E f : IsRan(f, m, d, e, rows, expiry)
<1> DEFINE T == {k \in Nat : ~\E f : IsRan(f, k, d, e, rows, expiry)}
<1>1. SUFFICES ASSUME T # {} PROVE FALSE
  OBVIOUS
<1>2. PICK k \in T : \A y \in T : k <= y
  BY <1>1, LeastNatural
<1>3. k \in Nat /\ ~\E f : IsRan(f, k, d, e, rows, expiry)
  OBVIOUS
<1>4. CASE k = 0
  <2>1. PICK f : f = [j \in 0..0 |-> Begun(d, e)]
    OBVIOUS
  <2>2. IsRan(f, 0, d, e, rows, expiry)
    BY <2>1 DEF RanTo, IsRan
  <2> QED BY <1>3, <1>4, <2>2
<1>5. CASE k # 0
  <2>1. k - 1 \in Nat /\ ~(k <= k - 1)
    BY <1>3, <1>5
  <2>2. PICK f : IsRan(f, k - 1, d, e, rows, expiry)
    BY <1>2, <2>1
  <2>3. PICK g : g = [j \in 0..k |-> IF j = k THEN RunStmt(f[k - 1], e, e.stmts[k], rows[k], k > expiry)
                                     ELSE f[j]]
    OBVIOUS
  <2>4. ASSUME NEW j \in 0..k
        PROVE  g[j] = IF j = 0 THEN Begun(d, e) ELSE RunStmt(g[j - 1], e, e.stmts[j], rows[j], j > expiry)
    <3>1. CASE j = k
      <4>1. k - 1 \in 0..k /\ k - 1 # k
        BY <1>3, <1>5
      <4>2. g[k - 1] = f[k - 1] /\ g[k] = RunStmt(f[k - 1], e, e.stmts[k], rows[k], k > expiry)
        BY <1>3, <2>3, <4>1
      <4> QED BY <1>5, <3>1, <4>2
    <3>2. CASE j # k
      <4>1. j \in 0..(k - 1) /\ (j # 0 => j - 1 \in 0..k /\ j - 1 # k)
        BY <1>3, <2>4, <3>2
      <4>2. g[j] = f[j] /\ (j # 0 => g[j - 1] = f[j - 1])
        BY <2>3, <3>2, <4>1
      <4>3. f[j] = IF j = 0 THEN Begun(d, e) ELSE RunStmt(f[j - 1], e, e.stmts[j], rows[j], j > expiry)
        BY <2>2, <4>1 DEF RanTo, IsRan
      <4> QED BY <4>2, <4>3
    <3> QED BY <3>1, <3>2
  <2>5. g = [j \in 0..k |-> g[j]]
    BY <2>3
  <2>6. IsRan(g, k, d, e, rows, expiry)
    BY <2>4, <2>5 DEF RanTo, IsRan
  <2> QED BY <1>3, <2>6
<1> QED BY <1>4, <1>5

\* So Ran runs one statement after the other.
LEMMA RanIs ==
    ASSUME NEW d, NEW e, NEW rows, NEW expiry, Len(e.stmts) \in Nat
    PROVE  /\ Ran(d, e, rows, expiry)[0] = Begun(d, e)
           /\ \A j \in 1..Len(e.stmts) : Ran(d, e, rows, expiry)[j] =
                 RunStmt(Ran(d, e, rows, expiry)[j - 1], e, e.stmts[j], rows[j], j > expiry)
<1>1. PICK m \in Nat : m = Len(e.stmts)
  OBVIOUS
<1>2. PICK f : IsRan(f, m, d, e, rows, expiry)
  BY RanToExists
<1>3. PICK g : g = Ran(d, e, rows, expiry)
  OBVIOUS
<1>4. g = RanTo(g, m, d, e, rows, expiry)
  BY <1>1, <1>2, <1>3 DEF Ran, RanTo, IsRan
<1>5. /\ g[0] = Begun(d, e)
      /\ \A j \in 1..m : g[j] = RunStmt(g[j - 1], e, e.stmts[j], rows[j], j > expiry)
  BY <1>4 DEF RanTo
<1> QED BY <1>1, <1>3, <1>5

\* An entry e and the rows it may write on a node, with the log index i.
Running(e, rows, i) ==
    /\ e \in Entry /\ i \in Nat
    /\ rows \in [1..Len(e.stmts) -> Row]
    /\ \A j \in 1..Len(e.stmts) : rows[j][1] = i

\* What an entry of the log is made of.
LEMMA EntryStmts ==
    ASSUME NEW e \in Entry
    PROVE  /\ Len(e.stmts) \in Nat /\ DOMAIN e.stmts = 1..Len(e.stmts)
           /\ \A j \in 1..Len(e.stmts) : e.stmts[j] \in Statement
           /\ e.tx \in BOOLEAN /\ e.timeout \in BOOLEAN /\ e.path \in Paths
<1>1. PICK ss \in Seq(Statement) : ss = e.stmts
  BY DEF Entry
<1>2. Len(ss) \in Nat /\ DOMAIN ss = 1..Len(ss) /\ \A j \in 1..Len(ss) : ss[j] \in Statement
  OBVIOUS
<1> QED BY <1>1, <1>2 DEF Entry

\* A request begins with a transaction when it asks for one, and nothing is committed yet.
LEMMA BegunIs ==
    ASSUME NEW d, NEW b, Within(d, b), NEW e \in Entry
    PROVE  /\ Begun(d, e) \in Progress /\ Within(Begun(d, e).d, b)
           /\ Begun(d, e).done = FALSE /\ Begun(d, e).tx = e.tx /\ Begun(d, e).d.committed = d.committed
           /\ e.tx => Begun(d, e).d.open
<1>1. e.tx \in BOOLEAN /\ d \in DbState /\ d.open \in BOOLEAN
  BY EntryStmts DEF Within, DbState
<1>2. PICK y : y = [d EXCEPT !.open = @ \/ e.tx]
  OBVIOUS
<1>3. /\ y \in DbState /\ y.committed = d.committed /\ y.view = d.view
      /\ y.open = (d.open \/ e.tx)
  BY <1>1, <1>2 DEF DbState
<1>4. Within(y, b)
  BY <1>1, <1>3 DEF Within
<1>5. Begun(d, e) = [d |-> y, tx |-> e.tx, done |-> FALSE, results |-> <<>>]
  BY <1>2 DEF Begun
<1>6. << >> \in Seq(Results)
  OBVIOUS
<1>7. Begun(d, e) \in Progress
  BY <1>1, <1>3, <1>5, <1>6 DEF Progress
<1>8. Begun(d, e).d = y /\ Begun(d, e).tx = e.tx /\ Begun(d, e).done = FALSE
  BY <1>5
<1> QED BY <1>1, <1>3, <1>4, <1>7, <1>8

\* Whatever an entry does, the database stays one of rows up to its index.
LEMMA RanWithin ==
    ASSUME NEW d, NEW i, Within(d, i), NEW e, NEW rows, Running(e, rows, i), NEW expiry \in Nat
    PROVE  \A k \in 0..Len(e.stmts) : Ran(d, e, rows, expiry)[k] \in Progress
                                      /\ Within(Ran(d, e, rows, expiry)[k].d, i)
<1>1. e \in Entry /\ i \in Nat /\ rows \in [1..Len(e.stmts) -> Row] /\ Len(e.stmts) \in Nat
  BY EntryStmts DEF Running
<1>2. PICK f : f = Ran(d, e, rows, expiry)
  OBVIOUS
<1>3. /\ f[0] = Begun(d, e)
      /\ \A j \in 1..Len(e.stmts) : f[j] = RunStmt(f[j - 1], e, e.stmts[j], rows[j], j > expiry)
  BY <1>1, <1>2, RanIs
<1> DEFINE T == {k \in 0..Len(e.stmts) : ~(f[k] \in Progress /\ Within(f[k].d, i))}
<1>4. SUFFICES ASSUME T # {} PROVE FALSE
  BY <1>2
<1>5. T \subseteq Nat
  BY <1>1
<1>6. PICK k \in T : \A y \in T : k <= y
  BY <1>4, <1>5, LeastNatural
<1>7. k \in 0..Len(e.stmts) /\ k \in Nat /\ ~(f[k] \in Progress /\ Within(f[k].d, i))
  BY <1>1
<1>8. CASE k = 0
  <2>1. Begun(d, e) \in Progress /\ Within(Begun(d, e).d, i)
    BY <1>1, BegunIs
  <2> QED BY <1>3, <1>7, <1>8, <2>1
<1>9. CASE k # 0
  <2>1. k - 1 \in 0..Len(e.stmts) /\ ~(k <= k - 1) /\ k \in 1..Len(e.stmts)
    BY <1>1, <1>7, <1>9
  <2>2. f[k - 1] \in Progress /\ Within(f[k - 1].d, i)
    BY <1>6, <2>1
  <2>3. PICK c \in Progress : c = f[k - 1] /\ Within(c.d, i)
    BY <2>2
  <2>4. PICK s \in Statement : s = e.stmts[k]
    BY <1>1, <2>1, EntryStmts
  <2>5. PICK row \in Row : row = rows[k] /\ row[1] <= i
    BY <1>1, <2>1 DEF Running
  <2>6. PICK late : late = (k > expiry)
    OBVIOUS
  <2>7. StmtRun(c, i, e, s, RunStmt(c, e, s, row, late))
    BY <2>3, <2>5, RunStmtIs
  <2>8. f[k] = RunStmt(c, e, s, row, late)
    BY <1>3, <2>1, <2>3, <2>4, <2>5, <2>6
  <2> QED BY <1>7, <2>7, <2>8 DEF StmtRun
<1> QED BY <1>8, <1>9

\* A transaction with a statement that SQLite raises an error on, and no COMMIT or
\* ROLLBACK before it, is over when that statement has been run.
LEMMA RanFails ==
    ASSUME NEW d, NEW i, Within(d, i), NEW e, NEW rows, Running(e, rows, i), NEW expiry \in Nat,
           e.tx, NEW j \in 1..Len(e.stmts), Fatal(e, e.stmts[j]), ~e.stmts[j].forceQuery,
           \A k \in 1..(j - 1) : e.stmts[k].kind \notin {"commit", "rollback"}
    PROVE  \A k \in 0..Len(e.stmts) :
              /\ Ran(d, e, rows, expiry)[k].d.committed = d.committed
              /\ Ran(d, e, rows, expiry)[k].done => ~Ran(d, e, rows, expiry)[k].tx
              /\ ~Ran(d, e, rows, expiry)[k].done =>
                    k < j /\ Ran(d, e, rows, expiry)[k].tx /\ Ran(d, e, rows, expiry)[k].d.open
<1>1. e \in Entry /\ i \in Nat /\ rows \in [1..Len(e.stmts) -> Row] /\ Len(e.stmts) \in Nat
  BY EntryStmts DEF Running
<1>2. PICK f : f = Ran(d, e, rows, expiry)
  OBVIOUS
<1>3. /\ f[0] = Begun(d, e)
      /\ \A k \in 1..Len(e.stmts) : f[k] = RunStmt(f[k - 1], e, e.stmts[k], rows[k], k > expiry)
  BY <1>1, <1>2, RanIs
<1> DEFINE Q(k) == /\ f[k].d.committed = d.committed
                   /\ f[k].done => ~f[k].tx
                   /\ ~f[k].done => k < j /\ f[k].tx /\ f[k].d.open
           T == {k \in 0..Len(e.stmts) : ~Q(k)}
<1>4. SUFFICES ASSUME T # {} PROVE FALSE
  BY <1>2
<1>5. T \subseteq Nat
  BY <1>1
<1> HIDE DEF Q
<1>6. PICK k \in T : \A y \in T : k <= y
  BY <1>4, <1>5, LeastNatural
<1>7. k \in 0..Len(e.stmts) /\ k \in Nat /\ ~Q(k)
  BY <1>1
<1>8. CASE k = 0
  <2>1. /\ Begun(d, e).done = FALSE /\ Begun(d, e).tx = e.tx /\ Begun(d, e).d.committed = d.committed
        /\ e.tx => Begun(d, e).d.open
    BY <1>1, BegunIs
  <2>2. 0 < j
    OBVIOUS
  <2>3. Q(0)
    BY <1>3, <2>1, <2>2 DEF Q
  <2> QED BY <1>7, <1>8, <2>3
<1>9. CASE k # 0
  <2>1. k - 1 \in 0..Len(e.stmts) /\ ~(k <= k - 1) /\ k \in 1..Len(e.stmts)
    BY <1>1, <1>7, <1>9
  <2>2. Q(k - 1)
    BY <1>6, <2>1
  <2>3. PICK c \in Progress : c = f[k - 1] /\ Within(c.d, i)
    BY <1>2, <2>1, RanWithin
  <2>4. PICK s \in Statement : s = e.stmts[k]
    BY <1>1, <2>1, EntryStmts
  <2>5. PICK row \in Row : row = rows[k] /\ row[1] <= i
    BY <1>1, <2>1 DEF Running
  <2>6. PICK late : late = (k > expiry)
    OBVIOUS
  <2>7. PICK x : x = RunStmt(c, e, s, row, late)
    OBVIOUS
  <2>8. f[k] = x
    BY <1>3, <2>1, <2>3, <2>4, <2>5, <2>6, <2>7
  <2>9. CASE c.done
    <3>1. x = c
      BY <2>7, <2>9 DEF RunStmt
    <3> QED BY <1>7, <2>2, <2>3, <2>8, <2>9, <3>1 DEF Q
  <2>10. CASE ~c.done
    <3>1. c.tx /\ c.d.open /\ k - 1 < j /\ c.d.committed = d.committed
      BY <2>2, <2>3, <2>10 DEF Q
    <3>2. k <= j
      BY <1>7, <3>1
    <3>3. s.kind \notin {"commit", "rollback"} /\ (k = j => Fatal(e, s) /\ ~s.forceQuery)
      <4>1. CASE k = j
        BY <2>4, <4>1 DEF Fatal
      <4>2. CASE k # j
        <5>1. k \in 1..(j - 1)
          BY <2>1, <3>2, <4>2
        <5> QED BY <2>4, <4>2, <5>1
      <4> QED BY <4>1, <4>2
    <3>4. /\ x.d.committed = c.d.committed
          /\ x.done => ~x.tx
          /\ ~x.done => x.tx /\ x.d.open /\ ~(Fatal(e, s) /\ ~s.forceQuery)
      <4>1. StmtRun(c, i, e, s, x)
        BY <2>3, <2>5, <2>7, RunStmtIs
      <4> QED BY <2>10, <3>1, <3>3, <4>1 DEF StmtRun
    <3>5. ~x.done => k < j
      BY <1>7, <3>2, <3>3, <3>4
    <3> QED BY <1>7, <2>8, <3>1, <3>4, <3>5 DEF Q
  <2> QED BY <2>9, <2>10
<1> QED BY <1>8, <1>9

\* A request without a write in disguise is told to the store as a change, or leaves no
\* row that was not there.
LEMMA RanTold ==
    ASSUME NEW d, NEW i, Within(d, i), NEW b, Within(d, b), NEW e, NEW rows, Running(e, rows, i),
           NEW expiry \in Nat,
           \A j \in 1..Len(e.stmts) : e.stmts[j].kind \in Writes => ~e.stmts[j].forceQuery
    PROVE  \A k \in 0..Len(e.stmts) : Mutation(Ran(d, e, rows, expiry)[k].results)
                                      \/ Within(Ran(d, e, rows, expiry)[k].d, b)
<1>1. e \in Entry /\ i \in Nat /\ rows \in [1..Len(e.stmts) -> Row] /\ Len(e.stmts) \in Nat
  BY EntryStmts DEF Running
<1>2. PICK f : f = Ran(d, e, rows, expiry)
  OBVIOUS
<1>3. /\ f[0] = Begun(d, e)
      /\ \A j \in 1..Len(e.stmts) : f[j] = RunStmt(f[j - 1], e, e.stmts[j], rows[j], j > expiry)
  BY <1>1, <1>2, RanIs
<1> DEFINE T == {k \in 0..Len(e.stmts) : ~(Mutation(f[k].results) \/ Within(f[k].d, b))}
<1>4. SUFFICES ASSUME T # {} PROVE FALSE
  BY <1>2
<1>5. T \subseteq Nat
  BY <1>1
<1>6. PICK k \in T : \A y \in T : k <= y
  BY <1>4, <1>5, LeastNatural
<1>7. k \in 0..Len(e.stmts) /\ k \in Nat /\ ~(Mutation(f[k].results) \/ Within(f[k].d, b))
  BY <1>1
<1>8. CASE k = 0
  <2>1. Within(Begun(d, e).d, b)
    BY <1>1, BegunIs
  <2> QED BY <1>3, <1>7, <1>8, <2>1
<1>9. CASE k # 0
  <2>1. k - 1 \in 0..Len(e.stmts) /\ ~(k <= k - 1) /\ k \in 1..Len(e.stmts)
    BY <1>1, <1>7, <1>9
  <2>2. Mutation(f[k - 1].results) \/ Within(f[k - 1].d, b)
    BY <1>6, <2>1
  <2>3. PICK c \in Progress : c = f[k - 1] /\ Within(c.d, i)
    BY <1>2, <2>1, RanWithin
  <2>4. PICK s \in Statement : s = e.stmts[k] /\ (s.kind \in Writes => ~s.forceQuery)
    BY <1>1, <2>1, EntryStmts
  <2>5. PICK row \in Row : row = rows[k] /\ row[1] <= i
    BY <1>1, <2>1 DEF Running
  <2>6. PICK late : late = (k > expiry)
    OBVIOUS
  <2>7. PICK x : x = RunStmt(c, e, s, row, late)
    OBVIOUS
  <2>8. f[k] = x
    BY <1>3, <2>1, <2>3, <2>4, <2>5, <2>6, <2>7
  <2>9. CASE Mutation(c.results)
    <3>1. StmtRun(c, i, e, s, x)
      BY <2>3, <2>5, <2>7, RunStmtIs
    <3> QED BY <1>7, <2>8, <2>9, <3>1 DEF StmtRun
  <2>10. CASE Within(c.d, b)
    <3>1. Mutation(x.results) \/ Within(x.d, b)
      BY <2>4, <2>7, <2>10, RunStmtTold
    <3> QED BY <1>7, <2>8, <3>1
  <2> QED BY <2>2, <2>3, <2>9, <2>10
<1> QED BY <1>8, <1>9

\* The same of a whole request: it is begun, run and ended.
LEMMA RunRequestIs ==
    ASSUME NEW d, NEW i, Within(d, i), NEW e, NEW rows, Running(e, rows, i), NEW expiry \in Nat
    PROVE  Within(RunRequest(d, e, rows, expiry).d, i)
<1>1. PICK ran : ran = Ran(d, e, rows, expiry)[Len(e.stmts)]
  OBVIOUS
<1>2. Len(e.stmts) \in 0..Len(e.stmts)
  BY EntryStmts DEF Running
<1>3. Within(ran.d, i)
  BY <1>1, <1>2, RanWithin
<1>4. Within(Rollback(ran.d), i) /\ Within(Commit(ran.d), i)
  BY <1>3, EndsWithin
<1>5. RunRequest(d, e, rows, expiry).d \in {d, ran.d, Rollback(ran.d), Commit(ran.d)}
  BY <1>1 DEF RunRequest
<1> QED BY <1>3, <1>4, <1>5

\* A transaction with a statement that fails leaves what was committed as it was.
LEMMA RunRequestFails ==
    ASSUME NEW d, NEW i, Within(d, i), NEW e, NEW rows, Running(e, rows, i), NEW expiry \in Nat,
           e.tx, NEW j \in 1..Len(e.stmts), Fatal(e, e.stmts[j]), ~e.stmts[j].forceQuery,
           \A k \in 1..(j - 1) : e.stmts[k].kind \notin {"commit", "rollback"}
    PROVE  RunRequest(d, e, rows, expiry).d.committed = d.committed
<1>1. PICK ran : ran = Ran(d, e, rows, expiry)[Len(e.stmts)]
  OBVIOUS
<1>2. Len(e.stmts) \in Nat /\ Len(e.stmts) \in 0..Len(e.stmts) /\ ~(Len(e.stmts) < j)
  BY EntryStmts DEF Running
<1>3. /\ ran.d.committed = d.committed
      /\ ran.done => ~ran.tx
      /\ ~ran.done => Len(e.stmts) < j
  BY <1>1, <1>2, RanFails
<1>4. ~ran.tx
  BY <1>2, <1>3
<1>5. RunRequest(d, e, rows, expiry).d \in {d, ran.d}
  BY <1>1, <1>4 DEF RunRequest
<1> QED BY <1>3, <1>5

\* A request that changed the database has a result that says so.
LEMMA RunRequestTold ==
    ASSUME NEW d, NEW i, Within(d, i), NEW b, Within(d, b), NEW e, NEW rows, Running(e, rows, i),
           NEW expiry \in Nat,
           \A j \in 1..Len(e.stmts) : e.stmts[j].kind \in Writes => ~e.stmts[j].forceQuery
    PROVE  \/ Mutation(RunRequest(d, e, rows, expiry).results)
           \/ Within(RunRequest(d, e, rows, expiry).d, b)
<1>1. PICK ran : ran = Ran(d, e, rows, expiry)[Len(e.stmts)]
  OBVIOUS
<1>2. Len(e.stmts) \in 0..Len(e.stmts)
  BY EntryStmts DEF Running
<1>3. Mutation(ran.results) \/ Within(ran.d, b)
  BY <1>1, <1>2, RanTold
<1>4. CASE e.tx /\ d.open
  <2>1. RunRequest(d, e, rows, expiry).d = d
    BY <1>4 DEF RunRequest
  <2> QED BY <2>1
<1>5. CASE ~(e.tx /\ d.open)
  <2>1. /\ RunRequest(d, e, rows, expiry).d \in {ran.d, Rollback(ran.d), Commit(ran.d)}
        /\ RunRequest(d, e, rows, expiry).results = ran.results
    BY <1>1, <1>5 DEF RunRequest
  <2>2. Within(ran.d, b) => Within(Rollback(ran.d), b) /\ Within(Commit(ran.d), b)
    BY EndsWithin
  <2> QED BY <1>3, <2>1, <2>2
<1> QED BY <1>4, <1>5

----------------------------------------------------------------------------
(* The log, and the databases of the nodes.                                 *)

\* A statement is marked as a query when it has a RETURNING clause.
Marked(e) == \A j \in 1..Len(e.stmts) : e.stmts[j].forceQuery = ContainsReturning(e.stmts[j].kind)

\* RANDOM() is rewritten when that flag is set, and a time when the other one is.
LEMMA LiteralIs ==
    ASSUME NEW kind, NEW rwrand \in BOOLEAN, NEW rwtime \in BOOLEAN
    PROVE  /\ Literal(kind, rwrand, rwtime) \in BOOLEAN
           /\ kind = "random" => Literal(kind, rwrand, rwtime) = rwrand
           /\ kind # "random" /\ rwtime => Literal(kind, rwrand, rwtime)
<1>1. CASE kind = "random"
  <2>1. Literal(kind, rwrand, rwtime) = rwrand
    BY <1>1 DEF Literal
  <2> QED BY <1>1, <2>1
<1>2. CASE kind = "now"
  <2>1. Literal(kind, rwrand, rwtime) = rwtime
    BY <1>2 DEF Literal
  <2> QED BY <1>2, <2>1
<1>3. CASE kind # "random" /\ kind # "now"
  <2>1. Literal(kind, rwrand, rwtime) = TRUE
    BY <1>3 DEF Literal
  <2> QED BY <1>3, <2>1
<1> QED BY <1>1, <1>2, <1>3

\* Process keeps the statements and their order, and marks each as it should.
LEMMA ProcessIs ==
    ASSUME NEW ss \in Seq(Kinds), NEW rwrand \in BOOLEAN, NEW rwtime \in BOOLEAN
    PROVE  /\ Process(ss, rwrand, rwtime) \in Seq(Statement)
           /\ Len(Process(ss, rwrand, rwtime)) = Len(ss)
           /\ \A j \in 1..Len(ss) :
                 Process(ss, rwrand, rwtime)[j] = [kind       |-> ss[j],
                                                   literal    |-> Literal(ss[j], rwrand, rwtime),
                                                   forceQuery |-> ContainsReturning(ss[j])]
<1>1. DOMAIN ss = 1..Len(ss) /\ Len(ss) \in Nat /\ \A j \in 1..Len(ss) : ss[j] \in Kinds
  OBVIOUS
<1>2. PICK p : p = Process(ss, rwrand, rwtime)
  OBVIOUS
<1>3. p = [j \in 1..Len(ss) |-> [kind       |-> ss[j],
                                 literal    |-> Literal(ss[j], rwrand, rwtime),
                                 forceQuery |-> ContainsReturning(ss[j])]]
  BY <1>1, <1>2 DEF Process
<1>4. ASSUME NEW j \in 1..Len(ss)
      PROVE  Literal(ss[j], rwrand, rwtime) \in BOOLEAN /\ ContainsReturning(ss[j]) \in BOOLEAN
  BY LiteralIs DEF ContainsReturning
<1>5. p \in [1..Len(ss) -> Statement]
  BY <1>1, <1>3, <1>4 DEF Statement
<1>6. p \in Seq(Statement) /\ Len(p) = Len(ss)
  BY <1>1, <1>5
<1> QED BY <1>2, <1>3, <1>6

\* The entry that a request becomes.
LEMMA RewrittenIs ==
    ASSUME NEW r \in Requests
    PROVE  /\ [r EXCEPT !.stmts = Rewritten(r)] \in Entry
           /\ Marked([r EXCEPT !.stmts = Rewritten(r)])
           /\ [r EXCEPT !.stmts = Rewritten(r)].path = r.path
           /\ Len(Rewritten(r)) = Len(r.stmts)
           /\ [r EXCEPT !.stmts = Rewritten(r)].stmts = Rewritten(r)
           /\ \A j \in 1..Len(r.stmts) :
                 /\ Rewritten(r)[j].kind = r.stmts[j]
                 /\ r.path = "execute" \/ r.stmts[j] # "random" => Rewritten(r)[j].literal
<1>1. r \in [path : Paths, tx : BOOLEAN, timeout : BOOLEAN, stmts : Seq(Kinds)]
  BY RequestsAssumption DEF Paths
<1>2. PICK ss \in Seq(Kinds) : ss = r.stmts
  BY <1>1
<1>3. PICK a \in BOOLEAN : Rewritten(r) = Process(ss, a, TRUE) /\ (r.path = "execute" => a = TRUE)
  <2>1. CASE r.path \in {"request", "query"}
    BY <1>2, <2>1 DEF Rewritten, NoRewriteRandom, NoRewriteTime
  <2>2. CASE r.path \notin {"request", "query"}
    BY <1>2, <2>2 DEF Rewritten, NoRewriteRandom, NoRewriteTime
  <2> QED BY <2>1, <2>2
<1>4. PICK p \in Seq(Statement) : p = Rewritten(r) /\ Len(p) = Len(ss)
         /\ \A j \in 1..Len(ss) : p[j] = [kind |-> ss[j], literal |-> Literal(ss[j], a, TRUE),
                                          forceQuery |-> ContainsReturning(ss[j])]
  BY <1>3, ProcessIs
<1>5. PICK e : e = [r EXCEPT !.stmts = p]
  OBVIOUS
<1>6. e \in Entry /\ e.stmts = p /\ e.path = r.path
  BY <1>1, <1>5 DEF Entry
<1>7. \A j \in 1..Len(ss) : /\ p[j].kind = ss[j] /\ p[j].forceQuery = ContainsReturning(ss[j])
                            /\ p[j].literal = Literal(ss[j], a, TRUE)
  <2>1. SUFFICES ASSUME NEW j \in 1..Len(ss)
                 PROVE  /\ p[j].kind = ss[j] /\ p[j].forceQuery = ContainsReturning(ss[j])
                        /\ p[j].literal = Literal(ss[j], a, TRUE)
    OBVIOUS
  <2>2. PICK lit, fq : lit = Literal(ss[j], a, TRUE) /\ fq = ContainsReturning(ss[j])
    OBVIOUS
  <2>3. p[j] = [kind |-> ss[j], literal |-> lit, forceQuery |-> fq]
    BY <1>4, <2>2
  <2> QED BY <2>2, <2>3
<1>8. Marked(e)
  BY <1>4, <1>6, <1>7 DEF Marked
<1>9. ASSUME NEW j \in 1..Len(ss), r.path = "execute" \/ ss[j] # "random" PROVE p[j].literal
  <2>1. Literal(ss[j], a, TRUE)
    BY <1>3, <1>9, LiteralIs
  <2> QED BY <1>7, <2>1
<1> QED BY <1>2, <1>4, <1>5, <1>6, <1>7, <1>8, <1>9

\* The rows of an entry on a node.
LEMMA RowsOfRunning ==
    ASSUME NEW e \in Entry, NEW n \in Node, NEW i \in Nat
    PROVE  Running(e, RowsOf(e, n, i), i)
<1>1. Len(e.stmts) \in Nat /\ 1..Len(e.stmts) \subseteq Nat
  BY EntryStmts
<1>2. ASSUME NEW j \in 1..Len(e.stmts)
      PROVE  <<i, j, IF e.stmts[j].literal THEN "literal" ELSE n>> \in Row
  <2>1. j \in Nat
    BY <1>1
  <2> QED BY <2>1 DEF Row
<1>3. RowsOf(e, n, i) \in [1..Len(e.stmts) -> Row]
  BY <1>2 DEF RowsOf
<1>4. \A j \in 1..Len(e.stmts) : RowsOf(e, n, i)[j][1] = i
  BY DEF RowsOf
<1> QED BY <1>3, <1>4 DEF Running

\* Databases and snapshots have no row of an entry that was not applied.
DbInv ==
    /\ log \in Seq(Entry) /\ \A i \in 1..Len(log) : Marked(log[i])
    /\ applied \in [Node -> Nat] /\ dbAppliedIdx \in [Node -> Nat]
    /\ rw \in [Node -> DbState] /\ snap \in [Node -> [index : Nat, d : DbState]]
    /\ \A n \in Node :
          /\ applied[n] <= Len(log) /\ dbAppliedIdx[n] <= applied[n]
          /\ Within(rw[n], applied[n])
          /\ snap[n].index <= applied[n] /\ Within(snap[n].d, snap[n].index)

\* What the entry e at the index i makes of a database.
Outcome(d, e, rows, expiry, i) ==
    IF e.path = "load" THEN Swap(i)
    ELSE IF e.path = "query" THEN d
    ELSE RunRequest(d, e, rows, expiry).d

\* What the store takes for a change.
TakenForChange(d, e, rows, expiry) ==
    \/ e.path \in {"execute", "load"}
    \/ e.path = "request" /\ Mutation(RunRequest(d, e, rows, expiry).results)

\* The step of a node that applies the next entry, in full.
ApplyStep(n, i, expiry) ==
    /\ i = applied[n] + 1 /\ i \in 1..Len(log) /\ expiry \in Nat
    /\ ~log[i].timeout => expiry = Len(log[i].stmts) + 1
    /\ rw' = [rw EXCEPT ![n] = Outcome(rw[n], log[i], RowsOf(log[i], n, i), expiry, i)]
    /\ dbAppliedIdx' = [dbAppliedIdx EXCEPT ![n] =
                          IF TakenForChange(rw[n], log[i], RowsOf(log[i], n, i), expiry) THEN i ELSE @]
    /\ applied' = [applied EXCEPT ![n] = i]
    /\ UNCHANGED <<log, snap, cut, restarts>>

\* What the log holds.
LEMMA LogEntry ==
    ASSUME DbInv, NEW i \in 1..Len(log)
    PROVE  log[i] \in Entry /\ Marked(log[i]) /\ i \in Nat
<1>1. log \in Seq(Entry) /\ Marked(log[i])
  BY DEF DbInv
<1> QED BY <1>1

\* What an Apply does, in terms of the request it runs.
LEMMA ApplyIs ==
    ASSUME DbInv, NEW n \in Node, Apply(n)
    PROVE  \E i, expiry : ApplyStep(n, i, expiry)
<1>1. PICK i : i = applied[n] + 1
  OBVIOUS
<1>2. applied[n] \in Nat /\ Len(log) \in Nat
  BY DEF DbInv
<1>3. i \in 1..Len(log)
  BY <1>1, <1>2 DEF Apply
<1>4. PICK e \in Entry : e = log[i]
  BY <1>3, LogEntry
<1>5. Len(e.stmts) \in Nat /\ e.timeout \in BOOLEAN
  BY EntryStmts
<1>6. PICK expiry \in {Len(e.stmts) + 1} \cup (IF e.timeout THEN 0..Len(e.stmts) ELSE {}) :
         /\ rw' = [rw EXCEPT ![n] = CASE e.path = "load"  -> Swap(i)
                                      [] e.path = "query" -> Query(@)
                                      [] OTHER -> RunRequest(rw[n], e, RowsOf(e, n, i), expiry).d]
         /\ dbAppliedIdx' = [dbAppliedIdx EXCEPT ![n] =
               IF \/ e.path \in {"execute", "load"}
                  \/ e.path = "request" /\ Mutation(RunRequest(rw[n], e, RowsOf(e, n, i), expiry).results)
               THEN i ELSE @]
  BY <1>1, <1>4 DEF Apply
<1>7. expiry \in Nat /\ (~e.timeout => expiry = Len(e.stmts) + 1)
  BY <1>5
<1>8. rw' = [rw EXCEPT ![n] = Outcome(rw[n], e, RowsOf(e, n, i), expiry, i)]
  <2>1. (CASE e.path = "load"  -> Swap(i)
           [] e.path = "query" -> Query(rw[n])
           [] OTHER -> RunRequest(rw[n], e, RowsOf(e, n, i), expiry).d)
        = Outcome(rw[n], e, RowsOf(e, n, i), expiry, i)
    BY DEF Outcome, Query
  <2> QED BY <1>6, <2>1
<1>9. dbAppliedIdx' = [dbAppliedIdx EXCEPT ![n] =
                          IF TakenForChange(rw[n], e, RowsOf(e, n, i), expiry) THEN i ELSE @]
  BY <1>6 DEF TakenForChange
<1>10. applied' = [applied EXCEPT ![n] = i] /\ UNCHANGED <<log, snap, cut, restarts>>
  BY <1>1 DEF Apply
<1>11. ApplyStep(n, i, expiry)
  BY <1>1, <1>3, <1>4, <1>7, <1>8, <1>9, <1>10 DEF ApplyStep
<1> QED BY <1>11

\* A loaded database has no row of a later entry.
LEMMA SwapWithin ==
    ASSUME NEW i \in Nat
    PROVE  Within(Swap(i), i)
<1>1. PICK row \in Row : row = <<i, 0, "literal">>
  BY DEF Row
<1>2. row[1] = i
  BY <1>1
<1>3. PICK rows \in Seq(Row) : rows = <<row>>
  <2>1. <<row>> \in Seq(Row)
    OBVIOUS
  <2> QED BY <2>1, Zenon
<1>4. RowsUpTo(rows, i)
  BY <1>2, <1>3 DEF RowsUpTo
<1> QED BY <1>1, <1>3, <1>4, HoldingWithin DEF Swap

\* Nor has a database that has no row behind an earlier one.
LEMMA WithinMore ==
    ASSUME NEW d, NEW b \in Nat, NEW c \in Nat, b <= c, Within(d, b)
    PROVE  Within(d, c)
<1>1. ASSUME NEW s \in Seq(Row), RowsUpTo(s, b) PROVE RowsUpTo(s, c)
  <2>1. ASSUME NEW k \in DOMAIN s PROVE s[k][1] <= c
    <3>1. PICK row \in Row : row = s[k]
      BY <2>1
    <3>2. row[1] \in Nat /\ row[1] <= b
      BY <1>1, <3>1 DEF Row, RowsUpTo
    <3> QED BY <3>1, <3>2
  <2> QED BY <2>1 DEF RowsUpTo
<1>2. d.view \in Seq(Row) /\ d.committed \in Seq(Row)
  BY DEF Within, DbState
<1> QED BY <1>1, <1>2 DEF Within

\* Nor what an entry makes of such a database.
LEMMA OutcomeWithin ==
    ASSUME NEW d, NEW i, Within(d, i), NEW e, NEW rows, Running(e, rows, i), NEW expiry \in Nat
    PROVE  Within(Outcome(d, e, rows, expiry, i), i)
<1>1. Within(Swap(i), i)
  BY SwapWithin DEF Running
<1>2. Within(RunRequest(d, e, rows, expiry).d, i)
  BY RunRequestIs
<1> QED BY <1>1, <1>2 DEF Outcome

\* In the beginning the log and the databases are empty.
LEMMA DbInitInv == ASSUME DatabaseInit PROVE DbInv
<1>1. << >> \in Seq(Entry) /\ << >> \in Seq(Row) /\ Len(<< >>) = 0
  OBVIOUS
<1>2. Within(Empty, 0)
  BY <1>1 DEF Empty, Within, DbState, RowsUpTo
<1>3. Empty \in DbState
  BY <1>2 DEF Within
<1>4. /\ log = << >> /\ applied = [n \in Node |-> 0] /\ rw = [n \in Node |-> Empty]
      /\ dbAppliedIdx = [n \in Node |-> 0] /\ snap = [n \in Node |-> [index |-> 0, d |-> Empty]]
  BY DEF DatabaseInit
<1>6. snap \in [Node -> [index : Nat, d : DbState]]
  BY <1>3, <1>4
<1>7. \A n \in Node : snap[n].index = 0 /\ snap[n].d = Empty /\ rw[n] = Empty /\ applied[n] = 0
                      /\ dbAppliedIdx[n] = 0
  BY <1>4
<1> QED BY <1>1, <1>2, <1>3, <1>4, <1>6, <1>7 DEF DbInv

\* A request is marked by the SQL processing before it is in the log.
LEMMA SubmitInv == ASSUME DbInv, NEW r \in Requests, Submit(r) PROVE DbInv'
<1>1. PICK e \in Entry : e = [r EXCEPT !.stmts = Rewritten(r)] /\ Marked(e)
  BY RewrittenIs
<1>2. log' = Append(log, e) /\ UNCHANGED <<applied, rw, dbAppliedIdx, snap>>
  BY <1>1 DEF Submit
<1>3. log \in Seq(Entry) /\ \A i \in 1..Len(log) : Marked(log[i])
  BY DEF DbInv
<1>4. /\ log' \in Seq(Entry) /\ Len(log') = Len(log) + 1 /\ Len(log) \in Nat
      /\ log'[Len(log) + 1] = e /\ \A i \in 1..Len(log) : log'[i] = log[i]
  BY <1>2, <1>3
<1>5. \A i \in 1..Len(log') : Marked(log'[i])
  <2>1. ASSUME NEW i \in 1..Len(log') PROVE Marked(log'[i])
    <3>1. i = Len(log) + 1 \/ i \in 1..Len(log)
      BY <1>4
    <3> QED BY <1>1, <1>3, <1>4, <3>1
  <2> QED BY <2>1
<1>6. \A n \in Node : applied[n] <= Len(log')
  BY <1>4 DEF DbInv
<1> QED BY <1>2, <1>4, <1>5, <1>6 DEF DbInv

\* Applying an entry leaves rows of no later entry.
LEMMA ApplyInv == ASSUME DbInv, NEW n \in Node, Apply(n) PROVE DbInv'
<1>1. PICK i, expiry : ApplyStep(n, i, expiry)
  BY ApplyIs
<1>2. /\ i = applied[n] + 1 /\ i \in 1..Len(log) /\ expiry \in Nat /\ Len(log) \in Nat /\ applied[n] \in Nat
      /\ log[i] \in Entry /\ i \in Nat /\ i <= Len(log) /\ dbAppliedIdx[n] \in Nat
      /\ dbAppliedIdx[n] <= applied[n] /\ snap[n].index \in Nat /\ snap[n].index <= applied[n]
  BY <1>1, LogEntry DEF ApplyStep, DbInv
<1>3. Within(rw[n], i)
  BY <1>2, WithinMore DEF DbInv
<1>4. PICK d : d = Outcome(rw[n], log[i], RowsOf(log[i], n, i), expiry, i)
  OBVIOUS
<1>5. Running(log[i], RowsOf(log[i], n, i), i)
  BY <1>2, RowsOfRunning
<1>6. Within(d, i) /\ d \in DbState
  <2>1. Within(d, i)
    BY <1>2, <1>3, <1>4, <1>5, OutcomeWithin
  <2> QED BY <2>1 DEF Within
<1>7. /\ rw' = [rw EXCEPT ![n] = d] /\ applied' = [applied EXCEPT ![n] = i]
      /\ UNCHANGED <<log, snap>>
  BY <1>1, <1>4 DEF ApplyStep
<1>8. PICK k \in Nat : k <= i /\ dbAppliedIdx' = [dbAppliedIdx EXCEPT ![n] = k]
  <2>1. PICK k : k = IF TakenForChange(rw[n], log[i], RowsOf(log[i], n, i), expiry) THEN i
                     ELSE dbAppliedIdx[n]
    OBVIOUS
  <2>2. dbAppliedIdx' = [dbAppliedIdx EXCEPT ![n] = k]
    BY <1>1, <2>1 DEF ApplyStep
  <2>3. k \in Nat /\ k <= i
    BY <1>2, <2>1
  <2> QED BY <2>2, <2>3
<1>9. /\ rw' \in [Node -> DbState] /\ applied' \in [Node -> Nat] /\ dbAppliedIdx' \in [Node -> Nat]
  BY <1>2, <1>6, <1>7, <1>8 DEF DbInv
<1>10. ASSUME NEW m \in Node
       PROVE  /\ applied'[m] <= Len(log) /\ dbAppliedIdx'[m] <= applied'[m]
              /\ Within(rw'[m], applied'[m]) /\ snap[m].index <= applied'[m]
  <2>1. CASE m = n
    <3>1. applied'[m] = i /\ rw'[m] = d /\ dbAppliedIdx'[m] = k
      BY <1>7, <1>8, <2>1 DEF DbInv
    <3> QED BY <1>2, <1>6, <1>8, <2>1, <3>1
  <2>2. CASE m # n
    <3>1. applied'[m] = applied[m] /\ rw'[m] = rw[m] /\ dbAppliedIdx'[m] = dbAppliedIdx[m]
      BY <1>7, <1>8, <2>2 DEF DbInv
    <3> QED BY <3>1 DEF DbInv
  <2> QED BY <2>1, <2>2
<1> QED BY <1>7, <1>9, <1>10 DEF DbInv

\* A snapshot holds rows up to its index.
LEMMA SnapshotInv == ASSUME DbInv, NEW n \in Node, Snapshot(n) PROVE DbInv'
<1>1. /\ UNCHANGED <<log, applied, rw, dbAppliedIdx>>
      /\ snap' = [snap EXCEPT ![n] = [index |-> applied[n], d |-> rw[n]]]
  BY DEF Snapshot
<1>2. applied[n] \in Nat /\ rw[n] \in DbState /\ Within(rw[n], applied[n])
  BY DEF DbInv
<1>3. snap' \in [Node -> [index : Nat, d : DbState]]
  BY <1>1, <1>2 DEF DbInv
<1>4. ASSUME NEW m \in Node PROVE snap'[m].index <= applied[m] /\ Within(snap'[m].d, snap'[m].index)
  <2>1. CASE m = n
    <3>1. snap'[m].index = applied[n] /\ snap'[m].d = rw[n]
      BY <1>1, <2>1 DEF DbInv
    <3> QED BY <1>2, <2>1, <3>1
  <2>2. CASE m # n
    <3>1. snap'[m] = snap[m]
      BY <1>1, <2>2 DEF DbInv
    <3> QED BY <3>1 DEF DbInv
  <2> QED BY <2>1, <2>2
<1> QED BY <1>1, <1>3, <1>4 DEF DbInv

\* A node starts from its snapshot.
LEMMA DbRestartInv == ASSUME DbInv, NEW n \in Node, Restart(n) PROVE DbInv'
<1>1. /\ UNCHANGED <<log, snap>>
      /\ rw' = [rw EXCEPT ![n] = Holding(snap[n].d.committed)]
      /\ applied' = [applied EXCEPT ![n] = snap[n].index]
      /\ dbAppliedIdx' = [dbAppliedIdx EXCEPT ![n] = snap[n].index]
  BY DEF Restart
<1>2. /\ snap[n].index \in Nat /\ snap[n].d.committed \in Seq(Row)
      /\ RowsUpTo(snap[n].d.committed, snap[n].index)
      /\ snap[n].index <= applied[n] /\ applied[n] \in Nat /\ Len(log) \in Nat /\ applied[n] <= Len(log)
  BY DEF DbInv, Within, DbState
<1>3. Within(Holding(snap[n].d.committed), snap[n].index)
  BY <1>2, HoldingWithin
<1>4. PICK d \in DbState : d = Holding(snap[n].d.committed) /\ Within(d, snap[n].index)
  BY <1>3 DEF Within
<1>5. rw' \in [Node -> DbState] /\ applied' \in [Node -> Nat] /\ dbAppliedIdx' \in [Node -> Nat]
  BY <1>1, <1>2, <1>4 DEF DbInv
<1>6. ASSUME NEW m \in Node
      PROVE  /\ applied'[m] <= Len(log) /\ dbAppliedIdx'[m] <= applied'[m]
             /\ Within(rw'[m], applied'[m]) /\ snap[m].index <= applied'[m]
  <2>1. CASE m = n
    <3>1. applied'[m] = snap[n].index /\ rw'[m] = d /\ dbAppliedIdx'[m] = snap[n].index
      BY <1>1, <1>4, <2>1 DEF DbInv
    <3> QED BY <1>2, <1>4, <2>1, <3>1
  <2>2. CASE m # n
    <3>1. applied'[m] = applied[m] /\ rw'[m] = rw[m] /\ dbAppliedIdx'[m] = dbAppliedIdx[m]
      BY <1>1, <2>2 DEF DbInv
    <3> QED BY <3>1 DEF DbInv
  <2> QED BY <2>1, <2>2
<1> QED BY <1>1, <1>5, <1>6 DEF DbInv

\* Every step keeps the invariant.
LEMMA DbStep == ASSUME DbInv, [DatabaseNext]_databaseVars PROVE DbInv'
<1>1. CASE UNCHANGED databaseVars
  BY <1>1 DEF databaseVars, DbInv
<1>2. CASE \E r \in Requests : Submit(r)
  BY <1>2, SubmitInv
<1>3. CASE \E n \in Node : Apply(n)
  BY <1>3, ApplyInv
<1>4. CASE \E n \in Node : Snapshot(n)
  BY <1>4, SnapshotInv
<1>5. CASE \E n \in Node : Restart(n)
  BY <1>5, DbRestartInv
<1> QED BY <1>1, <1>2, <1>3, <1>4, <1>5 DEF DatabaseNext

\* A transaction with a statement on which SQLite raises an error leaves nothing behind,
\* in every log, on every node and whatever times out (db.go executeWithConn, Request).
THEOREM FailedTransactionsLeaveNothing == DatabaseSpec => FailedTransactionLeavesNothing
<1>1. ASSUME DbInv, [DatabaseNext]_databaseVars, NEW n \in Node,
             applied'[n] = applied[n] + 1,
             log[applied[n] + 1].tx, log[applied[n] + 1].path \in {"execute", "request"},
             NEW j \in DOMAIN log[applied[n] + 1].stmts,
             Fatal(log[applied[n] + 1], log[applied[n] + 1].stmts[j]),
             \A k \in 1..j-1 : log[applied[n] + 1].stmts[k].kind \notin {"commit", "rollback"}
      PROVE  rw'[n].committed = rw[n].committed
  <2>1. applied \in [Node -> Nat] /\ applied[n] \in Nat /\ snap[n].index \in Nat /\ snap[n].index <= applied[n]
    BY <1>1 DEF DbInv
  <2>2. applied' # applied
    BY <1>1, <2>1
  <2>3. CASE \E m \in Node : Apply(m)
    <3>1. PICK m \in Node : Apply(m)
      BY <2>3
    <3>2. PICK i, expiry : ApplyStep(m, i, expiry)
      BY <1>1, <3>1, ApplyIs
    <3>3. m = n
      BY <1>1, <2>1, <3>2 DEF ApplyStep
    <3>4. i = applied[n] + 1 /\ i \in 1..Len(log) /\ i \in Nat /\ expiry \in Nat
          /\ log[i] \in Entry /\ Marked(log[i])
      BY <1>1, <3>2, <3>3, LogEntry DEF ApplyStep
    <3>5. PICK e \in Entry : e = log[i]
      BY <3>4
    <3>6. PICK rows : rows = RowsOf(e, n, i) /\ Running(e, rows, i)
      BY <3>4, RowsOfRunning
    <3>7. PICK d : d = rw[n]
      OBVIOUS
    <3>8. Within(d, i)
      <4>1. Within(d, applied[n])
        BY <1>1, <3>7 DEF DbInv
      <4>2. applied[n] <= i
        BY <2>1, <3>4
      <4> QED BY <2>1, <3>4, <4>1, <4>2, WithinMore
    <3>9. j \in 1..Len(e.stmts) /\ e.tx /\ e.path \in {"execute", "request"}
      BY <1>1, <3>4, <3>5, EntryStmts
    <3>10. Fatal(e, e.stmts[j]) /\ \A k \in 1..(j - 1) : e.stmts[k].kind \notin {"commit", "rollback"}
      BY <1>1, <3>4, <3>5
    <3>11. ~e.stmts[j].forceQuery
      <4>1. e.stmts[j].kind \in {"fails", "syntax"}
        BY <3>10 DEF Fatal
      <4>2. e.stmts[j].forceQuery = ContainsReturning(e.stmts[j].kind)
        BY <3>4, <3>5, <3>9 DEF Marked
      <4> QED BY <4>1, <4>2 DEF ContainsReturning
    <3>12. RunRequest(d, e, rows, expiry).d.committed = d.committed
      BY <3>4, <3>6, <3>8, <3>9, <3>10, <3>11, RunRequestFails
    <3>13. rw'[n] = RunRequest(d, e, rows, expiry).d
      <4>1. rw' = [rw EXCEPT ![n] = Outcome(d, e, rows, expiry, i)]
        BY <3>2, <3>3, <3>5, <3>6, <3>7 DEF ApplyStep
      <4>2. Outcome(d, e, rows, expiry, i) = RunRequest(d, e, rows, expiry).d
        BY <3>9 DEF Outcome
      <4> QED BY <1>1, <4>1, <4>2 DEF DbInv
    <3> QED BY <3>7, <3>12, <3>13
  <2>4. CASE \E m \in Node : Restart(m)
    <3>1. PICK m \in Node : Restart(m)
      BY <2>4
    <3>2. applied' = [applied EXCEPT ![m] = snap[m].index]
      BY <3>1 DEF Restart
    <3> QED BY <1>1, <2>1, <3>2
  <2>5. CASE \/ UNCHANGED databaseVars \/ \E r \in Requests : Submit(r)
             \/ \E m \in Node : Snapshot(m)
    <3>1. UNCHANGED applied
      BY <2>5 DEF databaseVars, Submit, Snapshot
    <3> QED BY <2>2, <3>1
  <2> QED BY <1>1, <2>3, <2>4, <2>5 DEF DatabaseNext
<1>2. ASSUME DbInv, [DatabaseNext]_databaseVars
      PROVE  [\A n \in Node :
         LET e == log[applied[n] + 1]
         IN  (/\ applied'[n] = applied[n] + 1
              /\ e.tx /\ e.path \in {"execute", "request"}
              /\ \E j \in DOMAIN e.stmts :
                    /\ Fatal(e, e.stmts[j])
                    /\ \A k \in 1..j-1 : e.stmts[k].kind \notin {"commit", "rollback"})
             => rw'[n].committed = rw[n].committed]_databaseVars
  BY <1>1, <1>2, Zenon
<1>3. DatabaseSpec => []DbInv
  BY DbInitInv, DbStep, PTL DEF DatabaseSpec
<1> QED BY <1>2, <1>3, PTL DEF DatabaseSpec, FailedTransactionLeavesNothing

----------------------------------------------------------------------------
(* Replicas agree: a history H says what the database is after each entry,  *)
(* as long as nothing timed out, and each node is somewhere in it.          *)

Literals(e, i) == [j \in 1..Len(e.stmts) |-> <<i, j, "literal">>]
InTime(d, e, i) == Outcome(d, e, Literals(e, i), Len(e.stmts) + 1, i)

\* The entries up to k have no timeout.
Timely(k) == \A i \in 1..k : ~log[i].timeout

PlainEntry(e) ==
    \A j \in 1..Len(e.stmts) :
       /\ e.path \in {"execute", "request"} => e.stmts[j].literal
       /\ e.path = "request" /\ e.stmts[j].kind \in Writes => ~e.stmts[j].forceQuery

\* No statement in the log depends on the node that runs it, or hides that it writes.
PlainLog == \A i \in 1..Len(log) : PlainEntry(log[i])

\* No row is of an entry behind the last one that the store took for a change.
Noticed == \A n \in Node : Within(rw[n], dbAppliedIdx[n])

\* H[i] is the database after i entries, run in time; so is that of every replica, and
\* every snapshot, whose entries have no timeout, except on nodes that have lost a
\* transaction.
DbHistory(H) ==
    /\ H[0] = Empty
    /\ \A i \in 1..Len(log) : H[i] = InTime(H[i - 1], log[i], i)
    /\ \A n \in Node \ cut :
          /\ Timely(applied[n]) => rw[n] = H[applied[n]]
          /\ Timely(snap[n].index) => snap[n].d = H[snap[n].index]

ReplicaInv ==
    /\ DbInv /\ PlainLog /\ Noticed
    /\ \E H : DbHistory(H)

\* In the beginning all replicas have the empty database.
LEMMA ReplicaInitInv == ASSUME DatabaseInit PROVE ReplicaInv
<1>1. DbInv
  BY DbInitInv
<1>2. /\ log = << >> /\ rw = [n \in Node |-> Empty] /\ applied = [n \in Node |-> 0]
      /\ dbAppliedIdx = [n \in Node |-> 0] /\ snap = [n \in Node |-> [index |-> 0, d |-> Empty]]
  BY DEF DatabaseInit
<1>3. PlainLog
  BY <1>2 DEF PlainLog
<1>4. Noticed
  <2>1. \A n \in Node : applied[n] = dbAppliedIdx[n]
    BY <1>2
  <2> QED BY <1>1, <2>1 DEF DbInv, Noticed
<1>5. PICK H : H = [k \in Nat |-> Empty]
  OBVIOUS
<1>6. \A n \in Node : /\ rw[n] = Empty /\ applied[n] = 0 /\ snap[n].index = 0
                      /\ snap[n].d = Empty
  BY <1>2
<1>7. H[0] = Empty /\ Len(log) = 0
  BY <1>2, <1>5
<1>8. DbHistory(H)
  BY <1>6, <1>7 DEF DbHistory
<1> QED BY <1>1, <1>3, <1>4, <1>8 DEF ReplicaInv

\* An entry that is appended has one outcome on every replica, which the history records.
LEMMA ReplicaSubmit == ASSUME PlainRequests, ReplicaInv, NEW r \in Requests, Submit(r) PROVE ReplicaInv'
<1>1. PICK e \in Entry : e = [r EXCEPT !.stmts = Rewritten(r)]
  BY RewrittenIs
<1>2. log' = Append(log, e) /\ UNCHANGED <<applied, rw, dbAppliedIdx, snap, cut>>
  BY <1>1 DEF Submit
<1>3. log \in Seq(Entry)
  BY DEF ReplicaInv, DbInv
<1>4. /\ Len(log') = Len(log) + 1 /\ Len(log) \in Nat
      /\ log'[Len(log) + 1] = e /\ \A i \in 1..Len(log) : log'[i] = log[i]
  BY <1>2, <1>3
<1>5. PlainEntry(e)
  <2>1. /\ e.path = r.path /\ e.stmts = Rewritten(r) /\ Len(e.stmts) = Len(r.stmts)
        /\ \A j \in 1..Len(r.stmts) : /\ e.stmts[j].kind = r.stmts[j]
                                      /\ r.path = "execute" \/ r.stmts[j] # "random" => e.stmts[j].literal
        /\ Marked(e)
    BY <1>1, RewrittenIs
  <2>2. r.stmts \in Seq(Kinds)
    BY RequestsAssumption
  <2>3. r.path = "request" => \A j \in 1..Len(r.stmts) : r.stmts[j] \notin {"random", "returning"}
    BY <2>2 DEF PlainRequests
  <2>4. SUFFICES ASSUME NEW j \in 1..Len(e.stmts)
                 PROVE  /\ e.path \in {"execute", "request"} => e.stmts[j].literal
                        /\ e.path = "request" /\ e.stmts[j].kind \in Writes => ~e.stmts[j].forceQuery
    BY DEF PlainEntry
  <2>5. e.path \in {"execute", "request"} => e.stmts[j].literal
    BY <2>1, <2>3
  <2>6. e.stmts[j].forceQuery = ContainsReturning(e.stmts[j].kind)
    BY <2>1 DEF Marked
  <2>7. ASSUME e.path = "request", e.stmts[j].kind \in Writes PROVE ~ContainsReturning(e.stmts[j].kind)
    BY <2>1, <2>3, <2>7 DEF Writes, ContainsReturning
  <2> QED BY <2>5, <2>6, <2>7
<1>6. PlainLog'
  <2>1. ASSUME NEW i \in 1..Len(log') PROVE PlainEntry(log'[i])
    <3>1. i = Len(log) + 1 \/ i \in 1..Len(log)
      BY <1>4
    <3> QED BY <1>4, <1>5, <3>1 DEF ReplicaInv, PlainLog
  <2> QED BY <2>1 DEF PlainLog
<1>7. Noticed'
  BY <1>2 DEF ReplicaInv, Noticed
<1>8. DbInv'
  BY SubmitInv DEF ReplicaInv
<1>9. PICK H : DbHistory(H)
  BY DEF ReplicaInv
<1>10. PICK G : G = [k \in Nat |-> IF k = Len(log) + 1 THEN InTime(H[Len(log)], e, Len(log) + 1) ELSE H[k]]
  OBVIOUS
<1>11. G[Len(log) + 1] = InTime(H[Len(log)], e, Len(log) + 1) /\ \A k \in 0..Len(log) : G[k] = H[k]
  BY <1>4, <1>10
<1>12. G[0] = Empty
  BY <1>4, <1>9, <1>11 DEF DbHistory
<1>13. ASSUME NEW i \in 1..Len(log') PROVE G[i] = InTime(G[i - 1], log'[i], i)
  <2>1. CASE i = Len(log) + 1
    <3>1. i - 1 = Len(log) /\ Len(log) \in 0..Len(log)
      BY <1>4, <2>1
    <3> QED BY <1>4, <1>11, <2>1, <3>1
  <2>2. CASE i # Len(log) + 1
    <3>1. i \in 1..Len(log) /\ i \in 0..Len(log) /\ i - 1 \in 0..Len(log)
      BY <1>4, <2>2
    <3>2. H[i] = InTime(H[i - 1], log[i], i)
      BY <1>9, <3>1 DEF DbHistory
    <3> QED BY <1>4, <1>11, <3>1, <3>2
  <2> QED BY <2>1, <2>2
<1>14. ASSUME NEW k \in 0..Len(log), Timely(k)' PROVE Timely(k) /\ G[k] = H[k]
  <2>1. \A i \in 1..k : i \in 1..Len(log)
    BY <1>4
  <2> QED BY <1>4, <1>11, <1>14, <2>1 DEF Timely
<1>15. ASSUME NEW n \in Node \ cut
       PROVE  /\ Timely(applied[n])' => rw[n] = G[applied[n]]
              /\ Timely(snap[n].index)' => snap[n].d = G[snap[n].index]
  <2>1. applied[n] \in 0..Len(log) /\ snap[n].index \in 0..Len(log)
    BY DEF ReplicaInv, DbInv
  <2>2. UNCHANGED <<applied[n], snap[n].index>>
    BY <1>2
  <2>3. PICK a, b : a = applied[n] /\ b = snap[n].index
    OBVIOUS
  <2>4. (Timely(a)' => Timely(a) /\ G[a] = H[a]) /\ (Timely(b)' => Timely(b) /\ G[b] = H[b])
    BY <1>14, <2>1, <2>3
  <2>5. /\ Timely(a) => rw[n] = H[a]
        /\ Timely(b) => snap[n].d = H[b]
    BY <1>9, <2>3 DEF DbHistory
  <2>6. (Timely(applied[n])' <=> Timely(a)') /\ (Timely(snap[n].index)' <=> Timely(b)')
    BY <2>2, <2>3 DEF Timely
  <2> QED BY <2>3, <2>4, <2>5, <2>6
<1>16. DbHistory(G)'
  BY <1>2, <1>12, <1>13, <1>15 DEF DbHistory
<1> QED BY <1>6, <1>7, <1>8, <1>16 DEF ReplicaInv

\* What a plain entry makes of a database does not depend on the node that applies it.
LEMMA OutcomeInTime ==
    ASSUME NEW d, NEW e \in Entry, PlainEntry(e), NEW n, NEW i, NEW expiry, expiry = Len(e.stmts) + 1
    PROVE  Outcome(d, e, RowsOf(e, n, i), expiry, i) = InTime(d, e, i)
<1>1. CASE e.path \in {"execute", "request"}
  <2>1. RowsOf(e, n, i) = Literals(e, i)
    BY <1>1 DEF RowsOf, Literals, PlainEntry
  <2> QED BY <2>1 DEF InTime
<1>2. CASE e.path \in {"query", "load"}
  BY <1>2 DEF InTime, Outcome
<1> QED BY <1>1, <1>2, EntryStmts DEF Paths

\* The store takes an entry for a change, or the entry leaves no row that was not there.
LEMMA OutcomeNoticed ==
    ASSUME NEW d, NEW i, Within(d, i), NEW b, Within(d, b), NEW e, NEW rows, Running(e, rows, i),
           NEW expiry \in Nat, PlainEntry(e), ~TakenForChange(d, e, rows, expiry)
    PROVE  Within(Outcome(d, e, rows, expiry, i), b)
<1>1. e \in Entry
  BY DEF Running
<1>2. e.path \in {"query", "request"}
  BY <1>1, EntryStmts DEF TakenForChange, Paths
<1>3. CASE e.path = "query"
  BY <1>3 DEF Outcome
<1>4. CASE e.path = "request"
  <2>1. \A j \in 1..Len(e.stmts) : e.stmts[j].kind \in Writes => ~e.stmts[j].forceQuery
    BY <1>4 DEF PlainEntry
  <2>2. ~Mutation(RunRequest(d, e, rows, expiry).results)
    BY <1>4 DEF TakenForChange
  <2>3. Within(RunRequest(d, e, rows, expiry).d, b)
    BY <2>1, <2>2, RunRequestTold
  <2> QED BY <1>4, <2>3 DEF Outcome
<1> QED BY <1>2, <1>3, <1>4

\* A replica that applies an entry has what the history says.
LEMMA ReplicaApply == ASSUME ReplicaInv, NEW n \in Node, Apply(n) PROVE ReplicaInv'
<1>1. DbInv /\ PlainLog /\ Noticed
  BY DEF ReplicaInv
<1>2. PICK i, expiry : ApplyStep(n, i, expiry)
  BY <1>1, ApplyIs
<1>3. /\ i = applied[n] + 1 /\ i \in 1..Len(log) /\ expiry \in Nat /\ Len(log) \in Nat /\ applied[n] \in Nat
      /\ i \in Nat /\ dbAppliedIdx[n] \in Nat
  BY <1>1, <1>2, LogEntry DEF ApplyStep, DbInv
<1>4. PICK e \in Entry : e = log[i] /\ PlainEntry(e)
  BY <1>1, <1>3, LogEntry DEF PlainLog
<1>5. PICK d : d = rw[n] /\ Within(d, dbAppliedIdx[n])
  BY <1>1 DEF Noticed
<1>6. Within(d, i)
  <2>1. Within(d, applied[n])
    BY <1>1, <1>5 DEF DbInv
  <2> QED BY <1>3, <2>1, WithinMore
<1>7. PICK rows : rows = RowsOf(e, n, i) /\ Running(e, rows, i)
  BY <1>3, RowsOfRunning
<1>8. PICK x : x = Outcome(d, e, rows, expiry, i)
  OBVIOUS
<1>9. PICK k : k = IF TakenForChange(d, e, rows, expiry) THEN i ELSE dbAppliedIdx[n]
  OBVIOUS
<1>10. /\ rw' = [rw EXCEPT ![n] = x] /\ applied' = [applied EXCEPT ![n] = i]
       /\ dbAppliedIdx' = [dbAppliedIdx EXCEPT ![n] = k] /\ UNCHANGED <<log, snap, cut>>
       /\ ~e.timeout => expiry = Len(e.stmts) + 1
  BY <1>2, <1>4, <1>5, <1>7, <1>8, <1>9 DEF ApplyStep
<1>11. /\ rw'[n] = x /\ applied'[n] = i /\ dbAppliedIdx'[n] = k
       /\ \A m \in Node \ {n} : /\ rw'[m] = rw[m] /\ applied'[m] = applied[m]
                                /\ dbAppliedIdx'[m] = dbAppliedIdx[m]
  BY <1>1, <1>10 DEF DbInv
<1>12. Within(x, k)
  <2>1. CASE TakenForChange(d, e, rows, expiry)
    BY <1>3, <1>6, <1>7, <1>8, <1>9, <2>1, OutcomeWithin
  <2>2. CASE ~TakenForChange(d, e, rows, expiry)
    <3>1. k = dbAppliedIdx[n]
      BY <1>9, <2>2
    <3>2. Within(Outcome(d, e, rows, expiry, i), dbAppliedIdx[n])
      BY <1>3, <1>4, <1>5, <1>6, <1>7, <2>2, OutcomeNoticed
    <3> QED BY <1>8, <3>1, <3>2
  <2> QED BY <2>1, <2>2
<1>13. Noticed'
  <2>1. ASSUME NEW m \in Node PROVE Within(rw'[m], dbAppliedIdx'[m])
    <3>1. CASE m = n
      BY <1>11, <1>12, <3>1
    <3>2. CASE m # n
      BY <1>1, <1>11, <3>2 DEF Noticed
    <3> QED BY <3>1, <3>2
  <2> QED BY <2>1 DEF Noticed
<1>14. PlainLog'
  BY <1>1, <1>10 DEF PlainLog
<1>15. PICK H : DbHistory(H)
  BY DEF ReplicaInv
<1>16. n \notin cut /\ Timely(i) => x = H[i]
  <2>1. SUFFICES ASSUME n \notin cut, Timely(i) PROVE x = H[i]
    OBVIOUS
  <2>2. Timely(applied[n]) /\ ~e.timeout
    BY <1>3, <1>4, <2>1 DEF Timely
  <2>3. d = H[i - 1]
    <3>1. i - 1 = applied[n]
      BY <1>3
    <3> QED BY <1>5, <1>15, <2>1, <2>2, <3>1 DEF DbHistory
  <2>4. expiry = Len(e.stmts) + 1
    BY <1>10, <2>2
  <2>5. x = InTime(d, e, i)
    BY <1>4, <1>7, <1>8, <2>4, OutcomeInTime
  <2>6. H[i] = InTime(H[i - 1], e, i)
    BY <1>3, <1>4, <1>15 DEF DbHistory
  <2> QED BY <2>3, <2>5, <2>6
<1>17. ASSUME NEW k1 PROVE Timely(k1)' <=> Timely(k1)
  BY <1>10 DEF Timely
<1>18. ASSUME NEW m \in Node \ cut PROVE (Timely(applied[m]) => rw[m] = H[applied[m]])'
  <2>1. PICK a : a = applied'[m]
    OBVIOUS
  <2>2. SUFFICES ASSUME Timely(a) PROVE rw'[m] = H[a]
    <3>1. Timely(applied[m])' => Timely(a)
      BY <1>10, <2>1 DEF Timely
    <3> QED BY <2>1, <3>1
  <2>3. CASE m = n
    BY <1>11, <1>16, <2>1, <2>2, <2>3
  <2>4. CASE m # n
    BY <1>11, <1>15, <2>1, <2>2, <2>4 DEF DbHistory
  <2> QED BY <2>3, <2>4
<1>19. ASSUME NEW m \in Node \ cut PROVE (Timely(snap[m].index) => snap[m].d = H[snap[m].index])'
  BY <1>10, <1>15 DEF DbHistory, Timely
<1>20. (H[0] = Empty)' /\ (\A j \in 1..Len(log) : H[j] = InTime(H[j - 1], log[j], j))'
  BY <1>10, <1>15 DEF DbHistory
<1>21. DbHistory(H)'
  BY <1>10, <1>18, <1>19, <1>20 DEF DbHistory
<1>22. DbInv'
  BY <1>1, ApplyInv
<1> QED BY <1>13, <1>14, <1>21, <1>22 DEF ReplicaInv

\* A snapshot is of a database in the history.
LEMMA ReplicaSnapshot == ASSUME ReplicaInv, NEW n \in Node, Snapshot(n) PROVE ReplicaInv'
<1>1. /\ UNCHANGED <<log, applied, rw, dbAppliedIdx, cut>>
      /\ snap' = [snap EXCEPT ![n] = [index |-> applied[n], d |-> rw[n]]]
  BY DEF Snapshot
<1>2. DbInv' /\ PlainLog' /\ Noticed'
  BY <1>1, SnapshotInv DEF ReplicaInv, PlainLog, Noticed
<1>3. PICK H : DbHistory(H)
  BY DEF ReplicaInv
<1>5. ASSUME NEW m \in Node \ cut PROVE (Timely(snap[m].index) => snap[m].d = H[snap[m].index])'
  <2>1. CASE m = n
    <3>1. snap'[m].index = applied[n] /\ snap'[m].d = rw[n]
      BY <1>1, <2>1 DEF ReplicaInv, DbInv
    <3>2. Timely(snap[m].index)' => Timely(applied[n])
      BY <1>1, <3>1 DEF Timely
    <3> QED BY <1>3, <2>1, <3>1, <3>2 DEF DbHistory
  <2>2. CASE m # n
    <3>1. snap'[m] = snap[m]
      BY <1>1, <2>2 DEF ReplicaInv, DbInv
    <3>2. Timely(snap[m].index)' => Timely(snap[m].index)
      BY <1>1, <3>1 DEF Timely
    <3> QED BY <1>3, <3>1, <3>2 DEF DbHistory
  <2> QED BY <2>1, <2>2
<1>6. ASSUME NEW m \in Node \ cut PROVE (Timely(applied[m]) => rw[m] = H[applied[m]])'
  BY <1>1, <1>3 DEF DbHistory, Timely
<1>7. (H[0] = Empty)' /\ (\A j \in 1..Len(log) : H[j] = InTime(H[j - 1], log[j], j))'
  BY <1>1, <1>3 DEF DbHistory
<1>8. DbHistory(H)'
  BY <1>1, <1>5, <1>6, <1>7 DEF DbHistory
<1> QED BY <1>2, <1>8 DEF ReplicaInv

\* A replica that restarts has what its snapshot says, and applies the rest again.
LEMMA ReplicaRestart == ASSUME ReplicaInv, NEW n \in Node, Restart(n) PROVE ReplicaInv'
<1>1. /\ UNCHANGED <<log, snap>>
      /\ rw' = [rw EXCEPT ![n] = Holding(snap[n].d.committed)]
      /\ applied' = [applied EXCEPT ![n] = snap[n].index]
      /\ dbAppliedIdx' = [dbAppliedIdx EXCEPT ![n] = snap[n].index]
      /\ cut' = IF snap[n].d.open THEN cut \cup {n} ELSE cut
  BY DEF Restart
<1>2. /\ rw'[n] = Holding(snap[n].d.committed) /\ applied'[n] = snap[n].index /\ dbAppliedIdx'[n] = snap[n].index
      /\ \A m \in Node \ {n} : /\ rw'[m] = rw[m] /\ applied'[m] = applied[m]
                               /\ dbAppliedIdx'[m] = dbAppliedIdx[m]
  BY <1>1 DEF ReplicaInv, DbInv
<1>3. Within(Holding(snap[n].d.committed), snap[n].index)
  <2>1. snap[n].d.committed \in Seq(Row) /\ RowsUpTo(snap[n].d.committed, snap[n].index)
    BY DEF ReplicaInv, DbInv, Within, DbState
  <2> QED BY <2>1, HoldingWithin
<1>4. Noticed'
  <2>1. ASSUME NEW m \in Node PROVE Within(rw'[m], dbAppliedIdx'[m])
    <3>1. CASE m = n
      BY <1>2, <1>3, <3>1
    <3>2. CASE m # n
      BY <1>2, <3>2 DEF ReplicaInv, Noticed
    <3> QED BY <3>1, <3>2
  <2> QED BY <2>1 DEF Noticed
<1>5. DbInv' /\ PlainLog'
  BY <1>1, DbRestartInv DEF ReplicaInv, PlainLog
<1>6. PICK H : DbHistory(H)
  BY DEF ReplicaInv
<1>11. \A m \in Node \ cut' : m \in Node \ cut
  BY <1>1
<1>12. n \notin cut' => Holding(snap[n].d.committed) = snap[n].d
  <2>1. SUFFICES ASSUME n \notin cut' PROVE Holding(snap[n].d.committed) = snap[n].d
    OBVIOUS
  <2>2. PICK d \in DbState : d = snap[n].d /\ Within(d, snap[n].index)
    BY DEF ReplicaInv, DbInv
  <2>3. ~d.open
    BY <1>1, <2>1, <2>2
  <2>4. d.view = d.committed /\ d.open = FALSE
    BY <2>2, <2>3 DEF Within, DbState
  <2>5. d = [committed |-> d.committed, view |-> d.committed, open |-> FALSE]
    BY <2>4 DEF DbState
  <2> QED BY <2>2, <2>5 DEF Holding
<1>7. ASSUME NEW m \in Node \ cut' PROVE (Timely(applied[m]) => rw[m] = H[applied[m]])'
  <2>1. PICK a : a = applied'[m]
    OBVIOUS
  <2>2. SUFFICES ASSUME Timely(a) PROVE rw'[m] = H[a]
    <3>1. Timely(applied[m])' => Timely(a)
      BY <1>1, <2>1 DEF Timely
    <3> QED BY <2>1, <3>1
  <2>3. CASE m = n
    BY <1>2, <1>6, <1>11, <1>12, <2>1, <2>2, <2>3 DEF DbHistory
  <2>4. CASE m # n
    BY <1>2, <1>6, <1>11, <2>1, <2>2, <2>4 DEF DbHistory
  <2> QED BY <2>3, <2>4
<1>8. ASSUME NEW m \in Node \ cut' PROVE (Timely(snap[m].index) => snap[m].d = H[snap[m].index])'
  BY <1>1, <1>6, <1>11 DEF DbHistory, Timely
<1>9. (H[0] = Empty)' /\ (\A j \in 1..Len(log) : H[j] = InTime(H[j - 1], log[j], j))'
  BY <1>1, <1>6 DEF DbHistory
<1>10. DbHistory(H)'
  BY <1>7, <1>8, <1>9 DEF DbHistory
<1> QED BY <1>4, <1>5, <1>10 DEF ReplicaInv

\* Every step keeps the invariant.
LEMMA ReplicaStep == ASSUME PlainRequests, ReplicaInv, [DatabaseNext]_databaseVars PROVE ReplicaInv'
<1>1. CASE UNCHANGED databaseVars
  <2>1. UNCHANGED <<log, applied, rw, dbAppliedIdx, snap, cut>>
    BY <1>1 DEF databaseVars
  <2>2. DbInv' /\ PlainLog' /\ Noticed'
    BY <1>1, <2>1, DbStep DEF ReplicaInv, PlainLog, Noticed
  <2>3. PICK H : DbHistory(H)
    BY DEF ReplicaInv
  <2>4. DbHistory(H)'
    BY <2>1, <2>3 DEF DbHistory, Timely
  <2> QED BY <2>2, <2>4 DEF ReplicaInv
<1>2. CASE \E r \in Requests : Submit(r)
  BY <1>2, ReplicaSubmit
<1>3. CASE \E n \in Node : Apply(n)
  BY <1>3, ReplicaApply
<1>4. CASE \E n \in Node : Snapshot(n)
  BY <1>4, ReplicaSnapshot
<1>5. CASE \E n \in Node : Restart(n)
  BY <1>5, ReplicaRestart
<1> QED BY <1>1, <1>2, <1>3, <1>4, <1>5 DEF DatabaseNext

\* Replicas that have applied the same entries hold the same database, and notice every
\* change they hold, for every set of nodes and requests without RANDOM() or RETURNING in
\* a unified request, every log, and whatever snapshots and restarts there are, unless a
\* node has come back from a snapshot that was taken inside a client's transaction.
THEOREM ReplicasAgreeAndNotice == ASSUME PlainRequests PROVE DatabaseSpec => []ReplicasAgree
<1>1. ReplicaInv => ReplicasAgree
  <2>1. SUFFICES ASSUME ReplicaInv PROVE ReplicasAgree
    OBVIOUS
  <2>2. PICK H : DbHistory(H)
    BY <2>1 DEF ReplicaInv
  <2>3. ASSUME NEW m \in Node \ cut, NEW n \in Node \ cut, applied[m] = applied[n],
               \A i \in 1..applied[n] : ~log[i].timeout
        PROVE  rw[m] = rw[n]
    <3>1. Timely(applied[m]) /\ Timely(applied[n])
      BY <2>3 DEF Timely
    <3> QED BY <2>2, <2>3, <3>1 DEF DbHistory
  <2>4. MutationIsNoticed
    BY <2>1 DEF ReplicaInv, Noticed, Within, RowsUpTo, MutationIsNoticed
  <2> QED BY <2>3, <2>4 DEF ReplicasAgree
<1>2. DatabaseSpec => []ReplicaInv
  BY ReplicaInitInv, ReplicaStep, PTL DEF DatabaseSpec
<1> QED BY <1>1, <1>2, PTL
=============================================================================
