-------------------------- MODULE Forwarding_proofs --------------------------
(***************************************************************************)
(* Forwarded requests, for every number of nodes, requests, connections    *)
(* and retries, and every capacity of the pool: an answer is passed on to  *)
(* the request it answers, and what is reported as done has been done, no  *)
(* more often than was allowed.                                            *)
(***************************************************************************)
EXTENDS Forwarding, FiniteSetTheorems, TLAPS

----------------------------------------------------------------------------
(* The inductive invariant.                                                *)

Pcs == {"idle", "load", "addr", "get", "write", "read", "copy", "close", "done"}
AllKinds == {"execute", "request", "load", "remove", "backup", "backupz", "query", "meta"}
Results == {"none", "ok", "error", "notleader"}
Whats == {"ok", "error", "notleader", "part", "end"}
Message == [of : Req, what : Whats]

CallState == [pc : Pcs, kind : AllKinds, addr : Member \cup {None}, conn : Conn \cup {None},
              tries : Nat, result : Results, of : Req \cup {None}, read : Seq(Whats)]
ConnState == [node : Member \cup {None}, held : BOOLEAN, alive : BOOLEAN, in : Seq(Req),
              out : Seq(Message), stream : {None} \cup (Req \X {"begin", "middle"})]

ForwardType ==
    /\ leader \in Member \cup {None} /\ hint \in Member \cup {None}
    /\ pool \in [Member -> Seq(Conn)]
    /\ conn \in [Conn -> ConnState]
    /\ call \in [Req -> CallState]
    /\ applied \in [Req -> Nat]

\* A call at pc holds a connection.
Using(pc) == pc \in {"write", "read", "copy", "close"}

\* The call c of r by itself: it knows where to go, has not tried too often, and
\* has read to its end the backup it reports.
CallSound(r, c) ==
    /\ c.conn # None <=> Using(c.pc)
    /\ Using(c.pc) \/ c.pc = "get" => c.addr \in Member
    /\ c.pc = "load" => c.kind = "load" /\ c.addr \in Member
    /\ c.tries <= MaxRetries(c.kind)
    /\ c.pc \in {"idle", "load", "addr"} => c.tries = 0
    /\ c.of \in {None, r}
    /\ c.pc \notin {"copy", "close", "done"} => c.read = << >> /\ c.of = None
    /\ c.pc \notin {"close", "done"} => c.result = "none"
    /\ c.pc = "copy" => c.kind \in Backups
    /\ c.kind = "backup" /\ c.of # None /\ c.result = "ok" => c.read = <<"part", "end">>

\* The calls that wait for their answer on k.
Awaiting(k) == {s \in Req : call[s].pc = "read" /\ call[s].conn = k}

\* There is at most one command, or one answer, on a connection w that is open at
\* this end, and it belongs to one of the calls W that wait there.
OneCommand(w, W) ==
    /\ Len(w.in) <= 1
    /\ ~ w.held => w.out = << >>
    /\ ~ w.alive => w.in = << >>
    /\ w.held /\ w.in # << >> => w.in[1] \in W /\ \A i \in 1..Len(w.out) : w.out[i].what \notin Frame
    /\ \A i \in 1..Len(w.out) : w.out[i].what \in Frame =>
          w.out[i].of \in W /\ \A j \in 1..Len(w.out) : w.out[j].what \in Frame => j = i

\* The commands of r that a node may still carry out.
Unserved(r) == {k \in Conn : conn[k].in # << >> /\ conn[k].in[1] = r}

\* How often the command of a call may have been sent.
Sends(c) == IF c.pc \in {"read", "copy", "close", "done"} THEN c.tries + 1 ELSE c.tries

Budget(r) ==
    /\ IsFiniteSet(Unserved(r))
    /\ applied[r] + Cardinality(Unserved(r)) <= Sends(call[r])

\* A write that is answered with "ok" has been applied.
OkIsApplied(r) ==
    call[r].kind \in Writes =>
      /\ call[r].result = "ok" => applied[r] > 0
      /\ \A k \in Conn : \A i \in 1..Len(conn[k].out) :
            conn[k].out[i].of = r /\ conn[k].out[i].what = "ok" => applied[r] > 0

\* The pieces of a stream, in order: those read, and those that follow the first
\* off messages of out.
Piece(i) == IF i = 1 THEN "part" ELSE "end"
Pieces(read, out, off, stream) ==
    /\ Len(read) + Len(out) <= 2 + off
    /\ \A i \in 1..Len(read) : read[i] = Piece(i)
    /\ \A i \in 1..Len(out) : i > off => out[i].what = Piece(Len(read) + i - off)
    /\ stream # None => Len(read) + Len(out) = off + (IF stream[2] = "begin" THEN 0 ELSE 1)

\* What the call c finds on its connection w: an open one, to a node; and after an
\* answer that comes first, the stream that belongs to it.
Carries(c, w) ==
    /\ w.held /\ w.node \in Member
    /\ c.pc = "read" /\ w.out # << >> /\ w.out[1].what \in Frame => Pieces(<< >>, w.out, 1, w.stream)
    /\ c.pc = "copy" => Pieces(c.read, w.out, 0, w.stream)

ForwardInv ==
    /\ ForwardType /\ Exclusive
    /\ \A k \in Conn : OneCommand(conn[k], Awaiting(k))
    /\ \A r \in Req :
          /\ CallSound(r, call[r])
          /\ Using(call[r].pc) => Carries(call[r], conn[call[r].conn])
          /\ Budget(r) /\ OkIsApplied(r)

----------------------------------------------------------------------------
(* Steps, by what they change.                                             *)

\* A call that does not wait for an answer has neither an answer nor, on an open
\* connection, a command under way.
LEMMA NothingUnderWay ==
    ASSUME ForwardInv, NEW r \in Req, call[r].pc # "read", NEW k \in Conn
    PROVE  /\ \A i \in 1..Len(conn[k].out) : conn[k].out[i].what \in Frame => conn[k].out[i].of # r
           /\ conn[k].held /\ conn[k].in # << >> => conn[k].in[1] # r
<1>1. OneCommand(conn[k], Awaiting(k)) /\ r \notin Awaiting(k)
  BY DEF ForwardInv, Awaiting
<1> QED BY <1>1 DEF OneCommand

\* A call has a connection while it uses one.
LEMMA UsesConn ==
    ASSUME ForwardInv, NEW r \in Req
    PROVE  /\ Using(call[r].pc) => call[r].conn \in Conn
           /\ ~ Using(call[r].pc) => call[r].conn = None
<1>1. CallSound(r, call[r]) /\ call[r] \in CallState
  BY DEF ForwardInv, ForwardType
<1>2. call[r].conn \in Conn \cup {None}
  BY <1>1 DEF CallState
<1> QED BY <1>1, <1>2 DEF CallSound

\* A call has sent its command so many times.
LEMMA SendsIsNat == \A c \in CallState : Sends(c) \in Nat
BY DEF CallState, Sends

\* Exclusive, as far as the calls other than r are concerned.
LEMMA OnlyOne ==
    ASSUME Exclusive, NEW r \in Req, call[r].conn # None
    PROVE  /\ \A s \in Req \ {r} : call[s].conn # call[r].conn
           /\ call[r].conn \notin Pooled(conn[call[r].conn].node)
BY DEF Exclusive

\* A step of the handler of r that is not about a connection.
LEMMA LocalStep ==
    ASSUME ForwardInv, NEW r \in Req, NEW c \in CallState, NEW n \in {0, 1},
           call' = [call EXCEPT ![r] = c], applied' = [applied EXCEPT ![r] = @ + n],
           UNCHANGED <<cluster, pool, conn>>,
           ~ Using(call[r].pc), ~ Using(c.pc), CallSound(r, c),
           n + Sends(call[r]) <= Sends(c),
           c.kind \in Writes /\ c.result = "ok" => applied[r] + n > 0
    PROVE  ForwardInv'
<1>0. /\ ForwardType /\ Exclusive
      /\ call'[r] = c /\ \A s \in Req \ {r} : call'[s] = call[s]
      /\ applied'[r] = applied[r] + n /\ \A s \in Req \ {r} : applied'[s] = applied[s]
      /\ pool' = pool /\ conn' = conn /\ leader' = leader /\ hint' = hint
  BY DEF ForwardInv, ForwardType, cluster
<1>1. ForwardType'
  <2>1. call' \in [Req -> CallState] /\ applied' \in [Req -> Nat]
    BY <1>0 DEF ForwardType
  <2> QED BY <1>0, <2>1 DEF ForwardType
<1>2. c.conn = None /\ call[r].conn = None
  BY UsesConn DEF CallSound
<1>3. \A s \in Req : call'[s].conn = call[s].conn
  BY <1>0, <1>2
<1>4. Exclusive'
  <2>1. \A m \in Member : Pooled(m)' = Pooled(m)
    BY <1>0 DEF Pooled
  <2>2. ASSUME NEW s \in Req, call'[s].conn # None
        PROVE  /\ call'[s].conn \notin Pooled(conn[call[s].conn].node)'
               /\ \A t \in Req \ {s} : call'[t].conn # call'[s].conn
    <3>1. /\ call[s].conn \notin Pooled(conn[call[s].conn].node)
          /\ \A t \in Req \ {s} : call[t].conn # call[s].conn
      BY <1>0, <1>3, <2>2 DEF Exclusive
    <3> QED BY <1>0, <1>3, <3>1 DEF Pooled
  <2> QED BY <1>0, <2>2 DEF Exclusive
<1>5. \A k \in Conn : Awaiting(k)' = Awaiting(k)
  <2> TAKE k \in Conn
  <2>1. \A s \in Req : (call'[s].pc = "read" /\ call'[s].conn = k) <=> (call[s].pc = "read" /\ call[s].conn = k)
    BY <1>0 DEF Using
  <2> QED BY <2>1 DEF Awaiting
<1>6. \A k \in Conn : OneCommand(conn[k], Awaiting(k))'
  <2> TAKE k \in Conn
  <2>1. OneCommand(conn[k], Awaiting(k))
    BY DEF ForwardInv
  <2>2. conn'[k] = conn[k] /\ Awaiting(k)' = Awaiting(k)
    BY <1>0, <1>5
  <2> QED BY <2>1, <2>2 DEF OneCommand
<1>7. ASSUME NEW s \in Req
      PROVE  /\ CallSound(s, call[s])'
             /\ (Using(call[s].pc) => Carries(call[s], conn[call[s].conn]))'
             /\ Budget(s)' /\ OkIsApplied(s)'
  <2>0. /\ CallSound(s, call[s]) /\ (Using(call[s].pc) => Carries(call[s], conn[call[s].conn]))
        /\ Budget(s) /\ OkIsApplied(s)
    BY DEF ForwardInv
  <2>a. Unserved(s)' = Unserved(s)
    BY <1>0 DEF Unserved
  <2>1. CASE s # r
    <3>1. call'[s] = call[s] /\ conn' = conn /\ applied'[s] = applied[s]
      BY <1>0, <2>1
    <3>2. Budget(s)'
      BY <2>0, <2>a, <3>1 DEF Budget, Sends
    <3> QED BY <2>0, <3>1, <3>2 DEF CallSound, Carries, OkIsApplied
  <2>2. CASE s = r
    <3>1. call'[s] = c /\ conn' = conn /\ applied'[s] = applied[s] + n
      BY <1>0, <2>2
    <3>2. Budget(s)'
      <4>1. applied[s] \in Nat /\ n \in Nat /\ Sends(call[s]) \in Nat /\ Sends(c) \in Nat
        BY <1>0, SendsIsNat DEF ForwardType
      <4>2. Cardinality(Unserved(s)) \in Nat
        BY <2>0, FS_CardinalityType DEF Budget
      <4>3. Sends(call[s])' = Sends(c)
        BY <3>1 DEF Sends
      <4>4. Budget(s)' <=> IsFiniteSet(Unserved(s)) /\ applied[s] + n + Cardinality(Unserved(s)) <= Sends(c)
        BY <2>a, <3>1, <4>3 DEF Budget
      <4>5. IsFiniteSet(Unserved(s)) /\ applied[s] + Cardinality(Unserved(s)) <= Sends(call[s])
        BY <2>0 DEF Budget
      <4>6. n + Sends(call[s]) <= Sends(c)
        BY <2>2
      <4> QED BY <4>1, <4>2, <4>4, <4>5, <4>6
    <3>3. OkIsApplied(s)'
      <4>1. \A k \in Conn : \A i \in 1..Len(conn[k].out) : ~ (conn[k].out[i].of = r /\ conn[k].out[i].what = "ok")
        BY NothingUnderWay DEF Frame, Using
      <4> QED BY <2>2, <3>1, <4>1 DEF OkIsApplied
    <3>4. ~ Using(call'[s].pc)
      BY <3>1
    <3> QED BY <2>2, <3>1, <3>2, <3>3, <3>4 DEF CallSound
  <2> QED BY <2>1, <2>2
<1> QED BY <1>1, <1>4, <1>6, <1>7 DEF ForwardInv

\* Exclusive speaks of the node and this end of a connection only.
LEMMA SameExclusive ==
    ASSUME ForwardInv, call' = call, pool' = pool,
           \A j \in Conn : conn'[j].node = conn[j].node /\ conn'[j].held = conn[j].held
    PROVE  Exclusive'
<1>0. Exclusive /\ pool \in [Member -> Seq(Conn)] /\ \A s \in Req : call[s].conn \in Conn \cup {None}
  BY DEF ForwardInv, ForwardType, CallState
<1>1. ASSUME NEW s \in Req, call[s].conn # None
      PROVE  /\ call[s].conn \notin Pooled(conn[call[s].conn].node)'
             /\ \A t \in Req \ {s} : call[t].conn # call[s].conn
  <2>1. conn'[call[s].conn].node = conn[call[s].conn].node
    BY <1>0, <1>1
  <2>2. call[s].conn \notin Pooled(conn[call[s].conn].node) /\ \A t \in Req \ {s} : call[t].conn # call[s].conn
    BY <1>0, <1>1 DEF Exclusive
  <2> QED BY <2>1, <2>2 DEF Pooled
<1>2. ASSUME NEW n \in Member, NEW i \in DOMAIN pool[n], NEW j \in DOMAIN pool[n]
      PROVE  /\ i # j => pool[n][i] # pool[n][j]
             /\ conn'[pool[n][i]].held /\ conn'[pool[n][i]].node = n
  <2>1. pool[n][i] \in Conn
    BY <1>0
  <2> QED BY <1>0, <2>1 DEF Exclusive
<1> QED BY <1>1, <1>2 DEF Exclusive

\* A step of the handler of r on the connection k, which no other call has: it sends
\* its command, or reads, or lets the connection go.
LEMMA ClientStep ==
    ASSUME ForwardInv, NEW r \in Req, NEW k \in Conn, NEW c \in CallState, NEW w \in ConnState,
           call' = [call EXCEPT ![r] = c], conn' = [conn EXCEPT ![k] = w],
           UNCHANGED <<cluster, applied>>, pool' \in [Member -> Seq(Conn)], Exclusive',
           \A s \in Req \ {r} : call[s].conn # k,
           call[r].conn \in {None, k}, c.conn \in {None, k}, c.kind = call[r].kind,
           CallSound(r, c), Using(c.pc) => Carries(c, w),
           OneCommand(w, IF c.pc = "read" THEN {r} ELSE {}),
           \/ w.in = conn[k].in /\ Sends(c) >= Sends(call[r])
           \/ conn[k].in = << >> /\ w.in = <<r>> /\ Sends(c) = Sends(call[r]) + 1,
           \A i \in 1..Len(w.out) : \E j \in 1..Len(conn[k].out) : w.out[i] = conn[k].out[j],
           c.kind \in Writes /\ c.result = "ok" => applied[r] > 0
    PROVE  ForwardInv'
<1>0. /\ ForwardType /\ Exclusive /\ None \notin Conn
      /\ call'[r] = c /\ \A s \in Req \ {r} : call'[s] = call[s]
      /\ conn'[k] = w /\ \A j \in Conn \ {k} : conn'[j] = conn[j]
      /\ applied' = applied /\ leader' = leader /\ hint' = hint
  BY ForwardingAssumption DEF ForwardInv, ForwardType, cluster
<1>1. ForwardType'
  <2>1. call' \in [Req -> CallState] /\ conn' \in [Conn -> ConnState]
    BY <1>0 DEF ForwardType
  <2> QED BY <1>0, <2>1 DEF ForwardType
<1>2. Awaiting(k)' = IF c.pc = "read" THEN {r} ELSE {}
  <2>1. c.pc = "read" => c.conn = k
    BY DEF CallSound, Using
  <2>2. \A s \in Req : (call'[s].pc = "read" /\ call'[s].conn = k) <=> (s = r /\ c.pc = "read")
    BY <1>0, <2>1
  <2> QED BY <2>2 DEF Awaiting
<1>3. \A j \in Conn \ {k} : Awaiting(j)' = Awaiting(j)
  <2> TAKE j \in Conn \ {k}
  <2>1. \A s \in Req : (call'[s].pc = "read" /\ call'[s].conn = j) <=> (call[s].pc = "read" /\ call[s].conn = j)
    BY <1>0
  <2> QED BY <2>1 DEF Awaiting
<1>4. \A j \in Conn : OneCommand(conn[j], Awaiting(j))'
  <2> TAKE j \in Conn
  <2>1. CASE j = k
    <3>1. conn'[j] = w /\ Awaiting(j)' = IF c.pc = "read" THEN {r} ELSE {}
      BY <1>0, <1>2, <2>1
    <3> QED BY <3>1 DEF OneCommand
  <2>2. CASE j # k
    <3>1. conn'[j] = conn[j] /\ Awaiting(j)' = Awaiting(j) /\ OneCommand(conn[j], Awaiting(j))
      BY <1>0, <1>3, <2>2 DEF ForwardInv
    <3> QED BY <3>1 DEF OneCommand
  <2> QED BY <2>1, <2>2
<1>5. ASSUME NEW s \in Req PROVE Budget(s)'
  <2>0. IsFiniteSet(Unserved(s)) /\ applied[s] + Cardinality(Unserved(s)) <= Sends(call[s])
    BY DEF ForwardInv, Budget
  <2>1. applied[s] \in Nat /\ Sends(call[s]) \in Nat /\ Sends(c) \in Nat /\ Cardinality(Unserved(s)) \in Nat
    BY <1>0, <2>0, SendsIsNat, FS_CardinalityType DEF ForwardType
  <2>2. Sends(call[s])' = IF s = r THEN Sends(c) ELSE Sends(call[s])
    BY <1>0 DEF Sends
  <2>3. CASE w.in = conn[k].in /\ Sends(c) >= Sends(call[r])
    <3>1. \A j \in Conn : conn'[j].in = conn[j].in
      BY <1>0, <2>3
    <3>2. Unserved(s)' = Unserved(s)
      BY <3>1 DEF Unserved
    <3> QED BY <1>0, <2>0, <2>1, <2>2, <2>3, <3>2 DEF Budget
  <2>4. CASE conn[k].in = << >> /\ w.in = <<r>> /\ Sends(c) = Sends(call[r]) + 1
    <3>0. w.in # << >> /\ w.in[1] = r
      BY <2>4
    <3>1. \A j \in Conn : (conn'[j].in # << >> /\ conn'[j].in[1] = s) <=>
                             ((conn[j].in # << >> /\ conn[j].in[1] = s) \/ (j = k /\ s = r))
      BY <1>0, <2>4, <3>0
    <3>2. Unserved(s)' = IF s = r THEN Unserved(s) \cup {k} ELSE Unserved(s)
      BY <3>1 DEF Unserved
    <3>3. CASE s # r
      <4>1. Unserved(s)' = Unserved(s) /\ Sends(call[s])' = Sends(call[s])
        BY <2>2, <3>2, <3>3
      <4> QED BY <1>0, <2>0, <4>1 DEF Budget
    <3>4. CASE s = r
      <4>1. Unserved(s)' = Unserved(s) \cup {k} /\ Sends(call[s])' = Sends(call[s]) + 1
        BY <2>2, <2>4, <3>2, <3>4
      <4>2. k \notin Unserved(s)
        BY <2>4 DEF Unserved
      <4>3. IsFiniteSet(Unserved(s) \cup {k}) /\ Cardinality(Unserved(s) \cup {k}) = Cardinality(Unserved(s)) + 1
        BY <2>0, <4>2, FS_AddElement
      <4> QED BY <1>0, <2>0, <2>1, <4>1, <4>3 DEF Budget
    <3> QED BY <3>3, <3>4
  <2> QED BY <2>3, <2>4
<1>6. ASSUME NEW s \in Req PROVE OkIsApplied(s)'
  <2>0. OkIsApplied(s) /\ call'[s].kind = call[s].kind
    BY <1>0 DEF ForwardInv
  <2>1. ASSUME call'[s].kind \in Writes, NEW j \in Conn, NEW i \in 1..Len(conn'[j].out),
               conn'[j].out[i].of = s, conn'[j].out[i].what = "ok"
        PROVE  applied[s] > 0
    <3>1. PICK m \in 1..Len(conn[j].out) : conn'[j].out[i] = conn[j].out[m]
      <4>1. CASE j = k
        BY <1>0, <4>1
      <4>2. CASE j # k
        <5>1. conn'[j] = conn[j]
          BY <1>0, <4>2
        <5> QED BY <5>1
      <4> QED BY <4>1, <4>2
    <3> QED BY <2>0, <2>1, <3>1 DEF OkIsApplied
  <2>2. call'[s].kind \in Writes /\ call'[s].result = "ok" => applied[s] > 0
    BY <1>0, <2>0 DEF OkIsApplied
  <2> QED BY <1>0, <2>1, <2>2 DEF OkIsApplied
<1>7. ASSUME NEW s \in Req
      PROVE  CallSound(s, call[s])' /\ (Using(call[s].pc) => Carries(call[s], conn[call[s].conn]))'
  <2>1. CASE s = r
    <3>1. call'[s] = c /\ (Using(c.pc) => c.conn = k)
      BY <1>0, <2>1 DEF CallSound
    <3>2. Using(c.pc) => conn'[call'[s].conn] = w
      BY <1>0, <3>1
    <3> QED BY <2>1, <3>1, <3>2 DEF CallSound, Carries
  <2>2. CASE s # r
    <3>1. call'[s] = call[s] /\ call[s].conn # k
      BY <1>0, <2>2
    <3>2. CallSound(s, call[s]) /\ (Using(call[s].pc) => Carries(call[s], conn[call[s].conn]))
      BY DEF ForwardInv
    <3>3. Using(call[s].pc) => conn'[call'[s].conn] = conn[call[s].conn]
      BY <1>0, <3>1, UsesConn
    <3> QED BY <3>1, <3>2, <3>3 DEF CallSound, Carries
  <2> QED BY <2>1, <2>2
<1> QED BY <1>1, <1>4, <1>5, <1>6, <1>7 DEF ForwardInv

\* A step of the node at the other end of k, which becomes w; it may carry out and
\* answer the command of r, and does so n times.
Serves(k, w, r, n) ==
    /\ conn' = [conn EXCEPT ![k] = w] /\ applied' = [applied EXCEPT ![r] = @ + n]
    /\ UNCHANGED <<cluster, pool, call>>
    /\ w.node = conn[k].node /\ w.held = conn[k].held
    /\ OneCommand(w, Awaiting(k))
    /\ \A s \in Req : Using(call[s].pc) /\ call[s].conn = k => Carries(call[s], w)
    /\ w.in = conn[k].in \/ w.in = << >>
    /\ n = 1 => conn[k].in # << >> /\ conn[k].in[1] = r /\ w.in = << >>
    /\ \A i \in 1..Len(w.out) :
          \/ \E j \in 1..Len(conn[k].out) : w.out[i] = conn[k].out[j]
          \/ w.out[i].what = "ok" => w.out[i].of = r /\ (call[r].kind \in Writes => n = 1)

\* Such a step keeps the invariant.
LEMMA ServerStep ==
    ASSUME ForwardInv, NEW k \in Conn, NEW w \in ConnState, NEW r \in Req, NEW n \in {0, 1},
           Serves(k, w, r, n)
    PROVE  ForwardInv'
<1> USE DEF Serves
<1>0. /\ ForwardType /\ Exclusive
      /\ applied'[r] = applied[r] + n /\ \A s \in Req \ {r} : applied'[s] = applied[s]
      /\ conn'[k] = w /\ \A j \in Conn \ {k} : conn'[j] = conn[j]
      /\ call' = call /\ pool' = pool /\ leader' = leader /\ hint' = hint
  BY DEF ForwardInv, ForwardType, cluster
<1>1. ForwardType'
  <2>1. applied' \in [Req -> Nat] /\ conn' \in [Conn -> ConnState]
    BY <1>0 DEF ForwardType
  <2> QED BY <1>0, <2>1 DEF ForwardType
<1>2. \A j \in Conn : conn'[j].node = conn[j].node /\ conn'[j].held = conn[j].held
  BY <1>0
<1>3. Exclusive'
  BY <1>0, <1>2, SameExclusive
<1>4. \A j \in Conn : OneCommand(conn[j], Awaiting(j))'
  <2> TAKE j \in Conn
  <2>0. Awaiting(j)' = Awaiting(j) /\ OneCommand(conn[j], Awaiting(j))
    BY <1>0 DEF Awaiting, ForwardInv
  <2>1. conn'[j] = IF j = k THEN w ELSE conn[j]
    BY <1>0
  <2> QED BY <2>0, <2>1 DEF OneCommand
<1>5. ASSUME NEW s \in Req PROVE Budget(s)'
  <2>0. IsFiniteSet(Unserved(s)) /\ applied[s] + Cardinality(Unserved(s)) <= Sends(call[s])
    BY DEF ForwardInv, Budget
  <2>1. applied[s] \in Nat /\ Sends(call[s]) \in Nat /\ Cardinality(Unserved(s)) \in Nat
    BY <1>0, <2>0, SendsIsNat, FS_CardinalityType DEF ForwardType
  <2>2. Sends(call[s])' = Sends(call[s])
    BY <1>0 DEF Sends
  <2>3. CASE s = r /\ n = 1
    <3>1. k \in Unserved(s) /\ k \notin Unserved(s)'
      BY <1>0, <2>3 DEF Unserved
    <3>2. Unserved(s)' = Unserved(s) \ {k}
      <4>1. \A j \in Conn \ {k} : j \in Unserved(s)' <=> j \in Unserved(s)
        BY <1>0 DEF Unserved
      <4> QED BY <3>1, <4>1 DEF Unserved
    <3>3. IsFiniteSet(Unserved(s) \ {k}) /\ Cardinality(Unserved(s) \ {k}) = Cardinality(Unserved(s)) - 1
      BY <2>0, <3>1, FS_RemoveElement
    <3>4. applied'[s] = applied[s] + 1
      BY <1>0, <2>3
    <3> QED BY <2>0, <2>1, <2>2, <3>2, <3>3, <3>4 DEF Budget
  <2>4. CASE ~ (s = r /\ n = 1)
    <3>1. Unserved(s)' \subseteq Unserved(s)
      <4>1. \A j \in Conn : j \in Unserved(s)' => j \in Unserved(s)
        BY <1>0 DEF Unserved
      <4> QED BY <4>1 DEF Unserved
    <3>2. IsFiniteSet(Unserved(s)') /\ Cardinality(Unserved(s)') <= Cardinality(Unserved(s))
      BY <2>0, <3>1, FS_Subset
    <3>3. applied'[s] = applied[s]
      BY <1>0, <2>1, <2>4
    <3>4. Cardinality(Unserved(s)') \in Nat
      BY <3>2, FS_CardinalityType
    <3> QED BY <2>0, <2>1, <2>2, <3>2, <3>3, <3>4 DEF Budget
  <2> QED BY <2>3, <2>4
<1>6. ASSUME NEW s \in Req PROVE OkIsApplied(s)'
  <2>0. OkIsApplied(s) /\ call'[s] = call[s] /\ applied[s] \in Nat
    BY <1>0 DEF ForwardInv, ForwardType
  <2>a. applied'[s] >= applied[s]
    BY <1>0, <2>0
  <2>1. ASSUME call[s].kind \in Writes, NEW j \in Conn, NEW i \in 1..Len(conn'[j].out),
               conn'[j].out[i].of = s, conn'[j].out[i].what = "ok"
        PROVE  applied'[s] > 0
    <3>1. CASE \E m \in 1..Len(conn[j].out) : conn'[j].out[i] = conn[j].out[m]
      <4>1. PICK m \in 1..Len(conn[j].out) : conn'[j].out[i] = conn[j].out[m]
        BY <3>1
      <4>2. applied[s] > 0
        BY <2>0, <2>1, <4>1 DEF OkIsApplied
      <4>3. applied'[s] \in Nat
        BY <1>1 DEF ForwardType
      <4> QED BY <2>0, <2>a, <4>2, <4>3
    <3>2. CASE j = k /\ ~ \E m \in 1..Len(conn[j].out) : conn'[j].out[i] = conn[j].out[m]
      <4>1. s = r /\ n = 1
        BY <1>0, <2>1, <3>2
      <4> QED BY <1>0, <2>0, <4>1
    <3>3. CASE j # k
      <4>1. conn'[j] = conn[j]
        BY <1>0, <3>3
      <4> QED BY <3>1, <4>1
    <3> QED BY <3>1, <3>2, <3>3
  <2>2. call[s].kind \in Writes /\ call[s].result = "ok" => applied'[s] > 0
    <3>1. applied'[s] \in Nat
      BY <1>1 DEF ForwardType
    <3> QED BY <2>0, <2>a, <3>1 DEF OkIsApplied
  <2> QED BY <2>0, <2>1, <2>2 DEF OkIsApplied
<1>7. ASSUME NEW s \in Req
      PROVE  CallSound(s, call[s])' /\ (Using(call[s].pc) => Carries(call[s], conn[call[s].conn]))'
  <2>0. CallSound(s, call[s]) /\ (Using(call[s].pc) => Carries(call[s], conn[call[s].conn]))
    BY DEF ForwardInv
  <2>1. call'[s] = call[s]
    BY <1>0
  <2>2. CASE call[s].conn = k
    <3>1. conn'[call'[s].conn] = w
      BY <1>0, <2>1, <2>2
    <3> QED BY <2>0, <2>1, <2>2, <3>1 DEF CallSound, Carries
  <2>3. CASE call[s].conn # k
    <3>1. Using(call[s].pc) => conn'[call'[s].conn] = conn[call[s].conn]
      BY <1>0, <2>1, <2>3, UsesConn
    <3> QED BY <2>0, <2>1, <3>1 DEF CallSound, Carries
  <2> QED BY <2>2, <2>3
<1> QED BY <1>1, <1>3, <1>4, <1>5, <1>6, <1>7 DEF ForwardInv

----------------------------------------------------------------------------
(* The handlers.                                                           *)

\* What a Store answers: a write it reports as done, it has applied, and one that it
\* is not the leader for, it has not.
LEMMA Outcomes ==
    ASSUME NEW n, NEW kind \in AllKinds, NEW o \in Outcome(n, kind) \cup AnyNode(kind)
    PROVE  /\ o[1] \in Frame /\ o[2] \in {0, 1}
           /\ kind \in Writes /\ o[1] = "ok" => o[2] = 1
           /\ o[1] = "notleader" => o[2] = 0
BY DEF Outcome, AnyNode, Frame, AllKinds, Writes, Backups

\* The retries a client may ask for.
LEMMA RetriesAreNat == ASSUME NEW kind PROVE MaxRetries(kind) \in Nat
BY ForwardingAssumption DEF MaxRetries

\* A call that has come no further than its handler.
LEMMA Untried ==
    ASSUME ForwardInv, NEW r \in Req, call[r].pc \in {"idle", "load", "addr"}
    PROVE  /\ call[r] \in CallState /\ ~ Using(call[r].pc) /\ Sends(call[r]) = 0
           /\ call[r].conn = None /\ call[r].tries = 0 /\ call[r].of = None
           /\ call[r].read = << >> /\ call[r].result = "none"
           /\ call[r].pc = "load" => call[r].addr \in Member
<1>1. CallSound(r, call[r]) /\ call[r] \in CallState
  BY DEF ForwardInv, ForwardType
<1> QED BY <1>1 DEF CallSound, Using, Sends

\* A handler that changes no more than its own place and kind.
LEMMA Moves ==
    ASSUME ForwardInv, NEW r \in Req, call[r].pc \in {"idle", "load", "addr"},
           NEW n \in {0, 1}, NEW c \in CallState, c.pc \in {"load", "addr", "get", "done"},
           c.conn = call[r].conn, c.tries = call[r].tries, c.of = call[r].of, c.read = call[r].read,
           call' = [call EXCEPT ![r] = c], applied' = [applied EXCEPT ![r] = @ + n],
           UNCHANGED <<cluster, pool, conn>>,
           c.pc = "get" => c.addr \in Member, c.pc = "load" => c.kind = "load" /\ c.addr \in Member,
           c.pc # "done" => n = 0 /\ c.result = "none",
           c.kind \in Writes /\ c.result = "ok" => n = 1
    PROVE  ForwardInv'
<1>0. /\ call[r] \in CallState /\ ~ Using(call[r].pc) /\ Sends(call[r]) = 0
      /\ call[r].conn = None /\ call[r].tries = 0 /\ call[r].of = None
      /\ call[r].read = << >> /\ call[r].result = "none"
  BY Untried
<1>1. c.conn = None /\ c.tries = 0 /\ c.of = None /\ c.read = << >>
  BY <1>0
<1>2. CallSound(r, c) /\ ~ Using(c.pc)
  BY <1>1, RetriesAreNat DEF CallSound, Using
<1>3. n + Sends(call[r]) <= Sends(c)
  BY <1>0, <1>1 DEF Sends
<1>4. c.kind \in Writes /\ c.result = "ok" => applied[r] + n > 0
  BY <1>1 DEF ForwardInv, ForwardType
<1> QED BY <1>0, <1>1, <1>2, <1>3, <1>4, LocalStep

\* An assignment that leaves applied alone.
LEMMA NoneApplied ==
    ASSUME ForwardInv, NEW r \in Req, applied' = applied
    PROVE  applied' = [applied EXCEPT ![r] = @ + 0]
<1>1. applied \in [Req -> Nat]
  BY DEF ForwardInv, ForwardType
<1> QED BY <1>1

\* The local Store is tried.
LEMMA TryStoreInv ==
    ASSUME ForwardInv, NEW r \in Req, NEW kind \in AllKinds \ {"meta"}, NEW next \in {"addr", "get"},
           call[r].pc = (IF next = "get" THEN "load" ELSE "idle"), TryStore(r, kind, next)
    PROVE  ForwardInv'
<1>0. call[r].pc \in {"idle", "load", "addr"} /\ (next = "get" => call[r].addr \in Member)
  BY Untried
<1>a. call[r] \in CallState /\ call[r].addr \in Member \cup {None} /\ call[r].result = "none"
      /\ call \in [Req -> CallState] /\ applied \in [Req -> Nat]
  BY <1>0, Untried DEF CallState, ForwardInv, ForwardType
<1>1. UNCHANGED <<cluster, pool, conn>>
  BY DEF TryStore
<1>2. PICK o \in Outcome(Here, kind) \cup AnyNode(kind) :
        /\ applied' = [applied EXCEPT ![r] = @ + o[2]]
        /\ IF o[1] = "notleader" THEN NotLeader(r, kind, next)
           ELSE call' = [call EXCEPT ![r].kind = kind, ![r].pc = "done", ![r].result = o[1]]
  BY DEF TryStore
<1>3. /\ o[1] \in Frame /\ o[2] \in {0, 1}
      /\ kind \in Writes /\ o[1] = "ok" => o[2] = 1
      /\ o[1] = "notleader" => o[2] = 0
  BY Outcomes
<1>4. CASE o[1] # "notleader"
  <2>1. PICK c : c = [call[r] EXCEPT !.kind = kind, !.pc = "done", !.result = o[1]]
    OBVIOUS
  <2>2. /\ c \in CallState /\ c.kind = kind /\ c.addr = call[r].addr /\ c.pc = "done" /\ c.result = o[1]
        /\ c.conn = call[r].conn /\ c.tries = call[r].tries /\ c.of = call[r].of /\ c.read = call[r].read
    BY <1>3, <1>a, <2>1 DEF CallState, Pcs, Results, Frame, AllKinds
  <2>3. call' = [call EXCEPT ![r] = c]
    BY <1>2, <1>4, <1>a, <2>1
  <2> QED BY <1>0, <1>1, <1>2, <1>3, <2>2, <2>3, Moves
<1>5. CASE o[1] = "notleader"
  <2>1. NotLeader(r, kind, next)
    BY <1>2, <1>5
  <2>2. PICK nk \in AllKinds, np \in {"addr", "get"} :
           /\ call' = [call EXCEPT ![r].kind = nk, ![r].pc = np]
           /\ np = "get" => next = "get"
    BY <2>1 DEF NotLeader, AllKinds
  <2>3. PICK c : c = [call[r] EXCEPT !.kind = nk, !.pc = np]
    OBVIOUS
  <2>4. /\ c \in CallState /\ c.kind = nk /\ c.addr = call[r].addr /\ c.pc = np /\ c.result = "none"
        /\ c.conn = call[r].conn /\ c.tries = call[r].tries /\ c.of = call[r].of /\ c.read = call[r].read
    BY <1>a, <2>2, <2>3 DEF CallState, Pcs, Results, Frame, AllKinds
  <2>5. call' = [call EXCEPT ![r] = c]
    BY <1>a, <2>2, <2>3
  <2>6. o[2] = 0
    BY <1>3, <1>5
  <2>7. np = "get" => call[r].addr \in Member
    BY <1>0, <2>2
  <2> QED BY <1>0, <1>1, <1>2, <1>3, <2>4, <2>5, <2>6, <2>7, Moves
<1> QED BY <1>4, <1>5

\* The handlers of the HTTP service, up to the call of the cluster client.
LEMMA HandlersInv ==
    ASSUME ForwardInv, NEW r \in Req,
           \/ execute(r) \/ handleQuery(r) \/ handleRequest(r) \/ handleRemove(r)
           \/ handleBackup(r) \/ Load(r)
    PROVE  ForwardInv'
<1>1. CASE execute(r) \/ handleQuery(r) \/ handleRequest(r) \/ handleRemove(r) \/ handleBackup(r)
  <2>1. PICK kind \in {"execute", "query", "request", "remove", "backup", "backupz"} :
           Arrives(r, kind) /\ TryStore(r, kind, "addr")
    BY <1>1 DEF execute, handleQuery, handleRequest, handleRemove, handleBackup, Backups
  <2>2. kind \in AllKinds \ {"meta"} /\ call[r].pc = "idle"
    BY <2>1 DEF AllKinds, Arrives
  <2> QED BY <2>1, <2>2, TryStoreInv
<1>2. CASE Load(r)
  <2>1. call[r].pc = "load" /\ TryStore(r, "load", "get") /\ "load" \in AllKinds \ {"meta"}
    BY <1>2 DEF Load, AllKinds
  <2> QED BY <2>1, TryStoreInv
<1> QED BY <1>1, <1>2

\* handleLoad.
LEMMA HandleLoadInv ==
    ASSUME ForwardInv, NEW r \in Req, handleLoad(r)
    PROVE  ForwardInv'
<1>0. call[r].pc = "idle" /\ UNCHANGED <<cluster, pool, conn>> /\ applied' = applied
  BY DEF handleLoad, Arrives
<1>a. call[r] \in CallState /\ call[r].addr \in Member \cup {None} /\ call[r].kind \in AllKinds /\ call[r].result = "none"
      /\ call \in [Req -> CallState] /\ hint \in Member \cup {None}
  BY <1>0, Untried DEF CallState, ForwardInv, ForwardType
<1>b. applied' = [applied EXCEPT ![r] = @ + 0]
  BY <1>0, NoneApplied
<1>1. CASE hint = None
  <2>0. call' = [call EXCEPT ![r].pc = "done", ![r].result = "error"]
    BY <1>1 DEF handleLoad, FinishCall
  <2>1. PICK c : c = [call[r] EXCEPT !.pc = "done", !.result = "error"]
    OBVIOUS
  <2>2. /\ c \in CallState /\ c.kind = call[r].kind /\ c.addr = call[r].addr /\ c.pc = "done" /\ c.result = "error"
        /\ c.conn = call[r].conn /\ c.tries = call[r].tries /\ c.of = call[r].of /\ c.read = call[r].read
    BY <1>a, <2>1 DEF CallState, Pcs, Results, Frame, AllKinds
  <2>3. call' = [call EXCEPT ![r] = c]
    BY <1>a, <2>0, <2>1
  <2> QED BY <1>0, <1>b, <2>2, <2>3, Moves
<1>2. CASE hint # None
  <2>0. call' = [call EXCEPT ![r].addr = hint, ![r].pc = "load", ![r].kind = "load"]
    BY <1>2 DEF handleLoad
  <2>1. PICK c : c = [call[r] EXCEPT !.addr = hint, !.pc = "load", !.kind = "load"]
    OBVIOUS
  <2>2. /\ c \in CallState /\ c.kind = "load" /\ c.addr = hint /\ c.pc = "load" /\ c.result = "none"
        /\ c.conn = call[r].conn /\ c.tries = call[r].tries /\ c.of = call[r].of /\ c.read = call[r].read
    BY <1>a, <2>1 DEF CallState, Pcs, Results, Frame, AllKinds
  <2>3. call' = [call EXCEPT ![r] = c]
    BY <1>a, <2>0, <2>1
  <2> QED BY <1>0, <1>2, <1>a, <1>b, <2>2, <2>3, Moves
<1> QED BY <1>1, <1>2

\* The leader's address is looked up.
LEMMA LeaderAddrInv ==
    ASSUME ForwardInv, NEW r \in Req, LeaderAddr(r)
    PROVE  ForwardInv'
<1>0. call[r].pc = "addr" /\ UNCHANGED <<cluster, pool, conn>> /\ applied' = applied
  BY DEF LeaderAddr
<1>a. call[r] \in CallState /\ call[r].addr \in Member \cup {None} /\ call[r].kind \in AllKinds /\ call[r].result = "none"
      /\ call \in [Req -> CallState] /\ hint \in Member \cup {None}
  BY <1>0, Untried DEF CallState, ForwardInv, ForwardType
<1>b. applied' = [applied EXCEPT ![r] = @ + 0]
  BY <1>0, NoneApplied
<1>1. ASSUME NEW res \in {"ok", "error"}, call' = [call EXCEPT ![r].pc = "done", ![r].result = res],
             res = "ok" => call[r].kind = "meta"
      PROVE  ForwardInv'
  <2>1. PICK c : c = [call[r] EXCEPT !.pc = "done", !.result = res]
    OBVIOUS
  <2>2. /\ c \in CallState /\ c.kind = call[r].kind /\ c.addr = call[r].addr /\ c.pc = "done" /\ c.result = res
        /\ c.conn = call[r].conn /\ c.tries = call[r].tries /\ c.of = call[r].of /\ c.read = call[r].read
    BY <1>1, <1>a, <2>1 DEF CallState, Pcs, Results, Frame, AllKinds
  <2>3. call' = [call EXCEPT ![r] = c]
    BY <1>a, <1>1, <2>1
  <2>4. ~ (call[r].kind \in Writes /\ res = "ok")
    BY <1>1 DEF Writes
  <2> QED BY <1>0, <1>b, <2>2, <2>3, <2>4, Moves
<1>2. ASSUME hint # None, call' = [call EXCEPT ![r].addr = hint, ![r].pc = "get"]
      PROVE  ForwardInv'
  <2>1. PICK c : c = [call[r] EXCEPT !.addr = hint, !.pc = "get"]
    OBVIOUS
  <2>2. /\ c \in CallState /\ c.kind = call[r].kind /\ c.addr = hint /\ c.pc = "get" /\ c.result = "none"
        /\ c.conn = call[r].conn /\ c.tries = call[r].tries /\ c.of = call[r].of /\ c.read = call[r].read
    BY <1>a, <2>1 DEF CallState, Pcs, Results, Frame, AllKinds
  <2>3. call' = [call EXCEPT ![r] = c]
    BY <1>a, <1>2, <2>1
  <2> QED BY <1>0, <1>2, <1>a, <1>b, <2>2, <2>3, Moves
<1>3. \/ call' = [call EXCEPT ![r].pc = "done", ![r].result = "error"]
      \/ call[r].kind = "meta" /\ call' = [call EXCEPT ![r].pc = "done", ![r].result = "ok"]
      \/ hint # None /\ call' = [call EXCEPT ![r].addr = hint, ![r].pc = "get"]
  BY DEF LeaderAddr, FinishCall
<1> QED BY <1>1, <1>2, <1>3

----------------------------------------------------------------------------
(* The cluster client and its pool.                                        *)

\* What a call knows of its connection k: no other call has it and no pool, and the
\* command or the answer that is under way there is its own.
LEMMA Mine ==
    ASSUME ForwardInv, NEW r \in Req, Using(call[r].pc), NEW k, k = call[r].conn
    PROVE  /\ k \in Conn /\ conn[k] \in ConnState /\ call[r] \in CallState
           /\ \A s \in Req \ {r} : call[s].conn # k
           /\ \A n \in Member : k \notin Pooled(n)
           /\ OneCommand(conn[k], IF call[r].pc = "read" THEN {r} ELSE {})
           /\ Carries(call[r], conn[k]) /\ CallSound(r, call[r])
<1>1. k \in Conn /\ call[r].conn # None
  BY UsesConn, ForwardingAssumption
<1>2. Exclusive /\ ForwardType /\ Carries(call[r], conn[k]) /\ CallSound(r, call[r]) /\ OneCommand(conn[k], Awaiting(k))
  BY <1>1 DEF ForwardInv
<1>3. (\A s \in Req \ {r} : call[s].conn # k) /\ k \notin Pooled(conn[k].node)
  BY <1>1, <1>2, OnlyOne
<1>4. ASSUME NEW n \in Member PROVE k \notin Pooled(n)
  <2>1. SUFFICES ASSUME NEW i \in DOMAIN pool[n], pool[n][i] = k PROVE FALSE
    BY DEF Pooled
  <2>2. conn[k].node = n
    BY <1>2, <2>1 DEF Exclusive
  <2> QED BY <1>3, <2>1, <2>2 DEF Pooled
<1>5. Awaiting(k) = IF call[r].pc = "read" THEN {r} ELSE {}
  <2>1. \A s \in Req : (call[s].pc = "read" /\ call[s].conn = k) <=> (s = r /\ call[r].pc = "read")
    BY <1>3
  <2> QED BY <2>1 DEF Awaiting
<1>6. conn[k] \in ConnState /\ call[r] \in CallState
  BY <1>1, <1>2 DEF ForwardType
<1> QED BY <1>1, <1>2, <1>3, <1>4, <1>5, <1>6

\* The call of r keeps its connection or lets it go.
LEMMA KeepsOrDrops ==
    ASSUME ForwardInv, NEW r \in Req, Using(call[r].pc), NEW k, k = call[r].conn,
           pool' = pool, call'[r].conn \in {None, k}, \A s \in Req \ {r} : call'[s] = call[s],
           \A j \in Conn : conn'[j].node = conn[j].node,
           \A j \in Conn \ {k} : conn'[j].held = conn[j].held
    PROVE  Exclusive'
<1>0. /\ k \in Conn /\ (\A s \in Req \ {r} : call[s].conn # k)
      /\ \A n \in Member : k \notin Pooled(n)
  BY Mine
<1>a. Exclusive /\ pool \in [Member -> Seq(Conn)] /\ \A s \in Req : call[s].conn \in Conn \cup {None}
  BY DEF ForwardInv, ForwardType, CallState
<1>1. ASSUME NEW s \in Req, call'[s].conn # None
      PROVE  /\ call'[s].conn \notin Pooled(conn[call[s].conn].node)'
             /\ \A t \in Req \ {s} : call'[t].conn # call'[s].conn
  <2>1. call'[s].conn = call[s].conn /\ call[s].conn \in Conn /\ \A t \in Req : call'[t].conn \in {None, call[t].conn}
    BY <1>0, <1>a, <1>1
  <2>2. call[s].conn \notin Pooled(conn[call[s].conn].node) /\ \A t \in Req \ {s} : call[t].conn # call[s].conn
    BY <1>a, <1>1, <2>1 DEF Exclusive
  <2>3. conn'[call'[s].conn].node = conn[call[s].conn].node
    BY <2>1
  <2>4. Pooled(conn[call[s].conn].node)' = Pooled(conn[call[s].conn].node)
    BY <2>3 DEF Pooled
  <2> QED BY <1>1, <2>1, <2>2, <2>4
<1>2. ASSUME NEW n \in Member, NEW i \in DOMAIN pool[n], NEW j \in DOMAIN pool[n]
      PROVE  /\ i # j => pool[n][i] # pool[n][j]
             /\ conn'[pool[n][i]].held /\ conn'[pool[n][i]].node = n
  <2>1. pool[n][i] \in Conn /\ pool[n][i] # k
    BY <1>0, <1>a DEF Pooled
  <2> QED BY <1>a, <2>1 DEF Exclusive
<1> QED BY <1>1, <1>2 DEF Exclusive

\* The record of a call after an attempt failed.
LEMMA AttemptedIs ==
    ASSUME ForwardInv, NEW r \in Req, call[r].pc \in {"get", "write", "read"}, Attempted(r)
    PROVE  \E c \in CallState :
              /\ call' = [call EXCEPT ![r] = c] /\ c.conn = None /\ c.kind = call[r].kind
              /\ CallSound(r, c) /\ ~ Using(c.pc) /\ Sends(c) >= Sends(call[r]) /\ c.result # "ok"
<1>0. CallSound(r, call[r]) /\ call[r] \in CallState /\ call \in [Req -> CallState]
  BY DEF ForwardInv, ForwardType
<1>1. /\ call[r].read = << >> /\ call[r].of = None /\ call[r].addr \in Member /\ call[r].result = "none"
      /\ call[r].tries \in Nat /\ call[r].tries <= MaxRetries(call[r].kind) /\ MaxRetries(call[r].kind) \in Nat
  BY <1>0, RetriesAreNat DEF CallSound, Using, CallState
<1>2. CASE call[r].tries < MaxRetries(call[r].kind)
  <2>0. call' = [call EXCEPT ![r].pc = "get", ![r].conn = None, ![r].tries = @ + 1]
    BY <1>2 DEF Attempted
  <2>n. PICK n \in Nat : n = call[r].tries + 1
    BY <1>1
  <2>1. PICK c : c = [call[r] EXCEPT !.pc = "get", !.conn = None, !.tries = n]
    OBVIOUS
  <2>a. /\ c \in CallState /\ c.pc = "get" /\ c.conn = None /\ c.tries = n /\ c.kind = call[r].kind
        /\ c.addr = call[r].addr /\ c.result = call[r].result /\ c.of = call[r].of /\ c.read = call[r].read
    BY <1>0, <2>1 DEF CallState, Pcs
  <2>2. /\ c \in CallState /\ c.pc = "get" /\ c.conn = None /\ c.tries = call[r].tries + 1 /\ c.kind = call[r].kind
        /\ c.addr = call[r].addr /\ c.result = call[r].result /\ c.of = call[r].of /\ c.read = call[r].read
    BY <2>n, <2>a
  <2>3. call' = [call EXCEPT ![r] = c]
    BY <1>0, <2>0, <2>1, <2>n
  <2>4. c.tries <= MaxRetries(c.kind)
    BY <1>1, <1>2, <2>2
  <2>5. CallSound(r, c) /\ ~ Using(c.pc)
    BY <1>1, <2>2, <2>4 DEF CallSound, Using
  <2>6. Sends(c) >= Sends(call[r])
    BY <1>1, <2>2 DEF Sends
  <2> QED BY <1>1, <2>2, <2>3, <2>5, <2>6
<1>3. CASE ~ (call[r].tries < MaxRetries(call[r].kind))
  <2>0. call' = [call EXCEPT ![r].pc = "done", ![r].conn = None, ![r].result = "error"]
    BY <1>3 DEF Attempted
  <2>1. PICK c : c = [call[r] EXCEPT !.pc = "done", !.conn = None, !.result = "error"]
    OBVIOUS
  <2>2. /\ c \in CallState /\ c.pc = "done" /\ c.conn = None /\ c.tries = call[r].tries /\ c.kind = call[r].kind
        /\ c.addr = call[r].addr /\ c.result = "error" /\ c.of = call[r].of /\ c.read = call[r].read
    BY <1>0, <2>1 DEF CallState, Pcs, Results
  <2>3. call' = [call EXCEPT ![r] = c]
    BY <1>0, <2>0, <2>1
  <2>5. CallSound(r, c) /\ ~ Using(c.pc)
    BY <1>1, <2>2 DEF CallSound, Using
  <2>6. Sends(c) >= Sends(call[r])
    BY <1>1, <2>2 DEF Sends
  <2> QED BY <2>2, <2>3, <2>5, <2>6
<1> QED BY <1>2, <1>3

\* The dialer fails.
LEMMA DialFailedInv ==
    ASSUME ForwardInv, NEW r \in Req, DialFailed(r)
    PROVE  ForwardInv'
<1>0. call[r].pc = "get" /\ Attempted(r) /\ UNCHANGED <<cluster, pool, conn>> /\ applied' = applied
  BY DEF DialFailed
<1>1. PICK c \in CallState :
              /\ call' = [call EXCEPT ![r] = c] /\ c.conn = None /\ c.kind = call[r].kind
              /\ CallSound(r, c) /\ ~ Using(c.pc) /\ Sends(c) >= Sends(call[r]) /\ c.result # "ok"
  BY <1>0, AttemptedIs
<1>2. applied' = [applied EXCEPT ![r] = @ + 0]
  BY <1>0, NoneApplied
<1>3. Sends(call[r]) \in Nat /\ Sends(c) \in Nat
  BY SendsIsNat DEF ForwardInv, ForwardType
<1>4. 0 + Sends(call[r]) <= Sends(c) /\ ~ Using(call[r].pc)
  BY <1>0, <1>1, <1>3 DEF Using
<1> QED BY <1>0, <1>1, <1>2, <1>4, LocalStep

\* The empty queue.
LEMMA NothingIsSeq == ASSUME NEW S PROVE << >> \in Seq(S)
OBVIOUS

\* The record of a connection that this end has closed.
LEMMA HangUpIs ==
    ASSUME ForwardInv, NEW k \in Conn, NEW W, OneCommand(conn[k], W), HangUp(k)
    PROVE  \E w \in ConnState :
              /\ conn' = [conn EXCEPT ![k] = w] /\ w.node = conn[k].node /\ ~ w.held
              /\ w.in = conn[k].in /\ w.out = << >> /\ OneCommand(w, {})
<1>0. conn \in [Conn -> ConnState] /\ conn[k] \in ConnState
  BY DEF ForwardInv, ForwardType
<1>e. PICK e \in Seq(Message) : e = << >>
  BY NothingIsSeq
<1>1. PICK w : w = [conn[k] EXCEPT !.held = FALSE, !.out = e]
  OBVIOUS
<1>a. /\ w \in ConnState /\ w.held = FALSE /\ w.out = e /\ w.node = conn[k].node
      /\ w.in = conn[k].in /\ w.alive = conn[k].alive
  BY <1>0, <1>1 DEF ConnState
<1>2. /\ w \in ConnState /\ w.held = FALSE /\ w.out = << >> /\ w.node = conn[k].node
      /\ w.in = conn[k].in /\ w.alive = conn[k].alive
  BY <1>a, <1>e
<1>3. conn' = [conn EXCEPT ![k] = w]
  BY <1>0, <1>1, <1>e DEF HangUp
<1>4. OneCommand(w, {})
  BY <1>2 DEF OneCommand
<1> QED BY <1>2, <1>3, <1>4

\* A call fails, and its connection is not used again.
LEMMA CallFailedInv ==
    ASSUME ForwardInv, NEW r \in Req, CallFailed(r)
    PROVE  ForwardInv'
<1>0. /\ call[r].pc \in {"write", "read"} /\ Using(call[r].pc) /\ Attempted(r) /\ HangUp(call[r].conn)
      /\ pool' = pool /\ UNCHANGED <<cluster, applied>>
  BY DEF CallFailed, Discard, Using
<1>1. PICK k : k = call[r].conn
  OBVIOUS
<1>2. /\ k \in Conn /\ (\A s \in Req \ {r} : call[s].conn # k)
      /\ OneCommand(conn[k], IF call[r].pc = "read" THEN {r} ELSE {})
  BY <1>0, <1>1, Mine
<1>3. PICK c \in CallState :
              /\ call' = [call EXCEPT ![r] = c] /\ c.conn = None /\ c.kind = call[r].kind
              /\ CallSound(r, c) /\ ~ Using(c.pc) /\ Sends(c) >= Sends(call[r]) /\ c.result # "ok"
  BY <1>0, AttemptedIs
<1>4. PICK w \in ConnState :
              /\ conn' = [conn EXCEPT ![k] = w] /\ w.node = conn[k].node /\ ~ w.held
              /\ w.in = conn[k].in /\ w.out = << >> /\ OneCommand(w, {})
  BY <1>0, <1>1, <1>2, HangUpIs
<1>5. Exclusive' /\ pool' \in [Member -> Seq(Conn)]
  <2>1. call \in [Req -> CallState] /\ conn \in [Conn -> ConnState] /\ pool \in [Member -> Seq(Conn)]
    BY DEF ForwardInv, ForwardType
  <2>2. call'[r].conn = None /\ \A s \in Req \ {r} : call'[s] = call[s]
    BY <1>3, <2>1
  <2>3. (\A j \in Conn : conn'[j].node = conn[j].node) /\ \A j \in Conn \ {k} : conn'[j].held = conn[j].held
    BY <1>2, <1>4, <2>1
  <2> QED BY <1>0, <1>1, <2>1, <2>2, <2>3, KeepsOrDrops
<1>6. OneCommand(w, IF c.pc = "read" THEN {r} ELSE {})
  BY <1>3, <1>4 DEF Using
<1>7. \A i \in 1..Len(w.out) : FALSE
  BY <1>4
<1> QED BY <1>0, <1>1, <1>2, <1>3, <1>4, <1>5, <1>6, <1>7, ClientStep

\* A connection that no call has.
LEMMA Free ==
    ASSUME ForwardInv, NEW k \in Conn, \A s \in Req : call[s].conn # k
    PROVE  OneCommand(conn[k], {})
<1>1. OneCommand(conn[k], Awaiting(k)) /\ Awaiting(k) = {}
  BY DEF ForwardInv, Awaiting
<1> QED BY <1>1

\* A call without a connection gets k, to the node it wants.
LEMMA GotConn ==
    ASSUME ForwardInv, NEW r \in Req, call[r].pc = "get", NEW k \in Conn, NEW w \in ConnState,
           call' = [call EXCEPT ![r].pc = "write", ![r].conn = k], conn' = [conn EXCEPT ![k] = w],
           UNCHANGED <<cluster, applied>>, pool' \in [Member -> Seq(Conn)], Exclusive',
           \A s \in Req : call[s].conn # k, w.held, w.node \in Member, OneCommand(w, {}),
           w.in = conn[k].in, \A i \in 1..Len(w.out) : \E j \in 1..Len(conn[k].out) : w.out[i] = conn[k].out[j]
    PROVE  ForwardInv'
<1>0. CallSound(r, call[r]) /\ call[r] \in CallState /\ call \in [Req -> CallState] /\ None \notin Conn
  BY ForwardingAssumption DEF ForwardInv, ForwardType
<1>1. call[r].conn = None
  BY <1>0 DEF CallSound, Using
<1>2. PICK c : c = [call[r] EXCEPT !.pc = "write", !.conn = k]
  OBVIOUS
<1>3. /\ c \in CallState /\ c.pc = "write" /\ c.conn = k /\ c.kind = call[r].kind /\ c.addr = call[r].addr
      /\ c.tries = call[r].tries /\ c.result = call[r].result /\ c.of = call[r].of /\ c.read = call[r].read
  BY <1>0, <1>2 DEF CallState, Pcs
<1>4. call' = [call EXCEPT ![r] = c]
  BY <1>0, <1>2
<1>5. CallSound(r, c) /\ Carries(c, w) /\ c.result = "none"
  BY <1>0, <1>3 DEF CallSound, Using, Carries
<1>6. Sends(c) >= Sends(call[r])
  BY <1>0, <1>3 DEF Sends, CallState
<1>7. OneCommand(w, IF c.pc = "read" THEN {r} ELSE {})
  BY <1>3
<1> QED BY <1>1, <1>3, <1>4, <1>5, <1>6, <1>7, ClientStep

\* An idle connection is taken from the pool.
LEMMA GetInv ==
    ASSUME ForwardInv, NEW r \in Req, Get(r)
    PROVE  ForwardInv'
<1>1. PICK n : n = call[r].addr
  OBVIOUS
<1>2. PICK k : k = Head(pool[n])
  OBVIOUS
<1>3. /\ call[r].pc = "get" /\ pool[n] # << >> /\ pool' = [pool EXCEPT ![n] = Tail(@)]
      /\ call' = [call EXCEPT ![r].pc = "write", ![r].conn = k]
      /\ UNCHANGED <<cluster, applied>> /\ conn' = conn
  BY <1>1, <1>2 DEF Get
<1>4. /\ n \in Member /\ pool \in [Member -> Seq(Conn)] /\ conn \in [Conn -> ConnState]
      /\ call \in [Req -> CallState] /\ Exclusive /\ call[r] \in CallState /\ None \notin Conn
  <2>1. CallSound(r, call[r]) /\ call[r] \in CallState
    BY DEF ForwardInv, ForwardType
  <2> QED BY <1>1, <1>3, <2>1, ForwardingAssumption DEF ForwardInv, ForwardType, CallSound
<1>5. PICK p \in Seq(Conn) : p = pool[n] /\ p # << >>
  BY <1>3, <1>4
<1>6. k = p[1] /\ k \in Conn /\ 1 \in DOMAIN p /\ DOMAIN p = 1..Len(p) /\ Len(p) \in Nat
  BY <1>2, <1>5
<1>7. /\ pool'[n] = Tail(p) /\ \A m \in Member \ {n} : pool'[m] = pool[m]
      /\ pool' \in [Member -> Seq(Conn)]
  <2>1. Tail(p) \in Seq(Conn)
    BY <1>5
  <2> QED BY <1>3, <1>4, <1>5, <2>1
<1>8. DOMAIN Tail(p) = 1..(Len(p) - 1) /\ \A i \in DOMAIN Tail(p) : i + 1 \in DOMAIN p /\ Tail(p)[i] = p[i + 1]
  BY <1>5, <1>6
<1>9. \A i, j \in DOMAIN p : (i # j => p[i] # p[j]) /\ conn[p[i]].held /\ conn[p[i]].node = n
  BY <1>4, <1>5 DEF Exclusive
<1>10. k \in Pooled(n) /\ conn[k].held /\ conn[k].node = n
  BY <1>5, <1>6, <1>9 DEF Pooled
<1>11. \A s \in Req : call[s].conn # k
  BY <1>4, <1>6, <1>10 DEF Exclusive
<1>12. \A m \in Member : Pooled(m)' \subseteq Pooled(m)
  <2>1. ASSUME NEW m \in Member, NEW i \in DOMAIN pool'[m] PROVE pool'[m][i] \in Pooled(m)
    <3>1. CASE m = n
      <4>1. i \in DOMAIN Tail(p) /\ pool'[m][i] = Tail(p)[i]
        BY <1>7, <2>1, <3>1
      <4>2. i + 1 \in DOMAIN pool[n] /\ pool'[m][i] = pool[n][i + 1]
        BY <1>5, <1>8, <4>1
      <4> QED BY <3>1, <4>2 DEF Pooled
    <3>2. CASE m # n
      BY <1>7, <2>1, <3>2 DEF Pooled
    <3> QED BY <3>1, <3>2
  <2> QED BY <2>1 DEF Pooled
<1>13. k \notin Pooled(n)'
  <2>1. \A i \in DOMAIN Tail(p) : Tail(p)[i] # k
    <3> TAKE i \in DOMAIN Tail(p)
    <3>1. i + 1 \in DOMAIN p /\ i + 1 # 1 /\ Tail(p)[i] = p[i + 1]
      BY <1>8
    <3> QED BY <1>6, <1>9, <3>1
  <2> QED BY <1>7, <2>1 DEF Pooled
<1>14. call'[r].conn = k /\ \A s \in Req \ {r} : call'[s] = call[s]
  BY <1>3, <1>4 DEF CallState
<1>15. Exclusive'
  <2>1. ASSUME NEW s \in Req, call'[s].conn # None
        PROVE  /\ call'[s].conn \notin Pooled(conn[call[s].conn].node)'
               /\ \A t \in Req \ {s} : call'[t].conn # call'[s].conn
    <3>1. CASE s = r
      <4>1. conn'[call'[s].conn].node = n
        BY <1>3, <1>10, <1>14, <3>1
      <4>2. Pooled(conn[call[s].conn].node)' = Pooled(n)'
        BY <4>1 DEF Pooled
      <4> QED BY <1>11, <1>13, <1>14, <3>1, <4>2
    <3>2. CASE s # r
      <4>1. call'[s] = call[s] /\ call[s].conn # k
        BY <1>11, <1>14, <3>2
      <4>2. call[s].conn \notin Pooled(conn[call[s].conn].node) /\ \A t \in Req \ {s} : call[t].conn # call[s].conn
        BY <1>4, <2>1, <4>1 DEF Exclusive
      <4>3. PICK m : m = conn[call[s].conn].node
        OBVIOUS
      <4>4. Pooled(conn[call[s].conn].node)' = Pooled(m)'
        BY <1>3, <4>1, <4>3 DEF Pooled
      <4>5. m \in Member \/ m = None
        <5>1. call[s].conn \in Conn
          BY <1>4, <2>1, <4>1 DEF CallState
        <5> QED BY <1>4, <4>3, <5>1 DEF ConnState
      <4>6. m \in Member
        <5>1. Using(call[s].pc) /\ Carries(call[s], conn[call[s].conn])
          <6>1. CallSound(s, call[s]) /\ (Using(call[s].pc) => Carries(call[s], conn[call[s].conn]))
            BY DEF ForwardInv
          <6> QED BY <2>1, <4>1, <6>1 DEF CallSound
        <5> QED BY <4>3, <5>1 DEF Carries
      <4>7. call[s].conn \notin Pooled(m)'
        BY <1>12, <4>2, <4>3, <4>6
      <4> QED BY <1>14, <4>1, <4>2, <4>4, <4>7
    <3> QED BY <3>1, <3>2
  <2>2. ASSUME NEW m \in Member, NEW i \in DOMAIN pool'[m], NEW j \in DOMAIN pool'[m]
        PROVE  /\ i # j => pool'[m][i] # pool'[m][j]
               /\ conn'[pool'[m][i]].held /\ conn'[pool'[m][i]].node = m
    <3>1. CASE m = n
      <4>1. i + 1 \in DOMAIN p /\ j + 1 \in DOMAIN p /\ pool'[m][i] = p[i + 1] /\ pool'[m][j] = p[j + 1]
            /\ i \in Int /\ j \in Int
        <5>1. i \in DOMAIN Tail(p) /\ j \in DOMAIN Tail(p) /\ pool'[m] = Tail(p)
          BY <1>7, <3>1, <2>2
        <5>2. i \in Int /\ j \in Int
          BY <1>6, <1>8, <5>1
        <5> QED BY <1>8, <5>1, <5>2
      <4>2. i # j => i + 1 # j + 1
        BY <4>1
      <4> QED BY <1>3, <1>9, <3>1, <4>1, <4>2
    <3>2. CASE m # n
      BY <1>3, <1>4, <1>7, <3>2, <2>2 DEF Exclusive
    <3> QED BY <3>1, <3>2
  <2> QED BY <2>1, <2>2 DEF Exclusive
<1>16. conn' = [conn EXCEPT ![k] = conn[k]] /\ conn[k] \in ConnState
  BY <1>3, <1>4, <1>6
<1>17. OneCommand(conn[k], {})
  BY <1>6, <1>11, Free
<1> QED BY <1>3, <1>4, <1>6, <1>7, <1>10, <1>11, <1>15, <1>16, <1>17, GotConn

\* A new connection is dialed.
LEMMA DialInv ==
    ASSUME ForwardInv, NEW r \in Req, Dial(r)
    PROVE  ForwardInv'
<1>1. PICK n : n = call[r].addr
  OBVIOUS
<1>2. PICK k \in Conn :
        /\ ~ conn[k].held /\ ~ conn[k].alive
        /\ conn' = [conn EXCEPT ![k] = [Closed EXCEPT !.node = call[r].addr, !.held = TRUE, !.alive = TRUE]]
        /\ call' = [call EXCEPT ![r].pc = "write", ![r].conn = k]
  BY DEF Dial
<1>3. call[r].pc = "get" /\ UNCHANGED <<cluster, applied>> /\ pool' = pool
  BY DEF Dial
<1>4. /\ n \in Member /\ pool \in [Member -> Seq(Conn)] /\ conn \in [Conn -> ConnState]
      /\ call \in [Req -> CallState] /\ Exclusive /\ call[r] \in CallState /\ None \notin Conn
  <2>1. CallSound(r, call[r]) /\ call[r] \in CallState
    BY DEF ForwardInv, ForwardType
  <2> QED BY <1>1, <1>3, <2>1, ForwardingAssumption DEF ForwardInv, ForwardType, CallSound
<1>5. PICK w : w = [Closed EXCEPT !.node = n, !.held = TRUE, !.alive = TRUE]
  OBVIOUS
<1>6. /\ w \in ConnState /\ w.node = n /\ w.held = TRUE /\ w.alive = TRUE
      /\ w.in = << >> /\ w.out = << >> /\ w.stream = None
  <2>1. w = [node |-> n, held |-> TRUE, alive |-> TRUE, in |-> << >>, out |-> << >>, stream |-> None]
    BY <1>5 DEF Closed
  <2>2. << >> \in Seq(Req) /\ << >> \in Seq(Message)
    BY NothingIsSeq
  <2> QED BY <1>4, <2>1, <2>2 DEF ConnState
<1>7. conn' = [conn EXCEPT ![k] = w]
  BY <1>1, <1>2, <1>5
<1>8. conn'[k] = w /\ \A j \in Conn \ {k} : conn'[j] = conn[j]
  BY <1>4, <1>7
<1>9. \A s \in Req : call[s].conn # k
  <2> SUFFICES ASSUME NEW s \in Req, call[s].conn = k PROVE FALSE
    OBVIOUS
  <2>1. CallSound(s, call[s]) /\ (Using(call[s].pc) => Carries(call[s], conn[call[s].conn]))
    BY DEF ForwardInv
  <2>2. Using(call[s].pc)
    BY <1>4, <2>1 DEF CallSound
  <2> QED BY <1>2, <2>1, <2>2 DEF Carries
<1>10. \A m \in Member : \A i \in DOMAIN pool[m] : pool[m][i] \in Conn \ {k}
  BY <1>2, <1>4 DEF Exclusive
<1>11. call'[r].conn = k /\ \A s \in Req \ {r} : call'[s] = call[s]
  BY <1>2, <1>4 DEF CallState
<1>12. Exclusive'
  <2>1. ASSUME NEW s \in Req, call'[s].conn # None
        PROVE  /\ call'[s].conn \notin Pooled(conn[call[s].conn].node)'
               /\ \A t \in Req \ {s} : call'[t].conn # call'[s].conn
    <3>1. CASE s = r
      <4>1. conn'[call'[s].conn].node = n
        BY <1>6, <1>8, <1>11, <3>1
      <4>2. Pooled(conn[call[s].conn].node)' = Pooled(n)
        BY <1>3, <4>1 DEF Pooled
      <4>3. k \notin Pooled(n)
        BY <1>4, <1>10 DEF Pooled
      <4> QED BY <1>9, <1>11, <3>1, <4>2, <4>3
    <3>2. CASE s # r
      <4>1. call'[s] = call[s] /\ call[s].conn # k
        BY <1>9, <1>11, <3>2
      <4>2. call[s].conn \notin Pooled(conn[call[s].conn].node) /\ \A t \in Req \ {s} : call[t].conn # call[s].conn
        BY <1>4, <2>1, <4>1 DEF Exclusive
      <4>3. call[s].conn \in Conn
        BY <1>4, <2>1, <4>1 DEF CallState
      <4>4. conn'[call'[s].conn] = conn[call[s].conn]
        BY <1>8, <4>1, <4>3
      <4>5. Pooled(conn[call[s].conn].node)' = Pooled(conn[call[s].conn].node)
        BY <1>3, <4>4 DEF Pooled
      <4> QED BY <1>11, <4>1, <4>2, <4>5
    <3> QED BY <3>1, <3>2
  <2>2. ASSUME NEW m \in Member, NEW i \in DOMAIN pool[m], NEW j \in DOMAIN pool[m]
        PROVE  /\ i # j => pool[m][i] # pool[m][j]
               /\ conn'[pool[m][i]].held /\ conn'[pool[m][i]].node = m
    <3>1. conn'[pool[m][i]] = conn[pool[m][i]]
      BY <1>8, <1>10
    <3> QED BY <1>4, <3>1 DEF Exclusive
  <2> QED BY <1>3, <2>1, <2>2 DEF Exclusive
<1>13. conn[k].in = << >>
  <2>1. OneCommand(conn[k], {})
    BY <1>9, Free
  <2> QED BY <1>2, <2>1 DEF OneCommand
<1>14. OneCommand(w, {}) /\ \A i \in 1..Len(w.out) : FALSE
  BY <1>6 DEF OneCommand
<1> QED BY <1>2, <1>3, <1>4, <1>6, <1>7, <1>9, <1>12, <1>13, <1>14, GotConn

\* A step of the call of r after which its connection is still its own.
LEMMA Continues ==
    ASSUME ForwardInv, NEW r \in Req, Using(call[r].pc), NEW k, k = call[r].conn,
           NEW c \in CallState, NEW w \in ConnState,
           call' = [call EXCEPT ![r] = c], conn' = [conn EXCEPT ![k] = w],
           UNCHANGED <<cluster, applied>>, pool' = pool,
           c.conn = k, c.kind = call[r].kind, CallSound(r, c), Carries(c, w),
           w.node = conn[k].node, w.held = conn[k].held,
           OneCommand(w, IF c.pc = "read" THEN {r} ELSE {}),
           \/ w.in = conn[k].in /\ Sends(c) >= Sends(call[r])
           \/ conn[k].in = << >> /\ w.in = <<r>> /\ Sends(c) = Sends(call[r]) + 1,
           \A i \in 1..Len(w.out) : \E j \in 1..Len(conn[k].out) : w.out[i] = conn[k].out[j],
           c.kind \in Writes /\ c.result = "ok" => applied[r] > 0
    PROVE  ForwardInv'
<1>1. k \in Conn /\ \A s \in Req \ {r} : call[s].conn # k
  BY Mine
<1>2. call \in [Req -> CallState] /\ conn \in [Conn -> ConnState] /\ pool \in [Member -> Seq(Conn)]
  BY DEF ForwardInv, ForwardType
<1>3. call'[r] = c /\ \A s \in Req \ {r} : call'[s] = call[s]
  BY <1>2
<1>4. (\A j \in Conn : conn'[j].node = conn[j].node) /\ \A j \in Conn \ {k} : conn'[j].held = conn[j].held
  BY <1>1, <1>2
<1>5. Exclusive'
  BY <1>3, <1>4, KeepsOrDrops
<1> QED BY <1>1, <1>2, <1>5, ClientStep

\* The command of r is sent.
LEMMA WriteCommandInv ==
    ASSUME ForwardInv, NEW r \in Req, WriteCommand(r)
    PROVE  ForwardInv'
<1>1. PICK k : k = call[r].conn
  OBVIOUS
<1>2. /\ call[r].pc = "write" /\ Using(call[r].pc)
      /\ conn' = IF conn[k].alive THEN [conn EXCEPT ![k].in = Append(@, r)] ELSE conn
      /\ call' = [call EXCEPT ![r].pc = "read"]
      /\ UNCHANGED <<cluster, applied>> /\ pool' = pool
  BY <1>1 DEF WriteCommand, GotoStep, Using
<1>3. /\ k \in Conn /\ conn[k] \in ConnState /\ call[r] \in CallState
      /\ OneCommand(conn[k], {}) /\ Carries(call[r], conn[k]) /\ CallSound(r, call[r])
  BY <1>1, <1>2, Mine
<1>4. call \in [Req -> CallState] /\ conn \in [Conn -> ConnState]
  BY DEF ForwardInv, ForwardType
<1>5. PICK c : c = [call[r] EXCEPT !.pc = "read"]
  OBVIOUS
<1>6. /\ c \in CallState /\ c.pc = "read" /\ c.conn = call[r].conn /\ c.kind = call[r].kind /\ c.addr = call[r].addr
      /\ c.tries = call[r].tries /\ c.result = call[r].result /\ c.of = call[r].of /\ c.read = call[r].read
  BY <1>3, <1>5 DEF CallState, Pcs
<1>7. call' = [call EXCEPT ![r] = c]
  BY <1>2, <1>4, <1>5
<1>8. CallSound(r, c) /\ c.result = "none"
  BY <1>2, <1>3, <1>6 DEF CallSound, Using
<1>9. Sends(c) = Sends(call[r]) + 1 /\ Sends(call[r]) \in Nat
  BY <1>2, <1>3, <1>6 DEF Sends, CallState
<1>10. conn[k].in = << >> /\ conn[k].held /\ conn[k].node \in Member
       /\ \A i \in 1..Len(conn[k].out) : conn[k].out[i].what \notin Frame
  BY <1>3 DEF OneCommand, Carries
<1>11. PICK q \in Seq(Req) : q = IF conn[k].alive THEN <<r>> ELSE << >>
  <2>1. <<r>> \in Seq(Req) /\ << >> \in Seq(Req)
    BY NothingIsSeq
  <2> QED BY <2>1
<1>12. PICK w : w = [conn[k] EXCEPT !.in = q]
  OBVIOUS
<1>13. /\ w \in ConnState /\ w.in = q /\ w.node = conn[k].node /\ w.held = conn[k].held
       /\ w.alive = conn[k].alive /\ w.out = conn[k].out /\ w.stream = conn[k].stream
  BY <1>3, <1>12 DEF ConnState
<1>14. conn' = [conn EXCEPT ![k] = w]
  <2>1. CASE conn[k].alive
    <3>1. Append(conn[k].in, r) = q
      BY <1>10, <1>11, <2>1
    <3> QED BY <1>2, <1>4, <1>12, <2>1, <3>1
  <2>2. CASE ~ conn[k].alive
    <3>1. w = conn[k]
      BY <1>3, <1>10, <1>11, <1>12, <2>2 DEF ConnState
    <3> QED BY <1>2, <1>3, <1>4, <2>2, <3>1
  <2> QED BY <2>1, <2>2
<1>15. Len(q) <= 1 /\ (q # << >> => q[1] = r) /\ (~ conn[k].alive => q = << >>)
  BY <1>11
<1>16. OneCommand(w, IF c.pc = "read" THEN {r} ELSE {})
  BY <1>3, <1>6, <1>10, <1>13, <1>15 DEF OneCommand
<1>17. Carries(c, w)
  <2>1. w.out # << >> => 1 \in 1..Len(w.out)
    BY <1>13 DEF ConnState
  <2> QED BY <1>6, <1>10, <1>13, <2>1 DEF Carries
<1>18. \/ w.in = conn[k].in /\ Sends(c) >= Sends(call[r])
       \/ conn[k].in = << >> /\ w.in = <<r>> /\ Sends(c) = Sends(call[r]) + 1
  BY <1>9, <1>10, <1>11, <1>13
<1>19. \A i \in 1..Len(w.out) : \E j \in 1..Len(conn[k].out) : w.out[i] = conn[k].out[j]
  BY <1>13
<1> QED BY <1>1, <1>2, <1>6, <1>7, <1>8, <1>13, <1>14, <1>16, <1>17, <1>18, <1>19, Continues

\* The record of a connection from which one message is read.
LEMMA ReadIs ==
    ASSUME NEW x \in ConnState, x.out # << >>, NEW w, w = [x EXCEPT !.out = Tail(@)]
    PROVE  /\ w \in ConnState /\ w.in = x.in /\ w.node = x.node /\ w.held = x.held
           /\ w.alive = x.alive /\ w.stream = x.stream
           /\ w.out = Tail(x.out) /\ Len(w.out) = Len(x.out) - 1 /\ Len(x.out) \in Nat \ {0}
           /\ \A i \in 1..Len(w.out) : i + 1 \in 1..Len(x.out) /\ w.out[i] = x.out[i + 1]
<1>1. PICK o \in Seq(Message) : o = x.out
  BY DEF ConnState
<1>a. Tail(o) \in Seq(Message)
  <2>1. ASSUME NEW S, NEW q \in Seq(S), q # << >> PROVE Tail(q) \in Seq(S)
    BY <2>1
  <2> QED BY <1>1, <2>1
<1>2. PICK t \in Seq(Message) : t = Tail(o)
  BY <1>a
<1>3. Len(t) = Len(o) - 1 /\ Len(o) \in Nat \ {0} /\ \A i \in 1..Len(t) : i + 1 \in 1..Len(o) /\ t[i] = o[i + 1]
  BY <1>1, <1>2
<1>4. w = [x EXCEPT !.out = t]
  BY <1>1, <1>2
<1>5. /\ w \in ConnState /\ w.in = x.in /\ w.node = x.node /\ w.held = x.held
      /\ w.alive = x.alive /\ w.stream = x.stream /\ w.out = t
  BY <1>4 DEF ConnState
<1> QED BY <1>1, <1>2, <1>3, <1>5

\* An answer is read.
LEMMA ReadResponseInv ==
    ASSUME ForwardInv, NEW r \in Req, ReadResponse(r)
    PROVE  ForwardInv'
<1>1. PICK k : k = call[r].conn
  OBVIOUS
<1>2. PICK m : m = Head(conn[k].out)
  OBVIOUS
<1>3. /\ call[r].pc = "read" /\ Using(call[r].pc) /\ conn[k].out # << >> /\ m.what \in Frame
      /\ call' = IF call[r].kind \in Backups /\ m.what = "ok"
             THEN [call EXCEPT ![r].pc = "copy", ![r].of = m.of]
             ELSE [call EXCEPT ![r].pc = "close", ![r].of = m.of, ![r].result = m.what]
      /\ conn' = [conn EXCEPT ![k].out = Tail(@)]
      /\ UNCHANGED <<cluster, applied>> /\ pool' = pool
  BY <1>1, <1>2 DEF ReadResponse, Using
<1>4. /\ k \in Conn /\ conn[k] \in ConnState /\ call[r] \in CallState
      /\ OneCommand(conn[k], {r}) /\ Carries(call[r], conn[k]) /\ CallSound(r, call[r])
  BY <1>1, <1>3, Mine
<1>5. call \in [Req -> CallState] /\ conn \in [Conn -> ConnState]
  BY DEF ForwardInv, ForwardType
<1>6. PICK w : w = [conn[k] EXCEPT !.out = Tail(@)]
  OBVIOUS
<1>7. /\ w \in ConnState /\ w.in = conn[k].in /\ w.node = conn[k].node /\ w.held = conn[k].held
      /\ w.alive = conn[k].alive /\ w.stream = conn[k].stream
      /\ Len(w.out) = Len(conn[k].out) - 1 /\ Len(conn[k].out) \in Nat \ {0}
      /\ \A i \in 1..Len(w.out) : i + 1 \in 1..Len(conn[k].out) /\ w.out[i] = conn[k].out[i + 1]
  BY <1>3, <1>4, <1>6, ReadIs
<1>8. conn' = [conn EXCEPT ![k] = w]
  BY <1>3, <1>5, <1>6
<1>9. m = conn[k].out[1] /\ 1 \in 1..Len(conn[k].out) /\ conn[k].held
  BY <1>2, <1>3, <1>4, <1>7 DEF ConnState, Carries
<1>10. /\ m.of = r /\ conn[k].in = << >>
       /\ \A j \in 1..Len(conn[k].out) : conn[k].out[j].what \in Frame => j = 1
  BY <1>3, <1>4, <1>9 DEF OneCommand
<1>11. \A i \in 1..Len(w.out) : w.out[i].what \notin Frame
  <2> TAKE i \in 1..Len(w.out)
  <2>1. i + 1 \in 1..Len(conn[k].out) /\ i + 1 # 1 /\ w.out[i] = conn[k].out[i + 1]
    BY <1>7
  <2> QED BY <1>10, <2>1
<1>12. Pieces(<< >>, conn[k].out, 1, conn[k].stream)
  BY <1>3, <1>4, <1>9 DEF Carries
<1>13. Pieces(<< >>, w.out, 0, w.stream)
  <2>1. \A i \in 1..Len(w.out) : w.out[i].what = Piece(i)
    <3> TAKE i \in 1..Len(w.out)
    <3>1. i + 1 \in 1..Len(conn[k].out) /\ w.out[i] = conn[k].out[i + 1] /\ i + 1 > 1 /\ i \in Int
      BY <1>7
    <3>2. conn[k].out[i + 1].what = Piece(0 + (i + 1) - 1)
      BY <1>12, <3>1 DEF Pieces
    <3> QED BY <3>1, <3>2
  <2> QED BY <1>7, <1>12, <2>1 DEF Pieces
<1>14. call[r].kind \in Writes /\ m.what = "ok" => applied[r] > 0
  <2>1. OkIsApplied(r)
    BY DEF ForwardInv
  <2> QED BY <1>4, <1>9, <1>10, <2>1 DEF OkIsApplied
<1>a. m.what \in {"ok", "error", "notleader"}
  BY <1>3 DEF Frame
<1>15. \E c \in CallState :
          /\ call' = [call EXCEPT ![r] = c] /\ c.conn = k /\ c.kind = call[r].kind
          /\ CallSound(r, c) /\ c.pc \in {"copy", "close"} /\ Carries(c, w)
          /\ c.tries = call[r].tries
          /\ c.kind \in Writes /\ c.result = "ok" => applied[r] > 0
  <2>0. /\ call[r].read = << >> /\ call[r].result = "none" /\ call[r].addr \in Member /\ w.held /\ w.node \in Member
        /\ call[r].tries <= MaxRetries(call[r].kind) /\ k # None
    BY <1>1, <1>3, <1>4, <1>7, ForwardingAssumption DEF CallSound, Using, Carries
  <2>1. CASE call[r].kind \in Backups /\ m.what = "ok"
    <3>1. PICK c : c = [call[r] EXCEPT !.pc = "copy", !.of = r]
      OBVIOUS
    <3>2. /\ c \in CallState /\ c.pc = "copy" /\ c.conn = call[r].conn /\ c.kind = call[r].kind /\ c.addr = call[r].addr
          /\ c.tries = call[r].tries /\ c.result = call[r].result /\ c.of = r /\ c.read = call[r].read
      BY <1>4, <3>1 DEF CallState, Pcs
    <3>3. call' = [call EXCEPT ![r] = c]
      BY <1>3, <1>5, <1>10, <2>1, <3>1
    <3>4. CallSound(r, c) /\ Carries(c, w)
      BY <1>1, <1>13, <2>0, <2>1, <3>2 DEF CallSound, Using, Carries
    <3> QED BY <1>1, <2>0, <3>2, <3>3, <3>4
  <2>2. CASE ~ (call[r].kind \in Backups /\ m.what = "ok")
    <3>1. PICK c : c = [call[r] EXCEPT !.pc = "close", !.of = r, !.result = m.what]
      OBVIOUS
    <3>2. /\ c \in CallState /\ c.pc = "close" /\ c.conn = call[r].conn /\ c.kind = call[r].kind /\ c.addr = call[r].addr
          /\ c.tries = call[r].tries /\ c.result = m.what /\ c.of = r /\ c.read = call[r].read
      BY <1>4, <1>a, <3>1 DEF CallState, Pcs, Results
    <3>3. call' = [call EXCEPT ![r] = c]
      BY <1>3, <1>5, <1>10, <2>2, <3>1
    <3>4. CallSound(r, c) /\ Carries(c, w)
      BY <1>1, <2>0, <2>2, <3>2 DEF CallSound, Using, Carries, Backups
    <3> QED BY <1>1, <1>14, <3>2, <3>3, <3>4
  <2> QED BY <2>1, <2>2
<1>16. PICK c \in CallState :
          /\ call' = [call EXCEPT ![r] = c] /\ c.conn = k /\ c.kind = call[r].kind
          /\ CallSound(r, c) /\ c.pc \in {"copy", "close"} /\ Carries(c, w)
          /\ c.tries = call[r].tries
          /\ c.kind \in Writes /\ c.result = "ok" => applied[r] > 0
  BY <1>15
<1>17. Sends(c) >= Sends(call[r])
  BY <1>3, <1>4, <1>16 DEF Sends, CallState
<1>18. OneCommand(w, IF c.pc = "read" THEN {r} ELSE {})
  BY <1>4, <1>7, <1>9, <1>10, <1>11, <1>16 DEF OneCommand
<1>19. \A i \in 1..Len(w.out) : \E j \in 1..Len(conn[k].out) : w.out[i] = conn[k].out[j]
  BY <1>7
<1> QED BY <1>1, <1>3, <1>7, <1>8, <1>16, <1>17, <1>18, <1>19, Continues

\* The call of r ends, and its connection goes back to the pool, or is closed.
LEMMA ReturnInv ==
    ASSUME ForwardInv, NEW r \in Req, Return(r)
    PROVE  ForwardInv'
<1>1. PICK k : k = call[r].conn
  OBVIOUS
<1>2. /\ call[r].pc = "close" /\ Using(call[r].pc) /\ Put(k)
      /\ call' = [call EXCEPT ![r].pc = "done", ![r].conn = None]
      /\ UNCHANGED <<cluster, applied>>
  BY <1>1 DEF Return, Using
<1>3. /\ k \in Conn /\ conn[k] \in ConnState /\ call[r] \in CallState
      /\ (\A s \in Req \ {r} : call[s].conn # k) /\ \A n \in Member : k \notin Pooled(n)
      /\ OneCommand(conn[k], {}) /\ Carries(call[r], conn[k]) /\ CallSound(r, call[r])
  BY <1>1, <1>2, Mine
<1>4. /\ call \in [Req -> CallState] /\ conn \in [Conn -> ConnState] /\ pool \in [Member -> Seq(Conn)]
      /\ Exclusive /\ None \notin Conn
  BY ForwardingAssumption DEF ForwardInv, ForwardType
<1>5. PICK c : c = [call[r] EXCEPT !.pc = "done", !.conn = None]
  OBVIOUS
<1>6. /\ c \in CallState /\ c.pc = "done" /\ c.conn = None /\ c.kind = call[r].kind /\ c.addr = call[r].addr
      /\ c.tries = call[r].tries /\ c.result = call[r].result /\ c.of = call[r].of /\ c.read = call[r].read
  BY <1>3, <1>5 DEF CallState, Pcs
<1>7. call' = [call EXCEPT ![r] = c]
  BY <1>2, <1>4, <1>5
<1>8. CallSound(r, c) /\ ~ Using(c.pc)
  BY <1>2, <1>3, <1>6 DEF CallSound, Using
<1>9. Sends(c) >= Sends(call[r])
  BY <1>2, <1>3, <1>6 DEF Sends, CallState
<1>10. c.kind \in Writes /\ c.result = "ok" => applied[r] > 0
  <2>1. OkIsApplied(r)
    BY DEF ForwardInv
  <2> QED BY <1>6, <2>1 DEF OkIsApplied
<1>11. call'[r] = c /\ \A s \in Req \ {r} : call'[s] = call[s]
  BY <1>4, <1>7
<1>12. PICK n : n = conn[k].node /\ n \in Member /\ conn[k].held
  BY <1>3 DEF Carries
<1>13. CASE Len(pool[n]) < PoolCap
  <2>1. pool' = [pool EXCEPT ![n] = Append(@, k)] /\ conn' = conn
    BY <1>12, <1>13, <1>2 DEF Put
  <2>2. PICK p \in Seq(Conn) : p = pool[n]
    BY <1>4, <1>12
  <2>3. /\ Append(p, k) \in Seq(Conn) /\ DOMAIN Append(p, k) = 1..(Len(p) + 1) /\ Len(p) \in Nat /\ DOMAIN p = 1..Len(p)
        /\ Append(p, k)[Len(p) + 1] = k /\ \A i \in 1..Len(p) : Append(p, k)[i] = p[i]
    BY <1>3, <2>2
  <2>4. /\ pool'[n] = Append(p, k) /\ \A m \in Member \ {n} : pool'[m] = pool[m]
        /\ pool' \in [Member -> Seq(Conn)]
    BY <1>4, <1>12, <2>1, <2>2, <2>3
  <2>5. \A i, j \in DOMAIN p : (i # j => p[i] # p[j]) /\ p[i] # k /\ conn[p[i]].held /\ conn[p[i]].node = n
    BY <1>3, <1>4, <1>12, <2>2 DEF Exclusive, Pooled
  <2>6. \A m \in Member : Pooled(m)' \subseteq Pooled(m) \cup {k}
    <3>1. ASSUME NEW m \in Member, NEW i \in DOMAIN pool'[m] PROVE pool'[m][i] \in Pooled(m) \cup {k}
      <4>1. CASE m = n
        <5>1. i \in 1..(Len(p) + 1) /\ pool'[m][i] = Append(p, k)[i]
          BY <2>3, <2>4, <3>1, <4>1
        <5>2. CASE i = Len(p) + 1
          BY <2>3, <5>1, <5>2
        <5>3. CASE i # Len(p) + 1
          <6>1. i \in DOMAIN pool[n] /\ pool'[m][i] = pool[n][i]
            BY <2>2, <2>3, <5>1, <5>3
          <6> QED BY <4>1, <6>1 DEF Pooled
        <5> QED BY <5>2, <5>3
      <4>2. CASE m # n
        BY <2>4, <3>1, <4>2 DEF Pooled
      <4> QED BY <4>1, <4>2
    <3> QED BY <3>1 DEF Pooled
  <2>7. ASSUME NEW s \in Req, call'[s].conn # None
        PROVE  /\ call'[s].conn \notin Pooled(conn[call[s].conn].node)'
               /\ \A t \in Req \ {s} : call'[t].conn # call'[s].conn
    <3>1. s # r /\ call'[s] = call[s] /\ call[s].conn # k
      BY <1>3, <1>6, <1>11, <2>7
    <3>2. call[s].conn \notin Pooled(conn[call[s].conn].node) /\ \A t \in Req \ {s} : call[t].conn # call[s].conn
      BY <1>4, <2>7, <3>1 DEF Exclusive
    <3>3. PICK m : m = conn[call[s].conn].node
      OBVIOUS
    <3>4. Pooled(conn[call[s].conn].node)' = Pooled(m)'
      BY <2>1, <3>1, <3>3 DEF Pooled
    <3>5. m \in Member
      <4>1. CallSound(s, call[s]) /\ (Using(call[s].pc) => Carries(call[s], conn[call[s].conn]))
        BY DEF ForwardInv
      <4>2. Using(call[s].pc)
        BY <2>7, <3>1, <4>1 DEF CallSound
      <4> QED BY <3>3, <4>1, <4>2 DEF Carries
    <3>6. call[s].conn \notin Pooled(m)'
      BY <2>6, <3>1, <3>2, <3>3, <3>5
    <3>7. \A t \in Req \ {s} : call'[t].conn # call[s].conn
      BY <1>6, <1>11, <2>7, <3>1, <3>2
    <3> QED BY <3>1, <3>4, <3>6, <3>7
  <2>8. ASSUME NEW m \in Member, NEW i \in DOMAIN pool'[m], NEW j \in DOMAIN pool'[m]
        PROVE  /\ i # j => pool'[m][i] # pool'[m][j]
               /\ conn'[pool'[m][i]].held /\ conn'[pool'[m][i]].node = m
    <3>1. CASE m = n
      <4>1. /\ i \in 1..(Len(p) + 1) /\ j \in 1..(Len(p) + 1)
            /\ pool'[m][i] = Append(p, k)[i] /\ pool'[m][j] = Append(p, k)[j]
        BY <2>3, <2>4, <2>8, <3>1
      <4>2. /\ pool'[m][i] = IF i = Len(p) + 1 THEN k ELSE p[i]
            /\ pool'[m][j] = IF j = Len(p) + 1 THEN k ELSE p[j]
            /\ i # Len(p) + 1 => i \in DOMAIN p
            /\ j # Len(p) + 1 => j \in DOMAIN p
        BY <2>3, <4>1
      <4>3. i # j => pool'[m][i] # pool'[m][j]
        BY <2>5, <4>2
      <4>4. conn[pool'[m][i]].held /\ conn[pool'[m][i]].node = n
        BY <1>12, <2>5, <4>2
      <4> QED BY <2>1, <3>1, <4>3, <4>4
    <3>2. CASE m # n
      BY <1>4, <2>1, <2>4, <2>8, <3>2 DEF Exclusive
    <3> QED BY <3>1, <3>2
  <2>9. Exclusive'
    BY <2>7, <2>8 DEF Exclusive
  <2>10. conn' = [conn EXCEPT ![k] = conn[k]]
    BY <1>3, <1>4, <2>1
  <2>11. OneCommand(conn[k], IF c.pc = "read" THEN {r} ELSE {})
    BY <1>3, <1>6
  <2>12. \A i \in 1..Len(conn[k].out) : \E j \in 1..Len(conn[k].out) : conn[k].out[i] = conn[k].out[j]
    OBVIOUS
  <2> QED BY <1>1, <1>2, <1>3, <1>6, <1>7, <1>8, <1>9, <1>10, <2>4, <2>9, <2>10, <2>11, <2>12, ClientStep
<1>14. CASE ~ (Len(pool[n]) < PoolCap)
  <2>1. HangUp(k) /\ pool' = pool
    BY <1>12, <1>14, <1>2 DEF Put
  <2>2. PICK w \in ConnState :
              /\ conn' = [conn EXCEPT ![k] = w] /\ w.node = conn[k].node /\ ~ w.held
              /\ w.in = conn[k].in /\ w.out = << >> /\ OneCommand(w, {})
    BY <1>3, <2>1, HangUpIs
  <2>3. (\A j \in Conn : conn'[j].node = conn[j].node) /\ \A j \in Conn \ {k} : conn'[j].held = conn[j].held
    BY <1>3, <1>4, <2>2
  <2>4. Exclusive'
    BY <1>1, <1>2, <1>6, <1>11, <2>1, <2>3, KeepsOrDrops
  <2>5. OneCommand(w, IF c.pc = "read" THEN {r} ELSE {}) /\ \A i \in 1..Len(w.out) : FALSE
    BY <1>6, <2>2
  <2> QED BY <1>1, <1>2, <1>3, <1>4, <1>6, <1>7, <1>8, <1>9, <1>10, <2>1, <2>2, <2>4, <2>5, ClientStep
<1> QED BY <1>13, <1>14

\* A copy is given up, or ends with the connection.
LEMMA CopyEndsInv ==
    ASSUME ForwardInv, NEW r \in Req, CopyEOF(r) \/ CopyTimeout(r)
    PROVE  ForwardInv'
<1>1. PICK k : k = call[r].conn
  OBVIOUS
<1>2. PICK res \in {"ok", "error"} :
        /\ call' = [call EXCEPT ![r].pc = "close", ![r].result = res]
        /\ res = "ok" => call[r].kind # "backup"
  BY DEF CopyEOF, CopyTimeout
<1>3. call[r].pc = "copy" /\ Using(call[r].pc) /\ UNCHANGED <<cluster, applied>> /\ pool' = pool /\ conn' = conn
  BY DEF CopyEOF, CopyTimeout, Using
<1>4. /\ k \in Conn /\ conn[k] \in ConnState /\ call[r] \in CallState
      /\ OneCommand(conn[k], {}) /\ Carries(call[r], conn[k]) /\ CallSound(r, call[r])
  BY <1>1, <1>3, Mine
<1>5. call \in [Req -> CallState] /\ conn \in [Conn -> ConnState]
  BY DEF ForwardInv, ForwardType
<1>6. PICK c : c = [call[r] EXCEPT !.pc = "close", !.result = res]
  OBVIOUS
<1>7. /\ c \in CallState /\ c.pc = "close" /\ c.conn = call[r].conn /\ c.kind = call[r].kind /\ c.addr = call[r].addr
      /\ c.tries = call[r].tries /\ c.result = res /\ c.of = call[r].of /\ c.read = call[r].read
  BY <1>2, <1>4, <1>6 DEF CallState, Pcs, Results
<1>8. call' = [call EXCEPT ![r] = c] /\ conn' = [conn EXCEPT ![k] = conn[k]]
  BY <1>2, <1>3, <1>4, <1>5, <1>6
<1>9. CallSound(r, c)
  BY <1>2, <1>3, <1>4, <1>7 DEF CallSound, Using
<1>10. Carries(c, conn[k]) /\ Sends(c) >= Sends(call[r])
  BY <1>3, <1>4, <1>7 DEF Carries, Sends, CallState
<1>11. OneCommand(conn[k], IF c.pc = "read" THEN {r} ELSE {})
  BY <1>4, <1>7
<1>12. ~ (c.kind \in Writes)
  <2>1. call[r].kind \in Backups
    BY <1>3, <1>4 DEF CallSound
  <2> QED BY <1>7, <2>1 DEF Writes, Backups
<1> QED BY <1>1, <1>2, <1>3, <1>4, <1>7, <1>8, <1>9, <1>10, <1>11, <1>12, Continues

\* A sequence of two elements.
LEMMA PairIs ==
    ASSUME NEW S, NEW q \in Seq(S), Len(q) = 2
    PROVE  q = <<q[1], q[2]>>
<1>1. q = [i \in 1..2 |-> q[i]]
  OBVIOUS
<1>2. PICK p : p = <<q[1], q[2]>>
  OBVIOUS
<1>3. p = [i \in 1..2 |-> p[i]] /\ p[1] = q[1] /\ p[2] = q[2]
  BY <1>2
<1>4. \A i \in 1..2 : p[i] = q[i]
  BY <1>3
<1> QED BY <1>1, <1>2, <1>3, <1>4

\* A piece of the stream is copied.
LEMMA CopiedPiece ==
    ASSUME NEW read \in Seq(Whats), NEW out \in Seq(Message), out # << >>, NEW stream,
           Pieces(read, out, 0, stream), NEW t \in Seq(Message), Len(t) = Len(out) - 1,
           \A i \in 1..Len(t) : i + 1 \in 1..Len(out) /\ t[i] = out[i + 1],
           NEW new \in Seq(Whats), new = Append(read, out[1].what)
    PROVE  /\ Pieces(new, t, 0, stream)
           /\ out[1].what = "end" => new = <<"part", "end">>
<1>1. Len(read) \in Nat /\ Len(out) \in Nat /\ Len(out) >= 1 /\ Len(read) + Len(out) <= 2
  BY DEF Pieces
<1>2. out[1].what = Piece(Len(read) + 1)
  BY <1>1 DEF Pieces
<1>3. Len(new) = Len(read) + 1 /\ new[Len(read) + 1] = out[1].what /\ \A i \in 1..Len(read) : new[i] = read[i]
  OBVIOUS
<1>4. \A i \in 1..Len(new) : new[i] = Piece(i)
  BY <1>1, <1>2, <1>3 DEF Pieces
<1>5. \A i \in 1..Len(t) : i > 0 => t[i].what = Piece(Len(new) + i - 0)
  <2> TAKE i \in 1..Len(t)
  <2>1. i + 1 \in 1..Len(out) /\ t[i] = out[i + 1] /\ i \in Int
    OBVIOUS
  <2>2. out[i + 1].what = Piece(Len(read) + (i + 1) - 0)
    BY <2>1 DEF Pieces
  <2>3. Len(read) + (i + 1) - 0 = Len(new) + i - 0
    BY <1>1, <1>3, <2>1
  <2> QED BY <2>1, <2>2, <2>3
<1>6. stream # None => Len(new) + Len(t) = 0 + (IF stream[2] = "begin" THEN 0 ELSE 1)
  BY <1>1, <1>3 DEF Pieces
<1>7. Pieces(new, t, 0, stream)
  BY <1>1, <1>3, <1>4, <1>5, <1>6 DEF Pieces
<1>8. ASSUME out[1].what = "end" PROVE new = <<"part", "end">>
  <2>1. Len(read) = 1
    <3>1. Piece(1) = "part" /\ "part" # "end"
      BY DEF Piece
    <3>2. Len(read) + 1 # 1
      BY <1>2, <1>8, <3>1
    <3>3. \A n, m \in Nat : m >= 1 /\ n + m <= 2 /\ n + 1 # 1 => n = 1
      OBVIOUS
    <3> QED BY <1>1, <3>2, <3>3, Zenon
  <2>2. Len(new) = 2 /\ new[1] = "part" /\ new[2] = "end"
    BY <1>3, <1>4, <2>1 DEF Piece
  <2> QED BY <2>2, PairIs
<1> QED BY <1>7, <1>8

\* A piece of a backup is read.
LEMMA CopyInv ==
    ASSUME ForwardInv, NEW r \in Req, Copy(r)
    PROVE  ForwardInv'
<1>1. PICK k : k = call[r].conn
  OBVIOUS
<1>2. PICK m : m = Head(conn[k].out)
  OBVIOUS
<1>3. /\ call[r].pc = "copy" /\ Using(call[r].pc) /\ conn[k].out # << >>
      /\ call' = [call EXCEPT ![r].read = Append(@, m.what),
                ![r].pc = IF m.what = "end" /\ call[r].kind = "backup" THEN "close" ELSE "copy",
                ![r].result = IF m.what = "end" /\ call[r].kind = "backup" THEN "ok" ELSE @]
      /\ conn' = [conn EXCEPT ![k].out = Tail(@)]
      /\ UNCHANGED <<cluster, applied>> /\ pool' = pool
  BY <1>1, <1>2 DEF Copy, Using
<1>4. /\ k \in Conn /\ conn[k] \in ConnState /\ call[r] \in CallState
      /\ OneCommand(conn[k], {}) /\ Carries(call[r], conn[k]) /\ CallSound(r, call[r])
  BY <1>1, <1>3, Mine
<1>5. call \in [Req -> CallState] /\ conn \in [Conn -> ConnState]
  BY DEF ForwardInv, ForwardType
<1>6. PICK w : w = [conn[k] EXCEPT !.out = Tail(@)]
  OBVIOUS
<1>7. /\ w \in ConnState /\ w.in = conn[k].in /\ w.node = conn[k].node /\ w.held = conn[k].held
      /\ w.alive = conn[k].alive /\ w.stream = conn[k].stream
      /\ Len(w.out) = Len(conn[k].out) - 1 /\ Len(conn[k].out) \in Nat \ {0}
      /\ \A i \in 1..Len(w.out) : i + 1 \in 1..Len(conn[k].out) /\ w.out[i] = conn[k].out[i + 1]
  BY <1>3, <1>4, <1>6, ReadIs
<1>8. conn' = [conn EXCEPT ![k] = w]
  BY <1>3, <1>5, <1>6
<1>9. /\ call[r].read \in Seq(Whats) /\ conn[k].out \in Seq(Message) /\ w.out \in Seq(Message)
      /\ m = conn[k].out[1] /\ m.what \in Whats /\ call[r].result = "none"
  <2>1. call[r].read \in Seq(Whats) /\ conn[k].out \in Seq(Message) /\ w.out \in Seq(Message) /\ call[r].result = "none"
    BY <1>3, <1>4, <1>7 DEF CallState, ConnState, CallSound
  <2>2. m = conn[k].out[1] /\ conn[k].out[1] \in Message
    BY <1>2, <1>3, <1>7, <2>1
  <2> QED BY <2>1, <2>2 DEF Message
<1>10. PICK q \in Seq(Whats) : q = Append(call[r].read, m.what)
  <2>1. Append(call[r].read, m.what) \in Seq(Whats)
    BY <1>9
  <2> QED BY <2>1
<1>11. Pieces(call[r].read, conn[k].out, 0, conn[k].stream)
  BY <1>3, <1>4 DEF Carries
<1>12. Pieces(q, w.out, 0, conn[k].stream) /\ (m.what = "end" => q = <<"part", "end">>)
  BY <1>3, <1>7, <1>9, <1>10, <1>11, CopiedPiece
<1>13. PICK pc \in {"copy", "close"}, res \in {"none", "ok"} :
         /\ pc = IF m.what = "end" /\ call[r].kind = "backup" THEN "close" ELSE "copy"
         /\ res = IF m.what = "end" /\ call[r].kind = "backup" THEN "ok" ELSE call[r].result
  BY <1>9
<1>14. PICK c : c = [call[r] EXCEPT !.read = q, !.pc = pc, !.result = res]
  OBVIOUS
<1>15. /\ c \in CallState /\ c.pc = pc /\ c.conn = call[r].conn /\ c.kind = call[r].kind /\ c.addr = call[r].addr
       /\ c.tries = call[r].tries /\ c.result = res /\ c.of = call[r].of /\ c.read = q
  BY <1>4, <1>14 DEF CallState, Pcs, Results
<1>16. call' = [call EXCEPT ![r] = c]
  BY <1>3, <1>5, <1>10, <1>13, <1>14
<1>17. CallSound(r, c)
  <2>1. (res = "ok" => m.what = "end") /\ (pc # "close" => res = "none") /\ call[r].kind \in Backups
    BY <1>3, <1>4, <1>9, <1>13 DEF CallSound
  <2> QED BY <1>3, <1>4, <1>12, <1>13, <1>15, <2>1 DEF CallSound, Using
<1>18. Carries(c, w) /\ Sends(c) >= Sends(call[r])
  BY <1>3, <1>4, <1>7, <1>12, <1>15 DEF Carries, Sends, CallState
<1>19. OneCommand(w, IF c.pc = "read" THEN {r} ELSE {})
  <2>1. \A i \in 1..Len(w.out) : w.out[i].what \notin Frame
    BY <1>4, <1>7 DEF OneCommand
  <2>2. conn[k].held
    BY <1>4 DEF Carries
  <2> QED BY <1>4, <1>7, <1>15, <2>1, <2>2 DEF OneCommand
<1>20. ~ (c.kind \in Writes)
  <2>1. call[r].kind \in Backups
    BY <1>3, <1>4 DEF CallSound
  <2> QED BY <1>15, <2>1 DEF Writes, Backups
<1>21. \A i \in 1..Len(w.out) : \E j \in 1..Len(conn[k].out) : w.out[i] = conn[k].out[j]
  BY <1>7
<1>22. c \in CallState /\ c.conn = k /\ c.kind = call[r].kind
  BY <1>1, <1>15
<1> QED BY <1>1, <1>3, <1>7, <1>8, <1>16, <1>17, <1>18, <1>19, <1>20, <1>21, <1>22, Continues

----------------------------------------------------------------------------
(* The other end of a connection.                                          *)

\* The queue of answers after one is written, if this end still reads it.
LEMMA SentIs ==
    ASSUME ForwardInv, NEW k \in Conn, NEW r \in Req, NEW what \in Whats, NEW q, q = Sent(k, r, what)
    PROVE  /\ q \in Seq(Message) /\ conn[k].out \in Seq(Message) /\ Len(conn[k].out) \in Nat
           /\ ~ conn[k].held => q = conn[k].out
           /\ conn[k].held => /\ Len(q) = Len(conn[k].out) + 1
                              /\ q[Len(q)] = [of |-> r, what |-> what]
           /\ \A i \in 1..Len(conn[k].out) : q[i] = conn[k].out[i]
<1>1. PICK o \in Seq(Message) : o = conn[k].out
  BY DEF ForwardInv, ForwardType, ConnState
<1>2. PICK m \in Message : m = [of |-> r, what |-> what]
  BY DEF Message
<1>3. q = IF conn[k].held THEN Append(o, m) ELSE o
  BY <1>1, <1>2 DEF Sent
<1>4. Append(o, m) \in Seq(Message) /\ Len(Append(o, m)) = Len(o) + 1 /\ Append(o, m)[Len(o) + 1] = m
      /\ (\A i \in 1..Len(o) : Append(o, m)[i] = o[i]) /\ Len(o) \in Nat
  OBVIOUS
<1> QED BY <1>1, <1>2, <1>3, <1>4

\* A queue of one element.
LEMMA OneElement ==
    ASSUME NEW S, NEW q \in Seq(S), q # << >>, Len(q) <= 1
    PROVE  Len(q) = 1 /\ Head(q) = q[1] /\ q[1] \in S /\ Tail(q) = << >>
<1>1. Len(q) \in Nat \ {0}
  OBVIOUS
<1>2. Len(q) = 1
  <2>1. \A x \in Nat \ {0} : x <= 1 => x = 1
    OBVIOUS
  <2> QED BY <1>1, <2>1, Zenon
<1>3. Head(q) = q[1] /\ q[1] \in S /\ Tail(q) \in Seq(S) /\ Len(Tail(q)) = 0
  BY <1>2
<1>4. \A t \in Seq(S) : Len(t) = 0 => t = << >>
  OBVIOUS
<1> QED BY <1>2, <1>3, <1>4, Zenon

\* A stream that has not sent anything yet.
Fresh(stream) == stream # None => stream[2] = "begin"

\* The command at the head of the queue is the only one.
LEMMA HeadOfIn ==
    ASSUME ForwardInv, NEW k \in Conn, Reading(k), NEW r, r = Head(conn[k].in)
    PROVE  r \in Req /\ r = conn[k].in[1] /\ Tail(conn[k].in) = << >> /\ conn[k].in # << >>
<1>0. conn[k] \in ConnState /\ OneCommand(conn[k], Awaiting(k))
  BY DEF ForwardInv, ForwardType
<1>1. PICK i \in Seq(Req) : i = conn[k].in /\ i # << >> /\ Len(i) <= 1
  <2>1. conn[k].in \in Seq(Req) /\ conn[k].in # << >> /\ Len(conn[k].in) <= 1
    BY <1>0 DEF ConnState, OneCommand, Reading
  <2> QED BY <2>1
<1>2. Head(i) = i[1] /\ i[1] \in Req /\ Tail(i) = << >>
  BY <1>1, OneElement
<1> QED BY <1>1, <1>2

\* The node at the other end of k, which becomes w, reads the command of r, carries it
\* out n times and answers it.
Answers(k, w, r, what, n) ==
    /\ conn[k].in # << >> /\ conn[k].in[1] = r
    /\ call[r].kind \in Writes /\ what = "ok" => n = 1
    /\ w.in = << >> /\ w.alive = conn[k].held /\ Fresh(w.stream)
    /\ w.out = Sent(k, r, what) /\ w.node = conn[k].node /\ w.held = conn[k].held
    /\ conn' = [conn EXCEPT ![k] = w] /\ applied' = [applied EXCEPT ![r] = @ + n]
    /\ UNCHANGED <<cluster, pool, call>>

\* The answer goes to the call that waits for it.
LEMMA ServeInv ==
    ASSUME ForwardInv, NEW k \in Conn, NEW r \in Req, NEW what \in Frame, NEW n \in {0, 1},
           NEW w \in ConnState, Answers(k, w, r, what, n)
    PROVE  ForwardInv'
<1> USE DEF Answers
<1>0. conn \in [Conn -> ConnState] /\ conn[k] \in ConnState /\ OneCommand(conn[k], Awaiting(k))
  BY DEF ForwardInv, ForwardType
<1>2. r \in Req /\ r = conn[k].in[1] /\ conn[k].in # << >>
  OBVIOUS
<1>3. what \in Whats
  BY DEF Frame, Whats
<1>4. PICK q : q = Sent(k, r, what)
  OBVIOUS
<1>5. /\ q \in Seq(Message) /\ conn[k].out \in Seq(Message) /\ Len(conn[k].out) \in Nat
      /\ ~ conn[k].held => q = conn[k].out
      /\ conn[k].held => Len(q) = Len(conn[k].out) + 1 /\ q[Len(q)] = [of |-> r, what |-> what]
      /\ \A j \in 1..Len(conn[k].out) : q[j] = conn[k].out[j]
  BY <1>2, <1>3, <1>4, SentIs
<1>8. w.in = << >> /\ w.out = q /\ w.node = conn[k].node /\ w.held = conn[k].held
  BY <1>4
<1>9. conn' = [conn EXCEPT ![k] = w]
  OBVIOUS
<1>10. conn[k].held => r \in Awaiting(k) /\ \A j \in 1..Len(conn[k].out) : conn[k].out[j].what \notin Frame
  BY <1>0, <1>2 DEF OneCommand
<1>11. \A j \in 1..Len(q) : \/ j \in 1..Len(conn[k].out) /\ q[j] = conn[k].out[j]
                            \/ conn[k].held /\ j = Len(q) /\ q[j] = [of |-> r, what |-> what]
  BY <1>5
<1>12. OneCommand(w, Awaiting(k))
  <2>1. ~ w.held => w.out = << >>
    BY <1>0, <1>5, <1>8 DEF OneCommand
  <2>2. ASSUME NEW j \in 1..Len(w.out), w.out[j].what \in Frame
        PROVE  w.out[j].of \in Awaiting(k) /\ \A l \in 1..Len(w.out) : w.out[l].what \in Frame => l = j
    <3>0. \A l \in 1..Len(q) : q[l].what \in Frame => conn[k].held /\ l = Len(q) /\ q[l].of = r
      <4>1. ASSUME NEW l \in 1..Len(q), q[l].what \in Frame PROVE conn[k].held /\ l = Len(q) /\ q[l].of = r
        <5>1. CASE conn[k].held
          <6>1. ~ (l \in 1..Len(conn[k].out) /\ q[l] = conn[k].out[l])
            BY <1>10, <4>1, <5>1
          <6> QED BY <1>11, <4>1, <5>1, <6>1
        <5>2. CASE ~ conn[k].held
          BY <1>5, <1>8, <2>1, <4>1, <5>2
        <5> QED BY <5>1, <5>2
      <4> QED BY <4>1
    <3> QED BY <1>8, <1>10, <2>2, <3>0
  <2>3. Len(w.in) <= 1 /\ w.in = << >>
    BY <1>8
  <2> QED BY <2>1, <2>2, <2>3 DEF OneCommand
<1>13. ASSUME NEW s \in Req, Using(call[s].pc), call[s].conn = k PROVE Carries(call[s], w)
  <2>1. Carries(call[s], conn[k])
    BY <1>13 DEF ForwardInv
  <2>2. conn[k].held /\ conn[k].node \in Member
    BY <2>1 DEF Carries
  <2>3. call[r].pc = "read" /\ call[r].conn = k
    BY <1>10, <2>2 DEF Awaiting
  <2>4. s = r
    <3>1. Using(call[r].pc) /\ \A t \in Req \ {r} : call[t].conn # k
      BY <1>2, <2>3, Mine DEF Using
    <3> QED BY <1>13, <3>1
  <2>5. ASSUME w.out # << >>, w.out[1].what \in Frame PROVE Pieces(<< >>, w.out, 1, w.stream)
    <3>1. Len(q) = Len(conn[k].out) + 1
      BY <1>5, <2>2
    <3>2. Len(conn[k].out) = 0
      <4> SUFFICES ASSUME Len(conn[k].out) # 0 PROVE FALSE
        OBVIOUS
      <4>0. \A x \in Nat : x # 0 => 1 \in 1..x
        OBVIOUS
      <4>a. 1 \in 1..Len(conn[k].out)
        BY <1>5, <4>0, Zenon
      <4>1. 1 \in 1..Len(conn[k].out) /\ q[1] = conn[k].out[1]
        BY <1>5, <4>a, Zenon
      <4> QED BY <1>8, <1>10, <2>2, <2>5, <4>1
    <3>3. Len(w.out) = 1
      BY <1>8, <3>1, <3>2
    <3>4. Len(<< >>) = 0 /\ \A i \in 1..Len(w.out) : ~ (i > 1)
      BY <3>3
    <3> QED BY <3>3, <3>4 DEF Pieces, Fresh
  <2> QED BY <1>8, <2>2, <2>3, <2>4, <2>5 DEF Carries
<1>14. \A j \in 1..Len(w.out) :
              \/ \E l \in 1..Len(conn[k].out) : w.out[j] = conn[k].out[l]
              \/ w.out[j].what = "ok" => w.out[j].of = r /\ (call[r].kind \in Writes => n = 1)
  <2> TAKE j \in 1..Len(w.out)
  <2>1. CASE j \in 1..Len(conn[k].out) /\ q[j] = conn[k].out[j]
    BY <1>8, <2>1
  <2>2. CASE q[j] = [of |-> r, what |-> what]
    BY <1>8, <2>2
  <2> QED BY <1>8, <1>11, <2>1, <2>2
<1>15. (w.in = conn[k].in \/ w.in = << >>) /\ (n = 1 => conn[k].in # << >> /\ conn[k].in[1] = r /\ w.in = << >>)
  BY <1>2, <1>8
<1>16. \A s \in Req : Using(call[s].pc) /\ call[s].conn = k => Carries(call[s], w)
  BY <1>13, Zenon
<1>17. w.node = conn[k].node /\ w.held = conn[k].held /\ w \in ConnState
  BY <1>8
<1>18. r \in Req /\ applied' = [applied EXCEPT ![r] = @ + n] /\ UNCHANGED <<cluster, pool, call>>
  BY <1>2
<1>19. Serves(k, w, r, n)
  BY <1>9, <1>12, <1>14, <1>15, <1>16, <1>17, <1>18 DEF Serves
<1> QED BY <1>17, <1>18, <1>19, ServerStep

\* The commands that have one answer.
LEMMA CarryOutInv ==
    ASSUME ForwardInv, NEW k \in Conn, Reading(k), CarryOut(k)
    PROVE  ForwardInv'
<1>1. PICK r : r = Head(conn[k].in)
  OBVIOUS
<1>2. PICK o \in Outcome(conn[k].node, call[r].kind) :
        /\ applied' = [applied EXCEPT ![r] = @ + o[2]]
        /\ conn' = [conn EXCEPT ![k].in = Tail(@), ![k].alive = conn[k].held,
                                ![k].out = Sent(k, r, o[1])]
  BY <1>1 DEF CarryOut
<1>3. UNCHANGED <<cluster, pool, call>>
  BY DEF CarryOut
<1>4. conn \in [Conn -> ConnState] /\ conn[k] \in ConnState /\ call \in [Req -> CallState] /\ conn[k].stream = None
  BY DEF ForwardInv, ForwardType, Reading
<1>5. r \in Req /\ Tail(conn[k].in) = << >> /\ conn[k].in # << >> /\ conn[k].in[1] = r
  BY <1>1, HeadOfIn
<1>6. call[r].kind \in AllKinds
  BY <1>4, <1>5 DEF CallState
<1>7. o[1] \in Frame /\ o[2] \in {0, 1} /\ (call[r].kind \in Writes /\ o[1] = "ok" => o[2] = 1)
  BY <1>2, <1>6, Outcomes
<1>8. PICK q : q = Sent(k, r, o[1])
  OBVIOUS
<1>9. q \in Seq(Message)
  <2>1. o[1] \in Whats
    BY <1>7 DEF Frame, Whats
  <2> QED BY <1>5, <1>8, <2>1, SentIs
<1>e. PICK e \in Seq(Req) : e = << >>
  BY NothingIsSeq
<1>10. PICK w : w = [conn[k] EXCEPT !.in = e, !.alive = conn[k].held, !.out = q]
  OBVIOUS
<1>11. /\ w \in ConnState /\ w.in = e /\ w.alive = conn[k].held /\ w.stream = None /\ w.out = q
       /\ w.node = conn[k].node /\ w.held = conn[k].held
  BY <1>4, <1>9, <1>10 DEF ConnState
<1>13. conn' = [conn EXCEPT ![k] = w]
  BY <1>2, <1>4, <1>5, <1>8, <1>10, <1>e
<1>14. w.in = << >> /\ Fresh(w.stream)
  BY <1>11, <1>e DEF Fresh
<1>15. Answers(k, w, r, o[1], o[2])
  BY <1>2, <1>3, <1>5, <1>7, <1>8, <1>11, <1>13, <1>14 DEF Answers
<1> QED BY <1>5, <1>7, <1>11, <1>15, ServeInv

\* A backup is answered, and its stream begins.
LEMMA ServeBackupInv ==
    ASSUME ForwardInv, NEW k \in Conn, ServeBackup(k)
    PROVE  ForwardInv'
<1>1. PICK r : r = Head(conn[k].in)
  OBVIOUS
<1>2. PICK what \in {"ok", "error"} :
        conn' = [conn EXCEPT ![k].in = Tail(@), ![k].alive = conn[k].held,
                             ![k].stream = IF conn[k].held THEN <<r, "begin">> ELSE None,
                             ![k].out = Sent(k, r, what)]
  BY <1>1 DEF ServeBackup
<1>3. Reading(k) /\ call[r].kind \in Backups /\ UNCHANGED <<cluster, pool, call>> /\ applied' = applied
  BY <1>1 DEF ServeBackup
<1>4. r \in Req /\ Tail(conn[k].in) = << >> /\ conn[k].in # << >> /\ conn[k].in[1] = r /\ conn \in [Conn -> ConnState] /\ conn[k] \in ConnState
  BY <1>1, <1>3, HeadOfIn DEF ForwardInv, ForwardType
<1>5. applied' = [applied EXCEPT ![r] = @ + 0]
  BY <1>3, <1>4, NoneApplied
<1>6. PICK stream \in {None} \cup (Req \X {"begin", "middle"}) :
         /\ stream = IF conn[k].held THEN <<r, "begin">> ELSE None
         /\ Fresh(stream)
  <2>1. <<r, "begin">> \in Req \X {"begin", "middle"} /\ <<r, "begin">>[2] = "begin"
    BY <1>4
  <2> QED BY <2>1 DEF Fresh
<1>7. what \in Frame /\ ~ (call[r].kind \in Writes)
  BY <1>2, <1>3 DEF Frame, Backups, Writes
<1>8. PICK q : q = Sent(k, r, what)
  OBVIOUS
<1>9. q \in Seq(Message)
  <2>1. what \in Whats
    BY <1>7 DEF Frame, Whats
  <2> QED BY <1>4, <1>8, <2>1, SentIs
<1>e. PICK e \in Seq(Req) : e = << >>
  BY NothingIsSeq
<1>10. PICK w : w = [conn[k] EXCEPT !.in = e, !.alive = conn[k].held, !.stream = stream, !.out = q]
  OBVIOUS
<1>11. /\ w \in ConnState /\ w.in = e /\ w.alive = conn[k].held /\ w.stream = stream /\ w.out = q
       /\ w.node = conn[k].node /\ w.held = conn[k].held
  BY <1>4, <1>6, <1>9, <1>10 DEF ConnState
<1>13. conn' = [conn EXCEPT ![k] = w]
  BY <1>2, <1>4, <1>6, <1>8, <1>10, <1>e
<1>14. w.in = << >> /\ Fresh(w.stream)
  BY <1>6, <1>11, <1>e
<1>15. Answers(k, w, r, what, 0)
  BY <1>3, <1>4, <1>5, <1>7, <1>8, <1>11, <1>13, <1>14 DEF Answers
<1> QED BY <1>4, <1>7, <1>11, <1>15, ServeInv

\* A piece of a backup is sent.
LEMMA StreamPiece ==
    ASSUME ForwardInv, NEW k \in Conn, conn[k].stream # None, conn[k].held,
           NEW r \in Req, NEW next \in {None} \cup (Req \X {"begin", "middle"}),
           NEW what \in {"part", "end"}, what = "part" <=> conn[k].stream[2] = "begin",
           next # None => conn[k].stream[2] = "begin" /\ next[2] = "middle",
           conn' = [conn EXCEPT ![k].stream = next, ![k].out = Sent(k, r, what)],
           UNCHANGED <<cluster, pool, call, applied>>
    PROVE  ForwardInv'
<1> DEFINE b == conn[k].stream[2] = "begin"
<1>0. conn \in [Conn -> ConnState] /\ conn[k] \in ConnState /\ OneCommand(conn[k], Awaiting(k))
  BY DEF ForwardInv, ForwardType
<1>1. what \in Whats /\ what \notin Frame
  BY DEF Whats, Frame
<1>2. PICK q : q = Sent(k, r, what)
  OBVIOUS
<1>3. /\ q \in Seq(Message) /\ conn[k].out \in Seq(Message) /\ Len(conn[k].out) \in Nat
      /\ Len(q) = Len(conn[k].out) + 1 /\ q[Len(q)] = [of |-> r, what |-> what]
      /\ \A j \in 1..Len(conn[k].out) : q[j] = conn[k].out[j]
  BY <1>1, <1>2, SentIs
<1>4. PICK w : w = [conn[k] EXCEPT !.stream = next, !.out = q]
  OBVIOUS
<1>5. /\ w \in ConnState /\ w.in = conn[k].in /\ w.alive = conn[k].alive /\ w.stream = next /\ w.out = q
      /\ w.node = conn[k].node /\ w.held = conn[k].held
  BY <1>0, <1>3, <1>4 DEF ConnState
<1>6. conn' = [conn EXCEPT ![k] = w]
  BY <1>0, <1>2, <1>4
<1>7. q[Len(q)].of = r /\ q[Len(q)].what = what
  BY <1>3
<1>8. \A j \in 1..Len(q) : \/ j \in 1..Len(conn[k].out) /\ q[j] = conn[k].out[j]
                           \/ j = Len(q) /\ q[j].what = what
  BY <1>3, <1>7
<1>9. \A j \in 1..Len(q) : q[j].what \in Frame => j \in 1..Len(conn[k].out) /\ q[j] = conn[k].out[j]
  BY <1>1, <1>8
<1>10. OneCommand(w, Awaiting(k))
  BY <1>0, <1>5, <1>9 DEF OneCommand
<1>11. ASSUME NEW read, NEW off \in {0, 1}, Len(read) \in Nat,
              Pieces(read, conn[k].out, off, conn[k].stream), Len(conn[k].out) >= off
       PROVE  Pieces(read, w.out, off, w.stream)
  <2>1. Len(read) + Len(conn[k].out) = off + (IF b THEN 0 ELSE 1)
    BY <1>11 DEF Pieces
  <2>2. Len(read) + Len(q) = off + (IF b THEN 1 ELSE 2)
    BY <1>3, <1>11, <2>1
  <2>3. what = Piece(IF b THEN 1 ELSE 2)
    BY DEF Piece
  <2>4. ASSUME NEW i \in 1..Len(q), i > off PROVE q[i].what = Piece(Len(read) + i - off)
    <3>1. CASE i \in 1..Len(conn[k].out) /\ q[i] = conn[k].out[i]
      BY <1>11, <2>4, <3>1 DEF Pieces
    <3>2. CASE i = Len(q) /\ q[i].what = what
      <4>1. Len(read) + i - off = IF b THEN 1 ELSE 2
        BY <1>3, <1>11, <2>2, <3>2
      <4> QED BY <2>3, <3>2, <4>1
    <3> QED BY <1>8, <3>1, <3>2
  <2>5. next # None => Len(read) + Len(q) = off + (IF next[2] = "begin" THEN 0 ELSE 1)
    BY <2>2
  <2>6. Len(read) + Len(q) <= 2 + off
    BY <1>11, <2>2
  <2>7. \A i \in 1..Len(read) : read[i] = Piece(i)
    BY <1>11 DEF Pieces
  <2> QED BY <1>5, <2>4, <2>5, <2>6, <2>7 DEF Pieces
<1>12. ASSUME NEW s \in Req, Using(call[s].pc), call[s].conn = k PROVE Carries(call[s], w)
  <2>1. Carries(call[s], conn[k]) /\ call[s] \in CallState
    BY <1>12 DEF ForwardInv, ForwardType
  <2>2. call[s].read \in Seq(Whats)
    BY <2>1 DEF CallState
  <2>3. call[s].pc = "copy" => Pieces(call[s].read, w.out, 0, w.stream)
    BY <1>3, <1>11, <2>1, <2>2 DEF Carries
  <2>4. ASSUME call[s].pc = "read", w.out # << >>, w.out[1].what \in Frame
        PROVE  Pieces(<< >>, w.out, 1, w.stream)
    <3>1. 1 \in 1..Len(conn[k].out) /\ q[1] = conn[k].out[1]
      BY <1>3, <1>5, <1>9, <2>4
    <3>2. conn[k].out # << >> /\ Len(conn[k].out) >= 1 /\ Len(<< >>) \in Nat
      BY <3>1
    <3>3. Pieces(<< >>, conn[k].out, 1, conn[k].stream)
      BY <1>5, <2>1, <2>4, <3>1, <3>2 DEF Carries
    <3> QED BY <1>11, <3>2, <3>3
  <2> QED BY <1>5, <2>1, <2>3, <2>4 DEF Carries
<1>13. \A j \in 1..Len(w.out) :
              \/ \E l \in 1..Len(conn[k].out) : w.out[j] = conn[k].out[l]
              \/ w.out[j].what = "ok" => w.out[j].of = r /\ (call[r].kind \in Writes => 0 = 1)
  BY <1>5, <1>8
<1>14. applied' = [applied EXCEPT ![r] = @ + 0]
  BY NoneApplied
<1>15. Serves(k, w, r, 0)
  <2>1. \A s \in Req : Using(call[s].pc) /\ call[s].conn = k => Carries(call[s], w)
    BY <1>12, Zenon
  <2>2. UNCHANGED <<cluster, pool, call>> /\ ~ (0 = 1)
    OBVIOUS
  <2>3. w.node = conn[k].node /\ w.held = conn[k].held /\ w.in = conn[k].in
    BY <1>5
  <2> QED BY <1>6, <1>10, <1>13, <1>14, <2>1, <2>2, <2>3, Zenon DEF Serves
<1> QED BY <1>5, <1>15, ServerStep

\* The leader sends a backup.
LEMMA StreamInv ==
    ASSUME ForwardInv, NEW k \in Conn, Stream(k)
    PROVE  ForwardInv'
<1>1. PICK r : r = conn[k].stream[1]
  OBVIOUS
<1>2. conn[k].stream # None /\ conn[k].held /\ UNCHANGED <<cluster, pool, call, applied>>
  BY DEF Stream
<1>3. conn[k].stream \in Req \X {"begin", "middle"}
  BY <1>2 DEF ForwardInv, ForwardType, ConnState
<1>4. r \in Req /\ <<r, "middle">> \in Req \X {"begin", "middle"} /\ <<r, "middle">>[2] = "middle"
  BY <1>1, <1>3
<1>5. \/ /\ conn[k].stream[2] = "begin"
         /\ conn' = [conn EXCEPT ![k].stream = <<r, "middle">>, ![k].out = Sent(k, r, "part")]
      \/ /\ conn[k].stream[2] = "middle"
         /\ conn' = [conn EXCEPT ![k].stream = None, ![k].out = Sent(k, r, "end")]
  BY <1>1 DEF Stream
<1>6. PICK next \in {None} \cup (Req \X {"begin", "middle"}), what \in {"part", "end"} :
         /\ what = "part" <=> conn[k].stream[2] = "begin"
         /\ next # None => conn[k].stream[2] = "begin" /\ next[2] = "middle"
         /\ conn' = [conn EXCEPT ![k].stream = next, ![k].out = Sent(k, r, what)]
  <2>1. CASE /\ conn[k].stream[2] = "begin"
             /\ conn' = [conn EXCEPT ![k].stream = <<r, "middle">>, ![k].out = Sent(k, r, "part")]
    BY <1>4, <2>1
  <2>2. CASE /\ conn[k].stream[2] = "middle"
             /\ conn' = [conn EXCEPT ![k].stream = None, ![k].out = Sent(k, r, "end")]
    BY <1>4, <2>2
  <2> QED BY <1>5, <2>1, <2>2
<1> QED BY <1>2, <1>4, <1>6, StreamPiece

\* The record of a connection whose other end is gone.
Cut(w) == [w EXCEPT !.alive = FALSE, !.in = << >>, !.stream = None]

\* What such a connection has left is what this end has not read yet.
LEMMA CutIs ==
    ASSUME NEW x \in ConnState, NEW w, w = Cut(x)
    PROVE  /\ w \in ConnState /\ w.in = << >> /\ w.stream = None /\ w.out = x.out
           /\ w.node = x.node /\ w.held = x.held
           /\ \A W : OneCommand(x, W) => OneCommand(w, W)
           /\ \A c : Carries(c, x) => Carries(c, w)
<1>1. PICK e \in Seq(Req) : e = << >>
  BY NothingIsSeq
<1>2. w = [x EXCEPT !.alive = FALSE, !.in = e, !.stream = None]
  BY <1>1 DEF Cut
<1>3. /\ w \in ConnState /\ w.in = e /\ w.alive = FALSE /\ w.stream = None /\ w.out = x.out
      /\ w.node = x.node /\ w.held = x.held
  BY <1>2 DEF ConnState
<1>4. w.in = << >> /\ Len(w.in) <= 1
  BY <1>1, <1>3
<1>5. ASSUME NEW W, OneCommand(x, W) PROVE OneCommand(w, W)
  BY <1>3, <1>4, <1>5 DEF OneCommand
<1>6. ASSUME NEW c, Carries(c, x) PROVE Carries(c, w)
  BY <1>3, <1>6 DEF Carries, Pieces
<1> QED BY <1>3, <1>4, <1>5, <1>6

\* The other ends of some connections go.
LEMMA CutStep ==
    ASSUME ForwardInv, UNCHANGED <<pool, call, applied>>,
           leader' \in Member \cup {None}, hint' \in Member \cup {None},
           conn' \in [Conn -> ConnState], \A k \in Conn : conn'[k] = conn[k] \/ conn'[k] = Cut(conn[k])
    PROVE  ForwardInv'
<1>0. ForwardType /\ Exclusive /\ pool' = pool /\ call' = call /\ applied' = applied
  BY DEF ForwardInv
<1>1. ForwardType'
  BY <1>0 DEF ForwardType
<1>2. ASSUME NEW k \in Conn
      PROVE  /\ conn'[k].out = conn[k].out /\ conn'[k].node = conn[k].node /\ conn'[k].held = conn[k].held
             /\ conn'[k].in = conn[k].in \/ conn'[k].in = << >>
             /\ \A W : OneCommand(conn[k], W) => OneCommand(conn'[k], W)
             /\ \A c : Carries(c, conn[k]) => Carries(c, conn'[k])
  <2>1. conn[k] \in ConnState
    BY <1>0 DEF ForwardType
  <2>2. CASE conn'[k] = conn[k]
    BY <2>2, Zenon
  <2>3. CASE conn'[k] = Cut(conn[k])
    BY <2>1, <2>3, CutIs
  <2> QED BY <2>2, <2>3
<1>3. Exclusive'
  BY <1>0, <1>2, SameExclusive
<1>4. \A k \in Conn : OneCommand(conn[k], Awaiting(k))'
  <2> TAKE k \in Conn
  <2>1. Awaiting(k)' = Awaiting(k) /\ OneCommand(conn[k], Awaiting(k))
    BY <1>0 DEF Awaiting, ForwardInv
  <2>2. OneCommand(conn'[k], Awaiting(k))
    BY <1>2, <2>1
  <2> QED BY <2>1, <2>2 DEF OneCommand
<1>5. ASSUME NEW s \in Req PROVE Budget(s)'
  <2>0. IsFiniteSet(Unserved(s)) /\ applied[s] + Cardinality(Unserved(s)) <= Sends(call[s])
    BY DEF ForwardInv, Budget
  <2>1. applied[s] \in Nat /\ Sends(call[s]) \in Nat /\ Cardinality(Unserved(s)) \in Nat
    BY <1>0, <2>0, SendsIsNat, FS_CardinalityType DEF ForwardType
  <2>2. Sends(call[s])' = Sends(call[s]) /\ applied'[s] = applied[s]
    BY <1>0 DEF Sends
  <2>3. Unserved(s)' \subseteq Unserved(s)
    BY <1>2 DEF Unserved
  <2>4. IsFiniteSet(Unserved(s)') /\ Cardinality(Unserved(s)') <= Cardinality(Unserved(s))
    BY <2>0, <2>3, FS_Subset
  <2>5. Cardinality(Unserved(s)') \in Nat
    BY <2>4, FS_CardinalityType
  <2> QED BY <2>0, <2>1, <2>2, <2>4, <2>5 DEF Budget
<1>6. ASSUME NEW s \in Req PROVE OkIsApplied(s)'
  <2>1. OkIsApplied(s)
    BY DEF ForwardInv
  <2> QED BY <1>0, <1>2, <2>1 DEF OkIsApplied
<1>7. ASSUME NEW s \in Req
      PROVE  CallSound(s, call[s])' /\ (Using(call[s].pc) => Carries(call[s], conn[call[s].conn]))'
  <2>1. CallSound(s, call[s]) /\ (Using(call[s].pc) => Carries(call[s], conn[call[s].conn]))
    BY DEF ForwardInv
  <2>2. Using(call[s].pc) => Carries(call[s], conn'[call[s].conn])
    BY <1>2, <2>1, UsesConn
  <2>3. call'[s] = call[s]
    BY <1>0
  <2> QED BY <2>1, <2>2, <2>3 DEF CallSound, Carries
<1> QED BY <1>1, <1>3, <1>4, <1>5, <1>6, <1>7 DEF ForwardInv

\* The elections and restarts of the other nodes, and what this one hears of them.
LEMMA ClusterStepInv ==
    ASSUME ForwardInv, LeaderMoves \/ Learn \/ (\E n \in Member : PeerRestart(n)) \/ \E k \in Conn : CloseServer(k)
    PROVE  ForwardInv'
<1>0. conn \in [Conn -> ConnState] /\ leader \in Member \cup {None} /\ hint \in Member \cup {None}
  BY DEF ForwardInv, ForwardType
<1>1. CASE LeaderMoves \/ Learn
  BY <1>0, <1>1, CutStep DEF LeaderMoves, Learn
<1>2. ASSUME NEW n \in Member, PeerRestart(n) PROVE ForwardInv'
  <2>1. conn' = [k \in Conn |-> IF conn[k].node = n THEN Cut(conn[k]) ELSE conn[k]]
    BY <1>2 DEF PeerRestart, Cut
  <2>2. \A k \in Conn : Cut(conn[k]) \in ConnState
    BY <1>0, CutIs
  <2>3. conn' \in [Conn -> ConnState] /\ \A k \in Conn : conn'[k] = conn[k] \/ conn'[k] = Cut(conn[k])
    BY <1>0, <2>1, <2>2
  <2>4. leader' \in Member \cup {None} /\ hint' \in Member \cup {None} /\ UNCHANGED <<pool, call, applied>>
    BY <1>0, <1>2 DEF PeerRestart
  <2> QED BY <2>3, <2>4, CutStep
<1>3. ASSUME NEW k \in Conn, CloseServer(k) PROVE ForwardInv'
  <2>0. conn[k] \in ConnState
    BY <1>0
  <2>1. conn' = [conn EXCEPT ![k] = Cut(conn[k])]
    BY <1>0, <1>3 DEF CloseServer, Cut
  <2>2. Cut(conn[k]) \in ConnState
    BY <2>0, CutIs
  <2>3. conn' \in [Conn -> ConnState] /\ \A j \in Conn : conn'[j] = conn[j] \/ conn'[j] = Cut(conn[j])
    BY <1>0, <2>1, <2>2
  <2>4. leader' \in Member \cup {None} /\ hint' \in Member \cup {None} /\ UNCHANGED <<pool, call, applied>>
    BY <1>0, <1>3 DEF CloseServer, cluster
  <2> QED BY <2>3, <2>4, CutStep
<1> QED BY <1>1, <1>2, <1>3

----------------------------------------------------------------------------
(* The theorems.                                                           *)

\* No request has arrived.
LEMMA ForwardInitInv == ForwardingInit => ForwardInv
<1> SUFFICES ASSUME ForwardingInit PROVE ForwardInv
  OBVIOUS
<1>0. Idle \in CallState /\ Closed \in ConnState /\ << >> \in Seq(Conn)
  <2>1. << >> \in Seq(Whats) /\ << >> \in Seq(Req) /\ << >> \in Seq(Message) /\ << >> \in Seq(Conn)
    BY NothingIsSeq
  <2> QED BY <2>1 DEF Idle, Closed, CallState, ConnState, Pcs, AllKinds, Results
<1>1. ForwardType
  BY <1>0 DEF ForwardingInit, ForwardType
<1>2. /\ \A r \in Req : call[r] = Idle /\ applied[r] = 0
      /\ \A k \in Conn : conn[k] = Closed
      /\ \A n \in Member : pool[n] = << >>
  BY DEF ForwardingInit
<1>3. /\ Idle.pc = "idle" /\ Idle.conn = None /\ Idle.kind = "query" /\ Idle.tries = 0 /\ Idle.of = None
      /\ Idle.read = << >> /\ Idle.result = "none"
      /\ Closed.in = << >> /\ Closed.out = << >> /\ Closed.stream = None /\ Closed.held = FALSE /\ Closed.alive = FALSE
  BY DEF Idle, Closed
<1>4. Exclusive
  BY <1>2, <1>3 DEF Exclusive
<1>5. \A W : OneCommand(Closed, W)
  BY <1>3 DEF OneCommand
<1>6. \A r : CallSound(r, Idle) /\ ~ Using(Idle.pc) /\ Sends(Idle) = 0
  BY <1>3, RetriesAreNat DEF CallSound, Using, Sends, Backups
<1>7. ASSUME NEW r \in Req PROVE Budget(r) /\ OkIsApplied(r)
  <2>1. Unserved(r) = {}
    BY <1>2, <1>3 DEF Unserved
  <2>2. IsFiniteSet(Unserved(r)) /\ Cardinality(Unserved(r)) = 0
    BY <2>1, FS_EmptySet
  <2>3. Budget(r)
    BY <1>2, <1>6, <2>2 DEF Budget
  <2>4. OkIsApplied(r)
    BY <1>2, <1>3 DEF OkIsApplied, Writes
  <2> QED BY <2>3, <2>4
<1> QED BY <1>1, <1>2, <1>4, <1>5, <1>6, <1>7 DEF ForwardInv

\* Every step keeps the invariant.
LEMMA ForwardNextInv == ForwardInv /\ [ForwardingNext]_forwardVars => ForwardInv'
<1> SUFFICES ASSUME ForwardInv, [ForwardingNext]_forwardVars PROVE ForwardInv'
  OBVIOUS
<1>1. ASSUME NEW r \in Req, Handle(r) PROVE ForwardInv'
  <2>1. CASE execute(r) \/ handleQuery(r) \/ handleRequest(r) \/ handleRemove(r) \/ handleBackup(r) \/ Load(r)
    BY <2>1, HandlersInv
  <2>2. CASE handleLoad(r) \/ LeaderAddr(r)
    BY <2>2, HandleLoadInv, LeaderAddrInv
  <2>3. CASE Get(r) \/ Dial(r) \/ DialFailed(r)
    BY <2>3, GetInv, DialInv, DialFailedInv
  <2>4. CASE WriteCommand(r) \/ CallFailed(r) \/ ReadResponse(r) \/ Return(r)
    BY <2>4, WriteCommandInv, CallFailedInv, ReadResponseInv, ReturnInv
  <2>5. CASE Copy(r) \/ CopyEOF(r) \/ CopyTimeout(r)
    BY <2>5, CopyInv, CopyEndsInv
  <2> QED BY <1>1, <2>1, <2>2, <2>3, <2>4, <2>5, Zenon DEF Handle
<1>2. ASSUME NEW k \in Conn, HandleConn(k) PROVE ForwardInv'
  <2>1. CASE ServeStatements(k) \/ ServeLoad(k) \/ ServeRemove(k)
    BY <2>1, CarryOutInv DEF ServeStatements, ServeLoad, ServeRemove
  <2>2. CASE ServeBackup(k) \/ Stream(k)
    BY <2>2, ServeBackupInv, StreamInv
  <2>3. CASE CloseServer(k)
    BY <2>3, ClusterStepInv
  <2> QED BY <1>2, <2>1, <2>2, <2>3, Zenon DEF HandleConn
<1>3. CASE LeaderMoves \/ Learn \/ \E n \in Member : PeerRestart(n)
  BY <1>3, ClusterStepInv
<1>4. CASE UNCHANGED forwardVars
  <2>1. /\ UNCHANGED <<pool, call, applied>> /\ leader' = leader /\ hint' = hint /\ conn' = conn
    BY <1>4 DEF forwardVars, cluster
  <2>2. /\ leader \in Member \cup {None} /\ hint \in Member \cup {None} /\ conn \in [Conn -> ConnState]
    BY DEF ForwardInv, ForwardType
  <2> QED BY <2>1, <2>2, CutStep
<1> QED BY <1>1, <1>2, <1>3, <1>4 DEF ForwardingNext

\* The invariant holds in every state.
LEMMA ForwardInvariance == ForwardingSpec => []ForwardInv
BY ForwardInitInv, ForwardNextInv, PTL DEF ForwardingSpec

\* The answer that a handler passes on is the answer to its own request, and no two
\* calls have the same connection, although connections are pooled and calls are given
\* up while their answer is under way: a connection with an answer that nobody has
\* read is closed by handleConnError, and one that goes back to the pool has none.
THEOREM AnswersAreOwn == ForwardingSpec => []AnswerIsOwn
<1>1. ForwardInv => AnswerIsOwn
  BY DEF ForwardInv, CallSound, AnswerIsOwn
<1> QED BY <1>1, ForwardInvariance, PTL

\* What is reported as done has been done: a write has been applied, and no more often
\* than the retries the client asked for allow, however many of its commands are still
\* under way on connections that were given up; and a backup has been read to its end.
THEOREM ReportsAreTrue == ForwardingSpec => []ReportedIsDone
<1>1. ASSUME ForwardInv PROVE ReportedIsDone
  <2>1. ASSUME NEW r \in Req
        PROVE  /\ call[r].result = "ok" /\ call[r].kind \in Writes => applied[r] > 0
               /\ applied[r] <= 1 + MaxRetries(call[r].kind)
    <3>1. Budget(r) /\ OkIsApplied(r) /\ CallSound(r, call[r]) /\ call[r] \in CallState /\ applied[r] \in Nat
      BY <1>1 DEF ForwardInv, ForwardType
    <3>2. Cardinality(Unserved(r)) \in Nat
      BY <3>1, FS_CardinalityType DEF Budget
    <3>3. call[r].tries \in Nat /\ MaxRetries(call[r].kind) \in Nat /\ call[r].tries <= MaxRetries(call[r].kind)
      BY <3>1, RetriesAreNat DEF CallSound, CallState
    <3>4. applied[r] <= call[r].tries + 1
      BY <3>1, <3>2, <3>3 DEF Budget, Sends
    <3> QED BY <3>1, <3>3, <3>4 DEF OkIsApplied
  <2>2. BackupIsWhole
    BY <1>1 DEF ForwardInv, CallSound, BackupIsWhole
  <2> QED BY <2>1, <2>2 DEF ReportedIsDone
<1> QED BY <1>1, ForwardInvariance, PTL
=============================================================================
