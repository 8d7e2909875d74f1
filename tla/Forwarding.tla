----------------------------- MODULE Forwarding -----------------------------
(***************************************************************************)
(* How a node serves a request it cannot serve itself: the handlers of     *)
(* http/service.go try the local Store, learn the leader's address and     *)
(* call the cluster client (cluster/client.go), which takes a connection   *)
(* from its pool (tcp/pool), sends the command and reads one answer, or a  *)
(* stream.  At the other end Service.handleConn (cluster/service.go) reads *)
(* commands one after the other and answers each.                          *)
(*                                                                         *)
(* A connection is two queues of whole messages.  Every wait of the client *)
(* has a deadline, which may pass at any moment; the remote node may still *)
(* read what was sent before the client hung up.                           *)
(***************************************************************************)
EXTENDS Naturals, Sequences

CONSTANTS
    Req,            \* the clients' requests
    Kinds,          \* what they may ask for
    Member, Here,   \* the nodes of the cluster; the one the clients talk to
    Conn,           \* bound: connections that are open at a time
    PoolCap,        \* maxPoolCapacity
    Retries,        \* the "retries" parameter of the requests
    MaxMoves,       \* bound: changes of the leader, and restarts of other nodes
    None            \* no node, no connection, no request

ASSUME ForwardingAssumption ==
    /\ Here \in Member /\ None \notin Member \cup Conn \cup Req
    /\ PoolCap \in Nat \ {0} /\ Retries \in Nat
    /\ MaxMoves \in Nat

VARIABLES
    leader,     \* the node whose Store takes writes
    hint,       \* what LeaderAddr returns here
    pool,       \* pool[n]: the channel of idle connections to n
    conn,       \* conn[k]: both ends of connection k, and what is under way on it
    call,       \* call[r]: how far the handler of r has come
    applied,    \* applied[r]: how often the cluster has carried out r
    moves       \* changes of the leader, and restarts

cluster == <<leader, hint, moves>>
forwardVars == <<cluster, pool, conn, call, applied>>

Backups == {"backup", "backupz"}        \* a backup, a backup with "compress"
Writes == {"execute", "request", "load", "remove"}

Closed == [node |-> None, held |-> FALSE, alive |-> FALSE, in |-> << >>,
           out |-> << >>, stream |-> None]
Idle == [pc |-> "idle", kind |-> "query", addr |-> None, conn |-> None,
         tries |-> 0, result |-> "none", of |-> None, read |-> << >>]

ForwardingInit ==
    /\ leader \in Member /\ hint = leader
    /\ pool = [n \in Member |-> << >>]
    /\ conn = [k \in Conn |-> Closed]
    /\ call = [r \in Req |-> Idle]
    /\ applied = [r \in Req |-> 0]
    /\ moves = 0

----------------------------------------------------------------------------
(* The Stores.                                                             *)

\* What the Store of n answers: only a leader carries a request out, and an
\* error of its Apply says nothing about whether the command is applied.
Outcome(n, kind) ==
    IF kind = "meta" THEN {<<"ok", 0>>}
    ELSE IF leader # n THEN {<<"notleader", 0>>}
    ELSE IF kind \in Writes THEN {<<"ok", 1>>, <<"error", 0>>, <<"error", 1>>}
    ELSE {<<"ok", 0>>, <<"error", 0>>}

\* A query at level NONE, and a backup with "noleader", any Store serves; the
\* handlers have no reason to forward them.
AnyNode(kind) == IF kind \in Backups \cup {"query"} THEN {<<"ok", 0>>} ELSE {}

\* An election, or the loss of a leader.
LeaderMoves ==
    /\ moves < MaxMoves /\ moves' = moves + 1
    /\ leader' \in (Member \cup {None}) \ {leader}
    /\ UNCHANGED <<hint, pool, conn, call, applied>>

Learn == hint # leader /\ hint' = leader
         /\ UNCHANGED <<leader, moves, pool, conn, call, applied>>

\* Another node restarts: its end of every connection is gone.
PeerRestart(n) ==
    /\ n # Here /\ moves < MaxMoves /\ moves' = moves + 1
    /\ leader' = (IF leader = n THEN None ELSE leader)
    /\ conn' = [k \in Conn |-> IF conn[k].node = n
                  THEN [conn[k] EXCEPT !.alive = FALSE, !.in = << >>, !.stream = None]
                  ELSE conn[k]]
    /\ UNCHANGED <<hint, pool, call, applied>>

----------------------------------------------------------------------------
(* The handlers, up to the call of the cluster client.                     *)

GotoStep(r, pc) == call' = [call EXCEPT ![r].pc = pc]

FinishCall(r, result) == call' = [call EXCEPT ![r].pc = "done", ![r].result = result]

\* A request that the local Store refuses is forwarded; or, if the client asked
\* for a redirect (DoRedirect), the leader is asked for the address of its API.
NotLeader(r, kind, next) ==
    \/ call' = [call EXCEPT ![r].kind = kind, ![r].pc = next]
    \/ call' = [call EXCEPT ![r].kind = "meta", ![r].pc = "addr"]

TryStore(r, kind, next) ==
    /\ \E o \in Outcome(Here, kind) \cup AnyNode(kind) :
        /\ applied' = [applied EXCEPT ![r] = @ + o[2]]
        /\ IF o[1] = "notleader" THEN NotLeader(r, kind, next)
           ELSE call' = [call EXCEPT ![r].kind = kind, ![r].pc = "done", ![r].result = o[1]]
    /\ UNCHANGED <<cluster, pool, conn>>

Arrives(r, kind) == call[r].pc = "idle" /\ kind \in Kinds

execute(r) == Arrives(r, "execute") /\ TryStore(r, "execute", "addr")
handleQuery(r) == Arrives(r, "query") /\ TryStore(r, "query", "addr")
handleRequest(r) == Arrives(r, "request") /\ TryStore(r, "request", "addr")
handleRemove(r) == Arrives(r, "remove") /\ TryStore(r, "remove", "addr")
handleBackup(r) ==
    \E kind \in Backups : Arrives(r, kind) /\ TryStore(r, kind, "addr")

\* handleLoad asks for the leader's address before it tries the Store, and
\* forwards to that address.
handleLoad(r) ==
    /\ Arrives(r, "load")
    /\ IF hint = None THEN FinishCall(r, "error")
       ELSE call' = [call EXCEPT ![r].addr = hint, ![r].pc = "load", ![r].kind = "load"]
    /\ UNCHANGED <<cluster, pool, conn, applied>>

Load(r) == call[r].pc = "load" /\ TryStore(r, "load", "get")

\* GetNodeMeta answers for this node without a call.
LeaderAddr(r) ==
    /\ call[r].pc = "addr"
    /\ CASE hint = None -> FinishCall(r, "error")
         [] hint = Here /\ call[r].kind = "meta" -> FinishCall(r, "ok")
         [] OTHER -> call' = [call EXCEPT ![r].addr = hint, ![r].pc = "get"]
    /\ UNCHANGED <<cluster, pool, conn, applied>>

----------------------------------------------------------------------------
(* The cluster client and its pool.                                        *)

\* Execute, Request and Load hand the client's parameter to retry; Query does
\* not retry, and RemoveNode and Backup are single calls.
MaxRetries(kind) == IF kind \in {"execute", "request", "load"} THEN Retries ELSE 0

\* Mutant: one attempt too many.
Attempted_Once(r) ==
    IF call[r].tries <= MaxRetries(call[r].kind)
    THEN call' = [call EXCEPT ![r].pc = "get", ![r].conn = None, ![r].tries = @ + 1]
    ELSE call' = [call EXCEPT ![r].pc = "done", ![r].conn = None, ![r].result = "error"]

\* An attempt failed; retry counts it.
Attempted(r) ==
    IF call[r].tries < MaxRetries(call[r].kind)
    THEN call' = [call EXCEPT ![r].pc = "get", ![r].conn = None, ![r].tries = @ + 1]
    ELSE call' = [call EXCEPT ![r].pc = "done", ![r].conn = None, ![r].result = "error"]

\* The client's end is closed; what has been sent can still be read.
HangUp(k) == conn' = [conn EXCEPT ![k].held = FALSE, ![k].out = << >>]

\* Conn.Close of a connection that is not marked: channelPool.put.
Put(k) ==
    LET n == conn[k].node IN
    IF Len(pool[n]) < PoolCap
    THEN pool' = [pool EXCEPT ![n] = Append(@, k)] /\ UNCHANGED conn
    ELSE HangUp(k) /\ UNCHANGED pool

\* Mutant: the connection is not marked unusable.
Discard_Unmarked(k) == Put(k)

\* handleConnError and Conn.Close: the connection is not used again.
Discard(k) == HangUp(k) /\ UNCHANGED pool

\* Get, from the pool.
Get(r) ==
    LET n == call[r].addr
        k == Head(pool[n]) IN
    /\ call[r].pc = "get" /\ pool[n] # << >>
    /\ pool' = [pool EXCEPT ![n] = Tail(@)]
    /\ call' = [call EXCEPT ![r].pc = "write", ![r].conn = k]
    /\ UNCHANGED <<cluster, conn, applied>>

\* Get, when the pool is empty: dial.
Dial(r) ==
    /\ call[r].pc = "get" /\ pool[call[r].addr] = << >>
    /\ \E k \in Conn :
        /\ ~ conn[k].held /\ ~ conn[k].alive
        /\ conn' = [conn EXCEPT ![k] = [Closed EXCEPT !.node = call[r].addr, !.held = TRUE,
                                                      !.alive = TRUE]]
        /\ call' = [call EXCEPT ![r].pc = "write", ![r].conn = k]
    /\ UNCHANGED <<cluster, pool, applied>>

DialFailed(r) ==
    /\ call[r].pc = "get" /\ pool[call[r].addr] = << >>
    /\ Attempted(r)
    /\ UNCHANGED <<cluster, pool, conn, applied>>

\* A write to a connection whose other end is gone may seem to succeed.
WriteCommand(r) ==
    LET k == call[r].conn IN
    /\ call[r].pc = "write"
    /\ conn' = IF conn[k].alive THEN [conn EXCEPT ![k].in = Append(@, r)] ELSE conn
    /\ GotoStep(r, "read")
    /\ UNCHANGED <<cluster, pool, applied>>

\* A deadline passes, the connection breaks, or what is read is no answer.
CallFailed(r) ==
    /\ call[r].pc \in {"write", "read"}
    /\ Discard(call[r].conn)
    /\ Attempted(r)
    /\ UNCHANGED <<cluster, applied>>

Frame == {"ok", "error", "notleader"}

\* readResponse: an answer, whosever it is.  The bytes of a stream have no
\* sensible length and end in CallFailed.
ReadResponse(r) ==
    LET k == call[r].conn
        m == Head(conn[k].out) IN
    /\ call[r].pc = "read" /\ conn[k].out # << >> /\ m.what \in Frame
    /\ call' = IF call[r].kind \in Backups /\ m.what = "ok"
             THEN [call EXCEPT ![r].pc = "copy", ![r].of = m.of]
             ELSE [call EXCEPT ![r].pc = "close", ![r].of = m.of, ![r].result = m.what]
    /\ conn' = [conn EXCEPT ![k].out = Tail(@)]
    /\ UNCHANGED <<cluster, pool, applied>>

\* The deferred Close, after a call that did not mark the connection.
Return(r) ==
    /\ call[r].pc = "close"
    /\ Put(call[r].conn)
    /\ call' = [call EXCEPT ![r].pc = "done", ![r].conn = None]
    /\ UNCHANGED <<cluster, applied>>

\* Backup copies the stream.  Only the decompressor recognises its end.
Copy(r) ==
    LET k == call[r].conn
        m == Head(conn[k].out) IN
    /\ call[r].pc = "copy" /\ conn[k].out # << >>
    /\ conn' = [conn EXCEPT ![k].out = Tail(@)]
    /\ call' = [call EXCEPT ![r].read = Append(@, m.what),
                ![r].pc = IF m.what = "end" /\ call[r].kind = "backup" THEN "close" ELSE "copy",
                ![r].result = IF m.what = "end" /\ call[r].kind = "backup" THEN "ok" ELSE @]
    /\ UNCHANGED <<cluster, pool, applied>>

\* The remote node has closed the connection: an error to the decompressor, an
\* ordinary end to a plain copy.
CopyEOF(r) ==
    /\ call[r].pc = "copy" /\ conn[call[r].conn].out = << >> /\ ~ conn[call[r].conn].alive
    /\ call' = [call EXCEPT ![r].pc = "close",
                        ![r].result = IF call[r].kind = "backup" THEN "error" ELSE "ok"]
    /\ UNCHANGED <<cluster, pool, conn, applied>>

\* The deadline passes.  The connection is not marked.
CopyTimeout(r) ==
    /\ call[r].pc = "copy"
    /\ call' = [call EXCEPT ![r].pc = "close", ![r].result = "error"]
    /\ UNCHANGED <<cluster, pool, conn, applied>>

----------------------------------------------------------------------------
(* Service.handleConn, at the other end of connection k.                   *)

Reading(k) == conn[k].alive /\ conn[k].stream = None /\ conn[k].in # << >>

\* marshalAndWrite: if the client has hung up, the answer is lost.
Sent(k, r, what) ==
    IF conn[k].held THEN Append(conn[k].out, [of |-> r, what |-> what]) ELSE conn[k].out

\* One command is read, carried out and answered; handleConn returns if the
\* answer cannot be written.
CarryOut(k) ==
    LET r == Head(conn[k].in) IN
    /\ \E o \in Outcome(conn[k].node, call[r].kind) :
        /\ applied' = [applied EXCEPT ![r] = @ + o[2]]
        /\ conn' = [conn EXCEPT ![k].in = Tail(@), ![k].alive = conn[k].held,
                                ![k].out = Sent(k, r, o[1])]
    /\ UNCHANGED <<cluster, pool, call>>

ServeStatements(k) ==
    Reading(k) /\ call[Head(conn[k].in)].kind \in {"meta", "execute", "query", "request"} /\ CarryOut(k)

ServeLoad(k) == Reading(k) /\ call[Head(conn[k].in)].kind = "load" /\ CarryOut(k)

ServeRemove(k) == Reading(k) /\ call[Head(conn[k].in)].kind = "remove" /\ CarryOut(k)

\* A backup is answered first, with or without an error, and then streamed.
ServeBackup(k) ==
    LET r == Head(conn[k].in) IN
    /\ Reading(k) /\ call[r].kind \in Backups
    /\ \E what \in {"ok", "error"} :
        conn' = [conn EXCEPT ![k].in = Tail(@), ![k].alive = conn[k].held,
                             ![k].stream = IF conn[k].held THEN <<r, "begin">> ELSE None,
                             ![k].out = Sent(k, r, what)]
    /\ UNCHANGED <<cluster, pool, call, applied>>

\* Store.Backup on the leader writes to the connection, in more than one piece.
Stream(k) ==
    LET r == conn[k].stream[1]
        send(what, next) == conn' = [conn EXCEPT ![k].stream = next,
                                         ![k].out = Sent(k, r, what)] IN
    /\ conn[k].stream # None /\ conn[k].held
    /\ \/ /\ conn[k].stream[2] = "begin" /\ leader = conn[k].node
          /\ send("part", <<r, "middle">>)
       \/ conn[k].stream[2] = "middle" /\ send("end", None)
    /\ UNCHANGED <<cluster, pool, call, applied>>

\* handleConn returns: the backup failed, before or after its first piece, or
\* the client has hung up and there is nothing left to read.
CloseServer(k) ==
    /\ conn[k].alive
    /\ conn[k].stream # None \/ (~ conn[k].held /\ conn[k].in = << >>)
    /\ conn' = [conn EXCEPT ![k].alive = FALSE, ![k].in = << >>, ![k].stream = None]
    /\ UNCHANGED <<cluster, pool, call, applied>>

----------------------------------------------------------------------------

Handle(r) ==
    \/ execute(r) \/ handleQuery(r) \/ handleRequest(r) \/ handleRemove(r)
    \/ handleBackup(r) \/ handleLoad(r) \/ Load(r) \/ LeaderAddr(r)
    \/ Get(r) \/ Dial(r) \/ DialFailed(r) \/ WriteCommand(r) \/ CallFailed(r)
    \/ ReadResponse(r) \/ Return(r) \/ Copy(r) \/ CopyEOF(r) \/ CopyTimeout(r)

HandleConn(k) ==
    \/ ServeStatements(k) \/ ServeLoad(k) \/ ServeRemove(k)
    \/ ServeBackup(k) \/ Stream(k) \/ CloseServer(k)

ForwardingNext ==
    \/ LeaderMoves \/ Learn \/ \E n \in Member : PeerRestart(n)
    \/ \E r \in Req : Handle(r)
    \/ \E k \in Conn : HandleConn(k)

ForwardingSpec == ForwardingInit /\ [][ForwardingNext]_forwardVars

----------------------------------------------------------------------------
(* Properties.                                                             *)

Pooled(n) == {pool[n][i] : i \in DOMAIN pool[n]}

\* A connection is used by one call, or is idle once, in the pool of its node.
Exclusive ==
    /\ \A r \in Req : call[r].conn # None =>
        /\ call[r].conn \notin Pooled(conn[call[r].conn].node)
        /\ \A s \in Req \ {r} : call[s].conn # call[r].conn
    /\ \A n \in Member : \A i, j \in DOMAIN pool[n] :
        /\ i # j => pool[n][i] # pool[n][j]
        /\ conn[pool[n][i]].held /\ conn[pool[n][i]].node = n

\* The answer a handler passes on is the answer to its own request, although
\* connections are shared and calls give up while their answer is under way
\* (cluster/client.go, retry and handleConnError); and no two calls hold the
\* same connection.
AnswerIsOwn == Exclusive /\ \A r \in Req : call[r].of \in {None, r}

\* "handleBackup returns the consistent database snapshot" (http/service.go): a
\* backup that is reported as a success has been read to its end.  A compressed
\* one that the remote node cuts off is reported as a success nevertheless.
BackupIsWhole ==
    \A r \in Req : call[r].pc = "done" /\ call[r].kind = "backup" /\ call[r].of # None
        /\ call[r].result = "ok" => call[r].read = <<"part", "end">>

\* What is reported as done, here or by the leader, has been done: a write has
\* been applied, and no more often than the client allowed, removals never twice
\* (the comment of NewClient); a backup is whole.
ReportedIsDone ==
    /\ \A r \in Req :
        /\ call[r].result = "ok" /\ call[r].kind \in Writes => applied[r] > 0
        /\ applied[r] <= 1 + MaxRetries(call[r].kind)
    /\ BackupIsWhole
=============================================================================
