------------------------------ MODULE Database ------------------------------
(***************************************************************************)
(* What the FSM of every node does with the requests in the Raft log: SQL  *)
(* statements, alone or in a transaction, run on the single read-write     *)
(* connection of the node's SQLite database (db/db.go), the way requests   *)
(* are rewritten before they enter the log (command/sql/processor.go), and *)
(* the results the store draws conclusions from (command_processor.go).    *)
(*                                                                         *)
(* A statement is known by what SQLite makes of it:                        *)
(*   insert, random, now, returning   writes: plain, of RANDOM(), of the   *)
(*                             current time, with a RETURNING clause       *)
(*   fails, failsReturning     writes that break a constraint when run     *)
(*   badParam                  a write with a parameter of unknown type    *)
(*   syntax                    a statement SQLite cannot prepare           *)
(*   select, begin, commit, rollback, empty                                *)
(* The log itself is given: consensus is the subject of Reads.             *)
(***************************************************************************)
EXTENDS Naturals, Sequences, FiniteSets

CONSTANTS
    Node,         \* the replicas
    Requests,     \* the requests clients send
    MaxLog,       \* bound on the entries of the log
    MaxRestarts   \* bound on the restarts of all nodes together

Writes == {"insert", "random", "now", "returning"}
Kinds == Writes \cup {"fails", "failsReturning", "badParam", "syntax",
                      "select", "begin", "commit", "rollback", "empty"}

ASSUME RequestsAssumption ==
    Requests \subseteq [path : {"execute", "request", "query", "load"},
                        tx : BOOLEAN, timeout : BOOLEAN, stmts : Seq(Kinds)]
ASSUME DatabaseBounds == MaxLog \in Nat /\ MaxRestarts \in Nat

VARIABLES
    log,           \* the committed Raft log
    applied,       \* applied[n]: index of the last entry applied by n
    rw,            \* rw[n]: the database of n, seen from its read-write connection
    dbAppliedIdx,  \* dbAppliedIdx[n]: last entry the store of n took for a change
    snap,          \* snap[n]: the latest snapshot of n, and the database it was taken of
    cut,           \* history: the nodes a restart has cut off from an open transaction
    restarts

databaseVars == <<log, applied, rw, dbAppliedIdx, snap, cut, restarts>>

(***************************************************************************)
(* Rewriting.  The query parameters norwrandom and norwtime are absent     *)
(* unless the client gives them.                                           *)
(***************************************************************************)
NoRewriteRandom == FALSE
NoRewriteTime == FALSE

\* The Rewriter: a call of RANDOM() or of 'now' becomes a literal; without it
\* every node evaluates the call for itself.
Literal(kind, rwrand, rwtime) ==
    CASE kind = "random" -> rwrand
      [] kind = "now"    -> rwtime
      [] OTHER           -> TRUE

ContainsReturning(kind) == kind \in {"returning", "failsReturning"}

Process(stmts, rwrand, rwtime) ==
    [i \in DOMAIN stmts |-> [kind       |-> stmts[i],
                             literal    |-> Literal(stmts[i], rwrand, rwtime),
                             forceQuery |-> ContainsReturning(stmts[i])]]

Rewritten(r) ==
    CASE r.path = "request" -> Process(r.stmts, NoRewriteRandom, ~NoRewriteTime)
      [] r.path = "query"   -> Process(r.stmts, NoRewriteRandom, ~NoRewriteTime)
      [] OTHER              -> Process(r.stmts, ~NoRewriteRandom, ~NoRewriteTime)

(***************************************************************************)
(* SQLite.  A database is what is committed, what the read-write           *)
(* connection sees, and whether that connection has a transaction open.    *)
(***************************************************************************)
\* OpenWithDriver: one read-write connection, automatic checkpoints off.
Empty == [committed |-> <<>>, view |-> <<>>, open |-> FALSE]

Holding(rows) == [committed |-> rows, view |-> rows, open |-> FALSE]

Write(d, row) ==
    LET rows == Append(d.view, row)
    IN  IF d.open THEN [d EXCEPT !.view = rows] ELSE Holding(rows)

Commit(d) == Holding(d.view)
Rollback(d) == Holding(d.committed)

\* The effect of one statement, and whether SQLite accepts it.
Sql(d, kind, row) ==
    CASE kind \in Writes    -> [d |-> Write(d, row), ok |-> TRUE]
      [] kind = "select"    -> [d |-> d, ok |-> TRUE]
      [] kind = "begin"     -> [d |-> [d EXCEPT !.open = TRUE], ok |-> ~d.open]
      [] kind = "commit"    -> [d |-> Commit(d), ok |-> d.open]
      [] kind = "rollback"  -> [d |-> Rollback(d), ok |-> d.open]
      [] OTHER              -> [d |-> d, ok |-> FALSE]

\* Transaction control does not write, so SQLite calls it read-only.
StmtReadOnly(kind) == kind \in {"select", "begin", "commit", "rollback"}

(***************************************************************************)
(* The statements of a request.  late: the database timeout has expired.   *)
(* err is what the Go function returns: an unsupported parameter and a     *)
(* failing statement with RETURNING only leave their mark in the response. *)
(***************************************************************************)
parametersToValues(s) == s.kind # "badParam"

executeStmtSwallows(d, s, row, late) ==                             \* mutant
    LET q == IF late THEN [d |-> d, ok |-> FALSE] ELSE Sql(d, s.kind, row)
    IN  [d |-> q.d, res |-> IF q.ok THEN "E" ELSE "Error", err |-> FALSE]

executeStmtWithConn(d, s, row, late) ==
    LET q == IF late \/ ~parametersToValues(s) THEN [d |-> d, ok |-> FALSE]
                                            ELSE Sql(d, s.kind, row)
    IN  [d |-> q.d,
         res |-> IF ~q.ok THEN "Error" ELSE IF s.forceQuery THEN "Q" ELSE "E",
         err |-> ~q.ok /\ parametersToValues(s) /\ ~s.forceQuery]

queryStmtWithConn(d, s, row, late) ==
    LET q == IF late THEN [d |-> d, ok |-> FALSE] ELSE Sql(d, s.kind, row)
    IN  [d |-> q.d, res |-> "Q", err |-> ~q.ok]

\* What remains of a request once one more statement has been run.  A
\* statement that returns an error ends the transaction it is part of.
AfterStmt(c, r) ==
    LET abort == c.tx /\ r.err
    IN  [d       |-> IF abort THEN Rollback(r.d) ELSE r.d,
         tx      |-> c.tx /\ ~abort,
         done    |-> abort,
         results |-> Append(c.results, r.res)]

\* Request prepares every statement first, and only goes on to the next when
\* that fails.
RunStmt(c, e, s, row, late) ==
    IF c.done \/ s.kind = "empty" THEN c
    ELSE IF e.path = "request" /\ s.kind = "syntax"
         THEN [c EXCEPT !.results = Append(@, "Error")]
    ELSE IF e.path = "request" /\ StmtReadOnly(s.kind)
         THEN AfterStmt(c, queryStmtWithConn(c.d, s, row, late))
    ELSE AfterStmt(c, executeStmtWithConn(c.d, s, row, late))

\* The rows that the statements of the entry i would write on node n: they carry
\* the log index and position; a call that was not rewritten has a value of the
\* node's own.
RowsOf(e, n, i) ==
    [j \in 1..Len(e.stmts) |-> <<i, j, IF e.stmts[j].literal THEN "literal" ELSE n>>]

\* BEGIN when a transaction was asked for.
Begun(d, e) == [d |-> [d EXCEPT !.open = @ \/ e.tx], tx |-> e.tx, done |-> FALSE, results |-> <<>>]

\* What there is after the first j statements, run in order.
Ran(d, e, rows, expiry) ==
    LET ran[j \in 0..Len(e.stmts)] ==
          IF j = 0 THEN Begun(d, e)
          ELSE RunStmt(ran[j - 1], e, e.stmts[j], rows[j], j > expiry)
    IN  ran

\* executeWithConn and Request: BEGIN, the statements, COMMIT.
RunRequest(d, e, rows, expiry) ==
    LET ran == Ran(d, e, rows, expiry)[Len(e.stmts)]
    IN  IF e.tx /\ d.open
        THEN [d |-> d, results |-> <<>>]
        ELSE [d |-> IF ~ran.tx THEN ran.d
                    ELSE IF expiry <= Len(e.stmts) THEN Rollback(ran.d)
                    ELSE Commit(ran.d),
              results |-> ran.results]

\* The store is told that a request changed the database by its results.
Mutation(results) == \E k \in DOMAIN results : results[k] = "E"

\* A query runs on a read-only connection: a statement that would write is
\* refused, and the database is as it was.
Query(d) == d

\* A loaded database replaces the file under the connection.
Swap(i) == Holding(<<<<i, 0, "literal">>>>)

(***************************************************************************)
(* The actions.                                                            *)
(***************************************************************************)
DatabaseInit ==
    /\ log = <<>>
    /\ applied = [n \in Node |-> 0]
    /\ rw = [n \in Node |-> Empty]
    /\ dbAppliedIdx = [n \in Node |-> 0]
    /\ snap = [n \in Node |-> [index |-> 0, d |-> Empty]]
    /\ cut = {}
    /\ restarts = 0

\* The number of statements that need the log.
RORWCount(r) == Cardinality({i \in DOMAIN r.stmts : r.stmts[i] # "empty" /\ ~StmtReadOnly(r.stmts[i])})

\* A unified request that only reads is answered without the log.
Submit(r) ==
    /\ Len(log) < MaxLog
    /\ r.path = "request" => RORWCount(r) > 0
    /\ log' = Append(log, [r EXCEPT !.stmts = Rewritten(r)])
    /\ UNCHANGED <<applied, rw, dbAppliedIdx, snap, cut, restarts>>

\* CommandProcessor.Process on the next entry, and the index fsmApply keeps.
Apply(n) ==
    LET i == applied[n] + 1
        e == log[i]
        \* the number of statements that start before the timeout expires
        expiries == {Len(e.stmts) + 1} \cup IF e.timeout THEN 0..Len(e.stmts) ELSE {}
    IN  /\ i <= Len(log)
        /\ \E expiry \in expiries :
              LET ran == RunRequest(rw[n], e, RowsOf(e, n, i), expiry)
                  mutated == \/ e.path \in {"execute", "load"}
                             \/ e.path = "request" /\ Mutation(ran.results)
              IN  /\ rw' = [rw EXCEPT ![n] =
                            CASE e.path = "load"  -> Swap(i)
                              [] e.path = "query" -> Query(@)
                              [] OTHER            -> ran.d]
                  /\ dbAppliedIdx' = [dbAppliedIdx EXCEPT ![n] = IF mutated THEN i ELSE @]
        /\ applied' = [applied EXCEPT ![n] = i]
        /\ UNCHANGED <<log, snap, cut, restarts>>

\* fsmSnapshot.  A snapshot holds what is committed.  One that checkpoints fails in
\* a transaction that has written; an incremental one has nothing to checkpoint when
\* the WAL is empty, and is taken all the same.  A BEGIN alone locks nothing.  (A
\* checkpoint also fails, or is skipped, where a transaction has only read.)
Snapshot(n) ==
    /\ snap[n].index < applied[n]
    /\ \/ rw[n].view = rw[n].committed
       \/ snap[n].index > 0 /\ rw[n].committed = snap[n].d.committed
    /\ snap' = [snap EXCEPT ![n] = [index |-> applied[n], d |-> rw[n]]]
    /\ UNCHANGED <<log, applied, rw, dbAppliedIdx, cut, restarts>>

RestartInPlace(n) ==                                                \* mutant
    /\ restarts < MaxRestarts
    /\ restarts' = restarts + 1
    /\ rw' = [rw EXCEPT ![n] = Rollback(@)]
    /\ applied' = [applied EXCEPT ![n] = snap[n].index]
    /\ dbAppliedIdx' = [dbAppliedIdx EXCEPT ![n] = snap[n].index]
    /\ UNCHANGED <<log, snap, cut>>

\* The process ends, and the database is rebuilt from the snapshot; the log
\* behind it is applied again.  A transaction that was open when the snapshot was
\* taken, and whose BEGIN the snapshot stands for, is gone.
Restart(n) ==
    /\ restarts < MaxRestarts
    /\ restarts' = restarts + 1
    /\ rw' = [rw EXCEPT ![n] = Holding(snap[n].d.committed)]
    /\ applied' = [applied EXCEPT ![n] = snap[n].index]
    /\ dbAppliedIdx' = [dbAppliedIdx EXCEPT ![n] = snap[n].index]
    /\ cut' = IF snap[n].d.open THEN cut \cup {n} ELSE cut
    /\ UNCHANGED <<log, snap>>

DatabaseNext ==
    \/ \E r \in Requests : Submit(r)
    \/ \E n \in Node : Apply(n) \/ Snapshot(n) \/ Restart(n)

DatabaseSpec == DatabaseInit /\ [][DatabaseNext]_databaseVars

-----------------------------------------------------------------------------
(***************************************************************************)
(* Properties.                                                             *)
(***************************************************************************)
\* The store knows of every change: no row comes from an entry behind the last
\* one it took for a change (DBAppliedIndex, which automatic backups compare).
MutationIsNoticed ==
    \A n \in Node : \A k \in DOMAIN rw[n].view : rw[n].view[k][1] <= dbAppliedIdx[n]

\* Two nodes that have applied the same entries hold the same database and
\* the same half-finished transaction, whatever each was put through: a
\* failing statement, a transaction left open, a snapshot, a restart.  A
\* request with a database timeout may expire on one node and not on another,
\* and is left out, and so is a node that came back from a snapshot which was taken
\* inside a client's transaction.  And each node knows of every change it holds.
ReplicasAgree ==
    /\ \A m, n \in Node \ cut :
         (/\ applied[m] = applied[n]
          /\ \A i \in 1..applied[n] : ~log[i].timeout) => rw[m] = rw[n]
    /\ MutationIsNoticed

\* No unified request has RANDOM(), which handleRequest does not have rewritten, or
\* RETURNING, whose result does not say that it is a change.
PlainRequests ==
    \A r \in Requests : r.path = "request" => \A j \in DOMAIN r.stmts : r.stmts[j] \notin {"random", "returning"}

\* A statement on which SQLite raises an error, and that is neither a query in
\* disguise (RETURNING) nor, in a unified request, one that cannot be prepared.
Fatal(e, s) == s.kind = "fails" \/ (e.path = "execute" /\ s.kind = "syntax")

\* A transaction with such a statement leaves nothing behind, on no node and
\* with no timeout, unless the client ended the transaction before it
\* (executeWithConn, Request).
FailedTransactionLeavesNothing ==
    [][\A n \in Node :
         LET e == log[applied[n] + 1]
         IN  (/\ applied'[n] = applied[n] + 1
              /\ e.tx /\ e.path \in {"execute", "request"}
              /\ \E j \in DOMAIN e.stmts :
                    /\ Fatal(e, e.stmts[j])
                    /\ \A k \in 1..j-1 : e.stmts[k].kind \notin {"commit", "rollback"})
             => rw'[n].committed = rw[n].committed]_databaseVars
=============================================================================
