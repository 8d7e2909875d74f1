------------------------------- MODULE Reads -------------------------------
(***************************************************************************)
(* Reads and writes of the store, at every consistency level: Store.Query,  *)
(* Store.Execute and Store.Request of store/store.go over the Raft library  *)
(* of module Consensus.  A request is a goroutine of the node it was sent   *)
(* to, and everything it asks of Raft may have changed by the next time it  *)
(* asks.                                                                    *)
(*                                                                          *)
(* The database is represented by the index of the last log entry whose     *)
(* effect it holds.                                                         *)
(***************************************************************************)
EXTENDS Consensus

CONSTANTS Writer,         \* the clients that write
          Reader,         \* the clients that read
          Levels,         \* the consistency levels of the queries
          RequestLevels,  \* the consistency levels of the unified requests
          MaxRestarts     \* bound on the number of restarts

ASSUME ClientAssumption ==
    /\ Levels \cup RequestLevels \subseteq {"linearizable", "strong", "weak", "none"}
    /\ MaxRestarts \in Nat

VARIABLES db,             \* db[n]: the entries the database of n reflects
          fsmIdx,         \* fsmIdx[n]: Store.fsmIdx, and fsmTarget's target
          strongReadTerm, \* strongReadTerm[n]: Store.strongReadTerm
          op,             \* op[c]: the request of client c
          acked,          \* the newest state any finished request has shown
          restarts        \* the number of restarts

Client == Writer \cup Reader

vars == <<raftVars, db, fsmIdx, strongReadTerm, op, acked, restarts>>

Level == {"linearizable", "strong", "weak", "none"}

PC == {"idle", "check", "index", "verify", "term", "wait", "local",
       "strong", "apply", "respond"}

Op == [pc : PC, node : Node \cup {"none"}, level : Level \cup {"write", "request"},
       readTerm : Nat, readIndex : Nat, acks : SUBSET Node,
       floor : Nat,    \* "acked" when the request began
       entry : Nat]    \* the index of the entry it has put into the log

storeVars == <<db, fsmIdx, strongReadTerm, restarts>>

NoOp == [pc |-> "idle", node |-> "none", level |-> "none", readTerm |-> 0,
         readIndex |-> 0, acks |-> {}, floor |-> 0, entry |-> 0]

ReadsInit ==
    /\ RaftInit
    /\ db = [n \in Node |-> 0]
    /\ fsmIdx = [n \in Node |-> 0]
    /\ strongReadTerm = [n \in Node |-> 0]
    /\ op = [c \in Client |-> NoOp]
    /\ acked = 0
    /\ restarts = 0

-----------------------------------------------------------------------------
(***************************************************************************)
(* The steps of a request.                                                  *)
(***************************************************************************)

\* The request of c goes on at pc.
Goto(c, pc) == op' = [op EXCEPT ![c].pc = pc]

Begin(c, n, pc, level, readTerm, floor) ==
    /\ op[c].pc = "idle"
    /\ op' = [op EXCEPT ![c] = [NoOp EXCEPT !.pc = pc, !.node = n, !.level = level,
                                            !.readTerm = readTerm, !.floor = floor]]
    /\ UNCHANGED <<raftVars, storeVars, acked>>

\* The request of c ends and shows the state at index i.  Reads that may be
\* stale promise nothing to those that follow.
Finish(c, i) ==
    /\ op' = [op EXCEPT ![c] = NoOp]
    /\ acked' = IF op[c].level \in {"linearizable", "strong", "write"} /\ acked < i
                THEN i ELSE acked
    /\ UNCHANGED raftVars

\* Store.Query.  The level AUTO is WEAK on a voter and NONE on another node.
\* A linearizable read in a term without a strong read becomes a strong one.
Query(c, n, level) ==
    LET upgraded == level = "linearizable" /\ term[n] # strongReadTerm[n] IN
    CASE level = "strong" \/ upgraded    -> Begin(c, n, "strong", "strong", term[n], acked)
      [] level = "linearizable" /\ ~upgraded -> Begin(c, n, "check", level, term[n], acked)
      [] level = "weak"                  -> Begin(c, n, "check", level, 0, 0)
      [] level = "none"                  -> Begin(c, n, "local", level, 0, 0)

\* A Request that only reads, and not at level STRONG.  The other requests take
\* the way of Execute.
Request(c, n, level) ==
    /\ level # "strong"
    /\ level = "weak" => state[n] = "Leader"
    /\ Begin(c, n, "local", "request", 0, IF level = "linearizable" THEN acked ELSE 0)

\* Execute, and a Request that writes.
Execute(c, n) ==
    /\ state[n] = "Leader"
    /\ Begin(c, n, "apply", "write", 0, 0)

\* raft.State() is asked before anything is read.
CheckLeader(c) ==
    /\ op[c].pc = "check"
    /\ state[op[c].node] = "Leader"
    /\ Goto(c, IF op[c].level = "weak" THEN "local" ELSE "index")
    /\ UNCHANGED <<raftVars, storeVars, acked>>

ReadIndex(c) ==
    /\ op[c].pc = "index"
    /\ op' = [op EXCEPT ![c].pc = "verify", ![c].readIndex = commit[op[c].node]]
    /\ UNCHANGED <<raftVars, storeVars, acked>>

\* raft.VerifyLeader: q answers a heartbeat that was sent after the call.
VerifyAck(c, q) ==
    LET n == op[c].node IN
    /\ op[c].pc = "verify"
    /\ state[n] = "Leader"
    /\ q \notin op[c].acks \cup {n}
    /\ ~\E Q \in Quorum : Q \subseteq op[c].acks \cup {n}
    /\ term[q] <= term[n]
    /\ term' = [term EXCEPT ![q] = term[n]]
    /\ state' = [state EXCEPT ![q] = "Follower"]
    /\ op' = [op EXCEPT ![c].acks = @ \cup {q}]
    /\ UNCHANGED <<log, commit, storeVars, acked>>

\* The leader takes its own word for it.
VerifyLeader_Assumed(c) ==
    /\ op[c].pc = "verify"
    /\ state[op[c].node] = "Leader"
    /\ op' = [op EXCEPT ![c].pc = "term", ![c].acks = {}]
    /\ UNCHANGED <<raftVars, storeVars, acked>>

VerifyLeader(c) ==
    /\ op[c].pc = "verify"
    /\ state[op[c].node] = "Leader"
    /\ \E Q \in Quorum : Q \subseteq op[c].acks \cup {op[c].node}
    /\ op' = [op EXCEPT ![c].pc = "term", ![c].acks = {}]
    /\ UNCHANGED <<raftVars, storeVars, acked>>

\* The term must still be the one the read began in.
CheckTerm(c) ==
    /\ op[c].pc = "term"
    /\ term[op[c].node] = op[c].readTerm
    /\ op' = [op EXCEPT ![c].pc = "wait", ![c].readTerm = 0]
    /\ UNCHANGED <<raftVars, storeVars, acked>>

\* rsync.ReadyTarget: the channel of a subscriber for index i is closed.
Reached(n, i) == i <= fsmIdx[n]

WaitForFSMIndex(c) ==
    /\ op[c].pc = "wait"
    /\ Reached(op[c].node, op[c].readIndex)
    /\ op' = [op EXCEPT ![c].pc = "local", ![c].readIndex = 0]
    /\ UNCHANGED <<raftVars, storeVars, acked>>

\* db.Query on the node's own database.
LocalRead(c) ==
    /\ op[c].pc = "local"
    /\ Finish(c, db[op[c].node])
    /\ UNCHANGED storeVars

\* Mutant: the term is noted before the read has gone through the log.
CheckStrong_TermNoted(c) ==
    /\ op[c].pc = "strong"
    /\ state[op[c].node] = "Leader"
    /\ Goto(c, "apply")
    /\ strongReadTerm' = [strongReadTerm EXCEPT ![op[c].node] = op[c].readTerm]
    /\ UNCHANGED <<raftVars, db, fsmIdx, restarts, acked>>

CheckStrong(c) ==
    /\ op[c].pc = "strong"
    /\ state[op[c].node] = "Leader"
    /\ Goto(c, "apply")
    /\ UNCHANGED <<raftVars, storeVars, acked>>

\* raft.Apply: the node, if it is the leader when it gets to the request,
\* appends the entry, whatever its term has become.
Apply(c, Q) ==
    /\ op[c].pc = "apply"
    /\ Store(op[c].node, "command", Q)
    /\ op' = [op EXCEPT ![c].pc = "respond", ![c].entry = Len(log) + 1]
    /\ UNCHANGED <<storeVars, acked>>

\* The FSM has applied the entry and the future is answered.
Respond(c) ==
    LET n == op[c].node IN
    /\ op[c].pc = "respond"
    /\ db[n] >= op[c].entry
    /\ strongReadTerm' = IF op[c].level = "strong"
                         THEN [strongReadTerm EXCEPT ![n] = op[c].readTerm]
                         ELSE strongReadTerm
    /\ Finish(c, op[c].entry)
    /\ UNCHANGED <<db, fsmIdx, restarts>>

\* The early returns: not the leader or not ready, the leader not verified, a
\* new term, a timeout, or an error of raft.Apply.  An entry whose Apply fails
\* may be in the log all the same.
Refuse(c) ==
    /\ \/ op[c].pc \in {"check", "strong", "verify", "wait", "apply", "respond"}
       \/ op[c].pc = "term" /\ term[op[c].node] # op[c].readTerm
    /\ op' = [op EXCEPT ![c] = NoOp]
    /\ UNCHANGED <<raftVars, storeVars, acked>>

-----------------------------------------------------------------------------
(***************************************************************************)
(* The node.                                                                *)
(***************************************************************************)

\* The FSM's goroutine takes the next committed entry.  Raft calls fsmApply for
\* a command only.
FsmApply(n) ==
    LET i == db[n] + 1 IN
    /\ i <= commit[n]
    /\ db' = [db EXCEPT ![n] = i]
    /\ fsmIdx' = IF log[i].kind = "command" THEN [fsmIdx EXCEPT ![n] = i] ELSE fsmIdx
    /\ UNCHANGED <<state, commit, strongReadTerm, op, restarts>>

\* The node stops and is started again: Open resets what the store remembers,
\* and fsmRestore puts back a snapshot of what the database held (k = 0: there
\* is none).
Restart(n, k) ==
    /\ restarts < MaxRestarts
    /\ restarts' = restarts + 1
    /\ k \in 0..db[n]
    /\ state' = [state EXCEPT ![n] = "Follower"]
    /\ commit' = [commit EXCEPT ![n] = 0]
    /\ db' = [db EXCEPT ![n] = k]
    /\ fsmIdx' = [fsmIdx EXCEPT ![n] = k]
    /\ strongReadTerm' = [strongReadTerm EXCEPT ![n] = 0]
    /\ op' = [c \in Client |-> IF op[c].node = n THEN NoOp ELSE op[c]]

\* What a node does by itself, with no effect on the log and on its term.
NodeNext ==
    /\ \E n \in Node : FsmApply(n) \/ \E k \in 0..db[n] : Restart(n, k)
    /\ UNCHANGED <<term, log, acked>>

ReadsNext ==
    \/ RaftNext /\ UNCHANGED <<storeVars, op, acked>>
    \/ NodeNext
    \/ \E c \in Writer, n \in Node : Execute(c, n)
    \/ \E c \in Reader, n \in Node :
          \/ \E level \in Levels : Query(c, n, level)
          \/ \E level \in RequestLevels : Request(c, n, level)
          \/ VerifyAck(c, n)
    \/ \E c \in Client, Q \in Quorum : Apply(c, Q)
    \/ \E c \in Client :
          \/ CheckLeader(c) \/ ReadIndex(c) \/ VerifyLeader(c) \/ CheckTerm(c)
          \/ WaitForFSMIndex(c) \/ LocalRead(c) \/ CheckStrong(c)
          \/ Respond(c) \/ Refuse(c)

ReadsSpec == ReadsInit /\ [][ReadsNext]_vars

-----------------------------------------------------------------------------
(***************************************************************************)
(* Properties.                                                              *)
(***************************************************************************)

\* The type invariant.
ReadsTypeOK ==
    /\ term \in [Node -> Nat]
    /\ state \in [Node -> State]
    /\ log \in Seq(Entry)
    /\ commit \in [Node -> 0..Len(log)]
    /\ db \in [Node -> 0..Len(log)]
    /\ fsmIdx \in [Node -> 0..Len(log)]
    /\ \A n \in Node : fsmIdx[n] <= db[n]
    /\ strongReadTerm \in [Node -> Nat]
    /\ op \in [Client -> Op]
    /\ acked \in 0..Len(log)
    /\ restarts \in 0..MaxRestarts

\* Store.Query at LINEARIZABLE and at STRONG: the answer shows every write that
\* was acknowledged, and every state that such a read had shown, before the
\* read began, on whichever node, through elections and restarts.
Linearizable ==
    \A c \in Client :
        /\ op[c].pc = "local" /\ op[c].level = "linearizable"
               => db[op[c].node] >= op[c].floor
        /\ op[c].pc = "respond" /\ op[c].level = "strong"
               => op[c].entry >= op[c].floor

\* What strongReadTerm stands for in Store.Query: while it is the node's term,
\* the node knows an entry of that term to be committed, so its commit index
\* is not behind what earlier leaders committed.
StrongReadMeansCommitted ==
    \A n \in Node :
        strongReadTerm[n] = term[n] /\ state[n] = "Leader"
            => \E i \in 1..commit[n] : log[i].term = term[n]

\* The state of a Store is what the next request takes it for: well-formed, with
\* no FSM index ahead of the database (fsmApply), and with a strong-read term
\* that means what Store.Query reads into it.
ReadsInv == ReadsTypeOK /\ StrongReadMeansCommitted

\* Store.Request, as the comment on its fast path has it: a request that does
\* not need consensus is answered from the database, and one at LINEARIZABLE
\* shows what was acknowledged before it began.
RequestLinearizable ==
    \A c \in Client :
        op[c].pc = "local" /\ op[c].level = "request" => db[op[c].node] >= op[c].floor
=============================================================================
