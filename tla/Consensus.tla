----------------------------- MODULE Consensus -----------------------------
(***************************************************************************)
(* The hashicorp/raft library as the store uses it: what store.go calls     *)
(* CurrentTerm, State, CommitIndex, Apply and VerifyLeader.  The library is *)
(* not part of the repository; this is the abstraction that the store's     *)
(* read path (module Reads) rests on.                                       *)
(*                                                                          *)
(* Logs are not replicated node by node: "log" holds the entries a quorum   *)
(* has stored, in order.  What is modelled is the knowledge of each node:   *)
(* its term, whether it believes it is the leader, and how much of the log  *)
(* it knows to be committed.  A leader may be deposed without knowing it,   *)
(* and a new leader does not know what is committed until an entry of its   *)
(* own term is.                                                             *)
(***************************************************************************)
EXTENDS Naturals, Sequences, FiniteSets

CONSTANTS Node,     \* the voting nodes
          Quorum,   \* the sets of nodes that decide
          MaxTerm,  \* bound on the number of terms
          MaxLog,   \* bound on the length of the log
          MaxConfig \* bound on the changes of the configuration

ASSUME QuorumAssumption ==
    /\ Quorum \subseteq SUBSET Node
    /\ \A Q, R \in Quorum : Q \cap R # {}

ASSUME BoundAssumption == MaxTerm \in Nat /\ MaxLog \in Nat /\ MaxConfig \in Nat

VARIABLES term,    \* term[n]: raft.CurrentTerm of n, persistent
          state,   \* state[n]: raft.State of n
          log,     \* the entries stored by a quorum
          commit   \* commit[n]: raft.CommitIndex of n

raftVars == <<term, state, log, commit>>

State == {"Follower", "Leader"}   \* a candidate is a follower to the store

\* Only a command is given to FSM.Apply: a leader's no-op and a change of the
\* configuration (Join, Remove) take an index, and the FSM never sees them.
Kind == {"noop", "config", "command"}

Entry == [term : Nat, kind : Kind]

RaftInit ==
    /\ term = [n \in Node |-> 0]
    /\ state = [n \in Node |-> "Follower"]
    /\ log = << >>
    /\ commit = [n \in Node |-> 0]

-----------------------------------------------------------------------------
(***************************************************************************)
(* Elections.                                                               *)
(***************************************************************************)
\* n campaigns in term t and the members of Q vote for it, so none of them had
\* voted in that term or a later one.
Elect(n, t, Q) ==
    /\ n \in Q
    /\ t \in 1..MaxTerm
    /\ \A q \in Q : term[q] < t
    /\ term' = [q \in Node |-> IF q \in Q THEN t ELSE term[q]]
    /\ state' = [q \in Node |-> IF q = n THEN "Leader"
                                ELSE IF q \in Q THEN "Follower" ELSE state[q]]
    /\ UNCHANGED <<log, commit>>

\* The leader's lease ends: it gives up without a new term.
StepDown(n) ==
    /\ state[n] = "Leader"
    /\ state' = [state EXCEPT ![n] = "Follower"]
    /\ UNCHANGED <<term, log, commit>>

\* A message of a later term reaches m.
UpdateTerm(n, m) ==
    /\ term[m] < term[n]
    /\ term' = [term EXCEPT ![m] = term[n]]
    /\ state' = [state EXCEPT ![m] = "Follower"]
    /\ UNCHANGED <<log, commit>>

-----------------------------------------------------------------------------
(***************************************************************************)
(* The log.                                                                 *)
(***************************************************************************)

\* The members of Q store the leader's next entry.  The first entry of a term
\* is the leader's no-op.
Store(n, kind, Q) ==
    /\ state[n] = "Leader"
    /\ \A q \in Q : term[q] <= term[n]
    /\ Len(log) < MaxLog
    /\ kind = "noop" <=> \A i \in 1..Len(log) : log[i].term # term[n]
    /\ log' = Append(log, [term |-> term[n], kind |-> kind])
    /\ term' = [q \in Node |-> IF q \in Q THEN term[n] ELSE term[q]]
    /\ state' = [q \in Node |-> IF q \in Q \ {n} THEN "Follower" ELSE state[q]]
    /\ UNCHANGED commit

\* Join and Remove, as far as the log is concerned.
ChangeConfig(n, Q) ==
    /\ Cardinality({i \in 1..Len(log) : log[i].kind = "config"}) < MaxConfig
    /\ Store(n, "config", Q)

\* The leader has the answers of a quorum.  It counts them for entries of its
\* own term only.
AdvanceCommit(n, k) ==
    /\ state[n] = "Leader"
    /\ k \in 1..Len(log)
    /\ commit[n] < k
    /\ log[k].term = term[n]
    /\ commit' = [commit EXCEPT ![n] = k]
    /\ UNCHANGED <<term, state, log>>

\* AppendEntries: m learns what n knows to be committed.
AppendEntries(n, m) ==
    /\ state[n] = "Leader"
    /\ m # n
    /\ term[m] <= term[n]
    /\ term' = [term EXCEPT ![m] = term[n]]
    /\ state' = [state EXCEPT ![m] = "Follower"]
    /\ commit' = [commit EXCEPT ![m] = IF @ < commit[n] THEN commit[n] ELSE @]
    /\ UNCHANGED log

RaftNext ==
    \/ \E n \in Node : StepDown(n)
    \/ \E n \in Node, t \in 1..MaxTerm, Q \in Quorum : Elect(n, t, Q)
    \/ \E n, m \in Node : UpdateTerm(n, m) \/ AppendEntries(n, m)
    \/ \E n \in Node, Q \in Quorum : Store(n, "noop", Q) \/ ChangeConfig(n, Q)
    \/ \E n \in Node : \E k \in 1..Len(log) : AdvanceCommit(n, k)
=============================================================================
