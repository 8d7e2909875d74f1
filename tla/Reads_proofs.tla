---------------------------- MODULE Reads_proofs ----------------------------
(***************************************************************************)
(* Linearizable and strong reads show what was acknowledged before they     *)
(* began, for any set of nodes, any quorum system whose quorums intersect,  *)
(* any number of clients, elections, restarts and log entries.              *)
(***************************************************************************)
EXTENDS Reads, TLAPS

-----------------------------------------------------------------------------
(***************************************************************************)
(* The inductive invariant.                                                 *)
(***************************************************************************)

\* Some quorum has moved beyond term t.
Beyond(t) == \E Q \in Quorum : \A q \in Q : term[q] > t

\* A leader was elected by a quorum, and is the only one of its term.
LeadersElected ==
    /\ \A n \in Node : state[n] = "Leader" =>
           \E Q \in Quorum : \A q \in Q : term[q] >= term[n]
    /\ \A n, m \in Node :
           state[n] = "Leader" /\ state[m] = "Leader" /\ term[n] = term[m] => n = m

\* An entry was stored by a quorum, and terms do not decrease along the log.
LogOrdered ==
    /\ \A i \in 1..Len(log) : \E Q \in Quorum : \A q \in Q : term[q] >= log[i].term
    /\ \A i, j \in 1..Len(log) : i <= j => log[i].term <= log[j].term

\* Whoever leads either knows that index x is committed, or has yet to commit
\* anything in its term, or has been succeeded.
Settled(x) ==
    \A n \in Node : state[n] = "Leader" /\ x \in 1..Len(log) =>
        x <= commit[n] \/ log[x].term < term[n] \/ Beyond(term[n])

\* What any node holds or has shown is settled.
AllSettled ==
    /\ \A m \in Node : Settled(commit[m]) /\ Settled(db[m])
    /\ Settled(acked)

\* The term of a node is not behind what its Store remembers of it.
TermsRemembered ==
    /\ \A n \in Node : strongReadTerm[n] <= term[n]
    /\ \A c \in Client : op[c].node \in Node => op[c].readTerm <= term[op[c].node]

\* A strong read, or a write, that waits for its entry.
EntryWaits ==
    \A c \in Client : op[c].pc = "respond" =>
        LET n == op[c].node IN
        /\ op[c].entry \in 1..Len(log)
        /\ op[c].floor <= op[c].entry
        /\ op[c].entry <= db[n] => op[c].entry <= commit[n]
        /\ op[c].readTerm <= log[op[c].entry].term
        /\ log[op[c].entry].term <= term[n]

\* A quorum that has moved beyond the term of the read and has not answered the
\* heartbeats of its VerifyLeader.
Overtaken(c) ==
    \E Q \in Quorum : /\ Q \cap op[c].acks = {}
                      /\ \A q \in Q : term[q] > op[c].readTerm

\* Where a linearizable read stands, as long as its node stays in the term in
\* which the read began: what it is to show is within the commit index it
\* reads, or VerifyLeader will fail.
ReadProgress ==
    \A c \in Client : op[c].level = "linearizable" =>
        LET n == op[c].node
            same == term[n] = op[c].readTerm
        IN
        /\ op[c].pc = "check" /\ same /\ state[n] = "Leader"
               => Overtaken(c) \/ op[c].floor <= commit[n]
        /\ op[c].pc = "index" /\ same => Overtaken(c) \/ op[c].floor <= commit[n]
        /\ op[c].pc = "verify" /\ same => Overtaken(c) \/ op[c].floor <= op[c].readIndex
        /\ op[c].pc = "term" /\ same => op[c].floor <= op[c].readIndex
        /\ op[c].pc = "wait" => op[c].floor <= op[c].readIndex
        /\ op[c].pc = "local" => op[c].floor <= db[n]

\* A request is at a position of its kind, and asks for what has been shown.
RequestShape ==
    \A c \in Client :
        /\ op[c].pc # "idle" => op[c].node \in Node
        /\ op[c].pc \in {"index", "verify", "term", "wait"} => op[c].level = "linearizable"
        /\ op[c].pc = "check" => op[c].level \in {"linearizable", "weak"}
        /\ op[c].pc \in {"strong", "apply", "respond"} => op[c].level \in {"strong", "write"}
        /\ op[c].floor <= acked

IInv ==
    /\ ReadsTypeOK /\ LeadersElected /\ LogOrdered /\ AllSettled
    /\ TermsRemembered /\ StrongReadMeansCommitted /\ EntryWaits
    /\ ReadProgress /\ RequestShape

-----------------------------------------------------------------------------
(***************************************************************************)
(* The steps, one at a time.                                                *)
(***************************************************************************)

\* The steps of a request that leave Raft alone.
RequestStep(c) ==
    \/ CheckLeader(c) \/ ReadIndex(c) \/ VerifyLeader(c) \/ CheckTerm(c)
    \/ WaitForFSMIndex(c) \/ LocalRead(c) \/ CheckStrong(c) \/ Respond(c) \/ Refuse(c)

\* A request begins.
BeginStep(c, n) ==
    \/ Execute(c, n)
    \/ \E level \in Levels : Query(c, n, level)
    \/ \E level \in RequestLevels : Request(c, n, level)

\* What Store.Query, Store.Request and Store.Execute begin.
LEMMA BeginCases ==
    ASSUME NEW c \in Client, NEW n \in Node, BeginStep(c, n)
    PROVE  \/ Begin(c, n, "apply", "write", 0, 0)
           \/ Begin(c, n, "strong", "strong", term[n], acked)
           \/ Begin(c, n, "check", "linearizable", term[n], acked) /\ strongReadTerm[n] = term[n]
           \/ Begin(c, n, "check", "weak", 0, 0)
           \/ Begin(c, n, "local", "none", 0, 0)
           \/ Begin(c, n, "local", "request", 0, 0)
           \/ Begin(c, n, "local", "request", 0, acked)
<1>1. CASE Execute(c, n)  BY <1>1 DEF Execute
<1>2. CASE \E level \in Levels : Query(c, n, level)
  <2>1. PICK level \in Levels : Query(c, n, level)  BY <1>2
  <2>2. level \in {"linearizable", "strong", "weak", "none"}  BY ClientAssumption
  <2> QED BY <2>1, <2>2 DEF Query
<1>3. CASE \E level \in RequestLevels : Request(c, n, level)  BY <1>3 DEF Request
<1> QED BY <1>1, <1>2, <1>3 DEF BeginStep

\* The steps of the system, sorted by what they do to Raft.
LEMMA StepCases ==
    ASSUME ReadsNext
    PROVE  \/ RaftNext /\ UNCHANGED <<storeVars, op, acked>>
           \/ \E n \in Node : FsmApply(n) /\ UNCHANGED <<term, log, acked>>
           \/ \E n \in Node, k \in Nat : Restart(n, k) /\ UNCHANGED <<term, log, acked>>
           \/ \E c \in Client, n \in Node : BeginStep(c, n)
           \/ \E c \in Client, n \in Node : VerifyAck(c, n)
           \/ \E c \in Client, Q \in Quorum : Apply(c, Q)
           \/ \E c \in Client : RequestStep(c)
<1>1. CASE NodeNext
  <2>1. ASSUME NEW n \in Node, NEW k \in 0..db[n], Restart(n, k)
        PROVE  k \in Nat
    OBVIOUS
  <2> QED BY <1>1, <2>1 DEF NodeNext
<1>2. CASE \E c \in Writer, n \in Node : Execute(c, n)  BY <1>2 DEF BeginStep, Client
<1>3. CASE \E c \in Reader, n \in Node :
             \/ \E level \in Levels : Query(c, n, level)
             \/ \E level \in RequestLevels : Request(c, n, level)
             \/ VerifyAck(c, n)
  BY <1>3 DEF BeginStep, Client
<1> QED BY <1>1, <1>2, <1>3 DEF ReadsNext, RequestStep

\* A request that begins, and one that only goes on, leave Raft alone.
LEMMA RaftAlone ==
    ASSUME NEW c \in Client,
           RequestStep(c) \/ \E n \in Node : BeginStep(c, n)
    PROVE  UNCHANGED raftVars
<1>1. CASE RequestStep(c)
  BY <1>1 DEF RequestStep, CheckLeader, ReadIndex, VerifyLeader, CheckTerm, WaitForFSMIndex,
              LocalRead, CheckStrong, Respond, Refuse, Finish
<1>2. ASSUME NEW n \in Node, BeginStep(c, n)
      PROVE  UNCHANGED raftVars
  BY <1>2, BeginCases, Zenon DEF Begin
<1> QED BY <1>1, <1>2

\* What the steps do to term, state, log and commit.
LEMMA RaftCases ==
    ASSUME [ReadsNext]_vars, \A c \in Client : op[c].pc # "idle" => op[c].node \in Node
    PROVE  \/ \E n \in Node, t \in 1..MaxTerm, Q \in Quorum :
                 Elect(n, t, Q) /\ UNCHANGED <<storeVars, op, acked>>
           \/ \E n \in Node : StepDown(n)
           \/ \E n, m \in Node : UpdateTerm(n, m) \/ AppendEntries(n, m)
           \/ \E n \in Node, Q \in Quorum, kind \in Kind : Store(n, kind, Q)
           \/ \E n \in Node : \E k \in 1..Len(log) : AdvanceCommit(n, k)
           \/ \E n \in Node, k \in Nat : Restart(n, k) /\ UNCHANGED <<term, log, acked>>
           \/ \E c \in Client, n \in Node : VerifyAck(c, n) /\ op[c].node \in Node
           \/ UNCHANGED raftVars
<1>1. CASE RaftNext /\ UNCHANGED <<storeVars, op, acked>>
  BY <1>1 DEF RaftNext, ChangeConfig, Kind
<1>2. CASE \E n \in Node : FsmApply(n) /\ UNCHANGED <<term, log, acked>>
  BY <1>2 DEF FsmApply, raftVars
<1>3. CASE \E c \in Client, n \in Node : VerifyAck(c, n)
  BY <1>3 DEF VerifyAck
<1>4. CASE \E c \in Client, Q \in Quorum : Apply(c, Q)
  BY <1>4 DEF Apply, Kind
<1>5. CASE UNCHANGED vars  BY <1>5 DEF vars, raftVars
<1> QED BY <1>1, <1>2, <1>3, <1>4, <1>5, RaftAlone, StepCases

\* Terms never decrease, and no step but an election makes a leader or gives a
\* leader another term.
LEMMA TermsGrow ==
    ASSUME IInv, [ReadsNext]_vars
    PROVE  /\ term' \in [Node -> Nat] /\ state' \in [Node -> State]
           /\ \A n \in Node : term[n] <= term'[n]
           /\ \/ \E n \in Node, t \in 1..MaxTerm, Q \in Quorum :
                    Elect(n, t, Q) /\ UNCHANGED <<storeVars, op, acked>>
              \/ \A n \in Node : state'[n] = "Leader" => state[n] = "Leader" /\ term'[n] = term[n]
<1> USE DEF State
<1>t. /\ term \in [Node -> Nat] /\ state \in [Node -> State]
      /\ \A c \in Client : op[c].pc # "idle" => op[c].node \in Node
  BY DEF IInv, ReadsTypeOK, RequestShape
<1>1. ASSUME NEW n \in Node, NEW t \in 1..MaxTerm, NEW Q \in Quorum, Elect(n, t, Q)
      PROVE  /\ term' \in [Node -> Nat] /\ state' \in [Node -> State]
             /\ \A m \in Node : term[m] <= term'[m]
  BY <1>1, <1>t, BoundAssumption DEF Elect
<1>2. CASE \E n \in Node : StepDown(n)  BY <1>2, <1>t DEF StepDown
<1>3. CASE \E n, m \in Node : UpdateTerm(n, m) \/ AppendEntries(n, m)
  BY <1>3, <1>t DEF UpdateTerm, AppendEntries
<1>4. CASE \E n \in Node, Q \in Quorum, kind \in Kind : Store(n, kind, Q)
  BY <1>4, <1>t DEF Store
<1>5. CASE \E n \in Node : \E k \in 1..Len(log) : AdvanceCommit(n, k)
  BY <1>5, <1>t DEF AdvanceCommit
<1>6. CASE \E n \in Node, k \in Nat : Restart(n, k) /\ UNCHANGED <<term, log, acked>>
  BY <1>6, <1>t DEF Restart
<1>7. CASE \E c \in Client, n \in Node : VerifyAck(c, n) /\ op[c].node \in Node
  BY <1>7, <1>t DEF VerifyAck
<1>8. CASE UNCHANGED raftVars  BY <1>8, <1>t DEF raftVars
<1> QED BY <1>1, <1>2, <1>3, <1>4, <1>5, <1>6, <1>7, <1>8, <1>t, RaftCases

\* The log only grows, by an entry of a leader that a quorum has stored.
LEMMA LogGrows ==
    ASSUME IInv, [ReadsNext]_vars
    PROVE  /\ log' \in Seq(Entry)
           /\ Len(log) \in Nat /\ Len(log') \in Nat /\ Len(log) <= Len(log')
           /\ \A i \in 1..Len(log) : log'[i] = log[i] /\ i \in 1..Len(log') /\ log[i].term \in Nat
           /\ \/ UNCHANGED log
              \/ \E n \in Node, Q \in Quorum, kind \in Kind :
                     /\ Store(n, kind, Q)
                     /\ Len(log') = Len(log) + 1
                     /\ log'[Len(log) + 1] = [term |-> term[n], kind |-> kind]
<1>t. /\ log \in Seq(Entry) /\ term \in [Node -> Nat]
      /\ \A c \in Client : op[c].pc # "idle" => op[c].node \in Node
  BY DEF IInv, ReadsTypeOK, RequestShape
<1>e. \A i \in 1..Len(log) : log[i].term \in Nat
  <2>1. \A i \in 1..Len(log) : log[i] \in Entry  BY <1>t
  <2>2. \A e \in Entry : e.term \in Nat  BY DEF Entry
  <2> QED BY <2>1, <2>2
<1>1. CASE \E n \in Node, Q \in Quorum, kind \in Kind : Store(n, kind, Q)
  <2>1. PICK n \in Node, Q \in Quorum, kind \in Kind : Store(n, kind, Q)  BY <1>1
  <2>2. [term |-> term[n], kind |-> kind] \in Entry  BY <1>t DEF Entry
  <2>3. log' = Append(log, [term |-> term[n], kind |-> kind])  BY <2>1 DEF Store
  <2> DEFINE e == [term |-> term[n], kind |-> kind]
  <2> HIDE DEF e
  <2>4. e \in Entry /\ log' = Append(log, e)  BY <2>2, <2>3 DEF e
  <2>5. /\ log' \in Seq(Entry) /\ Len(log) \in Nat /\ Len(log') = Len(log) + 1
        /\ log'[Len(log) + 1] = e
        /\ \A i \in 1..Len(log) : log'[i] = log[i]
    BY <1>t, <2>4
  <2>6. log'[Len(log) + 1] = [term |-> term[n], kind |-> kind]  BY <2>5 DEF e
  <2> QED BY <2>1, <2>5, <2>6, <1>e
<1>2. CASE UNCHANGED log
  <2>1. Len(log) \in Nat  BY <1>t
  <2>2. Len(log') = Len(log) /\ log' \in Seq(Entry)  BY <1>2, <1>t
  <2> QED BY <1>2, <1>e, <2>1, <2>2
<1>3. UNCHANGED log \/ \E n \in Node, Q \in Quorum, kind \in Kind : Store(n, kind, Q)
  <2>1. CASE \E n \in Node, t \in 1..MaxTerm, Q \in Quorum : Elect(n, t, Q)
    BY <2>1 DEF Elect
  <2>2. CASE \E n, m \in Node : UpdateTerm(n, m) \/ AppendEntries(n, m)
    BY <2>2 DEF UpdateTerm, AppendEntries
  <2>3. CASE \E n \in Node : StepDown(n) \/ \E k \in 1..Len(log) : AdvanceCommit(n, k)
    BY <2>3 DEF StepDown, AdvanceCommit
  <2>4. CASE \E c \in Client, n \in Node : VerifyAck(c, n)
    BY <2>4, Zenon DEF VerifyAck
  <2>5. CASE UNCHANGED raftVars  BY <2>5 DEF raftVars
  <2> QED BY <1>t, <2>1, <2>2, <2>3, <2>4, <2>5, RaftCases
<1> QED BY <1>1, <1>2, <1>3

-----------------------------------------------------------------------------
(***************************************************************************)
(* Elections and the log.                                                   *)
(***************************************************************************)

\* Who is elected had no entry, and no leader, of its term or a later one before.
LEMMA ElectedIsNew ==
    ASSUME IInv, NEW n \in Node, NEW t \in 1..MaxTerm, NEW Q \in Quorum, Elect(n, t, Q)
    PROVE  /\ t \in Nat /\ term[n] < t /\ term'[n] = t
           /\ \A m \in Node : state[m] = "Leader" => term[m] < t
           /\ \A i \in 1..Len(log) : log[i].term < t
<1>t. /\ term \in [Node -> Nat] /\ t \in Nat /\ Q \subseteq Node
      /\ \A q \in Q : term[q] < t
      /\ n \in Q /\ term'[n] = t
  BY BoundAssumption, QuorumAssumption DEF IInv, ReadsTypeOK, Elect
<1>1. ASSUME NEW m \in Node, state[m] = "Leader"
      PROVE  term[m] < t
  <2>1. PICK R \in Quorum : \A q \in R : term[q] >= term[m]
    BY <1>1 DEF IInv, LeadersElected
  <2>2. PICK q \in Q \cap R : TRUE  BY QuorumAssumption
  <2> QED BY <1>t, <2>1, <2>2
<1>2. ASSUME NEW i \in 1..Len(log)
      PROVE  log[i].term < t
  <2>1. PICK R \in Quorum : \A q \in R : term[q] >= log[i].term
    BY DEF IInv, LogOrdered
  <2>2. PICK q \in Q \cap R : TRUE  BY QuorumAssumption
  <2>3. log[i].term \in Nat
    <3>1. log[i] \in Entry  BY DEF IInv, ReadsTypeOK
    <3> QED BY <3>1 DEF Entry
  <2> QED BY <1>t, <2>1, <2>2, <2>3
<1> QED BY <1>1, <1>2, <1>t

\* What a quorum has reached it does not fall behind.
LEMMA QuorumKeeps ==
    ASSUME IInv, [ReadsNext]_vars, NEW t \in Nat
    PROVE  /\ (\E Q \in Quorum : \A q \in Q : term[q] >= t)
                 => \E Q \in Quorum : \A q \in Q : term'[q] >= t
           /\ (\E Q \in Quorum : \A q \in Q : term[q] > t)
                 => \E Q \in Quorum : \A q \in Q : term'[q] > t
<1>1. \A Q \in Quorum : \A q \in Q : term[q] \in Nat /\ term'[q] \in Nat /\ term[q] <= term'[q]
  BY TermsGrow, QuorumAssumption DEF IInv, ReadsTypeOK
<1>2. ASSUME NEW Q \in Quorum, \A q \in Q : term[q] >= t
      PROVE  \A q \in Q : term'[q] >= t
  BY <1>1, <1>2
<1>3. ASSUME NEW Q \in Quorum, \A q \in Q : term[q] > t
      PROVE  \A q \in Q : term'[q] > t
  BY <1>1, <1>3
<1> QED BY <1>2, <1>3

\* One leader a term, elected by a quorum.
LEMMA LeadersStep == IInv /\ [ReadsNext]_vars => LeadersElected'
<1> SUFFICES ASSUME IInv, [ReadsNext]_vars PROVE LeadersElected'
  OBVIOUS
<1>t. term \in [Node -> Nat] /\ state \in [Node -> State]  BY DEF IInv, ReadsTypeOK
<1>1. CASE \E n \in Node, t \in 1..MaxTerm, Q \in Quorum : Elect(n, t, Q)
  <2>1. PICK n \in Node, t \in 1..MaxTerm, Q \in Quorum : Elect(n, t, Q)  BY <1>1
  <2>2. /\ t \in Nat /\ term[n] < t /\ term'[n] = t
        /\ \A m \in Node : state[m] = "Leader" => term[m] < t
    BY <2>1, ElectedIsNew
  <2>3. \A q \in Q : term'[q] = t /\ q \in Node  BY <2>1, QuorumAssumption DEF Elect
  <2>4. \A m \in Node : state'[m] = "Leader" /\ m # n => state[m] = "Leader" /\ term'[m] = term[m]
    BY <2>1, <1>t DEF Elect, State
  <2>5. ASSUME NEW m \in Node, state'[m] = "Leader"
        PROVE  \E R \in Quorum : \A q \in R : term'[q] >= term'[m]
    <3>1. CASE m = n  BY <2>2, <2>3, <3>1
    <3>2. CASE m # n
      <4>1. \E R \in Quorum : \A q \in R : term[q] >= term[m]
        BY <2>4, <2>5, <3>2 DEF IInv, LeadersElected
      <4>2. term[m] \in Nat  BY <1>t
      <4> QED BY <2>4, <2>5, <3>2, <4>1, <4>2, QuorumKeeps
    <3> QED BY <3>1, <3>2
  <2>6. ASSUME NEW m \in Node, NEW l \in Node, state'[m] = "Leader", state'[l] = "Leader",
               term'[m] = term'[l]
        PROVE  m = l
    <3>1. m # n /\ l # n => m = l
      BY <2>4, <2>6 DEF IInv, LeadersElected
    <3>2. \A k \in Node : state'[k] = "Leader" /\ k # n => term'[k] # term'[n]
      BY <2>2, <2>4, <1>t
    <3> QED BY <2>6, <3>1, <3>2
  <2> QED BY <2>5, <2>6 DEF LeadersElected
<1>2. CASE \A n \in Node : state'[n] = "Leader" => state[n] = "Leader" /\ term'[n] = term[n]
  <2>1. ASSUME NEW m \in Node, state'[m] = "Leader"
        PROVE  \E R \in Quorum : \A q \in R : term'[q] >= term'[m]
    <3>1. \E R \in Quorum : \A q \in R : term[q] >= term[m]
      BY <1>2, <2>1 DEF IInv, LeadersElected
    <3>2. term[m] \in Nat  BY <1>t
    <3> QED BY <1>2, <2>1, <3>1, <3>2, QuorumKeeps
  <2>2. \A n, m \in Node :
           state'[n] = "Leader" /\ state'[m] = "Leader" /\ term'[n] = term'[m] => n = m
    BY <1>2 DEF IInv, LeadersElected
  <2> QED BY <2>1, <2>2 DEF LeadersElected
<1> QED BY <1>1, <1>2, TermsGrow

\* Entries are stored by quorums and in the order of their terms.
LEMMA LogStep == IInv /\ [ReadsNext]_vars => LogOrdered'
<1> SUFFICES ASSUME IInv, [ReadsNext]_vars PROVE LogOrdered'
  OBVIOUS
<1>t. term \in [Node -> Nat]  BY DEF IInv, ReadsTypeOK
<1>l. /\ Len(log) \in Nat /\ Len(log) <= Len(log')
      /\ \A i \in 1..Len(log) : log'[i] = log[i] /\ log[i].term \in Nat
  BY LogGrows
<1>1. ASSUME NEW i \in 1..Len(log)
      PROVE  \E Q \in Quorum : \A q \in Q : term'[q] >= log'[i].term
  <2>1. \E Q \in Quorum : \A q \in Q : term[q] >= log[i].term  BY DEF IInv, LogOrdered
  <2>2. log[i].term \in Nat /\ log'[i] = log[i]  BY <1>l
  <2>3. \E Q \in Quorum : \A q \in Q : term'[q] >= log[i].term  BY <2>1, <2>2, QuorumKeeps
  <2> QED BY <2>2, <2>3
<1>2. \A i, j \in 1..Len(log) : i <= j => log'[i].term <= log'[j].term
  BY <1>l DEF IInv, LogOrdered
<1>3. CASE UNCHANGED log
  BY <1>1, <1>2, <1>3 DEF LogOrdered
<1>4. ASSUME NEW n \in Node, NEW Q \in Quorum, NEW kind \in Kind, Store(n, kind, Q),
             Len(log') = Len(log) + 1,
             log'[Len(log) + 1] = [term |-> term[n], kind |-> kind]
      PROVE  LogOrdered'
  <2>1. log'[Len(log) + 1].term = term[n] /\ term[n] \in Nat  BY <1>4, <1>t
  <2>2. \A q \in Q : q \in Node /\ term[q] <= term[n] /\ term'[q] = term[n]
    BY <1>4, QuorumAssumption DEF Store
  <2>3. ASSUME NEW i \in 1..Len(log)
        PROVE  log[i].term <= term[n]
    <3>1. PICK R \in Quorum : \A q \in R : term[q] >= log[i].term
      BY DEF IInv, LogOrdered
    <3>2. PICK q \in Q \cap R : TRUE  BY QuorumAssumption
    <3> QED BY <1>l, <1>t, <2>1, <2>2, <3>1, <3>2
  <2>4. \A i \in 1..Len(log') : i \in 1..Len(log) \/ i = Len(log) + 1
    BY <1>l, <1>4
  <2>5. \A i \in 1..Len(log') : \E R \in Quorum : \A q \in R : term'[q] >= log'[i].term
    BY <1>1, <2>1, <2>2, <2>4
  <2>6. \A i, j \in 1..Len(log') : i <= j => log'[i].term <= log'[j].term
    <3> SUFFICES ASSUME NEW i \in 1..Len(log'), NEW j \in 1..Len(log'), i <= j
                 PROVE  log'[i].term <= log'[j].term
      OBVIOUS
    <3>1. CASE j \in 1..Len(log)
      <4>1. i \in 1..Len(log)  BY <1>l, <3>1
      <4> QED BY <1>2, <3>1, <4>1
    <3>2. CASE j = Len(log) + 1 /\ i \in 1..Len(log)  BY <1>l, <2>1, <2>3, <3>2
    <3>3. CASE j = Len(log) + 1 /\ i = Len(log) + 1  BY <2>1, <3>3
    <3> QED BY <2>4, <3>1, <3>2, <3>3
  <2> QED BY <2>5, <2>6 DEF LogOrdered
<1> QED BY <1>3, <1>4, LogGrows

-----------------------------------------------------------------------------
(***************************************************************************)
(* What is committed.                                                       *)
(***************************************************************************)

\* A leader's commit index only grows, and nobody's commit index is news but
\* that of the leader that has counted the answers of a quorum.
LEMMA CommitMoves ==
    ASSUME IInv, [ReadsNext]_vars
    PROVE  /\ commit' \in [Node -> 0..Len(log)]
           /\ \A n \in Node : \/ commit[n] <= commit'[n]
                              \/ state'[n] # "Leader" /\ \E k \in Nat : Restart(n, k)
           /\ \/ \A n \in Node : commit'[n] = 0 \/ \E m \in Node : commit'[n] = commit[m]
              \/ \E n \in Node : \E k \in 1..Len(log) : AdvanceCommit(n, k)
<1>t. /\ term \in [Node -> Nat] /\ state \in [Node -> State]
      /\ commit \in [Node -> 0..Len(log)] /\ Len(log) \in Nat
      /\ \A c \in Client : op[c].pc # "idle" => op[c].node \in Node
  BY DEF IInv, ReadsTypeOK, RequestShape
<1>1. CASE UNCHANGED commit  BY <1>1, <1>t
<1>2. CASE \E n, m \in Node : AppendEntries(n, m)  BY <1>2, <1>t DEF AppendEntries
<1>3. CASE \E n \in Node : \E k \in 1..Len(log) : AdvanceCommit(n, k)
  <2>1. PICK n \in Node : \E k \in 1..Len(log) : AdvanceCommit(n, k)  BY <1>3
  <2>2. PICK k \in 1..Len(log) : AdvanceCommit(n, k)  BY <2>1
  <2>3. commit' = [commit EXCEPT ![n] = k] /\ commit[n] < k  BY <2>2 DEF AdvanceCommit
  <2>4. commit' \in [Node -> 0..Len(log)] /\ \A m \in Node : commit[m] <= commit'[m]
    BY <1>t, <2>3
  <2> QED BY <1>3, <2>4
<1>4. CASE \E n \in Node, k \in Nat : Restart(n, k)
  <2>1. PICK n \in Node, k \in Nat : Restart(n, k)  BY <1>4
  <2>2. commit' = [commit EXCEPT ![n] = 0] /\ state' = [state EXCEPT ![n] = "Follower"]
    BY <2>1 DEF Restart
  <2>3. commit'[n] = 0 /\ \A m \in Node \ {n} : commit'[m] = commit[m]  BY <1>t, <2>2
  <2>4. state'[n] # "Leader"  BY <1>t, <2>2
  <2>5. commit' \in [Node -> 0..Len(log)] /\ \A m \in Node : commit[m] \in Nat  BY <1>t, <2>2
  <2> QED BY <2>1, <2>3, <2>4, <2>5
<1>5. \/ UNCHANGED commit
      \/ \E n, m \in Node : AppendEntries(n, m)
      \/ \E n \in Node : \E k \in 1..Len(log) : AdvanceCommit(n, k)
      \/ \E n \in Node, k \in Nat : Restart(n, k)
  <2>1. CASE \E n \in Node, t \in 1..MaxTerm, Q \in Quorum : Elect(n, t, Q)
    BY <2>1 DEF Elect
  <2>2. CASE \E n, m \in Node : UpdateTerm(n, m)  BY <2>2 DEF UpdateTerm
  <2>3. CASE \E n \in Node : StepDown(n)  BY <2>3 DEF StepDown
  <2>4. CASE \E c \in Client, n \in Node : VerifyAck(c, n)  BY <2>4, Zenon DEF VerifyAck
  <2>5. CASE \E n \in Node, Q \in Quorum, kind \in Kind : Store(n, kind, Q)
    BY <2>5, Zenon DEF Store
  <2>6. CASE UNCHANGED raftVars  BY <2>6 DEF raftVars
  <2> QED BY <1>t, <2>1, <2>2, <2>3, <2>4, <2>5, <2>6, RaftCases
<1> QED BY <1>1, <1>2, <1>3, <1>4, <1>5

\* What is below a settled index is settled.
LEMMA SettledBelow ==
    ASSUME IInv, NEW x \in Nat, NEW y \in 0..Len(log), x <= y, Settled(y)
    PROVE  Settled(x)
<1> SUFFICES ASSUME NEW n \in Node, state[n] = "Leader", x \in 1..Len(log),
                    ~Beyond(term[n]), ~(log[x].term < term[n])
             PROVE  x <= commit[n]
  BY DEF Settled
<1>t. /\ term \in [Node -> Nat] /\ commit \in [Node -> 0..Len(log)] /\ Len(log) \in Nat
      /\ y \in 1..Len(log)
  BY DEF IInv, ReadsTypeOK
<1>1. log[x].term <= log[y].term  BY <1>t DEF IInv, LogOrdered
<1>2. log[x].term \in Nat /\ log[y].term \in Nat
  <2>1. log[x] \in Entry /\ log[y] \in Entry  BY <1>t DEF IInv, ReadsTypeOK
  <2> QED BY <2>1 DEF Entry
<1>3. y <= commit[n] \/ log[y].term < term[n]
  BY <1>t DEF Settled
<1> QED BY <1>t, <1>1, <1>2, <1>3

\* What is settled stays settled.
LEMMA SettledStays ==
    ASSUME IInv, [ReadsNext]_vars, NEW x \in 0..Len(log), Settled(x)
    PROVE  Settled(x)'
<1>t. /\ term \in [Node -> Nat] /\ commit \in [Node -> 0..Len(log)] /\ Len(log) \in Nat
      /\ x \in 1..Len(log') => x \in 0..Len(log)
  BY DEF IInv, ReadsTypeOK
<1>l. \A i \in 1..Len(log) : log'[i] = log[i] /\ log[i].term \in Nat  BY LogGrows
<1>c. /\ commit' \in [Node -> 0..Len(log)]
      /\ \A n \in Node : state'[n] = "Leader" => commit[n] <= commit'[n]
  BY CommitMoves, Zenon
<1> SUFFICES ASSUME NEW n \in Node, state'[n] = "Leader", x \in 1..Len(log)
             PROVE  \/ x <= commit'[n] \/ log'[x].term < term'[n]
                    \/ \E Q \in Quorum : \A q \in Q : term'[q] > term'[n]
  <2>1. x \in 1..Len(log') => x \in 1..Len(log)
    BY <1>t
  <2> QED BY <2>1 DEF Settled, Beyond
<1>1. CASE state[n] = "Leader" /\ term'[n] = term[n]
  <2>1. x <= commit[n] \/ log[x].term < term[n] \/ Beyond(term[n])
    BY <1>1 DEF Settled
  <2>2. CASE x <= commit[n]  BY <1>t, <1>c, <2>2
  <2>3. CASE log[x].term < term[n]  BY <1>1, <1>l, <2>3
  <2>4. CASE Beyond(term[n])
    <3>1. term[n] \in Nat  BY <1>t
    <3> QED BY <1>1, <2>4, <3>1, QuorumKeeps DEF Beyond
  <2> QED BY <2>1, <2>2, <2>3, <2>4
<1>2. CASE ~(state[n] = "Leader" /\ term'[n] = term[n])
  <2>1. PICK m \in Node, t \in 1..MaxTerm, Q \in Quorum : Elect(m, t, Q)
    BY <1>2, TermsGrow
  <2>2. m = n
    BY <1>2, <1>t, <2>1, QuorumAssumption DEF Elect
  <2> QED BY <2>1, <2>2, <1>l, ElectedIsNew
<1> QED BY <1>1, <1>2

-----------------------------------------------------------------------------
(***************************************************************************)
(* The requests.                                                            *)
(***************************************************************************)

\* No request is a request.
LEMMA NoOpFields ==
    /\ NoOp \in Op /\ NoOp.pc = "idle" /\ NoOp.node = "none" /\ NoOp.level = "none"
    /\ NoOp.readTerm = 0 /\ NoOp.readIndex = 0 /\ NoOp.acks = {} /\ NoOp.floor = 0 /\ NoOp.entry = 0
BY DEF NoOp, Op, PC, Level

\* What a request is when it begins.
LEMMA BeginFields ==
    ASSUME op \in [Client -> Op], NEW c \in Client, NEW n \in Node, NEW pc \in PC,
           NEW level \in Level \cup {"write", "request"}, NEW readTerm \in Nat, NEW floor \in Nat,
           Begin(c, n, pc, level, readTerm, floor)
    PROVE  /\ op' \in [Client -> Op]
           /\ \A d \in Client \ {c} : op'[d] = op[d]
           /\ op'[c].pc = pc /\ op'[c].node = n /\ op'[c].level = level
           /\ op'[c].readTerm = readTerm /\ op'[c].floor = floor
           /\ op'[c].acks = {} /\ op'[c].entry = 0
<1> DEFINE o == [NoOp EXCEPT !.pc = pc, !.node = n, !.level = level,
                             !.readTerm = readTerm, !.floor = floor]
<1>1. /\ o \in Op /\ o.pc = pc /\ o.node = n /\ o.level = level /\ o.readTerm = readTerm
      /\ o.floor = floor /\ o.acks = {} /\ o.entry = 0
  BY DEF NoOp, Op
<1>2. op' = [op EXCEPT ![c] = o]  BY DEF Begin
<1> HIDE DEF o
<1> QED BY <1>1, <1>2

\* A step of a request changes that request only.
LEMMA MoveFields ==
    ASSUME op \in [Client -> Op], \A n \in Node : commit[n] \in Nat, Len(log) \in Nat,
           NEW c \in Client, op[c].pc # "idle" => op[c].node \in Node
    PROVE  /\ RequestStep(c) =>
                 op' \in [Client -> Op] /\ \A d \in Client \ {c} : op'[d] = op[d]
           /\ CheckLeader(c) =>
                 /\ op'[c].pc = IF op[c].level = "weak" THEN "local" ELSE "index"
                 /\ op'[c].level = op[c].level /\ op'[c].node = op[c].node /\ op'[c].acks = op[c].acks
                 /\ op'[c].readTerm = op[c].readTerm /\ op'[c].floor = op[c].floor
           /\ ReadIndex(c) =>
                 /\ op'[c].pc = "verify" /\ op'[c].readIndex = commit[op[c].node]
                 /\ op'[c].level = op[c].level /\ op'[c].node = op[c].node /\ op'[c].acks = op[c].acks
                 /\ op'[c].readTerm = op[c].readTerm /\ op'[c].floor = op[c].floor
           /\ VerifyLeader(c) =>
                 /\ op'[c].pc = "term" /\ op'[c].readIndex = op[c].readIndex
                 /\ op'[c].level = op[c].level /\ op'[c].node = op[c].node
                 /\ op'[c].readTerm = op[c].readTerm /\ op'[c].floor = op[c].floor
           /\ CheckTerm(c) =>
                 /\ op'[c].pc = "wait" /\ op'[c].readIndex = op[c].readIndex /\ op'[c].readTerm = 0
                 /\ op'[c].level = op[c].level /\ op'[c].node = op[c].node /\ op'[c].floor = op[c].floor
           /\ WaitForFSMIndex(c) =>
                 /\ op'[c].pc = "local" /\ op'[c].readTerm = op[c].readTerm
                 /\ op'[c].level = op[c].level /\ op'[c].node = op[c].node /\ op'[c].floor = op[c].floor
           /\ CheckStrong(c) =>
                 /\ op'[c].pc = "apply" /\ op'[c].level = op[c].level /\ op'[c].node = op[c].node
                 /\ op'[c].readTerm = op[c].readTerm /\ op'[c].floor = op[c].floor
                 /\ op'[c].entry = op[c].entry
           /\ LocalRead(c) \/ Respond(c) \/ Refuse(c) => op'[c] = NoOp
<1>o. op[c] \in Op  OBVIOUS
<1>1. ASSUME CheckLeader(c)
      PROVE  /\ op' \in [Client -> Op] /\ \A d \in Client \ {c} : op'[d] = op[d]
             /\ op'[c].pc = IF op[c].level = "weak" THEN "local" ELSE "index"
             /\ op'[c].level = op[c].level /\ op'[c].node = op[c].node /\ op'[c].acks = op[c].acks
             /\ op'[c].readTerm = op[c].readTerm /\ op'[c].floor = op[c].floor
  <2> DEFINE o == [op[c] EXCEPT !.pc = IF op[c].level = "weak" THEN "local" ELSE "index"]
  <2>1. /\ o \in Op
        /\ o.pc = IF op[c].level = "weak" THEN "local" ELSE "index"
        /\ o.level = op[c].level /\ o.node = op[c].node /\ o.acks = op[c].acks
        /\ o.readTerm = op[c].readTerm /\ o.floor = op[c].floor
    BY <1>o DEF Op, PC
  <2>2. op' = [op EXCEPT ![c] = o]  BY <1>1 DEF CheckLeader, Goto
  <2> HIDE DEF o
  <2> QED BY <2>1, <2>2
<1>2. ASSUME ReadIndex(c)
      PROVE  /\ op' \in [Client -> Op] /\ \A d \in Client \ {c} : op'[d] = op[d]
             /\ op'[c].pc = "verify" /\ op'[c].readIndex = commit[op[c].node]
             /\ op'[c].level = op[c].level /\ op'[c].node = op[c].node /\ op'[c].acks = op[c].acks
             /\ op'[c].readTerm = op[c].readTerm /\ op'[c].floor = op[c].floor
  <2> DEFINE o == [op[c] EXCEPT !.pc = "verify", !.readIndex = commit[op[c].node]]
  <2>1. /\ o \in Op
        /\ o.pc = "verify" /\ o.readIndex = commit[op[c].node]
        /\ o.level = op[c].level /\ o.node = op[c].node /\ o.acks = op[c].acks
        /\ o.readTerm = op[c].readTerm /\ o.floor = op[c].floor
    <3>1. commit[op[c].node] \in Nat  BY <1>2 DEF ReadIndex
    <3> QED BY <1>o, <3>1 DEF Op, PC
  <2>2. op' = [op EXCEPT ![c] = o]  BY <1>2 DEF ReadIndex
  <2> HIDE DEF o
  <2> QED BY <2>1, <2>2
<1>3. ASSUME VerifyLeader(c)
      PROVE  /\ op' \in [Client -> Op] /\ \A d \in Client \ {c} : op'[d] = op[d]
             /\ op'[c].pc = "term" /\ op'[c].readIndex = op[c].readIndex
             /\ op'[c].level = op[c].level /\ op'[c].node = op[c].node
             /\ op'[c].readTerm = op[c].readTerm /\ op'[c].floor = op[c].floor
  <2> DEFINE o == [op[c] EXCEPT !.pc = "term", !.acks = {}]
  <2>1. /\ o \in Op
        /\ o.pc = "term" /\ o.readIndex = op[c].readIndex
        /\ o.level = op[c].level /\ o.node = op[c].node
        /\ o.readTerm = op[c].readTerm /\ o.floor = op[c].floor
    BY <1>o DEF Op, PC
  <2>2. op' = [op EXCEPT ![c] = o]  BY <1>3 DEF VerifyLeader
  <2> HIDE DEF o
  <2> QED BY <2>1, <2>2
<1>4. ASSUME CheckTerm(c)
      PROVE  /\ op' \in [Client -> Op] /\ \A d \in Client \ {c} : op'[d] = op[d]
             /\ op'[c].pc = "wait" /\ op'[c].readIndex = op[c].readIndex /\ op'[c].readTerm = 0
             /\ op'[c].level = op[c].level /\ op'[c].node = op[c].node /\ op'[c].floor = op[c].floor
  <2> DEFINE o == [op[c] EXCEPT !.pc = "wait", !.readTerm = 0]
  <2>1. /\ o \in Op
        /\ o.pc = "wait" /\ o.readIndex = op[c].readIndex /\ o.readTerm = 0
        /\ o.level = op[c].level /\ o.node = op[c].node /\ o.floor = op[c].floor
    BY <1>o DEF Op, PC
  <2>2. op' = [op EXCEPT ![c] = o]  BY <1>4 DEF CheckTerm
  <2> HIDE DEF o
  <2> QED BY <2>1, <2>2
<1>5. ASSUME WaitForFSMIndex(c)
      PROVE  /\ op' \in [Client -> Op] /\ \A d \in Client \ {c} : op'[d] = op[d]
             /\ op'[c].pc = "local" /\ op'[c].readTerm = op[c].readTerm
             /\ op'[c].level = op[c].level /\ op'[c].node = op[c].node /\ op'[c].floor = op[c].floor
  <2> DEFINE o == [op[c] EXCEPT !.pc = "local", !.readIndex = 0]
  <2>1. /\ o \in Op
        /\ o.pc = "local" /\ o.readTerm = op[c].readTerm
        /\ o.level = op[c].level /\ o.node = op[c].node /\ o.floor = op[c].floor
    BY <1>o DEF Op, PC
  <2>2. op' = [op EXCEPT ![c] = o]  BY <1>5 DEF WaitForFSMIndex
  <2> HIDE DEF o
  <2> QED BY <2>1, <2>2
<1>6. ASSUME CheckStrong(c)
      PROVE  /\ op' \in [Client -> Op] /\ \A d \in Client \ {c} : op'[d] = op[d]
             /\ op'[c].pc = "apply" /\ op'[c].level = op[c].level /\ op'[c].node = op[c].node
             /\ op'[c].readTerm = op[c].readTerm /\ op'[c].floor = op[c].floor
             /\ op'[c].entry = op[c].entry
  <2> DEFINE o == [op[c] EXCEPT !.pc = "apply"]
  <2>1. /\ o \in Op
        /\ o.pc = "apply" /\ o.level = op[c].level /\ o.node = op[c].node
        /\ o.readTerm = op[c].readTerm /\ o.floor = op[c].floor
        /\ o.entry = op[c].entry
    BY <1>o DEF Op, PC
  <2>2. op' = [op EXCEPT ![c] = o]  BY <1>6 DEF CheckStrong, Goto
  <2> HIDE DEF o
  <2> QED BY <2>1, <2>2
<1>7. ASSUME LocalRead(c) \/ Respond(c) \/ Refuse(c)
      PROVE  op' \in [Client -> Op] /\ (\A d \in Client \ {c} : op'[d] = op[d]) /\ op'[c] = NoOp
  <2>1. op' = [op EXCEPT ![c] = NoOp]  BY <1>7 DEF LocalRead, Respond, Refuse, Finish
  <2>2. NoOp \in Op  BY NoOpFields
  <2> QED BY <2>1, <2>2
<1> QED BY <1>1, <1>2, <1>3, <1>4, <1>5, <1>6, <1>7, Zenon DEF RequestStep

\* An answer to a heartbeat is noted with the read that waits for it.
LEMMA AckFields ==
    ASSUME op \in [Client -> Op], NEW c \in Client, NEW q \in Node, VerifyAck(c, q)
    PROVE  /\ op' \in [Client -> Op] /\ \A d \in Client \ {c} : op'[d] = op[d]
           /\ op'[c].pc = "verify" /\ op'[c].acks = op[c].acks \cup {q}
           /\ op'[c].level = op[c].level /\ op'[c].node = op[c].node
           /\ op'[c].readTerm = op[c].readTerm /\ op'[c].readIndex = op[c].readIndex
           /\ op'[c].floor = op[c].floor
<1> DEFINE o == [op[c] EXCEPT !.acks = op[c].acks \cup {q}]
<1>o. op[c] \in Op /\ op[c].pc = "verify"  BY DEF VerifyAck
<1>1. /\ o \in Op
      /\ o.pc = "verify" /\ o.acks = op[c].acks \cup {q}
      /\ o.level = op[c].level /\ o.node = op[c].node
      /\ o.readTerm = op[c].readTerm /\ o.readIndex = op[c].readIndex /\ o.floor = op[c].floor
  BY <1>o DEF Op
<1>2. op' = [op EXCEPT ![c] = o]  BY DEF VerifyAck
<1> HIDE DEF o
<1> QED BY <1>1, <1>2

\* raft.Apply: the request waits for the entry it has appended.
LEMMA ApplyFields ==
    ASSUME op \in [Client -> Op], Len(log) \in Nat, NEW c \in Client, NEW Q \in Quorum, Apply(c, Q)
    PROVE  /\ op' \in [Client -> Op] /\ \A d \in Client \ {c} : op'[d] = op[d]
           /\ op'[c].pc = "respond" /\ op'[c].entry = Len(log) + 1
           /\ op'[c].level = op[c].level /\ op'[c].node = op[c].node
           /\ op'[c].readTerm = op[c].readTerm /\ op'[c].floor = op[c].floor
<1>e. PICK e \in Nat : e = Len(log) + 1  OBVIOUS
<1> DEFINE o == [op[c] EXCEPT !.pc = "respond", !.entry = e]
<1>o. op[c] \in Op  OBVIOUS
<1>1. /\ o \in Op
      /\ o.pc = "respond" /\ o.entry = e
      /\ o.level = op[c].level /\ o.node = op[c].node
      /\ o.readTerm = op[c].readTerm /\ o.floor = op[c].floor
  BY <1>o DEF Op, PC
<1>2. op' = [op EXCEPT ![c] = o]  BY <1>e DEF Apply
<1> HIDE DEF o
<1> QED BY <1>1, <1>2, <1>e

\* Where the requests of each level start.
Start == {<<"write", "apply">>, <<"strong", "strong">>, <<"linearizable", "check">>,
          <<"weak", "check">>, <<"none", "local">>, <<"request", "local">>}

\* A request that begins, whichever it is.
LEMMA BeginIsOp ==
    ASSUME IInv, NEW c \in Client, NEW n \in Node, BeginStep(c, n)
    PROVE  /\ op' \in [Client -> Op] /\ \A d \in Client \ {c} : op'[d] = op[d]
           /\ op'[c].node = n /\ op'[c].acks = {} /\ op'[c].floor \in {0, acked}
           /\ op'[c].readTerm \in {0, term[n]}
           /\ <<op'[c].level, op'[c].pc>> \in Start
           /\ op'[c].level = "linearizable" =>
                op'[c].readTerm = term[n] /\ strongReadTerm[n] = term[n] /\ op'[c].floor = acked
           /\ UNCHANGED <<raftVars, storeVars, acked>>
<1>1. op \in [Client -> Op] /\ term[n] \in Nat /\ acked \in Nat /\ 0 \in Nat
  BY DEF IInv, ReadsTypeOK
<1>2. \A pc, level : <<level, pc>> \in Start => pc \in PC /\ level \in Level \cup {"write", "request"}
  BY DEF PC, Level, Start
<1>3. ASSUME NEW pc, NEW level, NEW readTerm, NEW floor,
             Begin(c, n, pc, level, readTerm, floor), <<level, pc>> \in Start,
             readTerm \in {0, term[n]}, floor \in {0, acked},
             level = "linearizable" =>
                 readTerm = term[n] /\ strongReadTerm[n] = term[n] /\ floor = acked
      PROVE  /\ op' \in [Client -> Op] /\ \A d \in Client \ {c} : op'[d] = op[d]
             /\ op'[c].node = n /\ op'[c].acks = {} /\ op'[c].floor \in {0, acked}
             /\ op'[c].readTerm \in {0, term[n]}
             /\ <<op'[c].level, op'[c].pc>> \in Start
             /\ op'[c].level = "linearizable" =>
                  op'[c].readTerm = term[n] /\ strongReadTerm[n] = term[n] /\ op'[c].floor = acked
             /\ UNCHANGED <<raftVars, storeVars, acked>>
  <2>1. pc \in PC /\ level \in Level \cup {"write", "request"} /\ readTerm \in Nat /\ floor \in Nat
    BY <1>1, <1>2, <1>3
  <2>2. /\ op' \in [Client -> Op]
        /\ \A d \in Client \ {c} : op'[d] = op[d]
        /\ op'[c].pc = pc /\ op'[c].node = n /\ op'[c].level = level
        /\ op'[c].readTerm = readTerm /\ op'[c].floor = floor
        /\ op'[c].acks = {} /\ op'[c].entry = 0
    BY <1>1, <1>3, <2>1, BeginFields
  <2>3. UNCHANGED <<raftVars, storeVars, acked>>  BY <1>3, Zenon DEF Begin
  <2> QED BY <1>3, <2>2, <2>3
<1>4. /\ <<"write", "apply">> \in Start /\ <<"strong", "strong">> \in Start
      /\ <<"linearizable", "check">> \in Start /\ <<"weak", "check">> \in Start
      /\ <<"none", "local">> \in Start /\ <<"request", "local">> \in Start
  BY DEF Start
<1>5. CASE Begin(c, n, "apply", "write", 0, 0)  BY <1>3, <1>4, <1>5, Zenon
<1>6. CASE Begin(c, n, "strong", "strong", term[n], acked)  BY <1>3, <1>4, <1>6, Zenon
<1>7. CASE Begin(c, n, "check", "linearizable", term[n], acked) /\ strongReadTerm[n] = term[n]
  BY <1>3, <1>4, <1>7, Zenon
<1>8. CASE Begin(c, n, "check", "weak", 0, 0)  BY <1>3, <1>4, <1>8, Zenon
<1>9. CASE Begin(c, n, "local", "none", 0, 0)  BY <1>3, <1>4, <1>9, Zenon
<1>10. CASE Begin(c, n, "local", "request", 0, 0)  BY <1>3, <1>4, <1>10, Zenon
<1>11. CASE Begin(c, n, "local", "request", 0, acked)  BY <1>3, <1>4, <1>11, Zenon
<1> QED BY <1>5, <1>6, <1>7, <1>8, <1>9, <1>10, <1>11, BeginCases

\* What the steps do to the database of a node, and to the request of a client.
LEMMA DbMoves ==
    ASSUME IInv, [ReadsNext]_vars
    PROVE  /\ db' \in [Node -> Nat] /\ fsmIdx' \in [Node -> Nat]
           /\ \A n \in Node :
                \/ db'[n] = db[n] /\ fsmIdx'[n] = fsmIdx[n]
                \/ /\ db'[n] = db[n] + 1 /\ db'[n] <= commit[n] /\ UNCHANGED commit
                   /\ fsmIdx'[n] \in {fsmIdx[n], db'[n]}
                \/ \E k \in Nat : Restart(n, k)
<1>t. db \in [Node -> Nat] /\ fsmIdx \in [Node -> Nat]
  BY DEF IInv, ReadsTypeOK
<1>1. CASE UNCHANGED <<db, fsmIdx>>  BY <1>1, <1>t
<1>2. CASE \E m \in Node : FsmApply(m)
  <2>1. PICK m \in Node : FsmApply(m)  BY <1>2
  <2>2. /\ db[m] + 1 <= commit[m] /\ UNCHANGED commit
        /\ db' = [db EXCEPT ![m] = db[m] + 1]
        /\ fsmIdx' = fsmIdx \/ fsmIdx' = [fsmIdx EXCEPT ![m] = db[m] + 1]
    BY <2>1 DEF FsmApply
  <2> QED BY <1>t, <2>2
<1>3. CASE \E m \in Node, k \in Nat : Restart(m, k)
  <2>1. PICK m \in Node, k \in Nat : Restart(m, k)  BY <1>3
  <2>2. /\ db' \in [Node -> Nat] /\ fsmIdx' \in [Node -> Nat]
        /\ \A n \in Node \ {m} : db'[n] = db[n] /\ fsmIdx'[n] = fsmIdx[n]
    BY <1>t, <2>1 DEF Restart
  <2> QED BY <2>1, <2>2
<1>4. \/ UNCHANGED <<db, fsmIdx>>
      \/ \E m \in Node : FsmApply(m)
      \/ \E m \in Node, k \in Nat : Restart(m, k)
  <2>1. CASE \E c \in Client, m \in Node : BeginStep(c, m)
    BY <2>1, BeginCases, Zenon DEF Begin, storeVars
  <2>2. CASE \E c \in Client, m \in Node : VerifyAck(c, m)
    BY <2>2, Zenon DEF VerifyAck, storeVars
  <2>3. CASE \E c \in Client, Q \in Quorum : Apply(c, Q)  BY <2>3, Zenon DEF Apply, storeVars
  <2>4. CASE \E c \in Client : RequestStep(c)
    BY <2>4, Zenon DEF RequestStep, CheckLeader, ReadIndex, VerifyLeader, CheckTerm,
              WaitForFSMIndex, LocalRead, CheckStrong, Respond, Refuse, Finish, storeVars
  <2>5. CASE UNCHANGED vars  BY <2>5 DEF vars
  <2> QED BY <2>1, <2>2, <2>3, <2>4, <2>5, StepCases DEF storeVars
<1> QED BY <1>1, <1>2, <1>3, <1>4

\* An operation stays where it is, ends, or takes a step of its own: what the
\* invariants about a single operation are proved from.
LEMMA OpMoves ==
    ASSUME IInv, [ReadsNext]_vars
    PROVE  /\ op' \in [Client -> Op]
           /\ \A c \in Client :
                \/ op'[c] = op[c]
                \/ op'[c] = NoOp
                \/ \E n \in Node : BeginStep(c, n)
                \/ \E q \in Node : VerifyAck(c, q)
                \/ \E Q \in Quorum : Apply(c, Q)
                \/ RequestStep(c)
<1>t. /\ op \in [Client -> Op] /\ Len(log) \in Nat /\ \A n \in Node : commit[n] \in Nat
      /\ \A d \in Client : op[d].pc # "idle" => op[d].node \in Node
  BY DEF IInv, ReadsTypeOK, RequestShape
<1>1. CASE \E n \in Node, k \in Nat : Restart(n, k)
  <2>1. op' \in [Client -> Op] /\ \A c \in Client : op'[c] = op[c] \/ op'[c] = NoOp
    BY <1>1, <1>t, NoOpFields DEF Restart
  <2> QED BY <2>1
<1>2. CASE UNCHANGED op
  BY <1>2, <1>t
<1>3. CASE \E d \in Client, n \in Node : BeginStep(d, n)
  <2>1. PICK d \in Client, n \in Node : BeginStep(d, n)  BY <1>3
  <2>2. op' \in [Client -> Op] /\ \A c \in Client \ {d} : op'[c] = op[c]  BY <2>1, BeginIsOp
  <2> QED BY <2>1, <2>2
<1>4. CASE \E d \in Client, n \in Node : VerifyAck(d, n)
  <2>1. PICK d \in Client, n \in Node : VerifyAck(d, n)  BY <1>4
  <2>2. op' \in [Client -> Op] /\ \A c \in Client \ {d} : op'[c] = op[c]  BY <1>t, <2>1, AckFields
  <2> QED BY <2>1, <2>2
<1>5. CASE \E d \in Client, Q \in Quorum : Apply(d, Q)
  <2>1. PICK d \in Client, Q \in Quorum : Apply(d, Q)  BY <1>5
  <2>2. op' \in [Client -> Op] /\ \A c \in Client \ {d} : op'[c] = op[c]  BY <1>t, <2>1, ApplyFields
  <2> QED BY <2>1, <2>2
<1>6. CASE \E d \in Client : RequestStep(d)
  <2>1. PICK d \in Client : RequestStep(d)  BY <1>6
  <2>2. op' \in [Client -> Op] /\ \A c \in Client \ {d} : op'[c] = op[c]
    BY <1>t, <2>1, MoveFields, Zenon
  <2> QED BY <2>1, <2>2
<1>7. CASE UNCHANGED vars  BY <1>2, <1>7 DEF vars
<1>8. CASE \E n \in Node : FsmApply(n)  BY <1>2, <1>8 DEF FsmApply
<1> QED BY <1>1, <1>2, <1>3, <1>4, <1>5, <1>6, <1>7, <1>8, StepCases

\* The node of a request that goes on has not been restarted.
LEMMA StaysUp ==
    ASSUME IInv, [ReadsNext]_vars, NEW c \in Client, op[c].pc # "idle", op'[c].pc # "idle"
    PROVE  LET n == op[c].node IN
           /\ n \in Node /\ commit[n] <= commit'[n] /\ db[n] <= db'[n]
           /\ db'[n] = db[n] \/ db'[n] <= commit'[n]
<1> DEFINE n == op[c].node
<1>t. /\ n \in Node /\ commit[n] \in Nat /\ db[n] \in Nat
  BY DEF IInv, ReadsTypeOK, RequestShape
<1>1. ~\E k \in Nat : Restart(n, k)
  <2>1. ASSUME NEW k \in Nat, Restart(n, k) PROVE op'[c] = NoOp
    BY <2>1 DEF Restart
  <2> QED BY <2>1, NoOpFields
<1>2. commit[n] <= commit'[n]  BY <1>1, <1>t, CommitMoves
<1>3. db'[n] = db[n] \/ (db'[n] = db[n] + 1 /\ db'[n] <= commit[n] /\ UNCHANGED commit)
  BY <1>1, <1>t, DbMoves
<1> QED BY <1>t, <1>2, <1>3

\* What the steps do to the newest state shown.
LEMMA AckedMoves ==
    ASSUME IInv, [ReadsNext]_vars
    PROVE  \/ acked' = acked
           \/ \E c \in Client :
                /\ acked < acked' /\ op'[c] = NoOp
                /\ \/ LocalRead(c) /\ op[c].pc = "local" /\ acked' = db[op[c].node]
                   \/ Respond(c) /\ op[c].pc = "respond" /\ acked' = op[c].entry /\ op[c].entry <= db[op[c].node]
<1>t. op \in [Client -> Op]  BY DEF IInv, ReadsTypeOK
<1>1. CASE \E c \in Client : LocalRead(c)
  BY <1>1, <1>t DEF LocalRead, Finish
<1>2. CASE \E c \in Client : Respond(c)
  <2>1. PICK c \in Client : Respond(c)  BY <1>2
  <2>2. op'[c] = NoOp /\ op[c].pc = "respond"  BY <1>t, <2>1 DEF Respond, Finish
  <2>3. op[c].entry <= db[op[c].node]
    <3>1. op[c].entry \in Nat  BY <1>t DEF Op
    <3>2. op[c].node \in Node  BY <2>2 DEF IInv, RequestShape
    <3>3. db[op[c].node] \in Nat  BY <3>2 DEF IInv, ReadsTypeOK
    <3> QED BY <2>1, <3>1, <3>3 DEF Respond
  <2>4. acked' = acked \/ (acked < op[c].entry /\ acked' = op[c].entry)
    BY <2>1 DEF Respond, Finish
  <2> QED BY <2>1, <2>2, <2>3, <2>4
<1>3. UNCHANGED acked \/ (\E c \in Client : LocalRead(c)) \/ \E c \in Client : Respond(c)
  <2>1. CASE \E c \in Client, n \in Node : BeginStep(c, n)
    BY <2>1, BeginCases, Zenon DEF Begin
  <2>2. CASE \E c \in Client, n \in Node : VerifyAck(c, n)  BY <2>2, Zenon DEF VerifyAck
  <2>3. CASE \E c \in Client, Q \in Quorum : Apply(c, Q)  BY <2>3, Zenon DEF Apply
  <2>4. CASE \E c \in Client : RequestStep(c)
    BY <2>4, Zenon DEF RequestStep, CheckLeader, ReadIndex, VerifyLeader, CheckTerm,
              WaitForFSMIndex, CheckStrong, Refuse
  <2>5. CASE UNCHANGED vars  BY <2>5 DEF vars
  <2> QED BY <2>1, <2>2, <2>3, <2>4, <2>5, StepCases
<1> QED BY <1>1, <1>2, <1>3

\* What the steps do to the strong-read terms and to the number of restarts.
LEMMA StrongMoves ==
    ASSUME IInv, [ReadsNext]_vars
    PROVE  /\ restarts' \in 0..MaxRestarts
           /\ \/ UNCHANGED strongReadTerm
              \/ \E n \in Node, k \in Nat :
                    Restart(n, k) /\ strongReadTerm' = [strongReadTerm EXCEPT ![n] = 0]
              \/ \E c \in Client :
                    /\ Respond(c) /\ op[c].level = "strong"
                    /\ strongReadTerm' = [strongReadTerm EXCEPT ![op[c].node] = op[c].readTerm]
<1>t. restarts \in 0..MaxRestarts /\ MaxRestarts \in Nat
  BY ClientAssumption DEF IInv, ReadsTypeOK
<1>1. CASE UNCHANGED <<restarts, strongReadTerm>>  BY <1>1, <1>t
<1>2. CASE \E n \in Node, k \in Nat : Restart(n, k)
  <2>1. PICK n \in Node, k \in Nat : Restart(n, k)  BY <1>2
  <2>2. /\ strongReadTerm' = [strongReadTerm EXCEPT ![n] = 0]
        /\ restarts < MaxRestarts /\ restarts' = restarts + 1
    BY <2>1 DEF Restart
  <2>3. restarts' \in 0..MaxRestarts  BY <1>t, <2>2
  <2> QED BY <2>1, <2>2, <2>3, Zenon
<1>3. CASE \E c \in Client : Respond(c)  BY <1>3, <1>t DEF Respond
<1>4. CASE \E c \in Client, n \in Node : BeginStep(c, n)
  BY <1>1, <1>4, BeginCases, Zenon DEF Begin, storeVars
<1>5. CASE \E c \in Client, n \in Node : VerifyAck(c, n)  BY <1>1, <1>5, Zenon DEF VerifyAck, storeVars
<1>6. CASE \E c \in Client, Q \in Quorum : Apply(c, Q)  BY <1>1, <1>6, Zenon DEF Apply, storeVars
<1>7. CASE \E c \in Client : RequestStep(c)
  BY <1>1, <1>3, <1>7, Zenon DEF RequestStep, CheckLeader, ReadIndex, VerifyLeader, CheckTerm,
            WaitForFSMIndex, LocalRead, CheckStrong, Refuse, storeVars
<1>8. CASE \E n \in Node : FsmApply(n)  BY <1>1, <1>8 DEF FsmApply
<1>9. CASE UNCHANGED vars  BY <1>1, <1>9 DEF vars
<1> QED BY <1>1, <1>2, <1>3, <1>4, <1>5, <1>6, <1>7, <1>8, <1>9, StepCases DEF storeVars

-----------------------------------------------------------------------------
(***************************************************************************)
(* The invariant is inductive.                                              *)
(***************************************************************************)

\* A node that has just opened satisfies the inductive invariant.
LEMMA InitIInv == ReadsInit => IInv
<1> SUFFICES ASSUME ReadsInit PROVE IInv
  OBVIOUS
<1> USE DEF ReadsInit, RaftInit
<1>l. log = << >> /\ Len(log) = 0 /\ log \in Seq(Entry)  OBVIOUS
<1>o. \A c \in Client : op[c] = NoOp  OBVIOUS
<1>1. ReadsTypeOK
  BY <1>l, ClientAssumption, NoOpFields DEF ReadsTypeOK, State
<1>2. LeadersElected  BY DEF LeadersElected
<1>3. LogOrdered  BY <1>l DEF LogOrdered
<1>4. AllSettled  BY DEF AllSettled, Settled
<1>5. TermsRemembered  BY <1>o, NoOpFields DEF TermsRemembered
<1>6. StrongReadMeansCommitted  BY DEF StrongReadMeansCommitted
<1>7. EntryWaits  BY <1>o, NoOpFields DEF EntryWaits
<1>8. ReadProgress  BY <1>o, NoOpFields DEF ReadProgress
<1>9. RequestShape  BY <1>o, NoOpFields DEF RequestShape
<1> QED BY <1>1, <1>2, <1>3, <1>4, <1>5, <1>6, <1>7, <1>8, <1>9 DEF IInv

\* The type invariant.
LEMMA TypeStep == IInv /\ [ReadsNext]_vars => ReadsTypeOK'
<1> SUFFICES ASSUME IInv, [ReadsNext]_vars PROVE ReadsTypeOK'
  OBVIOUS
<1>t. /\ op \in [Client -> Op] /\ Len(log) \in Nat
      /\ db \in [Node -> 0..Len(log)] /\ fsmIdx \in [Node -> 0..Len(log)]
      /\ commit \in [Node -> 0..Len(log)] /\ acked \in 0..Len(log)
      /\ strongReadTerm \in [Node -> Nat]
      /\ \A n \in Node : fsmIdx[n] <= db[n]
  BY DEF IInv, ReadsTypeOK
<1>l. log' \in Seq(Entry) /\ Len(log') \in Nat /\ Len(log) <= Len(log')  BY LogGrows
<1>1. term' \in [Node -> Nat] /\ state' \in [Node -> State]  BY TermsGrow
<1>2. commit' \in [Node -> 0..Len(log')]
  <2>1. commit' \in [Node -> 0..Len(log)]  BY CommitMoves
  <2> QED BY <1>t, <1>l, <2>1
<1>3. ASSUME NEW n \in Node
      PROVE  db'[n] \in 0..Len(log') /\ fsmIdx'[n] \in 0..Len(log') /\ fsmIdx'[n] <= db'[n]
  <2>1. CASE \E k \in Nat : Restart(n, k)
    <3>1. PICK k \in Nat : Restart(n, k)  BY <2>1
    <3>2. k \in 0..db[n] /\ db'[n] = k /\ fsmIdx'[n] = k  BY <3>1, <1>t DEF Restart
    <3>3. db[n] \in 0..Len(log)  BY <1>t
    <3> QED BY <1>t, <1>l, <3>2, <3>3
  <2>2. CASE db'[n] = db[n] /\ fsmIdx'[n] = fsmIdx[n]  BY <1>t, <1>l, <2>2
  <2>3. CASE db'[n] = db[n] + 1 /\ db'[n] <= commit[n] /\ fsmIdx'[n] \in {fsmIdx[n], db'[n]}
    BY <1>t, <1>l, <2>3
  <2> QED BY <2>1, <2>2, <2>3, DbMoves
<1>4. db' \in [Node -> 0..Len(log')] /\ fsmIdx' \in [Node -> 0..Len(log')]
  BY <1>3, DbMoves
<1>5. op' \in [Client -> Op]  BY OpMoves
<1>6. acked' \in 0..Len(log')
  <2>1. \A c \in Client : op[c].pc \in {"local", "respond"} => db[op[c].node] \in 0..Len(log)
    BY <1>t DEF IInv, RequestShape
  <2>2. \A c \in Client : op[c].entry \in Nat  BY <1>t DEF Op
  <2>3. acked' \in 0..Len(log)
    BY <1>t, <2>1, <2>2, AckedMoves
  <2> QED BY <1>t, <1>l, <2>3
<1>7. strongReadTerm' \in [Node -> Nat] /\ restarts' \in 0..MaxRestarts
  <2>1. \A c \in Client : op[c].readTerm \in Nat  BY <1>t DEF Op
  <2> QED BY <1>t, <2>1, StrongMoves
<1> QED BY <1>1, <1>2, <1>3, <1>4, <1>5, <1>6, <1>7, <1>l DEF ReadsTypeOK

\* No step brings a node, or an answer, to an index that is not settled.
LEMMA SettledStep == IInv /\ [ReadsNext]_vars => AllSettled'
<1> SUFFICES ASSUME IInv, [ReadsNext]_vars PROVE AllSettled'
  OBVIOUS
<1>t. /\ Len(log) \in Nat /\ acked \in 0..Len(log) /\ term \in [Node -> Nat]
      /\ commit \in [Node -> 0..Len(log)] /\ db \in [Node -> 0..Len(log)]
      /\ op \in [Client -> Op]
  BY DEF IInv, ReadsTypeOK
<1>s. Settled(acked) /\ \A n \in Node : Settled(commit[n]) /\ Settled(db[n])
  BY DEF IInv, AllSettled
<1>0. Settled(0)'  BY DEF Settled
<1>1. ASSUME NEW x \in Nat, NEW y \in 0..Len(log), x <= y, Settled(y)
      PROVE  Settled(x)'
  <2>1. Settled(x)  BY <1>1, SettledBelow
  <2>2. x \in 0..Len(log)  BY <1>t, <1>1
  <2> QED BY <2>1, <2>2, SettledStays
<1>2. ASSUME NEW n \in Node PROVE Settled(commit[n])'
  <2>1. PICK x : x = commit'[n]  OBVIOUS
  <2>2. Settled(x)'
    <3>1. CASE x = 0  BY <1>0, <3>1
    <3>2. ASSUME NEW m \in Node, x = commit[m]
          PROVE  Settled(x)'
      <4>1. x \in 0..Len(log) /\ x \in Nat /\ x <= x  BY <1>t, <3>2
      <4>2. Settled(x)  BY <1>s, <3>2
      <4> QED BY <4>1, <4>2, <1>1
    <3>3. ASSUME NEW m \in Node, NEW k \in 1..Len(log), AdvanceCommit(m, k), x # commit[n]
          PROVE  Settled(x)'
      <4>1. /\ state[m] = "Leader" /\ log[k].term = term[m] /\ commit[m] < k
            /\ commit' = [commit EXCEPT ![m] = k] /\ UNCHANGED <<term, state, log>>
        BY <3>3 DEF AdvanceCommit
      <4>2. m = n /\ x = k  BY <1>t, <2>1, <3>3, <4>1
      <4>3. commit'[m] = k  BY <1>t, <4>1
      <4> SUFFICES ASSUME NEW l \in Node, state[l] = "Leader", ~(log[k].term < term[l]), l # m
                   PROVE  \E Q \in Quorum : \A q \in Q : term[q] > term[l]
        BY <1>t, <4>1, <4>2, <4>3 DEF Settled, Beyond
      <4>4. term[l] < term[m]
        <5>1. term[l] # term[m]  BY <4>1 DEF IInv, LeadersElected
        <5> QED BY <1>t, <4>1, <5>1
      <4>5. PICK Q \in Quorum : \A q \in Q : term[q] >= term[m]
        BY <4>1 DEF IInv, LeadersElected
      <4>6. \A q \in Q : q \in Node  BY QuorumAssumption
      <4> QED BY <1>t, <4>4, <4>5, <4>6
    <3> QED BY <2>1, <3>1, <3>2, <3>3, CommitMoves
  <2> QED BY <2>1, <2>2 DEF Settled, Beyond
<1>3. ASSUME NEW n \in Node PROVE Settled(db[n])'
  <2>1. PICK x : x = db'[n]  OBVIOUS
  <2>2. PICK y : y = db[n]  OBVIOUS
  <2>3. PICK z : z = commit[n]  OBVIOUS
  <2>4. y \in 0..Len(log) /\ z \in 0..Len(log) /\ Settled(y) /\ Settled(z)
    BY <1>t, <1>s, <2>2, <2>3
  <2>5. x \in Nat /\ (x <= y \/ x <= z)
    <3>1. ASSUME NEW k \in Nat, Restart(n, k) PROVE x = k /\ k \in 0..y
      BY <1>t, <2>1, <2>2, <3>1 DEF Restart
    <3>2. x \in Nat /\ (x = y \/ x <= z \/ \E k \in Nat : Restart(n, k))
      BY <2>1, <2>2, <2>3, DbMoves
    <3> QED BY <2>4, <3>1, <3>2
  <2>6. Settled(x)'  BY <1>1, <2>4, <2>5
  <2> QED BY <2>1, <2>6 DEF Settled, Beyond
<1>4. Settled(acked)'
  <2>1. PICK x : x = acked'  OBVIOUS
  <2>2. Settled(x)'
    <3>1. CASE acked' = acked
      <4>1. x \in 0..Len(log) /\ x \in Nat /\ x <= x /\ Settled(x)  BY <1>t, <1>s, <2>1, <3>1
      <4> QED BY <4>1, <1>1
    <3>2. ASSUME NEW c \in Client, op[c].pc \in {"local", "respond"}, x <= db[op[c].node], x \in Nat
          PROVE  Settled(x)'
      <4>1. PICK y : y = db[op[c].node]  OBVIOUS
      <4>2. op[c].node \in Node  BY <3>2 DEF IInv, RequestShape
      <4>3. y \in 0..Len(log) /\ Settled(y)  BY <1>t, <1>s, <4>1, <4>2
      <4> QED BY <1>1, <3>2, <4>1, <4>3
    <3>3. \A c \in Client : op[c].entry \in Nat  BY <1>t DEF Op
    <3>4. \A c \in Client : op[c].pc \in {"local", "respond"} => db[op[c].node] \in Nat
      BY <1>t DEF IInv, RequestShape
    <3> QED BY <2>1, <3>1, <3>2, <3>3, <3>4, AckedMoves
  <2> QED BY <2>1, <2>2 DEF Settled, Beyond
<1> QED BY <1>2, <1>3, <1>4 DEF AllSettled

\* A request moves through its positions, and asks for what has been shown.
LEMMA ShapeStep == IInv /\ [ReadsNext]_vars => RequestShape'
<1> SUFFICES ASSUME IInv, [ReadsNext]_vars, NEW c \in Client
             PROVE  /\ op'[c].pc # "idle" => op'[c].node \in Node
                    /\ op'[c].pc \in {"index", "verify", "term", "wait"} => op'[c].level = "linearizable"
                    /\ op'[c].pc = "check" => op'[c].level \in {"linearizable", "weak"}
                    /\ op'[c].pc \in {"strong", "apply", "respond"} => op'[c].level \in {"strong", "write"}
                    /\ op'[c].floor <= acked'
  BY DEF RequestShape
<1>t. /\ op \in [Client -> Op] /\ acked \in Nat /\ op[c].floor \in Nat /\ Len(log) \in Nat
      /\ \A n \in Node : commit[n] \in Nat
  BY DEF IInv, ReadsTypeOK, Op
<1>s. /\ op[c].pc # "idle" => op[c].node \in Node
      /\ op[c].pc \in {"index", "verify", "term", "wait"} => op[c].level = "linearizable"
      /\ op[c].pc = "check" => op[c].level \in {"linearizable", "weak"}
      /\ op[c].pc \in {"strong", "apply", "respond"} => op[c].level \in {"strong", "write"}
      /\ op[c].floor <= acked
  BY DEF IInv, RequestShape
<1>a. acked' \in Nat /\ acked <= acked'
  <2>1. acked' \in Nat  BY TypeStep DEF ReadsTypeOK
  <2> QED BY <1>t, <2>1, AckedMoves
<1>1. CASE op'[c] = op[c]  BY <1>1, <1>s, <1>t, <1>a
<1>2. CASE op'[c] = NoOp  BY <1>2, <1>a, NoOpFields
<1>3. ASSUME NEW n \in Node, BeginStep(c, n)
      PROVE  /\ op'[c].node \in Node /\ op'[c].floor \in {0, acked}
             /\ <<op'[c].level, op'[c].pc>> \in Start
  BY <1>3, BeginIsOp
<1>4. CASE \E n \in Node : BeginStep(c, n)  BY <1>3, <1>4, <1>t, <1>a DEF Start
<1>5. CASE \E q \in Node : VerifyAck(c, q)
  BY <1>5, <1>s, <1>t, <1>a, AckFields DEF VerifyAck
<1>6. CASE \E Q \in Quorum : Apply(c, Q)
  BY <1>6, <1>s, <1>t, <1>a, ApplyFields DEF Apply
<1>7. CASE RequestStep(c)
  <2>1. op[c].floor <= acked'  BY <1>s, <1>t, <1>a
  <2>2. CASE CheckLeader(c)  BY <2>1, <2>2, <1>s, <1>t, MoveFields DEF CheckLeader
  <2>3. CASE ReadIndex(c)  BY <2>1, <2>3, <1>s, <1>t, MoveFields DEF ReadIndex
  <2>4. CASE VerifyLeader(c)  BY <2>1, <2>4, <1>s, <1>t, MoveFields DEF VerifyLeader
  <2>5. CASE CheckTerm(c)  BY <2>1, <2>5, <1>s, <1>t, MoveFields DEF CheckTerm
  <2>6. CASE WaitForFSMIndex(c)  BY <2>1, <2>6, <1>s, <1>t, MoveFields DEF WaitForFSMIndex
  <2>7. CASE CheckStrong(c)  BY <2>1, <2>7, <1>s, <1>t, MoveFields DEF CheckStrong
  <2>8. CASE LocalRead(c) \/ Respond(c) \/ Refuse(c)
    <3>1. op'[c] = NoOp  BY <1>s, <1>t, <2>8, MoveFields
    <3> QED BY <1>2, <3>1
  <2> QED BY <1>7, <2>2, <2>3, <2>4, <2>5, <2>6, <2>7, <2>8 DEF RequestStep
<1> QED BY <1>1, <1>2, <1>4, <1>5, <1>6, <1>7, OpMoves

\* The Store remembers no term that its node has not reached.
LEMMA RememberStep == IInv /\ [ReadsNext]_vars => TermsRemembered'
<1> SUFFICES ASSUME IInv, [ReadsNext]_vars PROVE TermsRemembered'
  OBVIOUS
<1>t. /\ op \in [Client -> Op] /\ term \in [Node -> Nat] /\ strongReadTerm \in [Node -> Nat]
      /\ Len(log) \in Nat /\ \A n \in Node : commit[n] \in Nat
      /\ \A c \in Client : op[c].readTerm \in Nat
  BY DEF IInv, ReadsTypeOK, Op
<1>g. term' \in [Node -> Nat] /\ \A n \in Node : term[n] <= term'[n]  BY TermsGrow
<1>r. /\ \A n \in Node : strongReadTerm[n] <= term[n]
      /\ \A c \in Client : op[c].node \in Node => op[c].readTerm <= term[op[c].node]
      /\ \A c \in Client : op[c].pc # "idle" => op[c].node \in Node
  BY DEF IInv, TermsRemembered, RequestShape
<1>1. ASSUME NEW n \in Node PROVE strongReadTerm'[n] <= term'[n]
  <2>1. CASE UNCHANGED strongReadTerm  BY <1>t, <1>g, <1>r, <2>1
  <2>2. CASE \E m \in Node : strongReadTerm' = [strongReadTerm EXCEPT ![m] = 0]
    BY <1>t, <1>g, <1>r, <2>2
  <2>3. ASSUME NEW c \in Client, Respond(c),
               strongReadTerm' = [strongReadTerm EXCEPT ![op[c].node] = op[c].readTerm]
        PROVE  strongReadTerm'[n] <= term'[n]
    <3>1. op[c].node \in Node  BY <1>r, <2>3 DEF Respond
    <3> QED BY <1>t, <1>g, <1>r, <2>3, <3>1
  <2> QED BY <2>1, <2>2, <2>3, StrongMoves
<1>2. ASSUME NEW c \in Client, op'[c].node \in Node
      PROVE  op'[c].readTerm <= term'[op'[c].node]
  <2>1. CASE op'[c].node = op[c].node /\ op'[c].readTerm = op[c].readTerm
    BY <1>t, <1>g, <1>r, <1>2, <2>1
  <2>2. CASE op'[c].readTerm = 0  BY <1>g, <1>2, <2>2
  <2>3. ASSUME NEW n \in Node, BeginStep(c, n) PROVE op'[c].readTerm <= term'[op'[c].node]
    <3>1. op'[c].node = n /\ op'[c].readTerm \in {0, term[n]}  BY <2>3, BeginIsOp
    <3>2. term[n] \in Nat /\ term'[n] \in Nat /\ term[n] <= term'[n]  BY <1>g, <1>t
    <3> QED BY <3>1, <3>2
  <2>4. CASE \E q \in Node : VerifyAck(c, q)  BY <1>t, <2>1, <2>4, AckFields
  <2>5. CASE \E Q \in Quorum : Apply(c, Q)  BY <1>t, <2>1, <2>5, ApplyFields
  <2>6. CASE RequestStep(c)
    <3>1. \/ op'[c].node = op[c].node /\ op'[c].readTerm = op[c].readTerm
          \/ op'[c].readTerm = 0
      BY <1>r, <1>t, <2>6, MoveFields, NoOpFields DEF RequestStep
    <3> QED BY <2>1, <2>2, <3>1
  <2> QED BY <2>1, <2>2, <2>3, <2>4, <2>5, <2>6, NoOpFields, OpMoves
<1> QED BY <1>1, <1>2 DEF TermsRemembered

\* An entry that a request waits for is not forgotten.
LEMMA EntryStep == IInv /\ [ReadsNext]_vars => EntryWaits'
<1> SUFFICES ASSUME IInv, [ReadsNext]_vars, NEW c \in Client, op'[c].pc = "respond"
             PROVE  LET n == op'[c].node IN
                    /\ op'[c].entry \in 1..Len(log')
                    /\ op'[c].floor <= op'[c].entry
                    /\ op'[c].entry <= db'[n] => op'[c].entry <= commit'[n]
                    /\ op'[c].readTerm <= log'[op'[c].entry].term
                    /\ log'[op'[c].entry].term <= term'[n]
  BY DEF EntryWaits
<1>t. /\ op \in [Client -> Op] /\ term \in [Node -> Nat] /\ acked \in 0..Len(log)
      /\ Len(log) \in Nat /\ \A n \in Node : commit[n] \in Nat
      /\ db \in [Node -> 0..Len(log)]
      /\ op[c].readTerm \in Nat /\ op[c].floor \in Nat
      /\ op[c].pc # "idle" => op[c].node \in Node
      /\ op[c].floor <= acked
  BY DEF IInv, ReadsTypeOK, Op, RequestShape
<1>g. term' \in [Node -> Nat] /\ \A n \in Node : term[n] <= term'[n]  BY TermsGrow
<1>l. /\ Len(log') \in Nat /\ Len(log) <= Len(log')
      /\ \A i \in 1..Len(log) : log'[i] = log[i] /\ log[i].term \in Nat
  BY LogGrows
<1>c. commit' \in [Node -> 0..Len(log)] /\ db' \in [Node -> Nat]
  BY CommitMoves, DbMoves
<1>1. CASE op'[c] = op[c]
  <2> DEFINE n == op[c].node
             e == op[c].entry
  <2>1. /\ e \in 1..Len(log) /\ op[c].floor <= e
        /\ e <= db[n] => e <= commit[n]
        /\ op[c].readTerm <= log[e].term
        /\ log[e].term <= term[n]
    BY <1>1 DEF IInv, EntryWaits
  <2>2. n \in Node /\ commit[n] <= commit'[n] /\ (db'[n] = db[n] \/ db'[n] <= commit'[n])
    BY <1>1, StaysUp
  <2>3. e \in 1..Len(log') /\ log'[e] = log[e] /\ log[e].term \in Nat  BY <1>t, <1>l, <2>1
  <2>4. e <= db'[n] => e <= commit'[n]
    <3>1. commit'[n] \in Nat /\ commit[n] \in Nat /\ db'[n] \in Nat /\ e \in Nat
      BY <1>c, <1>t, <2>1, <2>2
    <3> QED BY <2>1, <2>2, <3>1
  <2>5. log[e].term <= term'[n]  BY <1>g, <1>t, <2>1, <2>2, <2>3
  <2> QED BY <1>1, <2>1, <2>3, <2>4, <2>5
<1>2. ASSUME NEW Q \in Quorum, Apply(c, Q)
      PROVE  LET n == op'[c].node IN
             /\ op'[c].entry \in 1..Len(log')
             /\ op'[c].floor <= op'[c].entry
             /\ op'[c].entry <= db'[n] => op'[c].entry <= commit'[n]
             /\ op'[c].readTerm <= log'[op'[c].entry].term
             /\ log'[op'[c].entry].term <= term'[n]
  <2> DEFINE n == op[c].node
             e == Len(log) + 1
  <2>1. op'[c].entry = e /\ op'[c].node = n /\ op'[c].readTerm = op[c].readTerm /\ op'[c].floor = op[c].floor
    BY <1>t, <1>2, ApplyFields
  <2>2. n \in Node  BY <1>t, <1>2 DEF Apply
  <2>3. log' = Append(log, [term |-> term[n], kind |-> "command"]) /\ db' = db
    BY <1>2 DEF Apply, Store, storeVars
  <2>4. log \in Seq(Entry)  BY DEF IInv, ReadsTypeOK
  <2>5. Len(log') = e /\ log'[e].term = term[n]
    <3>1. PICK x : x = [term |-> term[n], kind |-> "command"]  OBVIOUS
    <3>2. x \in Entry  BY <1>t, <2>2, <3>1 DEF Entry, Kind
    <3>3. Len(log') = e /\ log'[e] = x  BY <2>3, <2>4, <3>1, <3>2
    <3> QED BY <3>1, <3>3
  <2>6. op[c].readTerm <= term[n]  BY <2>2 DEF IInv, TermsRemembered
  <2>7. db[n] \in 0..Len(log)  BY <1>t, <2>2
  <2>8. e \in 1..Len(log') /\ op[c].floor <= e /\ ~(e <= db'[n])
    BY <1>t, <2>3, <2>5, <2>7
  <2>9. term[n] <= term'[n]  BY <1>g, <2>2
  <2> QED BY <2>1, <2>5, <2>6, <2>8, <2>9
<1>3. \/ op'[c] = op[c] \/ \E Q \in Quorum : Apply(c, Q)
  <2>1. ~\E n \in Node : BeginStep(c, n)  BY BeginIsOp DEF Start
  <2>2. ~\E q \in Node : VerifyAck(c, q)  BY <1>t, AckFields
  <2>3. ~RequestStep(c)  BY <1>t, MoveFields, NoOpFields DEF RequestStep
  <2> QED BY <2>1, <2>2, <2>3, NoOpFields, OpMoves
<1> QED BY <1>1, <1>2, <1>3

\* A strong read notes the term it began in, and only after an entry of that
\* term, or of a later one, is committed.
LEMMA StrongStep == IInv /\ [ReadsNext]_vars => StrongReadMeansCommitted'
<1> SUFFICES ASSUME IInv, [ReadsNext]_vars, NEW n \in Node,
                    strongReadTerm'[n] = term'[n], state'[n] = "Leader"
             PROVE  \E i \in 1..commit'[n] : log'[i].term = term'[n]
  BY DEF StrongReadMeansCommitted
<1>t. /\ op \in [Client -> Op] /\ term \in [Node -> Nat] /\ strongReadTerm \in [Node -> Nat]
      /\ Len(log) \in Nat /\ commit \in [Node -> 0..Len(log)]
      /\ strongReadTerm[n] <= term[n]
  BY DEF IInv, ReadsTypeOK, TermsRemembered
<1>g. term' \in [Node -> Nat] /\ term[n] <= term'[n]  BY TermsGrow
<1>l. \A i \in 1..Len(log) : log'[i] = log[i] /\ log[i].term \in Nat  BY LogGrows
<1>c. commit'[n] \in 0..Len(log) /\ commit[n] <= commit'[n]  BY CommitMoves
<1>1. CASE strongReadTerm'[n] = strongReadTerm[n]
  <2>1. state[n] = "Leader" /\ term'[n] = term[n]
    <3>1. ASSUME NEW m \in Node, NEW t \in 1..MaxTerm, NEW Q \in Quorum, Elect(m, t, Q)
          PROVE  state[n] = "Leader" /\ term'[n] = term[n]
      <4>1. m # n
        <5>1. m = n => term[n] < term'[n]  BY <3>1, ElectedIsNew
        <5> QED BY <1>1, <1>g, <1>t, <5>1
      <4> QED BY <3>1, <4>1 DEF Elect
    <3> QED BY <3>1, TermsGrow
  <2>2. PICK i \in 1..commit[n] : log[i].term = term[n]
    BY <1>1, <2>1 DEF IInv, StrongReadMeansCommitted
  <2>3. i \in 1..commit'[n] /\ i \in 1..Len(log)  BY <1>t, <1>c, <2>2
  <2> QED BY <1>l, <2>1, <2>2, <2>3
<1>2. ASSUME NEW c \in Client, Respond(c), op[c].node = n, strongReadTerm'[n] = op[c].readTerm
      PROVE  \E i \in 1..commit'[n] : log'[i].term = term'[n]
  <2> DEFINE e == op[c].entry
  <2>1. UNCHANGED raftVars  BY <1>2, RaftAlone DEF RequestStep
  <2>2. /\ e \in 1..Len(log) /\ (e <= db[n] => e <= commit[n])
        /\ op[c].readTerm <= log[e].term /\ log[e].term <= term[n]
    BY <1>2 DEF Respond, IInv, EntryWaits
  <2>3. e <= db[n]
    <3>1. db[n] \in Nat /\ e \in Nat  BY <2>2 DEF IInv, ReadsTypeOK
    <3> QED BY <1>2, <3>1 DEF Respond
  <2>4. e \in 1..commit[n] /\ log[e].term = term[n]
    <3>1. op[c].readTerm = term[n]  BY <1>2, <2>1 DEF raftVars
    <3>2. log[e].term \in Nat /\ term[n] \in Nat /\ commit[n] \in Nat  BY <1>t, <1>l, <2>2
    <3> QED BY <2>2, <2>3, <3>1, <3>2
  <2> QED BY <2>1, <2>4 DEF raftVars
<1>3. CASE UNCHANGED strongReadTerm  BY <1>1, <1>3
<1>4. ASSUME NEW m \in Node, NEW k \in Nat, Restart(m, k),
             strongReadTerm' = [strongReadTerm EXCEPT ![m] = 0]
      PROVE  strongReadTerm'[n] = strongReadTerm[n]
  <2>1. m # n
    <3>1. state \in [Node -> State]  BY DEF IInv, ReadsTypeOK
    <3>2. state' = [state EXCEPT ![m] = "Follower"]  BY <1>4 DEF Restart
    <3> QED BY <3>1, <3>2
  <2> QED BY <1>t, <1>4, <2>1
<1>5. ASSUME NEW c \in Client, Respond(c),
             strongReadTerm' = [strongReadTerm EXCEPT ![op[c].node] = op[c].readTerm]
      PROVE  \E i \in 1..commit'[n] : log'[i].term = term'[n]
  <2>1. CASE op[c].node = n  BY <1>2, <1>5, <1>t, <2>1
  <2>2. CASE op[c].node # n  BY <1>1, <1>5, <1>t, <2>2
  <2> QED BY <2>1, <2>2
<1> QED BY <1>1, <1>3, <1>4, <1>5, StrongMoves

\* A quorum that has moved on without answering never answers.
LEMMA OvertakenStays ==
    ASSUME IInv, [ReadsNext]_vars, NEW c \in Client, Overtaken(c),
           op'[c].readTerm = op[c].readTerm,
           \/ op'[c].acks = op[c].acks
           \/ \E q \in Node : /\ op'[c].acks = op[c].acks \cup {q}
                              /\ term[q] <= op[c].readTerm
    PROVE  Overtaken(c)'
<1>t. /\ op[c].readTerm \in Nat /\ term \in [Node -> Nat]
  BY DEF IInv, ReadsTypeOK, Op
<1>1. PICK Q \in Quorum : Q \cap op[c].acks = {} /\ \A q \in Q : term[q] > op[c].readTerm
  BY DEF Overtaken
<1>2. \A q \in Q : q \in Node /\ term[q] <= term'[q] /\ term'[q] \in Nat /\ term[q] \in Nat
  BY <1>t, QuorumAssumption, TermsGrow
<1>3. \A q \in Q : term'[q] > op'[c].readTerm  BY <1>t, <1>1, <1>2
<1>4. Q \cap op'[c].acks = {}
  <2>1. CASE op'[c].acks = op[c].acks  BY <1>1, <2>1
  <2>2. ASSUME NEW q \in Node, op'[c].acks = op[c].acks \cup {q}, term[q] <= op[c].readTerm
        PROVE  Q \cap op'[c].acks = {}
    <3>1. q \notin Q  BY <1>t, <1>1, <1>2, <2>2
    <3> QED BY <1>1, <2>2, <3>1
  <2> QED BY <2>1, <2>2
<1> QED BY <1>3, <1>4 DEF Overtaken

\* Where a linearizable read begins, its node knows what has been shown to be
\* committed, or a quorum has moved on.
LEMMA ReadBegins ==
    ASSUME IInv, NEW n \in Node, state[n] = "Leader", strongReadTerm[n] = term[n]
    PROVE  acked <= commit[n] \/ Beyond(term[n])
<1>t. /\ Len(log) \in Nat /\ acked \in 0..Len(log) /\ commit[n] \in 0..Len(log) /\ term[n] \in Nat
  BY DEF IInv, ReadsTypeOK
<1>1. CASE acked = 0  BY <1>t, <1>1
<1>2. CASE acked # 0 /\ log[acked].term < term[n]
  <2>1. PICK i \in 1..commit[n] : log[i].term = term[n]
    BY DEF IInv, StrongReadMeansCommitted
  <2>2. i \in 1..Len(log) /\ acked \in 1..Len(log)  BY <1>t, <1>2, <2>1
  <2>3. log[acked].term \in Nat
    <3>1. log[acked] \in Entry  BY <2>2 DEF IInv, ReadsTypeOK
    <3> QED BY <3>1 DEF Entry
  <2>4. i <= acked => log[i].term <= log[acked].term  BY <2>2 DEF IInv, LogOrdered
  <2> QED BY <1>t, <1>2, <2>1, <2>2, <2>3, <2>4
<1>3. CASE acked # 0 /\ ~(log[acked].term < term[n])
  BY <1>t, <1>3 DEF IInv, AllSettled, Settled
<1> QED BY <1>1, <1>2, <1>3

\* A linearizable read comes to show what it is to show, or fails.
LEMMA ProgressStep == IInv /\ [ReadsNext]_vars => ReadProgress'
<1> SUFFICES ASSUME IInv, [ReadsNext]_vars, NEW c \in Client, op'[c].level = "linearizable"
             PROVE  LET n == op'[c].node
                        same == term'[n] = op'[c].readTerm
                    IN
                    /\ op'[c].pc = "check" /\ same /\ state'[n] = "Leader"
                           => Overtaken(c)' \/ op'[c].floor <= commit'[n]
                    /\ op'[c].pc = "index" /\ same => Overtaken(c)' \/ op'[c].floor <= commit'[n]
                    /\ op'[c].pc = "verify" /\ same => Overtaken(c)' \/ op'[c].floor <= op'[c].readIndex
                    /\ op'[c].pc = "term" /\ same => op'[c].floor <= op'[c].readIndex
                    /\ op'[c].pc = "wait" => op'[c].floor <= op'[c].readIndex
                    /\ op'[c].pc = "local" => op'[c].floor <= db'[n]
  BY DEF ReadProgress
<1> DEFINE n == op[c].node
<1>t. /\ op \in [Client -> Op] /\ term \in [Node -> Nat] /\ state \in [Node -> State]
      /\ Len(log) \in Nat /\ commit \in [Node -> 0..Len(log)] /\ db \in [Node -> 0..Len(log)]
      /\ fsmIdx \in [Node -> 0..Len(log)] /\ \A m \in Node : fsmIdx[m] <= db[m]
      /\ op[c].readTerm \in Nat /\ op[c].floor \in Nat /\ op[c].readIndex \in Nat
      /\ op[c].pc # "idle" => n \in Node
      /\ n \in Node => op[c].readTerm <= term[n]
      /\ \A m \in Node : commit[m] \in Nat
  BY DEF IInv, ReadsTypeOK, Op, RequestShape, TermsRemembered
<1>g. term' \in [Node -> Nat] /\ \A m \in Node : term[m] <= term'[m]  BY TermsGrow
<1>c. commit' \in [Node -> 0..Len(log)] /\ db' \in [Node -> Nat]  BY CommitMoves, DbMoves
<1>p. op[c].level = "linearizable" =>
        LET same == term[n] = op[c].readTerm IN
        /\ op[c].pc = "check" /\ same /\ state[n] = "Leader"
               => Overtaken(c) \/ op[c].floor <= commit[n]
        /\ op[c].pc = "index" /\ same => Overtaken(c) \/ op[c].floor <= commit[n]
        /\ op[c].pc = "verify" /\ same => Overtaken(c) \/ op[c].floor <= op[c].readIndex
        /\ op[c].pc = "term" /\ same => op[c].floor <= op[c].readIndex
        /\ op[c].pc = "wait" => op[c].floor <= op[c].readIndex
        /\ op[c].pc = "local" => op[c].floor <= db[n]
  BY DEF IInv, ReadProgress
<1>1. CASE op'[c] = op[c]
  <2>1. CASE op[c].pc = "idle"  BY <1>1, <2>1
  <2>2. CASE op[c].pc # "idle"
    <3>1. n \in Node /\ commit[n] <= commit'[n] /\ db[n] <= db'[n]  BY <1>1, <2>2, StaysUp
    <3>2. /\ commit[n] \in Nat /\ commit'[n] \in Nat /\ db[n] \in Nat /\ db'[n] \in Nat
          /\ term[n] \in Nat /\ term'[n] \in Nat /\ term[n] <= term'[n]
      BY <1>t, <1>g, <1>c, <3>1
    <3>3. term'[n] = op[c].readTerm => term[n] = op[c].readTerm  BY <1>t, <3>1, <3>2
    <3>4. term'[n] = term[n] /\ state'[n] = "Leader" => state[n] = "Leader"
      <4>1. ASSUME NEW m \in Node, NEW t \in 1..MaxTerm, NEW Q \in Quorum, Elect(m, t, Q),
                   term'[n] = term[n], state'[n] = "Leader"
            PROVE  state[n] = "Leader"
        <5>1. m = n => term[n] < term'[n]  BY <4>1, ElectedIsNew
        <5> QED BY <3>1, <3>2, <4>1, <5>1 DEF Elect
      <4> QED BY <3>1, <4>1, TermsGrow
    <3>5. Overtaken(c) => Overtaken(c)'  BY <1>1, OvertakenStays
    <3> QED BY <1>1, <1>p, <1>t, <3>1, <3>2, <3>3, <3>4, <3>5
  <2> QED BY <2>1, <2>2
<1>2. ASSUME NEW m \in Node, BeginStep(c, m), state'[m] = "Leader"
      PROVE  Overtaken(c)' \/ op'[c].floor <= commit'[m]
  <2>1. /\ op'[c].node = m /\ op'[c].acks = {}
        /\ op'[c].readTerm = term[m] /\ strongReadTerm[m] = term[m] /\ op'[c].floor = acked
        /\ UNCHANGED raftVars
    BY <1>2, BeginIsOp
  <2>2. term' = term /\ state' = state /\ commit' = commit  BY <2>1 DEF raftVars
  <2>3. acked <= commit[m] \/ Beyond(term[m])  BY <1>2, <2>1, <2>2, ReadBegins
  <2>4. Beyond(term[m]) => Overtaken(c)'  BY <2>1, <2>2 DEF Beyond, Overtaken
  <2> QED BY <2>1, <2>2, <2>3, <2>4
<1>3. CASE \E m \in Node : BeginStep(c, m)
  <2>1. PICK m \in Node : BeginStep(c, m)  BY <1>3
  <2>2. op'[c].node = m /\ op'[c].pc = "check"  BY <2>1, BeginIsOp DEF Start
  <2> QED BY <1>2, <2>1, <2>2
<1>4. ASSUME NEW q \in Node, VerifyAck(c, q), term'[n] = op[c].readTerm
      PROVE  op'[c].pc = "verify" /\ (Overtaken(c)' \/ op'[c].floor <= op'[c].readIndex)
  <2>1. /\ op'[c].pc = "verify" /\ op'[c].acks = op[c].acks \cup {q}
        /\ op'[c].level = op[c].level
        /\ op'[c].readTerm = op[c].readTerm /\ op'[c].readIndex = op[c].readIndex
        /\ op'[c].floor = op[c].floor
    BY <1>t, <1>4, AckFields
  <2>2. op[c].pc = "verify" /\ n \in Node /\ term[q] <= term[n]  BY <1>t, <1>4 DEF VerifyAck
  <2>3. term[n] = op[c].readTerm
    <3>1. term[n] \in Nat /\ term'[n] \in Nat /\ term[n] <= term'[n]  BY <1>t, <1>g, <2>2
    <3> QED BY <1>t, <1>4, <2>2, <3>1
  <2>4. Overtaken(c) \/ op[c].floor <= op[c].readIndex  BY <1>p, <2>1, <2>2, <2>3
  <2>5. Overtaken(c) => Overtaken(c)'  BY <2>1, <2>2, <2>3, OvertakenStays
  <2> QED BY <2>1, <2>4, <2>5
<1>5. CASE \E q \in Node : VerifyAck(c, q)
  <2>1. PICK q \in Node : VerifyAck(c, q)  BY <1>5
  <2>2. op'[c].node = n /\ op'[c].pc = "verify" /\ op'[c].readTerm = op[c].readTerm
    BY <1>t, <2>1, AckFields
  <2> QED BY <1>4, <2>1, <2>2
<1>6. CASE \E Q \in Quorum : Apply(c, Q)
  <2>1. op'[c].pc = "respond"  BY <1>6, <1>t, ApplyFields
  <2> QED BY <2>1
<1>7. CASE RequestStep(c)
  <2>r. UNCHANGED raftVars  BY <1>7, RaftAlone
  <2>u. term' = term /\ state' = state /\ commit' = commit /\ log' = log  BY <2>r DEF raftVars
  <2>1. CASE CheckLeader(c)
    <3>1. /\ op[c].pc = "check" /\ state[n] = "Leader"
          /\ op'[c].pc = IF op[c].level = "weak" THEN "local" ELSE "index"
          /\ op'[c].level = op[c].level /\ op'[c].node = n /\ op'[c].acks = op[c].acks
          /\ op'[c].readTerm = op[c].readTerm /\ op'[c].floor = op[c].floor
      BY <1>t, <2>1, MoveFields DEF CheckLeader
    <3>2. Overtaken(c) => Overtaken(c)'  BY <3>1, OvertakenStays
    <3> QED BY <1>p, <2>u, <3>1, <3>2
  <2>2. CASE ReadIndex(c)
    <3>1. /\ op[c].pc = "index"
          /\ op'[c].pc = "verify" /\ op'[c].readIndex = commit[n]
          /\ op'[c].level = op[c].level /\ op'[c].node = n /\ op'[c].acks = op[c].acks
          /\ op'[c].readTerm = op[c].readTerm /\ op'[c].floor = op[c].floor
      BY <1>t, <2>2, MoveFields DEF ReadIndex
    <3>2. Overtaken(c) => Overtaken(c)'  BY <3>1, OvertakenStays
    <3> QED BY <1>p, <2>u, <3>1, <3>2
  <2>3. CASE VerifyLeader(c)
    <3>1. /\ op[c].pc = "verify"
          /\ op'[c].pc = "term" /\ op'[c].readIndex = op[c].readIndex
          /\ op'[c].level = op[c].level /\ op'[c].node = n
          /\ op'[c].readTerm = op[c].readTerm /\ op'[c].floor = op[c].floor
      BY <1>t, <2>3, MoveFields DEF VerifyLeader
    <3>2. PICK Q \in Quorum : Q \subseteq op[c].acks \cup {n}  BY <2>3 DEF VerifyLeader
    <3>3. term[n] = op[c].readTerm => ~Overtaken(c)
      <4> SUFFICES ASSUME term[n] = op[c].readTerm, NEW R \in Quorum, R \cap op[c].acks = {},
                          \A q \in R : term[q] > op[c].readTerm
                   PROVE  FALSE
        BY DEF Overtaken
      <4>1. PICK q \in Q \cap R : TRUE  BY QuorumAssumption
      <4>2. q = n  BY <3>2, <4>1
      <4>3. term[n] > term[n]  BY <4>1, <4>2
      <4> QED BY <1>t, <4>3
    <3> QED BY <1>p, <2>u, <3>1, <3>3
  <2>4. CASE CheckTerm(c)
    <3>1. /\ op[c].pc = "term" /\ term[n] = op[c].readTerm
          /\ op'[c].pc = "wait" /\ op'[c].readIndex = op[c].readIndex
          /\ op'[c].level = op[c].level /\ op'[c].node = n /\ op'[c].floor = op[c].floor
      BY <1>t, <2>4, MoveFields DEF CheckTerm
    <3> QED BY <1>p, <3>1
  <2>5. CASE WaitForFSMIndex(c)
    <3>1. /\ op[c].pc = "wait" /\ op[c].readIndex <= fsmIdx[n] /\ UNCHANGED db
          /\ op'[c].pc = "local"
          /\ op'[c].level = op[c].level /\ op'[c].node = n /\ op'[c].floor = op[c].floor
      BY <1>t, <2>5, MoveFields DEF WaitForFSMIndex, Reached, storeVars
    <3>2. n \in Node /\ fsmIdx[n] \in Nat /\ db[n] \in Nat /\ fsmIdx[n] <= db[n]  BY <1>t, <3>1
    <3>3. op[c].floor <= db[n]  BY <1>p, <1>t, <3>1, <3>2
    <3> QED BY <3>1, <3>3
  <2>6. CASE CheckStrong(c)
    <3>1. op'[c].pc = "apply"  BY <1>t, <2>6, MoveFields
    <3> QED BY <3>1
  <2>7. CASE LocalRead(c) \/ Respond(c) \/ Refuse(c)
    <3>1. op'[c] = NoOp  BY <1>t, <2>7, MoveFields
    <3> QED BY <3>1, NoOpFields
  <2> QED BY <1>7, <2>1, <2>2, <2>3, <2>4, <2>5, <2>6, <2>7 DEF RequestStep
<1>8. CASE op'[c] = NoOp  BY <1>8, NoOpFields
<1> QED BY <1>1, <1>3, <1>5, <1>6, <1>7, <1>8, OpMoves

-----------------------------------------------------------------------------
(***************************************************************************)
(* The theorems.                                                            *)
(***************************************************************************)

\* The invariant holds in every state of the Store: leaders and log as Raft has
\* them, and the position of every request with what it may still rely on.
THEOREM ReadsInvariance == ReadsSpec => []IInv
<1>1. IInv /\ [ReadsNext]_vars => IInv'
  BY TypeStep, LeadersStep, LogStep, SettledStep, RememberStep, StrongStep, EntryStep,
     ProgressStep, ShapeStep DEF IInv
<1> QED BY <1>1, InitIInv, PTL DEF ReadsSpec

\* Store.Query: a read at LINEARIZABLE or STRONG shows every write that was
\* acknowledged, and every state that such a read had shown, before it began.
THEOREM ReadsAreLinearizable == ReadsSpec => []Linearizable
<1>1. IInv => Linearizable
  BY DEF IInv, Linearizable, ReadProgress, EntryWaits
<1> QED BY <1>1, ReadsInvariance, PTL

\* The Store's own state is what Store.Query takes it for, strongReadTerm included.
THEOREM StoreStateIsSound == ReadsSpec => []ReadsInv
<1>1. IInv => ReadsInv
  BY DEF IInv, ReadsInv
<1> QED BY <1>1, ReadsInvariance, PTL
=============================================================================
