---------------------------- MODULE Membership ----------------------------
(***************************************************************************)
(* How the configuration of a cluster changes: Store.Join of a node under  *)
(* the same or another address or identifier, the removal of failing nodes *)
(* in Store.observe, and the removal of a node by itself before it stops   *)
(* (cluster/remove.go).  A join is up to three calls of Raft, between      *)
(* which other joins and removals are committed or the leader changes.     *)
(*                                                                         *)
(* Raft is external: a configuration that only the leader of the current   *)
(* term changes, one committed entry at a time.                            *)
(***************************************************************************)
EXTENDS Naturals, FiniteSets

CONSTANTS
    Proc,               \* processes: a node, at one address, for as long as it runs
    Identity,           \* Identity[p]: its [id, addr, voter]
    Seed,               \* the configuration at the start
    ReapVoters,         \* Store.ReapTimeout is set
    ReapNonvoters,      \* Store.ReapReadOnlyTimeout is set
    RemoveRetries,      \* removeRetries
    MaxLeaders, MaxTimeouts, MaxReaps      \* bounds

Server == [id : {Identity[p].id : p \in Proc} \cup {s.id : s \in Seed},
           addr : {Identity[p].addr : p \in Proc} \cup {s.addr : s \in Seed}, voter : BOOLEAN]

ASSUME MembershipParameters ==
    /\ \A p \in Proc : Identity[p] \in Server
    /\ \E s \in Seed : s.voter
    /\ RemoveRetries \in Nat \ {0}
    /\ MaxLeaders \in Nat /\ MaxTimeouts \in Nat /\ MaxReaps \in Nat

VARIABLES
    servers,        \* the configuration
    leaderTerm,     \* the term of the leader
    proc,           \* each process: how far it has come, and its attempts to be removed
    joins,          \* the calls of Store.Join under way
    failing,        \* the identifiers whose failed heartbeat is observed, not yet handled
    local,          \* the processes whose own copy of the configuration holds them
    dismissed,      \* history: the identifiers somebody asked to remove, or reaped
    orphaned,       \* history: the identifiers of those that did not wait for the answer to a join
    reaps

memberVars == <<servers, leaderTerm, proc, joins, failing, local, dismissed, orphaned, reaps>>

Id(p) == Identity[p].id
Running(p) == proc[p].pc \in {"asking", "member", "leaving", "confirm"}
AnswersFor(s) == \E p \in Proc : Running(p) /\ Id(p) = s.id /\ Identity[p].addr = s.addr
To(p, pc) == proc' = [proc EXCEPT ![p].pc = pc]

MemberInit ==
    /\ servers = Seed /\ leaderTerm = 1
    /\ proc = [p \in Proc |-> [pc |-> "down", tries |-> 0]]
    /\ joins = {} /\ failing = {} /\ local = {} /\ dismissed = {} /\ orphaned = {} /\ reaps = 0

-----------------------------------------------------------------------------
(* Raft.                                                                   *)

\* checkConfiguration: a voter, and no identifier or address twice.
Legal(c) ==
    /\ \E s \in c : s.voter
    /\ \A s, t \in c : s.id = t.id \/ s.addr = t.addr => s = t

Without(c, id) == {s \in c : s.id # id}

\* AddVoter and AddNonvoter keep the suffrage of a voter that is already there.
With(c, new) ==
    Without(c, new.id)
       \cup {[new EXCEPT !.voter = new.voter \/ \E s \in c : s.id = new.id /\ s.voter]}

NewLeader ==
    /\ leaderTerm < MaxLeaders /\ leaderTerm' = leaderTerm + 1
    /\ UNCHANGED <<servers, proc, joins, failing, local, dismissed, orphaned, reaps>>

\* A node learns of the configuration; the one that leaves it perhaps never does.
Hear(p) ==
    /\ Running(p)
    /\ local' = IF \E s \in servers : s.id = Id(p) THEN local \cup {p} ELSE local \ {p}
    /\ local' # local
    /\ UNCHANGED <<servers, leaderTerm, proc, joins, failing, dismissed, orphaned, reaps>>

-----------------------------------------------------------------------------
(* Joining.                                                                *)

\* The process starts, when no other with its identifier or its address runs.
StartProcess(p) ==
    /\ proc[p].pc = "down"
    /\ \A q \in Proc : Running(q) => Id(q) # Id(p) /\ Identity[q].addr # Identity[p].addr
    /\ To(p, "asking")
    /\ UNCHANGED <<servers, leaderTerm, joins, failing, local, dismissed, orphaned, reaps>>

Waiting(p) == \E j \in joins : j.p = p /\ j.waited

Conflicts(p) ==
    {s \in servers : s.id = Id(p) \/ s.addr = Identity[p].addr}

\* Join reads the configuration.  A member under this identifier at this address
\* needs no join, whatever its suffrage; otherwise each server with either is a
\* reason to remove the identifier first.
JoinBegin(p) ==
    /\ proc[p].pc = "asking" /\ ~Waiting(p)
    /\ IF \E s \in servers : s.id = Id(p) /\ s.addr = Identity[p].addr
       THEN To(p, "member") /\ UNCHANGED joins
       ELSE /\ joins' = joins \cup
                  {[p |-> p, term |-> leaderTerm, removals |-> Cardinality(Conflicts(p)), waited |-> TRUE]}
            /\ UNCHANGED proc
    /\ UNCHANGED <<servers, leaderTerm, failing, local, dismissed, orphaned, reaps>>

\* remove(id).
Removed(id) ==
    servers' = Without(servers, id)

JoinRemove(j) ==
    /\ j.removals > 0 /\ j.term = leaderTerm /\ Legal(Without(servers, Id(j.p)))
    /\ Removed(Id(j.p))
    /\ joins' = (joins \ {j}) \cup {[j EXCEPT !.removals = @ - 1]}
    /\ UNCHANGED <<leaderTerm, proc, failing, local, dismissed, orphaned, reaps>>

JoinAdd(j) ==
    /\ j.removals = 0 /\ j.term = leaderTerm /\ Legal(With(servers, Identity[j.p]))
    /\ servers' = With(servers, Identity[j.p])
    /\ joins' = joins \ {j}
    /\ IF j.waited THEN To(j.p, "member") ELSE UNCHANGED proc
    /\ UNCHANGED <<leaderTerm, failing, local, dismissed, orphaned, reaps>>

\* Mutant: the error is not sent to the joining node, which waits for it.
RejoinFails_NoAnswer(j) ==
    /\ \/ j.term # leaderTerm
       \/ ~Legal(IF j.removals > 0 THEN Without(servers, Id(j.p)) ELSE With(servers, Identity[j.p]))
    /\ joins' = (joins \ {j}) \cup {[j EXCEPT !.term = 0]}
    /\ UNCHANGED <<servers, leaderTerm, proc, failing, local, dismissed, orphaned, reaps>>

\* The leader has changed, or Raft refuses the configuration: the joining node
\* gets an error, and asks again.
RejoinFails(j) ==
    /\ \/ j.term # leaderTerm
       \/ ~Legal(IF j.removals > 0 THEN Without(servers, Id(j.p)) ELSE With(servers, Identity[j.p]))
    /\ joins' = joins \ {j}
    /\ UNCHANGED <<servers, leaderTerm, proc, failing, local, dismissed, orphaned, reaps>>

\* The client's read times out, while the call goes on at the leader.
JoinTimeout(j) ==
    /\ j.waited /\ Cardinality(orphaned) < MaxTimeouts
    /\ joins' = (joins \ {j}) \cup {[j EXCEPT !.waited = FALSE]}
    /\ orphaned' = orphaned \cup {Id(j.p)}
    /\ UNCHANGED <<servers, leaderTerm, proc, failing, local, dismissed, reaps>>

-----------------------------------------------------------------------------
(* Failing nodes.                                                          *)

\* The process dies; the join it waits for goes on.
Die(p) ==
    /\ Running(p)
    /\ proc' = [proc EXCEPT ![p] = [pc |-> "dead", tries |-> 0]]
    /\ local' = local \ {p}
    /\ joins' = {IF j.p = p THEN [j EXCEPT !.waited = FALSE] ELSE j : j \in joins}
    /\ orphaned' = IF Waiting(p) THEN orphaned \cup {Id(p)} ELSE orphaned
    /\ UNCHANGED <<servers, leaderTerm, failing, dismissed, reaps>>

FailedHeartbeat(s) ==
    /\ s \in servers \ Seed /\ ~AnswersFor(s) /\ s.id \notin failing /\ reaps < MaxReaps
    /\ failing' = failing \cup {s.id} /\ reaps' = reaps + 1
    /\ UNCHANGED <<servers, leaderTerm, proc, joins, local, dismissed, orphaned>>

IsReadOnly(id) == \E s \in servers : s.id = id /\ ~s.voter
Contains(id) == \E s \in servers : s.id = id

\* The timeout that applies is the one for the node's suffrage when the
\* observation is handled; the node may be back by then.
MayReap(id) ==
    Contains(id) /\ IF IsReadOnly(id) THEN ReapNonvoters ELSE ReapVoters

\* observe handles an observation of failing heartbeats.
Reap(id) ==
    /\ id \in failing /\ failing' = failing \ {id}
    /\ \/ /\ MayReap(id) /\ Legal(Without(servers, id))
          /\ Removed(id) /\ dismissed' = dismissed \cup {id}
       \/ UNCHANGED <<servers, dismissed>>
    /\ UNCHANGED <<leaderTerm, proc, joins, local, orphaned, reaps>>

-----------------------------------------------------------------------------
(* Leaving: Remover.Do.                                                    *)

Leave(p) ==
    /\ proc[p].pc = "member"
    /\ To(p, "leaving")
    /\ dismissed' = dismissed \cup {Id(p)}
    /\ UNCHANGED <<servers, leaderTerm, joins, failing, local, orphaned, reaps>>

\* RemoveNode at the leader.
RemoveOK(p) ==
    /\ proc[p].pc = "leaving" /\ Legal(Without(servers, Id(p)))
    /\ Removed(Id(p))
    /\ To(p, "confirm")
    /\ UNCHANGED <<leaderTerm, joins, failing, local, dismissed, orphaned, reaps>>

\* Mutant: a failure to remove is not reported to main.
RemoveFails_Ignored(p) ==
    /\ proc[p].pc = "leaving"
    /\ proc' = [proc EXCEPT ![p].tries = @ + 1,
                            ![p].pc = IF proc[p].tries + 1 = RemoveRetries THEN "confirm" ELSE @]
    /\ UNCHANGED servers
    /\ UNCHANGED <<leaderTerm, joins, failing, local, dismissed, orphaned, reaps>>

\* No leader, or an error, perhaps after the removal was committed.
RemoveFails(p) ==
    /\ proc[p].pc = "leaving"
    /\ proc' = [proc EXCEPT ![p].tries = @ + 1,
                            ![p].pc = IF proc[p].tries + 1 = RemoveRetries THEN "fatal" ELSE @]
    /\ \/ Legal(Without(servers, Id(p))) /\ Removed(Id(p))
       \/ UNCHANGED servers
    /\ UNCHANGED <<leaderTerm, joins, failing, local, dismissed, orphaned, reaps>>

\* WaitForRemoval: the node's own configuration no longer holds it.
Confirmed(p) ==
    /\ proc[p].pc = "confirm" /\ p \notin local
    /\ To(p, "left")
    /\ UNCHANGED <<servers, leaderTerm, joins, failing, local, dismissed, orphaned, reaps>>

\* The wait times out: log.Fatalf.
NotConfirmed(p) ==
    /\ proc[p].pc = "confirm" /\ p \in local
    /\ To(p, "fatal")
    /\ UNCHANGED <<servers, leaderTerm, joins, failing, local, dismissed, orphaned, reaps>>

LeaveStep(p) == RemoveOK(p) \/ RemoveFails(p) \/ Confirmed(p) \/ NotConfirmed(p)
JoinStep(j) == JoinRemove(j) \/ JoinAdd(j) \/ RejoinFails(j)

MemberNext ==
    \/ NewLeader
    \/ \E p \in Proc : StartProcess(p) \/ Hear(p) \/ JoinBegin(p) \/ Die(p) \/ Leave(p) \/ LeaveStep(p)
    \/ \E j \in joins : JoinStep(j) \/ JoinTimeout(j)
    \/ \E s \in servers : FailedHeartbeat(s)
    \/ \E id \in failing : Reap(id)

\* A node asks until it is answered; the leader carries out what it has begun.
MemberFairness ==
    \A p \in Proc : /\ WF_memberVars(JoinBegin(p)) /\ WF_memberVars(LeaveStep(p))
                    /\ WF_memberVars(\E j \in joins : j.p = p /\ JoinStep(j))

MemberSpec == MemberInit /\ [][MemberNext]_memberVars /\ MemberFairness

-----------------------------------------------------------------------------
(***************************************************************************)
(* Properties.                                                             *)
(***************************************************************************)
\* A node whose join was answered with success is in the configuration at its
\* address, through every later join, removal and change of leader, until
\* somebody asks for its removal or it is reaped - unless an earlier request under
\* its identifier is still being carried out, whose answer nobody waits for.
MemberStays ==
    \A p \in Proc : proc[p].pc = "member" =>
       \/ \E s \in servers : s.id = Id(p) /\ s.addr = Identity[p].addr
       \/ Id(p) \in dismissed \cup orphaned

\* A node that stopped after it was removed is out of the configuration, and stays
\* out until it is started again - unless a join of its own outlived it.
RemovedStaysOut ==
    \A p \in Proc : proc[p].pc = "left" =>
       \/ \A s \in servers : s.id # Id(p)
       \/ \E q \in Proc : Id(q) = Id(p) /\ proc[q].pc \notin {"down", "left"}
       \/ Id(p) \in orphaned

\* The configuration holds who was let in and not who was let go (Store.Join,
\* Store.Remove, observe), whatever calls overlap and leaders change.
MembershipIsAsAsked == MemberStays /\ RemovedStaysOut

\* A node that keeps asking is answered, however the calls interleave - unless its
\* address is that of another member, which Join does not remove (it removes the
\* identifier of the node that asks), or without it there is no voter.
Rejoins ==
    \A p \in Proc :
       proc[p].pc = "asking" ~>
          (\/ proc[p].pc # "asking"
           \/ \E s \in servers : s.addr = Identity[p].addr /\ s.id # Id(p))
=============================================================================
