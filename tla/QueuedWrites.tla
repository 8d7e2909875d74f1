---------------------------- MODULE QueuedWrites ----------------------------
(***************************************************************************)
(* Queued writes of the HTTP service (http/service.go): the handlers that  *)
(* put statements into the Queue, the goroutine runQueue that executes     *)
(* them on this node or on the leader, and Close.                          *)
(***************************************************************************)
EXTENDS Queue

CONSTANT MaxFailures    \* bound: attempts of runQueue that fail

ASSUME FailureBound == MaxFailures \in Nat

VARIABLES
    handler,    \* per handler: its stage, and the request's parameters
    nils,       \* history: elements written without a statement
    rq, req,    \* runQueue: where it is, and the request it works on
    applied,    \* the elements in the order in which the cluster applied what
                \* statements they have
    orphans,    \* requests given up on that may still reach the leader's log
    flushed,    \* elements whose flush channel is closed
    waited,     \* history: elements acknowledged to a client that waited
    doneSeq,    \* Service.seqNum
    shut,       \* how far Service.Close has come
    failures

serviceVars == <<handler, nils, rq, req, applied, orphans, flushed, waited, doneSeq, shut, failures>>
allVars == <<queueVars, serviceVars>>

NoRequest == [pc |-> "idle", wait |-> FALSE, nil |-> FALSE, seq |-> 0]
Element == 1..MaxWrites
Members(s) == {s[i] : i \in DOMAIN s}
HasStatements(s) == \E i \in DOMAIN s : s[i] \notin nils

WritesInit ==
    /\ QueueInit
    /\ handler = [w \in Writers |-> NoRequest]
    /\ nils = {} /\ rq = "select" /\ req = << >>
    /\ applied = << >> /\ orphans = {} /\ flushed = {} /\ waited = {}
    /\ doneSeq = 0 /\ shut = "up" /\ failures = 0

----------------------------------------------------------------------------
(* queuedExecute.                                                          *)

\* A request without statements is let through, as a checkpoint of the queue.
QueuedExecute(w, wait, nil) ==
    /\ shut = "up" /\ handler[w].pc = "idle"
    /\ WriteCheck(w)
    /\ handler' = [handler EXCEPT ![w] = [pc |-> "writing", wait |-> wait, nil |-> nil, seq |-> 0]]
    /\ UNCHANGED <<nils, rq, req, applied, orphans, flushed, waited, doneSeq, shut, failures>>

QueuedLock(w) == WriteLock(w) /\ UNCHANGED serviceVars

QueuedSend(w) ==
    /\ WriteSend(w)
    /\ nils' = IF handler[w].nil THEN nils \cup {seqNum} ELSE nils
    /\ handler' = [handler EXCEPT ![w] =
            IF handler[w].wait THEN [handler[w] EXCEPT !.pc = "waiting", !.seq = seqNum]
                               ELSE NoRequest]
    /\ UNCHANGED <<rq, req, applied, orphans, flushed, waited, doneSeq, shut, failures>>

\* The flush channel is closed, or the wait times out.
WaitEnds(w) ==
    /\ handler[w].pc = "waiting"
    /\ waited' = IF handler[w].seq \in flushed THEN waited \cup {handler[w].seq} ELSE waited
    /\ handler' = [handler EXCEPT ![w] = NoRequest]
    /\ UNCHANGED <<queueVars, nils, rq, req, applied, orphans, flushed, doneSeq, shut, failures>>

----------------------------------------------------------------------------
(* runQueue.                                                               *)

RqReceive ==
    /\ rq = "select"
    /\ Receive
    /\ req' = sendCh
    /\ rq' = IF HasStatements(sendCh) THEN "exec" ELSE "post"
    /\ UNCHANGED <<handler, nils, applied, orphans, flushed, waited, doneSeq, shut, failures>>

RqTo(pc) == rq' = pc /\ UNCHANGED <<queueVars, handler, nils, req, flushed, waited, doneSeq, shut>>

Apply == applied' = applied \o req

\* Mutant: whatever the error, the request counts as processed.
ExecuteFailed_Dropped ==
    /\ rq = "exec" /\ failures < MaxFailures
    /\ failures' = failures + 1
    /\ RqTo("post")
    /\ UNCHANGED <<applied, orphans>>

\* store.Execute fails: the entry may be in the log all the same, when
\* leadership was lost while it was being committed.  The loop tries again.
ExecuteFailed ==
    /\ rq = "exec" /\ failures < MaxFailures
    /\ failures' = failures + 1
    /\ RqTo("exec")
    /\ Apply \/ UNCHANGED applied
    /\ UNCHANGED orphans

ExecuteOK == rq = "exec" /\ Apply /\ RqTo("post") /\ UNCHANGED <<orphans, failures>>

ExecuteNotLeader == rq = "exec" /\ RqTo("remote") /\ UNCHANGED <<applied, orphans, failures>>

RemoteOK == rq = "remote" /\ Apply /\ RqTo("post") /\ UNCHANGED <<orphans, failures>>

\* Mutant: the leader is told, and its answer is not waited for.
RemoteFailed_TakenAsDone ==
    /\ rq = "remote" /\ failures < MaxFailures
    /\ failures' = failures + 1
    /\ RqTo("post")
    /\ orphans' = orphans \cup {req}
    /\ UNCHANGED applied

\* There is no leader to be found, or cluster.Execute fails: before the leader
\* got the request, after it applied it, or while the request is still on its way.
RemoteFailed ==
    /\ rq = "remote" /\ failures < MaxFailures
    /\ failures' = failures + 1
    /\ RqTo("exec")
    /\ \/ UNCHANGED <<applied, orphans>>
       \/ Apply /\ UNCHANGED orphans
       \/ orphans' = orphans \cup {req} /\ UNCHANGED applied

LateApply ==
    \E b \in orphans :
        /\ applied' = applied \o b
        /\ orphans' = orphans \ {b}
        /\ UNCHANGED <<queueVars, handler, nils, rq, req, flushed, waited, doneSeq, shut, failures>>

\* The request's number is that of its last element; Close closes the flush
\* channels of all of them.
RqPost ==
    /\ rq = "post"
    /\ doneSeq' = req[Len(req)]
    /\ flushed' = flushed \cup Members(req)
    /\ req' = << >> /\ rq' = "select"
    /\ UNCHANGED <<queueVars, handler, nils, applied, orphans, waited, shut, failures>>

\* Mutant: the retry loop gives up when the service is being closed.
RqExit_MidRequest ==
    /\ rq # "exited" /\ shut \in {"shutdown", "closing", "stopping"}
    /\ rq' = "exited"
    /\ UNCHANGED <<queueVars, handler, nils, req, applied, orphans, flushed, waited, doneSeq, shut, failures>>

\* closeCh is looked at only between requests.
RqExit ==
    /\ rq = "select" /\ shut = "stopping"
    /\ rq' = "exited"
    /\ UNCHANGED <<queueVars, handler, nils, req, applied, orphans, flushed, waited, doneSeq, shut, failures>>

RunQueue ==
    \/ RqReceive \/ ExecuteOK \/ ExecuteNotLeader \/ ExecuteFailed
    \/ RemoteOK \/ RemoteFailed \/ RqPost \/ RqExit

----------------------------------------------------------------------------
(* Close: Shutdown waits for the handlers, then the queue is closed, then  *)
(* runQueue is told to stop.                                               *)

Shutdown ==
    /\ shut = "up" /\ shut' = "shutdown"
    /\ UNCHANGED <<queueVars, handler, nils, rq, req, applied, orphans, flushed, waited, doneSeq, failures>>

CloseQueue ==
    /\ shut = "shutdown" /\ \A w \in Writers : handler[w].pc = "idle"
    /\ shut' = "closing"
    /\ CloseDone
    /\ UNCHANGED <<handler, nils, rq, req, applied, orphans, flushed, waited, doneSeq, failures>>

CloseChannel ==
    /\ shut = "closing" /\ Closed /\ shut' = "stopping"
    /\ UNCHANGED <<queueVars, handler, nils, rq, req, applied, orphans, flushed, waited, doneSeq, failures>>

CloseReturn ==
    /\ shut = "stopping" /\ rq = "exited" /\ shut' = "closed"
    /\ UNCHANGED <<queueVars, handler, nils, rq, req, applied, orphans, flushed, waited, doneSeq, failures>>

Close == CloseQueue \/ CloseChannel \/ CloseReturn

RunBatching == Run /\ UNCHANGED serviceVars

WritesNext ==
    \/ \E w \in Writers :
          \/ \E wait, nil \in BOOLEAN : QueuedExecute(w, wait, nil)
          \/ QueuedLock(w) \/ QueuedSend(w) \/ WaitEnds(w)
    \/ RunBatching \/ RunQueue \/ LateApply
    \/ Shutdown \/ Close

WritesSpec == WritesInit /\ [][WritesNext]_allVars

\* Goroutines run, timers fire, and the cluster does not fail for ever: of the
\* outcomes of an attempt only MaxFailures are errors.
FairWritesSpec ==
    /\ WritesSpec
    /\ \A w \in Writers : WF_allVars(QueuedLock(w)) /\ WF_allVars(QueuedSend(w)) /\ WF_allVars(WaitEnds(w))
    /\ WF_allVars(RunBatch /\ UNCHANGED serviceVars)
    /\ WF_allVars(RunTimeout /\ UNCHANGED serviceVars)
    /\ WF_allVars(RunSend /\ UNCHANGED serviceVars)
    /\ SF_allVars(RunDone /\ UNCHANGED serviceVars)
    /\ WF_allVars(RunQueue) /\ SF_allVars(RqExit)
    /\ WF_allVars(Close)

----------------------------------------------------------------------------
\* A client that asked to wait and is told so has its statements applied, and
\* with them every statement that was queued before.
WaitedIsApplied ==
    \A n \in waited : \A m \in 1..n : m \in nils \/ m \in Members(applied)

\* Until the queue is closed no accepted statement is lost.
NothingLost ==
    ~done => \A n \in Members(in) \ nils :
        n \in Members(applied) \cup Members(req) \cup Members(sendCh)
              \cup Members(queued) \cup Members(batchCh)

\* However often requests are retried, forwarded or applied late, no statement
\* is applied for the first time before one with a lower sequence number, and
\* until the queue is closed none is lost.
FirstInOrder ==
    /\ \A i \in DOMAIN applied : \A m \in 1..applied[i] :
         m \in nils \/ \E j \in 1..i : applied[j] = m
    /\ NothingLost

\* An accepted statement is applied, unless the service is shut down first.
AcceptedIsApplied ==
    \A n \in Element : (n \in Members(in) \ nils) ~> (n \in Members(applied) \/ shut # "up")

\* Service.Close returns.
ShutdownEnds == shut = "shutdown" ~> shut = "closed"
=============================================================================
