------------------------------- MODULE Queue -------------------------------
(***************************************************************************)
(* The batching queue (queue/queue.go): Write, the goroutine that batches, *)
(* Flush and Close.  An element is its sequence number, counted from 1.    *)
(***************************************************************************)
EXTENDS Integers, Sequences, FiniteSets

CONSTANTS
    Writers,        \* goroutines that call Write
    MaxSize,        \* capacity of batchCh
    BatchSize,
    MaxWrites       \* bound: calls of Write

ASSUME QueueParameters ==
    /\ MaxSize \in Nat \ {0} /\ BatchSize \in Nat \ {0} /\ MaxWrites \in Nat

Nobody == "nobody"
ASSUME NobodyIsNoWriter == Nobody \notin Writers

VARIABLES
    seqNum, seqMu,  \* the last sequence number given out; who holds the mutex
    writer,         \* per writer, where in Write it is
    batchCh,        \* buffered channel of elements
    queued,         \* queuedStmts
    timer,          \* the timer is running, or has fired and not been read
    sendCh,         \* the request in the one-place channel; << >> when empty
    run,            \* where the goroutine is
    done,           \* Close has closed the done channel
    in, out         \* history: elements accepted by batchCh, received from C

queueVars == <<seqNum, seqMu, writer, batchCh, queued, timer, sendCh, run, done, in, out>>

QueueTypeOK ==
    /\ seqNum \in Nat
    /\ seqMu \in Writers \cup {Nobody}
    /\ writer \in [Writers -> {"idle", "checked", "locked"}]
    /\ batchCh \in Seq(Nat) /\ Len(batchCh) <= MaxSize
    /\ queued \in Seq(Nat) /\ Len(queued) <= BatchSize
    /\ timer \in BOOLEAN
    /\ sendCh \in Seq(Nat)
    /\ run \in {"select", "send", "exited"}
    /\ done \in BOOLEAN
    /\ in \in Seq(Nat) /\ out \in Seq(Nat)

QueueInit ==
    /\ seqNum = 0 /\ seqMu = Nobody
    /\ writer = [w \in Writers |-> "idle"]
    /\ batchCh = << >> /\ queued = << >> /\ timer = FALSE /\ sendCh = << >>
    /\ run = "select" /\ done = FALSE
    /\ in = << >> /\ out = << >>

----------------------------------------------------------------------------
(* Write: the check of done, the lock, the blocking send.                  *)

WriteCheck(w) ==
    /\ writer[w] = "idle" /\ ~done
    /\ seqNum + Cardinality({v \in Writers : writer[v] = "checked"}) < MaxWrites
    /\ writer' = [writer EXCEPT ![w] = "checked"]
    /\ UNCHANGED <<seqNum, seqMu, batchCh, queued, timer, sendCh, run, done, in, out>>

\* Mutant: a sequence number is taken without the lock.
WriteLock_Unlocked(w) ==
    /\ writer[w] = "checked"
    /\ seqNum' = seqNum + 1
    /\ writer' = [writer EXCEPT ![w] = "locked"]
    /\ UNCHANGED <<seqMu, batchCh, queued, timer, sendCh, run, done, in, out>>

WriteLock(w) ==
    /\ writer[w] = "checked" /\ seqMu = Nobody
    /\ seqMu' = w
    /\ seqNum' = seqNum + 1
    /\ writer' = [writer EXCEPT ![w] = "locked"]
    /\ UNCHANGED <<batchCh, queued, timer, sendCh, run, done, in, out>>

WriteSend(w) ==
    /\ writer[w] = "locked" /\ Len(batchCh) < MaxSize
    /\ batchCh' = Append(batchCh, seqNum)
    /\ in' = Append(in, seqNum)
    /\ seqMu' = Nobody
    /\ writer' = [writer EXCEPT ![w] = "idle"]
    /\ UNCHANGED <<seqNum, queued, timer, sendCh, run, done, out>>

----------------------------------------------------------------------------
(* run(), one action per case of its select, and writeFn.                  *)

\* The first element of a batch starts the timer; the last one stops it.
RunBatch ==
    /\ run = "select" /\ batchCh # << >>
    /\ queued' = Append(queued, Head(batchCh))
    /\ batchCh' = Tail(batchCh)
    /\ timer' = (Len(queued) + 1 # BatchSize)
    /\ run' = IF Len(queued) + 1 = BatchSize THEN "send" ELSE "select"
    /\ UNCHANGED <<seqNum, seqMu, writer, sendCh, done, in, out>>

WriteFn == run' = IF queued = << >> THEN "select" ELSE "send"

\* Mutant: the timer's tick is read and nothing is written.
RunTimeout_Ignored ==
    /\ run = "select" /\ timer
    /\ timer' = FALSE
    /\ UNCHANGED <<seqNum, seqMu, writer, batchCh, queued, sendCh, run, done, in, out>>

RunTimeout ==
    /\ run = "select" /\ timer
    /\ timer' = FALSE
    /\ WriteFn
    /\ UNCHANGED <<seqNum, seqMu, writer, batchCh, queued, sendCh, done, in, out>>

\* Flush meets the goroutine at its select.
RunFlush ==
    /\ run = "select"
    /\ timer' = FALSE
    /\ WriteFn
    /\ UNCHANGED <<seqNum, seqMu, writer, batchCh, queued, sendCh, done, in, out>>

\* Mutant: the batch stays in queuedStmts after it has been sent.
RunSend_Kept ==
    /\ run = "send" /\ sendCh = << >>
    /\ sendCh' = queued
    /\ run' = "select"
    /\ UNCHANGED <<seqNum, seqMu, writer, batchCh, queued, timer, done, in, out>>

\* The merged request goes into sendCh, which has room for one.
RunSend ==
    /\ run = "send" /\ sendCh = << >>
    /\ sendCh' = queued
    /\ queued' = << >>
    /\ run' = "select"
    /\ UNCHANGED <<seqNum, seqMu, writer, batchCh, timer, done, in, out>>

\* Whatever is in queuedStmts and in batchCh is dropped.
RunDone ==
    /\ run = "select" /\ done
    /\ timer' = FALSE
    /\ run' = "exited"
    /\ UNCHANGED <<seqNum, seqMu, writer, batchCh, queued, sendCh, done, in, out>>

Run == RunBatch \/ RunTimeout \/ RunSend \/ RunDone

\* The consumer receives a request from C.
Receive ==
    /\ sendCh # << >>
    /\ out' = out \o sendCh
    /\ sendCh' = << >>
    /\ UNCHANGED <<seqNum, seqMu, writer, batchCh, queued, timer, run, done, in>>

\* Close returns when the goroutine has exited.
CloseDone ==
    /\ ~done
    /\ done' = TRUE
    /\ UNCHANGED <<seqNum, seqMu, writer, batchCh, queued, timer, sendCh, run, in, out>>

Closed == done /\ run = "exited"

QueueNext ==
    \/ \E w \in Writers : WriteCheck(w) \/ WriteLock(w) \/ WriteSend(w)
    \/ Run \/ RunFlush \/ Receive \/ CloseDone

QueueSpec == QueueInit /\ [][QueueNext]_queueVars

----------------------------------------------------------------------------
Holder(w) == writer[w] = "locked"

\* The mutex covers the number and the send: one writer at a time is between
\* them, its number is the next that batchCh will take, and no number is skipped.
SeqLock ==
    /\ \A w \in Writers : Holder(w) <=> seqMu = w
    /\ Len(in) = IF seqMu = Nobody THEN seqNum ELSE seqNum - 1

\* Everything accepted is, in order and once, either received or on its way.
InOrder ==
    /\ in = [i \in 1..Len(in) |-> i]
    /\ in = out \o sendCh \o queued \o batchCh

\* A batch that waits has a timer running that will send it, and the goroutine
\* never waits to send an empty batch.
BatchHasTimer ==
    /\ run = "select" /\ queued # << >> => timer
    /\ run = "send" => queued # << >>
    /\ run = "select" => Len(queued) < BatchSize

\* Write, run and Close keep the queue in order, whoever writes, flushes and
\* closes it: the mutex, the order of the elements, and the timer, together.
QueueInv == QueueTypeOK /\ SeqLock /\ InOrder /\ BatchHasTimer

Fifo == INSTANCE BatchedFifo

\* The queue is the batched FIFO that the comment of Write promises: elements are
\* transmitted once, in the order of the numbers that Write returned.
RefinesFifo == Fifo!Spec
============================================================================
