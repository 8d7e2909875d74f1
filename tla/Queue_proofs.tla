---------------------------- MODULE Queue_proofs ----------------------------
(***************************************************************************)
(* The Queue, for any number of writers and any capacity and batch size:   *)
(* its mutex, the order of what it transmits, and that it implements       *)
(* BatchedFifo; the writes queued with it, for any number of clients and   *)
(* failed attempts; and change data capture, which queues its events with  *)
(* it: the endpoint gets events once and in order, and the high watermark  *)
(* stays behind what is still to be posted.                                *)
(***************************************************************************)
EXTENDS Cdc, QueuedWrites, SequenceTheorems, FiniteSetTheorems, TLAPS

----------------------------------------------------------------------------
(* Sequences.                                                              *)

\* Concatenation is associative.
LEMMA Assoc == \A s, t, u \in Seq(Nat) : (s \o t) \o u = s \o (t \o u)
BY ConcatAssociative

\* Moving the head of the second sequence to the end of the first.
LEMMA Shift ==
    ASSUME NEW s \in Seq(Nat), NEW t \in Seq(Nat), t # << >>
    PROVE  Append(s, Head(t)) \o Tail(t) = s \o t
<1>1. Head(t) \in Nat /\ Tail(t) \in Seq(Nat)
  BY HeadTailProperties
<1>2. Append(s, Head(t)) = s \o <<Head(t)>>
  BY <1>1, AppendIsConcat
<1>3. <<Head(t)>> \in Seq(Nat)
  BY <1>1
<1>4. <<Head(t)>> \o Tail(t) = t
  OBVIOUS
<1>5. (s \o <<Head(t)>>) \o Tail(t) = s \o (<<Head(t)>> \o Tail(t))
  BY <1>1, <1>3, Assoc, Zenon
<1> QED BY <1>2, <1>4, <1>5, Zenon

\* Appending to the last of two sequences.
LEMMA AppendLast ==
    ASSUME NEW s \in Seq(Nat), NEW t \in Seq(Nat), NEW e \in Nat
    PROVE  s \o Append(t, e) = Append(s \o t, e)
<1>1. <<e>> \in Seq(Nat) /\ s \o t \in Seq(Nat)
  BY ConcatProperties
<1> QED BY <1>1, AppendIsConcat, ConcatAssociative

\* Appending makes a sequence longer by one.
LEMMA AppendLonger ==
    ASSUME NEW s \in Seq(Nat), NEW e \in Nat
    PROVE  Append(s, e) # << >> /\ Len(Append(s, e)) = Len(s) + 1
BY AppendProperties

----------------------------------------------------------------------------
(* The inductive invariant.  InOrder needs SeqLock: only because the mutex *)
(* is held from the number to the send is the next element the next number.*)

\* A new queue.
LEMMA QueueInitInv == QueueInit => QueueInv
<1> SUFFICES ASSUME QueueInit PROVE QueueInv
  OBVIOUS
<1> USE QueueParameters, NobodyIsNoWriter DEF QueueInit
<1>1. QueueTypeOK
  <2>1. timer \in BOOLEAN /\ done \in BOOLEAN  BY Zenon
  <2> QED BY <2>1 DEF QueueTypeOK
<1>2. SeqLock
  BY DEF SeqLock, Holder
<1>3. InOrder
  <2>1. in = out \o sendCh \o queued \o batchCh
    OBVIOUS
  <2>2. in = [i \in 1..Len(in) |-> i]
    OBVIOUS
  <2> QED BY <2>1, <2>2 DEF InOrder
<1>4. BatchHasTimer
  BY DEF BatchHasTimer
<1> QED BY <1>1, <1>2, <1>3, <1>4 DEF QueueInv

\* Types, one action at a time.
LEMMA QueueTypeStep == QueueInv /\ [QueueNext]_queueVars => QueueTypeOK'
<1> SUFFICES ASSUME QueueInv, [QueueNext]_queueVars PROVE QueueTypeOK'
  OBVIOUS
<1> USE QueueParameters DEF QueueInv
<1>1. ASSUME NEW w \in Writers, WriteCheck(w) \/ WriteLock(w) PROVE QueueTypeOK'
  <2>1. CASE WriteCheck(w)
    BY <2>1 DEF QueueTypeOK, WriteCheck
  <2>2. CASE WriteLock(w)
    BY <2>2 DEF QueueTypeOK, WriteLock
  <2> QED BY <1>1, <2>1, <2>2
<1>2. ASSUME NEW w \in Writers, WriteSend(w) PROVE QueueTypeOK'
  BY <1>2, AppendProperties DEF QueueTypeOK, WriteSend
<1>3. CASE RunBatch
  <2>1. Head(batchCh) \in Nat /\ Tail(batchCh) \in Seq(Nat) /\ Len(Tail(batchCh)) = Len(batchCh) - 1
    BY <1>3, HeadTailProperties DEF RunBatch, QueueTypeOK
  <2>2. Append(queued, Head(batchCh)) \in Seq(Nat)
        /\ Len(Append(queued, Head(batchCh))) = Len(queued) + 1
    BY <2>1, AppendProperties DEF QueueTypeOK
  <2>3. Len(queued) < BatchSize
    BY <1>3 DEF RunBatch, BatchHasTimer
  <2> QED BY <1>3, <2>1, <2>2, <2>3 DEF RunBatch, QueueTypeOK
<1>4. CASE RunTimeout \/ RunFlush
  BY <1>4 DEF QueueTypeOK, RunTimeout, RunFlush, WriteFn
<1>5. CASE RunSend
  BY <1>5 DEF QueueTypeOK, RunSend
<1>6. CASE RunDone
  BY <1>6 DEF QueueTypeOK, RunDone
<1>7. CASE Receive
  BY <1>7, ConcatProperties DEF QueueTypeOK, Receive
<1>8. CASE CloseDone
  BY <1>8 DEF QueueTypeOK, CloseDone
<1>9. CASE UNCHANGED queueVars
  BY <1>9 DEF QueueTypeOK, queueVars
<1> QED BY <1>1, <1>2, <1>3, <1>4, <1>5, <1>6, <1>7, <1>8, <1>9 DEF QueueNext, Run

\* The mutex, one action at a time.
LEMMA SeqLockStep == QueueInv /\ [QueueNext]_queueVars => SeqLock'
<1> SUFFICES ASSUME QueueInv, [QueueNext]_queueVars PROVE SeqLock'
  OBVIOUS
<1> USE NobodyIsNoWriter DEF QueueInv, Holder
<1>1. ASSUME NEW w \in Writers, WriteCheck(w) PROVE SeqLock'
  BY <1>1 DEF QueueTypeOK, WriteCheck, SeqLock
<1>2. ASSUME NEW w \in Writers, WriteLock(w) PROVE SeqLock'
  BY <1>2 DEF QueueTypeOK, WriteLock, SeqLock
<1>3. ASSUME NEW w \in Writers, WriteSend(w) PROVE SeqLock'
  <2>1. seqMu = w /\ Len(in) = seqNum - 1
    BY <1>3 DEF WriteSend, SeqLock
  <2>2. Len(in') = seqNum
    BY <1>3, <2>1, AppendProperties DEF WriteSend, QueueTypeOK
  <2> QED BY <1>3, <2>1, <2>2 DEF WriteSend, SeqLock, QueueTypeOK
<1>4. CASE Run \/ RunFlush \/ Receive \/ CloseDone \/ UNCHANGED queueVars
  <2>1. UNCHANGED <<seqNum, seqMu, writer, in>>
    BY <1>4 DEF Run, RunBatch, RunTimeout, RunSend, RunDone, RunFlush, Receive, CloseDone, queueVars
  <2> QED BY <2>1 DEF SeqLock
<1> QED BY <1>1, <1>2, <1>3, <1>4 DEF QueueNext

\* The order, one action at a time.
LEMMA InOrderStep == QueueInv /\ [QueueNext]_queueVars => InOrder'
<1> SUFFICES ASSUME QueueInv, [QueueNext]_queueVars PROVE InOrder'
  OBVIOUS
<1>0. /\ out \in Seq(Nat) /\ sendCh \in Seq(Nat) /\ queued \in Seq(Nat)
      /\ batchCh \in Seq(Nat) /\ in \in Seq(Nat)
      /\ out \o sendCh \in Seq(Nat) /\ out \o sendCh \o queued \in Seq(Nat)
  BY ConcatProperties DEF QueueInv, QueueTypeOK
<1>1. ASSUME NEW w \in Writers, WriteSend(w) PROVE InOrder'
  <2>1. seqNum \in Nat /\ seqNum = Len(in) + 1
    BY <1>1, NobodyIsNoWriter DEF WriteSend, QueueInv, SeqLock, Holder, QueueTypeOK
  <2>2. Append(in, seqNum) = [i \in 1..(Len(in) + 1) |-> i]
    <3>1. in = [i \in 1..Len(in) |-> i]
      BY DEF QueueInv, InOrder
    <3>2. /\ Len(Append(in, seqNum)) = Len(in) + 1
          /\ \A i \in 1..Len(in) : Append(in, seqNum)[i] = i
          /\ Append(in, seqNum)[Len(in) + 1] = seqNum
      BY <1>0, <2>1, <3>1, AppendProperties
    <3> QED BY <1>0, <2>1, <3>2
  <2>3. Len(in') = Len(in) + 1
    BY <1>0, <1>1, <2>1, AppendProperties DEF WriteSend
  <2>4. (out \o sendCh \o queued) \o Append(batchCh, seqNum)
            = Append((out \o sendCh \o queued) \o batchCh, seqNum)
    BY <1>0, <2>1, AppendLast
  <2>5. in' = out' \o sendCh' \o queued' \o batchCh'
    BY <1>1, <2>4 DEF WriteSend, QueueInv, InOrder
  <2> QED BY <1>1, <2>2, <2>3, <2>5 DEF WriteSend, InOrder
<1>2. CASE RunBatch
  <2>1. Append(queued, Head(batchCh)) \o Tail(batchCh) = queued \o batchCh
    BY <1>0, <1>2, Shift DEF RunBatch
  <2>2. Head(batchCh) \in Nat /\ Tail(batchCh) \in Seq(Nat)
        /\ Append(queued, Head(batchCh)) \in Seq(Nat)
    BY <1>0, <1>2, HeadTailProperties, AppendProperties DEF RunBatch
  <2>3. (out \o sendCh) \o Append(queued, Head(batchCh)) \o Tail(batchCh)
            = (out \o sendCh) \o (Append(queued, Head(batchCh)) \o Tail(batchCh))
    <3>1. out \o sendCh \in Seq(Nat)  BY <1>0
    <3>2. Append(queued, Head(batchCh)) \in Seq(Nat)  BY <2>2
    <3>3. Tail(batchCh) \in Seq(Nat)  BY <2>2
    <3> QED BY <3>1, <3>2, <3>3, Assoc, Zenon
  <2>4. (out \o sendCh) \o queued \o batchCh = (out \o sendCh) \o (queued \o batchCh)
    BY <1>0, Assoc, Zenon
  <2> QED BY <1>2, <2>1, <2>3, <2>4 DEF RunBatch, QueueInv, InOrder
<1>3. CASE RunSend
  <2>1. out \o << >> \o queued = out \o queued \o << >>
    <3>1. out \o << >> = out /\ (out \o queued) \o << >> = out \o queued
      BY <1>0, ConcatProperties, ConcatEmptySeq
    <3> QED BY <3>1
  <2> QED BY <1>3, <2>1 DEF RunSend, QueueInv, InOrder
<1>4. CASE Receive
  <2>1. (out \o sendCh) \o << >> = out \o sendCh
    BY <1>0, ConcatEmptySeq
  <2> QED BY <1>4, <2>1 DEF Receive, QueueInv, InOrder
<1>5. CASE \/ \E w \in Writers : WriteCheck(w) \/ WriteLock(w)
           \/ RunTimeout \/ RunDone \/ RunFlush \/ CloseDone \/ UNCHANGED queueVars
  <2>1. UNCHANGED <<in, out, sendCh, queued, batchCh>>
    BY <1>5 DEF WriteCheck, WriteLock, RunTimeout, RunDone, RunFlush, CloseDone, queueVars
  <2> QED BY <2>1 DEF QueueInv, InOrder
<1> QED BY <1>1, <1>2, <1>3, <1>4, <1>5 DEF QueueNext, Run

\* The timer, one action at a time.
LEMMA TimerStep == QueueInv /\ [QueueNext]_queueVars => BatchHasTimer'
<1> SUFFICES ASSUME QueueInv, [QueueNext]_queueVars PROVE BatchHasTimer'
  OBVIOUS
<1> USE QueueParameters DEF QueueInv
<1>1. CASE RunBatch
  <2>1. Head(batchCh) \in Nat
    BY <1>1, HeadTailProperties DEF RunBatch, QueueTypeOK
  <2>2. Append(queued, Head(batchCh)) # << >> /\ Len(queued') = Len(queued) + 1
    <3>1. queued \in Seq(Nat)
      BY DEF QueueTypeOK
    <3>2. queued' = Append(queued, Head(batchCh))
      BY <1>1 DEF RunBatch
    <3> QED BY <2>1, <3>1, <3>2, AppendLonger, Zenon
  <2>3. Len(queued) < BatchSize
    BY <1>1 DEF RunBatch, BatchHasTimer
  <2>4. Len(queued) \in Nat
    BY DEF QueueTypeOK
  <2>5. CASE Len(queued) + 1 = BatchSize
    <3>1. run' = "send"
      BY <1>1, <2>5 DEF RunBatch
    <3> QED BY <1>1, <2>2, <3>1 DEF RunBatch, BatchHasTimer
  <2>6. CASE Len(queued) + 1 # BatchSize
    <3>1. run' = "select" /\ timer' = TRUE
      BY <1>1, <2>6 DEF RunBatch
    <3>2. Len(queued') < BatchSize
      BY <2>2, <2>3, <2>4, <2>6
    <3> QED BY <3>1, <3>2, Zenon DEF BatchHasTimer
  <2> QED BY <2>5, <2>6
<1>2. CASE RunTimeout \/ RunFlush
  BY <1>2 DEF RunTimeout, RunFlush, WriteFn, BatchHasTimer
<1>3. CASE RunSend
  BY <1>3 DEF RunSend, BatchHasTimer
<1>4. CASE RunDone
  BY <1>4 DEF RunDone, BatchHasTimer
<1>5. CASE (\E w \in Writers : WriteCheck(w) \/ WriteLock(w) \/ WriteSend(w))
           \/ Receive \/ CloseDone \/ UNCHANGED queueVars
  <2>1. UNCHANGED <<queued, timer, run>>
    BY <1>5 DEF WriteCheck, WriteLock, WriteSend, Receive, CloseDone, queueVars
  <2> QED BY <2>1 DEF BatchHasTimer
<1> QED BY <1>1, <1>2, <1>3, <1>4, <1>5 DEF QueueNext, Run

\* The invariant holds in every state of the queue.
THEOREM QueueInvariance == QueueSpec => []QueueInv
<1>1. QueueInit => QueueInv
  BY QueueInitInv
<1>2. QueueInv /\ [QueueNext]_queueVars => QueueInv'
  BY QueueTypeStep, SeqLockStep, InOrderStep, TimerStep DEF QueueInv
<1> QED BY <1>1, <1>2, PTL DEF QueueSpec

----------------------------------------------------------------------------
(* The results.                                                            *)

\* Types, and the limits of the channels.
THEOREM QueueTypeCorrect == QueueSpec => []QueueTypeOK
<1>1. QueueInv => QueueTypeOK  BY DEF QueueInv
<1> QED BY <1>1, QueueInvariance, PTL

\* seqMu covers the number and the send (Queue.Write).
THEOREM WriteIsSynchronized == QueueSpec => []SeqLock
<1>1. QueueInv => SeqLock  BY DEF QueueInv
<1> QED BY <1>1, QueueInvariance, PTL

\* What has been accepted is, once and in order, received or on its way.
THEOREM TransmittedInOrder == QueueSpec => []InOrder
<1>1. QueueInv => InOrder  BY DEF QueueInv
<1> QED BY <1>1, QueueInvariance, PTL

\* A batch that is being collected has a timer (Queue.run).
THEOREM BatchIsTimed == QueueSpec => []BatchHasTimer
<1>1. QueueInv => BatchHasTimer  BY DEF QueueInv
<1> QED BY <1>1, QueueInvariance, PTL

\* A prefix of a concatenation.
LEMMA Prefix ==
    ASSUME NEW s \in Seq(Nat), NEW t \in Seq(Nat), s # << >>
    PROVE  SubSeq(s \o t, 1, Len(s)) = s
<1>1. Len(s) \in Nat /\ Len(s) >= 1
  BY EmptySeq, LenProperties
<1>2. SubSeq(s \o t, 1, Len(s)) = SubSeq(s, 1, Len(s))
  BY <1>1, SubSeqOfConcat1
<1>3. SubSeq(s, 1, Len(s)) = s
  BY SubSeqFull
<1> QED BY <1>2, <1>3

\* Every step of the queue is a Put, a Transmit, or changes neither in nor out.
LEMMA FifoStep == QueueInv /\ [QueueNext]_queueVars => [Fifo!Put \/ Fifo!Transmit]_<<in, out>>
<1> SUFFICES ASSUME QueueInv, [QueueNext]_queueVars
             PROVE  [Fifo!Put \/ Fifo!Transmit]_<<in, out>>
  OBVIOUS
<1>1. ASSUME NEW w \in Writers, WriteSend(w) PROVE Fifo!Put
  <2>1. seqNum = Len(in) + 1
    BY <1>1, NobodyIsNoWriter DEF WriteSend, QueueInv, SeqLock, Holder, QueueTypeOK
  <2> QED BY <1>1, <2>1 DEF WriteSend, Fifo!Put
<1>2. CASE Receive
  <2>0. out \in Seq(Nat) /\ sendCh \in Seq(Nat) /\ queued \in Seq(Nat) /\ batchCh \in Seq(Nat)
    BY DEF QueueInv, QueueTypeOK
  <2> DEFINE head == out \o sendCh
             tail == queued \o batchCh
  <2>1. /\ head \in Seq(Nat) /\ tail \in Seq(Nat)
        /\ Len(head) = Len(out) + Len(sendCh)
    BY <2>0, ConcatProperties
  <2>2. Len(out) \in Nat /\ Len(sendCh) \in Nat /\ Len(sendCh) >= 1 /\ Len(tail) \in Nat
    BY <1>2, <2>0, <2>1, EmptySeq, LenProperties DEF Receive
  <2>3. in = head \o tail
    <3>1. in = head \o queued \o batchCh
      BY DEF QueueInv, InOrder
    <3>2. head \in Seq(Nat)  BY <2>1
    <3>3. queued \in Seq(Nat)  BY <2>0
    <3>4. batchCh \in Seq(Nat)  BY <2>0
    <3> HIDE DEF head
    <3>5. (head \o queued) \o batchCh = head \o (queued \o batchCh)
      BY <3>2, <3>3, <3>4, Assoc, Zenon
    <3> QED BY <3>1, <3>5, Zenon
  <2>4. Len(in) = Len(head) + Len(tail)
    BY <2>1, <2>3, ConcatProperties
  <2>5. head # << >>
    BY <2>1, <2>2
  <2>6. SubSeq(in, 1, Len(head)) = head
    BY <2>1, <2>3, <2>5, Prefix
  <2>7. Len(head) \in Len(out) + 1 .. Len(in)
    BY <2>1, <2>2, <2>4
  <2> HIDE DEF tail
  <2>8. out' = SubSeq(in, 1, Len(head)) /\ in' = in
    BY <1>2, <2>6 DEF Receive
  <2> QED BY <2>7, <2>8 DEF Fifo!Transmit
<1>3. CASE \/ \E w \in Writers : WriteCheck(w) \/ WriteLock(w)
           \/ Run \/ RunFlush \/ CloseDone \/ UNCHANGED queueVars
  BY <1>3 DEF WriteCheck, WriteLock, Run, RunBatch, RunTimeout, RunSend, RunDone, RunFlush,
              CloseDone, queueVars
<1> QED BY <1>1, <1>2, <1>3 DEF QueueNext

\* Queue.Write keeps its promise: "A slice with a lower sequence number than
\* second slice will always be transmitted on the Queue's C object before the
\* second slice".
THEOREM QueueImplementsFifo == QueueSpec => RefinesFifo
<1>1. QueueInit => Fifo!Init
  BY DEF QueueInit, Fifo!Init
<1>2. QueueInv /\ [QueueNext]_queueVars => [Fifo!Put \/ Fifo!Transmit]_<<in, out>>
  BY FifoStep
<1> QED BY <1>1, <1>2, QueueInvariance, PTL DEF QueueSpec, RefinesFifo, Fifo!Spec

----------------------------------------------------------------------------
(* Queued writes.                                                          *)

\* The statements of element m are applied, or it has none.
Handled(m) == m \in nils \/ \E j \in DOMAIN applied : applied[j] = m

\* b holds the elements from d + 1 on, and what comes before them is handled.
Continues(b, d) ==
    /\ b \in Seq(Nat)
    /\ \A k \in 1..Len(b) : b[k] = d + k
    /\ \A m \in 1..d : Handled(m)

\* The elements of which runQueue is done.
Passed == Len(out) - Len(req)

\* The request that runQueue works on is the last it has received, and every one
\* before it is handled; when it goes on to the next, so is this one.
RequestInHand ==
    /\ rq \in {"select", "exec", "remote", "post", "exited"}
    /\ req # << >> <=> rq \in {"exec", "remote", "post"}
    /\ Passed \in Nat /\ Continues(req, Passed)
    /\ rq = "post" => \A m \in 1..Len(out) : Handled(m)

\* A request that was given up, and may be applied late, is one that was worked on.
OrphansContinue == \A b \in orphans : \E d \in Nat : Continues(b, d)

\* Clients are told of elements that runQueue is done with only.
ToldIsPassed == flushed \subseteq 1..Passed /\ waited \subseteq flushed

\* No statement is applied for the first time before an earlier one.
AppliedInOrder ==
    \A i \in DOMAIN applied : \A m \in 1..applied[i] :
        m \in nils \/ \E j \in 1..i : applied[j] = m

WritesInv ==
    /\ QueueInv
    /\ applied \in Seq(Nat)
    /\ RequestInHand /\ OrphansContinue /\ ToldIsPassed /\ AppliedInOrder

\* What has been received, and what is next, by their numbers.
LEMMA Numbers ==
    ASSUME QueueInv
    PROVE  /\ \A k \in 1..Len(out) : out[k] = k
           /\ \A k \in 1..Len(sendCh) : sendCh[k] = Len(out) + k
<1>1. /\ out \in Seq(Nat) /\ sendCh \in Seq(Nat) /\ queued \in Seq(Nat) /\ batchCh \in Seq(Nat)
      /\ in = out \o sendCh \o queued \o batchCh /\ in = [i \in 1..Len(in) |-> i]
  BY DEF QueueInv, QueueTypeOK, InOrder
<1>2. PICK head \in Seq(Nat) : head = out \o sendCh
  BY <1>1, ConcatProperties
<1>3. PICK tail \in Seq(Nat) : tail = queued \o batchCh
  BY <1>1, ConcatProperties
<1>4. in = head \o tail
  <2>1. in = (head \o queued) \o batchCh
    BY <1>1, <1>2
  <2>2. (head \o queued) \o batchCh = head \o (queued \o batchCh)
    BY <1>1, Assoc, Zenon
  <2> QED BY <1>3, <2>1, <2>2, Zenon
<1>5. Len(head) = Len(out) + Len(sendCh) /\ Len(in) = Len(head) + Len(tail)
  BY <1>1, <1>2, <1>4, ConcatProperties
<1>6. \A k \in 1..Len(head) : head[k] = k
  <2>1. \A k \in 1..Len(head) : in[k] = head[k]
    BY <1>4, ConcatProperties
  <2>2. \A k \in 1..Len(in) : in[k] = k
    BY <1>1
  <2> QED BY <1>5, <2>1, <2>2
<1>7. /\ \A k \in 1..Len(out) : head[k] = out[k]
      /\ \A k \in 1..Len(sendCh) : head[Len(out) + k] = sendCh[k]
  BY <1>1, <1>2
<1>8. Len(out) \in Nat /\ Len(sendCh) \in Nat
  BY <1>1
<1>9. \A k \in 1..Len(out) : k \in 1..Len(head)
  BY <1>5, <1>8
<1>10. \A k \in 1..Len(sendCh) : Len(out) + k \in 1..Len(head)
  BY <1>5, <1>8
<1> QED BY <1>6, <1>7, <1>9, <1>10

\* The cluster applies the elements of b.
LEMMA AppliedMore ==
    ASSUME applied \in Seq(Nat), AppliedInOrder, NEW b, NEW d \in Nat, Continues(b, d),
           applied' = applied \o b, nils' = nils
    PROVE  /\ applied' \in Seq(Nat) /\ AppliedInOrder'
           /\ \A m : Handled(m) => Handled(m)'
           /\ \A m \in 1..(d + Len(b)) : Handled(m)'
<1>1. b \in Seq(Nat) /\ \A k \in 1..Len(b) : b[k] = d + k
  BY DEF Continues
<1>2. /\ applied' \in Seq(Nat) /\ Len(applied') = Len(applied) + Len(b)
      /\ \A i \in 1..Len(applied) : applied'[i] = applied[i]
      /\ \A k \in 1..Len(b) : applied'[Len(applied) + k] = d + k
  BY <1>1
<1>a. /\ DOMAIN applied = 1..Len(applied) /\ DOMAIN applied' = 1..Len(applied')
      /\ Len(applied) \in Nat /\ Len(b) \in Nat
  BY <1>1, <1>2
<1>b. DOMAIN applied \subseteq DOMAIN applied'
  BY <1>2, <1>a
<1>3. ASSUME NEW m, Handled(m) PROVE Handled(m)'
  <2>1. CASE m \in nils
    BY <2>1, Zenon DEF Handled
  <2>2. CASE \E j \in DOMAIN applied : applied[j] = m
    <3>1. PICK j \in DOMAIN applied : applied[j] = m
      BY <2>2
    <3>2. j \in DOMAIN applied' /\ applied'[j] = m
      BY <1>2, <1>a, <1>b, <3>1
    <3> QED BY <3>2, Zenon DEF Handled
  <2> QED BY <1>3, <2>1, <2>2, Zenon DEF Handled
<1>4. ASSUME NEW m \in 1..(d + Len(b)) PROVE Handled(m)'
  <2>1. CASE m <= d
    BY <1>3, <2>1 DEF Continues
  <2>2. CASE m > d
    <3>1. m - d \in 1..Len(b) /\ d + (m - d) = m
      BY <1>1, <2>2
    <3>2. Len(applied) + (m - d) \in DOMAIN applied'
      BY <1>1, <1>2, <3>1
    <3> QED BY <1>2, <3>1, <3>2 DEF Handled
  <2> QED BY <2>1, <2>2
<1>5. ASSUME NEW i \in DOMAIN applied', NEW m \in 1..applied'[i]
      PROVE  m \in nils' \/ \E j \in 1..i : applied'[j] = m
  <2>0. i \in 1..(Len(applied) + Len(b)) /\ Len(applied) \in Nat /\ Len(b) \in Nat
    BY <1>1, <1>2
  <2>1. CASE i <= Len(applied)
    BY <1>2, <2>0, <2>1 DEF AppliedInOrder
  <2>2. CASE i > Len(applied)
    <3>1. i - Len(applied) \in 1..Len(b) /\ Len(applied) + (i - Len(applied)) = i
      BY <2>0, <2>2
    <3>2. applied'[i] = d + (i - Len(applied))
      BY <1>2, <3>1
    <3>3. CASE m <= d
      <4>1. Handled(m)
        BY <3>3 DEF Continues
      <4>2. CASE m \in nils
        BY <4>2, Zenon
      <4>3. CASE \E j \in DOMAIN applied : applied[j] = m
        <5>1. PICK j \in DOMAIN applied : applied[j] = m
          BY <4>3
        <5>2. j \in 1..i /\ applied'[j] = m
          BY <1>2, <1>a, <2>0, <2>2, <5>1
        <5> QED BY <5>2, Zenon
      <4> QED BY <4>1, <4>2, <4>3, Zenon DEF Handled
    <3>4. CASE m > d
      <4>1. m - d \in 1..Len(b) /\ d + (m - d) = m /\ Len(applied) + (m - d) \in 1..i
        BY <2>0, <3>1, <3>2, <3>4
      <4> QED BY <1>2, <4>1
    <3> QED BY <3>3, <3>4
  <2> QED BY <2>0, <2>1, <2>2
<1> QED BY <1>2, <1>3, <1>4, <1>5 DEF AppliedInOrder

\* What continues the elements that are handled goes on doing so.
LEMMA StillContinues ==
    ASSUME \A m : Handled(m) => Handled(m)'
    PROVE  \A b, d : Continues(b, d) => Continues(b, d)'
BY DEF Continues

\* Before the first request.
LEMMA WritesInitInv == WritesInit => WritesInv
<1> SUFFICES ASSUME WritesInit PROVE WritesInv
  OBVIOUS
<1>1. QueueInv /\ out = << >>
  BY QueueInitInv DEF WritesInit, QueueInit
<1>2. req = << >> /\ << >> \in Seq(Nat) /\ applied = << >> /\ rq = "select"
  BY DEF WritesInit
<1>3. Passed = 0
  BY <1>1, <1>2 DEF Passed
<1>4. Continues(req, 0)
  BY <1>2 DEF Continues
<1>5. orphans = {} /\ flushed = {} /\ waited = {}
  BY DEF WritesInit
<1> QED BY <1>1, <1>2, <1>3, <1>4, <1>5 DEF WritesInv, RequestInHand, OrphansContinue, ToldIsPassed,
       AppliedInOrder

\* A step of the service is a step of its queue, or none.
LEMMA ServiceStepsQueue == [WritesNext]_allVars => [QueueNext]_queueVars
BY DEF WritesNext, allVars, QueueNext, QueuedExecute, QueuedLock, QueuedSend, WaitEnds, RunBatching,
       RunQueue, RqReceive, RqTo, ExecuteOK, ExecuteNotLeader, ExecuteFailed, RemoteOK, RemoteFailed,
       RqPost, RqExit, LateApply, Shutdown, Close, CloseQueue, CloseChannel, CloseReturn

\* Steps that leave runQueue and the cluster alone.  A write without a statement may
\* be accepted, which is then handled.
LEMMA OthersKeepWrites ==
    ASSUME WritesInv, QueueInv', nils \subseteq nils', waited' \subseteq flushed,
           UNCHANGED <<rq, req, applied, orphans, flushed, out>>
    PROVE  WritesInv'
<1>1. \A m : Handled(m) => Handled(m)'
  BY DEF Handled
<1>2. \A b, d : Continues(b, d) => Continues(b, d)'
  BY <1>1, StillContinues
<1>3. Passed' = Passed
  BY DEF Passed
<1>4. RequestInHand'
  BY <1>1, <1>2, <1>3 DEF WritesInv, RequestInHand
<1>5. OrphansContinue'
  BY <1>2 DEF WritesInv, OrphansContinue
<1>6. ToldIsPassed' /\ AppliedInOrder'
  BY <1>3 DEF WritesInv, ToldIsPassed, AppliedInOrder
<1> QED BY <1>4, <1>5, <1>6 DEF WritesInv

\* An attempt, or its end: the request stays in hand, the cluster may apply it and it
\* may be left on its way to the leader.
LEMMA AttemptKeepsWrites ==
    ASSUME WritesInv, rq \in {"exec", "remote"}, NEW pc \in {"exec", "remote", "post"}, RqTo(pc),
           applied' = applied \/ Apply,
           orphans' = orphans \/ orphans' = orphans \cup {req},
           pc = "post" => Apply
    PROVE  WritesInv'
<1>0. /\ UNCHANGED <<queueVars, nils, req, flushed, waited, out>> /\ rq' = pc
      /\ QueueInv' /\ Passed' = Passed /\ Passed \in Nat /\ Continues(req, Passed)
      /\ Len(out) \in Nat /\ Len(req) \in Nat
  <2>1. UNCHANGED <<queueVars, nils, req, flushed, waited>> /\ rq' = pc
    BY DEF RqTo
  <2>2. QueueInv' /\ out' = out
    <3>1. [QueueNext]_queueVars
      BY <2>1
    <3> QED BY <3>1, QueueTypeStep, SeqLockStep, InOrderStep, TimerStep, <2>1 DEF QueueInv, WritesInv, queueVars
  <2>3. Passed' = Passed /\ Passed \in Nat /\ Continues(req, Passed)
    BY <2>1, <2>2 DEF Passed, WritesInv, RequestInHand
  <2>4. Len(out) \in Nat /\ Len(req) \in Nat
    BY DEF WritesInv, QueueInv, QueueTypeOK, RequestInHand, Continues
  <2> QED BY <2>1, <2>2, <2>3, <2>4
<1>1. /\ applied' \in Seq(Nat) /\ AppliedInOrder'
      /\ \A m : Handled(m) => Handled(m)'
      /\ pc = "post" => \A m \in 1..Len(out) : Handled(m)'
  <2>1. CASE Apply
    <3>1. applied' = applied \o req
      BY <2>1 DEF Apply
    <3>2. Passed + Len(req) = Len(out)
      BY <1>0 DEF Passed
    <3> QED BY <1>0, <3>1, <3>2, AppliedMore DEF WritesInv
  <2>2. CASE applied' = applied /\ pc # "post"
    BY <1>0, <2>2 DEF WritesInv, AppliedInOrder, Handled
  <2> QED BY <2>1, <2>2
<1>2. \A b, d : Continues(b, d) => Continues(b, d)'
  BY <1>1, StillContinues
<1>3. RequestInHand'
  <2>1. Continues(req, Passed)' 
    BY <1>0, <1>2 DEF Continues
  <2> QED BY <1>0, <1>1, <2>1 DEF WritesInv, RequestInHand
<1>4. OrphansContinue'
  BY <1>0, <1>2 DEF WritesInv, OrphansContinue
<1>5. ToldIsPassed'
  BY <1>0 DEF WritesInv, ToldIsPassed
<1> QED BY <1>0, <1>1, <1>3, <1>4, <1>5 DEF WritesInv

\* runQueue takes the next request, which begins where the one before ended.
LEMMA ReceiveKeepsWrites == ASSUME WritesInv, QueueInv', RqReceive PROVE WritesInv'
<1>1. /\ out \in Seq(Nat) /\ sendCh \in Seq(Nat) /\ sendCh # << >> /\ req = << >>
      /\ out' = out \o sendCh /\ req' = sendCh /\ UNCHANGED <<nils, applied, orphans, flushed, waited>>
      /\ rq' = IF HasStatements(sendCh) THEN "exec" ELSE "post"
  BY DEF WritesInv, RequestInHand, RqReceive, Receive, QueueInv, QueueTypeOK
<1>2. /\ Passed = Len(out) /\ Passed' = Len(out) /\ Len(out) \in Nat
      /\ Len(out') = Len(out) + Len(sendCh) /\ Len(sendCh) \in Nat
  BY <1>1, ConcatProperties DEF Passed
<1>3. \A m : Handled(m)' <=> Handled(m)
  BY <1>1 DEF Handled
<1>4. \A m \in 1..Len(out) : Handled(m)
  BY <1>2 DEF WritesInv, RequestInHand, Continues
<1>5. Continues(req, Passed)'
  BY <1>1, <1>2, <1>3, <1>4, Numbers DEF WritesInv, Continues
<1>6. rq' = "post" => \A m \in 1..Len(out') : Handled(m)'
  <2> SUFFICES ASSUME rq' = "post", NEW m \in 1..Len(out') PROVE Handled(m)'
    OBVIOUS
  <2>1. CASE m <= Len(out)
    BY <1>3, <1>4, <2>1
  <2>2. CASE m > Len(out)
    <3>1. m - Len(out) \in 1..Len(sendCh) /\ Len(out) + (m - Len(out)) = m
      BY <1>2, <2>2
    <3>2. sendCh[m - Len(out)] = m
      BY <3>1, Numbers DEF WritesInv
    <3>3. ~HasStatements(sendCh)
      BY <1>1
    <3>4. m \in nils
      BY <1>1, <3>1, <3>2, <3>3 DEF HasStatements
    <3> QED BY <1>1, <3>4 DEF Handled
  <2> QED BY <1>2, <2>1, <2>2
<1>7. RequestInHand'
  BY <1>1, <1>2, <1>5, <1>6 DEF RequestInHand
<1>8. OrphansContinue'
  BY <1>1, <1>3, StillContinues DEF WritesInv, OrphansContinue
<1>9. ToldIsPassed' /\ AppliedInOrder' /\ applied' \in Seq(Nat)
  BY <1>1, <1>2 DEF WritesInv, ToldIsPassed, AppliedInOrder
<1> QED BY <1>7, <1>8, <1>9 DEF WritesInv

\* runQueue tells the clients of its request, and is done with it.
LEMMA PostKeepsWrites == ASSUME WritesInv, QueueInv', RqPost PROVE WritesInv'
<1>1. /\ UNCHANGED <<nils, applied, orphans, waited, out>>
      /\ req' = << >> /\ rq' = "select" /\ flushed' = flushed \cup Members(req)
      /\ out \in Seq(Nat) /\ req \in Seq(Nat) /\ Passed \in Nat
      /\ \A k \in 1..Len(req) : req[k] = Passed + k
      /\ \A m \in 1..Len(out) : Handled(m)
  BY DEF RqPost, queueVars, WritesInv, RequestInHand, Continues, QueueInv, QueueTypeOK
<1>2. Len(out) \in Nat /\ Len(req) \in Nat /\ Passed + Len(req) = Len(out) /\ Passed' = Len(out)
  BY <1>1 DEF Passed
<1>3. \A m : Handled(m)' <=> Handled(m)
  BY <1>1 DEF Handled
<1>4. Continues(req, Passed)'
  <2>1. << >> \in Seq(Nat)
    OBVIOUS
  <2> QED BY <1>1, <1>2, <1>3, <2>1 DEF Continues
<1>5. RequestInHand'
  BY <1>1, <1>2, <1>4 DEF RequestInHand
<1>6. Members(req) \subseteq 1..Len(out)
  <2>1. DOMAIN req = 1..Len(req)
    BY <1>1
  <2>2. \A k \in 1..Len(req) : Passed + k \in 1..Len(out)
    BY <1>1, <1>2
  <2> QED BY <1>1, <2>1, <2>2 DEF Members
<1>7. ToldIsPassed'
  <2>1. 1..Passed \subseteq 1..Len(out)
    BY <1>1, <1>2
  <2> QED BY <1>1, <1>2, <1>6, <2>1, Zenon DEF WritesInv, ToldIsPassed
<1>8. OrphansContinue'
  BY <1>1, <1>3, StillContinues DEF WritesInv, OrphansContinue
<1>9. AppliedInOrder' /\ applied' \in Seq(Nat)
  BY <1>1 DEF WritesInv, AppliedInOrder
<1> QED BY <1>5, <1>7, <1>8, <1>9 DEF WritesInv

\* A request that was given up reaches the log after all.
LEMMA LateKeepsWrites == ASSUME WritesInv, QueueInv', LateApply PROVE WritesInv'
<1>1. PICK b \in orphans : /\ applied' = applied \o b /\ orphans' = orphans \ {b}
                           /\ UNCHANGED <<queueVars, nils, rq, req, flushed, waited>>
  BY DEF LateApply
<1>2. PICK d \in Nat : Continues(b, d)
  BY DEF WritesInv, OrphansContinue
<1>3. applied' \in Seq(Nat) /\ AppliedInOrder' /\ \A m : Handled(m) => Handled(m)'
  BY <1>1, <1>2, AppliedMore DEF WritesInv
<1>4. \A e, f : Continues(e, f) => Continues(e, f)'
  BY <1>3, StillContinues
<1>5. out' = out /\ Passed' = Passed
  BY <1>1 DEF queueVars, Passed
<1>6. RequestInHand' /\ OrphansContinue' /\ ToldIsPassed'
  <2>1. Continues(req, Passed)'
    BY <1>1, <1>4, <1>5 DEF WritesInv, RequestInHand, Continues
  <2> QED BY <1>1, <1>3, <1>4, <1>5, <2>1 DEF WritesInv, RequestInHand, OrphansContinue, ToldIsPassed
<1> QED BY <1>3, <1>6 DEF WritesInv

\* Steps of the handlers, of the queue itself and of Close.
LEMMA HandlersKeepWrites ==
    ASSUME WritesInv, QueueInv',
           \/ \E w \in Writers : \/ \E wait, nil \in BOOLEAN : QueuedExecute(w, wait, nil)
                                 \/ QueuedLock(w) \/ QueuedSend(w) \/ WaitEnds(w)
           \/ RunBatching \/ Shutdown \/ Close \/ RqExit \/ UNCHANGED allVars
    PROVE  WritesInv'
<1>0. waited \subseteq flushed
  BY DEF WritesInv, ToldIsPassed
<1>1. CASE \/ \E w \in Writers : \/ \E wait, nil \in BOOLEAN : QueuedExecute(w, wait, nil)
                                 \/ QueuedLock(w)
           \/ RunBatching \/ Shutdown \/ Close \/ UNCHANGED allVars
  <2>1. UNCHANGED <<rq, req, applied, orphans, flushed, waited, nils, out>>
    BY <1>1 DEF QueuedExecute, WriteCheck, QueuedLock, WriteLock, RunBatching, Run, RunBatch, RunTimeout,
                RunSend, RunDone, Shutdown, Close, CloseQueue, CloseDone, CloseChannel, CloseReturn,
                allVars, serviceVars, queueVars
  <2> QED BY <1>0, <2>1, OthersKeepWrites
<1>2. ASSUME NEW w \in Writers, QueuedSend(w) PROVE WritesInv'
  BY <1>0, <1>2, OthersKeepWrites DEF QueuedSend, WriteSend
<1>3. ASSUME NEW w \in Writers, WaitEnds(w) PROVE WritesInv'
  <2>1. UNCHANGED <<rq, req, applied, orphans, flushed, nils, out>> /\ waited' \subseteq flushed
    BY <1>0, <1>3 DEF WaitEnds, queueVars
  <2> QED BY <2>1, OthersKeepWrites
<1>4. CASE RqExit
  <2>1. /\ UNCHANGED <<req, applied, orphans, flushed, waited, nils, out>>
        /\ rq = "select" /\ rq' = "exited"
    BY <1>4 DEF RqExit, queueVars
  <2>2. \A m : Handled(m)' <=> Handled(m)
    BY <2>1 DEF Handled
  <2>3. Passed' = Passed
    BY <2>1 DEF Passed
  <2>4. \A b, d : Continues(b, d) => Continues(b, d)'
    BY <2>2, StillContinues
  <2>5. RequestInHand' /\ OrphansContinue' /\ ToldIsPassed' /\ AppliedInOrder'
    BY <2>1, <2>3, <2>4 DEF WritesInv, RequestInHand, OrphansContinue, ToldIsPassed, AppliedInOrder
  <2> QED BY <2>1, <2>5 DEF WritesInv
<1> QED BY <1>1, <1>2, <1>3, <1>4

\* Every step of the service.
LEMMA WritesStepInv == WritesInv /\ [WritesNext]_allVars => WritesInv'
<1> SUFFICES ASSUME WritesInv, [WritesNext]_allVars PROVE WritesInv'
  OBVIOUS
<1>1. QueueInv'
  BY ServiceStepsQueue, QueueTypeStep, SeqLockStep, InOrderStep, TimerStep DEF QueueInv, WritesInv
<1>2. CASE ExecuteOK \/ RemoteOK
  <2>1. rq \in {"exec", "remote"} /\ RqTo("post") /\ Apply /\ orphans' = orphans
    BY <1>2 DEF ExecuteOK, RemoteOK
  <2> QED BY <2>1, AttemptKeepsWrites
<1>3. CASE ExecuteNotLeader
  <2>1. rq \in {"exec", "remote"} /\ RqTo("remote") /\ applied' = applied /\ orphans' = orphans
    BY <1>3 DEF ExecuteNotLeader
  <2> QED BY <2>1, AttemptKeepsWrites
<1>4. CASE ExecuteFailed \/ RemoteFailed
  <2>1. /\ rq \in {"exec", "remote"} /\ RqTo("exec")
        /\ applied' = applied \/ Apply
        /\ orphans' = orphans \/ orphans' = orphans \cup {req}
    BY <1>4 DEF ExecuteFailed, RemoteFailed
  <2> QED BY <2>1, AttemptKeepsWrites
<1> QED BY <1>1, <1>2, <1>3, <1>4, ReceiveKeepsWrites, PostKeepsWrites, LateKeepsWrites,
           HandlersKeepWrites DEF WritesNext, RunQueue

\* The invariant holds in every state of the service.
THEOREM WritesInvariance == WritesSpec => []WritesInv
BY WritesInitInv, WritesStepInv, PTL DEF WritesSpec

\* A client that waited and was told so has its statements applied, and with them
\* every statement queued before: runQueue closes the flush channels of a request
\* only when an attempt has succeeded (http/service.go, queuedExecute and runQueue).
THEOREM WaitedWritesAreApplied == WritesSpec => []WaitedIsApplied
<1>1. ASSUME WritesInv PROVE WaitedIsApplied
  <2> SUFFICES ASSUME NEW n \in waited, NEW m \in 1..n PROVE m \in nils \/ m \in Members(applied)
    BY DEF WaitedIsApplied
  <2>1. n \in 1..Passed /\ Passed \in Nat
    BY <1>1 DEF WritesInv, ToldIsPassed, RequestInHand
  <2>2. m \in 1..Passed
    BY <2>1
  <2>3. Handled(m)
    BY <1>1, <2>2 DEF WritesInv, RequestInHand, Continues
  <2> QED BY <2>3, Zenon DEF Handled, Members
<1> QED BY <1>1, WritesInvariance, PTL

\* However often requests are retried, forwarded or applied late, none is applied for
\* the first time before an earlier one; and until the queue is closed what was
\* accepted is applied or on its way (http/service.go, runQueue; queue/queue.go).
THEOREM WritesFirstInOrder == WritesSpec => []FirstInOrder
<1>1. ASSUME WritesInv PROVE FirstInOrder
  <2>0. /\ in \in Seq(Nat) /\ out \in Seq(Nat) /\ sendCh \in Seq(Nat) /\ queued \in Seq(Nat)
        /\ batchCh \in Seq(Nat) /\ req \in Seq(Nat) /\ Passed \in Nat
    BY <1>1 DEF WritesInv, QueueInv, QueueTypeOK, RequestInHand, Continues
  <2>1. ASSUME NEW n \in Members(in) \ nils
        PROVE  n \in Members(applied) \cup Members(req) \cup Members(sendCh)
                     \cup Members(queued) \cup Members(batchCh)
    <3>1. Members(in) = Members(out) \cup Members(sendCh) \cup Members(queued) \cup Members(batchCh)
      <4>1. \A s, t \in Seq(Nat) : Members(s \o t) = Members(s) \cup Members(t)
        <5> SUFFICES ASSUME NEW s \in Seq(Nat), NEW t \in Seq(Nat)
                     PROVE  Members(s \o t) = Members(s) \cup Members(t)
          OBVIOUS
        <5>1. \A u \in Seq(Nat) : Members(u) = Range(u)
          BY DEF Members, Range
        <5>2. s \o t \in Seq(Nat)
          BY ConcatProperties
        <5>3. Range(s \o t) = Range(s) \cup Range(t)
          BY RangeConcatenation
        <5> QED BY <5>1, <5>2, <5>3, Zenon
      <4>2. /\ out \o sendCh \in Seq(Nat) /\ out \o sendCh \o queued \in Seq(Nat)
            /\ in = ((out \o sendCh) \o queued) \o batchCh
        BY <1>1, <2>0, ConcatProperties DEF WritesInv, QueueInv, InOrder
      <4>3. Members(((out \o sendCh) \o queued) \o batchCh) = Members((out \o sendCh) \o queued) \cup Members(batchCh)
        BY <2>0, <4>1, <4>2, Zenon
      <4>4. Members((out \o sendCh) \o queued) = Members(out \o sendCh) \cup Members(queued)
        BY <2>0, <4>1, <4>2, Zenon
      <4>5. Members(out \o sendCh) = Members(out) \cup Members(sendCh)
        BY <2>0, <4>1, Zenon
      <4> HIDE DEF Members
      <4> QED BY <4>2, <4>3, <4>4, <4>5
    <3>2. CASE n \in Members(out)
      <4>1. PICK k \in 1..Len(out) : out[k] = n
        BY <2>0, <3>2 DEF Members
      <4>2. n = k /\ n \in 1..Len(out)
        BY <1>1, <4>1, Numbers DEF WritesInv
      <4>3. CASE n <= Passed
        <5>1. n \in 1..Passed
          BY <2>0, <4>2, <4>3
        <5>2. Handled(n)
          BY <1>1, <5>1 DEF WritesInv, RequestInHand, Continues
        <5> QED BY <2>1, <5>2, Zenon DEF Handled, Members
      <4>4. CASE n > Passed
        <5>1. n - Passed \in 1..Len(req) /\ Passed + (n - Passed) = n
          BY <2>0, <4>2, <4>4 DEF Passed
        <5>2. req[n - Passed] = n
          BY <1>1, <5>1 DEF WritesInv, RequestInHand, Continues
        <5>3. n \in Members(req)
          <6>1. n - Passed \in DOMAIN req
            BY <2>0, <5>1
          <6> QED BY <5>2, <6>1, Zenon DEF Members
        <5> QED BY <5>3
      <4> QED BY <2>0, <4>2, <4>3, <4>4
    <3> HIDE DEF Members
    <3> QED BY <2>1, <3>1, <3>2
  <2> QED BY <1>1, <2>1, Zenon DEF FirstInOrder, NothingLost, WritesInv, AppliedInOrder
<1> QED BY <1>1, WritesInvariance, PTL

----------------------------------------------------------------------------
(* Change data capture: the inductive invariant.                           *)

Event == [index : Nat, entry : Nat, changes : SUBSET Nat]
PostState == [batch : Seq(Event), attempts : Nat]

CdcType ==
    /\ entry \in Nat /\ highWatermark \in Nat /\ storedWatermark \in Nat
    /\ cdcCh \in Seq(Event) /\ events \in Seq(Event) /\ posted \in Seq(Seq(Event))
    /\ post \in PostState

\* e was captured before f: by an earlier entry, or by an earlier commit of the
\* same one, in which case f has no index.
Before(e, f) ==
    \/ e.entry < f.entry
    \/ /\ e.entry = f.entry /\ f.index = 0
       /\ \A c \in e.changes, d \in f.changes : c < d

\* e is an event of one of the first n entries, under the index of its entry or none.
Captured(e, n) == e.index \in {0, e.entry} /\ 0 < e.entry /\ e.entry <= n

\* Everything that the channel has taken, in order.
Streamed == events \o cdcCh

\* So many events of these were given to an earlier batch than the one in hand.
First == Len(out) - Len(post.batch)

\* Every element of the queue stands for an event, also the one about to be written.
Aligned ==
    /\ seqNum <= Len(events)
    /\ writer[Reader] = "checked" => seqNum < Len(events)

\* The batch in hand is the last that was received.
BatchInHand ==
    /\ First \in Nat /\ Len(out) <= Len(events)
    /\ \A i \in 1..Len(post.batch) : post.batch[i] = events[First + i]

StreamInOrder ==
    /\ \A i \in 1..Len(Streamed) : Captured(Streamed[i], entry)
    /\ \A i, j \in 1..Len(Streamed) : i < j => Before(Streamed[i], Streamed[j])

\* A batch of events of the first n entries, in order.
Delivery(b, n) ==
    /\ \A i \in 1..Len(b) : Captured(b[i], n)
    /\ \A i, j \in 1..Len(b) : i < j => Before(b[i], b[j])

AllBefore(b, f) == \A i \in 1..Len(b) : Before(b[i], f)
Follows(b, c) == b = c \/ \A j \in 1..Len(c) : AllBefore(b, c[j])

\* Every batch that was posted is in order; the later of two is the earlier once more or
\* all after it, and so is the batch in hand; and they are before what is in no batch yet.
PostedInOrder ==
    /\ \A p \in 1..Len(posted) : Delivery(posted[p], entry)
    /\ \A p, q \in 1..Len(posted) : p < q => Follows(posted[p], posted[q])
    /\ \A p \in 1..Len(posted) : Follows(posted[p], post.batch)
    /\ \A p \in 1..Len(posted), k \in 1..Len(Streamed) : k > Len(out) => AllBefore(posted[p], Streamed[k])

\* The watermarks are of entries, and behind whatever has an index and waits.
Ahead(e, high, low) == e.index = 0 \/ (e.index > high /\ e.index > low)
Watermarks ==
    /\ highWatermark <= entry /\ storedWatermark <= entry
    /\ \A k \in 1..Len(Streamed) : k > First => Ahead(Streamed[k], highWatermark, storedWatermark)

CdcInv ==
    /\ QueueInv /\ CdcType /\ Aligned /\ BatchInHand
    /\ StreamInOrder /\ PostedInOrder /\ Watermarks

----------------------------------------------------------------------------
(* The hooks.                                                              *)

\* The events of an entry: one for each commit, in order, the first with its index.
EventsOf(evs, k) ==
    /\ evs \in Seq(Event)
    /\ \A i \in 1..Len(evs) : Captured(evs[i], k) /\ evs[i].entry = k
    /\ \A i, j \in 1..Len(evs) : i < j => Before(evs[i], evs[j])

Outcomes == {<<"commit">>, <<"commit", "commit">>, <<"rollback", "commit">>}

\* Each commit of an entry has its place among them.
Ranked(o, last) ==
    /\ last \subseteq Nat /\ Cardinality(last) \in Nat
    /\ \A i \in 1..Cardinality(last) : \E c \in last : Cardinality(Commits(o, 1, c)) = i
    /\ \A c \in last : IsFiniteSet(Commits(o, 1, c))

\* The three kinds of entries.
LEMMA CommitsRanked ==
    ASSUME NEW o \in Outcomes
    PROVE  Ranked(o, Commits(o, 1, Len(o)))
<1>0. /\ Cardinality({1}) = 1 /\ Cardinality({2}) = 1 /\ Cardinality({1, 2}) = 2
      /\ IsFiniteSet({1}) /\ IsFiniteSet({2}) /\ IsFiniteSet({1, 2})
  <2>1. /\ IsFiniteSet({1}) /\ Cardinality({1}) = 1 /\ IsFiniteSet({2}) /\ Cardinality({2}) = 1
    BY FS_Singleton
  <2>2. {1} \cup {2} = {1, 2} /\ 2 \notin {1}
    OBVIOUS
  <2>3. IsFiniteSet({1} \cup {2}) /\ Cardinality({1} \cup {2}) = 1 + 1
    BY <2>1, <2>2, FS_AddElement
  <2> QED BY <2>1, <2>2, <2>3
<1>1. CASE o = <<"commit">>
  <2>1. Commits(o, 1, Len(o)) = {1} /\ Commits(o, 1, 1) = {1}
    BY <1>1 DEF Commits
  <2>2. Ranked(o, {1})
    <3>1. \A i \in 1..1 : \E c \in {1} : Cardinality(Commits(o, 1, c)) = i
      <4>1. \A i \in 1..1 : i = 1
        OBVIOUS
      <4> QED BY <1>0, <2>1, <4>1, Zenon
    <3>2. \A c \in {1} : IsFiniteSet(Commits(o, 1, c))
      BY <1>0, <2>1, Zenon
    <3>3. {1} \subseteq Nat /\ Cardinality({1}) \in Nat
      BY <1>0
    <3> QED BY <1>0, <3>1, <3>2, <3>3, Zenon DEF Ranked
  <2> QED BY <2>1, <2>2, Zenon
<1>2. CASE o = <<"commit", "commit">>
  <2>1. Commits(o, 1, Len(o)) = {1, 2} /\ Commits(o, 1, 1) = {1} /\ Commits(o, 1, 2) = {1, 2}
    BY <1>2 DEF Commits
  <2>2. Ranked(o, {1, 2})
    <3>1. \A i \in 1..2 : \E c \in {1, 2} : Cardinality(Commits(o, 1, c)) = i
      <4>1. \A i \in 1..2 : i = 1 \/ i = 2
        OBVIOUS
      <4> QED BY <1>0, <2>1, <4>1, Zenon
    <3>2. \A c \in {1, 2} : IsFiniteSet(Commits(o, 1, c))
      BY <1>0, <2>1, Zenon
    <3>3. {1, 2} \subseteq Nat /\ Cardinality({1, 2}) \in Nat
      BY <1>0
    <3> QED BY <1>0, <3>1, <3>2, <3>3, Zenon DEF Ranked
  <2> QED BY <2>1, <2>2, Zenon
<1>3. CASE o = <<"rollback", "commit">>
  <2>1. Commits(o, 1, Len(o)) = {2} /\ Commits(o, 1, 2) = {2}
    BY <1>3 DEF Commits
  <2>2. Ranked(o, {2})
    <3>1. \A i \in 1..1 : \E c \in {2} : Cardinality(Commits(o, 1, c)) = i
      <4>1. \A i \in 1..1 : i = 1
        OBVIOUS
      <4> QED BY <1>0, <2>1, <4>1, Zenon
    <3>2. \A c \in {2} : IsFiniteSet(Commits(o, 1, c))
      BY <1>0, <2>1, Zenon
    <3>3. {2} \subseteq Nat /\ Cardinality({2}) \in Nat
      BY <1>0
    <3> QED BY <1>0, <3>1, <3>2, <3>3, Zenon DEF Ranked
  <2> QED BY <2>1, <2>2, Zenon
<1> QED BY <1>1, <1>2, <1>3 DEF Outcomes

\* The event of one commit, and of two.
LEMMA CommitEvents ==
    ASSUME NEW k \in Nat \ {0}, NEW o, NEW c \in Nat, NEW d \in Nat
    PROVE  /\ CommitEvent(k, o, c) \in Event /\ CommitEvent(k, o, c).entry = k
           /\ Captured(CommitEvent(k, o, c), k)
           /\ c < d /\ c \in Commits(o, 1, d - 1) =>
                 Before(CommitEvent(k, o, c), CommitEvent(k, o, d))
<1>0. ASSUME NEW x \in Nat PROVE CommitEvent(k, o, x) \in Event
  <2>1. PreUpdates(Commits(o, 1, x - 1), x) \in SUBSET Nat
    BY DEF PreUpdates
  <2> QED BY <2>1 DEF CommitEvent, Event
<1>1. PICK e \in Event : e = CommitEvent(k, o, c)
  BY <1>0
<1>2. PICK f \in Event : f = CommitEvent(k, o, d)
  BY <1>0
<1>3. /\ e.entry = k /\ e.index \in {0, k} /\ e.changes \subseteq 1..c
      /\ f.entry = k
  BY <1>1, <1>2 DEF CommitEvent, PreUpdates
<1>4. ASSUME c < d, c \in Commits(o, 1, d - 1) PROVE f.index = 0 /\ \A x \in f.changes : x > c /\ x \in Nat
  BY <1>2, <1>4 DEF CommitEvent, PreUpdates
<1> QED BY <1>1, <1>2, <1>3, <1>4 DEF Captured, Before

\* CommitHook.
LEMMA HookEvents ==
    ASSUME NEW k \in Nat \ {0}, NEW o \in Outcomes
    PROVE  EventsOf(CommitHook(k, o), k)
<1> DEFINE last == Commits(o, 1, Len(o))
           n == Cardinality(last)
           rank(i) == CHOOSE c \in last : Cardinality(Commits(o, 1, c)) = i
           evs == CommitHook(k, o)
<1>1. /\ last \subseteq Nat /\ n \in Nat
      /\ \A i \in 1..n : \E c \in last : Cardinality(Commits(o, 1, c)) = i
      /\ \A c \in last : IsFiniteSet(Commits(o, 1, c))
  BY CommitsRanked, Zenon DEF Ranked
<1>2. \A i \in 1..n : rank(i) \in last /\ Cardinality(Commits(o, 1, rank(i))) = i
  BY <1>1
<1>3. evs = [i \in 1..n |-> CommitEvent(k, o, rank(i))]
  BY DEF CommitHook
<1> HIDE DEF evs
<1>4. \A i \in 1..n : /\ evs[i] \in Event /\ evs[i].entry = k /\ Captured(evs[i], k)
                      /\ evs[i] = CommitEvent(k, o, rank(i))
  <2> TAKE i \in 1..n
  <2>1. evs[i] = CommitEvent(k, o, rank(i)) /\ rank(i) \in Nat
    BY <1>1, <1>2, <1>3
  <2> HIDE DEF rank
  <2> QED BY <2>1, CommitEvents
<1>5. evs \in Seq(Event) /\ Len(evs) = n
  <2> HIDE DEF n, rank
  <2> QED BY <1>1, <1>3, <1>4
<1>6. ASSUME NEW i \in 1..n, NEW j \in 1..n, i < j PROVE Before(evs[i], evs[j])
  <2>1. /\ rank(i) \in last /\ rank(j) \in last /\ rank(i) \in Nat /\ rank(j) \in Nat
        /\ Cardinality(Commits(o, 1, rank(i))) = i /\ Cardinality(Commits(o, 1, rank(j))) = j
        /\ IsFiniteSet(Commits(o, 1, rank(i)))
    BY <1>1, <1>2
  <2> HIDE DEF rank, n
  <2>2. rank(i) < rank(j)
    <3>1. SUFFICES ASSUME rank(j) <= rank(i) PROVE FALSE
      BY <2>1
    <3>2. Commits(o, 1, rank(j)) \subseteq Commits(o, 1, rank(i))
      BY <2>1, <3>1 DEF Commits
    <3>3. Cardinality(Commits(o, 1, rank(j))) <= Cardinality(Commits(o, 1, rank(i)))
      BY <2>1, <3>2, FS_Subset
    <3> QED BY <1>1, <1>6, <2>1, <3>3
  <2>3. rank(i) \in Commits(o, 1, rank(j) - 1)
    BY <2>1, <2>2 DEF Commits
  <2>4. Before(CommitEvent(k, o, rank(i)), CommitEvent(k, o, rank(j)))
    BY <2>1, <2>2, <2>3, CommitEvents
  <2>5. evs[i] = CommitEvent(k, o, rank(i)) /\ evs[j] = CommitEvent(k, o, rank(j))
    BY <1>4
  <2> QED BY <2>4, <2>5, Zenon
<1>7. EventsOf(evs, k)
  <2> HIDE DEF n, rank
  <2> QED BY <1>4, <1>5, <1>6 DEF EventsOf
<1> QED BY <1>7, Zenon DEF evs

----------------------------------------------------------------------------
(* The steps.                                                              *)

\* The numbers that the invariant is about.
LEMMA Counts ==
    ASSUME QueueInv, CdcType
    PROVE  /\ Streamed \in Seq(Event) /\ Len(Streamed) = Len(events) + Len(cdcCh)
           /\ Len(Streamed) \in Nat /\ Len(events) \in Nat /\ Len(cdcCh) \in Nat
           /\ Len(posted) \in Nat /\ Len(out) \in Nat /\ Len(post.batch) \in Nat
           /\ post.batch \in Seq(Event)
           /\ \A i \in 1..Len(events) : Streamed[i] = events[i]
           /\ \A i \in 1..Len(cdcCh) : Streamed[Len(events) + i] = cdcCh[i]
<1>1. out \in Seq(Nat) /\ events \in Seq(Event) /\ cdcCh \in Seq(Event) /\ posted \in Seq(Seq(Event))
  BY DEF QueueInv, QueueTypeOK, CdcType
<1>2. post.batch \in Seq(Event)
  BY DEF CdcType, PostState
<1>3. PICK b \in Seq(Event) : b = post.batch
  BY <1>2
<1>4. Len(post.batch) \in Nat
  BY <1>3
<1> QED BY <1>1, <1>2, <1>4 DEF Streamed

\* Concatenation of events is associative.
LEMMA EventsAssoc == \A s, t, u \in Seq(Event) : (s \o t) \o u = s \o (t \o u)
BY ConcatAssociative

\* A prefix of the events of an entry is in order too.
LEMMA SomeEvents ==
    ASSUME NEW k, NEW evs, EventsOf(evs, k), NEW m \in 0..Len(evs)
    PROVE  EventsOf(SubSeq(evs, 1, m), k)
<1>1. evs \in Seq(Event) /\ Len(evs) \in Nat
  BY DEF EventsOf
<1>2. PICK s \in Seq(Event) : /\ s = SubSeq(evs, 1, m) /\ Len(s) = m
                              /\ \A i \in 1..m : s[i] = evs[i]
  <2>1. \A i \in 1..m : evs[i] \in Event
    BY <1>1
  <2>2. SubSeq(evs, 1, m) \in Seq(Event) /\ Len(SubSeq(evs, 1, m)) = m
        /\ \A i \in 1..m : SubSeq(evs, 1, m)[i] = evs[i]
    BY <1>1
  <2> QED BY <2>2
<1>3. \A i \in 1..m : i \in 1..Len(evs)
  BY <1>1
<1> QED BY <1>2, <1>3 DEF EventsOf

\* An event of an earlier entry comes before one of a later.
LEMMA LaterEntry ==
    ASSUME NEW n \in Nat, NEW e \in Event, NEW f \in Event, Captured(e, n), f.entry = n + 1
    PROVE  Before(e, f) /\ Captured(e, n + 1)
<1>1. e.entry \in Nat
  BY DEF Event
<1> QED BY <1>1 DEF Captured, Before

\* The next entry is applied and the channel takes the events new.
LEMMA StreamMore ==
    ASSUME CdcInv, NEW new, EventsOf(new, entry + 1), entry' = entry + 1,
           cdcCh' = cdcCh \o new, storedWatermark' \in {storedWatermark, highWatermark},
           UNCHANGED <<queueVars, events, post, posted, highWatermark>>
    PROVE  CdcInv'
<1>0. /\ new \in Seq(Event) /\ Len(new) \in Nat /\ entry \in Nat
      /\ \A i \in 1..Len(new) : new[i] \in Event /\ Captured(new[i], entry + 1) /\ new[i].entry = entry + 1
      /\ \A i, j \in 1..Len(new) : i < j => Before(new[i], new[j])
      /\ QueueInv /\ CdcType
  BY DEF EventsOf, CdcInv, CdcType
<1>1. QueueInv' /\ out' = out
  <2>1. [QueueNext]_queueVars
    OBVIOUS
  <2> QED BY <1>0, <2>1, QueueTypeStep, SeqLockStep, InOrderStep, TimerStep DEF QueueInv, queueVars
<1>2. CdcType' /\ Aligned' /\ BatchInHand' /\ First' = First
  <2>1. CdcType'
    BY <1>0, ConcatProperties DEF CdcType
  <2>2. seqNum' = seqNum /\ writer' = writer
    BY DEF queueVars
  <2> QED BY <1>1, <2>1, <2>2 DEF CdcInv, Aligned, BatchInHand, First
<1> DEFINE S == Streamed
           T == Streamed'
<1>3. /\ S \in Seq(Event) /\ Len(S) \in Nat /\ T \in Seq(Event) /\ Len(T) = Len(S) + Len(new)
      /\ \A i \in 1..Len(S) : T[i] = S[i]
      /\ \A i \in 1..Len(new) : T[Len(S) + i] = new[i]
  <2>1. S \in Seq(Event) /\ Len(S) \in Nat
    BY <1>0, Counts
  <2>2. T = S \o new
    <3>1. T = events \o (cdcCh \o new)
      BY DEF Streamed
    <3>2. events \in Seq(Event) /\ cdcCh \in Seq(Event)
      BY <1>0 DEF CdcType
    <3>3. (events \o cdcCh) \o new = events \o (cdcCh \o new)
      BY <1>0, <3>2, EventsAssoc, Zenon
    <3> QED BY <3>1, <3>3, Zenon DEF Streamed
  <2> HIDE DEF S, T
  <2> QED BY <1>0, <2>1, <2>2
<1>4. /\ \A i \in 1..Len(S) : S[i] \in Event /\ Captured(S[i], entry)
      /\ \A i, j \in 1..Len(S) : i < j => Before(S[i], S[j])
      /\ \A p \in 1..Len(posted) : posted[p] \in Seq(Event) /\ Delivery(posted[p], entry)
      /\ \A p, q \in 1..Len(posted) : p < q => Follows(posted[p], posted[q])
      /\ \A p \in 1..Len(posted) : Follows(posted[p], post.batch)
      /\ \A p \in 1..Len(posted), k \in 1..Len(S) : k > Len(out) => AllBefore(posted[p], S[k])
      /\ \A k \in 1..Len(S) : k > First => Ahead(S[k], highWatermark, storedWatermark)
      /\ highWatermark \in Nat /\ storedWatermark \in Nat /\ highWatermark <= entry /\ storedWatermark <= entry
  <2>1. posted \in Seq(Seq(Event))
    BY DEF CdcInv, CdcType
  <2>2. \A p \in 1..Len(posted) : posted[p] \in Seq(Event)
    BY <2>1
  <2>3. \A i \in 1..Len(S) : S[i] \in Event
    <3> HIDE DEF S
    <3> QED BY <1>3
  <2> QED BY <2>2, <2>3 DEF CdcInv, CdcType, StreamInOrder, PostedInOrder, Watermarks
<1> HIDE DEF S, T
<1>5. \A i \in 1..Len(T) : i \in 1..Len(S) \/ (i - Len(S) \in 1..Len(new) /\ T[i] = new[i - Len(S)])
  <2> TAKE i \in 1..Len(T)
  <2>1. CASE i > Len(S)
    <3>1. i - Len(S) \in 1..Len(new) /\ Len(S) + (i - Len(S)) = i
      BY <1>0, <1>3, <2>1
    <3> QED BY <1>3, <3>1
  <2>2. CASE i <= Len(S)
    <3>1. i \in 1..(Len(S) + Len(new))
      BY <1>3
    <3>2. i \in 1..Len(S)
      BY <1>0, <1>3, <2>2, <3>1
    <3> QED BY <3>2
  <2> QED BY <1>0, <1>3, <2>1, <2>2
<1>6. ASSUME NEW i \in 1..Len(T) PROVE Captured(T[i], entry + 1)
  <2>1. CASE i \in 1..Len(S)
    <3>1. PICK e \in Event : e = S[i] /\ Captured(e, entry)
      BY <1>4, <2>1
    <3>2. Captured(e, entry + 1)
      BY <1>0, <3>1 DEF Captured, Event
    <3> QED BY <1>3, <2>1, <3>1, <3>2
  <2>2. CASE i \notin 1..Len(S)
    BY <1>0, <1>5, <2>2
  <2> QED BY <2>1, <2>2
<1>7. ASSUME NEW i \in 1..Len(T), NEW j \in 1..Len(T), i < j PROVE Before(T[i], T[j])
  <2>1. CASE j \in 1..Len(S)
    <3>1. i \in 1..Len(S)
      BY <1>3, <1>7, <2>1
    <3> QED BY <1>3, <1>4, <1>7, <2>1, <3>1
  <2>2. CASE j \notin 1..Len(S) /\ i \in 1..Len(S)
    <3>1. T[j] \in Event /\ T[j].entry = entry + 1
      BY <1>0, <1>5, <2>2
    <3> QED BY <1>0, <1>3, <1>4, <2>2, <3>1, LaterEntry
  <2>3. CASE j \notin 1..Len(S) /\ i \notin 1..Len(S)
    <3>1. /\ i - Len(S) \in 1..Len(new) /\ T[i] = new[i - Len(S)]
          /\ j - Len(S) \in 1..Len(new) /\ T[j] = new[j - Len(S)]
      BY <1>5, <2>3
    <3>2. i - Len(S) < j - Len(S)
      BY <1>3, <1>7
    <3> QED BY <1>0, <3>1, <3>2
  <2> QED BY <2>1, <2>2, <2>3
<1>8. StreamInOrder'
  BY <1>6, <1>7 DEF StreamInOrder, T
<1>9. PostedInOrder'
  <2>1. ASSUME NEW p \in 1..Len(posted) PROVE Delivery(posted[p], entry + 1)
    <3>1. PICK b \in Seq(Event) : b = posted[p] /\ Delivery(b, entry)
      BY <1>4
    <3>2. \A i \in 1..Len(b) : b[i] \in Event
      BY <3>1
    <3>3. \A i \in 1..Len(b) : Captured(b[i], entry + 1)
      BY <1>0, <3>1, <3>2 DEF Delivery, Captured, Event
    <3> QED BY <3>1, <3>3 DEF Delivery
  <2>2. ASSUME NEW p \in 1..Len(posted), NEW k \in 1..Len(T), k > Len(out) PROVE AllBefore(posted[p], T[k])
    <3>1. CASE k \in 1..Len(S)
      BY <1>3, <1>4, <2>2, <3>1
    <3>2. CASE k \notin 1..Len(S)
      <4>1. T[k] \in Event /\ T[k].entry = entry + 1
        BY <1>0, <1>5, <3>2
      <4>2. PICK b \in Seq(Event) : b = posted[p] /\ Delivery(b, entry)
        BY <1>4
      <4>3. \A i \in 1..Len(b) : b[i] \in Event /\ Captured(b[i], entry)
        BY <4>2 DEF Delivery
      <4>4. \A i \in 1..Len(b) : Before(b[i], T[k])
        BY <1>0, <4>1, <4>3, LaterEntry
      <4> QED BY <4>2, <4>4 DEF AllBefore
    <3> QED BY <3>1, <3>2
  <2>3. posted' = posted /\ post' = post /\ out' = out /\ entry' = entry + 1
    BY <1>1
  <2> QED BY <1>4, <2>1, <2>2, <2>3 DEF PostedInOrder, T
<1>10. Watermarks'
  <2>1. ASSUME NEW e \in Event, Ahead(e, highWatermark, storedWatermark) PROVE Ahead(e, highWatermark', storedWatermark')
    BY <2>1 DEF Ahead
  <2>2. ASSUME NEW k \in 1..Len(T), k > First PROVE Ahead(T[k], highWatermark', storedWatermark')
    <3>1. CASE k \in 1..Len(S)
      BY <1>3, <1>4, <2>1, <2>2, <3>1
    <3>2. CASE k \notin 1..Len(S)
      <4>1. PICK e \in Event : e = T[k] /\ e.index \in {0, entry + 1}
        BY <1>0, <1>5, <3>2 DEF Captured
      <4>2. Ahead(e, highWatermark', storedWatermark')
        BY <1>0, <1>4, <4>1 DEF Ahead
      <4> QED BY <4>1, <4>2
    <3> QED BY <3>1, <3>2
  <2>3. highWatermark' <= entry' /\ storedWatermark' <= entry'
    BY <1>0, <1>4
  <2> QED BY <1>2, <2>2, <2>3 DEF Watermarks, T
<1> QED BY <1>1, <1>2, <1>8, <1>9, <1>10 DEF CdcInv

\* Nothing is captured or posted: events only move on, and a new batch in hand is of
\* events that were in none.
LEMMA OnlyMoves ==
    ASSUME CdcInv, Streamed' = Streamed, First <= First', First' \in Nat, First \in Nat,
           Len(out) <= Len(out'), Len(out') \in Nat, Len(out) \in Nat,
           UNCHANGED <<entry, posted, highWatermark, storedWatermark>>,
           \/ post'.batch = post.batch
           \/ \A i \in 1..Len(post'.batch) : \E k \in 1..Len(Streamed) :
                 k > Len(out) /\ post'.batch[i] = Streamed[k]
    PROVE  StreamInOrder' /\ PostedInOrder' /\ Watermarks'
<1>0. Len(Streamed) \in Nat
  BY Counts DEF CdcInv
<1>1. StreamInOrder'
  BY DEF CdcInv, StreamInOrder
<1>2. \A k \in 1..Len(Streamed) : (k > First' => k > First) /\ (k > Len(out') => k > Len(out))
  BY <1>0
<1>3. ASSUME NEW p \in 1..Len(posted) PROVE Follows(posted[p], post'.batch)
  <2>1. Follows(posted[p], post.batch)
    BY DEF CdcInv, PostedInOrder
  <2>2. \A k \in 1..Len(Streamed) : k > Len(out) => AllBefore(posted[p], Streamed[k])
    BY DEF CdcInv, PostedInOrder
  <2>3. CASE post'.batch = post.batch
    BY <2>1, <2>3
  <2>4. CASE \A i \in 1..Len(post'.batch) : \E k \in 1..Len(Streamed) :
                k > Len(out) /\ post'.batch[i] = Streamed[k]
    <3>1. \A j \in 1..Len(post'.batch) : AllBefore(posted[p], post'.batch[j])
      BY <2>2, <2>4, Zenon
    <3> QED BY <3>1, Zenon DEF Follows
  <2> QED BY <2>3, <2>4
<1>4. PostedInOrder'
  BY <1>2, <1>3 DEF CdcInv, PostedInOrder
<1>5. Watermarks'
  BY <1>2 DEF CdcInv, Watermarks, Ahead
<1> QED BY <1>1, <1>4, <1>5

\* The endpoint takes the batch in hand, perhaps once more, and the watermark may follow.
LEMMA PostedMore ==
    ASSUME CdcInv, post.batch # << >>, Streamed' = Streamed, out' = out,
           posted' = Append(posted, post.batch), First' \in Nat, First <= First',
           post'.batch = post.batch \/ post'.batch = << >>,
           UNCHANGED <<entry, storedWatermark>>,
           \/ highWatermark' = highWatermark
           \/ highWatermark' = post.batch[Len(post.batch)].index /\ First' = Len(out)
    PROVE  posted' \in Seq(Seq(Event)) /\ highWatermark' \in Nat
           /\ StreamInOrder' /\ PostedInOrder' /\ Watermarks'
<1> DEFINE S == Streamed
<1>0. PICK b \in Seq(Event), l \in Nat : b = post.batch /\ l = Len(b)
  <2>1. post.batch \in Seq(Event) /\ Len(post.batch) \in Nat
    BY Counts DEF CdcInv
  <2> QED BY <2>1
<1>1. /\ S \in Seq(Event) /\ Len(S) \in Nat /\ Len(out) \in Nat /\ Len(posted) \in Nat
      /\ First \in Nat /\ Len(out) <= Len(S) /\ First + l = Len(out) /\ l > 0
      /\ \A i \in 1..l : b[i] = S[First + i] /\ First + i \in 1..Len(S)
  <2>1. /\ S \in Seq(Event) /\ Len(S) \in Nat /\ Len(out) \in Nat /\ Len(posted) \in Nat
        /\ First \in Nat /\ Len(out) <= Len(events) /\ Len(events) <= Len(S) /\ Len(events) \in Nat
        /\ \A i \in 1..Len(events) : S[i] = events[i]
    BY Counts DEF CdcInv, BatchInHand
  <2>2. First + l = Len(out)
    BY <1>0, <2>1 DEF First
  <2>3. l > 0
    BY <1>0
  <2>4. \A i \in 1..l : b[i] = events[First + i] /\ First + i \in 1..Len(events)
    BY <1>0, <2>1, <2>2 DEF CdcInv, BatchInHand
  <2> QED BY <2>1, <2>2, <2>3, <2>4
<1>2. /\ \A i \in 1..Len(S) : S[i] \in Event /\ Captured(S[i], entry)
      /\ \A i, j \in 1..Len(S) : i < j => Before(S[i], S[j])
      /\ \A p \in 1..Len(posted) : Delivery(posted[p], entry)
      /\ \A p, q \in 1..Len(posted) : p < q => Follows(posted[p], posted[q])
      /\ \A p \in 1..Len(posted) : Follows(posted[p], b)
      /\ \A p \in 1..Len(posted), k \in 1..Len(S) : k > Len(out) => AllBefore(posted[p], S[k])
      /\ \A k \in 1..Len(S) : k > First => Ahead(S[k], highWatermark, storedWatermark)
      /\ highWatermark \in Nat /\ storedWatermark \in Nat /\ highWatermark <= entry /\ storedWatermark <= entry /\ entry \in Nat
  <2>1. \A i \in 1..Len(S) : S[i] \in Event
    <3> HIDE DEF S
    <3> QED BY <1>1
  <2> QED BY <1>0, <2>1 DEF CdcInv, CdcType, StreamInOrder, PostedInOrder, Watermarks
<1>3. /\ posted' \in Seq(Seq(Event)) /\ Len(posted') = Len(posted) + 1
      /\ \A p \in 1..Len(posted) : posted'[p] = posted[p]
      /\ posted'[Len(posted) + 1] = b
  <2>1. posted \in Seq(Seq(Event)) /\ posted' = Append(posted, b)
    BY <1>0 DEF CdcInv, CdcType
  <2> QED BY <1>0, <2>1, AppendProperties
<1> HIDE DEF S
<1>4. \A p \in 1..Len(posted') : p \in 1..Len(posted) \/ p = Len(posted) + 1
  BY <1>1, <1>3
<1>5. ASSUME NEW p \in 1..Len(posted') PROVE Delivery(posted'[p], entry) /\ Follows(posted'[p], b)
  <2>1. CASE p \in 1..Len(posted)
    BY <1>2, <1>3, <2>1
  <2>2. CASE p = Len(posted) + 1
    <3>1. \A i \in 1..l : Captured(b[i], entry)
      BY <1>1, <1>2
    <3>2. ASSUME NEW i \in 1..l, NEW j \in 1..l, i < j PROVE Before(b[i], b[j])
      <4>1. First + i < First + j
        BY <1>1, <3>2
      <4> QED BY <1>1, <1>2, <4>1
    <3>3. Delivery(b, entry)
      BY <1>0, <3>1, <3>2 DEF Delivery
    <3> QED BY <1>3, <2>2, <3>3 DEF Follows
  <2> QED BY <1>4, <2>1, <2>2
<1>6. ASSUME NEW p \in 1..Len(posted'), NEW q \in 1..Len(posted'), p < q PROVE Follows(posted'[p], posted'[q])
  <2>1. CASE q \in 1..Len(posted)
    <3>1. p \in 1..Len(posted)
      BY <1>1, <1>3, <1>6, <2>1
    <3> QED BY <1>2, <1>3, <1>6, <2>1, <3>1
  <2>2. CASE q = Len(posted) + 1
    BY <1>3, <1>5, <2>2
  <2> QED BY <1>4, <2>1, <2>2
<1>7. ASSUME NEW p \in 1..Len(posted'), NEW k \in 1..Len(S), k > Len(out) PROVE AllBefore(posted'[p], S[k])
  <2>1. CASE p \in 1..Len(posted)
    BY <1>2, <1>3, <1>7, <2>1
  <2>2. CASE p = Len(posted) + 1
    <3>1. ASSUME NEW i \in 1..l PROVE Before(b[i], S[k])
      <4>1. First + i \in 1..Len(S) /\ First + i < k /\ b[i] = S[First + i]
        BY <1>0, <1>1, <1>7
      <4> QED BY <1>2, <4>1
    <3> QED BY <1>0, <1>3, <2>2, <3>1 DEF AllBefore
  <2> QED BY <1>4, <2>1, <2>2
<1>8. PostedInOrder'
  <2>1. Streamed' = S
    BY DEF S
  <2>2. ASSUME NEW p \in 1..Len(posted') PROVE Follows(posted'[p], post'.batch)
    <3>1. CASE post'.batch = post.batch
      BY <1>0, <1>5, <3>1
    <3>2. CASE post'.batch = << >>
      BY <3>2 DEF Follows
    <3> QED BY <3>1, <3>2
  <2> QED BY <1>5, <1>6, <1>7, <2>1, <2>2 DEF PostedInOrder
<1>9. StreamInOrder'
  BY DEF CdcInv, StreamInOrder
<1>10. highWatermark' \in Nat /\ Watermarks'
  <2>1. Streamed' = S
    BY DEF S
  <2>2. CASE highWatermark' = highWatermark
    <3>1. \A k \in 1..Len(S) : k > First' => k > First
      BY <1>1
    <3> QED BY <1>2, <2>1, <2>2, <3>1 DEF Watermarks, Ahead
  <2>3. CASE highWatermark' = post.batch[Len(post.batch)].index /\ First' = Len(out)
    <3>1. PICK e \in Event : e = S[Len(out)]
      BY <1>1, <1>2
    <3>2. highWatermark' = e.index /\ Captured(e, entry) /\ e.index \in Nat /\ e.entry \in Nat
      <4>0. l \in 1..l
        BY <1>0, <1>1
      <4>1. b[l] = S[Len(out)] /\ Len(out) \in 1..Len(S)
        BY <1>1, <4>0
      <4>2. highWatermark' = b[l].index
        BY <1>0, <2>3
      <4> QED BY <1>2, <3>1, <4>1, <4>2 DEF Event
    <3>3. ASSUME NEW k \in 1..Len(S), k > Len(out) PROVE Ahead(S[k], highWatermark', storedWatermark')
      <4>1. PICK f \in Event : f = S[k]
        BY <1>2
      <4>2. /\ Before(e, f) /\ Captured(f, entry) /\ Ahead(f, highWatermark, storedWatermark) /\ f.index \in Nat /\ f.entry \in Nat
        <5>1. Len(out) \in 1..Len(S) /\ k > First
          BY <1>0, <1>1, <3>3
        <5> QED BY <1>2, <3>1, <3>3, <4>1, <5>1 DEF Event
      <4>3. f.index = 0 \/ (f.index > highWatermark' /\ f.index > storedWatermark)
        BY <3>2, <4>2 DEF Before, Captured, Ahead
      <4> QED BY <4>1, <4>3 DEF Ahead
    <3>4. highWatermark' \in Nat /\ highWatermark' <= entry
      BY <1>2, <3>2 DEF Captured
    <3> QED BY <1>2, <2>1, <2>3, <3>3, <3>4 DEF Watermarks
  <2> QED BY <2>2, <2>3
<1> QED BY <1>3, <1>8, <1>9, <1>10

\* A service that has not started.
LEMMA CdcInitInv == CdcInit => CdcInv
<1> SUFFICES ASSUME CdcInit PROVE CdcInv
  OBVIOUS
<1>1. /\ QueueInv /\ out = << >> /\ seqNum = 0 /\ writer[Reader] = "idle"
  BY QueueInitInv, CdcParameters DEF CdcInit, QueueInit
<1>2. /\ entry = 0 /\ highWatermark = 0 /\ storedWatermark = 0 /\ cdcCh = << >> /\ events = << >>
      /\ posted = << >> /\ post = Idle
  BY DEF CdcInit
<1>3. /\ Idle \in PostState /\ Idle.batch = << >> /\ << >> \in Seq(Event) /\ << >> \in Seq(Seq(Event))
  <2>1. << >> \in Seq(Event) /\ << >> \in Seq(Seq(Event))
    OBVIOUS
  <2> QED BY <2>1 DEF Idle, PostState
<1>4. CdcType
  BY <1>2, <1>3 DEF CdcType
<1>5. Len(Streamed) = 0 /\ Len(events) = 0 /\ Len(posted) = 0 /\ Len(out) = 0 /\ Len(post.batch) = 0
  BY <1>1, <1>2, <1>3, <1>4, Counts
<1>6. Aligned /\ BatchInHand
  BY <1>1, <1>5 DEF Aligned, BatchInHand, First
<1>7. StreamInOrder /\ PostedInOrder /\ Watermarks
  BY <1>2, <1>5 DEF StreamInOrder, PostedInOrder, Watermarks
<1> QED BY <1>1, <1>4, <1>6, <1>7 DEF CdcInv

\* A step of the service is a step of its queue, or none.
LEMMA CdcStepsQueue == [CdcNext]_cdcVars => [QueueNext]_queueVars
<1> USE CdcParameters
<1> QED BY DEF CdcNext, cdcVars, QueueNext, Run, EnableCDC, DisableCDC, SwapDatabase, ApplyEntry,
       ReadEvent, PostReceive, PostOK, PostFail, WriteHighWatermark, LeaderChange, Stop, Exit, QueueStep

\* fsmApply, whether the hooks are registered or not, and the write of the watermark.
LEMMA ApplyKeeps ==
    ASSUME CdcInv, NEW o \in Outcomes, entry' = entry + 1,
           IF hooked THEN Stream(entry', o) ELSE UNCHANGED <<cdcCh, dropped>>,
           storedWatermark' \in {storedWatermark, highWatermark},
           UNCHANGED <<queueVars, events, post, posted, highWatermark>>
    PROVE  CdcInv'
<1>0. entry \in Nat /\ entry' \in Nat \ {0} /\ cdcCh \in Seq(Event)
  BY DEF CdcInv, CdcType
<1>1. CASE hooked
  <2>1. PICK evs : evs = CommitHook(entry', o) /\ EventsOf(evs, entry + 1)
    BY <1>0, HookEvents
  <2>2. evs \in Seq(Event) /\ Len(evs) \in Nat /\ ChanLen \in Nat /\ Len(cdcCh) \in Nat
    BY <1>0, <2>1, CdcParameters DEF EventsOf
  <2>3. PICK m : /\ m = (IF Len(evs) < ChanLen - Len(cdcCh) THEN Len(evs) ELSE ChanLen - Len(cdcCh))
                 /\ cdcCh' = cdcCh \o SubSeq(evs, 1, m)
    BY <1>1, <2>1 DEF Stream
  <2>4. CASE m \in 0..Len(evs)
    <3>1. EventsOf(SubSeq(evs, 1, m), entry + 1)
      BY <2>1, <2>4, SomeEvents
    <3> QED BY <2>3, <3>1, StreamMore
  <2>5. CASE m \notin 0..Len(evs)
    <3>1. m \in Int /\ m < 0
      BY <2>2, <2>3, <2>5
    <3>2. SubSeq(evs, 1, m) = << >> /\ SubSeq(evs, 1, 0) = << >>
      BY <2>2, <3>1
    <3>3. EventsOf(<< >>, entry + 1)
      <4>1. << >> \in Seq(Event)
        OBVIOUS
      <4> QED BY <4>1 DEF EventsOf
    <3> QED BY <2>3, <3>2, <3>3, StreamMore
  <2> QED BY <2>4, <2>5
<1>2. CASE ~hooked
  <2>1. EventsOf(<< >>, entry + 1)
    <3>1. << >> \in Seq(Event)
      OBVIOUS
    <3> QED BY <3>1 DEF EventsOf
  <2>2. cdcCh' = cdcCh \o << >>
    BY <1>0, <1>2
  <2> QED BY <2>1, <2>2, StreamMore
<1> QED BY <1>1, <1>2

\* readEvents: the event goes from the channel to the queue's writer.
LEMMA ReadKeeps == ASSUME CdcInv, QueueInv', ReadEvent PROVE CdcInv'
<1>1. /\ cdcCh \in Seq(Event) /\ cdcCh # << >> /\ events \in Seq(Event) /\ QueueInv /\ CdcType
      /\ events' = Append(events, Head(cdcCh)) /\ cdcCh' = Tail(cdcCh)
      /\ UNCHANGED <<entry, post, posted, highWatermark, storedWatermark, out, seqNum>>
      /\ seqNum \in Nat
  BY DEF CdcInv, CdcType, ReadEvent, WriteCheck, QueueInv, QueueTypeOK
<1>2. /\ Head(cdcCh) \in Event /\ Tail(cdcCh) \in Seq(Event)
      /\ Append(events, Head(cdcCh)) \in Seq(Event)
      /\ Len(events') = Len(events) + 1 /\ Len(events) \in Nat
      /\ \A i \in 1..Len(events) : events'[i] = events[i]
  <2>1. Head(cdcCh) \in Event /\ Tail(cdcCh) \in Seq(Event)
    BY <1>1, HeadTailProperties
  <2> QED BY <1>1, <2>1, AppendProperties
<1>3. CdcType'
  BY <1>1, <1>2 DEF CdcType
<1>4. Streamed' = Streamed
  <2>1. Append(events, Head(cdcCh)) = events \o <<Head(cdcCh)>>
    BY <1>1, <1>2, AppendIsConcat
  <2>2. <<Head(cdcCh)>> \in Seq(Event) /\ <<Head(cdcCh)>> \o Tail(cdcCh) = cdcCh
    BY <1>1, <1>2
  <2>3. (events \o <<Head(cdcCh)>>) \o Tail(cdcCh) = events \o (<<Head(cdcCh)>> \o Tail(cdcCh))
    BY <1>1, <1>2, <2>2, EventsAssoc, Zenon
  <2> QED BY <1>1, <2>1, <2>2, <2>3, Zenon DEF Streamed
<1>5. First' = First /\ First \in Nat /\ Len(out) \in Nat
  <2>1. First' = First
    BY <1>1 DEF First
  <2>2. First \in Nat /\ Len(out) \in Nat
    BY <1>1, Counts DEF CdcInv, BatchInHand
  <2> QED BY <2>1, <2>2
<1>6. Aligned' /\ BatchInHand'
  <2>1. seqNum <= Len(events) /\ Len(out) <= Len(events) /\ Len(out) \in Nat
    BY <1>1, Counts DEF CdcInv, Aligned, BatchInHand
  <2>2. Aligned'
    BY <1>1, <1>2, <2>1 DEF Aligned
  <2>3. \A i \in 1..Len(post.batch) : First + i \in 1..Len(events)
    BY <1>1, <1>5, <2>1, Counts DEF First
  <2>4. BatchInHand'
    BY <1>1, <1>2, <1>5, <2>1, <2>3 DEF CdcInv, BatchInHand
  <2> QED BY <2>2, <2>4
<1> QED BY <1>1, <1>3, <1>4, <1>5, <1>6, OnlyMoves DEF CdcInv

\* The queue moves elements, and the numbers it gives out stay behind the events.
LEMMA QueueKeeps ==
    ASSUME CdcInv, QueueInv',
           WriteLock(Reader) \/ WriteSend(Reader) \/ RunBatch \/ RunTimeout \/ RunSend
               \/ UNCHANGED queueVars,
           UNCHANGED <<entry, cdcCh, events, post, posted, highWatermark, storedWatermark>>
    PROVE  CdcInv'
<1>1. out' = out /\ QueueInv /\ CdcType /\ CdcType'
  BY DEF CdcInv, CdcType, WriteLock, WriteSend, RunBatch, RunTimeout, RunSend, queueVars
<1>2. First' = First /\ First \in Nat /\ Len(out) \in Nat /\ Streamed' = Streamed
  <2>1. First' = First /\ Streamed' = Streamed
    BY <1>1 DEF First, Streamed
  <2>2. First \in Nat /\ Len(out) \in Nat
    BY <1>1, Counts DEF CdcInv, BatchInHand
  <2> QED BY <2>1, <2>2
<1>3. Aligned'
  <2>1. /\ seqNum \in Nat /\ Len(events) \in Nat /\ writer \in [Writers -> {"idle", "checked", "locked"}]
        /\ Reader \in Writers
    BY <1>1, Counts, CdcParameters DEF QueueInv, QueueTypeOK
  <2>2. \/ seqNum' = seqNum /\ writer' = writer
        \/ seqNum' = seqNum /\ writer'[Reader] = "idle"
        \/ seqNum' = seqNum + 1 /\ writer[Reader] = "checked" /\ writer'[Reader] = "locked"
    BY <2>1 DEF WriteLock, WriteSend, RunBatch, RunTimeout, RunSend, queueVars
  <2> QED BY <2>1, <2>2 DEF CdcInv, Aligned
<1>4. BatchInHand'
  BY <1>1, <1>2 DEF CdcInv, BatchInHand
<1> QED BY <1>1, <1>2, <1>3, <1>4, OnlyMoves DEF CdcInv

\* postEvents takes the next batch, or drops it when the node is not the leader.
LEMMA ReceiveKeeps == ASSUME CdcInv, QueueInv', PostReceive PROVE CdcInv'
<1>0. /\ QueueInv /\ CdcType /\ post = Idle /\ post.batch = << >>
      /\ out' = out \o sendCh /\ out \in Seq(Nat) /\ sendCh \in Seq(Nat)
      /\ UNCHANGED <<entry, cdcCh, events, posted, highWatermark, storedWatermark, seqNum, writer>>
  BY DEF CdcInv, PostReceive, Receive, Idle, QueueInv, QueueTypeOK
<1>1. /\ First = Len(out) /\ Len(out) \in Nat /\ Len(sendCh) \in Nat
      /\ Len(out') = Len(out) + Len(sendCh) /\ Len(events) \in Nat /\ Len(out') <= Len(events)
      /\ Len(out') \in Nat
  <2>1. /\ First = Len(out) /\ Len(out) \in Nat /\ Len(sendCh) \in Nat
        /\ Len(out') = Len(out) + Len(sendCh) /\ Len(events) \in Nat
    BY <1>0, Counts, ConcatProperties DEF First
  <2>2. Len(out') <= Len(in') /\ Len(in') <= seqNum /\ seqNum \in Nat /\ Len(in') \in Nat
    <3>1. /\ in' = out' \o sendCh' \o queued' \o batchCh' /\ out' \in Seq(Nat) /\ sendCh' \in Seq(Nat)
          /\ queued' \in Seq(Nat) /\ batchCh' \in Seq(Nat) /\ in' \in Seq(Nat) /\ seqNum \in Nat
          /\ Len(in') = IF seqMu' = Nobody THEN seqNum ELSE seqNum - 1
      BY <1>0 DEF QueueInv, QueueTypeOK, InOrder, SeqLock
    <3>2. Len(out' \o sendCh' \o queued' \o batchCh') = Len(out') + Len(sendCh') + Len(queued') + Len(batchCh')
      BY <3>1
    <3>3. /\ Len(out') \in Nat /\ Len(sendCh') \in Nat /\ Len(queued') \in Nat /\ Len(batchCh') \in Nat
          /\ Len(in') \in Nat
      BY <3>1
    <3> QED BY <3>1, <3>2, <3>3
  <2>3. seqNum <= Len(events)
    BY DEF CdcInv, Aligned
  <2> QED BY <2>1, <2>2, <2>3
<1>2. Streamed' = Streamed /\ Aligned'
  BY <1>0 DEF Streamed, CdcInv, Aligned
<1>3. CASE isLeader
  <2>1. PICK b : b = Batch(sendCh) /\ post' = [batch |-> b, attempts |-> 0]
    BY <1>3 DEF PostReceive, Idle
  <2>2. b \in Seq(Event) /\ Len(b) = Len(sendCh) /\ \A i \in 1..Len(sendCh) : b[i] = events[Len(out) + i]
    <3>1. DOMAIN sendCh = 1..Len(sendCh) /\ \A i \in 1..Len(sendCh) : sendCh[i] = Len(out) + i
      BY <1>0, Numbers
    <3>2. b = [i \in 1..Len(sendCh) |-> events[Len(out) + i]]
      BY <2>1, <3>1 DEF Batch
    <3>3. \A i \in 1..Len(sendCh) : Len(out) + i \in 1..Len(events)
      BY <1>1
    <3>4. events \in Seq(Event)
      BY <1>0 DEF CdcType
    <3>5. \A i \in 1..Len(sendCh) : events[Len(out) + i] \in Event
      BY <3>3, <3>4
    <3> QED BY <1>1, <3>2, <3>5
  <2>3. post' \in PostState /\ post'.batch = b
    BY <2>1, <2>2 DEF PostState
  <2>4. First' = Len(out)
    BY <1>1, <2>2, <2>3 DEF First
  <2>5. BatchInHand'
    BY <1>0, <1>1, <2>2, <2>3, <2>4 DEF BatchInHand
  <2>6. CdcType'
    BY <1>0, <2>3 DEF CdcType
  <2>7. \A i \in 1..Len(post'.batch) : \E k \in 1..Len(Streamed) :
           k > Len(out) /\ post'.batch[i] = Streamed[k]
    <3>1. ASSUME NEW i \in 1..Len(sendCh) PROVE \E k \in 1..Len(Streamed) : k > Len(out) /\ b[i] = Streamed[k]
      <4>1. Len(out) + i \in 1..Len(events) /\ Len(out) + i > Len(out)
        BY <1>1
      <4>2. Streamed[Len(out) + i] = events[Len(out) + i] /\ Len(out) + i \in 1..Len(Streamed)
        BY <1>0, <1>1, <4>1, Counts
      <4> QED BY <2>2, <4>1, <4>2
    <3> QED BY <2>2, <2>3, <3>1
  <2>8. StreamInOrder' /\ PostedInOrder' /\ Watermarks'
    BY <1>0, <1>1, <1>2, <2>4, <2>7, OnlyMoves
  <2> QED BY <1>2, <2>5, <2>6, <2>8 DEF CdcInv
<1>4. CASE ~isLeader
  <2>1. post' = post /\ CdcType'
    BY <1>0, <1>4 DEF PostReceive, CdcType
  <2>2. First' = Len(out')
    <3>1. Len(post'.batch) = 0
      BY <1>0, <2>1
    <3> QED BY <1>1, <3>1 DEF First
  <2>3. BatchInHand'
    BY <1>0, <1>1, <2>1, <2>2 DEF BatchInHand
  <2> QED BY <1>0, <1>1, <1>2, <2>1, <2>2, <2>3, OnlyMoves DEF CdcInv
<1> QED BY <1>3, <1>4

\* The record of the post: given up or done, and after a failed attempt.
LEMMA PostRecords ==
    ASSUME NEW p \in PostState
    PROVE  /\ Idle \in PostState /\ Idle.batch = << >>
           /\ [p EXCEPT !.attempts = @ + 1] \in PostState
           /\ [p EXCEPT !.attempts = @ + 1].batch = p.batch
<1>1. Idle \in PostState /\ Idle.batch = << >>
  <2>1. << >> \in Seq(Event)
    OBVIOUS
  <2> QED BY <2>1 DEF Idle, PostState
<1>2. [p EXCEPT !.attempts = @ + 1] \in PostState
  BY DEF PostState
<1>3. [p EXCEPT !.attempts = @ + 1].batch = p.batch
  BY DEF PostState
<1> QED BY <1>1, <1>2, <1>3

\* An attempt to post ends.
LEMMA PostKeeps ==
    ASSUME CdcInv, QueueInv', PostOK \/ \E taken \in BOOLEAN : PostFail(taken)
    PROVE  CdcInv'
<1>0. /\ QueueInv /\ CdcType /\ post \in PostState
      /\ UNCHANGED <<entry, cdcCh, events, storedWatermark, out, seqNum, writer>>
      /\ Len(out) \in Nat /\ Len(post.batch) \in Nat /\ First \in Nat /\ First <= Len(out)
      /\ post.batch # << >> /\ Len(<< >>) = 0
  <2>1. QueueInv /\ CdcType /\ post \in PostState
    BY DEF CdcInv, CdcType
  <2>2. UNCHANGED <<entry, cdcCh, events, storedWatermark, out, seqNum, writer>> /\ post.batch # << >>
    BY DEF PostOK, PostFail, queueVars
  <2>3. /\ Len(out) \in Nat /\ Len(post.batch) \in Nat /\ First \in Nat
    BY <2>1, Counts DEF CdcInv, BatchInHand
  <2>4. First <= Len(out)
    BY <2>3 DEF First
  <2> QED BY <2>1, <2>2, <2>3, <2>4
<1>1. Streamed' = Streamed /\ Aligned'
  BY <1>0 DEF Streamed, CdcInv, Aligned
<1>2. ASSUME post' = Idle PROVE First' = Len(out) /\ BatchInHand' /\ post' \in PostState /\ post'.batch = << >>
  <2>1. post' \in PostState /\ post'.batch = << >>
    BY <1>0, <1>2, PostRecords
  <2>2. First' = Len(out)
    BY <1>0, <2>1 DEF First
  <2> QED BY <1>0, <2>1, <2>2 DEF CdcInv, BatchInHand
<1>3. ASSUME post'.batch = post.batch PROVE First' = First /\ BatchInHand'
  BY <1>0, <1>3 DEF CdcInv, BatchInHand, First
<1>4. CASE PostOK
  <2>1. /\ posted' = Append(posted, post.batch) /\ post' = Idle
        /\ highWatermark' = post.batch[Len(post.batch)].index
    BY <1>4 DEF PostOK
  <2>2. posted' \in Seq(Seq(Event)) /\ highWatermark' \in Nat /\ StreamInOrder' /\ PostedInOrder' /\ Watermarks'
    BY <1>0, <1>1, <1>2, <2>1, PostedMore
  <2> QED BY <1>0, <1>1, <1>2, <2>1, <2>2 DEF CdcInv, CdcType
<1>5. ASSUME NEW taken \in BOOLEAN, PostFail(taken) PROVE CdcInv'
  <2>0. highWatermark' = highWatermark
    BY <1>5 DEF PostFail
  <2>1. \/ post' = Idle
        \/ post' \in PostState /\ post'.batch = post.batch
    <3>1. post' = Idle \/ post' = [post EXCEPT !.attempts = @ + 1]
      BY <1>5, Zenon DEF PostFail
    <3>2. /\ [post EXCEPT !.attempts = @ + 1] \in PostState
          /\ [post EXCEPT !.attempts = @ + 1].batch = post.batch
      BY <1>0, PostRecords
    <3> QED BY <3>1, <3>2, Zenon
  <2>2. /\ post' \in PostState /\ BatchInHand' /\ First' \in Nat /\ First <= First'
        /\ post'.batch = post.batch \/ post'.batch = << >>
    <3>1. CASE post' = Idle
      BY <1>0, <1>2, <3>1
    <3>2. CASE post' \in PostState /\ post'.batch = post.batch
      BY <1>0, <1>3, <3>2
    <3> QED BY <2>1, <3>1, <3>2
  <2>3. CASE taken
    <3>1. posted' = Append(posted, post.batch)
      BY <1>5, <2>3 DEF PostFail
    <3>2. posted' \in Seq(Seq(Event)) /\ StreamInOrder' /\ PostedInOrder' /\ Watermarks'
      BY <1>0, <1>1, <2>0, <2>2, <3>1, PostedMore
    <3> QED BY <1>0, <1>1, <2>0, <2>2, <3>2 DEF CdcInv, CdcType
  <2>4. CASE ~taken
    <3>1. posted' = posted
      BY <1>5, <2>4 DEF PostFail
    <3>2. \/ post'.batch = post.batch
          \/ \A i \in 1..Len(post'.batch) : \E k \in 1..Len(Streamed) :
                k > Len(out) /\ post'.batch[i] = Streamed[k]
      BY <2>2
    <3>3. StreamInOrder' /\ PostedInOrder' /\ Watermarks'
      BY <1>0, <1>1, <2>0, <2>2, <3>1, <3>2, OnlyMoves
    <3> QED BY <1>0, <1>1, <2>0, <2>2, <3>1, <3>3 DEF CdcInv, CdcType
  <2> QED BY <2>3, <2>4
<1> QED BY <1>4, <1>5

\* Every step of the service.
LEMMA CdcStepInv == CdcInv /\ [CdcNext]_cdcVars => CdcInv'
<1> SUFFICES ASSUME CdcInv, [CdcNext]_cdcVars PROVE CdcInv'
  OBVIOUS
<1>1. QueueInv'
  BY CdcStepsQueue, QueueTypeStep, SeqLockStep, InOrderStep, TimerStep DEF QueueInv, CdcInv
<1>2. ASSUME NEW o \in Outcomes, ApplyEntry(o) PROVE CdcInv'
  BY <1>2, ApplyKeeps DEF ApplyEntry
<1>3. CASE WriteHighWatermark
  <2>1. <<"commit">> \in Outcomes
    BY DEF Outcomes
  <2> QED BY <1>3, <2>1, ApplyKeeps DEF WriteHighWatermark
<1>4. CASE \/ EnableCDC \/ DisableCDC \/ SwapDatabase \/ LeaderChange \/ Stop
           \/ (\E g \in Goroutines : Exit(g)) \/ QueueStep \/ UNCHANGED cdcVars
  BY <1>1, <1>4, QueueKeeps DEF EnableCDC, DisableCDC, SwapDatabase, LeaderChange, Stop, Exit, QueueStep,
     cdcVars, eventVars
<1> QED BY <1>1, <1>2, <1>3, <1>4, ReadKeeps, ReceiveKeeps, PostKeeps DEF CdcNext, Outcomes

\* Whatever attempts fail, batches are taken without an answer or sent again, and
\* however leadership comes and goes: every batch reaches the endpoint in order, a
\* later one is an earlier one once more or all after it, and no event that still
\* waits is behind the high watermark (cdc/service.go, postEvents and
\* writeHighWatermarkLoop; db/cdc.go, CommitHook).
THEOREM EventsDeliveredInOrder == CdcSpec => []DeliveredInOrder
<1>1. ASSUME CdcInv PROVE DeliveredInOrder
  <2>0. /\ QueueInv /\ CdcType /\ Len(Streamed) \in Nat /\ Len(posted) \in Nat /\ Len(events) \in Nat
        /\ Len(cdcCh) \in Nat /\ Len(out) \in Nat /\ First \in Nat /\ Len(post.batch) \in Nat
        /\ Len(Streamed) = Len(events) + Len(cdcCh) /\ First + Len(post.batch) = Len(out)
        /\ Len(out) <= Len(events)
        /\ DOMAIN posted = 1..Len(posted) /\ DOMAIN cdcCh = 1..Len(cdcCh)
        /\ DOMAIN post.batch = 1..Len(post.batch)
    <3>1. QueueInv /\ CdcType
      BY <1>1 DEF CdcInv
    <3>2. First \in Nat /\ Len(out) <= Len(events)
      BY <1>1 DEF CdcInv, BatchInHand
    <3>3. posted \in Seq(Seq(Event)) /\ cdcCh \in Seq(Event) /\ post.batch \in Seq(Event)
      BY <3>1, Counts DEF CdcType
    <3> QED BY <3>1, <3>2, <3>3, Counts DEF First
  <2>1. ASSUME NEW e, NEW f, Before(e, f) PROVE CapturedBefore(e, f)
    BY <2>1 DEF Before, CapturedBefore
  <2>5. \A p \in DOMAIN posted : posted[p] \in Seq(Event) /\ DOMAIN posted[p] = 1..Len(posted[p])
    <3>1. posted \in Seq(Seq(Event))
      BY <2>0 DEF CdcType
    <3> QED BY <3>1
  <2>6. ASSUME NEW p \in DOMAIN posted, NEW i \in DOMAIN posted[p], NEW j \in DOMAIN posted[p], i < j
        PROVE  CapturedBefore(posted[p][i], posted[p][j])
    <3>1. Delivery(posted[p], entry)
      BY <1>1, <2>0 DEF CdcInv, PostedInOrder
    <3>2. Before(posted[p][i], posted[p][j])
      BY <2>5, <2>6, <3>1 DEF Delivery
    <3> QED BY <2>1, <3>2
  <2>7. ASSUME NEW p \in DOMAIN posted, NEW q \in DOMAIN posted, p < q, posted[p] # posted[q],
               NEW i \in DOMAIN posted[p], NEW j \in DOMAIN posted[q]
        PROVE  CapturedBefore(posted[p][i], posted[q][j])
    <3>1. Follows(posted[p], posted[q])
      BY <1>1, <2>0, <2>7 DEF CdcInv, PostedInOrder
    <3>2. Before(posted[p][i], posted[q][j])
      BY <2>5, <2>7, <3>1, Zenon DEF Follows, AllBefore
    <3> QED BY <2>1, <3>2
  <2>2. \A k \in 1..Len(Streamed) : k > First => Ahead(Streamed[k], highWatermark, storedWatermark)
    BY <1>1 DEF CdcInv, Watermarks
  <2>3. ASSUME NEW ev \in Unsent PROVE \E k \in 1..Len(Streamed) : k > First /\ ev = Streamed[k]
    <3>1. CASE ev \in {cdcCh[i] : i \in DOMAIN cdcCh}
      <4>1. PICK i \in 1..Len(cdcCh) : ev = cdcCh[i]
        BY <2>0, <3>1
      <4>2. Streamed[Len(events) + i] = ev
        BY <2>0, <4>1, Counts
      <4>3. Len(events) + i \in 1..Len(Streamed) /\ Len(events) + i > First
        BY <2>0
      <4> QED BY <4>2, <4>3
    <3>2. CASE ev \in {events[i] : i \in Len(out)+1..Len(events)}
      <4>1. PICK i \in Len(out)+1..Len(events) : ev = events[i]
        BY <3>2
      <4>2. i \in 1..Len(events) /\ i \in 1..Len(Streamed) /\ i > First
        BY <2>0
      <4> QED BY <2>0, <4>1, <4>2, Counts
    <3>3. CASE ev \in {post.batch[i] : i \in DOMAIN post.batch}
      <4>1. PICK i \in 1..Len(post.batch) : ev = post.batch[i]
        BY <2>0, <3>3
      <4>2. ev = events[First + i]
        BY <1>1, <4>1 DEF CdcInv, BatchInHand
      <4>3. First + i \in 1..Len(events) /\ First + i \in 1..Len(Streamed) /\ First + i > First
        BY <2>0
      <4> QED BY <2>0, <4>2, <4>3, Counts
    <3> QED BY <2>3, <3>1, <3>2, <3>3 DEF Unsent
  <2>4. AboveWatermark
    BY <2>2, <2>3 DEF AboveWatermark, Ahead
  <2> QED BY <2>4, <2>6, <2>7 DEF DeliveredInOrder
<1> QED BY <1>1, CdcInitInv, CdcStepInv, PTL DEF CdcSpec
=============================================================================
