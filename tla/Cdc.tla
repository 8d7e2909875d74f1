--------------------------------- MODULE Cdc ---------------------------------
(***************************************************************************)
(* Change data capture on one node: the hooks of the database that collect *)
(* the changes of a log entry (db/cdc.go, Store.EnableCDC), and the        *)
(* service that posts them to an endpoint (cdc/service.go): a goroutine    *)
(* that moves events into a batching queue, one that posts batches, one    *)
(* that stores the high watermark.  The queue is the module Queue, with    *)
(* the first goroutine as its only writer; nobody closes it.               *)
(***************************************************************************)
EXTENDS Queue

CONSTANTS
    ChanLen,        \* capacity of the channel between the database and the service
    MaxAttempts,    \* attempts to post a batch
    MaxEntries,     \* bound on the log entries applied
    MaxLeaderChanges

Reader == "readEvents"
ASSUME CdcParameters ==
    /\ Writers = {Reader}
    /\ ChanLen \in Nat \ {0} /\ MaxAttempts \in Nat \ {0}
    /\ MaxEntries \in Nat /\ MaxLeaderChanges \in Nat

VARIABLES
    entry,          \* index of the last log entry applied
    streamer,       \* Store.cdcStreamer is set
    hooked,         \* the hooks are registered with the database connection
    cdcCh,          \* the channel
    events,         \* the events taken from it: element i of the queue is events[i]
    isLeader, leaderChanges,
    post,           \* the batch being posted and the attempts made
    highWatermark,
    storedWatermark, \* the high watermark in the table _rqlite_cdc_state
    stopping,       \* Stop has closed the done channel
    exited,         \* the goroutines that have returned
    posted, dropped \* history: the batches the endpoint took, one by one; events given up

eventVars == <<events, isLeader, leaderChanges, post, highWatermark, storedWatermark, stopping,
               exited, posted, dropped>>
hookVars == <<streamer, hooked>>
cdcVars == <<queueVars, entry, hookVars, cdcCh, eventVars>>

Goroutines == {"read", "post", "write"}
Idle == [batch |-> << >>, attempts |-> 0]

CdcInit ==
    /\ QueueInit
    /\ entry = 0 /\ streamer = FALSE /\ hooked = FALSE /\ cdcCh = << >> /\ events = << >>
    /\ isLeader \in BOOLEAN /\ leaderChanges = 0
    /\ post = Idle /\ highWatermark = 0 /\ storedWatermark = 0
    /\ stopping = FALSE /\ exited = {}
    /\ posted = << >> /\ dropped = {}

-----------------------------------------------------------------------------
(* The database: hooks, and the entries that make them fire.               *)

EnableCDC ==
    /\ ~streamer
    /\ streamer' = TRUE /\ hooked' = TRUE
    /\ UNCHANGED <<queueVars, entry, cdcCh, eventVars>>

DisableCDC ==
    /\ streamer
    /\ streamer' = FALSE /\ hooked' = FALSE
    /\ UNCHANGED <<queueVars, entry, cdcCh, eventVars>>

\* A load or a restored snapshot replaces the database file, and with the old
\* connection go the hooks registered with it; the streamer stays.
SwapDatabase ==
    /\ hooked
    /\ hooked' = FALSE
    /\ UNCHANGED <<queueVars, entry, streamer, cdcCh, eventVars>>

\* What the pre-update hook has collected when statement c commits: every row
\* changed since the commits before it, rolled back or not.
PreUpdates(before, c) == {i \in 1..c : \A b \in before : i > b}

Commits(outcomes, i, j) == {c \in i..j : outcomes[c] = "commit"}

\* The event of the commit c of entry k, under the index given by Reset, which only
\* the first commit still has.
CommitEvent(k, outcomes, c) ==
    LET before == Commits(outcomes, 1, c - 1)
    IN  [index   |-> IF before = {} THEN k ELSE 0,
         entry   |-> k,
         changes |-> PreUpdates(before, c)]

\* The events of entry k, one for each of its commits.
CommitHook(k, outcomes) ==
    LET last == Commits(outcomes, 1, Len(outcomes))
    IN  [i \in 1..Cardinality(last) |->
            CommitEvent(k, outcomes, CHOOSE c \in last : Cardinality(Commits(outcomes, 1, c)) = i)]

\* The channel takes what it has room for; the rest is dropped.
Stream(k, outcomes) ==
    LET evs == CommitHook(k, outcomes)
        room == ChanLen - Len(cdcCh)
    IN  /\ cdcCh' = cdcCh \o SubSeq(evs, 1, IF Len(evs) < room THEN Len(evs) ELSE room)
        /\ dropped' = dropped \cup {evs[i] : i \in room+1..Len(evs)}

\* fsmApply: an entry whose statements commit or are rolled back one by one.
ApplyEntry(outcomes) ==
    /\ entry < MaxEntries
    /\ entry' = entry + 1
    /\ IF hooked THEN Stream(entry', outcomes) ELSE UNCHANGED <<cdcCh, dropped>>
    /\ UNCHANGED <<queueVars, hookVars, events, isLeader, leaderChanges, post, highWatermark,
                   storedWatermark, stopping, exited, posted>>

-----------------------------------------------------------------------------
(* The service.                                                            *)

\* readEvents takes an event and calls Queue.Write, which may block.
ReadEvent ==
    /\ "read" \notin exited /\ cdcCh # << >>
    /\ WriteCheck(Reader)
    /\ events' = Append(events, Head(cdcCh))
    /\ cdcCh' = Tail(cdcCh)
    /\ UNCHANGED <<entry, hookVars, isLeader, leaderChanges, post, highWatermark, storedWatermark,
                   stopping, exited, posted, dropped>>

Batch(b) == [i \in DOMAIN b |-> events[b[i]]]

\* Mutant: the watermark is raised when the batch is taken.
PostReceive_Early ==
    /\ "post" \notin exited /\ post = Idle
    /\ Receive
    /\ isLeader
    /\ post' = [Idle EXCEPT !.batch = Batch(sendCh)]
    /\ highWatermark' = events[sendCh[Len(sendCh)]].index
    /\ UNCHANGED <<entry, hookVars, cdcCh, events, isLeader, leaderChanges, dropped,
                   storedWatermark, stopping, exited, posted>>

\* postEvents takes a batch; only the leader goes on with it.
PostReceive ==
    /\ "post" \notin exited /\ post = Idle
    /\ Receive
    /\ IF isLeader
       THEN /\ post' = [Idle EXCEPT !.batch = Batch(sendCh)]
            /\ UNCHANGED dropped
       ELSE /\ dropped' = dropped \cup {events[e] : e \in {sendCh[i] : i \in DOMAIN sendCh}}
            /\ UNCHANGED post
    /\ UNCHANGED <<entry, hookVars, cdcCh, events, isLeader, leaderChanges, highWatermark,
                   storedWatermark, stopping, exited, posted>>

\* The endpoint takes the batch and its answer arrives.
PostOK ==
    /\ post.batch # << >>
    /\ posted' = Append(posted, post.batch)
    /\ highWatermark' = post.batch[Len(post.batch)].index
    /\ post' = Idle
    /\ UNCHANGED <<queueVars, entry, hookVars, cdcCh, events, isLeader, leaderChanges,
                   storedWatermark, stopping, exited, dropped>>

\* An attempt fails: before the endpoint has the batch, or after it has taken it,
\* with an answer other than 200 and 202 or with none.  All attempts use one
\* request.  Where an earlier one has read its body the transport may rewind it
\* and send it again, so the endpoint may take a batch it already has, or the
\* attempt fails without sending anything.
PostFail(taken) ==
    /\ post.batch # << >>
    /\ posted' = IF taken THEN Append(posted, post.batch) ELSE posted
    /\ IF post.attempts + 1 < MaxAttempts
       THEN /\ post' = [post EXCEPT !.attempts = @ + 1]
            /\ UNCHANGED dropped
       ELSE /\ post' = Idle
            /\ dropped' = dropped \cup {post.batch[i] : i \in DOMAIN post.batch}
    /\ UNCHANGED <<queueVars, entry, hookVars, cdcCh, events, isLeader, leaderChanges,
                   highWatermark, storedWatermark, stopping, exited>>

\* writeHighWatermarkLoop: the value goes through the log, whose entry is
\* captured like any other; without leadership the write fails.
WriteHighWatermark ==
    /\ "write" \notin exited /\ isLeader /\ entry < MaxEntries
    /\ storedWatermark' = highWatermark
    /\ entry' = entry + 1
    /\ IF hooked THEN Stream(entry', <<"commit">>) ELSE UNCHANGED <<cdcCh, dropped>>
    /\ UNCHANGED <<queueVars, hookVars, events, isLeader, leaderChanges, post, highWatermark,
                   stopping, exited, posted>>

LeaderChange ==
    /\ leaderChanges < MaxLeaderChanges
    /\ isLeader' = ~isLeader
    /\ leaderChanges' = leaderChanges + 1
    /\ UNCHANGED <<queueVars, entry, hookVars, cdcCh, events, post, highWatermark, storedWatermark,
                   stopping, exited, posted, dropped>>

Stop ==
    /\ ~stopping
    /\ stopping' = TRUE
    /\ UNCHANGED <<queueVars, entry, hookVars, cdcCh, events, isLeader, leaderChanges, post,
                   highWatermark, storedWatermark, exited, posted, dropped>>

\* Mutant: postEvents looks at the channel only when a batch has come.
Exit_WithBatch(g) ==
    /\ stopping /\ g \notin exited
    /\ g = "read" => writer[Reader] = "idle"
    /\ g = "post" => post = Idle /\ sendCh # << >>
    /\ exited' = exited \cup {g}
    /\ UNCHANGED <<queueVars, entry, hookVars, cdcCh, events, isLeader, leaderChanges, post,
                   highWatermark, storedWatermark, stopping, posted, dropped>>

\* A goroutine sees the closed channel when it is at its select.
Exit(g) ==
    /\ stopping /\ g \notin exited
    /\ g = "read" => writer[Reader] = "idle"
    /\ g = "post" => post = Idle
    /\ exited' = exited \cup {g}
    /\ UNCHANGED <<queueVars, entry, hookVars, cdcCh, events, isLeader, leaderChanges, post,
                   highWatermark, storedWatermark, stopping, posted, dropped>>

\* The queue on its own: the rest of Write, and its goroutine.
QueueStep ==
    /\ WriteLock(Reader) \/ WriteSend(Reader) \/ RunBatch \/ RunTimeout \/ RunSend
    /\ UNCHANGED <<entry, hookVars, cdcCh, eventVars>>

CdcNext ==
    \/ EnableCDC \/ DisableCDC \/ SwapDatabase
    \/ \E outcomes \in {<<"commit">>, <<"commit", "commit">>, <<"rollback", "commit">>} : ApplyEntry(outcomes)
    \/ ReadEvent \/ PostReceive \/ PostOK
    \/ \E taken \in BOOLEAN : PostFail(taken)
    \/ WriteHighWatermark \/ LeaderChange \/ Stop
    \/ \E g \in Goroutines : Exit(g)
    \/ QueueStep

\* The goroutines run; posting a batch ends, as every attempt has a timeout.
CdcFairness ==
    /\ WF_cdcVars(ReadEvent) /\ WF_cdcVars(PostReceive) /\ WF_cdcVars(QueueStep)
    /\ WF_cdcVars(PostOK \/ \E taken \in BOOLEAN : PostFail(taken))
    /\ \A g \in Goroutines : WF_cdcVars(Exit(g))

CdcSpec == CdcInit /\ [][CdcNext]_cdcVars /\ CdcFairness

-----------------------------------------------------------------------------
(***************************************************************************)
(* Properties.                                                             *)
(***************************************************************************)
\* The events on their way: in the channel, in the queue, being posted.
Unsent == {cdcCh[i] : i \in DOMAIN cdcCh}
           \cup {events[i] : i \in Len(out)+1..Len(events)}
           \cup {post.batch[i] : i \in DOMAIN post.batch}

\* No event that still waits is covered by the high watermark, which other
\* nodes are to take for sent; nor by the one stored through the log.
AboveWatermark ==
    \A ev \in Unsent : ev.index = 0 \/ (ev.index > highWatermark /\ ev.index > storedWatermark)

\* Event e was captured before f: by an earlier entry, or by an earlier commit of
\* the same one.
CapturedBefore(e, f) ==
    \/ e.entry < f.entry
    \/ /\ e.entry = f.entry
       /\ \A c \in e.changes, d \in f.changes : c < d

\* Whatever attempts fail, answers are lost and leadership comes and goes: the
\* events of a batch reach the endpoint in order, and of two batches it takes the
\* second is the first once more or is all after it, so that a reader who ignores
\* a batch he has just seen gets every event once and in order; and no event that
\* is still to be posted is taken for posted.
DeliveredInOrder ==
    /\ \A p \in DOMAIN posted : \A i, j \in DOMAIN posted[p] :
         i < j => CapturedBefore(posted[p][i], posted[p][j])
    /\ \A p, q \in DOMAIN posted : p < q =>
         \/ posted[p] = posted[q]
         \/ \A i \in DOMAIN posted[p], j \in DOMAIN posted[q] :
               CapturedBefore(posted[p][i], posted[q][j])
    /\ AboveWatermark

\* While the service runs, every event is posted or given up.
EveryEventSettles ==
    \A k \in 1..MaxEntries :
       (\E ev \in Unsent : ev.entry = k) ~> (stopping \/ \A ev \in Unsent : ev.entry # k)

\* Stop returns, unless the queue is full: then the goroutine that fills it may
\* wait for one that has already returned.
StopReturns == stopping ~> (exited = Goroutines \/ Len(batchCh) = MaxSize)
=============================================================================
