------------------------------ MODULE LiveViews ------------------------------
(***************************************************************************)
(* What an open page shows: the SSE handler's four goroutines (the handler *)
(* itself and the callbacks of its subscriptions), the debounced queue     *)
(* counters, the artist cards and the progress of batch refreshes, fed by  *)
(* the record hooks, the batch subscriber and the reconciler.              *)
(***************************************************************************)
EXTENDS Naturals, Sequences, FiniteSets

CONSTANTS Clients,    \* SSE connections
          Batches,    \* batch refreshes, numbered in the order of their rows
          Members,    \* members of each
          Passes,     \* goroutines that start or reconcile batches
          MaxChanges  \* bound: changes of job and artist rows, and batches, together

ASSUME LiveAssumption == Batches \subseteq Nat \ {0} /\ Members \in Nat \ {0}
ASSUME LiveBounds == MaxChanges \in Nat

VARIABLES rows,      \* changes of scrape_jobs and artists that the counters show
          unsaved,   \* their PocketBase save, and so the hook, is still to come
          hookTimer, \* registerQueueUpdateFanout's timer is armed
          done,      \* members completed per batch; Unstarted before its row
          older,     \* pairs of batches, by updated_at, then by rowid
          tracking,  \* Handler.batchUpdates
          publisher, \* who is about to publish which batch's snapshot
          wire,      \* messages a client's subscriptions have not handled
          client     \* what the page shows and what its goroutines do

feed  == <<rows, unsaved, hookTimer>>
store == <<done, older>>
liveVars  == <<feed, store, tracking, publisher, wire, client>>

Unstarted == Members + 1
Publishers == {"callback"} \cup Passes
Idle == [pc |-> "idle", batch |-> 0, completed |-> 0]
Unseen == [completed |-> 0, done |-> FALSE, seen |-> FALSE]
Quiet == [pings |-> 0, progress |-> << >>]
Away  == [pc |-> "away", first |-> 0, snap |-> Idle,
          timer |-> FALSE, running |-> FALSE, pending |-> FALSE, read |-> 0,
          counters |-> 0, overtaken |-> FALSE, late |-> {}, view |-> [b \in Batches |-> Unseen]]

LiveInit ==
    /\ rows = 0 /\ unsaved = FALSE /\ hookTimer = FALSE
    /\ done = [b \in Batches |-> Unstarted] /\ older = {} /\ tracking = FALSE
    /\ publisher = [p \in Publishers |-> Idle]
    /\ wire = [c \in Clients |-> Quiet] /\ client = [c \in Clients |-> Away]

Started == {b \in Batches : done[b] # Unstarted}
Active  == {b \in Started : done[b] < Members}
Latest(b, among) == b \in among /\ \A d \in among \ {b} : <<d, b>> \in older

\* updated_at of these batches becomes the present time; a tie goes to the rowid.
Stamp(bs) ==
    older' = {pair \in Batches \X Batches :
                 LET d == pair[1]  b == pair[2]
                 IN  IF {d, b} \subseteq bs THEN d < b ELSE b \in bs \/ (d \notin bs /\ pair \in older)}
Snapshot(b) == [pc |-> "publish", batch |-> b, completed |-> done[b]]
Subscribed(c) == client[c].pc # "away"
Set(c, new) == client' = [client EXCEPT ![c] = new]
-----------------------------------------------------------------------------
(* The feeds.                                                              *)

\* setScrapeJobProcessing and setScrapeJobFinished: SQLite before PocketBase.
Begun  == Started \cup {publisher[p].batch : p \in {q \in Publishers : publisher[q].pc = "insert"}}
InBound == rows + Cardinality(Begun) < MaxChanges
ChangeRow == /\ InBound /\ ~unsaved /\ rows' = rows + 1 /\ unsaved' = TRUE
             /\ UNCHANGED <<hookTimer, store, tracking, publisher, wire, client>>

\* A message on queue.updated or artist.updated for every subscriber.
Pinged == [c \in Clients |-> IF client[c].pc # "away" THEN [wire[c] EXCEPT !.pings = @ + 1] ELSE wire[c]]

\* The save of a job runs the hook, which arms its timer unless it is armed;
\* the save of an artist publishes artist.updated at once.
SaveRow == /\ unsaved /\ unsaved' = FALSE
           /\ \/ hookTimer' = TRUE /\ UNCHANGED wire
              \/ wire' = Pinged /\ UNCHANGED hookTimer
           /\ UNCHANGED <<rows, store, tracking, publisher, client>>

\* The timer of the hook.
PublishQueueUpdated ==
    /\ hookTimer /\ hookTimer' = FALSE /\ wire' = Pinged
    /\ UNCHANGED <<rows, unsaved, store, tracking, publisher, client>>

\* createBatchProgress: Start takes the time before it logs the start, and then
\* inserts the row with it.
BeginBatch(b, p) ==
    /\ b \notin Begun /\ InBound
    /\ publisher[p] = Idle /\ Stamp({b})
    /\ publisher' = [publisher EXCEPT ![p] = [Idle EXCEPT !.pc = "insert", !.batch = b]]
    /\ UNCHANGED <<feed, done, tracking, wire, client>>
StartBatch(b, p) ==
    /\ publisher[p].pc = "insert" /\ publisher[p].batch = b /\ b \notin Started
    /\ \A d \in Batches : d < b => d \in Started
    /\ done' = [done EXCEPT ![b] = 0]
    /\ publisher' = [publisher EXCEPT ![p] = [pc |-> "publish", batch |-> b, completed |-> 0]]
    /\ UNCHANGED <<feed, older, tracking, wire, client>>

\* markBatchArtistDoneStored completes a member, then reads the batch.
CompleteMember(b) ==
    /\ tracking /\ publisher["callback"] = Idle /\ b \in Active
    /\ done' = [done EXCEPT ![b] = @ + 1] /\ Stamp({b})
    /\ publisher' = [publisher EXCEPT !["callback"] = [Idle EXCEPT !.pc = "read", !.batch = b]]
    /\ UNCHANGED <<feed, tracking, wire, client>>

\* A pass of RunBatchReconciler or of reconcileBatchStoreThrottled completes
\* what the events missed, in any batch, stamps every batch that was active, and
\* then reads the one updated last.
Reconcile(p) ==
    /\ publisher[p] = Idle
    /\ \E reached \in [Started -> 0..Members] :
          /\ \A b \in Started : reached[b] >= done[b]
          /\ \E b \in Started : reached[b] > done[b]
          /\ done' = [b \in Batches |-> IF b \in Started THEN reached[b] ELSE done[b]]
    /\ Stamp(Active)
    /\ publisher' = [publisher EXCEPT ![p] = [Idle EXCEPT !.pc = "read"]]
    /\ UNCHANGED <<feed, tracking, wire, client>>

\* Mutant: a pass publishes the oldest batch.
ReadOldestBatch(p) ==
    /\ publisher[p].pc = "read"
    /\ \E b \in Started :
          /\ IF publisher[p].batch = 0 THEN \A d \in Started \ {b} : <<b, d>> \in older ELSE b = publisher[p].batch
          /\ publisher' = [publisher EXCEPT ![p] = Snapshot(b)]
    /\ UNCHANGED <<feed, store, tracking, wire, client>>

\* Snapshot of the batch, or LatestSnapshot.
ReadBatch(p) ==
    /\ publisher[p].pc = "read"
    /\ \E b \in Started :
          /\ IF publisher[p].batch = 0 THEN Latest(b, Started) ELSE b = publisher[p].batch
          /\ publisher' = [publisher EXCEPT ![p] = Snapshot(b)]
    /\ UNCHANGED <<feed, store, tracking, wire, client>>

\* publishBatchProgress: whoever read first may publish last.
PublishBatch(p) ==
    LET snap == publisher[p]
    IN  /\ snap.pc = "publish" /\ publisher' = [publisher EXCEPT ![p] = Idle]
        /\ wire' = [c \in Clients |-> IF ~Subscribed(c) THEN wire[c]
                      ELSE [wire[c] EXCEPT !.progress = Append(@, snap)]]
        /\ UNCHANGED <<feed, store, tracking, client>>
-----------------------------------------------------------------------------
(* One connection.                                                         *)

\* ensureBatchProgressSubscriber: the first page makes the server track batches.
EnsureSubscriber == tracking' = TRUE

\* HandleSSE subscribes before it reads anything.
Connect(c) ==
    /\ client[c].pc = "away" /\ Set(c, [Away EXCEPT !.pc = "batch", !.late = {b \in Batches : done[b] = Members}])
    /\ EnsureSubscriber /\ wire' = [wire EXCEPT ![c] = Quiet]
    /\ UNCHANGED <<feed, store, publisher>>

\* Mutant: whatever is published last is shown.
AcceptsAll(old, new) == TRUE

\* batchProgressTracker.acceptLocked.
Accepts(old, new) == old.seen => ~old.done /\ new.completed >= old.completed

\* Mutant: the last member is not waited for.
AppliedEarly(view, snap) ==
    IF Accepts(view[snap.batch], snap)
    THEN [view EXCEPT ![snap.batch] =
             [completed |-> snap.completed, done |-> snap.completed + 1 >= Members, seen |-> TRUE]]
    ELSE view

\* batchProgressTracker.apply patches under the tracker's lock.
Applied(view, snap) ==
    IF Accepts(view[snap.batch], snap)
    THEN [view EXCEPT ![snap.batch] =
             [completed |-> snap.completed, done |-> snap.completed = Members, seen |-> TRUE]]
    ELSE view

\* patchInitialBatchProgress reads the active batch, if any, then applies it.
ReadInitialBatch(c) ==
    /\ client[c].pc = "batch"
    /\ \/ Active = {} /\ Set(c, [client[c] EXCEPT !.pc = "stats", !.snap = Idle])
       \/ \E b \in Active : Latest(b, Active) /\ Set(c, [client[c] EXCEPT !.pc = "snap", !.snap = Snapshot(b)])
    /\ UNCHANGED <<feed, store, tracking, publisher, wire>>
PatchInitialBatch(c) ==
    /\ client[c].pc = "snap"
    /\ Set(c, [client[c] EXCEPT !.pc = "stats", !.snap = Idle, !.view = Applied(@, client[c].snap)])
    /\ UNCHANGED <<feed, store, tracking, publisher, wire>>

\* getQueueStats: the counters as the rows are.
QueueStats == rows

\* The handler's own patchLatestQueueStats is not debounced.
ReadInitialStats(c) ==
    /\ client[c].pc = "stats" /\ Set(c, [client[c] EXCEPT !.pc = "patch", !.first = QueueStats])
    /\ UNCHANGED <<feed, store, tracking, publisher, wire>>
PatchInitialStats(c) ==
    LET me == client[c]
    IN  /\ me.pc = "patch"
        /\ Set(c, [me EXCEPT !.pc = "open", !.counters = me.first, !.first = 0,
                             !.overtaken = me.counters > me.first])
        /\ UNCHANGED <<feed, store, tracking, publisher, wire>>

\* newDebouncedQueueStatsTrigger's trigger.
Triggered(me) == IF me.running THEN [me EXCEPT !.pending = TRUE] ELSE [me EXCEPT !.timer = TRUE]

\* The callbacks of queue.updated and artist.updated.
HandlePing(c) ==
    /\ Subscribed(c) /\ wire[c].pings > 0
    /\ wire' = [wire EXCEPT ![c].pings = @ - 1] /\ Set(c, Triggered(client[c]))
    /\ UNCHANGED <<feed, store, tracking, publisher>>

\* The callback of batch.progress.
HandleProgress(c) ==
    /\ Subscribed(c) /\ wire[c].progress # << >>
    /\ wire' = [wire EXCEPT ![c].progress = Tail(@)]
    /\ Set(c, [client[c] EXCEPT !.view = Applied(@, Head(wire[c].progress))])
    /\ UNCHANGED <<feed, store, tracking, publisher>>

\* fire reads the counters, and patches them.
Fire(c) ==
    /\ Subscribed(c) /\ client[c].timer /\ ~client[c].running
    /\ Set(c, [client[c] EXCEPT !.timer = FALSE, !.running = TRUE, !.pending = FALSE, !.read = QueueStats])
    /\ UNCHANGED <<feed, store, tracking, publisher, wire>>
Fired(c) ==
    LET me == client[c]
    IN  /\ Subscribed(c) /\ me.running
        /\ Set(c, [me EXCEPT !.running = FALSE, !.counters = me.read, !.read = 0,
                             !.timer = me.pending, !.pending = FALSE])
        /\ UNCHANGED <<feed, store, tracking, publisher, wire>>

\* The request's context ends: nothing is patched any more.
Disconnect(c) ==
    /\ client[c].pc = "open" /\ Set(c, Away) /\ wire' = [wire EXCEPT ![c] = Quiet]
    /\ UNCHANGED <<feed, store, tracking, publisher>>

Feed == \/ ChangeRow \/ SaveRow \/ PublishQueueUpdated
        \/ \E b \in Batches : CompleteMember(b) \/ \E p \in Passes : BeginBatch(b, p) \/ StartBatch(b, p)
        \/ \E p \in Passes : Reconcile(p)
        \/ \E p \in Publishers : ReadBatch(p) \/ PublishBatch(p)
Page(c) == \/ ReadInitialBatch(c) \/ PatchInitialBatch(c) \/ ReadInitialStats(c) \/ PatchInitialStats(c)
           \/ HandlePing(c) \/ HandleProgress(c) \/ Fire(c) \/ Fired(c)
LiveNext == Feed \/ \E c \in Clients : Connect(c) \/ Page(c) \/ Disconnect(c)

\* Goroutines, timers and NATS callbacks run; pages come and go, and rows,
\* artists and batches change as they like.
LiveFairness ==
    /\ WF_liveVars(SaveRow) /\ WF_liveVars(PublishQueueUpdated)
    /\ \A p \in Publishers : WF_liveVars(ReadBatch(p)) /\ WF_liveVars(PublishBatch(p))
    /\ \A c \in Clients :
          /\ WF_liveVars(ReadInitialBatch(c) \/ PatchInitialBatch(c) \/ ReadInitialStats(c)
                     \/ PatchInitialStats(c))
          /\ WF_liveVars(HandlePing(c)) /\ WF_liveVars(HandleProgress(c))
          /\ WF_liveVars(Fire(c) \/ Fired(c))
LiveSpec == LiveInit /\ [][LiveNext]_liveVars /\ LiveFairness
-----------------------------------------------------------------------------
\* Types; the debounce never has two patches in flight or a timer beside one.
PagesOK ==
    /\ rows \in Nat /\ done \in [Batches -> 0..Unstarted]
    /\ \A c \in Clients : /\ client[c].pc \in {"away", "batch", "snap", "stats", "patch", "open"}
                          /\ ~(client[c].timer /\ client[c].running)
                          /\ client[c].pending => client[c].running

\* "out-of-order publishes must not lower the completion count or reopen a
\* finished batch" (sse.go), over the whole connection.
ProgressNeverFalls ==
    [][\A c \in Clients, b \in Batches :
          client[c].pc # "away" /\ client'[c].pc # "away" /\ client[c].view[b].seen =>
              /\ client'[c].view[b].completed >= client[c].view[b].completed
              /\ client[c].view[b].done => client'[c].view[b].done]_liveVars

\* The page never claims more than the tables say.
ProgressIsReal ==
    \A c \in Clients, b \in Batches : client[c].view[b].seen =>
        /\ b \in Started /\ client[c].view[b].completed <= done[b]
        /\ client[c].view[b].done => done[b] = Members

\* A page that was there before a batch was done learns that it is, whichever of
\* the callback and the reconciling passes ended it, unless another batch is
\* updated meanwhile (a pass publishes the batch updated last, and no other).
BatchEnds ==
    \A c \in Clients, b \in Batches :
        (client[c].pc # "away" /\ b \notin client[c].late /\ done[b] = Members /\ Latest(b, Started))
            ~> (client[c].pc = "away" \/ client[c].view[b].done \/ ~Latest(b, Started))

\* The counters of an open page follow the rows: no trigger is lost to a patch
\* that is already running.  (The handler's own first patch is outside of the
\* debounce and may land late.)
CountersCatchUp ==
    \A c \in Clients :
        <>[](client[c].pc = "away" \/ client[c].overtaken \/ client[c].counters = rows)
        \/ []<>(client[c].pc = "away")

\* What a page shows of a batch has happened.
ViewsAreReal == PagesOK /\ ProgressIsReal

\* A page that stays open comes to show the end of the latest batch and the counters
\* of the rows as they are (RunBatchReconciler, RunStatsBroadcaster).
ViewsCatchUp == BatchEnds /\ CountersCatchUp
=============================================================================
