----------------------------- MODULE ScrapeQueue -----------------------------
(***************************************************************************)
(* The handlers that put requests on the queue: the single refresh and the *)
(* batch refresh (artist_refresh_queue.go), and the queue retry with the   *)
(* orphan reconciliation that also runs at boot (queue.go).                *)
(***************************************************************************)
EXTENDS ScrapeStores

CONSTANTS MaxRuns,   \* bound: reconciliations, by a retry or by a boot
          MaxRetries \* bound: jobs put back on the queue

ASSUME MaxRunsAssumption == MaxRuns \in Nat /\ MaxRetries \in Nat

VARIABLES dispatch,  \* a request's way to the queue
          retry,     \* the reconciliation and the retry loop
          runs, retries

queueVars == <<dispatch, retry, runs, retries>>

NoRetry == [pc |-> "idle", boot |-> FALSE, rows |-> {}, req |-> "none", prev |-> "idle"]
QueueInit ==
    /\ dispatch = [r \in Requests |-> [pc |-> "new", prev |-> "idle"]]
    /\ retry = NoRetry /\ runs = 0 /\ retries = 0

Dispatching(r, pc) == dispatch[r].pc = pc
Step(r, pc) == dispatch' = [dispatch EXCEPT ![r].pc = pc] /\ UNCHANGED <<retry, runs, retries>>
Begin(r, pc) ==
    /\ dispatch' = [dispatch EXCEPT ![r] = [pc |-> pc, prev |-> artist["pb"]]]
    /\ UNCHANGED <<retry, runs, retries>>
InsertRow(r, sides) == row' = [row EXCEPT ![r] = [s \in Sides |-> IF s \in sides THEN "queued" ELSE @[s]]]

-----------------------------------------------------------------------------
(* A single refresh: fact, artist, row, message.                           *)

\* isArtistRefreshPending and the row's own fetch_status, then
\* appendJobRequested.
Accept(r) ==
    /\ Dispatching(r, "new")
    /\ artist["log"] # "pending" /\ artist["pb"] # "pending"
    /\ Begin(r, "mark")
    /\ \/ stream' = [stream EXCEPT ![r] = Opened(@)] /\ UNCHANGED faults
       \/ UNCHANGED stream /\ Fault
    /\ UNCHANGED <<listened, rows, artist, nats, cache>>

\* markArtistRefreshQueued; a failing save undoes the emitted fact.
MarkQueued(r) ==
    /\ Dispatching(r, "mark")
    /\ \/ SetArtist(Places, "pending") /\ Step(r, "row") /\ UNCHANGED <<stream, faults>>
       \/ SetArtist({"log", "db"}, dispatch[r].prev) /\ Fault
          /\ Record(r, <<"failed">>) /\ Step(r, "done")
    /\ UNCHANGED <<listened, rows, nats, cache>>

\* createScrapeJobRecord: PocketBase, then the SQLite mirror, which only warns.
CreateRow(r) ==
    /\ Dispatching(r, "row")
    /\ \/ InsertRow(r, Sides) /\ UNCHANGED faults /\ Step(r, "publish")
       \/ InsertRow(r, {"pb"}) /\ Fault /\ Step(r, "publish")
       \/ UNCHANGED row /\ Fault /\ Step(r, "undo fact")
    /\ aged' = [aged EXCEPT ![r] = "fresh"]
    /\ UNCHANGED <<facts, requeued, artist, nats, cache>>

-----------------------------------------------------------------------------
(* A batch refresh: artist and row, then the fact, then the message.       *)

\* The PocketBase transaction of persistBatchRefreshCandidates; the selection
\* looks at PocketBase only.
PersistBatch(r) ==
    /\ Dispatching(r, "new") /\ artist["pb"] # "pending"
    /\ Begin(r, "batch artist")
    /\ InsertRow(r, {"pb"}) /\ SetArtist({"pb"}, "pending")
    /\ aged' = [aged EXCEPT ![r] = "fresh"]
    /\ UNCHANGED <<facts, requeued, nats, cache, faults>>

\* emitBatchArtistFetchStatusEvents, not projected.
EmitBatch(r) ==
    /\ Dispatching(r, "batch artist") /\ Step(r, "batch mirror")
    /\ \/ SetArtist({"log"}, "pending") /\ UNCHANGED faults
       \/ UNCHANGED artist /\ Fault
    /\ UNCHANGED <<facts, rows, nats, cache>>

\* The SQLite mirror transaction, and createBatchProgress behind it: a failure
\* of either aborts the candidates.
MirrorBatch(r) ==
    /\ Dispatching(r, "batch mirror")
    /\ \/ /\ InsertRow(r, {"db"}) /\ SetArtist({"db"}, "pending")
          /\ \/ Step(r, "batch fact") /\ UNCHANGED faults
             \/ Step(r, "undo fact") /\ Fault
       \/ UNCHANGED <<row, artist>> /\ Step(r, "undo fact") /\ Fault
    /\ UNCHANGED <<facts, aged, requeued, nats, cache>>

\* appendBatchJobsRequested, or appendJobRequested for each.
OpenBatch(r) ==
    /\ Dispatching(r, "batch fact") /\ Step(r, "publish")
    /\ \/ stream' = [stream EXCEPT ![r] = Opened(@)] /\ UNCHANGED faults
       \/ UNCHANGED stream /\ Fault
    /\ UNCHANGED <<listened, rows, artist, nats, cache>>

-----------------------------------------------------------------------------
(* The publish and its compensation, common to both paths.                 *)

\* A publish whose answer is lost is an error although the message is stored.
Publish(r) ==
    /\ Dispatching(r, "publish")
    /\ \/ Store(r) /\ Step(r, "done") /\ UNCHANGED faults
       \/ Store(r) /\ Step(r, "undo fact") /\ Fault
       \/ UNCHANGED nats /\ Step(r, "undo fact") /\ Fault
    /\ UNCHANGED <<facts, rows, artist, cache>>

UndoFact(r) ==
    /\ Dispatching(r, "undo fact") /\ RecordWarn(r, <<"failed">>) /\ Step(r, "undo")
    /\ UNCHANGED <<listened, rows, artist, nats, cache>>

\* cleanupQueueArtistRefresh: the previous status, and the row is deleted.
Undo(r) ==
    /\ Dispatching(r, "undo") /\ Step(r, "done")
    /\ SetArtist(Places, dispatch[r].prev)
    /\ row' = [row EXCEPT ![r] = [s \in Sides |-> "none"]]
    /\ UNCHANGED <<facts, aged, requeued, nats, cache, faults>>

-----------------------------------------------------------------------------
(* reconcileOrphanQueueState.                                              *)

Reconciling(pc) == retry.pc = pc
To(pc) == retry' = [retry EXCEPT !.pc = pc, !.rows = {}] /\ UNCHANGED <<dispatch, runs, retries>>
Collected(pc, rs) == retry' = [retry EXCEPT !.pc = pc, !.rows = rs] /\ UNCHANGED <<dispatch, runs, retries>>
Expired(side) == {r \in Requests : row[r][side] = "queued" /\ aged[r] = "expired"}
Has(side, statuses) == \E r \in Requests : row[r][side] \in statuses

\* A click on Retry.
ClickRetry ==
    /\ Reconciling("idle") /\ runs < MaxRuns
    /\ retry' = [NoRetry EXCEPT !.pc = "expire"] /\ runs' = runs + 1
    /\ UNCHANGED <<stores, dispatch, retries>>

\* expireStaleQueuedJobsSQLite: one guarded UPDATE, then its facts.
ExpireRows ==
    /\ Reconciling("expire") /\ Collected("expire fact", Expired("db"))
    /\ row' = [r \in Requests |-> IF r \in Expired("db")
                                  THEN Updated(row[r], {"db"}, "failed") ELSE row[r]]
    /\ UNCHANGED <<facts, aged, requeued, artist, nats, cache, faults>>

ExpireFact ==
    /\ Reconciling("expire fact")
    /\ \E r \in retry.rows : RecordWarn(r, <<"failed">>) /\ Collected("expire fact", retry.rows \ {r})
    /\ UNCHANGED <<listened, rows, artist, nats, cache>>

\* The PocketBase half of expireStaleQueuedJobs.
ExpireMirror ==
    /\ Reconciling("expire fact") /\ retry.rows = {} /\ To("reset")
    /\ row' = [r \in Requests |-> IF r \in Expired("pb")
                                  THEN Updated(row[r], {"pb"}, "failed") ELSE row[r]]
    /\ UNCHANGED <<facts, aged, requeued, artist, nats, cache, faults>>

\* resetOrphanPendingArtists and markFailedJobArtists: which status a pending
\* artist gets from the rows of one store.
Orphaned(side)  == artist[side] = "pending" /\ ~Has(side, {"queued", "processing", "failed"})
AllFailed(side) == artist[side] = "pending" /\ Has(side, {"failed"})
                   /\ ~Has(side, {"queued", "processing"})

\* reconcileArtistsWithStatusSQLite flips the row; recordFetchStatusConvergence
\* folds the fact for a flipped artist whose aggregate is still pending.
FlipArtist(pc, cond, status, fact, mirror) ==
    /\ Reconciling(pc)
    /\ IF cond THEN SetArtist({"db"}, status) /\ To(fact) ELSE UNCHANGED artist /\ To(mirror)
    /\ UNCHANGED <<facts, rows, nats, cache, faults>>
FoldArtist(pc, status, mirror) ==
    /\ Reconciling(pc) /\ To(mirror)
    /\ \/ artist["log"] = "pending" /\ SetArtist({"log", "db"}, status) /\ UNCHANGED faults
       \/ artist["log"] # "pending" /\ UNCHANGED <<artist, faults>>
       \/ artist["log"] = "pending" /\ UNCHANGED artist /\ Fault
    /\ UNCHANGED <<facts, rows, nats, cache>>
MirrorArtist(pc, cond, status, next) ==
    /\ Reconciling(pc) /\ To(next)
    /\ IF cond THEN SetArtist({"pb"}, status) ELSE UNCHANGED artist
    /\ UNCHANGED <<facts, rows, nats, cache, faults>>

ResetOrphanPendingArtists ==
    \/ FlipArtist("reset", Orphaned("db"), "idle", "reset fact", "reset mirror")
    \/ FoldArtist("reset fact", "idle", "reset mirror")
    \/ MirrorArtist("reset mirror", Orphaned("pb"), "idle", "fail")
MarkFailedJobArtists ==
    \/ FlipArtist("fail", AllFailed("db"), "failed", "fail fact", "fail mirror")
    \/ FoldArtist("fail fact", "failed", "fail mirror")
    \/ MirrorArtist("fail mirror", AllFailed("pb"), "failed", "purge")

\* purgeOrphanScrapeRequests: nothing held or redelivered, nothing queued,
\* processing or pending in SQLite.
\* Mutant: only the broker is asked.
PurgeWheneverIdle == \A m \in DOMAIN queue : queue[m].state # "held"

Delivered(msg) == msg.state = "held" \/ (msg.state = "ready" /\ msg.delivered > 0)
PurgeAllowed ==
    /\ \A m \in DOMAIN queue : ~Delivered(queue[m])
    /\ ~Has("db", {"queued", "processing"}) /\ artist["db"] # "pending"
PurgeOrphans ==
    /\ Reconciling("purge") /\ To(IF retry.boot THEN "idle" ELSE "collect")
    /\ queue' = IF PurgeAllowed THEN [m \in DOMAIN queue |-> [queue[m] EXCEPT !.state = "gone"]]
                                ELSE queue
    /\ UNCHANGED <<facts, rows, artist, window, cache, faults>>

-----------------------------------------------------------------------------
(* retryFailedAndQueuedJobs.                                               *)

Candidates(status) == {r \in Requests : row[r]["pb"] = status}
CollectCandidates ==
    /\ Reconciling("collect")
    /\ Collected("candidate", IF Candidates("failed") # {} THEN Candidates("failed")
                                                          ELSE Candidates("queued"))
    /\ UNCHANGED stores

\* prepareRetryRequest takes the artist's first job, failed ones before queued
\* ones, and none while the artist is pending; saveRetryQueuedAndMarkPending writes the record as collected,
\* and SQLite's queued_at.
Requeue(r) ==
    /\ Reconciling("candidate") /\ r \in retry.rows
    /\ artist["pb"] # "pending" /\ row[r]["pb"] # "none" /\ retries < MaxRetries
    /\ retry' = [retry EXCEPT !.pc = "publish", !.req = r, !.prev = artist["pb"]]
    /\ retries' = retries + 1
    /\ SetRow(r, {"pb"}, "queued") /\ SetArtist({"pb"}, "pending")
    /\ aged' = [aged EXCEPT ![r] = "fresh"]
    /\ requeued' = [requeued EXCEPT ![r] = HasVerdict(stream[r])]
    /\ UNCHANGED <<facts, nats, cache, faults, dispatch, runs>>

SkipCandidates ==
    /\ Reconciling("candidate") /\ (retry.rows = {} \/ artist["pb"] = "pending")
    /\ To("idle") /\ UNCHANGED stores

RetryPublished ==
    /\ Reconciling("publish") /\ Store(retry.req) /\ To("idle")
    /\ UNCHANGED <<facts, rows, artist, cache, faults>>

\* handleRetryPublishFailure restores PocketBase.
RetryPublishFails ==
    /\ Reconciling("publish") /\ Fault /\ To("idle")
    /\ Store(retry.req) \/ UNCHANGED nats
    /\ SetArtist({"pb"}, retry.prev) /\ SetRow(retry.req, {"pb"}, "failed")
    /\ UNCHANGED <<facts, aged, requeued, cache>>

\* handleRetryDuplicate: the job counts as succeeded and its row is deleted.
RetryDuplicate ==
    /\ Reconciling("publish") /\ retry.req \in window /\ To("idle")
    /\ SetArtist({"pb"}, retry.prev)
    /\ row' = [row EXCEPT ![retry.req] = [s \in Sides |-> "none"]]
    /\ UNCHANGED <<facts, aged, requeued, nats, cache, faults>>

\* A store that does not answer ends the run where it stands.
RetryAborts ==
    /\ retry.pc \notin {"idle", "publish"} /\ Fault /\ To("idle")
    /\ UNCHANGED <<facts, rows, artist, nats, cache>>

DispatchStep(r) ==
    \/ MarkQueued(r) \/ CreateRow(r)
    \/ EmitBatch(r) \/ MirrorBatch(r) \/ OpenBatch(r)
    \/ Publish(r) \/ UndoFact(r) \/ Undo(r)
RetryStep ==
    \/ ExpireRows \/ ExpireFact \/ ExpireMirror
    \/ ResetOrphanPendingArtists \/ MarkFailedJobArtists \/ PurgeOrphans
    \/ CollectCandidates \/ (\E r \in Requests : Requeue(r)) \/ SkipCandidates
    \/ RetryPublished \/ RetryPublishFails \/ RetryDuplicate \/ RetryAborts
\* A restart: requests in flight are dropped and ReconcileQueueOnStartup runs.
QueueRestart ==
    /\ dispatch' = [r \in Requests |->
                       IF Dispatching(r, "new") THEN dispatch[r] ELSE [dispatch[r] EXCEPT !.pc = "done"]]
    /\ retry' = [NoRetry EXCEPT !.pc = "expire", !.boot = TRUE]
    /\ UNCHANGED <<runs, retries>>
=============================================================================
