--------------------------- MODULE ScrapeLifecycle ---------------------------
(***************************************************************************)
(* The scrape pipeline of one artist: dispatch and retry handlers, worker  *)
(* goroutines, the sweeper, the broker's timers and a process that may die *)
(* between any two of their steps.                                         *)
(***************************************************************************)
EXTENDS ScrapeWorker, ScrapeSweeper, ScrapeQueue

CONSTANTS MaxCrashes, \* bound: process deaths
          Sweeps,     \* the sweep goroutine runs
          Batches     \* refreshes may come in a batch

ASSUME LifecycleBounds == MaxCrashes \in Nat /\ Sweeps \in BOOLEAN /\ Batches \in BOOLEAN

VARIABLES crashes

vars == <<stores, workerVars, sweeper, queueVars, crashes>>

Init == StoresInit /\ WorkerInit /\ SweeperInit /\ QueueInit /\ crashes = 0

\* A sweep lasts twenty seconds at most and a handler's deadlines are far below
\* the fifteen minutes of grace, so neither sees a row it works on age; no
\* attempt of a goroutine lasts a day.
Unattended(r) == dispatch[r].pc \in {"new", "done"} /\ retry.pc = "idle" /\ sweeper.req # r
Unworked      == \A w \in Workers : worker[w].pc \in {"idle", "off"}
Time ==
    \E r \in Requests :
        \/ Unattended(r) /\ GrowStale(r)
        \/ Unattended(r) /\ Unworked /\ GrowExpired(r)
        \/ CloseWindow(r)

\* The process dies and starts again; held messages wait for their timer.
Crash ==
    /\ crashes < MaxCrashes /\ crashes' = crashes + 1
    /\ WorkerRestart /\ sweeper' = Resting /\ QueueRestart
    /\ UNCHANGED <<facts, rows, artist, nats, faults>>

\* Bound: a second refresh comes only where nothing fails, and nothing fails
\* once it has come.
InUse == {r \in Requests : dispatch[r].pc # "new"}
Crowd == Cardinality(InUse) <= 1 \/ (faults = 0 /\ lapses = 0 /\ retries = 0 /\ runs = 0)

Work(w)  == WorkerStep(w) /\ UNCHANGED <<sweeper, queueVars, crashes>> /\ Crowd'
Sweep    == Sweeps /\ SweeperStep /\ UNCHANGED <<workerVars, queueVars, crashes>> /\ Crowd'
Handle   ==
    /\ \/ \E r \in Requests : Accept(r) \/ (Batches /\ PersistBatch(r)) \/ DispatchStep(r)
       \/ ClickRetry \/ RetryStep
    /\ UNCHANGED <<workerVars, sweeper, crashes>> /\ Crowd'
Outside  ==
    /\ \/ Time /\ UNCHANGED <<workerVars, sweeper, queueVars, crashes>>
       \/ (\E m \in DOMAIN queue : AckWaitExpires(m)) /\ UNCHANGED <<sweeper, queueVars, crashes>>
       \/ (\E w \in Workers : PoolExit(w)) /\ UNCHANGED <<sweeper, queueVars, crashes>>
    /\ Crowd'

Next == (\E w \in Workers : Work(w)) \/ Sweep \/ Handle \/ Outside \/ Crash

Spec == Init /\ [][Next]_vars

\* Goroutines run, the sweep ticks, accepted requests go on, the broker
\* redelivers and time passes.  Nobody has to click and nothing has to fail.
FairSpec ==
    /\ Spec
    /\ \A w \in Workers : WF_vars(Work(w))
    /\ WF_vars(Sweep)
    /\ \A r \in Requests : WF_vars(DispatchStep(r) /\ UNCHANGED <<workerVars, sweeper, crashes>>)
    /\ WF_vars(RetryStep /\ UNCHANGED <<workerVars, sweeper, crashes>>)
    /\ WF_vars(Outside)
-----------------------------------------------------------------------------
Messages == [req : Requests, late : BOOLEAN, delivered : 0..MaxDeliver,
             state : {"ready", "held", "spent", "gone"}]

\* Types of the shared stores and of the processes' program counters.
TypeOK ==
    /\ stream \in [Requests -> Seq(Facts)]
    /\ listened \in [Requests -> {0, 1}]
    /\ row \in [Requests -> [Sides -> RowStatus]]
    /\ aged \in [Requests -> Ages] /\ requeued \in [Requests -> BOOLEAN]
    /\ artist \in [Places -> FetchStatus]
    /\ queue \in Seq(Messages) /\ window \subseteq Requests /\ cache \subseteq Requests
    /\ faults \in 0..MaxFaults
    /\ \A w \in Workers : worker[w].m \in 0..Len(queue) /\ worker[w].rows \subseteq Requests
    /\ \A w \in Workers : worker[w].m = 0 => worker[w].pc \in {"idle", "off"}

\* Nothing is under way: the processes rest, the queue holds nothing a worker
\* could get, and no row waits for one.
Settled ==
    /\ \A w \in Workers : worker[w].pc \in {"idle", "off"}
    /\ sweeper = Resting /\ retry.pc = "idle"
    /\ \A r \in Requests : dispatch[r].pc \in {"new", "done"} /\ ~InProgress(r)
    /\ \A m \in DOMAIN queue : queue[m].state \in {"spent", "gone"}

-----------------------------------------------------------------------------
(* Safety.                                                                 *)

\* A row, a stream or the worker's cache says succeeded only when some request
\* of the artist really brought its listeners home: a reconciled failure
\* (clearFailedJobsForArtist) leans on a scrape that happened.
SuccessIsBacked ==
    \A r \in Requests :
        row[r]["db"] = "succeeded" \/ Status(stream[r]) = "succeeded" \/ r \in cache
            => \E q \in Requests : listened[q] = 1

\* A request whose listeners were recorded ends with a succeeded row: no sweep,
\* dead letter or retry leaves it failed (isRequestAlreadySucceeded and the
\* guards of the sweep's updates).  A death of the process between the fact and
\* the rows may (the sweep goes by the rows).
ListenersAreKept ==
    Settled /\ crashes = 0 => \A r \in Requests : listened[r] = 1 => row[r]["db"] \in {"none", "succeeded"}

\* Once everything rests, a SQLite row shows what its job stream says
\* (recordJobEvent beside setScrapeJobProcessing and setScrapeJobFinished),
\* unless the process died between the two.
RowOf(status) == IF status = "dead_lettered" THEN "failed" ELSE status
RowsFollowStreams ==
    Settled /\ crashes = 0 => \A r \in Requests : row[r]["db"] \in {"none", RowOf(Status(stream[r]))}

\* Once everything rests, the two stores of scrape_jobs agree, unless the
\* process died between the writes of the two.
RowsAgree == Settled /\ crashes = 0 => \A r \in Requests : row[r]["db"] = row[r]["pb"]

\* Once everything rests, no store still shows the artist as being fetched;
\* a pending artist refuses every further refresh (isArtistRefreshPending).
\* A failing write may leave it so, a goroutine that marks the artist pending for
\* a message it no longer holds, and a retry within the duplicate window, which
\* takes its row back.
ArtistIsReleased == Settled /\ faults = 0 /\ lapses = 0 /\ retries = 0 => \A p \in Places : artist[p] # "pending"

\* The sweep condemns only requests that were never handed to the broker
\* (markOrphanedQueuedJobs): a message of theirs is younger than the verdict.
OrphansWereNotDispatched ==
    \A r \in Requests : HasVerdict(stream[r]) =>
        \A m \in DOMAIN queue : queue[m].req = r => queue[m].late

\* When everything rests the rows of both stores tell what the job streams tell,
\* and neither a recorded scrape nor a dispatched request has been condemned.
RowsAreSound ==
    TypeOK /\ RowsFollowStreams /\ RowsAgree /\ ListenersAreKept /\ OrphansWereNotDispatched

\* A succeeded row stays so until its record is deleted; redeliveries, sweeps
\* and dead letters do not reopen it.
SucceededRowsStay ==
    [][\A r \in Requests : row[r]["db"] = "succeeded" => row'[r]["db"] \in {"none", "succeeded"}]_vars

\* A message nobody has taken disappears only when it is a day old or when no
\* store has a queued row for it (purgeOrphanScrapeRequests).
QueuedMessagesStay ==
    [][\A m \in DOMAIN queue :
           queue[m].state = "ready" /\ queue'[m].state = "gone" =>
               LET r == queue[m].req
               IN  aged'[r] = "expired" \/ \A s \in Sides : row[r][s] # "queued"]_vars

\* Nothing that is still wanted is taken back: neither a scrape that succeeded
\* nor a message that waits for a worker.
WantedJobsStay == SucceededRowsStay /\ QueuedMessagesStay

-----------------------------------------------------------------------------
(* Liveness.                                                               *)

Settles(side) == \A r \in Requests : row[r][side] = "processing" ~> row[r][side] # "processing"

\* No SQLite row stays processing for ever: a worker finishes it or the sweep
\* does (markStaleJobsSQLite).
RowSettles == Settles("db")

\* The same of the PocketBase record (the second pass of markStaleJobs), for a
\* process that does not die; for one that does see MirrorRecovers.
MirrorSettles == \A r \in Requests : row[r]["pb"] = "processing" ~> row[r]["pb"] # "processing" \/ crashes > 0

\* No row of either store stays processing for ever.
RowsSettle == RowSettles /\ MirrorSettles

\* "Crash-window convergence: stream already succeeded, don't fail it"
\* (jobs.go:729): the record settles whatever happens to the process.
MirrorRecovers == Settles("pb")
=============================================================================
