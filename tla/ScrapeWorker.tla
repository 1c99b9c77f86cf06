---------------------------- MODULE ScrapeWorker ----------------------------
(***************************************************************************)
(* A provider goroutine of the scrape worker: handleMsg of                 *)
(* internal/worker/processing.go with the writes of jobs.go,               *)
(* artist_updates.go and dlq.go, one step per store the code touches.      *)
(* "pc" names the next call; "rows" holds the rows clearFailedJobsForArtist*)
(* is working through.                                                     *)
(***************************************************************************)
EXTENDS ScrapeStores

CONSTANTS Workers,   \* provider goroutines
          MaxExits,  \* bound: goroutines whose pool stops for lack of quota
          MaxLapses, \* bound: ack deadlines missed while a goroutine is alive
          Fetchers   \* whether initFetcherClient finds a provider: TRUE, FALSE

ASSUME MaxExitsAssumption == MaxExits \in Nat /\ MaxLapses \in Nat
ASSUME FetchersAssumption == Fetchers \subseteq BOOLEAN

VARIABLES worker, exits, lapses,
          hasFetcher  \* Worker.fetcher is not nil; fixed when the worker starts

workerVars == <<worker, exits, lapses, hasFetcher>>

Parked == [pc |-> "idle", m |-> 0, rows |-> {}]
WorkerInit ==
    /\ worker = [w \in Workers |-> Parked] /\ exits = 0 /\ lapses = 0
    /\ hasFetcher \in Fetchers

At(w, pc)   == worker[w].pc = pc
Goto(w, pc) == worker' = [worker EXCEPT ![w].pc = pc] /\ UNCHANGED <<exits, lapses, hasFetcher>>
Done(w)     == worker' = [worker EXCEPT ![w] = Parked] /\ UNCHANGED <<exits, lapses, hasFetcher>>
Exit(w) ==
    /\ exits < MaxExits /\ exits' = exits + 1
    /\ worker' = [worker EXCEPT ![w] = [Parked EXCEPT !.pc = "off"]] /\ UNCHANGED <<lapses, hasFetcher>>
Req(w) == queue[worker[w].m].req

\* The consumer hands a message to an idle goroutine.
Take(w, m) ==
    /\ At(w, "idle") /\ queue[m].state = "ready"
    /\ queue' = [queue EXCEPT ![m].state = "held", ![m].delivered = @ + 1]
    /\ worker' = [worker EXCEPT ![w] = [pc |-> "verdict", m |-> m, rows |-> {}]]
    /\ UNCHANGED <<facts, rows, artist, window, cache, faults, exits, lapses, hasFetcher>>

\* The dedup check and the orphan verdict of handleMsg.
Preflight(w) ==
    /\ At(w, "verdict")
    /\ Remember(Req(w))
    /\ LET orphan == HasVerdict(stream[Req(w)]) /\ ~queue[worker[w].m].late
       IN  Goto(w, IF Succeeded(Req(w)) \/ orphan THEN "ack" ELSE "start")
    /\ UNCHANGED <<facts, rows, artist, nats, faults>>

\* A parked local pool or an exhausted Apify: NAK, and the pool stops.
ProviderRefuses(w) ==
    /\ At(w, "start") /\ Release(worker[w].m) /\ Exit(w)
    /\ UNCHANGED <<facts, rows, artist, window, cache, faults>>

\* processRequest's own dedup check, made for Apify before a paid run.
ApifyDedup(w) ==
    /\ At(w, "start") /\ Succeeded(Req(w)) /\ Remember(Req(w)) /\ Goto(w, "ack")
    /\ UNCHANGED <<facts, rows, artist, nats, faults>>

RecordStarted(w) ==
    /\ At(w, "start") /\ RecordWarn(Req(w), <<"started">>) /\ Goto(w, "row")
    /\ UNCHANGED <<listened, rows, artist, nats, cache>>

\* setScrapeJobProcessing writes whatever status it finds.
SetProcessing(w) ==
    /\ At(w, "row") /\ SetRowWarn(Req(w), "processing")
    /\ aged' = [aged EXCEPT ![Req(w)] = "fresh"]
    /\ Goto(w, "pending")
    /\ UNCHANGED <<facts, requeued, artist, nats, cache>>

\* updateArtistStatus: the event only warns, a failing PocketBase save is an
\* error.
UpdateStatus(w, status, next) ==
    \/ SetArtist(Places, status) /\ Goto(w, next) /\ UNCHANGED faults
    \/ SetArtist({"pb"}, status) /\ Goto(w, next) /\ Fault
    \/ SetArtist({"log", "db"}, status) /\ Goto(w, "error") /\ Fault

SetPending(w) ==
    /\ At(w, "pending")
    /\ UpdateStatus(w, "pending", IF hasFetcher THEN "fetch" ELSE "unavailable")
    /\ UNCHANGED <<facts, rows, nats, cache>>

-----------------------------------------------------------------------------
(* The fetch and what follows a success.                                   *)

Fetched(w) ==
    /\ At(w, "fetch") /\ Goto(w, "fetched")
    /\ UNCHANGED stores

\* Quota: NAK without delay and the pool stops.
QuotaExhausted(w) ==
    /\ At(w, "fetch") /\ Release(worker[w].m) /\ Exit(w)
    /\ UNCHANGED <<facts, rows, artist, window, cache, faults>>

\* A rate limit or a cancelled context: NAK, nothing is marked.
HandBack(w) ==
    /\ At(w, "fetch") /\ Release(worker[w].m) /\ Done(w)
    /\ UNCHANGED <<facts, rows, artist, window, cache, faults>>

FetchFails(w) ==
    /\ At(w, "fetch") /\ Remember(Req(w))
    /\ Goto(w, IF Succeeded(Req(w)) THEN "ack" ELSE "error")
    /\ UNCHANGED <<facts, rows, artist, nats, faults>>

\* The second dedup check, after the fetch.
Recheck(w) ==
    /\ At(w, "fetched") /\ Remember(Req(w))
    /\ Goto(w, IF Succeeded(Req(w)) THEN "ack" ELSE "listeners")
    /\ UNCHANGED <<facts, rows, artist, nats, faults>>

\* Mutant: a failing save only warns.
UpdateListenersWarn(w) ==
    /\ At(w, "listeners")
    /\ \/ /\ listened' = [listened EXCEPT ![Req(w)] = 1]
          /\ SetArtist(Places, "idle") /\ Goto(w, "succeed") /\ UNCHANGED faults
       \/ /\ SetArtist({"pb"}, "idle") /\ Goto(w, "succeed") /\ Fault /\ UNCHANGED listened
    /\ UNCHANGED <<stream, rows, nats, cache>>

\* updateArtistListeners: PocketBase first, then the fact, which a request
\* records once; a fact already there returns before any other write.
UpdateListeners(w) ==
    /\ At(w, "listeners")
    /\ \/ /\ listened[Req(w)] = 0
          /\ listened' = [listened EXCEPT ![Req(w)] = 1]
          /\ SetArtist(Places, "idle") /\ Goto(w, "succeed") /\ UNCHANGED faults
       \/ /\ listened[Req(w)] > 0
          /\ SetArtist({"pb"}, "idle") /\ Goto(w, "succeed") /\ UNCHANGED <<listened, faults>>
       \/ /\ \E places \in SUBSET {"pb"} : SetArtist(places, "idle")
          /\ Goto(w, "error") /\ Fault /\ UNCHANGED listened
    /\ UNCHANGED <<stream, rows, nats, cache>>

RecordSucceeded(w) ==
    /\ At(w, "succeed") /\ RecordWarn(Req(w), <<"succeeded">>) /\ Goto(w, "finish")
    /\ UNCHANGED <<listened, rows, artist, nats, cache>>

\* setScrapeJobFinishedWithContext, then markRequestSucceeded: SQLite only
\* warns, PocketBase fails the attempt.
FinishSucceeded(w) ==
    /\ At(w, "finish")
    /\ \/ SetRow(Req(w), Sides, "succeeded") /\ UNCHANGED faults
          /\ cache' = cache \cup {Req(w)} /\ Goto(w, "clear")
       \/ SetRow(Req(w), {"pb"}, "succeeded") /\ Fault
          /\ cache' = cache \cup {Req(w)} /\ Goto(w, "clear")
       \/ SetRow(Req(w), {"db"}, "succeeded") /\ Fault
          /\ UNCHANGED cache /\ Goto(w, "error")
    /\ UNCHANGED <<facts, aged, requeued, artist, nats>>

\* The artist's other rows of one store that a success reconciles.
FailedRows(w, side) == {r \in Requests \ {Req(w)} : row[r][side] = "failed"}

\* clearFailedJobsForArtist, SQLite: a guarded UPDATE, then the facts of the
\* rows it changed.
ClearRows(w) ==
    /\ At(w, "clear")
    /\ row' = [r \in Requests |-> IF r \in FailedRows(w, "db")
                                  THEN Updated(row[r], {"db"}, "succeeded") ELSE row[r]]
    /\ worker' = [worker EXCEPT ![w].pc = "recovered", ![w].rows = FailedRows(w, "db")]
    /\ UNCHANGED <<facts, aged, requeued, artist, nats, cache, faults, exits, lapses, hasFetcher>>

RecordRecovered(w) ==
    /\ At(w, "recovered")
    /\ \E r \in worker[w].rows :
          /\ RecordWarn(r, <<"succeeded">>)
          /\ worker' = [worker EXCEPT ![w].rows = @ \ {r}]
    /\ UNCHANGED <<listened, rows, artist, nats, cache, exits, lapses, hasFetcher>>

\* clearFailedJobsForArtist, PocketBase: the records as they were selected.
SelectFailed(w) ==
    /\ At(w, "recovered") /\ worker[w].rows = {}
    /\ worker' = [worker EXCEPT ![w].pc = "mirror", ![w].rows = FailedRows(w, "pb")]
    /\ UNCHANGED <<stores, exits, lapses, hasFetcher>>

\* reconcileFailedJobs: the fact, then an unguarded save of the record.
ReconcileFailed(w) ==
    /\ At(w, "mirror")
    /\ \E r \in worker[w].rows :
          /\ worker' = [worker EXCEPT ![w].rows = @ \ {r}]
          /\ \/ Record(r, <<"succeeded">>) /\ SetRow(r, {"pb"}, "succeeded") /\ UNCHANGED faults
             \/ Fault /\ \/ Record(r, <<"succeeded">>) /\ UNCHANGED row
                         \/ UNCHANGED stream /\ SetRow(r, {"pb"}, "succeeded")
    /\ UNCHANGED <<listened, aged, requeued, artist, nats, cache, exits, lapses, hasFetcher>>

Reconciled(w) ==
    /\ At(w, "mirror") /\ worker[w].rows = {} /\ Goto(w, "ack")
    /\ UNCHANGED stores

Ack(w) ==
    /\ At(w, "ack") /\ Done(w)
    /\ \/ Remove(worker[w].m) /\ UNCHANGED faults
       \/ Fault /\ UNCHANGED queue
    /\ UNCHANGED <<facts, rows, artist, window, cache>>
-----------------------------------------------------------------------------
(* Failures.                                                               *)

\* handleRetryableError below the delivery limit.
RetryLater(w) ==
    /\ At(w, "error") /\ queue[worker[w].m].delivered < MaxDeliver
    /\ Release(worker[w].m) /\ Done(w)
    /\ UNCHANGED <<facts, rows, artist, window, cache, faults>>

\* handleDLQ: publish and Term; a failing publish hands the message back, a
\* failing Term leaves it unacknowledged.
DeadLetter(w) ==
    /\ At(w, "error") /\ queue[worker[w].m].delivered >= MaxDeliver
    /\ \/ Remove(worker[w].m) /\ Goto(w, "dlq artist") /\ UNCHANGED faults
       \/ Fault /\ Done(w) /\ (Release(worker[w].m) \/ UNCHANGED queue)
    /\ UNCHANGED <<facts, rows, artist, window, cache>>

\* Mutant: only PocketBase hears of the failure.
DeadLetterArtistMirror(w) ==
    /\ At(w, "dlq artist")
    /\ SetArtist({"pb"}, "failed") /\ Goto(w, "dlq row")
    /\ UNCHANGED <<facts, rows, nats, cache, faults>>

DeadLetterArtist(w) ==
    /\ At(w, "dlq artist")
    /\ \E places \in {Places, {"pb"}, {"log", "db"}} :
          /\ SetArtist(places, "failed")
          /\ IF places = Places THEN UNCHANGED faults ELSE Fault
    /\ Goto(w, "dlq row")
    /\ UNCHANGED <<facts, rows, nats, cache>>

DeadLetterRow(w) ==
    /\ At(w, "dlq row") /\ SetRowWarn(Req(w), "failed") /\ Goto(w, "dlq fact")
    /\ UNCHANGED <<facts, aged, requeued, artist, nats, cache>>

RecordDeadLettered(w) ==
    /\ At(w, "dlq fact") /\ RecordWarn(Req(w), <<"failed", "deadlettered">>) /\ Done(w)
    /\ UNCHANGED <<listened, rows, artist, nats, cache>>

\* handleFetcherUnavailable: artist, fact, row, and the message is acked.
Unavailable(w) ==
    /\ At(w, "unavailable") /\ UpdateStatus(w, "failed", "unavailable fact")
    /\ UNCHANGED <<facts, rows, nats, cache>>

RecordUnavailable(w) ==
    /\ At(w, "unavailable fact") /\ RecordWarn(Req(w), <<"failed">>) /\ Goto(w, "unavailable row")
    /\ UNCHANGED <<listened, rows, artist, nats, cache>>

UnavailableRow(w) ==
    /\ At(w, "unavailable row") /\ SetRowWarn(Req(w), "failed") /\ Goto(w, "ack")
    /\ UNCHANGED <<facts, aged, requeued, artist, nats, cache>>

\* The server's redelivery timer: the holder is gone, or its heartbeats are
\* late.
AckWaitExpires(m) ==
    /\ queue[m].state = "held"
    /\ Release(m)
    /\ IF \E w \in Workers : worker[w].m = m
       THEN lapses < MaxLapses /\ lapses' = lapses + 1
       ELSE UNCHANGED lapses
    /\ UNCHANGED <<facts, rows, artist, window, cache, faults, worker, exits, hasFetcher>>

WorkerStep(w) ==
    \/ \E m \in DOMAIN queue : Take(w, m)
    \/ Preflight(w) \/ ApifyDedup(w) \/ RecordStarted(w)
    \/ SetProcessing(w) \/ SetPending(w)
    \/ Fetched(w) \/ HandBack(w) \/ FetchFails(w) \/ Recheck(w)
    \/ UpdateListeners(w) \/ RecordSucceeded(w) \/ FinishSucceeded(w)
    \/ ClearRows(w) \/ RecordRecovered(w) \/ SelectFailed(w) \/ ReconcileFailed(w)
    \/ Reconciled(w) \/ Ack(w)
    \/ RetryLater(w) \/ DeadLetter(w) \/ DeadLetterArtist(w) \/ DeadLetterRow(w)
    \/ RecordDeadLettered(w)
    \/ Unavailable(w) \/ RecordUnavailable(w) \/ UnavailableRow(w)

PoolExit(w) == ProviderRefuses(w) \/ QuotaExhausted(w)

\* A restart: the goroutines and the success cache are gone.
WorkerRestart ==
    /\ worker' = [w \in Workers |-> Parked] /\ cache' = {}
    /\ UNCHANGED <<exits, lapses, hasFetcher>>
=============================================================================
