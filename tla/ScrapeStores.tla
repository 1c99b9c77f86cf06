---------------------------- MODULE ScrapeStores ----------------------------
(***************************************************************************)
(* What the scrape pipeline shares: the job streams and the artist's       *)
(* stream, the rows that mirror them in SQLite ("db") and in PocketBase    *)
(* ("pb"), and the SCRAPE_REQUESTS work queue.  One artist; the requests   *)
(* are its refreshes, one job row and one job stream each.                 *)
(***************************************************************************)
EXTENDS JobStream, FiniteSets

CONSTANTS Requests,    \* request_ids the artist's refreshes may use
          MaxDeliver,  \* the consumer's MaxDeliver, equal to worker.maxDeliver
          MaxFaults    \* bound: failing store writes, appends and publishes

ASSUME MaxDeliverAssumption == MaxDeliver \in Nat \ {0}
ASSUME MaxFaultsAssumption == MaxFaults \in Nat

VARIABLES stream,    \* job streams
          listened,  \* ArtistMonthlyListenersScraped facts, per request
          row,       \* scrape_jobs status per store; "none" when there is no row
          aged,      \* age of a row's queued_at/started_at
          requeued,  \* queued_at lies after the stream's orphan verdict
          artist,    \* fetch_status: aggregate ("log"), SQLite, PocketBase
          queue,     \* messages ever stored in SCRAPE_REQUESTS
          window,    \* request_ids inside the stream's duplicate window
          cache,     \* worker.succeededRequests
          faults

facts  == <<stream, listened>>
rows   == <<row, aged, requeued>>
nats   == <<queue, window>>
stores == <<facts, rows, artist, nats, cache, faults>>

Sides     == {"db", "pb"}
Places    == {"log", "db", "pb"}
RowStatus == {"none", "queued", "processing", "succeeded", "failed"}
FetchStatus == {"idle", "pending", "failed"}
\* A row is older than the sweep's grace ("stale"), than 24 hours ("expired").
Ages == {"fresh", "stale", "expired"}

StoresInit ==
    /\ stream = [r \in Requests |-> << >>] /\ listened = [r \in Requests |-> 0]
    /\ row = [r \in Requests |-> [s \in Sides |-> "none"]]
    /\ aged = [r \in Requests |-> "fresh"] /\ requeued = [r \in Requests |-> FALSE]
    /\ artist = [p \in Places |-> "idle"]
    /\ queue = << >> /\ window = {} /\ cache = {} /\ faults = 0

Fault == faults < MaxFaults /\ faults' = faults + 1

\* recordJobEvent, and its callers that only warn when the append fails.
Record(r, fs) == stream' = [stream EXCEPT ![r] = Recorded(@, fs)]
RecordWarn(r, fs) ==
    \/ Record(r, fs) /\ UNCHANGED faults
    \/ Fault /\ UNCHANGED stream

\* UPDATE scrape_jobs ... WHERE request_id = ?: an absent row stays absent.
Updated(old, sides, status) ==
    [s \in Sides |-> IF s \in sides /\ old[s] # "none" THEN status ELSE old[s]]
SetRow(r, sides, status) == row' = [row EXCEPT ![r] = Updated(@, sides, status)]
\* Both stores are written and a failing write only warns.
SetRowWarn(r, status) ==
    \E sides \in SUBSET Sides :
        /\ SetRow(r, sides, status)
        /\ IF sides = Sides THEN UNCHANGED faults ELSE Fault

SetArtist(places, status) ==
    artist' = [p \in Places |-> IF p \in places THEN status ELSE artist[p]]

\* A message the consumer gets back: redelivered until MaxDeliver is spent.
Released(msg) ==
    IF msg.state = "gone" THEN msg
    ELSE [msg EXCEPT !.state = IF msg.delivered < MaxDeliver THEN "ready" ELSE "spent"]
Release(m) == queue' = [queue EXCEPT ![m] = Released(@)]
Remove(m)  == queue' = [queue EXCEPT ![m].state = "gone"]

\* PublishScrapeRequested with MsgID = request_id: stored, or a duplicate.
\* The message's timestamp is later than an orphan verdict already recorded.
Message(r) == [req |-> r, late |-> HasVerdict(stream[r]), delivered |-> 0, state |-> "ready"]
Store(r) ==
    /\ r \notin window
    /\ queue' = Append(queue, Message(r)) /\ window' = window \cup {r}

\* requestStreamVerdict's first result: the cache, the job stream, and for a
\* stream that is still open the PocketBase row.
Succeeded(r) ==
    \/ r \in cache
    \/ /\ ~IsVerdict(stream[r])
       /\ \/ Status(stream[r]) = "succeeded"
          \/ ~Closed(stream[r]) /\ row[r]["pb"] = "succeeded"
Remember(r) == cache' = IF Succeeded(r) THEN cache \cup {r} ELSE cache
-----------------------------------------------------------------------------
(* Time and the broker.                                                    *)

InProgress(r) == \E s \in Sides : row[r][s] \in {"queued", "processing"}

\* A queued or processing row outlives the sweep's threshold.
GrowStale(r) ==
    /\ InProgress(r) /\ aged[r] = "fresh"
    /\ aged' = [aged EXCEPT ![r] = "stale"]
    /\ UNCHANGED <<facts, row, requeued, artist, nats, cache, faults>>

\* 24 hours: the row passes queuedJobExpiry and MaxAge drops its messages.
GrowExpired(r) ==
    /\ InProgress(r) /\ aged[r] = "stale"
    /\ aged' = [aged EXCEPT ![r] = "expired"]
    /\ queue' = [m \in DOMAIN queue |->
                    IF queue[m].req = r THEN [queue[m] EXCEPT !.state = "gone"] ELSE queue[m]]
    /\ UNCHANGED <<facts, row, requeued, artist, window, cache, faults>>

\* The 30-second duplicate window of SCRAPE_REQUESTS ends.
CloseWindow(r) ==
    /\ r \in window /\ window' = window \ {r}
    /\ UNCHANGED <<facts, rows, artist, queue, cache, faults>>
=============================================================================
