------------------------------ MODULE SagaIndex ------------------------------
(***************************************************************************)
(* The command log and the saga index: saga_instances, which the           *)
(* orchestrator's ticks derive from the scrape_jobs rows and the job       *)
(* streams while requests are accepted, worked on, swept, retried,         *)
(* redriven from the log and purged.  The lifecycle itself is coarse here; *)
(* ScrapeLifecycle has it step by step.                                    *)
(***************************************************************************)
EXTENDS JobStream, FiniteSets, SequencesExt

CONSTANTS Requests,
          Slots,        \* requests worked on at once
          HistoryLimit, \* the limit of RecentRequestIDs
          RefreshLimit, \* refreshLimit of one tick
          MaxFaults,    \* bound: appends and log writes that fail
          MaxRepublish, \* bound: retries, redrives and deliveries that are spent
          MaxFacts      \* bound: facts in a stream

ASSUME SagaAssumption == {RefreshLimit, HistoryLimit} \subseteq Nat \ {0} /\ Slots \in Nat \ {0}
ASSUME SagaBounds == MaxFaults \in Nat /\ MaxRepublish \in Nat /\ MaxFacts \in Nat

VARIABLES life,     \* a request's way through its handler
          queued,   \* the requests in the order of their queued_at
          stream,   \* job streams
          row,      \* scrape_jobs
          logged,   \* request_ids in the command log
          message,  \* the request's message waits in SCRAPE_REQUESTS
          work,     \* what the worker does with the request
          won,      \* a scrape of the request has succeeded
          index,    \* saga_instances
          tick,     \* the orchestrator's goroutine
          faults, republished

jobs == <<life, queued, stream, row, logged, message, work, won>>
saga == <<index, tick>>
vars == <<jobs, saga, faults, republished>>

Live      == {"queued", "processing", "failed"}
Ended     == {"done", "dead"}
Between   == [pc |-> "idle", todo |-> {}, req |-> "none", state |-> "none"]

Init == /\ life = [r \in Requests |-> "new"] /\ queued = << >> /\ stream = [r \in Requests |-> << >>]
        /\ row = [r \in Requests |-> "none"] /\ logged = {}
        /\ message = [r \in Requests |-> FALSE] /\ work = [r \in Requests |-> "none"]
        /\ won = {}
        /\ index = [r \in Requests |-> "none"] /\ tick = Between
        /\ faults = 0 /\ republished = 0

Fault == faults < MaxFaults /\ faults' = faults + 1
\* Appends only warn.
Facted(r, facts) ==
    \/ stream' = [stream EXCEPT ![r] = Recorded(@, facts)] /\ UNCHANGED faults
    \/ Fault /\ UNCHANGED stream
Log(r) == logged' = logged \cup {r}
RowTo(r, status) == row' = [row EXCEPT ![r] = IF @ = "none" THEN @ ELSE status]
-----------------------------------------------------------------------------
(* The requests.                                                           *)

\* The row and the fact of a refresh, whose append only warns, and its message.
Accept(r) ==
    /\ life[r] = "new" /\ life' = [life EXCEPT ![r] = "opened"]
    /\ queued' = Append(queued, r) /\ row' = [row EXCEPT ![r] = "queued"]
    /\ \/ stream' = [stream EXCEPT ![r] = Opened(@)] /\ UNCHANGED faults
       \/ Fault /\ UNCHANGED stream
    /\ UNCHANGED <<logged, message, work, won, saga, republished>>
\* The publish; a failed one rolls the row back.  Log follows it, and only warns.
Publish(r) ==
    /\ life[r] = "opened" /\ life' = [life EXCEPT ![r] = "over"]
    /\ UNCHANGED <<queued, work, won, saga, republished>>
    /\ \/ /\ message' = [message EXCEPT ![r] = TRUE] /\ UNCHANGED <<stream, row>>
          /\ \/ Log(r) /\ UNCHANGED faults
             \/ Fault /\ UNCHANGED logged
       \/ /\ Fault /\ UNCHANGED <<message, logged>>
          /\ stream' = [stream EXCEPT ![r] = Recorded(@, <<"failed">>)]
          /\ row' = [row EXCEPT ![r] = "none"]

\* Mutant: the row alone tells whether a request has succeeded.
DecidedByRow(r) == row[r] = "succeeded"

\* requestStreamVerdict: the stream outlives the row.
Decided(r) == Status(stream[r]) = "succeeded" \/ row[r] = "succeeded"

\* A delivery is answered at once, or worked on in a free slot.
Start(r) ==
    /\ message[r] /\ work[r] = "none" /\ UNCHANGED <<life, queued, logged, saga, republished, won>>
    /\ \/ /\ Decided(r) /\ message' = [message EXCEPT ![r] = FALSE]
          /\ UNCHANGED <<stream, row, work, faults>>
       \/ /\ ~Decided(r) /\ Len(stream[r]) < MaxFacts
          /\ Cardinality({q \in Requests : work[q] # "none"}) < Slots /\ Facted(r, <<"started">>)
          /\ RowTo(r, "processing") /\ work' = [work EXCEPT ![r] = "busy"]
          /\ UNCHANGED message

\* Its outcome: the fact first, then the row.  A dead letter fails the row.
Finish(r) ==
    /\ work[r] = "busy" /\ message' = [message EXCEPT ![r] = FALSE]
    /\ \E outcome \in {"succeeded", "failed", "deadlettered"} :
          /\ Facted(r, <<outcome>>)
          /\ won' = IF outcome = "succeeded" THEN won \cup {r} ELSE won
          /\ work' = [work EXCEPT ![r] = IF outcome = "succeeded" THEN outcome ELSE "failed"]
    /\ UNCHANGED <<life, queued, row, logged, saga, republished>>
Settle(r) ==
    /\ work[r] \in {"succeeded", "failed"} /\ RowTo(r, work[r]) /\ work' = [work EXCEPT ![r] = "none"]
    /\ UNCHANGED <<life, queued, stream, logged, message, won, saga, faults, republished>>

\* Its last delivery is handed back, which records nothing: the broker drops it.
Spent(r) ==
    /\ work[r] = "busy" /\ message' = [message EXCEPT ![r] = FALSE] /\ work' = [work EXCEPT ![r] = "none"]
    /\ republished < MaxRepublish /\ republished' = republished + 1
    /\ UNCHANGED <<life, queued, stream, row, logged, won, saga, faults>>

\* The sweep of a stale row: to what its stream says, or failed.
Sweep(r) ==
    /\ row[r] \in {"queued", "processing"} /\ work[r] = "none" /\ life[r] = "over" /\ ~message[r]
    /\ \/ /\ Decided(r) /\ RowTo(r, "succeeded") /\ UNCHANGED <<stream, faults>>
       \/ ~Decided(r) /\ Facted(r, <<"failed">>) /\ RowTo(r, "failed")
    /\ UNCHANGED <<life, queued, logged, message, work, won, saga, republished>>

\* purgeOldSucceededJobs.
Purge(r) ==
    /\ row[r] = "succeeded" /\ row' = [row EXCEPT ![r] = "none"]
    /\ UNCHANGED <<life, queued, stream, logged, message, work, won, saga, faults, republished>>

\* A retry re-queues a failed row.
Retry(r) ==
    /\ row[r] = "failed" /\ work[r] = "none" /\ republished < MaxRepublish
    /\ republished' = republished + 1
    /\ RowTo(r, "queued") /\ message' = [message EXCEPT ![r] = TRUE]
    /\ UNCHANGED <<life, queued, stream, logged, work, won, saga, faults>>

\* List with UnresolvedOnly: the row has failed or is missing.
Unresolved(r) == row[r] \in {"failed", "none"}

\* Redrive publishes the logged request again, and changes no row.
Republish(r) == r \in logged /\ message' = [message EXCEPT ![r] = TRUE]

\* HandleCommandsRedrive, for what is listed, resolved requests included or not.
Redrive(r) ==
    /\ Republish(r) /\ republished < MaxRepublish /\ republished' = republished + 1
    /\ \E unresolvedOnly \in BOOLEAN : unresolvedOnly => Unresolved(r)
    /\ UNCHANGED <<life, queued, stream, row, logged, work, won, saga, faults>>

Only(s, found) == FlattenSeq([i \in DOMAIN s |-> IF s[i] \in found THEN <<s[i]>> ELSE << >>])
Newest(found) == Only(Reverse(queued), found)
Taken(s)      == SubSeq(s, 1, IF Len(s) < HistoryLimit THEN Len(s) ELSE HistoryLimit)
HasRow        == {r \in Requests : row[r] # "none"}

\* Mutant: the history of an artist is listed from the rows.
RecentRows == Taken(Newest(HasRow))

\* RecentRequestIDs: the log's newest, then the rows' unless the log has filled
\* the limit.
RecentRequests ==
    LET commands == Taken(Newest(logged))
        rows     == Only(Taken(Newest(HasRow)), Requests \ logged)
    IN  Taken(IF Len(commands) < HistoryLimit THEN commands \o rows ELSE commands)
-----------------------------------------------------------------------------
(* The orchestrator.                                                       *)

\* DeriveState.
StateOf(s) == IF Closed(s) THEN IF Status(s) = "succeeded" THEN "done" ELSE "dead"
              ELSE IF Status(s) \in {"failed", "processing"} THEN Status(s) ELSE "requested"

\* refreshInstance: without a stream the row decides, and without either the
\* request can never go on.
Derived(r) == IF stream[r] # << >> THEN StateOf(stream[r])
              ELSE CASE row[r] = "none"      -> "dead"
                     [] row[r] = "succeeded" -> "done"
                     [] row[r] = "failed"    -> "failed"
                     [] OTHER                -> "requested"

Ticks(new) == tick' = new /\ UNCHANGED <<jobs, faults, republished>>

\* refreshLiveRows' query.
ListLive ==
    /\ tick.pc = "idle" /\ Ticks([Between EXCEPT !.pc = "live", !.todo = {r \in Requests : row[r] \in Live}])
    /\ UNCHANGED index

\* Mutant: only what was left requested is derived again.
OpenRequested == {r \in Requests : index[r] = "requested"}

\* The non-terminal instances.
OpenRows == {r \in Requests : index[r] \notin Ended \cup {"none"}}

\* refreshOpenInstances' query: nothing orders it, so any of them fill its limit.
ListOpen ==
    /\ tick.pc = "live" /\ tick.todo = {} /\ tick.req = "none" /\ UNCHANGED index
    /\ \E rows \in SUBSET OpenRows :
          /\ \/ Cardinality(rows) = RefreshLimit
             \/ rows = OpenRows /\ Cardinality(rows) < RefreshLimit
          /\ Ticks([Between EXCEPT !.pc = "open", !.todo = rows])

\* refreshInstance loads, and then upserts.
Load(r) ==
    /\ r \in tick.todo /\ tick.req = "none" /\ UNCHANGED index
    /\ Ticks([tick EXCEPT !.todo = @ \ {r}, !.req = r, !.state = Derived(r)])
Upsert ==
    LET r == tick.req
    IN  /\ r # "none" /\ Ticks([tick EXCEPT !.req = "none", !.state = "none"])
        /\ index' = [index EXCEPT ![r] = tick.state]

\* pruneTerminal: a week without an update, which a live row's next tick makes.
EndTick ==
    /\ tick.pc = "open" /\ tick.todo = {} /\ tick.req = "none" /\ Ticks(Between)
    /\ \E old \in SUBSET {r \in Requests : index[r] \in Ended /\ row[r] \notin Live} :
          index' = [r \in Requests |-> IF r \in old THEN "none" ELSE index[r]]

Step(r) == \/ Accept(r) \/ Publish(r) \/ Start(r) \/ Finish(r) \/ Settle(r)
           \/ Spent(r) \/ Sweep(r)
Outside(r) == Purge(r) \/ Retry(r) \/ Redrive(r)
Tick == ListLive \/ ListOpen \/ Upsert \/ EndTick \/ \E r \in Requests : Load(r)
Next == Tick \/ \E r \in Requests : Step(r) \/ Outside(r)

\* Run ticks for ever; a request that is accepted goes on.
Fairness == /\ WF_vars(Tick)
            /\ \A r \in Requests : WF_vars(Publish(r) \/ Start(r) \/ Finish(r)
                                           \/ Settle(r) \/ Sweep(r))
Spec == Init /\ [][Next]_vars /\ Fairness
-----------------------------------------------------------------------------
\* Types.
TypeOK ==
    \A r \in Requests : /\ stream[r] \in Seq(Facts) /\ row[r] \in Live \cup {"none", "succeeded"}
                        /\ index[r] \in {"none", "requested", "processing", "failed"} \cup Ended

\* What the index calls done has been won, and a dead saga is one that was dead
\* lettered or that has left neither row nor stream.
EndsAreReal ==
    \A r \in Requests :
        /\ index[r] = "done" => r \in won
        /\ index[r] = "dead" => Status(stream[r]) = "dead_lettered" \/ faults > 0

\* An artist's history shows its newest requests, whatever has been purged.
RecentAreNewest ==
    faults = 0 /\ (\A r \in Requests : life[r] # "opened") => RecentRequests = Taken(Reverse(queued))

\* An ended saga does not come back to life in the index, however old the read
\* was that a refresh writes.
EndsStay == [][\A r \in Requests : index[r] \in Ended /\ faults = 0 => index'[r] \in {index[r], "none"}]_vars

\* "terminal flips that bypass live rows (reconciled successes, dead letters)
\* converge" (orchestrator.go): an indexed saga ends up in its stream's state.
IndexConverges ==
    \A r \in Requests :
        <>[](index[r] \in {"none", Derived(r)}) \/ <>[](faults > 0)

\* "Already-succeeded dispatches ack-skip in the worker by request_id design"
\* (commands.go), also when the row was purged before the redrive.  The stream of
\* a dead letter has closed before the success and cannot tell.
WonIsNotRepeated ==
    [][\A r \in Requests : work'[r] = "busy" /\ work[r] # "busy" /\ faults = 0
                           => r \notin won \/ Status(stream[r]) = "dead_lettered"]_vars

\* The index and the history show what the streams and the artists' facts say.
IndexIsSound == TypeOK /\ EndsAreReal /\ RecentAreNewest

\* The index comes to agree with the streams and keeps an end it has shown
\* (RefreshArtist, RefreshOpen).
IndexSettles == EndsStay /\ IndexConverges
=============================================================================
