--------------------------- MODULE ScrapeSweeper ----------------------------
(***************************************************************************)
(* The sweep goroutine of the worker (sweepStaleJobs and markStaleJobs in  *)
(* internal/worker/jobs.go).  For each row it selects it decides from the  *)
(* job stream, records its verdict, flips the row under a guard and then   *)
(* the artist; other goroutines run between those steps.                   *)
(***************************************************************************)
EXTENDS ScrapeStores

VARIABLES sweeper   \* the row being repaired and the next write

Resting == [pc |-> "idle", req |-> "none"]
SweeperInit == sweeper = Resting

Sweeping(pc) == sweeper.pc = pc
NextWrite(pc, r) == sweeper' = [pc |-> pc, req |-> r]
Rest == sweeper' = Resting

OlderThanGrace(r) == aged[r] # "fresh"
StaleRow(r, side) == row[r][side] = "processing" /\ OlderThanGrace(r)

-----------------------------------------------------------------------------
(* Processing rows older than five minutes.                                *)

\* Mutant: a row whose request succeeded is skipped.
ConvergeStaleSkips(r) ==
    /\ Sweeping("idle") /\ StaleRow(r, "db")
    /\ Succeeded(r) /\ Remember(r)
    /\ UNCHANGED <<facts, rows, artist, nats, faults, sweeper>>

\* convergeStaleRowToSucceeded: the request succeeded, its row did not.
ConvergeStale(r) ==
    /\ Sweeping("idle") /\ StaleRow(r, "db")
    /\ Succeeded(r) /\ Remember(r)
    /\ SetRow(r, {"db"}, "succeeded")
    /\ UNCHANGED <<facts, aged, requeued, artist, nats, faults, sweeper>>

\* Mutant: the row is flipped without a fact.
FailStaleSilently(r) ==
    /\ Sweeping("idle") /\ StaleRow(r, "db") /\ ~Succeeded(r)
    /\ NextWrite("stale row", r)
    /\ UNCHANGED stores

\* markStaleJobsSQLite: the stale_timeout fact first; a row whose fact is not
\* recorded is left for the next tick.
FailStale(r) ==
    /\ Sweeping("idle") /\ StaleRow(r, "db") /\ ~Succeeded(r)
    /\ Record(r, <<"failed">>) /\ NextWrite("stale row", r)
    /\ UNCHANGED <<listened, rows, artist, nats, cache, faults>>

\* markSingleStaleRowFailed re-checks status and age.
FailStaleRow ==
    /\ Sweeping("stale row")
    /\ IF StaleRow(sweeper.req, "db") THEN SetRow(sweeper.req, {"db"}, "failed")
                                      ELSE UNCHANGED row
    /\ NextWrite("artist", sweeper.req)
    /\ UNCHANGED <<facts, aged, requeued, artist, nats, cache, faults>>

\* recordArtistFetchStatusWarn: only out of pending.
FailArtist ==
    /\ Sweeping("artist") /\ Rest
    /\ \/ /\ artist["log"] = "pending" /\ SetArtist({"log", "db"}, "failed") /\ UNCHANGED faults
       \/ artist["log"] # "pending" /\ UNCHANGED <<artist, faults>>
       \/ artist["log"] = "pending" /\ Fault /\ UNCHANGED artist
    /\ UNCHANGED <<facts, rows, nats, cache>>

\* The PocketBase pass of markStaleJobs, one transaction per record; a
\* request that succeeded is skipped.
MirrorStale(r) ==
    /\ Sweeping("idle") /\ StaleRow(r, "pb") /\ ~Succeeded(r)
    /\ SetRow(r, {"pb"}, "failed")
    /\ IF artist["pb"] = "pending" THEN SetArtist({"pb"}, "failed") ELSE UNCHANGED artist
    /\ NextWrite("artist", r)
    /\ UNCHANGED <<facts, aged, requeued, nats, cache, faults>>
-----------------------------------------------------------------------------
(* Queued rows whose request was never dispatched.                         *)

OrphanRow(r, side) == row[r][side] = "queued" /\ OlderThanGrace(r)

\* markOrphanedQueuedJobs: an empty stream gets the verdict; the verdict of an
\* unfinished repair is taken up again unless the row was queued after it.
JudgeOrphan(r) ==
    /\ Sweeping("idle") /\ OrphanRow(r, "db")
    /\ \/ stream[r] = << >> /\ Record(r, <<"orphaned">>)
       \/ IsVerdict(stream[r]) /\ ~requeued[r] /\ UNCHANGED stream
    /\ NextWrite("orphan row", r)
    /\ UNCHANGED <<listened, rows, artist, nats, cache, faults>>

\* markOrphanedQueuedRowFailedSQLite, markArtistFetchStatusFailedSQLite and
\* the PocketBase mirror: guarded flips; the artist only when nothing else of
\* it is queued or processing.
FailOrphan ==
    /\ Sweeping("orphan row")
    /\ LET r      == sweeper.req
           sides  == {s \in Sides : OrphanRow(r, s)}
           quiet(s) == \A q \in Requests \ {r} : row[q][s] \notin {"queued", "processing"}
           places == {s \in sides : quiet(s) /\ artist[s] = "pending"}
       IN  /\ SetRow(r, sides, "failed") /\ SetArtist(places, "failed")
           /\ IF "db" \in places THEN NextWrite("artist", r) ELSE Rest
    /\ UNCHANGED <<facts, aged, requeued, nats, cache, faults>>

SweeperStep ==
    \/ \E r \in Requests : \/ ConvergeStale(r) \/ FailStale(r) \/ MirrorStale(r)
                           \/ JudgeOrphan(r)
    \/ FailStaleRow \/ FailArtist \/ FailOrphan
=============================================================================
