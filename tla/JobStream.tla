------------------------------ MODULE JobStream ------------------------------
(***************************************************************************)
(* The aggregate of one scrape request (internal/domain/scrapejob): the    *)
(* fold of its bounded event stream and the facts a command may add to it. *)
(* A stream is the sequence of its event types; "orphaned" is a            *)
(* ScrapeFailed whose reason is orphaned_no_dispatch, the one reason the   *)
(* worker tells apart.  Appends go through EventLog's optimistic           *)
(* concurrency, so a caller's load and append act as one step that either  *)
(* extends the stream it read or leaves it alone.                          *)
(***************************************************************************)
EXTENDS Naturals, Sequences

Facts    == {"requested", "started", "succeeded", "failed", "orphaned", "deadlettered"}
Closing  == {"succeeded", "deadlettered"}

\* Job.closed: set by the two closing events and never reset.
Closed(s) == \E i \in DOMAIN s : s[i] \in Closing

\* Job.status: every event type sets it, so the last event decides.
StatusAfter == [requested |-> "queued", started |-> "processing", succeeded |-> "succeeded",
                failed |-> "failed", orphaned |-> "failed", deadlettered |-> "dead_lettered"]
Status(s) == IF s = << >> THEN "none" ELSE StatusAfter[s[Len(s)]]

\* NewScrapeJob seeds an empty stream with ScrapeRequested; every Record*
\* command of a closed job records nothing.
Seeded(s) == IF s = << >> THEN <<"requested">> ELSE s
Recorded(s, facts) == IF Closed(s) THEN s ELSE Seeded(s) \o facts

\* appendJobRequested: expected version 0, and a conflict is no error.
Opened(s) == Seeded(s)

\* isOrphanedQueuedVerdict and orphanedQueuedVerdictAt.
IsVerdict(s)  == s = <<"requested", "orphaned">>
HasVerdict(s) == \E i \in DOMAIN s : s[i] = "orphaned"
=============================================================================
