----------------------------- MODULE ArtistFacts -----------------------------
(***************************************************************************)
(* The artist aggregate as far as a load and a redelivered scrape can tell *)
(* its states apart: the fetch status, the last listeners (named by the    *)
(* request that brought them) and the window of requests it remembers.     *)
(***************************************************************************)
EXTENDS Naturals, Sequences, FiniteSets, FiniteSetsExt, Functions, SequencesExt

CONSTANTS Artists,
          Requests, \* request_ids of scrapes
          Window    \* recordedListenerRequestIDsLimit

ASSUME WindowAssumption == Window \in Nat \ {0}

Manual == "manual" \* a listener count entered by hand carries no request
Fact(type, req) == [type |-> type, req |-> req]
Facts == {Fact("created", Manual), Fact("pending", Manual)}
         \cup {Fact("scraped", q) : q \in Requests \cup {Manual}}

Unborn == [fetch |-> "none", listeners |-> Manual, last |-> Manual, ids |-> << >>]

\* recordListenerRequestID: a request keeps its place, the oldest leaves.
Remembered(ids, req) ==
    IF req = Manual \/ Contains(ids, req) THEN ids
    ELSE IF Len(ids) < Window THEN Append(ids, req) ELSE Append(Tail(ids), req)

\* Artist.apply.
Applied(state, fact) ==
    CASE fact.type = "created" -> [Unborn EXCEPT !.fetch = "idle"]
      [] fact.type = "scraped" -> [fetch |-> "idle", listeners |-> fact.req, last |-> fact.req,
                                   ids |-> Remembered(state.ids, fact.req)]
      [] OTHER -> [state EXCEPT !.fetch = fact.type]

\* Replay.
Folded(facts) == FoldLeft(Applied, Unborn, facts)

\* HasRecordedListenersForRequest.
HasRecorded(state, req) == req # Manual /\ (Contains(state.ids, req) \/ state.last = req)
=============================================================================
