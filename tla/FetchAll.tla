------------------------------ MODULE FetchAll ------------------------------
(***************************************************************************)
(* fetcher.Service.FetchAll: a list of artists is fetched by a pool of     *)
(* workers, or, when the client takes batches, a batch at a time and then  *)
(* one by one for what a batch leaves out.  Its context can end anywhere.  *)
(***************************************************************************)
EXTENDS Integers, Sequences, FiniteSets, Functions

CONSTANTS Ids,        \* artistIDs
          PoolSize,   \* LocalConcurrency
          BatchSize   \* ApifyBatchSize

ASSUME FetchAllSizes == {PoolSize, BatchSize} \subseteq Nat \ {0}
ASSUME FetchAllList  == Ids \in Seq(Range(Ids))

VARIABLES way,     \* whether the client is a BatchFetcher
          next,    \* index of the first id not handed out yet
          hands,   \* pool: per worker, the index it was handed, Free or Gone
          again,   \* batch: indices to retry one by one
          results, \* ids with a count
          missed,  \* ids that could not be fetched
          ended,   \* the context has ended
          stage    \* "feed", "wait" or "done"

allVars == <<way, next, hands, again, results, missed, ended, stage>>

Free  == 0
Gone  == -1
Hands == 1..PoolSize
Indices == 1..Len(Ids)
Left   == next..Len(Ids)
IdsAt(places) == {Ids[i] : i \in places}

AllInit == /\ way \in {"pool", "batch"} /\ next = 1 /\ hands = [w \in Hands |-> Free]
           /\ again = {} /\ results = {} /\ missed = {} /\ ended = FALSE /\ stage = "feed"

ContextDone == ~ended /\ stage # "done" /\ ended' = TRUE
               /\ UNCHANGED <<way, next, hands, again, results, missed, stage>>

\* fetchWithRetry fails, or has a count, even when the context ends meanwhile.
FetchedOne(id) == \/ results' = results \cup {id} /\ UNCHANGED missed
                  \/ missed' = missed \cup {id} /\ UNCHANGED results
-----------------------------------------------------------------------------
(* The pool.                                                               *)

Feed(w) ==
    /\ way = "pool" /\ stage = "feed" /\ next <= Len(Ids) /\ hands[w] = Free
    /\ hands' = [hands EXCEPT ![w] = next] /\ next' = next + 1
    /\ UNCHANGED <<way, again, results, missed, ended, stage>>
CloseJobs ==
    /\ way = "pool" /\ stage = "feed" /\ (next > Len(Ids) \/ ended)
    /\ stage' = "wait" /\ UNCHANGED <<way, next, hands, again, results, missed, ended>>

\* A worker that finds its context ended drops the id it was handed.
WorkOn(w) ==
    /\ way = "pool" /\ hands[w] \in Indices /\ UNCHANGED <<way, next, again, ended, stage>>
    /\ \/ /\ ended /\ hands' = [hands EXCEPT ![w] = Gone] /\ UNCHANGED <<results, missed>>
       \/ hands' = [hands EXCEPT ![w] = Free] /\ FetchedOne(Ids[hands[w]])
PoolDone ==
    /\ way = "pool" /\ stage = "wait" /\ \A w \in Hands : hands[w] \in {Free, Gone}
    /\ stage' = "done" /\ UNCHANGED <<way, next, hands, again, results, missed, ended>>
-----------------------------------------------------------------------------
(* The batches.                                                            *)

\* fetchAllBatch: an ended context leaves every further id to the missed ones.
FetchAllBatch ==
    /\ way = "batch" /\ stage = "feed" /\ again = {} /\ UNCHANGED <<way, hands, again, results, ended>>
    /\ (ended \/ Left = {}) /\ missed' = missed \cup IdsAt(Left)
    /\ next' = Len(Ids) + 1 /\ stage' = "done"

\* FetchApifyBatch has counts for some of the ids, for none when its run fails.
FetchApifyBatch(batch) == SUBSET IdsAt(batch)

\* processBatch: what the run of a batch leaves out is retried one by one.
ProcessBatch ==
    /\ way = "batch" /\ stage = "feed" /\ again = {} /\ Left # {} /\ ~ended
    /\ UNCHANGED <<way, hands, missed, ended, stage>>
    /\ LET batch == {i \in Left : i < next + BatchSize}
       IN  \E answered \in FetchApifyBatch(batch) :
               /\ results' = results \cup answered
               /\ again' = {i \in batch : Ids[i] \notin answered}
               /\ next' = IF next + BatchSize <= Len(Ids) THEN next + BatchSize ELSE Len(Ids) + 1

\* The retries go in the order of the batch.
FirstAgain == CHOOSE i \in again : \A j \in again : i <= j

\* Mutant: the retries that an ended context leaves out are forgotten.
RetryUntilDone ==
    /\ way = "batch" /\ again # {} /\ UNCHANGED <<way, next, hands, ended, stage>>
    /\ IF ended THEN again' = {} /\ UNCHANGED <<results, missed>>
       ELSE again' = again \ {FirstAgain} /\ FetchedOne(Ids[FirstAgain])

RetryBatchMissed ==
    /\ way = "batch" /\ again # {} /\ UNCHANGED <<way, next, hands, ended, stage>>
    /\ IF ended THEN /\ again' = {} /\ missed' = missed \cup IdsAt(again)
                     /\ UNCHANGED results
       ELSE again' = again \ {FirstAgain} /\ FetchedOne(Ids[FirstAgain])

AllNext == \/ \E w \in Hands : Feed(w) \/ WorkOn(w)
           \/ CloseJobs \/ PoolDone \/ FetchAllBatch \/ ProcessBatch \/ RetryBatchMissed
           \/ ContextDone
AllSpec == AllInit /\ [][AllNext]_allVars
-----------------------------------------------------------------------------
\* Every id is returned with a count or as missed, never as both if the list names
\* it once; only the pool, and only when its context has ended, may return it as neither.
EveryIdIsReturned == stage = "done" =>
    /\ IsInjective(Ids) => results \cap missed = {}
    /\ way = "batch" \/ ~ended => results \cup missed = Range(Ids)
=============================================================================
