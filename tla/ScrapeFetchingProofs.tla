------------------------ MODULE ScrapeFetchingProofs ------------------------
(***************************************************************************)
(* The scrape pipeline and what a scrape's fetch shares.                   *)
(*                                                                         *)
(* SuccessIsBacked of ScrapeLifecycle, for any requests, goroutines,       *)
(* limits and faults: no row, stream or cache speaks of a success before   *)
(* some request of the artist has recorded its listeners.  As long as no   *)
(* listeners are recorded, nothing that a step could lean on speaks of a   *)
(* success either (Clean): no row of either store, no stream, not the      *)
(* cache, and no goroutine is past its fetch.  The two stores, the         *)
(* goroutines and the sweep copy a success from one another; the           *)
(* invariant says that none of them can be the first.                      *)
(*                                                                         *)
(* The slots, refusals and cooldowns of Fetching, for any callers, any     *)
(* registry of providers and any limits.  A delay in force stays in force  *)
(* because a deadline never moves back; that it does not, though it is     *)
(* loaded, compared and swapped in three steps, rests on what a call       *)
(* carries from its load to its swap (Carries): the swap goes through      *)
(* only if nobody was in between.                                          *)
(*                                                                         *)
(* The list that FetchAll returns, for any list, pool and size of a batch, *)
(* the browser of LocalBrowser, for any callers and launches, and the      *)
(* answers of ProviderAnswers, for any pages, streaks and accounts.        *)
(***************************************************************************)
EXTENDS ScrapeLifecycle, Fetching, FetchAll, LocalBrowser, ProviderAnswers, FiniteSetTheorems,
        SequenceTheorems, WellFoundedInduction, TLAPS

Msg == [req : Requests, late : BOOLEAN, delivered : Nat, state : {"ready", "held", "spent", "gone"}]
Past == {"succeed", "finish", "clear", "recovered", "mirror"}
Away == {"idle", "off"}
Pcs  == Past \cup Away \cup
        {"verdict", "ack", "start", "row", "pending", "fetch", "unavailable", "error", "fetched", "listeners",
         "dlq artist", "dlq row", "dlq fact", "unavailable fact", "unavailable row"}
WorkerRec == [pc : Pcs, m : Nat, rows : SUBSET Requests]

\* The retry loop publishes what it put back on the queue.
RetryHolds == retry.pc = "publish" => retry.req \in Requests

\* What the steps below rely on.  A goroutine that is not idle has a message.
ScrapeTypes ==
    /\ stream \in [Requests -> Seq(Facts)] /\ listened \in [Requests -> {0, 1}]
    /\ row \in [Requests -> [Sides -> RowStatus]] /\ queue \in Seq(Msg)
    /\ worker \in [Workers -> WorkerRec]
    /\ \A w \in Workers : worker[w].pc \notin Away => worker[w].m \in 1..Len(queue)
    /\ DOMAIN retry = {"pc", "boot", "rows", "req", "prev"} /\ RetryHolds

Backed == \E q \in Requests : listened[q] = 1

\* Nothing speaks of a success.
CleanRows    == \A r \in Requests, s \in Sides : row[r][s] # "succeeded"
CleanStreams == \A r \in Requests : Status(stream[r]) # "succeeded"
CleanWorkers == \A w \in Workers : worker[w].pc \notin Past
Clean        == CleanRows /\ CleanStreams /\ CleanWorkers /\ cache = {}

ScrapeInv == ScrapeTypes /\ (Clean \/ Backed)
-----------------------------------------------------------------------------
(* Streams.                                                                *)

LEMMA FactsLast ==
    ASSUME NEW s \in Seq(Facts), NEW fs \in Seq(Facts), fs # <<>>
    PROVE  /\ Recorded(s, fs) \in Seq(Facts)
           /\ Status(Recorded(s, fs)) \in {Status(s), StatusAfter[fs[Len(fs)]]}
<1>1. Seeded(s) \in Seq(Facts)
  <2>1. <<"requested">> \in Seq(Facts)
    BY DEF Facts
  <2> QED BY <2>1 DEF Seeded
<1>2. Seeded(s) \o fs \in Seq(Facts) /\ (Seeded(s) \o fs)[Len(Seeded(s) \o fs)] = fs[Len(fs)]
      /\ Seeded(s) \o fs # <<>>
  BY <1>1
<1> QED BY <1>2 DEF Recorded, Status

\* What a step writes into the streams.
Quietly == {<<"started">>, <<"failed">>, <<"orphaned">>, <<"failed", "deadlettered">>}

LEMMA QuietRecord ==
    ASSUME ScrapeTypes, NEW r, NEW fs \in Quietly, Record(r, fs)
    PROVE  stream' \in [Requests -> Seq(Facts)] /\ (CleanStreams => CleanStreams')
<1>1. fs \in Seq(Facts) /\ fs # <<>> /\ StatusAfter[fs[Len(fs)]] # "succeeded"
  <2>1. <<"started">> \in Seq(Facts) /\ <<"failed">> \in Seq(Facts) /\ <<"orphaned">> \in Seq(Facts)
    BY DEF Facts
  <2>2. <<"failed", "deadlettered">> \in Seq(Facts)
    BY DEF Facts
  <2>3. fs[Len(fs)] \in {"started", "failed", "orphaned", "deadlettered"} /\ fs # <<>>
    BY DEF Quietly
  <2> QED BY <2>1, <2>2, <2>3 DEF Quietly, StatusAfter
<1>2. \A q \in Requests : stream[q] \in Seq(Facts)
  BY DEF ScrapeTypes
<1>3. \A q \in Requests : /\ Recorded(stream[q], fs) \in Seq(Facts)
                          /\ Status(Recorded(stream[q], fs)) \in {Status(stream[q]), StatusAfter[fs[Len(fs)]]}
  BY <1>1, <1>2, FactsLast
<1>4. \A q \in Requests : stream'[q] \in {stream[q], Recorded(stream[q], fs)}
  BY DEF Record, ScrapeTypes
<1>5. stream' = [q \in Requests |-> stream'[q]]
  BY DEF Record, ScrapeTypes
<1>6. stream' \in [Requests -> Seq(Facts)]
  BY <1>2, <1>3, <1>4, <1>5
<1>7. CleanStreams => CleanStreams'
  BY <1>1, <1>3, <1>4 DEF CleanStreams
<1> QED BY <1>6, <1>7

LEMMA SucceededRecord ==
    ASSUME ScrapeTypes, NEW r, Record(r, <<"succeeded">>)
    PROVE  stream' \in [Requests -> Seq(Facts)]
<1>1. <<"succeeded">> \in Seq(Facts) /\ <<"succeeded">> # <<>>
  BY DEF Facts
<1>2. \A q \in Requests : Recorded(stream[q], <<"succeeded">>) \in Seq(Facts)
  BY <1>1, FactsLast DEF ScrapeTypes
<1> QED BY <1>2 DEF Record, ScrapeTypes

LEMMA OpenedStream ==
    ASSUME ScrapeTypes, NEW r, stream' = [stream EXCEPT ![r] = Opened(@)]
    PROVE  stream' \in [Requests -> Seq(Facts)] /\ (CleanStreams => CleanStreams')
<1>0. <<"requested">> \in Seq(Facts) /\ Status(<<"requested">>) = "queued"
  BY DEF Facts, Status, StatusAfter
<1>1. \A q \in Requests : Opened(stream[q]) \in Seq(Facts)
                          /\ Status(Opened(stream[q])) \in {Status(stream[q]), "queued"}
  BY <1>0 DEF ScrapeTypes, Opened, Seeded
<1>2. \A q \in Requests : stream'[q] \in {stream[q], Opened(stream[q])}
  BY DEF ScrapeTypes
<1>3. stream' \in [Requests -> Seq(Facts)]
  BY <1>1 DEF ScrapeTypes
<1>4. CleanStreams => CleanStreams'
  BY <1>1, <1>2 DEF CleanStreams
<1> QED BY <1>3, <1>4

Winning == \E w \in Workers : worker[w].pc \in Past
StreamMoves ==
    \/ stream' = stream
    \/ \E r : \E fs \in Quietly : Record(r, fs)
    \/ \E r : stream' = [stream EXCEPT ![r] = Opened(@)]
    \/ Winning /\ \E r : Record(r, <<"succeeded">>)

LEMMA StreamMoved ==
    ASSUME ScrapeTypes, StreamMoves
    PROVE  stream' \in [Requests -> Seq(Facts)] /\ (CleanStreams /\ CleanWorkers => CleanStreams')
BY QuietRecord, SucceededRecord, OpenedStream DEF StreamMoves, Winning, CleanWorkers, CleanStreams, ScrapeTypes

LEMMA WorkerStreams == ASSUME NEW w \in Workers, WorkerStep(w) \/ PoolExit(w) PROVE StreamMoves
<1> USE DEF StreamMoves, Winning, Quietly, Past, At, RecordWarn, facts, stores
<1>1. CASE (\E m \in DOMAIN queue : Take(w, m)) \/ Preflight(w) \/ ApifyDedup(w) \/ SetProcessing(w)
           \/ SetPending(w) \/ Fetched(w) \/ HandBack(w) \/ FetchFails(w) \/ Recheck(w)
  BY <1>1 DEF Take, Preflight, ApifyDedup, SetProcessing, SetPending, Fetched, HandBack, FetchFails, Recheck
<1>2. CASE UpdateListeners(w) \/ FinishSucceeded(w) \/ ClearRows(w) \/ SelectFailed(w) \/ Reconciled(w)
           \/ Ack(w) \/ RetryLater(w) \/ DeadLetter(w) \/ DeadLetterArtist(w) \/ DeadLetterRow(w)
           \/ Unavailable(w) \/ UnavailableRow(w) \/ PoolExit(w)
  BY <1>2 DEF UpdateListeners, FinishSucceeded, ClearRows, SelectFailed, Reconciled, Ack, RetryLater, DeadLetter,
     DeadLetterArtist, DeadLetterRow, Unavailable, UnavailableRow, PoolExit, ProviderRefuses, QuotaExhausted
<1>3. CASE RecordStarted(w) \/ RecordDeadLettered(w) \/ RecordUnavailable(w)
  BY <1>3 DEF RecordStarted, RecordDeadLettered, RecordUnavailable
<1>4. CASE RecordSucceeded(w) \/ RecordRecovered(w) \/ ReconcileFailed(w)
  BY <1>4 DEF RecordSucceeded, RecordRecovered, ReconcileFailed
<1> QED BY <1>1, <1>2, <1>3, <1>4 DEF WorkerStep

LEMMA SweeperStreams == ASSUME SweeperStep PROVE StreamMoves
BY DEF StreamMoves, Quietly, facts, stores, SweeperStep, ConvergeStale, FailStale, MirrorStale, JudgeOrphan,
   FailStaleRow, FailArtist, FailOrphan

LEMMA QueueStreams ==
    ASSUME (\E r \in Requests : Accept(r) \/ PersistBatch(r) \/ DispatchStep(r)) \/ ClickRetry \/ RetryStep
    PROVE  StreamMoves
<1> USE DEF StreamMoves, Quietly, facts, stores, RecordWarn
<1>1. ASSUME NEW r \in Requests, Accept(r) \/ PersistBatch(r) \/ DispatchStep(r) PROVE StreamMoves
  BY <1>1 DEF Accept, PersistBatch, DispatchStep, MarkQueued, CreateRow, EmitBatch, MirrorBatch, OpenBatch,
     Publish, UndoFact, Undo
<1>2. CASE ClickRetry \/ RetryStep
  BY <1>2 DEF ClickRetry, RetryStep, ExpireRows, ExpireFact, ExpireMirror, ResetOrphanPendingArtists,
     MarkFailedJobArtists, FlipArtist, FoldArtist, MirrorArtist, PurgeOrphans, CollectCandidates, Requeue,
     SkipCandidates, RetryPublished, RetryPublishFails, RetryDuplicate, RetryAborts
<1> QED BY <1>1, <1>2
-----------------------------------------------------------------------------
(* Rows.                                                                   *)

\* A status that a step may write: a success is told by a goroutine past its
\* fetch, or by what requestStreamVerdict finds.
Told(status) == status \in RowStatus /\ (status = "succeeded" => Winning \/ \E q \in Requests : Succeeded(q))
RowMoves ==
    \/ row' = row
    \/ \E r, sides, status : Told(status) /\ SetRow(r, sides, status)
    \/ \E r, sides : InsertRow(r, sides)
    \/ \E r : row' = [row EXCEPT ![r] = [s \in Sides |-> "none"]]
    \/ \E rs, sides, status : Told(status) /\
          row' = [r \in Requests |-> IF r \in rs THEN Updated(row[r], sides, status) ELSE row[r]]

\* Where nothing speaks of a success, nothing is told of one.
LEMMA NothingToTell == ASSUME ScrapeTypes, Clean PROVE ~Winning /\ \A q \in Requests : ~Succeeded(q)
BY DEF Clean, CleanWorkers, CleanRows, CleanStreams, Winning, Succeeded, Sides

LEMMA RowMoved ==
    ASSUME ScrapeTypes, RowMoves
    PROVE  row' \in [Requests -> [Sides -> RowStatus]] /\ (Clean => CleanRows')
<1>1. row \in [Requests -> [Sides -> RowStatus]]
  BY DEF ScrapeTypes
<1>2. ASSUME NEW old \in [Sides -> RowStatus], NEW sides, NEW status \in RowStatus
      PROVE  /\ Updated(old, sides, status) \in [Sides -> RowStatus]
             /\ \A s \in Sides : Updated(old, sides, status)[s] \in {old[s], status}
  BY <1>2 DEF Updated
<1>3. ASSUME NEW status, Told(status) PROVE status \in RowStatus /\ (Clean => status # "succeeded")
  BY <1>3, NothingToTell DEF Told
<1>4. CASE row' = row
  BY <1>1, <1>4 DEF Clean, CleanRows
<1>5. CASE \E r, sides, status : Told(status) /\ SetRow(r, sides, status)
  <2>1. PICK r, sides, status : Told(status) /\ SetRow(r, sides, status)
    BY <1>5
  <2>2. \A q \in Requests : row'[q] = row[q] \/ row'[q] = Updated(row[q], sides, status)
    BY <1>1, <2>1 DEF SetRow
  <2>3. \A q \in Requests : row'[q] \in [Sides -> RowStatus] /\ \A s \in Sides : row'[q][s] \in {row[q][s], status}
    BY <1>1, <1>2, <1>3, <2>1, <2>2
  <2>4. row' = [q \in Requests |-> row'[q]]
    BY <1>1, <2>1 DEF SetRow
  <2>5. row' \in [Requests -> [Sides -> RowStatus]]
    BY <2>3, <2>4
  <2>6. Clean => CleanRows'
    BY <1>3, <2>1, <2>3 DEF Clean, CleanRows
  <2> QED BY <2>5, <2>6
<1>6. CASE \E r, sides : InsertRow(r, sides)
  <2>1. PICK r, sides : InsertRow(r, sides)
    BY <1>6
  <2>2. \A q \in Requests, s \in Sides : row'[q][s] \in {row[q][s], "queued"}
    BY <1>1, <2>1 DEF InsertRow
  <2>3. row' \in [Requests -> [Sides -> RowStatus]]
    <3>1. \A old \in [Sides -> RowStatus] : [s \in Sides |-> IF s \in sides THEN "queued" ELSE old[s]]
                                              \in [Sides -> RowStatus]
      BY DEF RowStatus
    <3> QED BY <1>1, <2>1, <3>1 DEF InsertRow
  <2>4. Clean => CleanRows'
    BY <2>2 DEF Clean, CleanRows
  <2> QED BY <2>3, <2>4
<1>7. CASE \E r : row' = [row EXCEPT ![r] = [s \in Sides |-> "none"]]
  BY <1>1, <1>7 DEF RowStatus, Clean, CleanRows
<1>8. CASE \E rs, sides, status : Told(status) /\
              row' = [r \in Requests |-> IF r \in rs THEN Updated(row[r], sides, status) ELSE row[r]]
  <2>1. PICK rs, sides, status : Told(status) /\
              row' = [r \in Requests |-> IF r \in rs THEN Updated(row[r], sides, status) ELSE row[r]]
    BY <1>8
  <2>2. \A q \in Requests : row'[q] = row[q] \/ row'[q] = Updated(row[q], sides, status)
    BY <2>1
  <2>3. \A q \in Requests : row'[q] \in [Sides -> RowStatus] /\ \A s \in Sides : row'[q][s] \in {row[q][s], status}
    BY <1>1, <1>2, <1>3, <2>1, <2>2
  <2>4. row' = [q \in Requests |-> row'[q]]
    BY <2>1
  <2>5. row' \in [Requests -> [Sides -> RowStatus]]
    BY <2>3, <2>4
  <2>6. Clean => CleanRows'
    BY <1>3, <2>1, <2>3 DEF Clean, CleanRows
  <2> QED BY <2>5, <2>6
<1> QED BY <1>4, <1>5, <1>6, <1>7, <1>8 DEF RowMoves

LEMMA WorkerRows == ASSUME NEW w \in Workers, WorkerStep(w) \/ PoolExit(w) PROVE RowMoves
<1> USE DEF RowMoves, rows, stores, At, SetRowWarn
<1>0. \A status \in RowStatus \ {"succeeded"} : Told(status)
  BY DEF Told
<1>a. worker[w].pc \in Past => Told("succeeded")
  BY DEF Told, Winning, RowStatus
<1>1. CASE (\E m \in DOMAIN queue : Take(w, m)) \/ Preflight(w) \/ ApifyDedup(w) \/ RecordStarted(w)
           \/ SetPending(w) \/ Fetched(w) \/ HandBack(w) \/ FetchFails(w) \/ Recheck(w) \/ UpdateListeners(w)
           \/ RecordSucceeded(w) \/ RecordRecovered(w) \/ SelectFailed(w) \/ Reconciled(w)
  BY <1>1 DEF Take, Preflight, ApifyDedup, RecordStarted, SetPending, Fetched, HandBack, FetchFails, Recheck,
     UpdateListeners, RecordSucceeded, RecordRecovered, SelectFailed, Reconciled
<1>2. CASE Ack(w) \/ RetryLater(w) \/ DeadLetter(w) \/ DeadLetterArtist(w) \/ RecordDeadLettered(w)
           \/ Unavailable(w) \/ RecordUnavailable(w) \/ PoolExit(w)
  BY <1>2 DEF Ack, RetryLater, DeadLetter, DeadLetterArtist, RecordDeadLettered, Unavailable, RecordUnavailable,
     PoolExit, ProviderRefuses, QuotaExhausted
<1>3. CASE SetProcessing(w) \/ DeadLetterRow(w) \/ UnavailableRow(w)
  <2>1. Told("processing") /\ Told("failed")
    BY <1>0 DEF RowStatus
  <2> QED BY <1>3, <2>1 DEF SetProcessing, DeadLetterRow, UnavailableRow
<1>4. CASE FinishSucceeded(w) \/ ClearRows(w) \/ ReconcileFailed(w)
  <2>1. Told("succeeded")
    BY <1>a, <1>4 DEF FinishSucceeded, ClearRows, ReconcileFailed, Past
  <2> QED BY <1>4, <2>1 DEF FinishSucceeded, ClearRows, ReconcileFailed
<1> QED BY <1>1, <1>2, <1>3, <1>4 DEF WorkerStep

LEMMA SweeperRows == ASSUME SweeperStep PROVE RowMoves
<1>1. \A status \in RowStatus \ {"succeeded"} : Told(status)
  BY DEF Told
<1>2. Told("failed")
  BY <1>1 DEF RowStatus
<1>3. ASSUME NEW r \in Requests, ConvergeStale(r) PROVE RowMoves
  <2>1. Told("succeeded")
    BY <1>3 DEF ConvergeStale, Told, RowStatus
  <2> QED BY <1>3, <2>1 DEF ConvergeStale, RowMoves
<1>4. ASSUME NEW r \in Requests, FailStale(r) \/ MirrorStale(r) \/ JudgeOrphan(r) PROVE RowMoves
  BY <1>2, <1>4 DEF FailStale, MirrorStale, JudgeOrphan, RowMoves, rows
<1>5. CASE FailStaleRow \/ FailArtist \/ FailOrphan
  BY <1>2, <1>5 DEF FailStaleRow, FailArtist, FailOrphan, RowMoves, rows
<1> QED BY <1>3, <1>4, <1>5 DEF SweeperStep

LEMMA QueueRows ==
    ASSUME (\E r \in Requests : Accept(r) \/ PersistBatch(r) \/ DispatchStep(r)) \/ ClickRetry \/ RetryStep
    PROVE  RowMoves
<1> USE DEF RowMoves, rows, stores
<1>1. \A status \in RowStatus \ {"succeeded"} : Told(status)
  BY DEF Told
<1>2. Told("failed") /\ Told("queued")
  BY <1>1 DEF RowStatus
<1>3. ASSUME NEW r \in Requests, Accept(r) \/ PersistBatch(r) \/ DispatchStep(r) PROVE RowMoves
  BY <1>3 DEF Accept, PersistBatch, DispatchStep, MarkQueued, CreateRow, EmitBatch, MirrorBatch, OpenBatch,
     Publish, UndoFact, Undo
<1>4. CASE ExpireRows \/ ExpireMirror \/ (\E r \in Requests : Requeue(r)) \/ RetryPublishFails \/ RetryDuplicate
  <2>1. CASE ExpireRows
    BY <1>2, <2>1 DEF ExpireRows
  <2>2. CASE ExpireMirror
    <3>1. row' = [r \in Requests |-> IF r \in Expired("pb") THEN Updated(row[r], {"pb"}, "failed") ELSE row[r]]
      BY <2>2 DEF ExpireMirror
    <3>2. \E rs, sides, status : Told(status) /\
            row' = [r \in Requests |-> IF r \in rs THEN Updated(row[r], sides, status) ELSE row[r]]
      BY <1>2, <3>1
    <3> QED BY <3>2
  <2>3. ASSUME NEW r \in Requests, Requeue(r) PROVE RowMoves
    BY <1>2, <2>3 DEF Requeue
  <2>4. CASE RetryPublishFails \/ RetryDuplicate
    BY <1>2, <2>4 DEF RetryPublishFails, RetryDuplicate
  <2> QED BY <1>4, <2>1, <2>2, <2>3, <2>4
<1>5. CASE ClickRetry \/ ExpireFact \/ ResetOrphanPendingArtists \/ MarkFailedJobArtists \/ PurgeOrphans
           \/ CollectCandidates \/ SkipCandidates \/ RetryPublished \/ RetryAborts
  BY <1>5 DEF ClickRetry, ExpireFact, ResetOrphanPendingArtists, MarkFailedJobArtists, FlipArtist, FoldArtist,
     MirrorArtist, PurgeOrphans, CollectCandidates, SkipCandidates, RetryPublished, RetryAborts
<1> QED BY <1>3, <1>4, <1>5 DEF RetryStep
-----------------------------------------------------------------------------
(* Messages.                                                               *)

\* The queue only grows, and a message keeps its request.
QueueMoves == queue' \in Seq(Msg) /\ Len(queue') >= Len(queue)

LEMMA ChangedMsg ==
    ASSUME ScrapeTypes, NEW m \in DOMAIN queue, NEW new \in Msg, queue' = [queue EXCEPT ![m] = new]
    PROVE  QueueMoves
<1>1. queue \in Seq(Msg)
  BY DEF ScrapeTypes
<1>2. queue' \in [1..Len(queue) -> Msg]
  BY <1>1
<1> QED BY <1>1, <1>2 DEF QueueMoves

LEMMA ReleasedMsg ==
    ASSUME ScrapeTypes, NEW m, Release(m) \/ Remove(m)
    PROVE  QueueMoves
<1>1. queue \in Seq(Msg)
  BY DEF ScrapeTypes
<1>2. \A msg \in Msg : Released(msg) \in Msg /\ [msg EXCEPT !.state = "gone"] \in Msg
  BY DEF Msg, Released
<1>3. PICK new : queue' = [queue EXCEPT ![m] = new] /\ new \in {Released(queue[m]), [queue[m] EXCEPT !.state = "gone"]}
  BY DEF Release, Remove
<1>4. CASE m \in DOMAIN queue
  <2>1. queue[m] \in Msg
    BY <1>1, <1>4
  <2>2. new \in Msg
    BY <1>2, <1>3, <2>1
  <2> QED BY <1>3, <1>4, <2>2, ChangedMsg
<1>5. CASE m \notin DOMAIN queue
  <2>1. queue' = queue
    BY <1>1, <1>3, <1>5
  <2> QED BY <1>1, <2>1 DEF QueueMoves
<1> QED BY <1>4, <1>5

\* The messages of some requests go.
LEMMA DroppedMsgs ==
    ASSUME ScrapeTypes, NEW rs,
           queue' = [m \in DOMAIN queue |-> IF queue[m].req \in rs THEN [queue[m] EXCEPT !.state = "gone"]
                                            ELSE queue[m]]
    PROVE  QueueMoves
<1>1. queue \in Seq(Msg)
  BY DEF ScrapeTypes
<1>2. \A msg \in Msg : [msg EXCEPT !.state = "gone"] \in Msg
  BY DEF Msg
<1>3. queue' \in [1..Len(queue) -> Msg]
  BY <1>1, <1>2
<1> QED BY <1>1, <1>3 DEF QueueMoves

LEMMA StoredMsg ==
    ASSUME ScrapeTypes, NEW r \in Requests, Store(r)
    PROVE  QueueMoves
<1>1. queue \in Seq(Msg)
  BY DEF ScrapeTypes
<1>2. HasVerdict(stream[r]) \in BOOLEAN
  BY DEF HasVerdict
<1>3. Message(r) \in Msg
  BY <1>2 DEF Message, Msg
<1> QED BY <1>1, <1>3 DEF Store, QueueMoves

LEMMA TakenMsg ==
    ASSUME ScrapeTypes, NEW w \in Workers, NEW m \in DOMAIN queue, Take(w, m)
    PROVE  QueueMoves
<1>1. queue \in Seq(Msg) /\ queue[m] \in Msg
  BY DEF ScrapeTypes
<1>2. queue[m].delivered + 1 \in Nat
  BY <1>1 DEF Msg
<1>3. [queue[m] EXCEPT !.state = "held", !.delivered = queue[m].delivered + 1] \in Msg
  BY <1>1, <1>2 DEF Msg
<1>4. queue' = [queue EXCEPT ![m] = [queue[m] EXCEPT !.state = "held", !.delivered = queue[m].delivered + 1]]
  BY <1>1 DEF Take, Msg
<1> QED BY <1>3, <1>4, ChangedMsg

LEMMA SameQueue == ASSUME ScrapeTypes, queue' = queue PROVE QueueMoves
BY DEF ScrapeTypes, QueueMoves

LEMMA WorkerMsgs == ASSUME ScrapeTypes, NEW w \in Workers, WorkerStep(w) \/ PoolExit(w) PROVE QueueMoves
<1> USE DEF nats, stores
<1>1. CASE \E m \in DOMAIN queue : Take(w, m)
  BY <1>1, TakenMsg
<1>2. CASE Preflight(w) \/ ApifyDedup(w) \/ RecordStarted(w) \/ SetProcessing(w)
           \/ SetPending(w) \/ Fetched(w) \/ FetchFails(w) \/ Recheck(w) \/ UpdateListeners(w)
           \/ RecordSucceeded(w) \/ FinishSucceeded(w) \/ ClearRows(w)
  BY <1>2, SameQueue DEF Preflight, ApifyDedup, RecordStarted, SetProcessing, SetPending, Fetched, FetchFails,
     Recheck, UpdateListeners, RecordSucceeded, FinishSucceeded, ClearRows
<1>3. CASE RecordRecovered(w) \/ SelectFailed(w) \/ ReconcileFailed(w) \/ Reconciled(w)
           \/ DeadLetterArtist(w) \/ DeadLetterRow(w) \/ RecordDeadLettered(w)
           \/ Unavailable(w) \/ RecordUnavailable(w) \/ UnavailableRow(w)
  BY <1>3, SameQueue DEF RecordRecovered, SelectFailed, ReconcileFailed, Reconciled, DeadLetterArtist,
     DeadLetterRow, RecordDeadLettered, Unavailable, RecordUnavailable, UnavailableRow
<1>4. CASE HandBack(w) \/ RetryLater(w) \/ PoolExit(w) \/ Ack(w) \/ DeadLetter(w)
  BY <1>4, SameQueue, ReleasedMsg DEF HandBack, RetryLater, PoolExit, ProviderRefuses, QuotaExhausted, Ack,
     DeadLetter
<1> QED BY <1>1, <1>2, <1>3, <1>4 DEF WorkerStep

LEMMA SweeperMsgs == ASSUME ScrapeTypes, SweeperStep PROVE QueueMoves
BY SameQueue DEF nats, stores, SweeperStep, ConvergeStale, FailStale, MirrorStale, JudgeOrphan, FailStaleRow,
   FailArtist, FailOrphan

LEMMA QueueMsgs ==
    ASSUME ScrapeTypes, (\E r \in Requests : Accept(r) \/ PersistBatch(r) \/ DispatchStep(r)) \/ ClickRetry \/ RetryStep
    PROVE  QueueMoves
<1> USE DEF nats, stores
<1>1. ASSUME NEW r \in Requests, Accept(r) \/ PersistBatch(r) \/ DispatchStep(r) PROVE QueueMoves
  <2>1. CASE Publish(r)
    BY <2>1, SameQueue, StoredMsg DEF Publish
  <2>2. CASE ~Publish(r)
    BY <1>1, <2>2, SameQueue DEF Accept, PersistBatch, DispatchStep, MarkQueued, CreateRow, EmitBatch,
       MirrorBatch, OpenBatch, UndoFact, Undo
  <2> QED BY <2>1, <2>2
<1>2. CASE PurgeOrphans
  <2>1. CASE queue' = queue
    BY <2>1, SameQueue
  <2>2. CASE queue' = [m \in DOMAIN queue |-> [queue[m] EXCEPT !.state = "gone"]]
    <3>1. \A m \in DOMAIN queue : queue[m].req \in Requests
      <4>1. \A m \in DOMAIN queue : queue[m] \in Msg
        BY DEF ScrapeTypes
      <4> QED BY <4>1 DEF Msg
    <3>2. queue' = [m \in DOMAIN queue |-> IF queue[m].req \in Requests THEN [queue[m] EXCEPT !.state = "gone"]
                                            ELSE queue[m]]
      BY <2>2, <3>1
    <3> QED BY <3>2, DroppedMsgs
  <2> QED BY <1>2, <2>1, <2>2 DEF PurgeOrphans
<1>3. CASE RetryPublished \/ RetryPublishFails
  <2>1. retry.req \in Requests
    BY <1>3 DEF RetryPublished, RetryPublishFails, Reconciling, ScrapeTypes, RetryHolds
  <2> QED BY <1>3, <2>1, StoredMsg, SameQueue DEF RetryPublished, RetryPublishFails
<1>4. CASE ClickRetry \/ ExpireRows \/ ExpireFact \/ ExpireMirror \/ ResetOrphanPendingArtists
           \/ MarkFailedJobArtists \/ CollectCandidates \/ (\E r \in Requests : Requeue(r)) \/ SkipCandidates
           \/ RetryDuplicate \/ RetryAborts
  BY <1>4, SameQueue DEF ClickRetry, ExpireRows, ExpireFact, ExpireMirror, ResetOrphanPendingArtists,
     MarkFailedJobArtists, FlipArtist, FoldArtist, MirrorArtist, CollectCandidates, Requeue, SkipCandidates,
     RetryDuplicate, RetryAborts
<1> QED BY <1>1, <1>2, <1>3, <1>4 DEF RetryStep
-----------------------------------------------------------------------------
(* Goroutines.                                                             *)

\* A goroutine gets past its fetch with recorded listeners only.
Becomes(w, new) ==
    /\ new \in WorkerRec /\ worker' = [worker EXCEPT ![w] = new]
    /\ new.pc \notin Away => new.m \in 1..Len(queue)
    /\ new.pc \in Past => worker[w].pc \in Past \/ Backed'
WorkerMoves(w) == \E new : Becomes(w, new)

Attended == \A w \in Workers : worker[w].pc \notin Away => worker[w].m \in 1..Len(queue)
Advances == \A w \in Workers : worker'[w].pc \in Past => worker[w].pc \in Past \/ Backed'

LEMMA WorkerMoved ==
    ASSUME ScrapeTypes, QueueMoves, NEW w \in Workers, WorkerMoves(w)
    PROVE  worker' \in [Workers -> WorkerRec] /\ Attended' /\ Advances
<1>1. PICK new : Becomes(w, new)
  BY DEF WorkerMoves
<1>2. worker' \in [Workers -> WorkerRec]
  BY <1>1 DEF Becomes, ScrapeTypes
<1>3. Len(queue) \in Nat /\ Len(queue') \in Nat /\ Len(queue') >= Len(queue)
  BY DEF ScrapeTypes, QueueMoves
<1>4. 1..Len(queue) \subseteq 1..Len(queue')
  BY <1>3
<1>5. \A v \in Workers : worker'[v] = IF v = w THEN new ELSE worker[v]
  BY <1>1 DEF Becomes, ScrapeTypes
<1>6. Attended'
  BY <1>1, <1>4, <1>5 DEF Attended, Becomes, ScrapeTypes
<1>7. Advances
  BY <1>1, <1>5 DEF Advances, Becomes
<1> QED BY <1>2, <1>6, <1>7

LEMMA WorkersRest ==
    ASSUME ScrapeTypes, QueueMoves, worker' = worker
    PROVE  worker' \in [Workers -> WorkerRec] /\ Attended' /\ Advances
<1>1. Len(queue) \in Nat /\ Len(queue') \in Nat /\ Len(queue') >= Len(queue)
  BY DEF ScrapeTypes, QueueMoves
<1>2. 1..Len(queue) \subseteq 1..Len(queue')
  BY <1>1
<1> QED BY <1>2 DEF ScrapeTypes, Attended, Advances

\* The ways a goroutine goes on.
LEMMA GoesTo ==
    ASSUME ScrapeTypes, NEW w \in Workers, NEW pc \in Pcs, Goto(w, pc), worker[w].pc \notin Away,
           pc \in Past => worker[w].pc \in Past \/ Backed'
    PROVE  WorkerMoves(w)
<1> DEFINE new == [worker[w] EXCEPT !.pc = pc]
<1>1. worker[w] \in WorkerRec /\ worker[w].m \in 1..Len(queue)
  BY DEF ScrapeTypes
<1>2. new \in WorkerRec /\ new.pc = pc /\ new.m = worker[w].m
  BY <1>1 DEF WorkerRec
<1>3. worker' = [worker EXCEPT ![w] = new]
  BY DEF Goto, ScrapeTypes
<1>4. Becomes(w, new)
  BY <1>1, <1>2, <1>3 DEF Becomes
<1> QED BY <1>4 DEF WorkerMoves

LEMMA WorkStops == ASSUME ScrapeTypes, NEW w \in Workers, Done(w) \/ Exit(w) PROVE WorkerMoves(w)
<1> DEFINE off == [Parked EXCEPT !.pc = "off"]
<1>1. Parked \in WorkerRec /\ Parked.pc \in Away
  BY DEF Parked, WorkerRec, Pcs, Away
<1>2. off \in WorkerRec /\ off.pc \in Away
  BY DEF Parked, WorkerRec, Pcs, Away
<1>3. Away \cap Past = {}
  BY DEF Away, Past
<1>4. CASE Done(w)
  <2>1. Becomes(w, Parked)
    BY <1>1, <1>3, <1>4 DEF Becomes, Done
  <2> QED BY <2>1 DEF WorkerMoves
<1>5. CASE Exit(w)
  <2>1. Becomes(w, off)
    BY <1>2, <1>3, <1>5 DEF Becomes, Exit
  <2> QED BY <2>1 DEF WorkerMoves
<1> QED BY <1>4, <1>5

\* A goroutine that reconciles failed rows.
LEMMA Reconciles ==
    ASSUME ScrapeTypes, NEW w \in Workers, NEW pc \in {"recovered", "mirror"}, NEW rs \in SUBSET Requests,
           worker[w].pc \in Past,
           worker' = [worker EXCEPT ![w] = [worker[w] EXCEPT !.pc = pc, !.rows = rs]]
    PROVE  WorkerMoves(w)
<1> DEFINE new == [worker[w] EXCEPT !.pc = pc, !.rows = rs]
<1>1. worker[w] \in WorkerRec /\ worker[w].m \in 1..Len(queue)
  BY DEF ScrapeTypes, Past, Away
<1>2. pc \in Pcs
  BY DEF Pcs, Past
<1>3. new \in WorkerRec /\ new.pc = pc /\ new.m = worker[w].m
  BY <1>1, <1>2 DEF WorkerRec
<1>4. Becomes(w, new)
  BY <1>1, <1>3 DEF Becomes
<1> QED BY <1>4 DEF WorkerMoves

LEMMA Working == ASSUME ScrapeTypes, NEW w \in Workers, worker[w].pc \notin Away PROVE Req(w) \in Requests
<1>1. queue[worker[w].m] \in Msg
  BY DEF ScrapeTypes
<1> QED BY <1>1 DEF Req, Msg

ListenedMoves == listened' = listened \/ \E q \in Requests : listened' = [listened EXCEPT ![q] = 1]

\* What updateArtistListeners leaves behind when it does not fail.
LEMMA ListenersBack ==
    ASSUME ScrapeTypes, NEW w \in Workers, UpdateListeners(w)
    PROVE  /\ ListenedMoves
           /\ Goto(w, "error") \/ (Goto(w, "succeed") /\ Backed')
<1>1. Req(w) \in Requests
  BY Working DEF UpdateListeners, At, Away
<1>2. CASE /\ listened[Req(w)] = 0
           /\ listened' = [listened EXCEPT ![Req(w)] = 1]
           /\ SetArtist(Places, "idle") /\ Goto(w, "succeed") /\ UNCHANGED faults
  <2>1. listened'[Req(w)] = 1
    BY <1>1, <1>2 DEF ScrapeTypes
  <2> QED BY <1>1, <1>2, <2>1 DEF Backed, ListenedMoves
<1>3. CASE /\ listened[Req(w)] > 0
           /\ SetArtist({"pb"}, "idle") /\ Goto(w, "succeed") /\ UNCHANGED <<listened, faults>>
  <2>1. listened'[Req(w)] = 1 /\ listened' = [listened EXCEPT ![Req(w)] = 1]
    BY <1>1, <1>3 DEF ScrapeTypes
  <2> QED BY <1>1, <1>3, <2>1 DEF Backed, ListenedMoves
<1>4. CASE /\ \E places \in SUBSET {"pb"} : SetArtist(places, "idle")
           /\ Goto(w, "error") /\ Fault /\ UNCHANGED listened
  BY <1>4 DEF ListenedMoves
<1> QED BY <1>2, <1>3, <1>4 DEF UpdateListeners

LEMMA WorkerGoes == ASSUME ScrapeTypes, NEW w \in Workers, WorkerStep(w) \/ PoolExit(w) PROVE WorkerMoves(w)
<1> DEFINE on == Pcs \ (Past \cup Away)
<1>1. ASSUME NEW pc \in on, Goto(w, pc), worker[w].pc \notin Away PROVE WorkerMoves(w)
  BY <1>1, GoesTo
<1>2. {"ack", "start", "row", "pending", "fetch", "unavailable", "error", "fetched", "listeners", "dlq artist",
       "dlq row", "dlq fact", "unavailable fact", "unavailable row"} \subseteq on
  BY DEF Pcs, Past, Away
<1>3. CASE \E m \in DOMAIN queue : Take(w, m)
  <2>1. PICK m \in DOMAIN queue : Take(w, m)
    BY <1>3
  <2> DEFINE new == [pc |-> "verdict", m |-> m, rows |-> {}]
  <2>2. m \in 1..Len(queue) /\ m \in Nat
    BY DEF ScrapeTypes
  <2>3. new \in WorkerRec /\ new.m = m /\ new.pc \notin Past
    BY <2>2 DEF WorkerRec, Pcs, Past
  <2>4. Becomes(w, new)
    BY <2>1, <2>2, <2>3 DEF Becomes, Take
  <2> QED BY <2>4 DEF WorkerMoves
<1>4. CASE Preflight(w) \/ ApifyDedup(w) \/ RecordStarted(w) \/ SetProcessing(w) \/ Fetched(w) \/ FetchFails(w)
           \/ Recheck(w)
  <2>1. \E pc \in on : Goto(w, pc) /\ worker[w].pc \notin Away
    BY <1>2, <1>4 DEF Preflight, ApifyDedup, RecordStarted, SetProcessing, Fetched, FetchFails, Recheck, At, Away
  <2> QED BY <1>1, <2>1
<1>5. CASE SetPending(w) \/ Unavailable(w) \/ DeadLetterArtist(w) \/ DeadLetterRow(w) \/ RecordUnavailable(w)
           \/ UnavailableRow(w)
  <2>1. \E pc \in on : Goto(w, pc) /\ worker[w].pc \notin Away
    BY <1>2, <1>5 DEF SetPending, Unavailable, UpdateStatus, DeadLetterArtist, DeadLetterRow, RecordUnavailable,
       UnavailableRow, At, Away
  <2> QED BY <1>1, <2>1
<1>6. CASE HandBack(w) \/ Ack(w) \/ RetryLater(w) \/ RecordDeadLettered(w) \/ PoolExit(w)
  BY <1>6, WorkStops DEF HandBack, Ack, RetryLater, RecordDeadLettered, PoolExit, ProviderRefuses, QuotaExhausted
<1>7. CASE DeadLetter(w)
  <2>1. Done(w) \/ (Goto(w, "dlq artist") /\ worker[w].pc \notin Away)
    BY <1>7 DEF DeadLetter, At, Away
  <2> QED BY <1>1, <1>2, <2>1, WorkStops
<1>8. CASE UpdateListeners(w)
  <2>1. worker[w].pc \notin Away
    BY <1>8 DEF UpdateListeners, At, Away
  <2>2. "succeed" \in Pcs
    BY DEF Pcs, Past
  <2> QED BY <1>1, <1>2, <1>8, <2>1, <2>2, ListenersBack, GoesTo
<1>9. CASE RecordSucceeded(w) \/ FinishSucceeded(w) \/ Reconciled(w)
  <2>1. worker[w].pc \in Past /\ worker[w].pc \notin Away
    BY <1>9 DEF RecordSucceeded, FinishSucceeded, Reconciled, At, Away, Past
  <2>2. \E pc \in {"finish", "clear", "error", "ack"} : Goto(w, pc)
    BY <1>9 DEF RecordSucceeded, FinishSucceeded, Reconciled
  <2>3. {"finish", "clear", "error", "ack"} \subseteq Pcs
    BY DEF Pcs, Past
  <2> QED BY <2>1, <2>2, <2>3, GoesTo
<1>10. CASE ClearRows(w) \/ SelectFailed(w) \/ RecordRecovered(w) \/ ReconcileFailed(w)
  <2>1. worker[w].pc \in Past
    BY <1>10 DEF ClearRows, SelectFailed, RecordRecovered, ReconcileFailed, At, Past
  <2>2. worker[w] \in WorkerRec /\ worker \in [Workers -> WorkerRec]
    BY DEF ScrapeTypes
  <2>3. worker[w].rows \in SUBSET Requests
    BY <2>2 DEF WorkerRec
  <2>4. \A side : FailedRows(w, side) \in SUBSET Requests
    BY DEF FailedRows
  <2>5. CASE ClearRows(w)
    <3>1. worker' = [worker EXCEPT ![w] = [worker[w] EXCEPT !.pc = "recovered", !.rows = FailedRows(w, "db")]]
      BY <2>2, <2>5 DEF ClearRows
    <3> QED BY <2>1, <2>4, <3>1, Reconciles
  <2>6. CASE SelectFailed(w)
    <3>1. worker' = [worker EXCEPT ![w] = [worker[w] EXCEPT !.pc = "mirror", !.rows = FailedRows(w, "pb")]]
      BY <2>2, <2>6 DEF SelectFailed
    <3> QED BY <2>1, <2>4, <3>1, Reconciles
  <2>7. CASE RecordRecovered(w) \/ ReconcileFailed(w)
    <3>1. PICK r : worker' = [worker EXCEPT ![w].rows = @ \ {r}]
      BY <2>7 DEF RecordRecovered, ReconcileFailed
    <3>2. worker[w].pc \in {"recovered", "mirror"}
      BY <2>7 DEF RecordRecovered, ReconcileFailed, At
    <3>3. [worker[w] EXCEPT !.rows = worker[w].rows \ {r}]
              = [worker[w] EXCEPT !.pc = worker[w].pc, !.rows = worker[w].rows \ {r}]
      BY <2>2 DEF WorkerRec
    <3>4. worker' = [worker EXCEPT ![w] = [worker[w] EXCEPT !.pc = worker[w].pc, !.rows = worker[w].rows \ {r}]]
      BY <2>2, <3>1, <3>3
    <3>5. worker[w].rows \ {r} \in SUBSET Requests
      BY <2>3
    <3> QED BY <2>1, <3>2, <3>4, <3>5, Reconciles
  <2> QED BY <1>10, <2>5, <2>6, <2>7
<1> QED BY <1>3, <1>4, <1>5, <1>6, <1>7, <1>8, <1>9, <1>10 DEF WorkerStep
-----------------------------------------------------------------------------
(* The listeners, the cache and the retry loop.                            *)

\* The cache learns of a success, or only forgets.
CacheMoves == cache' \subseteq cache \/ Winning \/ \E q \in Requests : Succeeded(q)

LEMMA Remembered == ASSUME NEW r \in Requests, Remember(r) PROVE CacheMoves
BY DEF Remember, CacheMoves

LEMMA WorkerFacts ==
    ASSUME ScrapeTypes, NEW w \in Workers, WorkerStep(w) \/ PoolExit(w)
    PROVE  ListenedMoves /\ CacheMoves
<1> USE DEF facts, stores
<1>1. CASE UpdateListeners(w)
  BY <1>1, ListenersBack DEF UpdateListeners, CacheMoves
<1>2. CASE Preflight(w) \/ ApifyDedup(w) \/ FetchFails(w) \/ Recheck(w)
  <2>1. worker[w].pc \notin Away /\ Remember(Req(w)) /\ listened' = listened
    BY <1>2 DEF Preflight, ApifyDedup, FetchFails, Recheck, At, Away
  <2> QED BY <2>1, Working, Remembered DEF ListenedMoves
<1>3. CASE FinishSucceeded(w)
  BY <1>3 DEF FinishSucceeded, ListenedMoves, CacheMoves, Winning, At, Past
<1>4. CASE (\E m \in DOMAIN queue : Take(w, m)) \/ RecordStarted(w) \/ SetProcessing(w) \/ SetPending(w)
           \/ Fetched(w) \/ HandBack(w) \/ RecordSucceeded(w) \/ ClearRows(w) \/ RecordRecovered(w)
           \/ SelectFailed(w) \/ ReconcileFailed(w) \/ Reconciled(w)
  <2>1. UNCHANGED <<listened, cache>>
    BY <1>4 DEF Take, RecordStarted, SetProcessing, SetPending, Fetched, HandBack, RecordSucceeded, ClearRows,
       RecordRecovered, SelectFailed, ReconcileFailed, Reconciled
  <2> QED BY <2>1 DEF ListenedMoves, CacheMoves
<1>5. CASE Ack(w) \/ RetryLater(w) \/ DeadLetter(w) \/ DeadLetterArtist(w) \/ DeadLetterRow(w)
           \/ RecordDeadLettered(w) \/ Unavailable(w) \/ RecordUnavailable(w) \/ UnavailableRow(w) \/ PoolExit(w)
  <2>1. UNCHANGED <<listened, cache>>
    BY <1>5 DEF Ack, RetryLater, DeadLetter, DeadLetterArtist, DeadLetterRow, RecordDeadLettered, Unavailable,
       RecordUnavailable, UnavailableRow, PoolExit, ProviderRefuses, QuotaExhausted
  <2> QED BY <2>1 DEF ListenedMoves, CacheMoves
<1> QED BY <1>1, <1>2, <1>3, <1>4, <1>5 DEF WorkerStep

LEMMA SweeperFacts == ASSUME SweeperStep PROVE ListenedMoves /\ CacheMoves
<1> USE DEF facts, stores
<1>1. ASSUME NEW r \in Requests, ConvergeStale(r) PROVE ListenedMoves /\ CacheMoves
  BY <1>1 DEF ConvergeStale, ListenedMoves, CacheMoves
<1>2. ASSUME NEW r \in Requests, FailStale(r) \/ MirrorStale(r) \/ JudgeOrphan(r)
      PROVE  ListenedMoves /\ CacheMoves
  BY <1>2 DEF FailStale, MirrorStale, JudgeOrphan, ListenedMoves, CacheMoves
<1>3. CASE FailStaleRow \/ FailArtist \/ FailOrphan
  BY <1>3 DEF FailStaleRow, FailArtist, FailOrphan, ListenedMoves, CacheMoves
<1> QED BY <1>1, <1>2, <1>3 DEF SweeperStep

LEMMA QueueFacts ==
    ASSUME ScrapeTypes, (\E r \in Requests : Accept(r) \/ PersistBatch(r) \/ DispatchStep(r)) \/ ClickRetry \/ RetryStep
    PROVE  UNCHANGED <<listened, cache>>
<1> USE DEF facts, stores
<1>1. ASSUME NEW r \in Requests, Accept(r) \/ PersistBatch(r) \/ DispatchStep(r)
      PROVE  UNCHANGED <<listened, cache>>
  BY <1>1 DEF Accept, PersistBatch, DispatchStep, MarkQueued, CreateRow, EmitBatch, MirrorBatch, OpenBatch,
     Publish, UndoFact, Undo
<1>2. CASE ClickRetry \/ RetryStep
  BY <1>2 DEF ClickRetry, RetryStep, ExpireRows, ExpireFact, ExpireMirror, ResetOrphanPendingArtists,
     MarkFailedJobArtists, FlipArtist, FoldArtist, MirrorArtist, PurgeOrphans, CollectCandidates, Requeue,
     SkipCandidates, RetryPublished, RetryPublishFails, RetryDuplicate, RetryAborts
<1> QED BY <1>1, <1>2

RetryMoves == DOMAIN retry' = DOMAIN retry /\ RetryHolds'

LEMMA RetryTo ==
    ASSUME ScrapeTypes, NEW pc, pc # "publish", NEW rs, retry' = [retry EXCEPT !.pc = pc, !.rows = rs]
    PROVE  RetryMoves
BY DEF ScrapeTypes, RetryMoves, RetryHolds

LEMMA QueueGoes ==
    ASSUME ScrapeTypes, (\E r \in Requests : Accept(r) \/ PersistBatch(r) \/ DispatchStep(r)) \/ ClickRetry \/ RetryStep
    PROVE  RetryMoves
<1>1. ASSUME NEW r \in Requests, Accept(r) \/ PersistBatch(r) \/ DispatchStep(r) PROVE RetryMoves
  <2>1. retry' = retry
    BY <1>1 DEF Accept, PersistBatch, DispatchStep, MarkQueued, CreateRow, EmitBatch, MirrorBatch, OpenBatch,
       Publish, UndoFact, Undo, Begin, Step
  <2> QED BY <2>1 DEF RetryMoves, ScrapeTypes, RetryHolds
<1>2. CASE ClickRetry
  BY <1>2 DEF ClickRetry, NoRetry, RetryMoves, RetryHolds, ScrapeTypes
<1>3. CASE ExpireRows \/ ExpireMirror \/ PurgeOrphans \/ CollectCandidates \/ SkipCandidates \/ RetryPublished
           \/ RetryPublishFails \/ RetryDuplicate \/ RetryAborts
  <2>1. \E pc, rs : pc # "publish" /\ retry' = [retry EXCEPT !.pc = pc, !.rows = rs]
    BY <1>3 DEF ExpireRows, ExpireMirror, PurgeOrphans, CollectCandidates, SkipCandidates, RetryPublished,
       RetryPublishFails, RetryDuplicate, RetryAborts, To, Collected
  <2> QED BY <2>1, RetryTo
<1>4. CASE ExpireFact
  <2>1. \E pc, rs : pc # "publish" /\ retry' = [retry EXCEPT !.pc = pc, !.rows = rs]
    BY <1>4 DEF ExpireFact, Collected
  <2> QED BY <2>1, RetryTo
<1>5. CASE ResetOrphanPendingArtists \/ MarkFailedJobArtists
  <2>1. \E pc, rs : pc # "publish" /\ retry' = [retry EXCEPT !.pc = pc, !.rows = rs]
    BY <1>5 DEF ResetOrphanPendingArtists, MarkFailedJobArtists, FlipArtist, FoldArtist, MirrorArtist, To
  <2> QED BY <2>1, RetryTo
<1>6. ASSUME NEW r \in Requests, Requeue(r) PROVE RetryMoves
  BY <1>6 DEF Requeue, RetryMoves, RetryHolds, ScrapeTypes
<1> QED BY <1>1, <1>2, <1>3, <1>4, <1>5, <1>6 DEF RetryStep
-----------------------------------------------------------------------------
(* The invariant.                                                          *)

\* A step that moves every part in one of these ways keeps the invariant.
AllMove ==
    /\ StreamMoves /\ RowMoves /\ QueueMoves /\ ListenedMoves /\ CacheMoves /\ RetryMoves
    /\ worker' = worker \/ worker' = [w \in Workers |-> Parked] \/ \E w \in Workers : WorkerMoves(w)

LEMMA WorkersRestart ==
    ASSUME worker' = [w \in Workers |-> Parked]
    PROVE  worker' \in [Workers -> WorkerRec] /\ Attended' /\ Advances
BY DEF Parked, WorkerRec, Pcs, Away, Past, Attended, Advances

LEMMA ListenersStay ==
    ASSUME ScrapeTypes, ListenedMoves
    PROVE  listened' \in [Requests -> {0, 1}] /\ (Backed => Backed')
BY DEF ScrapeTypes, ListenedMoves, Backed

LEMMA MovesScrapeInv == ASSUME ScrapeInv, AllMove PROVE ScrapeInv'
<1> USE DEF AllMove
<1>0. ScrapeTypes
  BY DEF ScrapeInv
<1>1. worker' \in [Workers -> WorkerRec] /\ Attended' /\ Advances
  BY <1>0, WorkersRest, WorkersRestart, WorkerMoved
<1>2. ScrapeTypes'
  BY <1>0, <1>1, StreamMoved, RowMoved, ListenersStay DEF ScrapeTypes, QueueMoves, RetryMoves, Attended
<1>3. ASSUME Clean, ~Backed' PROVE Clean'
  <2>1. CleanStreams' /\ CleanRows'
    BY <1>0, <1>3, StreamMoved, RowMoved DEF Clean
  <2>2. CleanWorkers'
    BY <1>1, <1>3 DEF Clean, CleanWorkers, Advances
  <2>3. cache' = {}
    BY <1>0, <1>3, NothingToTell DEF Clean, CacheMoves
  <2> QED BY <2>1, <2>2, <2>3 DEF Clean
<1> QED BY <1>0, <1>2, <1>3, ListenersStay DEF ScrapeInv

LEMMA InitScrapeInv == ASSUME Init PROVE ScrapeInv
<1> USE DEF Init, StoresInit, WorkerInit, QueueInit
<1>1. ScrapeTypes
  <2>1. stream \in [Requests -> Seq(Facts)] /\ queue \in Seq(Msg)
    OBVIOUS
  <2>2. worker \in [Workers -> WorkerRec] /\ Attended
    BY DEF Parked, WorkerRec, Pcs, Away, Attended
  <2>3. row \in [Requests -> [Sides -> RowStatus]]
    BY DEF RowStatus
  <2> QED BY <2>1, <2>2, <2>3 DEF ScrapeTypes, Attended, NoRetry, RetryHolds
<1>2. Clean
  <2>1. \A r \in Requests : Status(stream[r]) = "none"
    BY DEF Status
  <2> QED BY <2>1 DEF Clean, CleanRows, CleanStreams, CleanWorkers, Parked, Past
<1> QED BY <1>1, <1>2 DEF ScrapeInv

\* Nothing of what the invariant speaks of changes.
LEMMA StandStill ==
    ASSUME ScrapeTypes
    PROVE  /\ stream' = stream => StreamMoves
           /\ row' = row => RowMoves
           /\ queue' = queue => QueueMoves
           /\ listened' = listened => ListenedMoves
           /\ cache' = cache => CacheMoves
           /\ retry' = retry => RetryMoves
BY SameQueue DEF ScrapeTypes, StreamMoves, RowMoves, ListenedMoves, CacheMoves, RetryMoves, RetryHolds

LEMMA TimeMoves == ASSUME ScrapeTypes, Time, UNCHANGED <<workerVars, sweeper, queueVars, crashes>> PROVE AllMove
<1> USE DEF facts, nats, rows, workerVars, queueVars
<1>1. PICK r \in Requests : GrowStale(r) \/ GrowExpired(r) \/ CloseWindow(r)
  BY DEF Time
<1>2. UNCHANGED <<stream, listened, row, cache, worker, retry>>
  BY <1>1 DEF GrowStale, GrowExpired, CloseWindow
<1>3. QueueMoves
  <2>1. CASE GrowExpired(r)
    <3>1. queue' = [m \in DOMAIN queue |-> IF queue[m].req \in {r} THEN [queue[m] EXCEPT !.state = "gone"]
                                            ELSE queue[m]]
      BY <2>1 DEF GrowExpired
    <3> QED BY <3>1, DroppedMsgs
  <2>2. CASE GrowStale(r) \/ CloseWindow(r)
    BY <2>2, SameQueue DEF GrowStale, CloseWindow
  <2> QED BY <1>1, <2>1, <2>2
<1> QED BY <1>2, <1>3, StandStill DEF AllMove

LEMMA NextScrapeInv == ASSUME ScrapeInv, [Next]_vars PROVE ScrapeInv'
<1>0. ScrapeTypes
  BY DEF ScrapeInv
<1> SUFFICES AllMove
  BY MovesScrapeInv
<1> USE DEF queueVars, workerVars
<1>1. ASSUME NEW w \in Workers, WorkerStep(w) \/ PoolExit(w), UNCHANGED queueVars PROVE AllMove
  BY <1>0, <1>1, WorkerStreams, WorkerRows, WorkerMsgs, WorkerFacts, WorkerGoes, StandStill DEF AllMove
<1>2. CASE Sweep
  BY <1>0, <1>2, SweeperStreams, SweeperRows, SweeperMsgs, SweeperFacts, StandStill DEF Sweep, AllMove
<1>3. CASE Handle
  <2>1. (\E r \in Requests : Accept(r) \/ PersistBatch(r) \/ DispatchStep(r)) \/ ClickRetry \/ RetryStep
    BY <1>3 DEF Handle
  <2>2. StreamMoves /\ RowMoves /\ QueueMoves /\ RetryMoves /\ UNCHANGED <<listened, cache>>
    BY <1>0, <2>1, QueueStreams, QueueRows, QueueMsgs, QueueGoes, QueueFacts
  <2> QED BY <1>0, <1>3, <2>2, StandStill DEF Handle, AllMove
<1>4. ASSUME NEW m \in DOMAIN queue, AckWaitExpires(m), UNCHANGED queueVars PROVE AllMove
  <2>1. UNCHANGED <<stream, listened, row, cache, worker, retry>>
    BY <1>4 DEF AckWaitExpires, facts, rows
  <2>2. QueueMoves
    BY <1>0, <1>4, ReleasedMsg DEF AckWaitExpires
  <2> QED BY <1>0, <2>1, <2>2, StandStill DEF AllMove
<1>5. CASE Outside
  BY <1>0, <1>1, <1>4, <1>5, TimeMoves DEF Outside
<1>6. CASE Crash
  <2>1. UNCHANGED <<stream, listened, row, queue>>
    BY <1>6 DEF Crash, facts, rows, nats
  <2>2. worker' = [w \in Workers |-> Parked] /\ cache' = {} /\ CacheMoves
    BY <1>6 DEF Crash, WorkerRestart, CacheMoves
  <2>3. RetryMoves
    BY <1>0, <1>6 DEF Crash, QueueRestart, NoRetry, RetryMoves, RetryHolds, ScrapeTypes
  <2> QED BY <1>0, <2>1, <2>2, <2>3, StandStill DEF AllMove
<1>7. CASE UNCHANGED vars
  BY <1>0, <1>7, StandStill DEF vars, stores, facts, rows, nats, AllMove
<1>8. ASSUME NEW w \in Workers, Work(w) PROVE AllMove
  BY <1>1, <1>8 DEF Work
<1> QED BY <1>2, <1>3, <1>5, <1>6, <1>7, <1>8 DEF Next

\* No row, no stream and no cache entry speaks of a success that no request of
\* the artist brought home, whatever fails, dies or is handed out twice
\* (clearFailedJobsForArtist, convergeStaleRowToSucceeded and
\* isRequestAlreadySucceeded copy successes, they invent none).
THEOREM SuccessBacked == Spec => []SuccessIsBacked
<1>1. Init => ScrapeInv
  BY InitScrapeInv
<1>2. ScrapeInv /\ [Next]_vars => ScrapeInv'
  BY NextScrapeInv
<1>3. ScrapeInv => SuccessIsBacked
  BY DEF ScrapeInv, Clean, CleanRows, CleanStreams, Backed, SuccessIsBacked, Sides
<1> QED BY <1>1, <1>2, <1>3, PTL DEF Spec
-----------------------------------------------------------------------------
(* The slots, refusals and cooldowns of Fetching.                          *)

OutsideTurn  == {"idle", "slot", "asked", "tried"}
Outcomes == {"ok", "quota", "limited", "timeout", "failed", "cancelled"}
CallRec  == [pc : OutsideTurn \cup Inside, asked : Providers \cup {"any"}, attempt : Nat,
             turn : DOMAIN Registry, profile : Nat, at : Nat, want : Nat, seen : Nat,
             outcome : Outcomes, refused : BOOLEAN]

\* A call that names its provider has the one turn.
TypesOK ==
    /\ call \in [Callers -> CallRec] /\ \A c \in Callers : call[c].asked # "any" => call[c].turn = 1
    /\ slots \in [Providers -> SUBSET Callers] /\ until \in [Providers -> Nat]
    /\ streak \in Nat /\ clock \in Nat

\* A refused call is on its way out.
RefusedLeaves == \A c \in Callers :
    call[c].refused => /\ call[c].pc \in {"asked", "tried"} /\ call[c].asked # "any"
                       /\ call[c].outcome \in {"quota", "limited"}

\* What a call has established about the values that it will swap.
Carried(r) ==
    /\ r.pc \in {"begin", "sent"} => r.want = 0
    /\ r.pc = "markSwap" => r.seen < r.want
    /\ r.pc = "clearSwap" => r.seen <= r.at
    /\ r.pc = "relaxSwap" => r.seen > 0
Carries == \A c \in Callers : Carried(call[c])

IInv == TypesOK /\ SlotsReturn /\ RefusedLeaves /\ Carries /\ DelayIsKept

\* The provider whose turn it is is one of the registry's.
LEMMA ProviderKnown ==
    ASSUME TypesOK, NEW c \in Callers
    PROVE  Provider(c) \in Providers
<1>1. call[c] \in CallRec
  BY DEF TypesOK
<1>2. CASE call[c].asked = "any"
  BY <1>1, <1>2 DEF Provider, Turns, Providers, CallRec
<1>3. CASE call[c].asked # "any"
  BY <1>1, <1>3 DEF TypesOK, Provider, Turns, Providers, CallRec
<1> QED BY <1>2, <1>3

LEMMA FirstTurn == 1 \in DOMAIN Registry
BY FetchRegistry, EmptySeq

LEMMA InitIInv == FetchInit => IInv
<1> SUFFICES ASSUME FetchInit PROVE IInv
  OBVIOUS
<1>1. NoCall \in CallRec
  BY FirstTurn DEF NoCall, CallRec, OutsideTurn, Outcomes
<1>2. TypesOK
  BY <1>1 DEF FetchInit, TypesOK, NoCall
<1>3. SlotsReturn
  BY DEF FetchInit, SlotsReturn, NoCall, Inside
<1> QED BY <1>2, <1>3 DEF FetchInit, IInv, RefusedLeaves, Carries, Carried, DelayIsKept, NoCall, Is

\* The call after a turn.
LEMMA TurnTypes ==
    ASSUME NEW r \in CallRec
    PROVE  /\ \A o \in Outcomes : [r EXCEPT !.pc = "tried", !.outcome = o] \in CallRec
           /\ \A t \in DOMAIN Registry : [r EXCEPT !.pc = "slot", !.turn = t, !.outcome = "ok"] \in CallRec
BY DEF CallRec, OutsideTurn, Outcomes

LEMMA TypesTurn ==
    ASSUME TypesOK, NEW c \in Callers, TryEachProvider(c)
    PROVE  TypesOK'
<1>1. call[c] \in CallRec /\ call[c].outcome \in Outcomes /\ UNCHANGED <<slots, until, streak, clock>>
  BY DEF TypesOK, CallRec, TryEachProvider
<1>2. ASSUME NEW r \in CallRec, r.asked # "any" => r.turn = 1, call' = [call EXCEPT ![c] = r]
      PROVE  TypesOK'
  BY <1>1, <1>2 DEF TypesOK
<1>3. ASSUME NEW o \in Outcomes, call' = [call EXCEPT ![c].pc = "tried", ![c].outcome = o]
      PROVE  TypesOK'
  <2>1. [call[c] EXCEPT !.pc = "tried", !.outcome = o] \in CallRec
    BY <1>1, TurnTypes
  <2>2. call' = [call EXCEPT ![c] = [call[c] EXCEPT !.pc = "tried", !.outcome = o]]
    BY <1>3
  <2>3. [call[c] EXCEPT !.pc = "tried", !.outcome = o].asked = call[c].asked
        /\ [call[c] EXCEPT !.pc = "tried", !.outcome = o].turn = call[c].turn
    BY <1>1 DEF CallRec
  <2>4. call[c].asked # "any" => call[c].turn = 1
    BY DEF TypesOK
  <2> QED BY <1>2, <2>1, <2>2, <2>3, <2>4
<1>4. ASSUME call[c].asked = "any", call[c].turn < Len(Registry),
             call' = [call EXCEPT ![c].pc = "slot", ![c].turn = @ + 1, ![c].outcome = "ok"]
      PROVE  TypesOK'
  <2>1. call[c].turn + 1 \in DOMAIN Registry
    BY <1>1, <1>4, FetchRegistry DEF CallRec
  <2>2. [call[c] EXCEPT !.pc = "slot", !.turn = call[c].turn + 1, !.outcome = "ok"] \in CallRec
    BY <1>1, <2>1, TurnTypes
  <2>3. call' = [call EXCEPT ![c] = [call[c] EXCEPT !.pc = "slot", !.turn = call[c].turn + 1, !.outcome = "ok"]]
    BY <1>4
  <2>4. [call[c] EXCEPT !.pc = "slot", !.turn = call[c].turn + 1, !.outcome = "ok"].asked = "any"
    BY <1>1, <1>4 DEF CallRec
  <2> QED BY <1>2, <2>2, <2>3, <2>4
<1>5. \/ \E o \in Outcomes : call' = [call EXCEPT ![c].pc = "tried", ![c].outcome = o]
      \/ /\ call[c].asked = "any" /\ call[c].turn < Len(Registry)
         /\ call' = [call EXCEPT ![c].pc = "slot", ![c].turn = @ + 1, ![c].outcome = "ok"]
  BY <1>1 DEF TryEachProvider, Outcomes
<1> QED BY <1>3, <1>4, <1>5

\* The types.
LEMMA TypesCall ==
    ASSUME IInv, NEW c \in Callers, CallStep(c)
    PROVE  TypesOK'
<1> USE FetchBounds DEF IInv, TypesOK, CallRec, OutsideTurn, Inside, Outcomes, SettlesAs, SlotReturned, Is, Moves, Loads
<1>0. Provider(c) \in Providers
  BY ProviderKnown
<1>1. CASE FetchOne(c)
  <2>1. PICK a \in Providers \cup {"any"} :
            call' = [call EXCEPT ![c] = [NoCall EXCEPT !.pc = "slot", !.asked = a]]
    BY <1>1 DEF FetchOne
  <2>2. [NoCall EXCEPT !.pc = "slot", !.asked = a] \in CallRec
    BY FirstTurn DEF NoCall
  <2>3. [NoCall EXCEPT !.pc = "slot", !.asked = a].turn = 1
    BY DEF NoCall
  <2> QED BY <1>1, <2>1, <2>2, <2>3 DEF FetchOne
<1>2. CASE FetchWithRetry(c)
  <2>1. NoCall \in CallRec /\ NoCall.turn = 1
    BY FirstTurn DEF NoCall
  <2>2. CASE call' = [call EXCEPT ![c] = NoCall]
    BY <1>2, <2>1, <2>2 DEF FetchWithRetry
  <2>3. CASE call' = [call EXCEPT ![c].pc = "slot", ![c].attempt = @ + 1, ![c].turn = 1, ![c].outcome = "ok"]
    BY <1>2, <2>3, FirstTurn DEF FetchWithRetry
  <2> QED BY <1>2, <2>2, <2>3 DEF FetchWithRetry
<1>3. CASE FetchWithSemaphore(c)
  BY <1>0, <1>3 DEF FetchWithSemaphore
<1>4. CASE TryEachProvider(c)
  BY <1>4, TypesTurn
<1>5. CASE BeginFetch(c) \/ Refused(c) \/ TryScraperAPIProfiles(c)
  BY <1>0, <1>5 DEF BeginFetch, Refused, TryScraperAPIProfiles
<1>6. CASE RateLimited(c)
  BY <1>0, <1>6 DEF RateLimited
<1>7. CASE Answered(c)
  BY <1>0, <1>7 DEF Answered
<1>8. CASE MarkLoad(c) \/ MarkSwap(c)
  BY <1>0, <1>8 DEF MarkLoad, MarkSwap
<1>9. CASE ClearLoad(c) \/ ClearSwap(c)
  BY <1>0, <1>9 DEF ClearLoad, ClearSwap
<1>10. CASE RelaxLoad(c) \/ RelaxSwap(c)
  BY <1>0, <1>10 DEF RelaxLoad, RelaxSwap, Carries, Carried
<1> QED BY <1>1, <1>2, <1>3, <1>4, <1>5, <1>6, <1>7, <1>8, <1>9, <1>10 DEF CallStep

\* A step of a call leaves the others as they are.
LEMMA OthersStay ==
    ASSUME IInv, NEW c \in Callers, CallStep(c), NEW d \in Callers, d # c
    PROVE  call'[d] = call[d]
<1>1. call \in [Callers -> CallRec]
  BY DEF IInv, TypesOK
<1>2. CASE FetchOne(c) \/ FetchWithRetry(c) \/ FetchWithSemaphore(c) \/ TryEachProvider(c)
  BY <1>1, <1>2 DEF FetchOne, FetchWithRetry, FetchWithSemaphore, TryEachProvider, SettlesAs
<1>3. CASE \/ BeginFetch(c) \/ Refused(c) \/ TryScraperAPIProfiles(c) \/ RateLimited(c) \/ Answered(c)
  BY <1>1, <1>3 DEF BeginFetch, Refused, TryScraperAPIProfiles, RateLimited, Answered, SettlesAs
<1>4. CASE \/ MarkLoad(c) \/ MarkSwap(c) \/ ClearLoad(c) \/ ClearSwap(c) \/ RelaxLoad(c) \/ RelaxSwap(c)
  BY <1>1, <1>4 DEF MarkLoad, MarkSwap, ClearLoad, ClearSwap, RelaxLoad, RelaxSwap, SettlesAs, Moves, Loads
<1> QED BY <1>2, <1>3, <1>4 DEF CallStep

\* The call before and after a step, as the slots see it.
HasSlot(r)    == r.pc \in Inside
ProviderOf(r) == (IF r.asked = "any" THEN Registry ELSE <<r.asked>>)[r.turn]

LEMMA ProviderIs == ASSUME NEW c \in Callers PROVE /\ Provider(c) = ProviderOf(call[c])
                                                   /\ Provider(c)' = ProviderOf(call'[c])
BY DEF Provider, Turns, ProviderOf

\* What a step does to the slots: it leaves them, takes the one it waits for, or
\* gives one back.
Keeps(c) == /\ slots' = slots /\ HasSlot(call'[c]) = HasSlot(call[c])
            /\ HasSlot(call[c]) => ProviderOf(call'[c]) = ProviderOf(call[c])
Takes(c) == /\ slots' = [slots EXCEPT ![ProviderOf(call[c])] = @ \cup {c}]
            /\ HasSlot(call'[c]) /\ ~HasSlot(call[c]) /\ ProviderOf(call'[c]) = ProviderOf(call[c])
Gives(c) == /\ slots' = [slots EXCEPT ![ProviderOf(call[c])] = @ \ {c}] /\ ~HasSlot(call'[c])

LEMMA Settling ==
    ASSUME TypesOK, NEW c \in Callers, NEW o, SettlesAs(c, o)
    PROVE  Gives(c)
<1>1. call \in [Callers -> CallRec]
  BY DEF TypesOK
<1>2. call'[c].pc = "asked"
  BY <1>1 DEF SettlesAs
<1> QED BY <1>2, ProviderIs DEF Gives, HasSlot, SettlesAs, SlotReturned, Inside

LEMMA SlotKinds ==
    ASSUME IInv, NEW c \in Callers, CallStep(c)
    PROVE  Keeps(c) \/ Takes(c) \/ Gives(c)
<1> USE DEF Keeps, HasSlot, Is
<1>1. call \in [Callers -> CallRec] /\ TypesOK
  BY DEF IInv, TypesOK
<1>2. CASE FetchOne(c)
  <2>1. call'[c].pc = "slot" /\ slots' = slots /\ call[c].pc = "idle"
    BY <1>1, <1>2 DEF FetchOne, NoCall
  <2> QED BY <2>1 DEF Inside
<1>3. CASE FetchWithRetry(c)
  <2>1. call'[c].pc \in {"idle", "slot"} /\ slots' = slots /\ call[c].pc = "tried"
    <3>1. CASE call' = [call EXCEPT ![c] = NoCall]
      BY <1>1, <1>3, <3>1 DEF FetchWithRetry, NoCall
    <3>2. CASE call' = [call EXCEPT ![c].pc = "slot", ![c].attempt = @ + 1, ![c].turn = 1, ![c].outcome = "ok"]
      BY <1>1, <1>3, <3>2 DEF FetchWithRetry, CallRec
    <3> QED BY <1>3, <3>1, <3>2 DEF FetchWithRetry
  <2> QED BY <2>1 DEF Inside
<1>4. CASE TryEachProvider(c)
  <2>1. call'[c].pc \in {"tried", "slot"} /\ slots' = slots /\ call[c].pc = "asked"
    <3>1. CASE \E o : call' = [call EXCEPT ![c].pc = "tried", ![c].outcome = o]
      BY <1>1, <1>4, <3>1 DEF TryEachProvider, CallRec
    <3>2. CASE call' = [call EXCEPT ![c].pc = "slot", ![c].turn = @ + 1, ![c].outcome = "ok"]
      BY <1>1, <1>4, <3>2 DEF TryEachProvider, CallRec
    <3> QED BY <1>4, <3>1, <3>2 DEF TryEachProvider
  <2> QED BY <2>1 DEF Inside
<1>5. CASE FetchWithSemaphore(c)
  <2>1. CASE call' = [call EXCEPT ![c].pc = "begin", ![c].want = 0]
    <3>1. call'[c].pc = "begin" /\ call[c].pc = "slot" /\ ProviderOf(call'[c]) = ProviderOf(call[c])
      BY <1>1, <1>5, <2>1 DEF FetchWithSemaphore, ProviderOf
    <3>2. slots' = [slots EXCEPT ![Provider(c)] = @ \cup {c}]
      <4>1. ~SettlesAs(c, "timeout")
        BY <1>1, <3>1 DEF SettlesAs, CallRec
      <4> QED BY <1>5, <4>1 DEF FetchWithSemaphore
    <3> QED BY <3>1, <3>2, ProviderIs DEF Takes, Inside
  <2> QED BY <1>1, <1>5, <2>1, Settling DEF FetchWithSemaphore
<1>6. ASSUME NEW r, call' = [call EXCEPT ![c] = r], r.pc \in Inside, call[c].pc \in Inside,
             r.asked = call[c].asked, r.turn = call[c].turn, slots' = slots
      PROVE  Keeps(c)
  BY <1>1, <1>6 DEF ProviderOf
<1>7. ASSUME NEW q \in Inside, call[c].pc \in Inside, Moves(c, q), slots' = slots
      PROVE  Keeps(c)
  BY <1>1, <1>7 DEF ProviderOf, Moves, CallRec
<1>8. ASSUME NEW q \in Inside, NEW v, call[c].pc \in Inside, Loads(c, v, q), slots' = slots
      PROVE  Keeps(c)
  BY <1>1, <1>8 DEF ProviderOf, Loads, CallRec
<1>9. CASE BeginFetch(c)
  <2>1. CASE call' = [call EXCEPT ![c].pc = "sent", ![c].at = clock] /\ slots' = slots
    BY <1>1, <1>9, <2>1 DEF BeginFetch, ProviderOf, Inside, CallRec
  <2> QED BY <1>1, <1>9, <2>1, Settling DEF BeginFetch
<1>10. CASE Refused(c)
  BY <1>1, <1>10, Settling DEF Refused
<1>11. CASE TryScraperAPIProfiles(c)
  BY <1>1, <1>11 DEF TryScraperAPIProfiles, ProviderOf, Inside, CallRec
<1>12. CASE RateLimited(c)
  <2>1. CASE SettlesAs(c, "limited")
    BY <1>1, <2>1, Settling
  <2>2. CASE \E w : call' = [call EXCEPT ![c].pc = "mark", ![c].want = w]
    <3>1. slots' = slots /\ call[c].pc = "sent"
      <4>1. ~SettlesAs(c, "limited")
        <5>1. call'[c].pc = "mark"
          BY <1>1, <2>2 DEF CallRec
        <5> QED BY <1>1, <5>1 DEF SettlesAs, CallRec
      <4> QED BY <1>12, <4>1 DEF RateLimited
    <3> QED BY <1>1, <2>2, <3>1 DEF ProviderOf, Inside, CallRec
  <2> QED BY <1>12, <2>1, <2>2 DEF RateLimited
<1>13. CASE Answered(c)
  <2>1. CASE SettlesAs(c, "ok")
    BY <1>1, <2>1, Settling
  <2>2. CASE \E t : call' = [call EXCEPT ![c].pc = "clear", ![c].at = t] /\ slots' = slots
    BY <1>1, <1>13, <2>2 DEF Answered, ProviderOf, Inside, CallRec
  <2> QED BY <1>13, <2>1, <2>2 DEF Answered
<1>14. CASE MarkLoad(c) \/ MarkSwap(c)
  BY <1>1, <1>14, <1>7, <1>8, Settling DEF MarkLoad, MarkSwap, Inside
<1>15. CASE ClearLoad(c) \/ ClearSwap(c)
  BY <1>1, <1>15, <1>7, <1>8 DEF ClearLoad, ClearSwap, Inside
<1>16. CASE RelaxLoad(c) \/ RelaxSwap(c)
  BY <1>1, <1>16, <1>7, <1>8, Settling DEF RelaxLoad, RelaxSwap, Inside
<1> QED BY <1>2, <1>3, <1>4, <1>5, <1>9, <1>10, <1>11, <1>12, <1>13, <1>14, <1>15, <1>16 DEF CallStep

LEMMA SlotsCall ==
    ASSUME IInv, NEW c \in Callers, CallStep(c)
    PROVE  SlotsReturn'
<1>1. ProviderOf(call[c]) \in Providers /\ slots \in [Providers -> SUBSET Callers]
  BY ProviderKnown, ProviderIs DEF IInv, TypesOK
<1>2. \A q \in Providers : slots[q] = {d \in Callers : HasSlot(call[d]) /\ ProviderOf(call[d]) = q}
  BY ProviderIs DEF IInv, SlotsReturn, HasSlot
<1>3. \A q \in Providers : slots'[q] = {d \in Callers : HasSlot(call'[d]) /\ ProviderOf(call'[d]) = q}
  <2> SUFFICES ASSUME NEW q \in Providers, NEW d \in Callers
               PROVE  d \in slots'[q] <=> HasSlot(call'[d]) /\ ProviderOf(call'[d]) = q
    BY TypesCall DEF TypesOK
  <2>1. CASE d # c
    BY <1>1, <1>2, <2>1, OthersStay, SlotKinds DEF Keeps, Takes, Gives
  <2>2. CASE d = c
    BY <1>1, <1>2, <2>2, SlotKinds DEF Keeps, Takes, Gives
  <2> QED BY <2>1, <2>2
<1> QED BY <1>3, ProviderIs DEF SlotsReturn, HasSlot

\* No step moves a deadline back.
LEMMA UntilGrows ==
    ASSUME IInv, NEW c \in Callers, CallStep(c), NEW p \in Providers
    PROVE  until'[p] >= until[p]
<1>1. /\ Provider(c) \in Providers /\ until \in [Providers -> Nat] /\ call[c] \in CallRec
      /\ Carried(call[c])
  BY ProviderKnown DEF IInv, TypesOK, Carries
<1>2. CASE until' = until
  BY <1>1, <1>2
<1>3. CASE MarkSwap(c)
  BY <1>1, <1>3 DEF MarkSwap, Is, Carried, CallRec
<1>4. CASE ClearSwap(c)
  BY <1>1, <1>4 DEF ClearSwap, Is, Carried, CallRec
<1> QED
  BY <1>2, <1>3, <1>4 DEF CallStep, FetchOne, FetchWithRetry, FetchWithSemaphore, TryEachProvider, BeginFetch,
     Refused, TryScraperAPIProfiles, RateLimited, Answered, MarkLoad, ClearLoad, RelaxLoad, RelaxSwap

\* What the caller of a step carries afterwards.
LEMMA CarriesCall ==
    ASSUME IInv, NEW c \in Callers, CallStep(c)
    PROVE  Carries'
<1>1. call \in [Callers -> CallRec] /\ Provider(c) \in Providers /\ until \in [Providers -> Nat] /\ streak \in Nat
  BY ProviderKnown DEF IInv, TypesOK
<1>2. \A d \in Callers \ {c} : Carried(call'[d])
  BY OthersStay DEF IInv, Carries
<1>3. Carried(call[c])
  BY DEF IInv, Carries
<1> SUFFICES Carried(call'[c])
  BY <1>2 DEF Carries
<1>4. ASSUME NEW o, SettlesAs(c, o) PROVE Carried(call'[c])
  BY <1>1, <1>4 DEF SettlesAs, Carried, CallRec
<1>5. ASSUME NEW q \in {"mark", "relax", "clear"}, Moves(c, q) PROVE Carried(call'[c])
  BY <1>1, <1>5 DEF Moves, Carried, CallRec
\* Nothing is carried where nothing is swapped.
<1>6. ASSUME call'[c].pc \notin {"begin", "sent", "markSwap", "clearSwap", "relaxSwap"} PROVE Carried(call'[c])
  BY <1>6 DEF Carried
<1>7. CASE FetchOne(c)
  <2>1. call'[c].pc = "slot"
    BY <1>1, <1>7 DEF FetchOne, NoCall
  <2> QED BY <2>1, <1>6
<1>8. CASE FetchWithRetry(c)
  <2>1. CASE call' = [call EXCEPT ![c] = NoCall]
    BY <1>1, <1>6, <2>1 DEF NoCall
  <2>2. CASE call' = [call EXCEPT ![c].pc = "slot", ![c].attempt = @ + 1, ![c].turn = 1, ![c].outcome = "ok"]
    <3>1. call'[c].pc = "slot"
      BY <1>1, <2>2 DEF CallRec
    <3> QED BY <3>1, <1>6
  <2> QED BY <1>8, <2>1, <2>2 DEF FetchWithRetry
<1>9. CASE FetchWithSemaphore(c)
  <2>1. CASE call' = [call EXCEPT ![c].pc = "begin", ![c].want = 0]
    <3>1. call'[c].pc = "begin" /\ call'[c].want = 0
      BY <1>1, <2>1 DEF CallRec
    <3> QED BY <3>1 DEF Carried
  <2> QED BY <1>4, <1>9, <2>1 DEF FetchWithSemaphore
<1>10. CASE TryEachProvider(c)
  <2>1. ASSUME NEW o, call' = [call EXCEPT ![c].pc = "tried", ![c].outcome = o] PROVE Carried(call'[c])
    <3>1. call'[c].pc = "tried"
      BY <1>1, <2>1 DEF CallRec
    <3> QED BY <3>1, <1>6
  <2>2. CASE call' = [call EXCEPT ![c].pc = "slot", ![c].turn = @ + 1, ![c].outcome = "ok"]
    <3>1. call'[c].pc = "slot"
      BY <1>1, <2>2 DEF CallRec
    <3> QED BY <3>1, <1>6
  <2> QED BY <1>10, <2>1, <2>2 DEF TryEachProvider
<1>11. CASE BeginFetch(c)
  <2>1. CASE call' = [call EXCEPT ![c].pc = "sent", ![c].at = clock]
    <3>1. call'[c].pc = "sent" /\ call'[c].want = call[c].want
      BY <1>1, <2>1 DEF CallRec
    <3> QED BY <1>3, <1>11, <3>1 DEF Carried, BeginFetch, Is
  <2> QED BY <1>4, <1>11, <2>1 DEF BeginFetch
<1>12. CASE Refused(c)
  BY <1>4, <1>12 DEF Refused
<1>13. CASE TryScraperAPIProfiles(c)
  <2>1. call'[c].pc = "sent" /\ call'[c].want = call[c].want
    BY <1>1, <1>13 DEF CallRec, TryScraperAPIProfiles, Is
  <2> QED BY <1>3, <1>13, <2>1 DEF Carried, TryScraperAPIProfiles, Is
<1>14. CASE RateLimited(c)
  <2>1. ASSUME NEW w, call' = [call EXCEPT ![c].pc = "mark", ![c].want = w] PROVE Carried(call'[c])
    <3>1. call'[c].pc = "mark"
      BY <1>1, <2>1 DEF CallRec
    <3> QED BY <3>1, <1>6
  <2> QED BY <1>4, <1>14, <2>1 DEF RateLimited
<1>15. CASE Answered(c)
  <2>1. ASSUME NEW t, call' = [call EXCEPT ![c].pc = "clear", ![c].at = t] PROVE Carried(call'[c])
    <3>1. call'[c].pc = "clear"
      BY <1>1, <2>1 DEF CallRec
    <3> QED BY <3>1, <1>6
  <2> QED BY <1>4, <1>15, <2>1 DEF Answered
<1>16. CASE MarkLoad(c)
  <2>1. CASE Loads(c, until[Provider(c)], "markSwap")
    <3>1. call'[c].pc = "markSwap" /\ call'[c].seen = until[Provider(c)] /\ call'[c].want = call[c].want
      BY <1>1, <2>1 DEF Loads, CallRec
    <3>2. ~SettlesAs(c, "limited")
      BY <1>1, <3>1 DEF SettlesAs, CallRec
    <3> QED BY <1>1, <1>16, <3>1, <3>2 DEF Carried, MarkLoad, CallRec
  <2> QED BY <1>4, <1>16, <2>1 DEF MarkLoad
<1>17. CASE MarkSwap(c)
  BY <1>4, <1>5, <1>17 DEF MarkSwap
<1>18. CASE ClearLoad(c)
  <2>1. CASE Loads(c, until[Provider(c)], "clearSwap")
    <3>1. call'[c].pc = "clearSwap" /\ call'[c].seen = until[Provider(c)] /\ call'[c].at = call[c].at
      BY <1>1, <2>1 DEF Loads, CallRec
    <3>2. ~Moves(c, "relax")
      BY <1>1, <3>1 DEF Moves, CallRec
    <3> QED BY <1>1, <1>18, <3>1, <3>2 DEF Carried, ClearLoad, CallRec
  <2> QED BY <1>5, <1>18, <2>1 DEF ClearLoad
<1>19. CASE ClearSwap(c)
  BY <1>5, <1>19 DEF ClearSwap
<1>20. CASE RelaxLoad(c)
  <2>1. CASE Loads(c, streak, "relaxSwap")
    <3>1. call'[c].pc = "relaxSwap" /\ call'[c].seen = streak
      BY <1>1, <2>1 DEF Loads, CallRec
    <3>2. \A o : ~SettlesAs(c, o)
      BY <1>1, <3>1 DEF SettlesAs, CallRec
    <3> QED BY <1>1, <1>20, <3>1, <3>2 DEF Carried, RelaxLoad, CallRec
  <2> QED BY <1>4, <1>20, <2>1 DEF RelaxLoad
<1>21. CASE RelaxSwap(c)
  BY <1>4, <1>5, <1>21 DEF RelaxSwap
<1> QED
  BY <1>7, <1>8, <1>9, <1>10, <1>11, <1>12, <1>13, <1>14, <1>15, <1>16, <1>17, <1>18, <1>19, <1>20, <1>21
     DEF CallStep

\* The call after its request is over.
LEMMA SettledBrowser ==
    ASSUME TypesOK, NEW c \in Callers, NEW o, SettlesAs(c, o)
    PROVE  /\ call'[c].pc = "asked" /\ call'[c].outcome = o /\ call'[c].want = call[c].want
           /\ Provider(c)' = Provider(c) /\ call'[c].asked = call[c].asked
           /\ call'[c].refused = (call[c].refused \/ (call[c].asked # "any" /\ o \in {"quota", "limited"}))
<1>1. call \in [Callers -> CallRec]
  BY DEF TypesOK
<1> QED BY <1>1 DEF SettlesAs, CallRec, Provider, Turns

\* A refused call is on its way out.
Leaves(r) == r.refused => /\ r.pc \in {"asked", "tried"} /\ r.asked # "any"
                          /\ r.outcome \in {"quota", "limited"}

LEMMA RefusedCall ==
    ASSUME IInv, NEW c \in Callers, CallStep(c)
    PROVE  RefusedLeaves'
<1>1. call \in [Callers -> CallRec] /\ TypesOK /\ call[c] \in CallRec
  BY DEF IInv, TypesOK
<1>2. call[c].refused => /\ call[c].pc \in {"asked", "tried"} /\ call[c].asked # "any"
                         /\ call[c].outcome \in {"quota", "limited"}
  BY DEF IInv, RefusedLeaves
<1> SUFFICES Leaves(call'[c])
  BY OthersStay DEF IInv, RefusedLeaves, Leaves
<1>3. ASSUME ~call'[c].refused PROVE Leaves(call'[c])
  BY <1>3 DEF Leaves
<1>4. ASSUME NEW o, SettlesAs(c, o), call[c].pc \notin {"asked", "tried"} PROVE Leaves(call'[c])
  <2>1. ~call[c].refused
    BY <1>2, <1>4
  <2>2. call'[c].refused => call[c].asked # "any" /\ o \in {"quota", "limited"}
    BY <1>1, <1>4, <2>1, SettledBrowser
  <2> QED BY <1>1, <1>4, <2>2, SettledBrowser DEF Leaves
<1>5. ASSUME call'[c].refused = call[c].refused, call[c].pc \notin {"asked", "tried"} PROVE Leaves(call'[c])
  BY <1>2, <1>3, <1>5
<1>6. CASE FetchOne(c)
  BY <1>1, <1>3, <1>6 DEF FetchOne, NoCall
<1>7. CASE FetchWithRetry(c)
  <2>1. CASE call' = [call EXCEPT ![c] = NoCall]
    BY <1>1, <1>3, <2>1 DEF NoCall
  <2>2. CASE /\ ~Stops(call[c])
             /\ call' = [call EXCEPT ![c].pc = "slot", ![c].attempt = @ + 1, ![c].turn = 1, ![c].outcome = "ok"]
    <3>1. ~call[c].refused
      BY <1>2, <2>2 DEF Stops
    <3>2. call'[c].refused = call[c].refused
      BY <1>1, <2>2 DEF CallRec
    <3> QED BY <1>3, <3>1, <3>2
  <2> QED BY <1>7, <2>1, <2>2 DEF FetchWithRetry
<1>8. CASE TryEachProvider(c)
  <2>1. ASSUME NEW o, call' = [call EXCEPT ![c].pc = "tried", ![c].outcome = o],
               call[c].asked = "any" \/ o = call[c].outcome
        PROVE  Leaves(call'[c])
    <3>1. /\ call'[c].pc = "tried" /\ call'[c].outcome = o /\ call'[c].asked = call[c].asked
          /\ call'[c].refused = call[c].refused
      BY <1>1, <2>1 DEF CallRec
    <3> QED BY <1>2, <2>1, <3>1 DEF Leaves
  <2>2. CASE /\ call[c].asked = "any" /\ call' = [call EXCEPT ![c].pc = "slot", ![c].turn = @ + 1, ![c].outcome = "ok"]
    <3>1. ~call[c].refused
      BY <1>2, <2>2
    <3>2. call'[c].refused = call[c].refused
      BY <1>1, <2>2 DEF CallRec
    <3> QED BY <1>3, <3>1, <3>2
  <2> QED BY <1>8, <2>1, <2>2 DEF TryEachProvider
<1>9. CASE FetchWithSemaphore(c)
  <2>1. CASE call' = [call EXCEPT ![c].pc = "begin", ![c].want = 0]
    <3>1. call'[c].refused = call[c].refused /\ call[c].pc = "slot"
      BY <1>1, <1>9, <2>1 DEF CallRec, FetchWithSemaphore, Is
    <3> QED BY <1>5, <3>1
  <2> QED BY <1>4, <1>9, <2>1 DEF FetchWithSemaphore, Is
<1>10. CASE BeginFetch(c)
  <2>1. CASE call' = [call EXCEPT ![c].pc = "sent", ![c].at = clock]
    <3>1. call'[c].refused = call[c].refused /\ call[c].pc = "begin"
      BY <1>1, <1>10, <2>1 DEF CallRec, BeginFetch, Is
    <3> QED BY <1>5, <3>1
  <2> QED BY <1>4, <1>10, <2>1 DEF BeginFetch, Is
<1>11. CASE Refused(c)
  BY <1>4, <1>11 DEF Refused, Is
<1>12. CASE TryScraperAPIProfiles(c)
  <2>1. call'[c].refused = call[c].refused /\ call[c].pc = "sent"
    BY <1>1, <1>12 DEF CallRec, TryScraperAPIProfiles, Is
  <2> QED BY <1>5, <2>1
<1>13. CASE RateLimited(c)
  <2>1. ASSUME NEW w, call' = [call EXCEPT ![c].pc = "mark", ![c].want = w] PROVE Leaves(call'[c])
    <3>1. call'[c].refused = call[c].refused /\ call[c].pc = "sent"
      BY <1>1, <1>13, <2>1 DEF CallRec, RateLimited, Is
    <3> QED BY <1>5, <3>1
  <2> QED BY <1>4, <1>13, <2>1 DEF RateLimited, Is
<1>14. CASE Answered(c)
  <2>1. ASSUME NEW t, call' = [call EXCEPT ![c].pc = "clear", ![c].at = t] PROVE Leaves(call'[c])
    <3>1. call'[c].refused = call[c].refused /\ call[c].pc = "sent"
      BY <1>1, <1>14, <2>1 DEF CallRec, Answered, Is
    <3> QED BY <1>5, <3>1
  <2> QED BY <1>4, <1>14, <2>1 DEF Answered, Is
<1>15. ASSUME NEW q, NEW v, Moves(c, q) \/ Loads(c, v, q), call[c].pc \in Inside PROVE Leaves(call'[c])
  <2>1. call'[c].refused = call[c].refused
    BY <1>1, <1>15 DEF CallRec, Moves, Loads
  <2> QED BY <1>5, <1>15, <2>1 DEF Inside
<1>16. CASE MarkLoad(c) \/ MarkSwap(c)
  BY <1>4, <1>15, <1>16 DEF MarkLoad, MarkSwap, Is, Inside
<1>17. CASE ClearLoad(c) \/ ClearSwap(c)
  BY <1>15, <1>17 DEF ClearLoad, ClearSwap, Is, Inside
<1>18. CASE RelaxLoad(c) \/ RelaxSwap(c)
  BY <1>4, <1>15, <1>18 DEF RelaxLoad, RelaxSwap, Is, Inside
<1> QED
  BY <1>6, <1>7, <1>8, <1>9, <1>10, <1>11, <1>12, <1>13, <1>14, <1>16, <1>17, <1>18 DEF CallStep

\* A call that is over, and whose provider has throttled it.
Throttled(r) == r.pc = "asked" /\ r.outcome = "limited"

\* The delay of a throttled call: it is nothing before a request, it is in force
\* when the mark finds it so, and the swap puts it in force.
LEMMA DelayCall ==
    ASSUME IInv, NEW c \in Callers, CallStep(c)
    PROVE  DelayIsKept'
<1>1. /\ call \in [Callers -> CallRec] /\ TypesOK /\ call[c] \in CallRec /\ Carried(call[c])
      /\ Provider(c) \in Providers /\ until \in [Providers -> Nat] /\ until' \in [Providers -> Nat]
  BY ProviderKnown, TypesCall DEF IInv, TypesOK, Carries
<1>2. ASSUME NEW d \in Callers, d # c, Throttled(call'[d])
      PROVE  call'[d].want <= until'[Provider(d)']
  <2>1. call'[d] = call[d] /\ Provider(d)' = Provider(d)
    BY <1>2, OthersStay, ProviderIs
  <2>2. Provider(d) \in Providers /\ call[d].want \in Nat
    BY <1>1, ProviderKnown DEF CallRec
  <2>3. call[d].want <= until[Provider(d)]
    BY <1>2, <2>1 DEF IInv, DelayIsKept, Throttled, Is
  <2>4. until'[Provider(d)] >= until[Provider(d)]
    BY <2>2, UntilGrows
  <2> QED BY <1>1, <2>1, <2>2, <2>3, <2>4
<1>3. Throttled(call'[c]) => call'[c].want <= until'[Provider(c)']
  <2> SUFFICES ASSUME Throttled(call'[c])
               PROVE  call'[c].want <= until'[Provider(c)']
    OBVIOUS
  <2>0. call'[c].pc = "asked" /\ call'[c].outcome = "limited"
    BY DEF Throttled
  <2>1. ASSUME NEW o, SettlesAs(c, o)
        PROVE  o = "limited" /\ call'[c].want = call[c].want /\ Provider(c)' = Provider(c)
    BY <1>1, <2>0, <2>1, SettledBrowser
  <2>2. CASE FetchWithSemaphore(c) \/ FetchWithRetry(c) \/ FetchOne(c) \/ TryEachProvider(c)
    <3>1. ~SettlesAs(c, "timeout")
      BY <2>1
    <3>2. CASE FetchWithSemaphore(c)
      BY <1>1, <2>0, <3>1, <3>2 DEF FetchWithSemaphore, CallRec
    <3>3. CASE FetchWithRetry(c) \/ FetchOne(c)
      <4>1. call'[c].pc \in {"idle", "slot"}
        <5>1. CASE FetchOne(c)
          BY <1>1, <5>1 DEF FetchOne, NoCall
        <5>2. CASE call' = [call EXCEPT ![c] = NoCall]
          BY <1>1, <5>2 DEF NoCall
        <5>3. CASE call' = [call EXCEPT ![c].pc = "slot", ![c].attempt = @ + 1, ![c].turn = 1, ![c].outcome = "ok"]
          BY <1>1, <5>3 DEF CallRec
        <5> QED BY <3>3, <5>1, <5>2, <5>3 DEF FetchWithRetry
      <4> QED BY <2>0, <4>1
    <3>4. CASE TryEachProvider(c)
      BY <1>1, <2>0, <3>4 DEF TryEachProvider, CallRec
    <3> QED BY <2>2, <3>2, <3>3, <3>4
  <2>3. CASE BeginFetch(c)
    <3>1. call[c].want = 0
      BY <1>1, <2>3 DEF BeginFetch, Is, Carried
    <3>2. SettlesAs(c, "limited")
      BY <1>1, <2>0, <2>3 DEF BeginFetch, CallRec
    <3> QED BY <1>1, <2>1, <3>1, <3>2
  <2>4. CASE Refused(c) \/ TryScraperAPIProfiles(c)
    <3>1. ~SettlesAs(c, "quota") /\ ~SettlesAs(c, "timeout") /\ ~SettlesAs(c, "failed")
      BY <2>1
    <3> QED BY <1>1, <2>0, <2>4, <3>1 DEF Refused, TryScraperAPIProfiles, Is, CallRec
  <2>5. CASE RateLimited(c)
    <3>1. call[c].want = 0
      BY <1>1, <2>5 DEF RateLimited, Is, Carried
    <3>2. SettlesAs(c, "limited")
      BY <1>1, <2>0, <2>5 DEF RateLimited, CallRec
    <3> QED BY <1>1, <2>1, <3>1, <3>2
  <2>6. CASE Answered(c)
    <3>1. ~SettlesAs(c, "ok")
      BY <2>1
    <3> QED BY <1>1, <2>0, <2>6, <3>1 DEF Answered, CallRec
  <2>7. CASE MarkLoad(c)
    <3>1. SettlesAs(c, "limited") /\ call[c].want <= until[Provider(c)] /\ until' = until
      BY <1>1, <2>0, <2>7 DEF MarkLoad, Loads, CallRec
    <3> QED BY <1>1, <2>1, <3>1
  <2>8. CASE MarkSwap(c)
    <3>1. SettlesAs(c, "limited") /\ until' = [until EXCEPT ![Provider(c)] = call[c].want]
      BY <1>1, <2>0, <2>8 DEF MarkSwap, Moves, CallRec
    <3> QED BY <1>1, <2>1, <3>1 DEF CallRec
  <2>9. CASE ClearLoad(c) \/ ClearSwap(c)
    BY <1>1, <2>0, <2>9 DEF ClearLoad, ClearSwap, Moves, Loads, CallRec
  <2>10. CASE RelaxLoad(c) \/ RelaxSwap(c)
    <3>1. \A o \in {"ok", "failed", "timeout"} : ~SettlesAs(c, o)
      BY <2>1
    <3> QED BY <1>1, <2>0, <2>10, <3>1 DEF RelaxLoad, RelaxSwap, Moves, Loads, CallRec
  <2> QED BY <2>2, <2>3, <2>4, <2>5, <2>6, <2>7, <2>8, <2>9, <2>10 DEF CallStep
<1> QED BY <1>2, <1>3 DEF DelayIsKept, Throttled, Is

\* A step counts at most one request, and takes none from an empty streak.
LEMMA StreakCall ==
    ASSUME IInv, NEW c \in Callers, CallStep(c)
    PROVE  streak' - streak \in {-1, 0, 1} /\ streak' >= 0
<1>1. streak \in Nat /\ call[c] \in CallRec /\ Carried(call[c])
  BY DEF IInv, TypesOK, Carries
<1>2. CASE streak' = streak
  BY <1>1, <1>2
<1>3. CASE RateLimited(c)
  BY <1>1, <1>3 DEF RateLimited
<1>4. CASE RelaxSwap(c)
  BY <1>1, <1>4 DEF RelaxSwap, Is, Carried, CallRec
<1> QED
  BY <1>2, <1>3, <1>4 DEF CallStep, FetchOne, FetchWithRetry, FetchWithSemaphore, TryEachProvider, BeginFetch,
     Refused, TryScraperAPIProfiles, Answered, MarkLoad, MarkSwap, ClearLoad, ClearSwap, RelaxLoad

\* Nothing happens, or time passes.
LEMMA Quiet ==
    ASSUME IInv, Passes \/ UNCHANGED fetchVars
    PROVE  IInv' /\ until' = until /\ streak' = streak
<1>1. UNCHANGED <<call, slots, until, streak>> /\ clock' \in Nat
  BY DEF Passes, fetchVars, IInv, TypesOK
<1>2. TypesOK'
  BY <1>1 DEF IInv, TypesOK
<1>3. \A c \in Callers : Provider(c)' = Provider(c)
  BY <1>1 DEF Provider, Turns
<1>4. SlotsReturn' /\ RefusedLeaves' /\ Carries' /\ DelayIsKept'
  BY <1>1, <1>3 DEF IInv, SlotsReturn, RefusedLeaves, Carries, DelayIsKept, Is
<1> QED BY <1>1, <1>2, <1>4 DEF IInv

LEMMA NextIInv == IInv /\ [FetchNext]_fetchVars => IInv'
<1> SUFFICES ASSUME IInv, [FetchNext]_fetchVars PROVE IInv'
  OBVIOUS
<1>1. ASSUME NEW c \in Callers, CallStep(c) PROVE IInv'
  BY <1>1, TypesCall, SlotsCall, RefusedCall, CarriesCall, DelayCall DEF IInv
<1>2. CASE Passes \/ UNCHANGED fetchVars
  BY <1>2, Quiet
<1> QED BY <1>1, <1>2 DEF FetchNext

\* A refused call is out of the fetch, so that it cannot be in a request.
LEMMA IInvSound == IInv => FetchesAreSound
BY DEF IInv, FetchesAreSound, RefusalIsFinal, RefusedLeaves, Is

\* For any callers, registry and limits: the slots are those of the running
\* requests, a refused call sends no more, and a call that was throttled returns
\* with its delay in force (withProvider, fetchWithRetry, markRateLimited).
THEOREM FetchesSound == FetchSpec => []FetchesAreSound
<1>1. FetchSpec => []IInv
  BY InitIInv, NextIInv, PTL DEF FetchSpec
<1> QED BY <1>1, IInvSound, PTL

\* For any callers, registry and limits: no deadline moves back and the streak
\* counts each request once (the compare-and-swap loops of the cooldowns).
THEOREM CooldownExact == FetchSpec => CooldownIsExact
<1>1. IInv /\ [FetchNext]_fetchVars => [\A p \in Providers : until'[p] >= until[p]]_fetchVars
  <2> SUFFICES ASSUME IInv, [FetchNext]_fetchVars, NEW p \in Providers
               PROVE  until'[p] >= until[p]
    OBVIOUS
  <2>1. CASE Passes \/ UNCHANGED fetchVars
    BY <2>1, Quiet DEF IInv, TypesOK
  <2> QED BY <2>1, UntilGrows DEF FetchNext
<1>2. IInv /\ [FetchNext]_fetchVars => [streak' - streak \in {-1, 0, 1} /\ streak' >= 0]_fetchVars
  <2> SUFFICES ASSUME IInv, [FetchNext]_fetchVars
               PROVE  streak' - streak \in {-1, 0, 1} /\ streak' >= 0
    OBVIOUS
  <2>1. CASE Passes \/ UNCHANGED fetchVars
    BY <2>1, Quiet DEF IInv, TypesOK
  <2> QED BY <2>1, StreakCall DEF FetchNext
<1> QED
  BY <1>1, <1>2, InitIInv, NextIInv, PTL DEF FetchSpec, CooldownIsExact, CooldownNeverFalls, StreakCountsEach

-----------------------------------------------------------------------------
(* A list of artists (FetchAll).  An index is open until its id is counted *)
(* or missed: not handed out, in a worker's hand, or to be retried.        *)

ListTypes ==
    /\ way \in {"pool", "batch"} /\ next \in 1..(Len(Ids) + 1) /\ again \subseteq Indices
    /\ hands \in [Hands -> Indices \cup {Free, Gone}]
    /\ results \subseteq Range(Ids) /\ missed \subseteq Range(Ids)
    /\ ended \in BOOLEAN /\ stage \in {"feed", "wait", "done"}

Held(i)    == \E w \in Hands : hands[w] = i
Open(i)    == next <= i \/ i \in again \/ Held(i)
Accounted(i) == Ids[i] \in results \/ Ids[i] \in missed

\* Whoever has an index has it alone.
OneHolder ==
    /\ \A i \in again : i < next
    /\ \A v, w \in Hands : hands[w] \in Indices => hands[w] < next /\ (hands[v] = hands[w] => v = w)
    /\ IF way = "batch" THEN \A w \in Hands : hands[w] = Free ELSE again = {}

\* Only a pool whose context has ended lets go of an index.
NoneForgotten == (way = "batch" \/ ~ended) => \A i \in Indices : Accounted(i) \/ Open(i)

OneAnswer == IsInjective(Ids) =>
    /\ results \cap missed = {}
    /\ \A i \in Indices : Open(i) => ~Accounted(i)

StagesEnd ==
    /\ stage = "wait" => way = "pool"
    /\ stage = "done" => again = {} /\ \A w \in Hands : hands[w] \in {Free, Gone}
    /\ (stage # "feed" /\ (way = "batch" \/ ~ended)) => next = Len(Ids) + 1
    /\ ~ended => \A w \in Hands : hands[w] # Gone

ListInv == ListTypes /\ OneHolder /\ NoneForgotten /\ OneAnswer /\ StagesEnd

LEMMA ListKnown ==
    /\ Len(Ids) \in Nat /\ Indices = DOMAIN Ids /\ Indices = 1..Len(Ids)
    /\ \A i \in Indices : i \in Nat /\ i > 0 /\ i # Free /\ i # Gone /\ Ids[i] \in Range(Ids)
    /\ \A id \in Range(Ids) : \E i \in Indices : id = Ids[i]
    /\ PoolSize \in Nat \ {0} /\ BatchSize \in Nat \ {0}
    /\ IsInjective(Ids) => \A i, j \in Indices : Ids[i] = Ids[j] => i = j
<1>1. Len(Ids) \in Nat /\ Indices = DOMAIN Ids /\ Indices = 1..Len(Ids)
  BY FetchAllList DEF Indices
<1>2. \A id \in Range(Ids) : \E i \in Indices : id = Ids[i]
  BY <1>1 DEF Range
<1>3. \A i \in Indices : Ids[i] \in Range(Ids)
  BY <1>1 DEF Range
<1>4. IsInjective(Ids) => \A i, j \in Indices : Ids[i] = Ids[j] => i = j
  BY <1>1 DEF IsInjective
<1> QED BY <1>1, <1>2, <1>3, <1>4, FetchAllSizes DEF Free, Gone

\* The retry at hand is one of those that wait.
LEMMA FirstAgainWaits == ASSUME ListInv, again # {} PROVE FirstAgain \in again
<1>1. again \subseteq Nat
  BY ListKnown DEF ListInv, ListTypes
<1>2. PICK i \in again : \A j \in again : <<j, i>> \notin OpToRel(<, Nat)
  BY <1>1, WFMin, NatLessThanWellFounded, Zenon
<1>3. \A j \in again : ~(j < i)
  BY <1>1, <1>2 DEF OpToRel
<1>4. \A j \in again : i <= j
  BY <1>1, <1>3
<1> QED BY <1>4 DEF FirstAgain

LEMMA InitListInv == ASSUME AllInit PROVE ListInv
<1>1. ListTypes
  <2>1. hands \in [Hands -> Indices \cup {Free, Gone}]
    BY DEF AllInit
  <2>2. next \in 1..(Len(Ids) + 1)
    BY ListKnown DEF AllInit
  <2> QED BY <2>1, <2>2 DEF AllInit, ListTypes
<1>2. \A w \in Hands : hands[w] = Free
  BY DEF AllInit
<1>3. OneHolder /\ OneAnswer /\ StagesEnd
  BY <1>2, ListKnown DEF AllInit, OneHolder, OneAnswer, StagesEnd, Accounted, Free, Gone
<1>4. NoneForgotten
  BY ListKnown DEF AllInit, NoneForgotten, Open
<1> QED BY <1>1, <1>3, <1>4 DEF ListInv

\* A worker is handed the next index.
LEMMA FeedInv == ASSUME ListInv, NEW u \in Hands, Feed(u) PROVE ListInv'
<1>1. /\ way = "pool" /\ stage = "feed" /\ next <= Len(Ids) /\ hands[u] = Free
      /\ hands' = [hands EXCEPT ![u] = next] /\ next' = next + 1
      /\ UNCHANGED <<way, again, results, missed, ended, stage>>
      /\ ListTypes /\ OneHolder /\ NoneForgotten /\ OneAnswer /\ StagesEnd
  BY DEF Feed, ListInv
<1>2. next \in Indices /\ next \in Nat /\ again = {}
  BY <1>1, ListKnown DEF ListTypes, OneHolder
<1>3. \A w \in Hands : hands'[w] = IF w = u THEN next ELSE hands[w]
  BY <1>1 DEF ListTypes
<1>4. ListTypes'
  BY <1>1, <1>2, ListKnown DEF ListTypes
<1>5. OneHolder'
  BY <1>1, <1>2, <1>3, ListKnown DEF OneHolder
<1>6. \A i \in Indices : Open(i)' <=> Open(i)
  <2> TAKE i \in Indices
  <2>1. i \in Nat /\ i # Free
    BY ListKnown
  <2>2. next <= i <=> (i = next \/ next + 1 <= i)
    BY <1>2, <2>1
  <2>3. Held(i)' <=> (Held(i) \/ i = next)
    BY <1>1, <1>3, <2>1 DEF Held
  <2> QED BY <1>1, <2>2, <2>3 DEF Open
<1>7. NoneForgotten' /\ OneAnswer'
  BY <1>1, <1>6 DEF NoneForgotten, OneAnswer, Accounted
<1>8. StagesEnd'
  BY <1>1, <1>2, <1>3, ListKnown DEF StagesEnd
<1> QED BY <1>4, <1>5, <1>7, <1>8 DEF ListInv

\* A worker is done with its index, or lets go of it when the context has ended.
LEMMA WorkOnInv == ASSUME ListInv, NEW u \in Hands, WorkOn(u) PROVE ListInv'
<1> DEFINE at == hands[u]
<1>1. /\ way = "pool" /\ at \in Indices
      /\ UNCHANGED <<way, next, again, ended, stage>>
      /\ ListTypes /\ OneHolder /\ NoneForgotten /\ OneAnswer /\ StagesEnd
  BY DEF WorkOn, ListInv
<1>2. PICK to \in {Free, Gone} : hands' = [hands EXCEPT ![u] = to] /\ (to = Gone => ended)
  BY DEF WorkOn, Free, Gone
<1>3. \/ ended /\ UNCHANGED <<results, missed>>
      \/ results' = results \cup {Ids[at]} /\ UNCHANGED missed
      \/ missed' = missed \cup {Ids[at]} /\ UNCHANGED results
  BY DEF WorkOn, FetchedOne
<1>4. Ids[at] \in Range(Ids) /\ to \notin Indices /\ again = {} /\ stage # "done" /\ Open(at)
  <2>1. stage # "done"
    BY <1>1, ListKnown DEF StagesEnd
  <2> QED BY <1>1, <1>2, <2>1, ListKnown DEF OneHolder, Open, Held
<1>5. \A w \in Hands : hands'[w] = IF w = u THEN to ELSE hands[w]
  BY <1>1, <1>2 DEF ListTypes
<1>6. ListTypes'
  BY <1>1, <1>2, <1>3, <1>4 DEF ListTypes
<1>7. OneHolder'
  BY <1>1, <1>4, <1>5 DEF OneHolder
<1>8. \A i \in Indices : Open(i)' => Open(i) /\ i # at
  <2> SUFFICES ASSUME NEW i \in Indices, Open(i)'
               PROVE  Open(i) /\ i # at
    OBVIOUS
  <2>1. CASE next <= i
    <3>1. at < next /\ at \in Nat /\ i \in Nat /\ next \in Nat
      BY <1>1, ListKnown DEF OneHolder, ListTypes
    <3> QED BY <2>1, <3>1 DEF Open
  <2>2. CASE Held(i)'
    <3>1. PICK w \in Hands : hands'[w] = i
      BY <2>2 DEF Held
    <3>2. w # u /\ hands[w] = i
      BY <1>4, <1>5, <3>1
    <3> QED BY <1>1, <3>2 DEF Open, Held, OneHolder
  <2> QED BY <1>1, <1>4, <2>1, <2>2 DEF Open
<1>9. \A i \in Indices : Open(i) => Open(i)' \/ i = at
  BY <1>1, <1>5 DEF Open, Held
<1>10. NoneForgotten'
  BY <1>1, <1>3, <1>9 DEF NoneForgotten, Accounted
<1>11. OneAnswer'
  <2> SUFFICES ASSUME IsInjective(Ids)
               PROVE  /\ results' \cap missed' = {}
                      /\ \A i \in Indices : Open(i)' => ~Accounted(i)'
    BY DEF OneAnswer
  <2>1. results \cap missed = {} /\ Ids[at] \notin results /\ Ids[at] \notin missed
    BY <1>1, <1>4 DEF OneAnswer, Accounted
  <2>2. \A i \in Indices : Open(i)' => Ids[i] # Ids[at] /\ ~Accounted(i)
    BY <1>1, <1>8, ListKnown DEF OneAnswer
  <2> QED BY <1>3, <2>1, <2>2 DEF Accounted
<1>12. StagesEnd'
  BY <1>1, <1>2, <1>4, <1>5 DEF StagesEnd, Free, Gone
<1> QED BY <1>6, <1>7, <1>10, <1>11, <1>12 DEF ListInv

\* The list is closed, the workers have left, or the context ends.
LEMMA PoolEndsInv == ASSUME ListInv, CloseJobs \/ PoolDone \/ ContextDone PROVE ListInv'
<1>1. /\ UNCHANGED <<way, next, hands, again, results, missed>>
      /\ stage' \in {"feed", "wait", "done"} /\ ended' \in BOOLEAN /\ (ended => ended')
      /\ ListTypes /\ OneHolder /\ NoneForgotten /\ OneAnswer /\ StagesEnd
  BY DEF CloseJobs, PoolDone, ContextDone, ListInv, ListTypes
<1>2. ListTypes'
  BY <1>1 DEF ListTypes
<1>3. OneHolder'
  BY <1>1 DEF OneHolder
<1>4. NoneForgotten'
  BY <1>1 DEF NoneForgotten, Open, Held, Accounted
<1>5. OneAnswer'
  BY <1>1 DEF OneAnswer, Open, Held, Accounted
<1>6. StagesEnd'
  <2>1. CASE CloseJobs
    BY <1>1, <2>1, ListKnown DEF CloseJobs, StagesEnd, ListTypes
  <2>2. CASE PoolDone
    BY <1>1, <2>2 DEF PoolDone, StagesEnd, OneHolder
  <2>3. CASE ContextDone
    BY <1>1, <2>3 DEF ContextDone, StagesEnd
  <2> QED BY <2>1, <2>2, <2>3
<1> QED BY <1>2, <1>3, <1>4, <1>5, <1>6 DEF ListInv

\* The loop over the batches ends: what is left is missed.
LEMMA FetchAllBatchInv == ASSUME ListInv, FetchAllBatch PROVE ListInv'
<1>1. /\ way = "batch" /\ again = {} /\ next' = Len(Ids) + 1 /\ stage' = "done"
      /\ missed' = missed \cup IdsAt(Left) /\ UNCHANGED <<way, hands, again, results, ended>>
      /\ ListTypes /\ OneHolder /\ NoneForgotten /\ OneAnswer /\ StagesEnd
  BY DEF FetchAllBatch, ListInv
<1>2. Left \subseteq Indices /\ \A i \in Indices : next <= i <=> i \in Left
  BY <1>1, ListKnown DEF Left, ListTypes
<1>3. \A w \in Hands : hands[w] = Free /\ hands'[w] = Free
  BY <1>1 DEF OneHolder
<1>4. \A i \in Indices : ~Held(i) /\ ~Open(i)' /\ (Open(i) <=> i \in Left)
  BY <1>1, <1>2, <1>3, ListKnown DEF Open, Held
<1>5. \A i \in Left : Ids[i] \in missed'
  BY <1>1 DEF IdsAt
<1>6. \A id \in missed' : id \in missed \/ \E i \in Left : id = Ids[i]
  BY <1>1 DEF IdsAt
<1>7. ListTypes'
  BY <1>1, <1>2, <1>6, ListKnown DEF ListTypes
<1>8. OneHolder'
  BY <1>1, <1>3, ListKnown DEF OneHolder
<1>9. NoneForgotten'
  BY <1>1, <1>4, <1>5 DEF NoneForgotten, Accounted
<1>10. OneAnswer'
  <2>1. IsInjective(Ids) => \A i \in Left : Ids[i] \notin results
    BY <1>1, <1>2, <1>4 DEF OneAnswer, Accounted
  <2> QED BY <1>1, <1>4, <1>6, <2>1 DEF OneAnswer
<1>11. StagesEnd'
  BY <1>1, <1>3 DEF StagesEnd, Free, Gone
<1> QED BY <1>7, <1>8, <1>9, <1>10, <1>11 DEF ListInv

\* A batch answers for some of its ids; the others are to be retried.
LEMMA ProcessBatchInv == ASSUME ListInv, ProcessBatch PROVE ListInv'
<1> DEFINE batch == {i \in Left : i < next + BatchSize}
<1>1. /\ way = "batch" /\ stage = "feed" /\ again = {} /\ Left # {}
      /\ UNCHANGED <<way, hands, missed, ended, stage>>
      /\ ListTypes /\ OneHolder /\ NoneForgotten /\ OneAnswer /\ StagesEnd
  BY DEF ProcessBatch, ListInv
<1>2. PICK answered \in SUBSET IdsAt(batch) :
         /\ results' = results \cup answered
         /\ again' = {i \in batch : Ids[i] \notin answered}
         /\ next' = IF next + BatchSize <= Len(Ids) THEN next + BatchSize ELSE Len(Ids) + 1
  BY DEF ProcessBatch, FetchApifyBatch
<1>3. /\ next \in Nat /\ next > 0 /\ next' \in 1..(Len(Ids) + 1)
      /\ batch \subseteq Indices
      /\ \A i \in Indices : (next <= i <=> i \in batch \/ next' <= i) /\ (i \in batch => i < next')
  BY <1>1, <1>2, ListKnown DEF Left, ListTypes
<1>4. \A w \in Hands : hands[w] = Free /\ hands'[w] = Free
  BY <1>1 DEF OneHolder
<1>5. \A i \in Indices : ~Held(i) /\ ~Held(i)'
  BY <1>4, ListKnown DEF Held
<1> HIDE DEF batch
<1>6. \A i \in Indices : (Open(i)' <=> next' <= i \/ i \in again') /\ (Open(i) <=> i \in batch \/ next' <= i)
  BY <1>1, <1>3, <1>5 DEF Open
<1>7. \A id \in answered : \E i \in batch : id = Ids[i]
  BY <1>2 DEF IdsAt
<1>8. ListTypes'
  BY <1>1, <1>2, <1>3, <1>7, ListKnown DEF ListTypes
<1>9. OneHolder'
  BY <1>1, <1>2, <1>3, <1>4, ListKnown DEF OneHolder
<1>10. NoneForgotten'
  BY <1>1, <1>2, <1>6 DEF NoneForgotten, Accounted
<1>11. OneAnswer'
  <2> SUFFICES ASSUME IsInjective(Ids)
               PROVE  /\ results' \cap missed' = {}
                      /\ \A i \in Indices : Open(i)' => ~Accounted(i)'
    BY DEF OneAnswer
  <2>1. results \cap missed = {} /\ \A i \in batch : Ids[i] \notin results /\ Ids[i] \notin missed
    BY <1>1, <1>3, <1>6 DEF OneAnswer, Accounted
  <2>2. results' \cap missed' = {}
    BY <1>1, <1>2, <1>7, <2>1
  <2>3. ASSUME NEW i \in Indices, Open(i)'
        PROVE  ~Accounted(i)'
    <3>1. Open(i) /\ ~Accounted(i)
      BY <1>1, <1>2, <1>6, <2>3 DEF OneAnswer
    <3>2. Ids[i] \notin answered
      <4>1. CASE next' <= i
        <5>1. i \notin batch
          BY <1>3, <4>1, ListKnown
        <5> QED BY <1>3, <1>7, <5>1, ListKnown
      <4>2. CASE i \in again'
        BY <1>2, <4>2
      <4> QED BY <1>6, <2>3, <4>1, <4>2
    <3> QED BY <1>1, <1>2, <3>1, <3>2 DEF Accounted
  <2> QED BY <2>2, <2>3
<1>12. StagesEnd'
  BY <1>1, <1>4 DEF StagesEnd, Free, Gone
<1> QED BY <1>8, <1>9, <1>10, <1>11, <1>12 DEF ListInv

\* One retry, or, when the context has ended, all of them missed.
LEMMA RetryInv == ASSUME ListInv, RetryBatchMissed PROVE ListInv'
<1>1. /\ way = "batch" /\ again # {} /\ UNCHANGED <<way, next, hands, ended, stage>>
      /\ ListTypes /\ OneHolder /\ NoneForgotten /\ OneAnswer /\ StagesEnd
  BY DEF RetryBatchMissed, ListInv
<1>2. \A w \in Hands : hands[w] = Free /\ hands'[w] = Free
  BY <1>1 DEF OneHolder
<1>3. \A i \in Indices : ~Held(i) /\ ~Held(i)'
  BY <1>2, ListKnown DEF Held
<1>4. PICK tried \in SUBSET again :
        /\ again' = again \ tried /\ tried # {}
        /\ \/ missed' = missed \cup IdsAt(tried) /\ results' = results
           \/ results' = results \cup IdsAt(tried) /\ missed' = missed
  <2>1. CASE ended
    BY <1>1, <2>1 DEF RetryBatchMissed
  <2>2. CASE ~ended
    <3>1. FirstAgain \in again
      BY <1>1, FirstAgainWaits
    <3>2. IdsAt({FirstAgain}) = {Ids[FirstAgain]}
      BY DEF IdsAt
    <3>3. again' = again \ {FirstAgain} /\ FetchedOne(Ids[FirstAgain])
      BY <2>2 DEF RetryBatchMissed
    <3> QED BY <3>1, <3>2, <3>3 DEF FetchedOne
  <2> QED BY <2>1, <2>2
<1>5. /\ \A i \in tried : i \in Indices /\ Ids[i] \in IdsAt(tried) /\ i < next /\ Open(i)
      /\ \A id \in IdsAt(tried) : \E i \in tried : id = Ids[i]
  BY <1>1, <1>4 DEF IdsAt, ListTypes, OneHolder, Open
<1>6. /\ \A i \in Indices : Open(i) => Open(i)' \/ i \in tried
      /\ \A i \in Indices : Open(i)' => Open(i) /\ i \notin tried
  BY <1>1, <1>3, <1>4, <1>5, ListKnown DEF Open, ListTypes
<1>7. ListTypes'
  BY <1>1, <1>4, <1>5, ListKnown DEF ListTypes
<1>8. OneHolder'
  BY <1>1, <1>2, <1>4, ListKnown DEF OneHolder
<1>9. NoneForgotten'
  BY <1>1, <1>4, <1>5, <1>6 DEF NoneForgotten, Accounted
<1>10. OneAnswer'
  <2> SUFFICES ASSUME IsInjective(Ids)
               PROVE  /\ results' \cap missed' = {}
                      /\ \A i \in Indices : Open(i)' => ~Accounted(i)'
    BY DEF OneAnswer
  <2>1. results \cap missed = {} /\ \A i \in tried : Ids[i] \notin results /\ Ids[i] \notin missed
    BY <1>1, <1>5 DEF OneAnswer, Accounted
  <2>2. results' \cap missed' = {}
    BY <1>4, <1>5, <2>1
  <2>3. \A i \in Indices : Open(i)' => ~Accounted(i) /\ Ids[i] \notin IdsAt(tried)
    BY <1>1, <1>5, <1>6, ListKnown DEF OneAnswer
  <2> QED BY <1>4, <2>2, <2>3 DEF Accounted
<1>11. StagesEnd'
  BY <1>1, <1>2, <1>4 DEF StagesEnd, Free, Gone
<1> QED BY <1>7, <1>8, <1>9, <1>10, <1>11 DEF ListInv

LEMMA NextListInv == ListInv /\ [AllNext]_allVars => ListInv'
<1> SUFFICES ASSUME ListInv, [AllNext]_allVars PROVE ListInv'
  OBVIOUS
<1>1. CASE UNCHANGED allVars
  BY <1>1 DEF allVars, ListInv, ListTypes, OneHolder, NoneForgotten, OneAnswer, StagesEnd, Open, Held, Accounted
<1> QED BY <1>1, FeedInv, WorkOnInv, PoolEndsInv, FetchAllBatchInv, ProcessBatchInv, RetryInv DEF AllNext

LEMMA ListInvReturns == ListInv => EveryIdIsReturned
<1> SUFFICES ASSUME ListInv, stage = "done"
             PROVE  /\ IsInjective(Ids) => results \cap missed = {}
                    /\ way = "batch" \/ ~ended => results \cup missed = Range(Ids)
  BY DEF EveryIdIsReturned
<1>1. ASSUME way = "batch" \/ ~ended, NEW i \in Indices
      PROVE  Accounted(i)
  <2>1. next = Len(Ids) + 1 /\ again = {} /\ \A w \in Hands : hands[w] \in {Free, Gone}
    BY <1>1 DEF ListInv, StagesEnd
  <2>2. ~Open(i)
    BY <2>1, ListKnown DEF Open, Held
  <2> QED BY <1>1, <2>2 DEF ListInv, NoneForgotten
<1>2. way = "batch" \/ ~ended => Range(Ids) \subseteq results \cup missed
  BY <1>1, ListKnown DEF Accounted
<1> QED BY <1>2 DEF ListInv, ListTypes, OneAnswer

\* For any list, pool and batch size: no id is both counted and missed if it is
\* listed once, and none is forgotten but by a pool whose context has ended
\* (FetchAll, fetchAllBatch, processBatch, retryBatchMissed).
THEOREM ListReturned == AllSpec => []EveryIdIsReturned
<1>1. AllInit => ListInv
  BY InitListInv
<1>2. AllSpec => []ListInv
  BY <1>1, NextListInv, PTL DEF AllSpec
<1> QED BY <1>2, ListInvReturns, PTL
-----------------------------------------------------------------------------
(* The shared browser: BrowsersAreAccounted for any callers, launches,     *)
(* deaths and graces.  Who holds which browser is kept in three places:    *)
(* the fields local and localInit, which the callers share, and each       *)
(* caller's own variable.  The invariant says how they go together: one    *)
(* caller at most holds the launch under way, nobody else knows a          *)
(* dedicated browser, and what is shared has neither been closed nor been  *)
(* given to a reaper.                                                      *)

Launches == 0..MaxLaunches
FetchPcs == {"idle", "look", "ping", "confirm", "drop", "wait", "waiting", "launch", "peer", "launching",
        "share", "failed", "got", "page", "recycle", "recycled", "dedicated", "own"}
Launchers  == {"launching", "share", "failed"}
FetchRec   == [pc : FetchPcs, lb : Launches, again : BOOLEAN]
BrowserRec == [born : BOOLEAN, alive : BOOLEAN, retired : BOOLEAN, closed : BOOLEAN,
               activePages : SUBSET Fetches, reaped : BOOLEAN]

Types ==
    /\ local \in Launches /\ localInit \in Launches /\ launches \in Launches /\ graces \in Nat
    /\ browser \in [Browsers -> BrowserRec] /\ fetch \in [Fetches -> FetchRec]

\* A launch that is still to come is known to nobody.
Numbered == /\ local <= launches /\ localInit <= launches
            /\ \A c \in Fetches : fetch[c].lb <= launches

\* One caller holds the launch under way, which comes only when nothing is shared.
LaunchIsHeld ==
    /\ localInit # 0 => local = 0
    /\ \A c \in Fetches : fetch[c].pc \in Launchers => localInit # 0 /\ fetch[c].lb = localInit
    /\ \A c, d \in Fetches : fetch[c].pc \in Launchers /\ fetch[d].pc \in Launchers => c = d

Serving(b)   == browser[b].born /\ ~browser[b].closed /\ ~browser[b].reaped
SharedIsOpen == /\ local # 0 => Serving(local)
                /\ \A c \in Fetches : fetch[c].pc = "share" => Serving(fetch[c].lb)

\* A dedicated browser has one holder and no page of the shared kind.
OwnIsAlone ==
    \A c \in Fetches : fetch[c].pc = "own" =>
        /\ fetch[c].lb \notin {0, local, localInit} /\ browser[fetch[c].lb].activePages = {}
        /\ \A d \in Fetches : d # c => fetch[d].lb # fetch[c].lb

Holding    == Types /\ Numbered /\ LaunchIsHeld /\ SharedIsOpen /\ OwnIsAlone /\ EveryBrowserIsOwned
BrowserInv == Holding /\ PagesOutliveOnlyTheGrace
-----------------------------------------------------------------------------
(* Callers that only look.                                                 *)

\* A caller that neither launches nor owns a browser comes to know another one
\* of the shared ones, or gives up.
Wanders(c, new) ==
    /\ new \in FetchRec /\ new.lb \in {0, fetch[c].lb, local, localInit}
    /\ fetch' = [fetch EXCEPT ![c] = new]
    /\ fetch[c].pc \notin {"share", "own", "failed"} /\ new.pc \notin {"launching", "share", "own"}
    /\ new.pc = "failed" => fetch[c].pc = "launching" /\ new.lb = fetch[c].lb

LEMMA Wandered ==
    ASSUME Holding, UNCHANGED <<local, localInit, launches, browser, graces>>,
           NEW c \in Fetches, NEW new, Wanders(c, new)
    PROVE  Holding'
<1>1. fetch' \in [Fetches -> FetchRec] /\ \A d \in Fetches : fetch'[d] = IF d = c THEN new ELSE fetch[d]
  BY DEF Wanders, Holding, Types
<1>2. Types'
  BY <1>1 DEF Holding, Types
<1>3. Numbered'
  BY <1>1 DEF Holding, Types, Numbered, Wanders, FetchRec, Launches
<1>4. LaunchIsHeld'
  BY <1>1 DEF Holding, LaunchIsHeld, Wanders, Launchers
<1>5. SharedIsOpen'
  BY <1>1 DEF Holding, SharedIsOpen, Serving, Wanders
<1>6. OwnIsAlone'
  BY <1>1 DEF Holding, OwnIsAlone, Wanders
<1>7. EveryBrowserIsOwned'
  BY <1>1 DEF Holding, EveryBrowserIsOwned, Wanders
<1> QED BY <1>2, <1>3, <1>4, <1>5, <1>6, <1>7 DEF Holding

LEMMA Bounded == MaxLaunches \in Nat /\ MaxGraces \in Nat /\ 0 \in Launches
BY BrowserBounds DEF Launches

LEMMA NotZero == \A b \in Browsers : b # 0
BY Bounded DEF Browsers

LEMMA IdleIs == Idle \in FetchRec /\ Idle.pc = "idle" /\ Idle.lb = 0 /\ [Idle EXCEPT !.pc = "look", !.again = TRUE] \in FetchRec
BY Bounded DEF Idle, FetchRec, FetchPcs

LEMMA Goings ==
    ASSUME Types, NEW c \in Fetches, NEW pc \in FetchPcs \ {"launching", "share", "own"},
           fetch[c].pc \notin {"share", "own", "failed"}, pc = "failed" => fetch[c].pc = "launching"
    PROVE  /\ Goes(c, pc) => \E new : Wanders(c, new)
           /\ pc # "failed" => \A b \in {local, localInit} : Holds(c, pc, b) => \E new : Wanders(c, new)
<1>1. fetch[c] \in FetchRec
  BY DEF Types
<1>2. ASSUME Goes(c, pc) PROVE \E new : Wanders(c, new)
  <2> DEFINE new == [fetch[c] EXCEPT !.pc = pc]
  <2>1. new \in FetchRec /\ new.lb = fetch[c].lb /\ new.pc = pc
    BY <1>1 DEF FetchRec
  <2>2. fetch' = [fetch EXCEPT ![c] = new]
    BY <1>2 DEF Goes
  <2>3. Wanders(c, new)
    BY <2>1, <2>2 DEF Wanders
  <2> QED BY <2>3
<1>3. ASSUME NEW b \in {local, localInit}, Holds(c, pc, b), pc # "failed" PROVE \E new : Wanders(c, new)
  <2> DEFINE new == [fetch[c] EXCEPT !.pc = pc, !.lb = b]
  <2>1. new \in FetchRec /\ new.lb = b /\ new.pc = pc
    BY <1>1 DEF FetchRec, Types
  <2>2. fetch' = [fetch EXCEPT ![c] = new]
    BY <1>1, <1>3 DEF Holds, Types, FetchRec
  <2>3. Wanders(c, new)
    BY <1>3, <2>1, <2>2 DEF Wanders
  <2> QED BY <2>3
<1> QED BY <1>2, <1>3

LEMMA Endings ==
    ASSUME Types, NEW c \in Fetches, fetch[c].pc \notin {"share", "own", "failed"}
    PROVE  Ends(c) => \E new : Wanders(c, new)
<1>1. Ends(c) => Wanders(c, Idle)
  BY IdleIs DEF Ends, Wanders
<1> QED BY <1>1

\* The steps that leave the shared fields and the browsers alone.
Looks(c) == \/ FetchViaLocalHeadless(c) \/ Look(c) \/ Ping(c) \/ Confirm(c) \/ WaitForInit(c)
            \/ Waited(c) \/ Peered(c)

LEMMA LooksWander ==
    ASSUME Types, NEW c \in Fetches, Looks(c) PROVE \E new : Wanders(c, new)
<1>1. CASE FetchViaLocalHeadless(c)
  BY <1>1, Goings DEF FetchViaLocalHeadless, In, FetchPcs
<1>2. CASE Look(c)
  BY <1>2, Goings DEF Look, In, FetchPcs
<1>3. CASE Ping(c)
  BY <1>3, Goings DEF Ping, In, FetchPcs
<1>4. CASE Confirm(c)
  BY <1>4, Goings DEF Confirm, In, FetchPcs
<1>5. CASE WaitForInit(c)
  BY <1>5, Goings DEF WaitForInit, In, FetchPcs
<1>6. CASE Waited(c)
  BY <1>6, Goings, Endings DEF Waited, In, FetchPcs
<1>7. CASE Peered(c)
  BY <1>7, Goings, Endings DEF Peered, In, FetchPcs
<1> QED BY <1>1, <1>2, <1>3, <1>4, <1>5, <1>6, <1>7 DEF Looks

LEMMA Looked ==
    ASSUME Holding, NEW c \in Fetches, Looks(c) PROVE Holding'
<1>1. \E new : Wanders(c, new)
  BY LooksWander DEF Holding
<1>2. UNCHANGED <<local, localInit, launches, browser, graces>>
  BY DEF Looks, FetchViaLocalHeadless, Look, Ping, Confirm, WaitForInit, Waited, Peered
<1> QED BY <1>1, <1>2, Wandered
-----------------------------------------------------------------------------
(* Launches.                                                               *)

LEMMA BornIs ==
    /\ Born \in BrowserRec /\ Unborn \in BrowserRec /\ Born.born /\ ~Born.closed /\ ~Born.reaped
    /\ Born.activePages = {} /\ ~Unborn.born /\ ~Unborn.closed /\ Unborn.activePages = {}
BY DEF Born, Unborn, BrowserRec

\* The browser that the next launch is given to nobody knows yet.
LEMMA NextLaunch ==
    ASSUME Holding, launches < MaxLaunches, launches' = launches + 1
    PROVE  /\ launches' \in Browsers /\ launches' \in Launches /\ launches' # 0 /\ launches < launches'
           /\ launches' \notin {local, localInit} /\ \A d \in Fetches : fetch[d].lb # launches'
<1>1. launches \in Nat /\ local \in Nat /\ localInit \in Nat /\ \A d \in Fetches : fetch[d].lb \in Nat
  BY Bounded DEF Holding, Types, Launches, FetchRec
<1> QED BY <1>1, Bounded DEF Holding, Numbered, Browsers, Launches

\* launchNewBrowser: a launch of its own.
LEMMA LaunchBegun ==
    ASSUME Holding, NEW c \in Fetches, fetch[c].pc = "launch", local = 0, localInit = 0,
           launches < MaxLaunches, launches' = launches + 1, localInit' = launches',
           Holds(c, "launching", launches'), UNCHANGED <<local, browser, graces>>
    PROVE  Holding'
<1>1. /\ launches' \in Browsers /\ launches' \in Launches /\ launches' # 0 /\ launches < launches'
      /\ \A d \in Fetches : fetch[d].lb # launches'
  BY NextLaunch
<1>2. PICK new \in FetchRec : /\ new.pc = "launching" /\ new.lb = launches'
                              /\ fetch' = [fetch EXCEPT ![c] = new]
  <2>1. fetch[c] \in FetchRec /\ "launching" \in FetchPcs
    BY DEF Holding, Types, FetchPcs
  <2> DEFINE new == [fetch[c] EXCEPT !.pc = "launching", !.lb = launches']
  <2>2. new \in FetchRec /\ new.pc = "launching" /\ new.lb = launches'
    BY <1>1, <2>1 DEF FetchRec
  <2>3. fetch' = [fetch EXCEPT ![c] = new]
    BY <2>1 DEF Holds, Holding, Types, FetchRec
  <2> QED BY <2>2, <2>3
<1>3. \A d \in Fetches : fetch'[d] = IF d = c THEN new ELSE fetch[d]
  BY <1>2 DEF Holding, Types
<1>4. Types'
  BY <1>1, <1>2 DEF Holding, Types
<1>5. Numbered'
  <2>1. launches \in Nat /\ launches' \in Nat /\ local \in Nat
    BY <1>1, Bounded DEF Holding, Types, Launches
  <2>2. \A d \in Fetches : fetch[d].lb \in Nat /\ fetch[d].lb <= launches
    BY Bounded DEF Holding, Types, Launches, FetchRec, Numbered
  <2> QED BY <1>1, <1>2, <1>3, <2>1, <2>2 DEF Holding, Numbered
<1>6. LaunchIsHeld'
  <2>1. \A d \in Fetches : fetch[d].pc \notin Launchers
    BY DEF Holding, LaunchIsHeld
  <2> QED BY <1>1, <1>2, <1>3, <2>1 DEF LaunchIsHeld
<1>7. SharedIsOpen'
  BY <1>2, <1>3 DEF Holding, SharedIsOpen, Serving
<1>8. OwnIsAlone'
  BY <1>1, <1>2, <1>3 DEF Holding, OwnIsAlone
<1>9. EveryBrowserIsOwned'
  BY <1>2, <1>3 DEF Holding, EveryBrowserIsOwned
<1> QED BY <1>4, <1>5, <1>6, <1>7, <1>8, <1>9 DEF Holding

LEMMA LaunchesNew ==
    ASSUME Holding, NEW c \in Fetches, LaunchNewBrowser(c) PROVE Holding'
<1>1. Types /\ fetch[c].pc = "launch" /\ UNCHANGED <<local, browser, graces>>
  BY DEF Holding, LaunchNewBrowser, In
<1>2. CASE local # 0 /\ Holds(c, "got", local) /\ UNCHANGED <<localInit, launches>>
  <2>1. \E new : Wanders(c, new)
    BY <1>1, <1>2, Goings DEF FetchPcs
  <2> QED BY <1>1, <1>2, <2>1, Wandered
<1>3. CASE local = 0 /\ localInit # 0 /\ Holds(c, "peer", localInit) /\ UNCHANGED <<localInit, launches>>
  <2>1. \E new : Wanders(c, new)
    BY <1>1, <1>3, Goings DEF FetchPcs
  <2> QED BY <1>1, <1>3, <2>1, Wandered
<1>4. CASE /\ local = 0 /\ localInit = 0 /\ launches < MaxLaunches
           /\ launches' = launches + 1 /\ localInit' = launches' /\ Holds(c, "launching", launches')
  BY <1>1, <1>4, LaunchBegun
<1> QED BY <1>2, <1>3, <1>4 DEF LaunchNewBrowser

\* A caller that changes its place and keeps its browser.
LEMMA Went ==
    ASSUME Types, NEW c \in Fetches, NEW pc \in FetchPcs, Goes(c, pc)
    PROVE  /\ fetch' \in [Fetches -> FetchRec] /\ fetch'[c].pc = pc
           /\ \A d \in Fetches : fetch'[d].lb = fetch[d].lb /\ (d # c => fetch'[d] = fetch[d])
<1>1. fetch[c] \in FetchRec
  BY DEF Types
<1>2. [fetch[c] EXCEPT !.pc = pc] \in FetchRec /\ [fetch[c] EXCEPT !.pc = pc].lb = fetch[c].lb
      /\ [fetch[c] EXCEPT !.pc = pc].pc = pc
  BY <1>1 DEF FetchRec
<1>3. fetch' = [fetch EXCEPT ![c] = [fetch[c] EXCEPT !.pc = pc]]
  BY DEF Goes
<1> QED BY <1>1, <1>2, <1>3 DEF Types

LEMMA HasLaunched ==
    ASSUME Holding, NEW c \in Fetches, Launched(c) PROVE Holding'
<1>1. Types /\ fetch[c].pc = "launching" /\ UNCHANGED <<local, localInit, launches, graces>>
  BY DEF Holding, Launched, In
<1>2. CASE Goes(c, "failed") /\ UNCHANGED browser
  <2>1. \E new : Wanders(c, new)
    BY <1>1, <1>2, Goings DEF FetchPcs
  <2> QED BY <1>1, <1>2, <2>1, Wandered
<1>3. CASE Goes(c, "share") /\ browser' = [browser EXCEPT ![fetch[c].lb] = Born]
  <2> DEFINE n == fetch[c].lb
  <2>1. localInit # 0 /\ n = localInit /\ local = 0
    BY <1>1 DEF Holding, LaunchIsHeld, Launchers
  <2>2. n \in Browsers
    BY <1>1, <2>1, Bounded DEF Types, Launches, Browsers
  <2>3. /\ fetch' \in [Fetches -> FetchRec] /\ fetch'[c].pc = "share"
        /\ \A d \in Fetches : fetch'[d].lb = fetch[d].lb /\ (d # c => fetch'[d] = fetch[d])
    BY <1>1, <1>3, Went DEF FetchPcs
  <2>4. \A b \in Browsers : browser'[b] = IF b = n THEN Born ELSE browser[b]
    BY <1>1, <1>3 DEF Types
  <2>5. Types'
    BY <1>1, <1>3, <2>3, BornIs DEF Types
  <2>6. Numbered'
    BY <1>1, <2>3 DEF Holding, Numbered
  <2>7. LaunchIsHeld'
    BY <1>1, <2>1, <2>3 DEF Holding, LaunchIsHeld, Launchers
  <2>8. SharedIsOpen'
    <3>1. \A d \in Fetches : fetch'[d].pc = "share" => d = c
      BY <1>1, <2>3 DEF Holding, LaunchIsHeld, Launchers
    <3> QED BY <1>1, <2>1, <2>2, <2>3, <2>4, <3>1, BornIs DEF SharedIsOpen, Serving
  <2>9. OwnIsAlone'
    <3>1. \A d \in Fetches : fetch'[d].pc = "own" => d # c /\ fetch[d].lb # n /\ fetch[d].lb # 0
      BY <1>1, <2>1, <2>3 DEF Holding, OwnIsAlone
    <3>2. \A d \in Fetches : fetch'[d].pc = "own" => browser'[fetch[d].lb] = browser[fetch[d].lb]
      BY <1>1, <2>4, <3>1, Bounded DEF Types, FetchRec, Launches, Browsers
    <3> QED BY <1>1, <2>1, <2>3, <3>1, <3>2 DEF Holding, OwnIsAlone
  <2>10. EveryBrowserIsOwned'
    BY <1>1, <2>1, <2>2, <2>3, <2>4 DEF Holding, EveryBrowserIsOwned
  <2> QED BY <2>5, <2>6, <2>7, <2>8, <2>9, <2>10 DEF Holding
<1> QED BY <1>2, <1>3 DEF Launched

LEMMA Shared ==
    ASSUME Holding, NEW c \in Fetches, Share(c) PROVE Holding'
<1>1. Types /\ localInit' = 0 /\ UNCHANGED <<launches, browser, graces>>
  BY DEF Holding, Share
<1>2. fetch[c].pc \in {"share", "failed"}
  BY DEF Share, In
<1>3. localInit # 0 /\ fetch[c].lb = localInit /\ local = 0 /\ \A d \in Fetches : fetch[d].pc \in Launchers => d = c
  BY <1>2 DEF Holding, LaunchIsHeld, Launchers
<1>4. fetch[c].lb \in Launches /\ 0 \in Launches /\ fetch[c].lb <= launches /\ 0 <= launches
  BY <1>1, Bounded DEF Types, FetchRec, Holding, Numbered, Launches
<1>5. CASE fetch[c].pc = "share" /\ local' = fetch[c].lb /\ Goes(c, "got")
  <2>1. /\ fetch' \in [Fetches -> FetchRec] /\ fetch'[c].pc = "got"
        /\ \A d \in Fetches : fetch'[d].lb = fetch[d].lb /\ (d # c => fetch'[d] = fetch[d])
    BY <1>1, <1>5, Went DEF FetchPcs
  <2>2. Types'
    BY <1>1, <1>4, <1>5, <2>1 DEF Types
  <2>3. Numbered'
    BY <1>1, <1>4, <1>5, <2>1 DEF Holding, Numbered
  <2>4. LaunchIsHeld'
    BY <1>1, <1>3, <2>1 DEF LaunchIsHeld, Launchers
  <2>5. SharedIsOpen'
    BY <1>1, <1>3, <1>5, <2>1 DEF Holding, SharedIsOpen, Serving, Launchers
  <2>6. OwnIsAlone'
    BY <1>1, <1>3, <1>5, <2>1 DEF Holding, OwnIsAlone
  <2>7. EveryBrowserIsOwned'
    BY <1>1, <1>3, <1>5, <2>1, NotZero DEF Holding, EveryBrowserIsOwned
  <2> QED BY <2>2, <2>3, <2>4, <2>5, <2>6, <2>7 DEF Holding
<1>6. CASE fetch[c].pc = "failed" /\ Ends(c) /\ UNCHANGED local
  <2>1. \A d \in Fetches : fetch'[d] = IF d = c THEN Idle ELSE fetch[d]
    BY <1>1, <1>6 DEF Ends, Types
  <2>2. Types'
    BY <1>1, <1>4, <1>6, IdleIs DEF Types, Ends
  <2>3. Numbered'
    BY <1>1, <1>4, <1>6, <2>1, IdleIs DEF Holding, Numbered
  <2>4. LaunchIsHeld'
    BY <1>1, <1>3, <2>1, IdleIs DEF LaunchIsHeld, Launchers
  <2>5. SharedIsOpen'
    BY <1>1, <1>6, <2>1, IdleIs DEF Holding, SharedIsOpen, Serving
  <2>6. OwnIsAlone'
    BY <1>1, <1>6, <2>1, IdleIs DEF Holding, OwnIsAlone
  <2>7. EveryBrowserIsOwned'
    BY <1>1, <1>6, <2>1, IdleIs DEF Holding, EveryBrowserIsOwned
  <2> QED BY <2>2, <2>3, <2>4, <2>5, <2>6, <2>7 DEF Holding
<1> QED BY <1>5, <1>6 DEF Share, In
-----------------------------------------------------------------------------
(* Pages.                                                                  *)

\* Callers keep their browsers, and of the browsers only the pages, the deaths
\* and the retirements change; a dedicated one gets no page.
LEMMA Kept ==
    ASSUME Holding, UNCHANGED <<local, localInit, launches, graces>>, Types',
           \A d \in Fetches : fetch'[d].lb \in {fetch[d].lb, 0},
           \A d \in Fetches : fetch'[d] = fetch[d] \/ {fetch[d].pc, fetch'[d].pc} \cap (Launchers \cup {"own"}) = {},
           \A b \in Browsers : /\ browser'[b].born = browser[b].born /\ browser'[b].closed = browser[b].closed
                               /\ browser'[b].reaped = browser[b].reaped,
           \A d \in Fetches : fetch[d].pc = "own" => browser'[fetch[d].lb].activePages = {}
    PROVE  Holding'
<1>1. Numbered'
  <2>1. 0 <= launches
    BY Bounded DEF Holding, Types, Launches
  <2> QED BY <2>1 DEF Holding, Numbered
<1>2. \A d \in Fetches : fetch'[d].pc \in Launchers \cup {"own"} => fetch'[d] = fetch[d]
  OBVIOUS
<1>3. LaunchIsHeld'
  BY <1>2 DEF Holding, LaunchIsHeld
<1>4. SharedIsOpen'
  <2>1. \A b \in Browsers : Serving(b) => Serving(b)'
    BY DEF Serving
  <2>2. \A b \in Launches : b # 0 => b \in Browsers
    BY Bounded DEF Launches, Browsers
  <2>3. \A d \in Fetches : fetch[d].pc = "share" => fetch[d].lb \in Browsers
    BY <2>2 DEF Holding, LaunchIsHeld, Launchers, Types
  <2>4. local # 0 => local \in Browsers
    BY <2>2 DEF Holding, Types
  <2>5. \A d \in Fetches : fetch'[d].pc = "share" => fetch'[d] = fetch[d]
    BY <1>2 DEF Launchers
  <2> QED BY <2>1, <2>3, <2>4, <2>5 DEF Holding, SharedIsOpen
<1>5. OwnIsAlone'
  <2>1. \A d \in Fetches : fetch'[d].pc = "own" => fetch'[d] = fetch[d]
    BY <1>2
  <2> QED BY <2>1 DEF Holding, OwnIsAlone
<1>6. EveryBrowserIsOwned'
  <2>1. \A d \in Fetches : fetch[d].pc \in {"share", "own"} => fetch'[d] = fetch[d]
    BY DEF Launchers
  <2> QED BY <2>1 DEF Holding, EveryBrowserIsOwned
<1> QED BY <1>1, <1>3, <1>4, <1>5, <1>6 DEF Holding

\* One browser's record changes.
LEMMA Altered ==
    ASSUME Types, NEW b, NEW rec, browser' = [browser EXCEPT ![b] = rec],
           b \in Browsers => rec \in BrowserRec
    PROVE  /\ browser' \in [Browsers -> BrowserRec]
           /\ \A x \in Browsers : browser'[x] = IF x = b THEN rec ELSE browser[x]
BY DEF Types

LEMMA PageTaken ==
    ASSUME Holding, NEW c \in Fetches, TryAcquirePage(c) PROVE Holding'
<1> DEFINE b == fetch[c].lb
<1>1. Types /\ fetch[c].pc = "got" /\ UNCHANGED <<local, localInit, launches, graces>>
  BY DEF Holding, TryAcquirePage, In
<1>2. CASE /\ Goes(c, "page")
           /\ browser' = [browser EXCEPT ![b].activePages = browser[b].activePages \cup {c}]
  <2> DEFINE rec == [browser[b] EXCEPT !.activePages = browser[b].activePages \cup {c}]
  <2>1. browser' = [browser EXCEPT ![b] = rec]
    BY <1>2
  <2>2. b \in Browsers => rec \in BrowserRec /\ rec = [browser[b] EXCEPT !.activePages = rec.activePages]
    BY <1>1 DEF Types, BrowserRec
  <2>3. /\ browser' \in [Browsers -> BrowserRec]
        /\ \A x \in Browsers : browser'[x] = IF x = b THEN rec ELSE browser[x]
    BY <1>1, <2>1, <2>2, Altered
  <2>4. /\ fetch' \in [Fetches -> FetchRec] /\ fetch'[c].pc = "page"
        /\ \A d \in Fetches : fetch'[d].lb = fetch[d].lb /\ (d # c => fetch'[d] = fetch[d])
    BY <1>1, <1>2, Went DEF FetchPcs
  <2>5. Types'
    BY <1>1, <2>3, <2>4 DEF Types
  <2>6. \A d \in Fetches : fetch[d].pc = "own" => browser'[fetch[d].lb].activePages = {}
    <3>1. \A d \in Fetches : fetch[d].pc = "own" => fetch[d].lb \in Browsers /\ fetch[d].lb # b
      BY <1>1, Bounded DEF Holding, OwnIsAlone, Types, FetchRec, Launches, Browsers
    <3> QED BY <2>3, <3>1 DEF Holding, OwnIsAlone
  <2>7. \A x \in Browsers : /\ browser'[x].born = browser[x].born /\ browser'[x].closed = browser[x].closed
                            /\ browser'[x].reaped = browser[x].reaped
    BY <1>1, <2>3 DEF Types, BrowserRec
  <2>8. \A d \in Fetches : fetch'[d] = fetch[d] \/ {fetch[d].pc, fetch'[d].pc} \cap (Launchers \cup {"own"}) = {}
    BY <1>1, <2>4 DEF Launchers
  <2> QED BY <1>1, <2>4, <2>5, <2>6, <2>7, <2>8, Kept
<1>3. CASE UNCHANGED browser /\ Ends(c)
  <2>1. \E new : Wanders(c, new)
    BY <1>1, <1>3, Endings
  <2> QED BY <1>1, <1>3, <2>1, Wandered
<1>4. CASE UNCHANGED browser /\ fetch' = [fetch EXCEPT ![c] = [Idle EXCEPT !.pc = "look", !.again = TRUE]]
  <2>1. Wanders(c, [Idle EXCEPT !.pc = "look", !.again = TRUE])
    BY <1>1, <1>4, IdleIs DEF Wanders, Idle
  <2> QED BY <1>1, <1>4, <2>1, Wandered
<1> QED BY <1>2, <1>3, <1>4 DEF TryAcquirePage

\* A step that changes one browser's record and moves one caller on.
LEMMA KeptBy ==
    ASSUME Holding, UNCHANGED <<local, localInit, launches, graces>>,
           NEW c \in Fetches, NEW b, NEW rec, browser' = [browser EXCEPT ![b] = rec],
           b \in Browsers => /\ rec \in BrowserRec /\ rec.born = browser[b].born
                             /\ rec.closed = browser[b].closed /\ rec.reaped = browser[b].reaped
                             /\ rec.activePages \subseteq browser[b].activePages,
           fetch' \in [Fetches -> FetchRec], fetch'[c].lb \in {fetch[c].lb, 0},
           fetch' # fetch => {fetch[c].pc, fetch'[c].pc} \cap (Launchers \cup {"own"}) = {},
           \A d \in Fetches : d # c => fetch'[d] = fetch[d]
    PROVE  Holding'
<1>1. /\ browser' \in [Browsers -> BrowserRec]
      /\ \A x \in Browsers : browser'[x] = IF x = b THEN rec ELSE browser[x]
  BY Altered DEF Holding
<1>2. Types'
  BY <1>1 DEF Holding, Types
<1>3. \A d \in Fetches : fetch[d].pc = "own" => browser'[fetch[d].lb].activePages = {}
  <2>1. \A d \in Fetches : fetch[d].pc = "own" => fetch[d].lb \in Browsers /\ browser[fetch[d].lb].activePages = {}
    BY Bounded DEF Holding, OwnIsAlone, Types, FetchRec, Launches, Browsers
  <2> QED BY <1>1, <2>1
<1>4. \A x \in Browsers : /\ browser'[x].born = browser[x].born /\ browser'[x].closed = browser[x].closed
                          /\ browser'[x].reaped = browser[x].reaped
  BY <1>1
<1>5. \A d \in Fetches : fetch'[d].lb \in {fetch[d].lb, 0}
  OBVIOUS
<1>6. \A d \in Fetches : fetch'[d] = fetch[d] \/ {fetch[d].pc, fetch'[d].pc} \cap (Launchers \cup {"own"}) = {}
  OBVIOUS
<1> QED BY <1>2, <1>3, <1>4, <1>5, <1>6, Kept

LEMMA PageReleased ==
    ASSUME Holding, NEW c \in Fetches, ReleasePage(c) PROVE Holding'
<1> DEFINE b == fetch[c].lb
           rec == PageClosed(b, c)
<1>1. /\ Types /\ fetch[c].pc = "page" /\ UNCHANGED <<local, localInit, launches, graces>>
      /\ browser' = [browser EXCEPT ![b] = rec]
  BY DEF Holding, ReleasePage, In
<1>2. b \in Browsers => /\ rec \in BrowserRec /\ rec.born = browser[b].born
                        /\ rec.closed = browser[b].closed /\ rec.reaped = browser[b].reaped
                        /\ rec.activePages \subseteq browser[b].activePages
  BY <1>1 DEF Types, BrowserRec, PageClosed
<1>3. /\ fetch' \in [Fetches -> FetchRec] /\ fetch'[c].lb \in {fetch[c].lb, 0} /\ fetch'[c].pc \in {"idle", "recycle"}
      /\ \A d \in Fetches : d # c => fetch'[d] = fetch[d]
  <2>1. CASE Goes(c, "recycle")
    BY <1>1, <2>1, Went DEF FetchPcs
  <2>2. CASE Ends(c)
    BY <1>1, <2>2, IdleIs DEF Types, Ends
  <2> QED BY <2>1, <2>2 DEF ReleasePage
<1> HIDE DEF b, rec
<1> QED BY <1>1, <1>2, <1>3, KeptBy DEF Launchers

LEMMA Retiring ==
    ASSUME Holding, NEW c \in Fetches, MarkRetired(c) PROVE Holding'
<1> DEFINE b == fetch[c].lb
           rec == [browser[b] EXCEPT !.retired = TRUE]
<1>1. /\ Types /\ fetch[c].pc = "recycle" /\ UNCHANGED <<local, localInit, launches, graces>>
      /\ browser' = [browser EXCEPT ![b] = rec]
  BY DEF Holding, MarkRetired, In
<1>2. b \in Browsers => /\ rec \in BrowserRec /\ rec.born = browser[b].born
                        /\ rec.closed = browser[b].closed /\ rec.reaped = browser[b].reaped
                        /\ rec.activePages \subseteq browser[b].activePages
  BY <1>1 DEF Types, BrowserRec
<1>3. /\ fetch' \in [Fetches -> FetchRec] /\ fetch'[c].lb = fetch[c].lb /\ fetch'[c].pc = "recycled"
      /\ \A d \in Fetches : d # c => fetch'[d] = fetch[d]
  BY <1>1, Went DEF MarkRetired, FetchPcs
<1> HIDE DEF b, rec
<1> QED BY <1>1, <1>2, <1>3, KeptBy DEF Launchers

LEMMA Died ==
    ASSUME Holding, NEW b \in Browsers, Dies(b) PROVE Holding'
<1> DEFINE rec == [browser[b] EXCEPT !.alive = FALSE]
<1>1. Types /\ UNCHANGED <<local, localInit, launches, graces, fetch>> /\ browser' = [browser EXCEPT ![b] = rec]
  BY DEF Holding, Dies
<1>2. /\ rec \in BrowserRec /\ rec.born = browser[b].born /\ rec.closed = browser[b].closed
      /\ rec.reaped = browser[b].reaped /\ rec.activePages = browser[b].activePages
  BY <1>1 DEF Types, BrowserRec
<1>3. /\ browser' \in [Browsers -> BrowserRec]
      /\ \A x \in Browsers : browser'[x] = IF x = b THEN rec ELSE browser[x]
  BY <1>1, <1>2, Altered
<1>4. Types'
  BY <1>1, <1>3 DEF Types
<1>5. \A d \in Fetches : fetch[d].pc = "own" => browser'[fetch[d].lb].activePages = {}
  <2>1. \A d \in Fetches : fetch[d].pc = "own" => fetch[d].lb \in Browsers /\ browser[fetch[d].lb].activePages = {}
    BY Bounded DEF Holding, OwnIsAlone, Types, FetchRec, Launches, Browsers
  <2> QED BY <1>2, <1>3, <2>1
<1> QED BY <1>1, <1>2, <1>3, <1>4, <1>5, Kept
-----------------------------------------------------------------------------
(* Retirement.                                                             *)

LEMMA ReapedIs ==
    ASSUME Types, NEW b \in Browsers
    PROVE  /\ Reaped(b) \in BrowserRec /\ Reaped(b).reaped /\ Reaped(b).born = browser[b].born
           /\ Reaped(b).closed = browser[b].closed /\ Reaped(b).activePages = browser[b].activePages
BY DEF Reaped, Types, BrowserRec

\* The shared browser is taken away and given to its reaper.
LEMMA TakenAway ==
    ASSUME Holding, local # 0, local' = 0, browser' = [browser EXCEPT ![local] = Reaped(local)],
           UNCHANGED <<localInit, launches, graces>>,
           NEW c \in Fetches, fetch' \in [Fetches -> FetchRec], fetch'[c].lb = fetch[c].lb,
           fetch' # fetch => {fetch[c].pc, fetch'[c].pc} \cap (Launchers \cup {"own"}) = {},
           \A d \in Fetches : d # c => fetch'[d] = fetch[d]
    PROVE  Holding'
<1>1. Types /\ local \in Browsers /\ localInit = 0
  BY Bounded DEF Holding, Types, Launches, Browsers, LaunchIsHeld
<1>2. /\ browser' \in [Browsers -> BrowserRec]
      /\ \A x \in Browsers : browser'[x] = IF x = local THEN Reaped(local) ELSE browser[x]
  BY <1>1, ReapedIs DEF Types
<1>3. \A d \in Fetches : /\ fetch'[d].lb = fetch[d].lb
                         /\ fetch'[d] = fetch[d] \/ {fetch[d].pc, fetch'[d].pc} \cap (Launchers \cup {"own"}) = {}
  OBVIOUS
<1>4. Types'
  BY <1>1, <1>2, Bounded DEF Types
<1>5. Numbered'
  BY <1>1, <1>3, Bounded DEF Holding, Types, Numbered, Launches
<1>6. LaunchIsHeld'
  BY <1>1, <1>3 DEF Holding, LaunchIsHeld
<1>7. SharedIsOpen'
  <2>1. \A d \in Fetches : fetch'[d].pc # "share"
    BY <1>1, <1>3 DEF Holding, LaunchIsHeld, Launchers
  <2> QED BY <2>1 DEF SharedIsOpen
<1>8. OwnIsAlone'
  <2>1. \A d \in Fetches : fetch'[d].pc = "own" => fetch'[d] = fetch[d]
    BY <1>3
  <2>2. \A d \in Fetches : fetch[d].pc = "own" => fetch[d].lb \in Browsers
    BY Bounded DEF Holding, OwnIsAlone, Types, FetchRec, Launches, Browsers
  <2> QED BY <1>1, <1>2, <1>3, <2>1, <2>2, ReapedIs DEF Holding, OwnIsAlone
<1>9. EveryBrowserIsOwned'
  <2>1. \A d \in Fetches : fetch[d].pc \in {"share", "own"} => fetch'[d] = fetch[d]
    BY <1>3 DEF Launchers
  <2> QED BY <1>1, <1>2, <2>1, ReapedIs DEF Holding, EveryBrowserIsOwned
<1> QED BY <1>4, <1>5, <1>6, <1>7, <1>8, <1>9 DEF Holding

\* Drop and recycleBrowser, of a browser that is still shared or not.
LEMMA Dropped ==
    ASSUME Holding, NEW c \in Fetches, Drop(c) \/ RecycleBrowser(c) PROVE Holding'
<1> DEFINE b == fetch[c].lb
<1>1. Types /\ fetch[c].pc \in {"drop", "recycled"} /\ UNCHANGED <<localInit, launches, graces>>
  BY DEF Holding, Drop, RecycleBrowser, In
<1>2. Unshared(b) /\ browser' = IF local = b THEN [browser EXCEPT ![b] = Reaped(b)] ELSE browser
  BY DEF Drop, RecycleBrowser
<1>3. PICK pc \in {"wait", "dedicated"} : Goes(c, pc)
  BY DEF Drop, RecycleBrowser
<1>4. CASE local # 0 /\ local = b
  <2>1. /\ fetch' \in [Fetches -> FetchRec] /\ fetch'[c].lb = fetch[c].lb /\ fetch'[c].pc \in {"wait", "dedicated"}
        /\ \A d \in Fetches : d # c => fetch'[d] = fetch[d]
    BY <1>1, <1>3, Went DEF FetchPcs
  <2>2. local' = 0 /\ browser' = [browser EXCEPT ![local] = Reaped(local)]
    BY <1>2, <1>4 DEF Unshared
  <2> QED BY <1>1, <1>4, <2>1, <2>2, TakenAway DEF Launchers
<1>5. CASE local = 0 \/ local # b
  <2>1. local' = local
    BY <1>2, <1>5 DEF Unshared
  <2>2. browser' = browser
    <3>1. local = b => b \notin Browsers
      BY <1>5, NotZero
    <3> QED BY <1>1, <1>2, <3>1 DEF Types
  <2>3. \E new : Wanders(c, new)
    BY <1>1, <1>3, Goings DEF FetchPcs
  <2> QED BY <1>1, <2>1, <2>2, <2>3, Wandered
<1> QED BY <1>4, <1>5

LEMMA Evicted ==
    ASSUME Holding, NEW c \in Fetches, EvictDeadBrowser(c) PROVE Holding'
<1>1. /\ Types /\ fetch[c].pc = "page" /\ local = fetch[c].lb /\ local' = 0
      /\ browser' = [browser EXCEPT ![local] = Reaped(local)]
      /\ UNCHANGED <<localInit, launches, fetch, graces>>
  BY DEF Holding, EvictDeadBrowser, In, Unshared
<1>2. CASE local # 0
  <2>1. fetch' \in [Fetches -> FetchRec]
    BY <1>1 DEF Types
  <2> QED BY <1>1, <1>2, <2>1, TakenAway
<1>3. CASE local = 0
  <2>1. browser' = browser
    BY <1>1, <1>3, NotZero DEF Types
  <2>2. UNCHANGED <<local, localInit, launches, fetch, graces>>
    BY <1>1, <1>3
  <2> QED BY <2>1, <2>2 DEF Holding, Types, Numbered, LaunchIsHeld, SharedIsOpen, Serving, OwnIsAlone, EveryBrowserIsOwned
<1> QED BY <1>2, <1>3
-----------------------------------------------------------------------------
(* Dedicated browsers, and the reaper.                                     *)

LEMMA HasDedicated ==
    ASSUME Holding, NEW c \in Fetches, Dedicated(c) PROVE Holding'
<1>1. Types /\ fetch[c].pc = "dedicated" /\ UNCHANGED <<local, localInit, graces>>
  BY DEF Holding, Dedicated, In
<1>2. CASE Ends(c) /\ UNCHANGED <<launches, browser>>
  <2>1. \E new : Wanders(c, new)
    BY <1>1, <1>2, Endings
  <2> QED BY <1>1, <1>2, <2>1, Wandered
<1>3. CASE /\ launches < MaxLaunches /\ launches' = launches + 1 /\ Holds(c, "own", launches')
           /\ browser' = [browser EXCEPT ![launches'] = Born]
  <2>1. /\ launches' \in Browsers /\ launches' \in Launches /\ launches' # 0 /\ launches < launches'
        /\ launches' \notin {local, localInit} /\ \A d \in Fetches : fetch[d].lb # launches'
    BY <1>3, NextLaunch
  <2>2. PICK new \in FetchRec : /\ new.pc = "own" /\ new.lb = launches'
                                /\ fetch' = [fetch EXCEPT ![c] = new]
    <3>1. fetch[c] \in FetchRec /\ "own" \in FetchPcs
      BY <1>1 DEF Types, FetchPcs
    <3> DEFINE new == [fetch[c] EXCEPT !.pc = "own", !.lb = launches']
    <3>2. new \in FetchRec /\ new.pc = "own" /\ new.lb = launches'
      BY <2>1, <3>1 DEF FetchRec
    <3>3. fetch' = [fetch EXCEPT ![c] = new]
      BY <1>1, <1>3, <3>1 DEF Holds, Types, FetchRec
    <3> QED BY <3>2, <3>3
  <2>3. \A d \in Fetches : fetch'[d] = IF d = c THEN new ELSE fetch[d]
    BY <1>1, <2>2 DEF Types
  <2>4. /\ browser' \in [Browsers -> BrowserRec]
        /\ \A x \in Browsers : browser'[x] = IF x = launches' THEN Born ELSE browser[x]
    BY <1>1, <1>3, BornIs, Altered
  <2>5. Types'
    BY <1>1, <2>1, <2>2, <2>4 DEF Types
  <2>6. Numbered'
    <3>1. launches \in Nat /\ launches' \in Nat /\ local \in Nat /\ localInit \in Nat
      BY <1>1, <2>1, Bounded DEF Types, Launches
    <3>2. \A d \in Fetches : fetch[d].lb \in Nat /\ fetch[d].lb <= launches
      BY <1>1, Bounded DEF Holding, Types, Launches, FetchRec, Numbered
    <3> QED BY <1>1, <2>1, <2>2, <2>3, <3>1, <3>2 DEF Holding, Numbered
  <2>7. LaunchIsHeld'
    BY <1>1, <2>2, <2>3 DEF Holding, LaunchIsHeld, Launchers
  <2>8. \A b \in Launches : b # 0 => b \in Browsers
    BY Bounded DEF Launches, Browsers
  <2>9. \A d \in Fetches : fetch[d].lb \in Launches
    BY <1>1 DEF Types, FetchRec
  <2>10. SharedIsOpen'
    <3>1. local # 0 => Serving(local)'
      BY <1>1, <2>1, <2>4, <2>8 DEF Holding, SharedIsOpen, Serving, Types
    <3>2. ASSUME NEW d \in Fetches, fetch'[d].pc = "share" PROVE Serving(fetch[d].lb)' /\ fetch'[d] = fetch[d]
      <4>1. fetch'[d] = fetch[d] /\ fetch[d].pc = "share"
        BY <2>2, <2>3, <3>2
      <4>2. fetch[d].lb \in Browsers /\ fetch[d].lb # launches'
        BY <2>1, <2>8, <2>9, <4>1 DEF Holding, LaunchIsHeld, Launchers
      <4> QED BY <2>4, <4>1, <4>2 DEF Holding, SharedIsOpen, Serving
    <3> QED BY <1>1, <3>1, <3>2 DEF SharedIsOpen
  <2>11. OwnIsAlone'
    <3>1. \A d \in Fetches : fetch[d].pc = "own" => fetch[d].lb \in Browsers
      BY <2>8, <2>9 DEF Holding, OwnIsAlone
    <3> QED BY <1>1, <2>1, <2>2, <2>3, <2>4, <3>1, BornIs DEF Holding, OwnIsAlone
  <2>12. EveryBrowserIsOwned'
    BY <1>1, <2>2, <2>3, <2>4 DEF Holding, EveryBrowserIsOwned
  <2> QED BY <2>5, <2>6, <2>7, <2>10, <2>11, <2>12 DEF Holding
<1> QED BY <1>2, <1>3 DEF Dedicated

\* A browser that is neither shared nor about to be is closed.
LEMMA HasClosed ==
    ASSUME Holding, NEW b \in Browsers, b # local, browser[b].reaped \/ b # localInit,
           browser' = [browser EXCEPT ![b].closed = TRUE], UNCHANGED <<local, localInit, launches>>,
           graces' \in Nat, NEW c, fetch' \in [Fetches -> FetchRec],
           \A d \in Fetches : fetch'[d] = fetch[d] \/ (d = c /\ fetch[d].lb = b /\ fetch'[d] = Idle /\ fetch[d].pc = "own")
    PROVE  Holding'
<1> DEFINE rec == [browser[b] EXCEPT !.closed = TRUE]
<1>1. Types
  BY DEF Holding
<1>2. rec \in BrowserRec /\ rec.closed /\ rec.activePages = browser[b].activePages
  BY <1>1 DEF Types, BrowserRec
<1>3. /\ browser' \in [Browsers -> BrowserRec]
      /\ \A x \in Browsers : browser'[x] = IF x = b THEN rec ELSE browser[x]
  BY <1>1, <1>2, Altered
<1>4. Types'
  BY <1>1, <1>3 DEF Types
<1>5. Numbered'
  <2>1. 0 <= launches
    BY <1>1, Bounded DEF Types, Launches
  <2> QED BY <2>1, IdleIs DEF Holding, Numbered
<1>6. LaunchIsHeld'
  BY IdleIs DEF Holding, LaunchIsHeld, Launchers
<1>7. \A x \in Launches : x # 0 => x \in Browsers
  BY Bounded DEF Launches, Browsers
<1>8. \A d \in Fetches : fetch[d].lb \in Launches
  BY <1>1 DEF Types, FetchRec
<1>9. SharedIsOpen'
  <2>1. local # 0 => Serving(local)'
    BY <1>1, <1>3, <1>7 DEF Holding, SharedIsOpen, Serving, Types
  <2>2. ASSUME NEW d \in Fetches, fetch'[d].pc = "share" PROVE Serving(fetch[d].lb)' /\ fetch'[d] = fetch[d]
    <3>1. fetch'[d] = fetch[d] /\ fetch[d].pc = "share"
      BY <2>2, IdleIs
    <3>2. fetch[d].lb \in Browsers /\ fetch[d].lb = localInit /\ ~browser[fetch[d].lb].reaped
      BY <1>7, <1>8, <3>1 DEF Holding, LaunchIsHeld, Launchers, SharedIsOpen, Serving
    <3> QED BY <1>3, <3>1, <3>2 DEF Holding, SharedIsOpen, Serving
  <2> QED BY <2>1, <2>2 DEF SharedIsOpen
<1>10. OwnIsAlone'
  <2>1. \A d \in Fetches : fetch'[d].pc = "own" => fetch'[d] = fetch[d] /\ fetch[d].lb \in Browsers
    BY <1>7, <1>8, IdleIs DEF Holding, OwnIsAlone
  <2>2. \A d \in Fetches : fetch'[d].lb \in {fetch[d].lb, 0}
    BY IdleIs
  <2> QED BY <1>2, <1>3, <2>1, <2>2 DEF Holding, OwnIsAlone
<1>11. EveryBrowserIsOwned'
  BY <1>2, <1>3 DEF Holding, EveryBrowserIsOwned
<1> QED BY <1>4, <1>5, <1>6, <1>9, <1>10, <1>11 DEF Holding

LEMMA DedicatedClosed ==
    ASSUME Holding, NEW c \in Fetches, CloseDedicated(c) PROVE Holding'
<1>1. /\ Types /\ fetch[c].pc = "own" /\ UNCHANGED <<local, localInit, launches, graces>>
      /\ browser' = [browser EXCEPT ![fetch[c].lb].closed = TRUE]
      /\ fetch' = [fetch EXCEPT ![c] = Idle]
  BY DEF Holding, CloseDedicated, In, Ends
<1>2. fetch[c].lb \in Browsers /\ fetch[c].lb \notin {local, localInit}
  BY <1>1, Bounded DEF Holding, OwnIsAlone, Types, FetchRec, Launches, Browsers
<1>3. fetch' \in [Fetches -> FetchRec] /\ \A d \in Fetches : fetch'[d] = IF d = c THEN Idle ELSE fetch[d]
  BY <1>1, IdleIs DEF Types
<1>4. graces' \in Nat
  BY <1>1 DEF Types
<1> QED BY <1>1, <1>2, <1>3, <1>4, HasClosed

LEMMA HasReaped ==
    ASSUME Holding, NEW b \in Browsers, Reap(b) PROVE Holding'
<1>1. /\ Types /\ browser[b].reaped /\ UNCHANGED <<local, localInit, launches, fetch>>
      /\ browser' = [browser EXCEPT ![b].closed = TRUE]
  BY DEF Holding, Reap
<1>2. b # local
  BY <1>1, NotZero DEF Holding, SharedIsOpen, Serving
<1>3. graces' \in Nat
  BY <1>1 DEF Types, Reap, Retirement
<1>4. fetch' \in [Fetches -> FetchRec]
  BY <1>1 DEF Types
<1> QED BY <1>1, <1>2, <1>3, <1>4, HasClosed
-----------------------------------------------------------------------------
(* Graces.                                                                 *)

Cut == {b \in Browsers : browser[b].closed /\ browser[b].activePages # {}}

LEMMA CutIsFinite ==
    /\ IsFiniteSet(Cut) /\ Cardinality(Cut) \in Nat /\ IsFiniteSet(Cut') /\ Cardinality(Cut') \in Nat
<1>1. IsFiniteSet(Browsers)
  BY Bounded, FS_Interval DEF Browsers
<1>2. Cut \subseteq Browsers /\ Cut' \subseteq Browsers
  BY DEF Cut
<1> QED BY <1>1, <1>2, FS_Subset, FS_CardinalityType

\* A step that closes no browser under its pages.
LEMMA NotCut ==
    ASSUME PagesOutliveOnlyTheGrace, Cut' \subseteq Cut, graces \in Nat, graces' \in Nat, graces' >= graces
    PROVE  PagesOutliveOnlyTheGrace'
<1>1. Cardinality(Cut') <= Cardinality(Cut)
  BY CutIsFinite, FS_Subset
<1> QED BY <1>1, CutIsFinite DEF PagesOutliveOnlyTheGrace, Cut

LEMMA OneCut ==
    ASSUME PagesOutliveOnlyTheGrace, NEW b, Cut' \subseteq Cut \cup {b}, graces \in Nat, graces' = graces + 1
    PROVE  PagesOutliveOnlyTheGrace'
<1>0. IsFiniteSet(Cut) /\ Cardinality(Cut) \in Nat
  BY CutIsFinite
<1>1. IsFiniteSet(Cut \cup {b}) /\ Cardinality(Cut \cup {b}) \in Nat
      /\ Cardinality(Cut \cup {b}) <= Cardinality(Cut) + 1
  <2>1. IsFiniteSet(Cut \cup {b})
    BY <1>0, FS_AddElement
  <2>2. Cardinality(Cut \cup {b}) = IF b \in Cut THEN Cardinality(Cut) ELSE Cardinality(Cut) + 1
    BY <1>0, FS_AddElement
  <2> QED BY <1>0, <2>1, <2>2
<1>2. Cardinality(Cut') <= Cardinality(Cut \cup {b})
  BY <1>1, FS_Subset
<1> QED BY <1>1, <1>2, CutIsFinite DEF PagesOutliveOnlyTheGrace, Cut

\* The steps of a caller close no browser that has pages, and give none to a
\* browser that is closed.
LEMMA CallersDoNotCut ==
    ASSUME Holding, NEW c \in Fetches, FetchStep(c)
    PROVE  Cut' \subseteq Cut /\ UNCHANGED graces
<1> SUFFICES UNCHANGED graces /\ \A b \in Browsers :
                 browser'[b].closed /\ browser'[b].activePages # {} =>
                     browser[b].closed /\ browser[b].activePages # {}
  BY DEF Cut
<1> USE DEF Holding, Types
<1>1. fetch[c].lb \in Launches
  BY DEF FetchRec
<1>2. CASE Looks(c) \/ LaunchNewBrowser(c) \/ Share(c)
  BY <1>2 DEF Looks, FetchViaLocalHeadless, Look, Ping, Confirm, WaitForInit, Waited, Peered, LaunchNewBrowser, Share
<1>3. CASE Drop(c) \/ RecycleBrowser(c) \/ EvictDeadBrowser(c)
  <2>1. browser' \in {browser, [browser EXCEPT ![fetch[c].lb] = Reaped(fetch[c].lb)]} /\ UNCHANGED graces
    BY <1>3 DEF Drop, RecycleBrowser, EvictDeadBrowser
  <2> QED BY <2>1, ReapedIs
<1>4. CASE Launched(c) \/ Dedicated(c)
  <2>1. UNCHANGED graces /\ (browser' = browser \/ \E n : browser' = [browser EXCEPT ![n] = Born])
    BY <1>4 DEF Launched, Dedicated
  <2> QED BY <2>1, BornIs
<1>5. CASE TryAcquirePage(c)
  BY <1>5 DEF TryAcquirePage, IsUnavailable, BrowserRec
<1>6. CASE ReleasePage(c)
  BY <1>6 DEF ReleasePage, PageClosed, BrowserRec
<1>7. CASE MarkRetired(c)
  BY <1>7 DEF MarkRetired, BrowserRec
<1>8. CASE CloseDedicated(c)
  <2>1. browser[fetch[c].lb].activePages = {}
    BY <1>8 DEF CloseDedicated, In, OwnIsAlone
  <2> QED BY <1>8, <2>1 DEF CloseDedicated, BrowserRec
<1> QED BY <1>2, <1>3, <1>4, <1>5, <1>6, <1>7, <1>8 DEF FetchStep, Looks
-----------------------------------------------------------------------------
(* The theorem.                                                            *)

LEMMA InitBrowserInv == BrowserInit => BrowserInv
<1> SUFFICES ASSUME BrowserInit PROVE BrowserInv
  OBVIOUS
<1>1. /\ local = 0 /\ localInit = 0 /\ launches = 0 /\ graces = 0
      /\ \A b \in Browsers : browser[b] = Unborn
      /\ \A c \in Fetches : fetch[c] = Idle
  BY DEF BrowserInit
<1>2. Types
  BY <1>1, Bounded, BornIs, IdleIs DEF BrowserInit, Types
<1>3. Numbered /\ LaunchIsHeld /\ SharedIsOpen /\ OwnIsAlone
  BY <1>1, IdleIs DEF Numbered, LaunchIsHeld, Launchers, SharedIsOpen, OwnIsAlone
<1>4. EveryBrowserIsOwned
  BY <1>1, BornIs DEF EveryBrowserIsOwned
<1>5. Cut = {}
  BY <1>1, BornIs DEF Cut
<1> QED BY <1>1, <1>2, <1>3, <1>4, <1>5, FS_EmptySet DEF BrowserInv, Holding, PagesOutliveOnlyTheGrace, Cut

LEMMA NextBrowserInv == BrowserInv /\ [BrowserNext]_browserVars => BrowserInv'
<1> SUFFICES ASSUME BrowserInv, [BrowserNext]_browserVars PROVE BrowserInv'
  OBVIOUS
<1>1. Holding /\ PagesOutliveOnlyTheGrace /\ graces \in Nat
  BY DEF BrowserInv, Holding, Types
<1>2. CASE UNCHANGED browserVars
  BY <1>1, <1>2 DEF browserVars, BrowserInv, Holding, Types, Numbered, LaunchIsHeld, SharedIsOpen, Serving, OwnIsAlone,
                    EveryBrowserIsOwned, PagesOutliveOnlyTheGrace
<1>3. ASSUME NEW c \in Fetches, FetchStep(c) PROVE BrowserInv'
  <2>1. Holding'
    BY <1>1, <1>3, Looked, LaunchesNew, HasLaunched, Shared, PageTaken, PageReleased, Retiring, Dropped,
       Evicted, HasDedicated, DedicatedClosed DEF FetchStep, Looks
  <2>2. Cut' \subseteq Cut /\ UNCHANGED graces
    BY <1>1, <1>3, CallersDoNotCut
  <2>3. PagesOutliveOnlyTheGrace'
    BY <1>1, <2>2, NotCut
  <2> QED BY <2>1, <2>3 DEF BrowserInv
<1>4. ASSUME NEW b \in Browsers, Reap(b) PROVE BrowserInv'
  <2>1. Holding'
    BY <1>1, <1>4, HasReaped
  <2>2. /\ Cut' \subseteq Cut \cup {b}
        /\ browser[b].activePages = {} => Cut' \subseteq Cut
    BY <1>1, <1>4 DEF Reap, Cut, Holding, Types, BrowserRec
  <2>3. PagesOutliveOnlyTheGrace'
    BY <1>1, <1>4, <2>2, NotCut, OneCut DEF Reap, Retirement
  <2> QED BY <2>1, <2>3 DEF BrowserInv
<1>5. ASSUME NEW b \in Browsers, Dies(b) PROVE BrowserInv'
  <2>1. Holding'
    BY <1>1, <1>5, Died
  <2>2. Cut' \subseteq Cut /\ UNCHANGED graces
    BY <1>1, <1>5 DEF Dies, Cut, Holding, Types, BrowserRec
  <2> QED BY <1>1, <2>1, <2>2, NotCut DEF BrowserInv
<1> QED BY <1>2, <1>3, <1>4, <1>5 DEF BrowserNext

LEMMA BrowserInvAccounts == BrowserInv => BrowsersAreAccounted
<1> SUFFICES ASSUME BrowserInv PROVE OneSharedBrowser
  BY DEF BrowserInv, Holding, BrowsersAreAccounted
<1> DEFINE held == {c \in Fetches : fetch[c].pc \in {"launching", "share"}}
<1>1. held = {} \/ \E c \in Fetches : held = {c}
  BY DEF BrowserInv, Holding, LaunchIsHeld, Launchers
<1>2. Cardinality(held) <= 1
  <2> HIDE DEF held
  <2>1. CASE held = {}
    BY <2>1, FS_EmptySet
  <2>2. CASE \E c \in Fetches : held = {c}
    <3>1. \E c \in Fetches : Cardinality(held) = 1
      BY <2>2, FS_Singleton
    <3> QED BY <3>1
  <2> QED BY <1>1, <2>1, <2>2
<1> QED BY <1>2 DEF BrowserInv, Holding, LaunchIsHeld, SharedIsOpen, Serving, OneSharedBrowser

\* No browser is leaked, launched twice side by side, or closed under a page
\* within its grace, for any callers and bounds (getBrowser, retireBrowser and
\* its reaper).
THEOREM BrowsersAccounted == BrowserSpec => []BrowsersAreAccounted
<1>1. BrowserSpec => []BrowserInv
  BY InitBrowserInv, NextBrowserInv, PTL DEF BrowserSpec
<1> QED BY <1>1, BrowserInvAccounts, PTL
-----------------------------------------------------------------------------
(* What the providers' answers mean.                                       *)

\* Pages, refusals and accounts as they come: any numbers, any shown counts, any
\* delays and figures.  Of the statuses of an account's usage only 402 is left out: a
\* fetch that it ends is out of quota, ScraperAPI's usage check reads it as a plan
\* without usage.
AnyShown   == [tenths : Nat, suffix : STRING]
AnyPage    == [kind : {"page"}, json : Nat \cup {Missing}, union : BOOLEAN, found : BOOLEAN, texts : Seq(AnyShown)]
AnyStreak  == [kind : {"streak"}, streak : Nat \ {0}, serverDelay : Nat]
AnyAccount == [kind : {"account"}, status : Int \ {402}, readable : BOOLEAN, limit : Int, used : Int, memory : Int]

\* Every reader's count is on the page, or is the zero of a page that has one.
LEMMA PagesAreRead == ASSUME sample \in AnyPage PROVE ReadingsAreReal
<1> DEFINE p     == sample
           Real(n) == n \in Counts(p) \/ (n = 0 /\ ZeroOf(p))
           Count(t) == ParseListenerCountFromSuffix(t)
<1>1. /\ p.json \in Nat \cup {Missing} /\ p.union \in BOOLEAN /\ Len(p.texts) \in Nat
      /\ DOMAIN p.texts = 1..Len(p.texts) /\ p.texts \in Seq(AnyShown)
      /\ p.texts # << >> => Len(p.texts) # 0
  BY DEF AnyPage
<1>2. \A n : n = p.json => Real(n)
  BY DEF Counts
<1>3. p.union => Real(0)
  BY DEF ZeroOf
<1>4. p.texts # << >> => Real(Count(p.texts[1])) /\ Real(Count(p.texts[Len(p.texts)]))
  BY <1>1 DEF Counts
<1>5. \A n : Real(n) <=> n \in Counts(p) \/ (n = 0 /\ ZeroOf(p))
  OBVIOUS
<1> HIDE DEF Real
<1>6. ExtractMonthlyListenersFromText(p) = Failure \/ Real(ExtractMonthlyListenersFromText(p))
  BY <1>3, <1>4 DEF ExtractMonthlyListenersFromText
<1>7. ParseHTMLMonthlyListeners(p) = Failure \/ Real(ParseHTMLMonthlyListeners(p))
  BY <1>2, <1>6 DEF ParseHTMLMonthlyListeners
<1>8. FetchViaMobileSSR(p) = Failure \/ Real(FetchViaMobileSSR(p))
  BY <1>7 DEF FetchViaMobileSSR
<1>9. p.texts # << >> => FirstText(p.texts) = Failure \/ Real(FirstText(p.texts))
  BY <1>4 DEF FirstText
<1>10. FirstText(<< >>) = Failure
  BY DEF FirstText
<1>11. ParseBrowserlessResponse(p) = Failure \/ Real(ParseBrowserlessResponse(p))
  <2> DEFINE none == [tenths |-> 0, suffix |-> ""]
  <2>0. Count(none) = 0
    <3>1. (0 + 5) \div 10 = 0
      OBVIOUS
    <3> QED BY <3>1 DEF ParseListenerCountFromSuffix
  <2>1. FirstText(<<none>>) = 0
    <3> HIDE DEF none
    <3> QED BY <2>0 DEF FirstText
  <2> QED BY <1>3, <1>9, <1>10, <2>1 DEF ParseBrowserlessResponse, BuildBQLQuery
<1>12. ParseListenersFromRawText(BrowserbaseListenerExtractor(p)) \in {Failure} \cup {n \in Int : Real(n)}
       \/ Real(ParseListenersFromRawText(BrowserbaseListenerExtractor(p)))
  <2>1. ASSUME p.json # Missing PROVE FirstText(<<[tenths |-> p.json * 10, suffix |-> ""]>>) = p.json
    <3> DEFINE t == [tenths |-> p.json * 10, suffix |-> ""]
    <3>1. (p.json * 10 + 5) \div 10 = p.json
      BY <1>1, <2>1
    <3>2. Count(t) = p.json
      BY <3>1 DEF ParseListenerCountFromSuffix
    <3> HIDE DEF t
    <3>3. FirstText(<<t>>) = p.json
      BY <3>2 DEF FirstText
    <3> QED BY <3>3 DEF t
  <2> QED BY <1>2, <1>9, <1>10, <2>1 DEF ParseListenersFromRawText, BrowserbaseListenerExtractor
<1>13. ParseApifyItem(ApifyPageFunction(p)) = Failure \/ Real(ParseApifyItem(ApifyPageFunction(p)))
  <2>1. CASE p.json # Missing
    BY <1>2, <2>1 DEF ParseApifyItem, ApifyPageFunction, ResolveListenerCount
  <2>2. CASE p.json = Missing /\ p.texts # << >>
    BY <1>9, <2>2 DEF ParseApifyItem, ApifyPageFunction, ResolveListenerCount, ParseListenersFromRawText
  <2>3. CASE p.json = Missing /\ p.texts = << >>
    BY <2>3 DEF ParseApifyItem, ApifyPageFunction
  <2> QED BY <2>1, <2>2, <2>3
<1>14. LocalHeadless(p) = Failure \/ Real(LocalHeadless(p))
  BY <1>2, <1>3, <1>7 DEF LocalHeadless, ExtractMonthlyListeners, ParseLocalHTMLMonthlyListeners
<1>15. \A n \in Readings(p) : Real(n)
  BY <1>7, <1>8, <1>11, <1>12, <1>13, <1>14 DEF Readings
<1> QED BY <1>5, <1>15 DEF ReadingsAreReal

\* Five doublings at most.
LEMMA Doublings ==
  ASSUME NEW e \in 0..5
  PROVE  /\ 2 ^ e \in 1..32
         /\ \A d \in 0..5 : d <= e => 2 ^ d <= 2 ^ e
<1>1. 2 ^ 0 = 1 /\ 2 ^ 1 = 2 /\ 2 ^ 2 = 4 /\ 2 ^ 3 = 8 /\ 2 ^ 4 = 16 /\ 2 ^ 5 = 32
  OBVIOUS
<1> DEFINE P(k) == 2 ^ k
<1>2. P(0) = 1 /\ P(1) = 2 /\ P(2) = 4 /\ P(3) = 8 /\ P(4) = 16 /\ P(5) = 32
  BY <1>1
<1> HIDE DEF P
<1>3. \A d \in 0..5 : \/ d = 0 /\ P(d) = 1
                      \/ d = 1 /\ P(d) = 2
                      \/ d = 2 /\ P(d) = 4
                      \/ d = 3 /\ P(d) = 8
                      \/ d = 4 /\ P(d) = 16
                      \/ d = 5 /\ P(d) = 32
  BY <1>2
<1>4. P(e) \in 1..32 /\ \A d \in 0..5 : d <= e => P(d) <= P(e)
  BY <1>3
<1> QED BY <1>4 DEF P

\* A delay lies between what was asked for and a minute, and grows with the streak.
LEMMA DelaysAreBounded == ASSUME sample \in AnyStreak PROVE CooldownIsBounded
<1> DEFINE asked == sample.serverDelay
           n     == sample.streak
           e(k)  == Lesser(Lesser(k, 8) - 1, 5)
           c(k)  == ComputeScraperAPICooldown(asked, k)
<1>1. asked \in Nat /\ n \in Nat \ {0}
  BY DEF AnyStreak
<1>2. e(n) \in 0..5 /\ e(n + 1) \in 0..5 /\ e(n) <= e(n + 1)
  BY <1>1 DEF Lesser
<1>3. 2 ^ e(n) \in 1..32 /\ 2 ^ e(n + 1) \in 1..32 /\ 2 ^ e(n) <= 2 ^ e(n + 1)
  <2>1. \A d, f \in 0..5 : 2 ^ f \in 1..32 /\ (d <= f => 2 ^ d <= 2 ^ f)
    BY Doublings
  <2> HIDE DEF e
  <2> QED BY <1>2, <2>1
<1>4. \A k : c(k) = Greater(Lesser(2 * 2 ^ e(k), 60), asked)
  BY DEF ComputeScraperAPICooldown
<1>5. c(n) \in Nat /\ c(n) >= asked /\ c(n + 1) >= c(n) /\ c(n) <= Greater(60, asked)
  <2> DEFINE a == 2 ^ e(n)
             b == 2 ^ e(n + 1)
  <2>1. c(n) = Greater(Lesser(2 * a, 60), asked) /\ c(n + 1) = Greater(Lesser(2 * b, 60), asked)
    BY <1>4
  <2>2. a \in 1..32 /\ b \in 1..32 /\ a <= b
    BY <1>3
  <2> HIDE DEF a, b, c
  <2> QED BY <1>1, <2>1, <2>2 DEF Greater, Lesser
<1>6. JitterDuration(c(n)) - c(n) \in 0..2
  <2> HIDE DEF c
  <2>1. c(n) \div 4 \in Nat
    BY <1>5
  <2> QED BY <1>5, <2>1 DEF JitterDuration, Lesser
<1>7. RetryBackoff(n) < 60
  <2>1. Lesser(n - 1, 5) \in 0..5
    BY <1>1 DEF Lesser
  <2>2. \A f \in 0..5 : 2 ^ f \in 1..32
    BY Doublings
  <2>3. 2 ^ Lesser(n - 1, 5) \in 1..32
    BY <2>1, <2>2
  <2> QED BY <2>3 DEF RetryBackoff
<1> HIDE DEF c
<1> QED BY <1>5, <1>6, <1>7 DEF CooldownIsBounded, c

\* Of some places one is the first.
LEMMA LeastPlace ==
  ASSUME NEW T \in SUBSET Nat, T # {} PROVE \E i \in T : \A j \in T : i <= j
<1>1. PICK i \in T : \A j \in T : <<j, i>> \notin OpToRel(<, Nat)
  BY WFMin, NatLessThanWellFounded, Zenon
<1>2. \A j \in T : ~(j < i)
  BY <1>1 DEF OpToRel
<1> QED BY <1>2

\* The places of the priority list are numbers.
LEMMA PlacesAre == DOMAIN ProviderPriority \subseteq Nat
BY DEF ProviderPriority

\* The best provider is one that is configured and ready.
LEMMA BestIsReady ==
  ASSUME NEW quotas, GetBestFrom(quotas) # ""
  PROVE  GetBestFrom(quotas) \in DOMAIN quotas /\ IsProviderReady(GetBestFrom(quotas), quotas[GetBestFrom(quotas)])
<1> DEFINE ready == {i \in DOMAIN ProviderPriority :
                       /\ ProviderPriority[i] \in DOMAIN quotas
                       /\ IsProviderReady(ProviderPriority[i], quotas[ProviderPriority[i]])}
           first == CHOOSE i \in ready : \A j \in ready : i <= j
<1>1. GetBestFrom(quotas) = IF ready = {} THEN "" ELSE ProviderPriority[first]
  BY DEF GetBestFrom
<1>2. ready \subseteq Nat
  <2>1. DOMAIN ProviderPriority \subseteq Nat
    BY PlacesAre, Zenon
  <2>2. ready \subseteq DOMAIN ProviderPriority
    OBVIOUS
  <2> QED BY <2>1, <2>2, Zenon
<1>3. ready # {} => \E i \in ready : \A j \in ready : i <= j
  <2> HIDE DEF ready, first
  <2> QED BY <1>2, LeastPlace, Zenon
<1>4. ready # {} => first \in ready
  BY <1>3
<1> QED BY <1>1, <1>4

\* Whoever is ready can pay, and was not refused.
LEMMA BestIsGood == ASSUME sample \in AnyAccount PROVE BestCanPay
<1> SUFFICES ASSUME NEW configured \in SUBSET (Metered \cup {"browserless"}),
                    GetBestFrom(CheckAll(sample, configured)) \in Metered
             PROVE  LET best == GetBestFrom(CheckAll(sample, configured))
                    IN  /\ CheckProviderHTTPStatus(best, sample.status) # "quota"
                        /\ sample.status = 200 /\ sample.readable => CanPay(best, sample)
  BY DEF BestCanPay
<1> DEFINE best   == GetBestFrom(CheckAll(sample, configured))
           quotas == CheckAll(sample, configured)
<1>0. /\ sample.status \in Int \ {402} /\ sample.readable \in BOOLEAN
      /\ sample.limit \in Int /\ sample.used \in Int /\ sample.memory \in Int
  BY DEF AnyAccount
<1>1. best \in {"scrapingant", "scraperapi", "apify"}
  BY DEF Metered
<1>2. best \in DOMAIN quotas /\ IsProviderReady(best, quotas[best])
  BY <1>1, BestIsReady
<1>3. /\ best = "scrapingant" => quotas[best] = CheckScrapingAnt(sample)
      /\ best = "scraperapi" => quotas[best] = CheckScraperAPI(sample)
      /\ best = "apify" => quotas[best] = CheckApify(sample)
  BY <1>2 DEF CheckAll
<1> HIDE DEF best, quotas
<1>4. Remaining(sample) \in Nat /\ (Remaining(sample) > 0 => Remaining(sample) = sample.limit - sample.used)
  BY <1>0 DEF Remaining, Greater
<1>5. CASE best = "scrapingant"
  <2>1. IsProviderReady("scrapingant", CheckScrapingAnt(sample))
    BY <1>2, <1>3, <1>5
  <2>2. sample.status = 200 /\ sample.readable /\ Remaining(sample) >= 10
    BY <1>0, <2>1 DEF IsProviderReady, CheckScrapingAnt, Info, MinCreditsNeeded
  <2> QED BY <1>0, <1>4, <1>5, <2>2 DEF best, CheckProviderHTTPStatus, QuotaCodes, CanPay, MinCreditsNeeded
<1>6. CASE best = "apify"
  <2>1. IsProviderReady("apify", CheckApify(sample))
    BY <1>2, <1>3, <1>6
  <2>2. /\ sample.status = 200 /\ sample.readable /\ (Remaining(sample) > 0 \/ sample.limit = 0)
        /\ sample.memory + 1024 <= 4096
    <3>1. CheckApify(sample).available
      BY <2>1 DEF IsProviderReady
    <3>2. sample.status = 200 /\ sample.readable
      BY <1>0, <3>1 DEF CheckApify, Info
    <3>3. ClassifyApifyAvailability(sample).available
      BY <3>1, <3>2 DEF CheckApify
    <3>4. (Remaining(sample) > 0 \/ sample.limit = 0) /\ sample.memory + MemoryMB <= MaxMemory
      BY <3>3 DEF ClassifyApifyAvailability, Info
    <3> QED BY <3>2, <3>4 DEF MemoryMB, MaxMemory
  <2> QED BY <1>0, <1>4, <1>6, <2>2 DEF best, CheckProviderHTTPStatus, QuotaCodes, CanPay, MemoryMB, MaxMemory
<1>7. CASE best = "scraperapi"
  <2>1. IsProviderReady("scraperapi", CheckScraperAPI(sample))
    BY <1>2, <1>3, <1>7
  <2>2. /\ ~IsAuthError(sample.status)
        /\ sample.status = 200 /\ sample.readable => Remaining(sample) > 0 \/ sample.limit = 0
    <3>1. CheckScraperAPI(sample).available
      BY <2>1 DEF IsProviderReady
    <3>2. ~IsAuthError(sample.status)
      BY <3>1 DEF CheckScraperAPI, Info
    <3>3. ASSUME sample.status = 200, sample.readable PROVE Remaining(sample) > 0 \/ sample.limit = 0
      <4>1. CheckScraperAPI(sample) = ParseScraperAPIResponse(sample)
        BY <3>2, <3>3 DEF CheckScraperAPI
      <4>2. ParseScraperAPIResponse(sample).available
        BY <3>1, <4>1
      <4> QED BY <3>3, <4>2 DEF ParseScraperAPIResponse, Info
    <3> QED BY <3>2, <3>3
  <2> QED BY <1>0, <1>4, <1>7, <2>2 DEF best, CheckProviderHTTPStatus, QuotaCodes, CanPay, IsAuthError
<1> QED BY <1>1, <1>5, <1>6, <1>7 DEF best

\* For pages with any numbers, any streak of refusals and any account: a count is one
\* that the page has, a delay is bounded and never shorter than was asked for, and the
\* best provider can pay (the readers of spotify/*.go, computeScraperAPICooldown,
\* GetBestFrom).
THEOREM AnswersHold ==
  ASSUME sample \in AnyPage \cup AnyStreak \cup AnyAccount PROVE AnswersAreSound
<1>1. CASE sample \in AnyPage
  BY <1>1, PagesAreRead DEF AnyPage, AnswersAreSound, CooldownIsBounded, BestCanPay
<1>2. CASE sample \in AnyStreak
  BY <1>2, DelaysAreBounded DEF AnyStreak, AnswersAreSound, ReadingsAreReal, BestCanPay
<1>3. CASE sample \in AnyAccount
  BY <1>3, BestIsGood DEF AnyAccount, AnswersAreSound, ReadingsAreReal, CooldownIsBounded
<1> QED BY <1>1, <1>2, <1>3
=============================================================================
