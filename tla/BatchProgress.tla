---------------------------- MODULE BatchProgress ----------------------------
(***************************************************************************)
(* Batch refreshes: the stream of facts of each batch, the SQLite tables   *)
(* batches and batch_members projected from it, and the three writers that *)
(* meet there: the handler that starts a batch, the artist.updated         *)
(* callback that completes members log first, and the reconciler passes    *)
(* (ticker and polled snapshots) that complete what the callback missed.   *)
(***************************************************************************)
EXTENDS Naturals, Sequences, FiniteSets, SequencesExt

CONSTANTS Batches,     \* batch ids
          Artists,
          Old,         \* members of batch 1, open since before there was a log
          Passes,      \* reconciler passes that may run side by side
          Partial,     \* appends go message by message (JetStream), not in one transaction
          MaxMishaps   \* bound: outages of a store during a call, and process deaths

ASSUME BatchBounds ==
    /\ Batches \subseteq Nat \ {0} /\ 1 \in Batches /\ Partial \in BOOLEAN
    /\ IsFiniteSet(Artists) /\ Old \subseteq Artists
    /\ MaxMishaps \in Nat

VARIABLES status,   \* artists.fetch_status in SQLite: "pending" or not
          jobs,     \* scrape requests under way: <<batch, artist>>
          updates,  \* artists with a terminal artist.updated on its way
          log,      \* the batches' streams
          row,      \* batches: "none", "open", "done"
          member,   \* batch_members: "none", "open", "done"
          cached,   \* Store.cachedID, 0 for none
          start,    \* HandleBatchRefresh, per batch
          call,     \* markBatchArtistDone
          pass,     \* Store.Reconcile
          dropped,  \* history: completions a pass flipped and will not log
          mishaps

world  == <<status, jobs, updates>>
tables == <<row, member>>
facts  == <<log, cached>>
vars   == <<world, tables, facts, start, call, pass, dropped, mishaps>>

Idle == [pc |-> "idle", todo |-> {}]
Free == [pc |-> "idle", a |-> CHOOSE a \in Artists : TRUE, b |-> 0]

\* Batch 1 is an open batch of before the log; nothing is completed yet.
Init ==
    /\ status = [a \in Artists |-> IF a \in Old THEN "pending" ELSE "idle"]
    /\ jobs = {1} \X Old
    /\ row = [b \in Batches |-> IF b = 1 /\ Old # {} THEN "open" ELSE "none"]
    /\ member = [b \in Batches |-> [a \in Artists |-> IF b = 1 /\ a \in Old THEN "open" ELSE "none"]]
    /\ start = [b \in Batches |-> [pc |-> IF b = 1 /\ Old # {} THEN "over" ELSE "new", artists |-> {}]]
    /\ updates = {} /\ log = [b \in Batches |-> << >>] /\ cached = 0
    /\ call = Free /\ pass = [p \in Passes |-> Idle] /\ dropped = {}
    /\ mishaps = 0

Mishap == mishaps < MaxMishaps /\ mishaps' = mishaps + 1
-----------------------------------------------------------------------------
(* The aggregate: a batch's facts and what they add up to.                 *)

Started(as)  == [type |-> "BatchStarted", artists |-> as]
Completed(a) == [type |-> "BatchArtistCompleted", artists |-> {a}]
Closing      == [type |-> "BatchCompleted", artists |-> {}]

Of(l, type)  == UNION {l[i].artists : i \in {j \in DOMAIN l : l[j].type = type}}
Members(l)   == Of(l, "BatchStarted")
Finished(l)  == Of(l, "BatchArtistCompleted") \cap Members(l)
IsClosed(l)  == \E i \in DOMAIN l : l[i].type = "BatchCompleted"

\* RecordCompletion: the members that are not completed yet.
NewlyDone(l, as) == (as \cap Members(l)) \ Finished(l)

\* RecordClosed.
Close(l, new) ==
    IF Members(l) = Finished(l) \cup new /\ ~IsClosed(l) THEN <<Closing>> ELSE << >>

\* What appendCompletions wants to append for `as`; nothing new, nothing closed.
NewFacts(l, as) ==
    LET new == NewlyDone(l, as)
    IN  IF new = {} THEN << >>
        ELSE [i \in 1..Cardinality(new) |-> Completed(SetToSeq(new)[i])] \o Close(l, new)

\* What a failing append leaves of the new facts: nothing in one transaction, any
\* prefix when each is published by itself.
Torn(l, new) == {l \o SubSeq(new, 1, n) : n \in IF Partial THEN 0..Len(new) ELSE {0}}

\* seedStreamFromProjection: a batch without a stream starts one from its rows.
Seeded(b, l) ==
    IF l = << >> THEN <<Started({a \in Artists : member[b][a] # "none"})>> ELSE l

Result(l, ok, smooth) == [log |-> l, ok |-> ok, smooth |-> smooth]

\* The reload path of appendCompletions: load, seed, AppendWithRetry.
Reloaded(b, l, as, smooth) ==
    LET base == Seeded(b, l)
        new  == NewFacts(base, as)
    IN  {Result(base \o new, TRUE, smooth), Result(l, FALSE, FALSE)}
        \cup {Result(torn, FALSE, FALSE) : torn \in Torn(base, new)}

\* appendCompletions, all of it under Store.mu.  The cached aggregate is the
\* stream's own (one process appends to it); a failure drops it and reloads.
AppendResults(b, as) ==
    LET new == NewFacts(log[b], as)
    IN  IF cached # b THEN Reloaded(b, log[b], as, TRUE)
        ELSE IF new = << >> THEN {Result(log[b], TRUE, TRUE)}
        ELSE {Result(log[b] \o new, TRUE, TRUE)}
             \cup UNION {Reloaded(b, torn, as, FALSE) : torn \in Torn(log[b], new)}

AppendCompletions(b, as, ok) ==
    \E res \in AppendResults(b, as) :
        /\ res.ok = ok /\ (IF res.smooth THEN UNCHANGED mishaps ELSE Mishap)
        /\ log' = [log EXCEPT ![b] = res.log]
        /\ cached' = IF ok THEN b ELSE IF cached = b THEN 0 ELSE cached

\* The members a transaction completes, and recomputeLocked.
Done(pairs)  == [b \in Batches |-> [a \in Artists |->
                    IF <<b, a>> \in pairs /\ member[b][a] = "open" THEN "done" ELSE member[b][a]]]
Recompute(b) == IF row[b] = "open" /\ \A a \in Artists : member'[b][a] # "open" THEN "done" ELSE row[b]
-----------------------------------------------------------------------------
(* HandleBatchRefresh.                                                     *)

Starting(b, pc) == start[b].pc = pc
StartGoes(b, pc) == start' = [start EXCEPT ![b].pc = pc]
Over == [pc |-> "over", artists |-> {}]
StartEnds(b) == start' = [start EXCEPT ![b] = Over]

\* batchRefreshJobs: artists that are not being fetched.
SelectArtists(b) ==
    /\ Starting(b, "new")
    /\ \E as \in SUBSET {a \in Artists : status[a] # "pending"} :
          as # {} /\ start' = [start EXCEPT ![b] = [pc |-> "selected", artists |-> as]]
    /\ UNCHANGED <<world, tables, facts, call, pass, dropped, mishaps>>

\* abortBatchRefreshCandidates: the statuses are restored, which the save hook
\* announces.
Abort(b) ==
    /\ Mishap /\ StartEnds(b)
    /\ status' = [a \in Artists |-> IF a \in start[b].artists THEN "idle" ELSE status[a]]
    /\ updates' = updates \cup start[b].artists
    /\ UNCHANGED jobs

\* persistBatchRefreshCandidates: rows and pending statuses before the batch; the
\* PocketBase transaction or, after it, the SQLite mirror may fail.
Persist(b) ==
    /\ Starting(b, "selected")
    /\ \/ /\ status' = [a \in Artists |-> IF a \in start[b].artists THEN "pending" ELSE status[a]]
          /\ StartGoes(b, "persisted") /\ UNCHANGED <<jobs, updates, mishaps>>
       \/ Mishap /\ StartEnds(b) /\ UNCHANGED world
       \/ Abort(b)
    /\ UNCHANGED <<tables, facts, call, pass, dropped>>

\* appendStarted; the new aggregate becomes the cached one.
AppendStarted(b) ==
    /\ Starting(b, "persisted")
    /\ LET fact == <<Started(start[b].artists)>>
       IN  \/ /\ log' = [log EXCEPT ![b] = fact] /\ cached' = b
              /\ StartGoes(b, "logged") /\ UNCHANGED <<world, mishaps>>
           \/ /\ \E torn \in Torn(<< >>, fact) : log' = [log EXCEPT ![b] = torn]
              /\ Abort(b) /\ UNCHANGED cached
    /\ UNCHANGED <<tables, call, pass, dropped>>

\* No call still works on a row that has been done for two hours.
Unused(b) == call.b # b /\ \A p \in Passes : \A f \in pass[p].todo : f[1] # b

\* The transaction of Start: row, members, and old done batches pruned.
InsertBatch(b) ==
    /\ Starting(b, "logged")
    /\ \/ \E old \in SUBSET {c \in Batches : row[c] = "done" /\ Unused(c)} :
             /\ row' = [c \in Batches |-> IF c = b THEN "open" ELSE IF c \in old THEN "none" ELSE row[c]]
             /\ member' = [c \in Batches |-> [a \in Artists |->
                   IF c = b THEN IF a \in start[b].artists THEN "open" ELSE "none"
                   ELSE IF c \in old THEN "none" ELSE member[c][a]]]
             /\ StartGoes(b, "started") /\ UNCHANGED <<world, mishaps>>
       \/ Abort(b) /\ UNCHANGED tables
    /\ UNCHANGED <<facts, call, pass, dropped>>

\* publishBatchRefreshCandidates and processBatchRefreshResults: what could not
\* be dispatched is rolled back.
Dispatch(b) ==
    /\ Starting(b, "started") /\ StartEnds(b)
    /\ \E sent \in SUBSET start[b].artists :
          /\ jobs' = jobs \cup ({b} \X sent)
          /\ status' = [a \in Artists |-> IF a \in start[b].artists \ sent THEN "idle" ELSE status[a]]
          /\ updates' = updates \cup (start[b].artists \ sent)
          /\ IF sent = start[b].artists THEN UNCHANGED mishaps ELSE Mishap
    /\ UNCHANGED <<tables, facts, call, pass, dropped>>

StartStep(b) == Persist(b) \/ AppendStarted(b) \/ InsertBatch(b) \/ Dispatch(b)
-----------------------------------------------------------------------------
(* markBatchArtistDone: the subscription runs one callback at a time.      *)

\* findOpenBatchForArtist takes the batch updated last; a pass touches all of
\* them and the stamps are compared as text, so it may be any open one.
Receive(a) ==
    /\ a \in updates /\ call.pc = "idle" /\ updates' = updates \ {a}
    /\ LET open == {b \in Batches : row[b] = "open" /\ member[b][a] = "open"}
       IN  IF open = {} THEN UNCHANGED call
           ELSE \E b \in open : call' = [pc |-> "append", a |-> a, b |-> b]
    /\ UNCHANGED <<status, jobs, tables, facts, start, pass, dropped, mishaps>>

\* CompleteArtist fails closed: without the fact the tables stay as they are.
LogCompletion ==
    /\ call.pc = "append"
    /\ \E ok \in BOOLEAN :
          /\ AppendCompletions(call.b, {call.a}, ok)
          /\ call' = IF ok THEN [call EXCEPT !.pc = "mark"] ELSE Free
    /\ UNCHANGED <<world, tables, start, pass, dropped>>

\* markMemberDone.
MarkMemberDone ==
    /\ call.pc = "mark" /\ call' = Free
    /\ \/ /\ member' = Done({<<call.b, call.a>>})
          /\ row' = [row EXCEPT ![call.b] = Recompute(call.b)] /\ UNCHANGED mishaps
       \/ Mishap /\ UNCHANGED tables
    /\ UNCHANGED <<world, facts, start, pass, dropped>>

CallStep == (\E a \in Artists : Receive(a)) \/ LogCompletion \/ MarkMemberDone
-----------------------------------------------------------------------------
(* Reconcile.                                                              *)

Missed == {f \in Batches \X Artists :
              row[f[1]] = "open" /\ member[f[1]][f[2]] = "open" /\ status[f[2]] # "pending"}

SelectMissed(p) ==
    /\ pass[p].pc = "idle" /\ Missed # {}
    /\ pass' = [pass EXCEPT ![p] = [pc |-> "flip", todo |-> Missed]]
    /\ UNCHANGED <<world, tables, facts, start, call, dropped, mishaps>>

\* Mutant: the update asks for the statuses again.
FlipByStatus(p) ==
    /\ pass[p].pc = "flip"
    /\ member' = Done(Missed) /\ row' = [b \in Batches |-> Recompute(b)]
    /\ pass' = [pass EXCEPT ![p].pc = "log"]
    /\ UNCHANGED <<world, facts, start, call, dropped, mishaps>>

\* Mutant: the batches are not recomputed.
FlipOnly(p) ==
    /\ pass[p].pc = "flip"
    /\ member' = Done(pass[p].todo) /\ pass' = [pass EXCEPT ![p].pc = "log"]
    /\ UNCHANGED <<row, world, facts, start, call, dropped, mishaps>>

\* The second transaction: the members selected, and every open batch recomputed.
FlipMissed(p) ==
    /\ pass[p].pc = "flip"
    /\ \/ /\ member' = Done(pass[p].todo) /\ row' = [b \in Batches |-> Recompute(b)]
          /\ pass' = [pass EXCEPT ![p].pc = "log"] /\ UNCHANGED mishaps
       \/ Mishap /\ pass' = [pass EXCEPT ![p] = Idle] /\ UNCHANGED tables
    /\ UNCHANGED <<world, facts, start, call, dropped>>

\* One append per batch; an error ends the pass with the rest unlogged.
LogMissed(p) ==
    /\ pass[p].pc = "log"
    /\ \E b \in {f[1] : f \in pass[p].todo}, ok \in BOOLEAN :
          LET rest == {f \in pass[p].todo : f[1] # b}
          IN  /\ AppendCompletions(b, {f[2] : f \in pass[p].todo \ rest}, ok)
              /\ pass' = [pass EXCEPT ![p] = IF ok /\ rest # {} THEN [@ EXCEPT !.todo = rest] ELSE Idle]
              /\ dropped' = IF ok THEN dropped ELSE dropped \cup pass[p].todo
    /\ UNCHANGED <<world, tables, start, call>>

PassStep(p) == SelectMissed(p) \/ FlipMissed(p) \/ LogMissed(p)
-----------------------------------------------------------------------------
(* The scrape pipeline, as far as batches see it, and the process.         *)

\* A request ends: the worker or its dead letter leaves "pending" and the save
\* hook announces it, unless the publish is lost.
Finish ==
    /\ \E job \in jobs :
          /\ jobs' = jobs \ {job} /\ status' = [status EXCEPT ![job[2]] = "idle"]
          /\ updates' \in {updates, updates \cup {job[2]}}
    /\ UNCHANGED <<tables, facts, start, call, pass, dropped, mishaps>>

\* Pending artists nothing will fetch are failed by the sweeper.
Swept ==
    /\ \E a \in Artists :
          /\ status[a] = "pending" /\ \A job \in jobs : job[2] # a
          /\ \A b \in Batches : start[b].pc \in {"persisted", "logged", "started"} => a \notin start[b].artists
          /\ status' = [status EXCEPT ![a] = "idle"]
          /\ updates' \in {updates, updates \cup {a}}
    /\ UNCHANGED <<jobs, tables, facts, start, call, pass, dropped, mishaps>>

\* The process dies; it may come back on tables cmd/replay rebuilt from the
\* streams (ResetForReplay, ProjectAggregate).
Folded(b, a) ==
    IF a \notin Members(log[b]) THEN "none" ELSE IF a \in Finished(log[b]) THEN "done" ELSE "open"
Crash ==
    /\ Mishap
    /\ start' = [b \in Batches |-> IF Starting(b, "new") THEN start[b] ELSE Over]
    /\ call' = Free /\ pass' = [p \in Passes |-> Idle] /\ cached' = 0 /\ updates' = {}
    /\ \/ /\ UNCHANGED tables
          /\ dropped' = dropped \cup UNION {pass[p].todo : p \in {q \in Passes : pass[q].pc = "log"}}
       \/ /\ member' = [b \in Batches |-> [a \in Artists |-> Folded(b, a)]]
          /\ row' = [b \in Batches |-> IF log[b] = << >> THEN "none"
                                       ELSE IF Members(log[b]) = Finished(log[b]) THEN "done" ELSE "open"]
          /\ dropped' = {}
    /\ UNCHANGED <<status, jobs, log>>

Next ==
    \/ \E b \in Batches : SelectArtists(b) \/ StartStep(b)
    \/ CallStep \/ (\E p \in Passes : PassStep(p))
    \/ Finish \/ Swept \/ Crash

Spec == Init /\ [][Next]_vars

\* Some handler goes on, the callback runs, some pass ticks, requests end and the
\* sweeper runs.
FairSpec ==
    /\ Spec
    /\ WF_vars(\E b \in Batches : StartStep(b)) /\ WF_vars(CallStep)
    /\ WF_vars(\E p \in Passes : PassStep(p)) /\ WF_vars(Finish \/ Swept)
-----------------------------------------------------------------------------
Facts == {Started(as) : as \in SUBSET Artists} \cup {Completed(a) : a \in Artists} \cup {Closing}

\* Types of the streams, the tables and the program counters.
TypeOK ==
    /\ status \in [Artists -> {"idle", "pending"}] /\ jobs \subseteq Batches \X Artists
    /\ updates \subseteq Artists /\ log \in [Batches -> Seq(Facts)]
    /\ row \in [Batches -> {"none", "open", "done"}]
    /\ member \in [Batches -> [Artists -> {"none", "open", "done"}]]
    /\ cached \in Batches \cup {0}
    /\ call.pc \in {"idle", "append", "mark"} /\ (call.pc = "idle") = (call.b = 0)
    /\ \A p \in Passes : (pass[p].pc = "idle") = (pass[p].todo = {})
    /\ mishaps \in 0..MaxMishaps

\* A batch stream begins with BatchStarted, completes nobody twice and closes
\* once, last, and only when every member is completed (RecordCompletion and
\* RecordClosed, whoever appends).
LogWellFormed ==
    \A b \in Batches : LET l == log[b] IN
        /\ \A i \in DOMAIN l : (l[i].type = "BatchStarted") = (i = 1)
        /\ \A i, j \in DOMAIN l : i # j => l[i] # l[j]
        /\ \A i \in DOMAIN l : l[i].type = "BatchCompleted" => i = Len(l) /\ Members(l) = Finished(l)

Owed(b, a) == \E p \in Passes : pass[p].pc = "log" /\ <<b, a>> \in pass[p].todo
Excused(b, a) == Owed(b, a) \/ <<b, a>> \in dropped

\* A member done in the tables is completed in the log, except while the pass
\* that flipped it still has to log it, or failed to: CompleteArtist fails
\* closed on the log write and a pass flips exactly what it selected.
DoneIsLogged ==
    \A b \in Batches, a \in Artists :
        member[b][a] = "done" => a \in Finished(log[b]) \/ Excused(b, a)

\* A batch done in the tables ends with BatchCompleted in its stream, with the
\* same exceptions (appendCompletions closes what it completes).
DoneIsClosed ==
    \A b \in Batches :
        row[b] = "done" /\ (\A a \in Artists : ~Excused(b, a)) => IsClosed(log[b])

\* The batch's stream is the record its tables are read off: it tells one story
\* of the batch, and nothing is done in the tables that it does not tell.
LogIsSound == TypeOK /\ LogWellFormed /\ DoneIsLogged /\ DoneIsClosed

\* Every open batch ends, whatever messages, appends or processes were lost
\* (RunBatchReconciler).
BatchFinishes == \A b \in Batches : row[b] = "open" ~> row[b] # "open"

\* Every completion in the tables gets into the log: each catch-up is logged as
\* a BatchArtistCompleted fact (RunBatchReconciler).
CatchUpsAreLogged ==
    \A b \in Batches, a \in Artists :
        member[b][a] = "done" ~> a \in Finished(log[b])
=============================================================================
