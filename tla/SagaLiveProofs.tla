--------------------------- MODULE SagaLiveProofs ---------------------------
(***************************************************************************)
(* What the saga index shows and what a redrive repeats, for any requests, *)
(* slots, limits, faults, retries and lengths of streams; and, below, what *)
(* an open page shows of a batch.                                          *)
(*                                                                         *)
(* Rows are purged, instances pruned and reads of a tick are old when they *)
(* are written, so the ends cannot be argued from one of them.  What holds *)
(* them together is that a job stream, once it has closed, never changes:  *)
(* whatever was read of it stays true (EndsAgree), and a request that was  *)
(* won is told by its stream, with or without its row (WonIsClosed).  What *)
(* a history lists is followed place by place (OnlyKeeps).                 *)
(***************************************************************************)
EXTENDS SagaIndex, LiveViews, WellFoundedInduction, TLAPS

-----------------------------------------------------------------------------
(* The inductive invariant.                                                *)

States  == {"requested", "processing", "failed"} \cup Ended
TickRec == [pc : {"idle", "live", "open"}, todo : SUBSET Requests, req : Requests \cup {"none"},
            state : States \cup {"none"}]

Types ==
    /\ stream \in [Requests -> Seq(Facts)] /\ row \in [Requests -> Live \cup {"none", "succeeded"}]
    /\ life \in [Requests -> {"new", "opened", "over"}]
    /\ work \in [Requests -> {"none", "busy", "succeeded", "failed"}] /\ won \subseteq Requests
    /\ index \in [Requests -> States \cup {"none"}] /\ tick \in TickRec /\ faults \in Nat

\* A stream closes once, with its last fact.
ClosesLast(s) == \A i \in DOMAIN s : s[i] \in Closing => i = Len(s)
StreamsCloseLast == \A r \in Requests : ClosesLast(stream[r])

\* The last fact decides for good.
Final(s) == Status(s) \in {"succeeded", "dead_lettered"}

\* Loaded(r): the tick has read r and will write what it read.
Loaded(r) == tick.req = r /\ r # "none"

\* Whoever speaks of a success speaks of a request that was won.
SuccessIsWon ==
    \A r \in Requests :
        \/ Status(stream[r]) = "succeeded" \/ row[r] = "succeeded" \/ work[r] = "succeeded"
        \/ index[r] = "done" \/ (Loaded(r) /\ tick.state = "done")
        => r \in won

\* The stream of a request that was won has closed.
WonIsClosed == \A r \in won : Final(stream[r])

\* Who knows a request knows one that has a stream.
KnownHasStream ==
    \A r \in Requests :
        \/ life[r] # "new" \/ row[r] # "none" \/ index[r] # "none" \/ r \in tick.todo \/ Loaded(r)
        => stream[r] # << >>

\* An end that the index shows, or that the tick has read, is the stream's.
EndsAgree ==
    \A r \in Requests :
        /\ index[r] \in Ended => StateOf(stream[r]) = index[r]
        /\ Loaded(r) /\ tick.state \in Ended => StateOf(stream[r]) = tick.state
        /\ Loaded(r) /\ index[r] \in Ended => tick.state = index[r]

FaultFree == faults = 0 => WonIsClosed /\ KnownHasStream /\ EndsAgree
IInv      == Types /\ StreamsCloseLast /\ SuccessIsWon /\ FaultFree
-----------------------------------------------------------------------------
(* Job streams.                                                            *)

LEMMA Ends ==
  ASSUME NEW s \in Seq(Facts), ClosesLast(s)
  PROVE  /\ Closed(s) <=> Final(s)
         /\ StateOf(s) \in States
         /\ StateOf(s) = "done" <=> Status(s) = "succeeded"
         /\ StateOf(s) = "dead" <=> Status(s) = "dead_lettered"
         /\ s = << >> => ~Closed(s) /\ Status(s) = "none"
<1>1. CASE s = << >>
  BY <1>1 DEF Closed, Final, Status, StateOf, States
<1>2. CASE s # << >>
  <2>1. Len(s) \in DOMAIN s /\ s[Len(s)] \in Facts
    BY <1>2
  <2>2. Closed(s) <=> s[Len(s)] \in Closing
    BY <2>1 DEF Closed, ClosesLast
  <2>3. Status(s) = StatusAfter[s[Len(s)]]
    BY <1>2 DEF Status
  <2>4. Closed(s) <=> Final(s)
    BY <2>1, <2>2, <2>3 DEF Final, Facts, Closing, StatusAfter
  <2>5. /\ Closed(s) /\ Status(s) = "succeeded" => StateOf(s) = "done"
        /\ Closed(s) /\ Status(s) # "succeeded" => StateOf(s) = "dead"
        /\ ~Closed(s) => StateOf(s) \in {"requested", "processing", "failed"}
    BY <2>4 DEF StateOf, Final
  <2> QED BY <1>2, <2>4, <2>5 DEF States, Ended, Final
<1> QED BY <1>1, <1>2

\* A stream that is final stays as it is, and one that has begun goes on.
Extends(s, t) == (Final(s) => t = s) /\ (s # << >> => t # << >>)

LEMMA Seeds ==
  ASSUME NEW s \in Seq(Facts), ClosesLast(s)
  PROVE  /\ Seeded(s) \in Seq(Facts) /\ ClosesLast(Seeded(s)) /\ Seeded(s) # << >>
         /\ Closed(Seeded(s)) <=> Closed(s)
         /\ Extends(s, Seeded(s)) /\ (Status(Seeded(s)) = "succeeded" => Status(s) = "succeeded")
<1>1. CASE s = << >>
  <2>1. Seeded(s) = <<"requested">> /\ "requested" \in Facts /\ "requested" \notin Closing
    BY <1>1 DEF Seeded, Facts, Closing
  <2>2. Status(Seeded(s)) = "queued" /\ Seeded(s) # << >>
    BY <2>1 DEF Status, StatusAfter
  <2>3. \A i \in DOMAIN Seeded(s) : Seeded(s)[i] = "requested"
    BY <2>1
  <2>4. Seeded(s) \in Seq(Facts) /\ ClosesLast(Seeded(s)) /\ ~Closed(Seeded(s))
    BY <2>1, <2>3 DEF ClosesLast, Closed
  <2> QED BY <1>1, <2>2, <2>4, Ends DEF Extends
<1>2. CASE s # << >>
  BY <1>2 DEF Seeded, Extends
<1> QED BY <1>1, <1>2

LEMMA Records ==
  ASSUME NEW s \in Seq(Facts), ClosesLast(s), NEW f \in Facts
  PROVE  /\ Recorded(s, <<f>>) \in Seq(Facts) /\ ClosesLast(Recorded(s, <<f>>))
         /\ Extends(s, Recorded(s, <<f>>)) /\ Recorded(s, <<f>>) # << >>
         /\ f = "succeeded" => Final(Recorded(s, <<f>>))
         /\ Status(Recorded(s, <<f>>)) = "succeeded" => Status(s) = "succeeded" \/ f = "succeeded"
<1> DEFINE t == Seeded(s) \o <<f>>
<1>1. CASE Closed(s)
  <2>1. Recorded(s, <<f>>) = s /\ s # << >> /\ Final(s)
    BY <1>1, Ends DEF Recorded
  <2> QED BY <2>1 DEF Extends
<1>2. CASE ~Closed(s)
  <2>1. Recorded(s, <<f>>) = t /\ ~Final(s)
    BY <1>2, Ends DEF Recorded
  <2>2. /\ t \in Seq(Facts) /\ Len(t) = Len(Seeded(s)) + 1 /\ t[Len(t)] = f
        /\ \A i \in DOMAIN t : i = Len(t) \/ (i \in DOMAIN Seeded(s) /\ t[i] = Seeded(s)[i])
    BY Seeds
  <2>3. ClosesLast(t)
    BY <1>2, <2>2, Seeds DEF ClosesLast, Closed
  <2>4. t # << >> /\ Status(t) = StatusAfter[f]
    BY <2>2, Seeds DEF Status
  <2>5. Status(t) = "succeeded" <=> f = "succeeded"
    BY <2>4 DEF StatusAfter, Facts
  <2> QED BY <2>1, <2>2, <2>3, <2>4, <2>5 DEF Extends, Final
<1> QED BY <1>1, <1>2

\* What appending a fact to a request's stream does to the streams.
LEMMA Facting ==
  ASSUME Types, StreamsCloseLast, NEW r \in Requests, NEW f \in Facts, Facted(r, <<f>>)
  PROVE  /\ stream' \in [Requests -> Seq(Facts)] /\ StreamsCloseLast' /\ faults' \in Nat
         /\ faults' = 0 => faults = 0
         /\ \A q \in Requests : /\ Extends(stream[q], stream'[q])
                                /\ q # r => stream'[q] = stream[q]
         /\ Status(stream'[r]) = "succeeded" => Status(stream[r]) = "succeeded" \/ f = "succeeded"
         /\ faults' = 0 => stream'[r] # << >> /\ (f = "succeeded" => Final(stream'[r]))
<1>1. CASE stream' = [stream EXCEPT ![r] = Recorded(@, <<f>>)] /\ UNCHANGED faults
  BY <1>1, Records DEF Types, StreamsCloseLast, Extends
<1>2. CASE Fault /\ UNCHANGED stream
  BY <1>2 DEF Fault, Types, StreamsCloseLast, Extends
<1> QED BY <1>1, <1>2 DEF Facted

LEMMA RowMoves ==
  ASSUME Types, NEW r \in Requests, NEW to \in Live \cup {"succeeded"}, RowTo(r, to)
  PROVE  /\ row' \in [Requests -> Live \cup {"none", "succeeded"}]
         /\ \A q \in Requests : /\ (row'[q] = "none") = (row[q] = "none")
                                /\ row'[q] = row[q] \/ (q = r /\ row'[q] = to)
BY DEF Types, RowTo, Live
-----------------------------------------------------------------------------
(* The requests.                                                           *)

\* A step of a request keeps the invariant when it keeps final streams, speaks
\* of no success that was not won, and opens a stream with whatever it starts.
LEMMA RequestKeeps ==
  ASSUME IInv, UNCHANGED saga, Types', StreamsCloseLast', won \subseteq won',
         faults' = 0 => faults = 0,
         \A q \in Requests :
            /\ Extends(stream[q], stream'[q])
            /\ Status(stream'[q]) = "succeeded" => Status(stream[q]) = "succeeded" \/ q \in won'
            /\ row'[q] = "succeeded" => row[q] = "succeeded" \/ q \in won'
            /\ work'[q] = "succeeded" => work[q] = "succeeded" \/ q \in won'
            /\ faults' = 0 =>
                 /\ q \in won' => q \in won \/ Final(stream'[q])
                 /\ life'[q] # "new" => life[q] # "new" \/ stream'[q] # << >>
                 /\ row'[q] # "none" => row[q] # "none" \/ stream'[q] # << >>
  PROVE  IInv'
<1>1. SuccessIsWon'
  BY DEF IInv, SuccessIsWon, saga, Loaded
<1>2. ASSUME faults' = 0 PROVE WonIsClosed' /\ KnownHasStream' /\ EndsAgree'
  <2>1. WonIsClosed /\ KnownHasStream /\ EndsAgree
    BY <1>2 DEF IInv, FaultFree
  <2>2. WonIsClosed'
    BY <1>2, <2>1 DEF WonIsClosed, Extends, Types
  <2>3. KnownHasStream'
    BY <1>2, <2>1 DEF KnownHasStream, Extends, saga, Loaded
  <2>4. ASSUME NEW q \in Requests, StateOf(stream[q]) \in Ended PROVE stream'[q] = stream[q]
    <3>1. Final(stream[q])
      BY <2>4, Ends DEF IInv, Types, StreamsCloseLast, Final, Ended
    <3> QED BY <3>1 DEF Extends
  <2>5. EndsAgree'
    BY <2>1, <2>4 DEF EndsAgree, saga, Loaded
  <2> QED BY <2>2, <2>3, <2>5
<1> QED BY <1>1, <1>2 DEF IInv, FaultFree

\* Steps that append at most one fact.
LEMMA StepKeeps ==
  ASSUME IInv, NEW r \in Requests, Step(r)
  PROVE  IInv'
<1> USE DEF IInv
<1>1. CASE Accept(r)
  <2>1. \/ stream' = [stream EXCEPT ![r] = Opened(@)] /\ UNCHANGED faults
        \/ Fault /\ UNCHANGED stream
    BY <1>1 DEF Accept
  <2>2. /\ stream' \in [Requests -> Seq(Facts)] /\ StreamsCloseLast' /\ faults' \in Nat
        /\ faults' = 0 => faults = 0 /\ stream'[r] # << >>
        /\ \A q \in Requests : /\ Extends(stream[q], stream'[q])
                               /\ q # r => stream'[q] = stream[q]
        /\ Status(stream'[r]) = "succeeded" => Status(stream[r]) = "succeeded"
    <3>1. CASE stream' = [stream EXCEPT ![r] = Opened(@)] /\ UNCHANGED faults
      BY <3>1, Seeds DEF Opened, Types, StreamsCloseLast, Extends
    <3>2. CASE Fault /\ UNCHANGED stream
      BY <3>2 DEF Fault, Types, StreamsCloseLast, Extends
    <3> QED BY <2>1, <3>1, <3>2
  <2>3. /\ life' = [life EXCEPT ![r] = "opened"] /\ row' = [row EXCEPT ![r] = "queued"]
        /\ UNCHANGED <<work, won, index, tick>>
    BY <1>1 DEF Accept, saga
  <2>4. Types'
    BY <2>2, <2>3 DEF Types, Live
  <2> QED BY <2>2, <2>3, <2>4, RequestKeeps DEF saga, Types
<1>2. CASE Publish(r)
  <2>1. CASE UNCHANGED <<stream, row>>
    <3>1. /\ life' = [life EXCEPT ![r] = "over"] /\ UNCHANGED <<work, won, index, tick>>
          /\ life[r] = "opened" /\ faults' \in Nat /\ (faults' = 0 => faults = 0)
      BY <1>2, <2>1 DEF Publish, saga, Fault, Types
    <3>2. Types' /\ StreamsCloseLast'
      BY <2>1, <3>1 DEF Types, StreamsCloseLast
    <3> QED BY <2>1, <3>1, <3>2, RequestKeeps DEF saga, Extends, Types
  <2>2. CASE Fault /\ stream' = [stream EXCEPT ![r] = Recorded(@, <<"failed">>)]
             /\ row' = [row EXCEPT ![r] = "none"]
    <3>1. /\ life' = [life EXCEPT ![r] = "over"] /\ UNCHANGED <<work, won, index, tick>>
          /\ faults' \in Nat /\ faults' > 0
      BY <1>2, <2>2 DEF Publish, saga, Fault, Types
    <3>2. /\ Recorded(stream[r], <<"failed">>) \in Seq(Facts)
          /\ ClosesLast(Recorded(stream[r], <<"failed">>))
          /\ Extends(stream[r], Recorded(stream[r], <<"failed">>))
          /\ Status(Recorded(stream[r], <<"failed">>)) = "succeeded" => Status(stream[r]) = "succeeded"
      BY Records DEF Types, StreamsCloseLast, Facts
    <3>3. Types' /\ StreamsCloseLast'
      BY <2>2, <3>1, <3>2 DEF Types, StreamsCloseLast
    <3> QED BY <2>2, <3>1, <3>2, <3>3, RequestKeeps DEF saga, Extends, Types
  <2> QED BY <1>2, <2>1, <2>2 DEF Publish
<1>3. CASE Start(r)
  <2>1. CASE UNCHANGED <<stream, row, work, faults>>
    <3>1. UNCHANGED <<life, won, index, tick>>
      BY <1>3 DEF Start, saga
    <3>2. Types' /\ StreamsCloseLast'
      BY <2>1, <3>1 DEF Types, StreamsCloseLast
    <3> QED BY <2>1, <3>1, <3>2, RequestKeeps DEF saga, Extends, Types
  <2>2. CASE Facted(r, <<"started">>) /\ RowTo(r, "processing") /\ work' = [work EXCEPT ![r] = "busy"]
    <3>1. UNCHANGED <<life, won, index, tick>>
      BY <1>3 DEF Start, saga
    <3>2. "started" \in Facts /\ "processing" \in Live \cup {"succeeded"}
      BY DEF Facts, Live
    <3>3. Types'
      BY <2>2, <3>1, <3>2, Facting, RowMoves DEF Types
    <3>4. /\ StreamsCloseLast' /\ (faults' = 0 => faults = 0 /\ stream'[r] # << >>)
          /\ \A q \in Requests : /\ Extends(stream[q], stream'[q])
                                 /\ q # r => stream'[q] = stream[q]
          /\ Status(stream'[r]) = "succeeded" => Status(stream[r]) = "succeeded"
      BY <2>2, <3>2, Facting
    <3>5. \A q \in Requests : /\ row'[q] # "none" => row[q] # "none"
                              /\ row'[q] = "succeeded" => row[q] = "succeeded"
                              /\ work'[q] = "succeeded" => work[q] = "succeeded"
      BY <2>2, <3>2, RowMoves DEF Types
    <3> QED BY <3>1, <3>3, <3>4, <3>5, RequestKeeps DEF saga, Types
  <2> QED BY <1>3, <2>1, <2>2 DEF Start
<1>4. CASE Finish(r)
  <2>1. PICK outcome \in {"succeeded", "failed", "deadlettered"} :
           /\ Facted(r, <<outcome>>)
           /\ won' = IF outcome = "succeeded" THEN won \cup {r} ELSE won
           /\ work' = [work EXCEPT ![r] = IF outcome = "succeeded" THEN outcome ELSE "failed"]
    BY <1>4 DEF Finish
  <2>2. UNCHANGED <<life, row, index, tick>>
    BY <1>4 DEF Finish, saga
  <2>3. outcome \in Facts
    BY DEF Facts
  <2>4. Types'
    BY <2>1, <2>2, <2>3, Facting DEF Types
  <2> QED BY <2>1, <2>2, <2>3, <2>4, Facting, RequestKeeps DEF saga, Types
<1>5. CASE Settle(r)
  <2>1. /\ RowTo(r, work[r]) /\ work[r] \in {"succeeded", "failed"} /\ work' = [work EXCEPT ![r] = "none"]
        /\ UNCHANGED <<life, stream, won, index, tick, faults>>
    BY <1>5 DEF Settle, saga
  <2>2. work[r] \in Live \cup {"succeeded"} /\ (work[r] = "succeeded" => r \in won)
    BY <2>1 DEF Live, SuccessIsWon
  <2>3. Types' /\ StreamsCloseLast'
    BY <2>1, <2>2, RowMoves DEF Types, StreamsCloseLast
  <2> QED BY <2>1, <2>2, <2>3, RowMoves, RequestKeeps DEF saga, Extends, Types
<1>6. CASE Spent(r)
  <2>1. /\ work' = [work EXCEPT ![r] = "none"]
        /\ UNCHANGED <<life, stream, row, won, index, tick, faults>>
    BY <1>6 DEF Spent, saga
  <2>2. Types' /\ StreamsCloseLast'
    BY <2>1 DEF Types, StreamsCloseLast
  <2> QED BY <2>1, <2>2, RequestKeeps DEF saga, Extends, Types
<1>7. CASE Sweep(r)
  <2>1. UNCHANGED <<life, work, won, index, tick>>
    BY <1>7 DEF Sweep, saga
  <2>2. CASE Decided(r) /\ RowTo(r, "succeeded") /\ UNCHANGED <<stream, faults>>
    <3>1. r \in won /\ "succeeded" \in Live \cup {"succeeded"}
      BY <2>2 DEF Decided, SuccessIsWon
    <3>2. Types' /\ StreamsCloseLast'
      BY <2>1, <2>2, <3>1, RowMoves DEF Types, StreamsCloseLast
    <3> QED BY <2>1, <2>2, <3>1, <3>2, RowMoves, RequestKeeps DEF saga, Extends, Types
  <2>3. CASE Facted(r, <<"failed">>) /\ RowTo(r, "failed")
    <3>1. "failed" \in Facts /\ "failed" \in Live \cup {"succeeded"}
      BY DEF Facts, Live
    <3>2. Types'
      BY <2>1, <2>3, <3>1, Facting, RowMoves DEF Types
    <3> QED BY <2>1, <2>3, <3>1, <3>2, Facting, RowMoves, RequestKeeps DEF saga, Types
  <2> QED BY <1>7, <2>2, <2>3 DEF Sweep
<1> QED BY <1>1, <1>2, <1>3, <1>4, <1>5, <1>6, <1>7 DEF Step

\* Steps from outside that touch rows and messages only.
LEMMA OutsideKeeps ==
  ASSUME IInv, NEW r \in Requests, Outside(r)
  PROVE  IInv'
<1> USE DEF IInv
<1>1. /\ UNCHANGED <<life, stream, work, won, index, tick, faults>>
      /\ \/ row' = [row EXCEPT ![r] = "none"] \/ RowTo(r, "queued") \/ UNCHANGED row
  BY DEF Outside, Purge, Retry, Redrive, saga
<1>2. "queued" \in Live \cup {"succeeded"}
  BY DEF Live
<1>3. /\ row' \in [Requests -> Live \cup {"none", "succeeded"}]
      /\ \A q \in Requests : /\ row'[q] # "none" => row[q] # "none"
                             /\ row'[q] = "succeeded" => row[q] = "succeeded"
  BY <1>1, <1>2, RowMoves DEF Types
<1>4. Types' /\ StreamsCloseLast'
  BY <1>1, <1>3 DEF Types, StreamsCloseLast
<1> QED BY <1>1, <1>3, <1>4, RequestKeeps DEF saga, Extends, Types
-----------------------------------------------------------------------------
(* The orchestrator.                                                       *)

\* What a request derives to when it has a stream, and when it has none.
LEMMA Deriving ==
  ASSUME IInv, NEW r \in Requests
  PROVE  /\ Derived(r) \in States
         /\ Derived(r) = "done" => r \in won
         /\ stream[r] # << >> => Derived(r) = StateOf(stream[r])
<1>1. StateOf(stream[r]) \in States /\ (StateOf(stream[r]) = "done" => r \in won)
  BY Ends DEF IInv, Types, StreamsCloseLast, SuccessIsWon
<1>2. CASE stream[r] # << >>
  BY <1>1, <1>2 DEF Derived
<1>3. CASE stream[r] = << >>
  BY <1>3 DEF Derived, IInv, SuccessIsWon, States, Ended
<1> QED BY <1>2, <1>3

LEMMA TickKeeps ==
  ASSUME IInv, Tick
  PROVE  IInv'
<1> USE DEF IInv
<1>1. UNCHANGED <<stream, row, life, work, won, faults>> /\ StreamsCloseLast'
  BY DEF Tick, ListLive, ListOpen, Upsert, EndTick, Load, Ticks, jobs, StreamsCloseLast
<1>2. /\ Between \in TickRec /\ tick \in TickRec
      /\ Between.todo = {} /\ Between.req = "none"
  BY DEF Between, TickRec, Types
<1>3. ASSUME NEW pc \in {"live", "open"}, NEW instances \in SUBSET Requests, UNCHANGED index,
             tick' = [Between EXCEPT !.pc = pc, !.todo = instances],
             faults = 0 => \A r \in instances : stream[r] # << >>
      PROVE  IInv'
  <2>1. tick' \in TickRec /\ tick'.todo = instances /\ tick'.req = "none"
    BY <1>2, <1>3 DEF Between, TickRec
  <2>2. Types' /\ SuccessIsWon'
    BY <1>1, <1>3, <2>1 DEF Types, SuccessIsWon, Loaded
  <2>3. FaultFree'
    BY <1>1, <1>3, <2>1 DEF FaultFree, WonIsClosed, KnownHasStream, EndsAgree, Loaded
  <2> QED BY <1>1, <2>2, <2>3
<1>4. CASE ListLive
  <2> DEFINE instances == {r \in Requests : row[r] \in Live}
  <2>1. UNCHANGED index /\ tick' = [Between EXCEPT !.pc = "live", !.todo = instances]
    BY <1>4 DEF ListLive, Ticks
  <2>2. faults = 0 => \A r \in instances : stream[r] # << >>
    BY DEF FaultFree, KnownHasStream, Live
  <2> HIDE DEF instances
  <2> QED BY <2>1, <2>2, <1>3 DEF instances
<1>5. CASE ListOpen
  <2>1. PICK instances \in SUBSET OpenRows :
           UNCHANGED index /\ tick' = [Between EXCEPT !.pc = "open", !.todo = instances]
    BY <1>5 DEF ListOpen, Ticks
  <2>2. instances \in SUBSET Requests /\ (faults = 0 => \A r \in instances : stream[r] # << >>)
    BY DEF OpenRows, FaultFree, KnownHasStream
  <2> QED BY <2>1, <2>2, <1>3
<1>6. ASSUME NEW r \in Requests, Load(r) PROVE IInv'
  <2>1. /\ r \in tick.todo /\ UNCHANGED index
        /\ tick' = [tick EXCEPT !.todo = @ \ {r}, !.req = r, !.state = Derived(r)]
    BY <1>6 DEF Load, Ticks
  <2>2. /\ tick' \in TickRec /\ tick'.todo = tick.todo \ {r} /\ tick'.req = r
        /\ tick'.state = Derived(r)
    BY <1>2, <2>1, Deriving DEF TickRec
  <2>3. Types' /\ SuccessIsWon'
    BY <1>1, <2>1, <2>2, Deriving DEF Types, SuccessIsWon, Loaded
  <2>4. ASSUME faults = 0 PROVE WonIsClosed' /\ KnownHasStream' /\ EndsAgree'
    <3>1. stream[r] # << >> /\ Derived(r) = StateOf(stream[r])
      BY <2>1, <2>4, Deriving DEF FaultFree, KnownHasStream
    <3> QED BY <1>1, <2>1, <2>2, <2>4, <3>1 DEF FaultFree, WonIsClosed, KnownHasStream, EndsAgree, Loaded
  <2> QED BY <1>1, <2>3, <2>4 DEF FaultFree
<1>7. CASE Upsert
  <2>1. /\ tick.req # "none" /\ tick.req \in Requests
        /\ tick' = [tick EXCEPT !.req = "none", !.state = "none"]
        /\ index' = [index EXCEPT ![tick.req] = tick.state]
    BY <1>2, <1>7 DEF Upsert, Ticks, TickRec
  <2>2. /\ tick' \in TickRec /\ tick'.todo = tick.todo /\ tick'.req = "none"
        /\ tick.state \in States \cup {"none"}
    BY <1>2, <2>1 DEF TickRec
  <2>3. Types' /\ SuccessIsWon'
    BY <1>1, <2>1, <2>2 DEF Types, SuccessIsWon, Loaded
  <2>4. FaultFree'
    BY <1>1, <2>1, <2>2 DEF FaultFree, WonIsClosed, KnownHasStream, EndsAgree, Loaded, Types
  <2> QED BY <1>1, <2>3, <2>4
<1>8. CASE EndTick
  <2>1. /\ tick' = Between
        /\ index' \in [Requests -> States \cup {"none"}]
        /\ \A r \in Requests : index'[r] \in {index[r], "none"}
    BY <1>8 DEF EndTick, Ticks, Types
  <2>2. Types' /\ SuccessIsWon'
    BY <1>1, <1>2, <2>1 DEF Types, SuccessIsWon, Loaded
  <2>3. FaultFree'
    BY <1>1, <1>2, <2>1 DEF FaultFree, WonIsClosed, KnownHasStream, EndsAgree, Loaded, Ended
  <2> QED BY <1>1, <2>2, <2>3
<1> QED BY <1>4, <1>5, <1>6, <1>7, <1>8 DEF Tick
-----------------------------------------------------------------------------
(* The theorems.                                                           *)

LEMMA Initially == Init => IInv
<1> SUFFICES ASSUME Init PROVE IInv
  OBVIOUS
<1>1. /\ \A r \in Requests : /\ stream[r] = << >> /\ row[r] = "none" /\ life[r] = "new"
                             /\ work[r] = "none" /\ index[r] = "none"
      /\ won = {} /\ tick = Between /\ faults = 0
  BY DEF Init
<1>2. Between \in TickRec /\ Between.todo = {} /\ Between.req = "none"
  BY DEF Between, TickRec
<1>3. Types
  BY <1>1, <1>2 DEF Init, Types
<1>4. StreamsCloseLast
  BY <1>1 DEF StreamsCloseLast, ClosesLast
<1>5. \A r \in Requests : Status(stream[r]) = "none"
  BY <1>1 DEF Status
<1> QED BY <1>1, <1>2, <1>3, <1>4, <1>5
        DEF IInv, SuccessIsWon, FaultFree, WonIsClosed, KnownHasStream, EndsAgree, Loaded, Ended

LEMMA Inductive == IInv /\ [Next]_vars => IInv'
<1> SUFFICES ASSUME IInv, [Next]_vars PROVE IInv'
  OBVIOUS
<1>1. CASE Tick
  BY <1>1, TickKeeps
<1>2. ASSUME NEW r \in Requests, Step(r) \/ Outside(r) PROVE IInv'
  BY <1>2, StepKeeps, OutsideKeeps
<1>3. CASE UNCHANGED vars
  BY <1>3 DEF vars, jobs, saga, IInv, Types, StreamsCloseLast, SuccessIsWon, FaultFree, WonIsClosed,
              KnownHasStream, EndsAgree, Loaded
<1> QED BY <1>1, <1>2, <1>3 DEF Next

LEMMA Invariance == Spec => []IInv
BY Initially, Inductive, PTL DEF Spec

\* What the index calls done has been won, and, while no append has failed, what
\* it calls dead is dead-lettered: an instance that has neither row nor stream
\* is never made (refreshInstance, DeriveState).
LEMMA EndsHaveCause == IInv => TypeOK /\ EndsAreReal
<1> SUFFICES ASSUME IInv, NEW r \in Requests
             PROVE  /\ stream[r] \in Seq(Facts) /\ row[r] \in Live \cup {"none", "succeeded"}
                    /\ index[r] \in {"none", "requested", "processing", "failed"} \cup Ended
                    /\ index[r] = "done" => r \in won
                    /\ index[r] = "dead" => Status(stream[r]) = "dead_lettered" \/ faults > 0
  BY DEF TypeOK, EndsAreReal
<1>1. index[r] = "done" => r \in won
  BY DEF IInv, SuccessIsWon
<1>2. ASSUME index[r] = "dead", faults = 0 PROVE Status(stream[r]) = "dead_lettered"
  BY <1>2, Ends DEF IInv, Types, StreamsCloseLast, FaultFree, EndsAgree, Ended
<1> QED BY <1>1, <1>2 DEF IInv, Types, States

LEMMA EndStays ==
  ASSUME IInv, [Next]_vars, NEW r \in Requests, index[r] \in Ended, faults = 0
  PROVE  index'[r] \in {index[r], "none"}
<1>1. CASE Upsert
  <2>1. index' = [index EXCEPT ![tick.req] = tick.state] /\ tick.req # "none"
    BY <1>1 DEF Upsert
  <2>2. tick.req = r => tick.state = index[r]
    BY <2>1 DEF IInv, FaultFree, EndsAgree, Loaded
  <2> QED BY <2>1, <2>2 DEF IInv, Types
<1>2. CASE EndTick
  BY <1>2 DEF EndTick
<1>3. CASE UNCHANGED index
  BY <1>3
<1>4. UNCHANGED index \/ Upsert \/ EndTick
  BY DEF Next, Tick, ListLive, ListOpen, Load, Step, Accept, Publish, Start, Finish, Settle, Spent, Sweep,
         Outside, Purge, Retry, Redrive, vars, saga
<1> QED BY <1>1, <1>2, <1>3, <1>4

LEMMA WonStaysIdle ==
  ASSUME IInv, [Next]_vars, NEW r \in Requests, work'[r] = "busy", work[r] # "busy", faults = 0
  PROVE  r \notin won \/ Status(stream[r]) = "dead_lettered"
<1>1. PICK q \in Requests : Start(q) \/ Finish(q) \/ Settle(q) \/ Spent(q)
  BY DEF Next, Tick, ListLive, ListOpen, Load, Upsert, EndTick, Ticks, jobs, Step, Accept, Publish, Sweep,
         Outside, Purge, Retry, Redrive, vars
<1>2. CASE Start(q)
  <2>1. q = r /\ ~Decided(r)
    BY <1>2 DEF Start, IInv, Types
  <2> QED BY <2>1 DEF Decided, IInv, FaultFree, WonIsClosed, Final
<1>3. CASE Finish(q) \/ Settle(q) \/ Spent(q)
  <2>1. \E to \in {"none", "succeeded", "failed"} : work' = [work EXCEPT ![q] = to]
    BY <1>3 DEF Finish, Settle, Spent
  <2> QED BY <2>1 DEF IInv, Types
<1> QED BY <1>1, <1>2, <1>3

\* An end that the index shows has its cause, and stays until it is pruned,
\* however old the read was that a refresh writes (refreshInstance,
\* pruneTerminal).
THEOREM EndsAreFinal == Spec => [](TypeOK /\ EndsAreReal) /\ EndsStay
<1>1. IInv /\ [Next]_vars => [\A r \in Requests :
         index[r] \in Ended /\ faults = 0 => index'[r] \in {index[r], "none"}]_vars
  BY EndStays
<1> QED BY <1>1, EndsHaveCause, Invariance, PTL DEF Spec, EndsStay

\* A redrive, a retry or a redelivery of a request that was won is answered
\* without a scrape, with its row or after the purge, unless its stream was
\* dead-lettered before (requestStreamVerdict).
THEOREM WonIsSkipped == Spec => WonIsNotRepeated
<1>1. IInv /\ [Next]_vars => [\A r \in Requests :
         work'[r] = "busy" /\ work[r] # "busy" /\ faults = 0
           => r \notin won \/ Status(stream[r]) = "dead_lettered"]_vars
  BY WonStaysIdle
<1> QED BY <1>1, Invariance, PTL DEF Spec, WonIsNotRepeated

-----------------------------------------------------------------------------
(* The history of an artist: what a list keeps of another.                 *)

\* A set of naturals has a least element.
LEMMA LeastExists ==
  ASSUME NEW T \in SUBSET Nat, T # {}
  PROVE  \E x \in T : \A y \in T : x <= y
<1>1. PICK x \in T : \A y \in T : <<y, x>> \notin OpToRel(<, Nat)
  BY WFMin, NatLessThanWellFounded, Zenon
<1>2. \A y \in T : ~(y < x)
  BY <1>1 DEF OpToRel
<1> QED BY <1>2

\* What holds at 0 and is handed on from each place to the next holds everywhere.
LEMMA Climb ==
  ASSUME NEW N \in Nat, NEW T, 0 \in T, \A k \in 1..N : k - 1 \in T => k \in T
  PROVE  \A k \in 0..N : k \in T
<1> DEFINE U == {k \in 0..N : k \notin T}
<1> SUFFICES ASSUME U # {} PROVE FALSE
  OBVIOUS
<1>1. U \in SUBSET Nat
  OBVIOUS
<1>2. PICK k \in U : \A l \in U : k <= l
  BY <1>1, LeastExists
<1>3. k # 0 /\ k - 1 \in 0..N /\ k - 1 \notin U
  BY <1>2
<1> QED BY <1>3

\* The recursive function by which FlattenSeq is defined.
Flattening(g, seqs, n) == g = [i \in 1..n |-> IF i = 1 THEN seqs[i] ELSE g[i - 1] \o seqs[i]]

\* That function exists.
LEMMA FlatteningExists ==
  ASSUME NEW seqs, NEW N \in Nat
  PROVE  \E g : Flattening(g, seqs, N)
<1> DEFINE T == {n \in 0..N : \E g : Flattening(g, seqs, n)}
<1>1. 0 \in T
  <2> DEFINE g == [i \in 1..0 |-> seqs[i]]
  <2>1. \A i \in 1..0 : FALSE
    OBVIOUS
  <2>2. Flattening(g, seqs, 0)
    BY <2>1 DEF Flattening
  <2> QED BY <2>2
<1>2. ASSUME NEW k \in 1..N, k - 1 \in T PROVE k \in T
  <2>1. PICK g : Flattening(g, seqs, k - 1)
    BY <1>2
  <2> DEFINE h == [i \in 1..k |-> IF i = 1 THEN seqs[i] ELSE g[i - 1] \o seqs[i]]
  <2>0. k \in Nat /\ k > 0
    OBVIOUS
  <2>2. ASSUME NEW i \in 1..(k - 1) PROVE h[i] = g[i]
    <3>1. g[i] = IF i = 1 THEN seqs[i] ELSE g[i - 1] \o seqs[i]
      BY <2>1, Zenon DEF Flattening
    <3>2. i \in 1..k
      BY <2>0
    <3> QED BY <3>1, <3>2, Zenon
  <2>3. ASSUME NEW i \in 1..k PROVE h[i] = IF i = 1 THEN seqs[i] ELSE h[i - 1] \o seqs[i]
    <3>1. i # 1 => i - 1 \in 1..(k - 1)
      BY <2>0
    <3>2. i # 1 => h[i - 1] = g[i - 1]
      BY <2>2, <3>1
    <3> QED BY <3>2, Zenon
  <2>4. h = [i \in 1..k |-> h[i]]
    OBVIOUS
  <2> HIDE DEF h
  <2>5. Flattening(h, seqs, k)
    BY <2>3, <2>4 DEF Flattening
  <2> QED BY <2>5
<1> HIDE DEF T
<1>3. N \in T
  BY <1>1, <1>2, Climb
<1> QED BY <1>3 DEF T

\* What a list keeps is found place by place.
Keep(s, found, i) == IF s[i] \in found THEN <<s[i]>> ELSE << >>
LEMMA OnlyIsRun ==
  ASSUME NEW s, Len(s) \in Nat, DOMAIN s = 1..Len(s), NEW found
  PROVE  \E f : /\ f[0] = << >> /\ f[1] = (IF Len(s) = 0 THEN f[1] ELSE Keep(s, found, 1))
                /\ \A k \in 1..Len(s) : k # 1 => f[k] = f[k - 1] \o Keep(s, found, k)
                /\ Only(s, found) = f[Len(s)]
<1> DEFINE N    == Len(s)
           kept == [i \in DOMAIN s |-> IF s[i] \in found THEN <<s[i]>> ELSE << >>]
           g    == CHOOSE g : Flattening(g, kept, N)
           f    == [k \in 0..N |-> IF k = 0 THEN << >> ELSE g[k]]
<1>0. N \in Nat /\ DOMAIN s = 1..N
  OBVIOUS
<1>1. Flattening(g, kept, N)
  BY FlatteningExists
<1>2. kept = [i \in 1..N |-> Keep(s, found, i)] /\ Len(kept) = N
  BY <1>0 DEF Keep
<1>3. N # 0 => Only(s, found) = g[N]
  BY <1>2 DEF Only, FlattenSeq, Flattening
<1>4. N = 0 => Only(s, found) = << >>
  <2> SUFFICES ASSUME N = 0 PROVE kept = << >>
    BY <1>2 DEF Only, FlattenSeq
  <2>1. kept = [i \in 1..0 |-> Keep(s, found, i)]
    BY <1>2
  <2> QED BY <2>1
<1>5. \A k \in 1..N : g[k] = IF k = 1 THEN Keep(s, found, k) ELSE g[k - 1] \o Keep(s, found, k)
  BY <1>1, <1>2 DEF Flattening
<1> HIDE DEF g, kept, N
<1>6. f[0] = << >> /\ \A k \in 1..N : f[k] = g[k] /\ (k # 1 => f[k - 1] = g[k - 1])
  BY <1>0
<1>7. Only(s, found) = f[N]
  BY <1>0, <1>3, <1>4, <1>6
<1>8. /\ f[1] = (IF N = 0 THEN f[1] ELSE Keep(s, found, 1))
      /\ \A k \in 1..N : k # 1 => f[k] = f[k - 1] \o Keep(s, found, k)
  <2> HIDE DEF f
  <2>1. ASSUME NEW k \in 1..N, k # 1 PROVE f[k] = f[k - 1] \o Keep(s, found, k)
    BY <1>5, <1>6, <2>1, Zenon
  <2>2. N # 0 => 1 \in 1..N
    BY <1>0
  <2>3. N # 0 => f[1] = Keep(s, found, 1)
    BY <1>5, <1>6, <2>2, Zenon
  <2> QED BY <2>1, <2>3, Zenon
<1> HIDE DEF f
<1> QED BY <1>6, <1>7, <1>8 DEF N

\* A list keeps what was found, and all of it if everything was.
LEMMA OnlyKeeps ==
  ASSUME NEW R, NEW s \in Seq(R), NEW found
  PROVE  /\ Only(s, found) \in Seq(R \cap found)
         /\ (\A i \in DOMAIN s : s[i] \in found) => Only(s, found) = s
<1>0. Len(s) \in Nat /\ DOMAIN s = 1..Len(s) /\ \A i \in 1..Len(s) : s[i] \in R
  OBVIOUS
<1>1. PICK f : /\ f[0] = << >> /\ f[1] = (IF Len(s) = 0 THEN f[1] ELSE Keep(s, found, 1))
               /\ \A k \in 1..Len(s) : k # 1 => f[k] = f[k - 1] \o Keep(s, found, k)
               /\ Only(s, found) = f[Len(s)]
  BY <1>0, OnlyIsRun
<1>2. PICK N \in Nat : N = Len(s)
  BY <1>0
<1>3. \A k \in 1..N : Keep(s, found, k) \in Seq(R \cap found)
  <2> SUFFICES ASSUME NEW k \in 1..N PROVE Keep(s, found, k) \in Seq(R \cap found)
    OBVIOUS
  <2>1. CASE s[k] \in found
    <3>1. s[k] \in R \cap found
      BY <1>0, <1>2, <2>1
    <3>2. \A x \in R \cap found : <<x>> \in Seq(R \cap found)
      OBVIOUS
    <3> QED BY <2>1, <3>1, <3>2, Zenon DEF Keep
  <2>2. CASE s[k] \notin found
    <3>1. << >> \in Seq(R \cap found)
      OBVIOUS
    <3> QED BY <2>2, <3>1, Zenon DEF Keep
  <2> QED BY <2>1, <2>2
<1>4. f[N] \in Seq(R \cap found)
  <2> DEFINE T == {k \in 0..N : f[k] \in Seq(R \cap found)}
  <2>1. 0 \in T
    <3>1. << >> \in Seq(R \cap found)
      OBVIOUS
    <3>2. 0 \in 0..N
      OBVIOUS
    <3> QED BY <1>1, <3>1, <3>2, Zenon
  <2>2. ASSUME NEW k \in 1..N, k - 1 \in T PROVE k \in T
    <3>1. CASE k = 1
      <4>1. f[1] = Keep(s, found, 1) /\ 1 \in 0..N
        BY <1>1, <1>2, <3>1
      <4> QED BY <1>3, <3>1, <4>1, Zenon
    <3>2. CASE k # 1
      <4>a. f[k] = f[k - 1] \o Keep(s, found, k) /\ k \in 0..N
        BY <1>1, <1>2, <3>2
      <4>b. f[k - 1] \in Seq(R \cap found)
        BY <2>2, Zenon
      <4>1. f[k] = f[k - 1] \o Keep(s, found, k) /\ f[k - 1] \in Seq(R \cap found) /\ k \in 0..N
        BY <4>a, <4>b, Zenon
      <4>2. \A u, v \in Seq(R \cap found) : u \o v \in Seq(R \cap found)
        OBVIOUS
      <4> QED BY <1>3, <4>1, <4>2, Zenon
    <3> QED BY <3>1, <3>2
  <2> HIDE DEF T
  <2>a. \A k \in 0..N : k \in T
    <3>1. \A k \in 1..N : k - 1 \in T => k \in T
      BY <2>2, Zenon
    <3> QED BY <2>1, <3>1, Climb, Zenon
  <2>b. N \in 0..N
    OBVIOUS
  <2>3. N \in T
    BY <2>a, <2>b, Zenon
  <2> QED BY <2>3 DEF T
<1>5. ASSUME \A i \in DOMAIN s : s[i] \in found PROVE f[N] = s
  <2> DEFINE T == {k \in 0..N : f[k] = [i \in 1..k |-> s[i]]}
  <2>1. 0 \in T
    <3>1. [i \in 1..0 |-> s[i]] = << >>
      OBVIOUS
    <3>2. 0 \in 0..N
      OBVIOUS
    <3> QED BY <1>1, <3>1, <3>2, Zenon
  <2>2. ASSUME NEW k \in 1..N, k - 1 \in T PROVE k \in T
    <3>1. Keep(s, found, k) = <<s[k]>> /\ k \in 0..N /\ k \in Nat /\ k > 0
      BY <1>0, <1>2, <1>5 DEF Keep
    <3>2. CASE k = 1
      <4>1. f[1] = <<s[1]>>
        BY <1>1, <1>2, <3>1, <3>2
      <4>2. [i \in 1..1 |-> s[i]] = <<s[1]>>
        OBVIOUS
      <4> QED BY <3>1, <3>2, <4>1, <4>2, Zenon
    <3>3. CASE k # 1
      <4>1. f[k] = [i \in 1..(k - 1) |-> s[i]] \o <<s[k]>>
        BY <1>1, <1>2, <2>2, <3>1, <3>3
      <4>2. [i \in 1..(k - 1) |-> s[i]] \in Seq(R)
        BY <1>0, <1>2, <3>1
      <4>3. [i \in 1..(k - 1) |-> s[i]] \o <<s[k]>> = [i \in 1..k |-> s[i]]
        BY <3>1, <4>2
      <4> QED BY <3>1, <4>1, <4>3, Zenon
    <3> QED BY <3>2, <3>3
  <2> HIDE DEF T
  <2>a. \A k \in 0..N : k \in T
    <3>1. \A k \in 1..N : k - 1 \in T => k \in T
      BY <2>2, Zenon
    <3> QED BY <2>1, <3>1, Climb, Zenon
  <2>b. N \in 0..N
    OBVIOUS
  <2>3. N \in T
    BY <2>a, <2>b, Zenon
  <2>4. s = [i \in 1..N |-> s[i]]
    BY <1>0, <1>2
  <2> QED BY <2>3, <2>4 DEF T
<1> QED BY <1>1, <1>2, <1>4, <1>5

-----------------------------------------------------------------------------
(* The history of an artist: its invariant.                                *)

\* Who is listed, or has a row, has been accepted; and who is through with the
\* publish is in the log, unless a write of it has failed.
HistoryInv ==
    /\ queued \in Seq(Requests) /\ logged \subseteq Requests /\ faults \in Nat
    /\ life \in [Requests -> {"new", "opened", "over"}] /\ row \in [Requests -> Live \cup {"none", "succeeded"}]
    /\ \A i \in DOMAIN queued : life[queued[i]] # "new"
    /\ \A r \in Requests : row[r] # "none" => life[r] # "new"
    /\ faults = 0 => \A r \in Requests : life[r] = "over" => r \in logged

LEMMA HistoryBegins == Init => HistoryInv
BY DEF Init, HistoryInv

\* A step that accepts and publishes nothing only gives rows to those that have one.
LEMMA RowsOnly ==
  ASSUME HistoryInv, NEW r \in Requests, UNCHANGED <<life, queued, logged>>, faults' \in Nat, faults' >= faults,
         row' = row \/ \E to \in Live \cup {"none", "succeeded"} : RowTo(r, to) \/ row' = [row EXCEPT ![r] = "none"]
  PROVE  HistoryInv'
<1>1. /\ row' \in [Requests -> Live \cup {"none", "succeeded"}]
      /\ \A q \in Requests : row'[q] # "none" => row[q] # "none"
  BY DEF HistoryInv, RowTo
<1>2. faults' = 0 => faults = 0
  BY DEF HistoryInv
<1> QED BY <1>1, <1>2 DEF HistoryInv

LEMMA HistoryKeeps == HistoryInv /\ [Next]_vars => HistoryInv'
<1> SUFFICES ASSUME HistoryInv, [Next]_vars PROVE HistoryInv'
  OBVIOUS
<1>0. faults \in Nat
  BY DEF HistoryInv
<1>1. ASSUME NEW r \in Requests, Accept(r) PROVE HistoryInv'
  <2>1. /\ life' = [life EXCEPT ![r] = "opened"] /\ queued' = Append(queued, r)
        /\ row' = [row EXCEPT ![r] = "queued"] /\ UNCHANGED logged
        /\ faults' \in Nat /\ (faults' = 0 => faults = 0)
    BY <1>0, <1>1 DEF Accept, Fault
  <2>2. queued \in Seq(Requests) /\ life \in [Requests -> {"new", "opened", "over"}]
    BY DEF HistoryInv
  <2>3. queued' \in Seq(Requests)
    BY <2>1, <2>2
  <2>4. \A i \in DOMAIN queued' : (i \in DOMAIN queued /\ queued'[i] = queued[i]) \/ queued'[i] = r
    BY <2>1, <2>2
  <2>5. \A i \in DOMAIN queued : queued[i] \in Requests
    BY <2>2
  <2>6. \A i \in DOMAIN queued' : life'[queued'[i]] # "new"
    <3> SUFFICES ASSUME NEW i \in DOMAIN queued' PROVE life'[queued'[i]] # "new"
      OBVIOUS
    <3>1. life'[r] = "opened"
      BY <2>1, <2>2
    <3>2. ASSUME i \in DOMAIN queued, queued'[i] = queued[i] PROVE life'[queued[i]] # "new"
      <4>1. PICK q \in Requests : q = queued[i]
        BY <2>5, <3>2
      <4>2. life[q] # "new"
        BY <3>2, <4>1 DEF HistoryInv
      <4>3. life'[q] # "new"
        BY <2>1, <2>2, <4>2
      <4> QED BY <4>1, <4>3
    <3> QED BY <2>4, <3>1, <3>2
  <2> QED BY <2>1, <2>2, <2>3, <2>6 DEF HistoryInv, Live
<1>2. ASSUME NEW r \in Requests, Publish(r) PROVE HistoryInv'
  <2>1. /\ life[r] = "opened" /\ life' = [life EXCEPT ![r] = "over"] /\ UNCHANGED queued
        /\ row' = row \/ row' = [row EXCEPT ![r] = "none"]
        /\ logged' = logged \/ logged' = logged \cup {r}
        /\ faults' \in Nat /\ (faults' = 0 => faults = 0 /\ r \in logged')
    BY <1>0, <1>2 DEF Publish, Fault, Log
  <2>2. \A q \in Requests : life'[q] = "new" => life[q] = "new"
    BY <2>1 DEF HistoryInv
  <2>3. queued \in Seq(Requests) /\ \A i \in DOMAIN queued : queued[i] \in Requests
    BY DEF HistoryInv
  <2>4. \A i \in DOMAIN queued : life'[queued[i]] # "new"
    BY <2>2, <2>3 DEF HistoryInv
  <2>5. \A q \in Requests : life'[q] = "over" /\ q # r => life[q] = "over"
    BY <2>1 DEF HistoryInv
  <2> QED BY <2>1, <2>2, <2>4, <2>5 DEF HistoryInv
<1>3. ASSUME NEW r \in Requests, Start(r) \/ Finish(r) \/ Settle(r) \/ Spent(r) \/ Sweep(r) \/ Outside(r)
      PROVE  HistoryInv'
  <2>1. UNCHANGED <<life, queued, logged>> /\ faults' \in Nat /\ faults' >= faults
    BY <1>0, <1>3 DEF Start, Finish, Settle, Spent, Sweep, Outside, Purge, Retry, Redrive, Facted, Fault
  <2>2. row' = row \/ \E to \in Live \cup {"none", "succeeded"} : RowTo(r, to) \/ row' = [row EXCEPT ![r] = "none"]
    <3>1. CASE Start(r)
      BY <3>1 DEF Start, Live
    <3>2. CASE Finish(r) \/ Spent(r)
      BY <3>2 DEF Finish, Spent
    <3>3. CASE Settle(r)
      BY <3>3 DEF Settle, Live
    <3>4. CASE Sweep(r)
      BY <3>4 DEF Sweep, Live
    <3>5. CASE Outside(r)
      BY <3>5 DEF Outside, Purge, Retry, Redrive, Live
    <3> QED BY <1>3, <3>1, <3>2, <3>3, <3>4, <3>5
  <2> QED BY <2>1, <2>2, RowsOnly
<1>4. CASE Tick \/ UNCHANGED vars
  BY <1>4 DEF Tick, ListLive, ListOpen, Load, Upsert, EndTick, Ticks, vars, jobs, HistoryInv
<1> QED BY <1>1, <1>2, <1>3, <1>4 DEF Next, Step

\* The first of the first.
LEMMA TakenOnce ==
  ASSUME NEW R, NEW s \in Seq(R)
  PROVE  Taken(s) \in Seq(R) /\ Taken(Taken(s)) = Taken(s) /\ Taken(Taken(s) \o << >>) = Taken(s)
<1> DEFINE t == Taken(s)
           n == IF Len(s) < HistoryLimit THEN Len(s) ELSE HistoryLimit
<1>1. HistoryLimit \in Nat /\ Len(s) \in Nat
  BY SagaAssumption
<1>2. t = SubSeq(s, 1, n) /\ n \in 0..Len(s) /\ n <= HistoryLimit
  BY <1>1 DEF Taken
<1> HIDE DEF t, n
<1>3. t \in Seq(R) /\ Len(t) = n
  BY <1>1, <1>2
<1>4. Taken(t) = t
  <2>1. Taken(t) = SubSeq(t, 1, Len(t))
    BY <1>1, <1>2, <1>3 DEF Taken
  <2>2. \A u \in Seq(R) : SubSeq(u, 1, Len(u)) = u
    OBVIOUS
  <2> QED BY <1>3, <2>1, <2>2, Zenon
<1>5. t \o << >> = t
  <2>1. \A u \in Seq(R) : u \o << >> = u
    OBVIOUS
  <2> QED BY <1>3, <2>1, Zenon
<1> QED BY <1>3, <1>4, <1>5 DEF t

LEMMA HistoryShowsNewest == HistoryInv => RecentAreNewest
<1> SUFFICES ASSUME HistoryInv, faults = 0, \A r \in Requests : life[r] # "opened"
             PROVE  RecentRequests = Taken(Reverse(queued))
  BY DEF RecentAreNewest
<1> DEFINE s == Reverse(queued)
<1>1. \A r \in Requests : life[r] # "new" => r \in logged
  BY DEF HistoryInv
<1>2. s \in Seq(Requests) /\ \A i \in DOMAIN s : s[i] \in logged
  <2>1. queued \in Seq(Requests) /\ Len(queued) \in Nat /\ DOMAIN queued = 1..Len(queued)
    BY DEF HistoryInv
  <2>2. \A i \in 1..Len(queued) : queued[i] \in Requests /\ queued[i] \in logged
    BY <1>1, <2>1 DEF HistoryInv
  <2>3. s = [i \in 1..Len(queued) |-> queued[(Len(queued) - i) + 1]]
    BY DEF Reverse
  <2>4. \A i \in 1..Len(queued) : (Len(queued) - i) + 1 \in 1..Len(queued)
    BY <2>1
  <2> QED BY <2>1, <2>2, <2>3, <2>4
<1> HIDE DEF s
<1>3. Newest(logged) = s
  BY <1>2, OnlyKeeps DEF Newest, s
<1>4. Only(Taken(Newest(HasRow)), Requests \ logged) = << >>
  <2>1. Newest(HasRow) \in Seq(Requests \cap HasRow)
    BY <1>2, OnlyKeeps DEF Newest, s
  <2>2. Taken(Newest(HasRow)) \in Seq(Requests \cap HasRow)
    BY <2>1, TakenOnce
  <2>3. Only(Taken(Newest(HasRow)), Requests \ logged) \in Seq((Requests \cap HasRow) \cap (Requests \ logged))
    BY <2>2, OnlyKeeps
  <2>4. (Requests \cap HasRow) \cap (Requests \ logged) = {}
    BY <1>1 DEF HasRow, HistoryInv
  <2>5. \A u \in Seq({}) : u = << >>
    OBVIOUS
  <2> QED BY <2>3, <2>4, <2>5
<1>5. Taken(Taken(s)) = Taken(s) /\ Taken(Taken(s) \o << >>) = Taken(s)
  BY <1>2, TakenOnce
<1> QED BY <1>3, <1>4, <1>5 DEF RecentRequests, s

\* What the index calls ended has its cause, and an artist's history shows the newest
\* requests, from the log and the rows, whatever has been purged (refreshInstance,
\* RecentRequestIDs).
THEOREM IndexStaysSound == Spec => []IndexIsSound
<1>1. Spec => []HistoryInv
  BY HistoryBegins, HistoryKeeps, PTL DEF Spec
<1>2. IInv /\ HistoryInv => IndexIsSound
  BY EndsHaveCause, HistoryShowsNewest DEF IndexIsSound
<1> QED BY <1>1, <1>2, Invariance, PTL

-----------------------------------------------------------------------------
(***************************************************************************)
(* What a page shows of a batch has happened and is never taken back, for  *)
(* any pages, batches and goroutines that publish their progress.          *)
(*                                                                         *)
(* Snapshots are read at one moment and shown at another.  The invariant   *)
(* follows them: whatever is about to be published, is on the wire, or has *)
(* been read for a page's start says no more than the table does now,      *)
(* because the table only ever moves on (Grows).                           *)
(***************************************************************************)

View   == [completed : Nat, done : BOOLEAN, seen : BOOLEAN]
Snap   == [pc : {"idle", "read", "insert", "publish"}, batch : Batches \cup {0}, completed : Nat]
Wire   == [pings : Nat, progress : Seq(Snap)]
Client == [pc : {"away", "batch", "snap", "stats", "patch", "open"}, first : Nat, snap : Snap,
           timer : BOOLEAN, running : BOOLEAN, pending : BOOLEAN, read : Nat,
           counters : Nat, overtaken : BOOLEAN, late : SUBSET Batches, view : [Batches -> View]]

Counts == [Batches -> 0..Unstarted]
PageTypes ==
    /\ rows \in Nat /\ done \in Counts /\ publisher \in [Publishers -> Snap]
    /\ wire \in [Clients -> Wire] /\ client \in [Clients -> Client]

\* What a snapshot and a page may say when the table says d.
Shows(s, d)  == s.batch \in Batches /\ d[s.batch] # Unstarted /\ s.completed <= d[s.batch]
Views(v, d)  == \A b \in Batches : v[b].seen => /\ d[b] # Unstarted /\ v[b].completed <= d[b]
                                                /\ v[b].done => d[b] = Members
Calm(me)     == ~(me.timer /\ me.running) /\ (me.pending => me.running)

PublishersAreHonest == \A p \in Publishers : publisher[p].pc = "publish" => Shows(publisher[p], done)
WiresAreHonest      == \A c \in Clients : \A i \in 1..Len(wire[c].progress) : Shows(wire[c].progress[i], done)
PagesAreHonest      == \A c \in Clients : /\ client[c].pc = "snap" => Shows(client[c].snap, done)
                                          /\ Views(client[c].view, done)
PagesAreCalm        == \A c \in Clients : Calm(client[c])

PageInv == PageTypes /\ PublishersAreHonest /\ WiresAreHonest /\ PagesAreHonest /\ PagesAreCalm
-----------------------------------------------------------------------------
(* The table.                                                              *)

Grows == /\ done' \in Counts
         /\ \A b \in Batches : done[b] # Unstarted => done'[b] # Unstarted /\ done'[b] >= done[b]

\* What was true of the table stays true.
LEMMA StillShown == ASSUME PageTypes, Grows, NEW s \in Snap, Shows(s, done) PROVE Shows(s, done')
<1>1. s.completed \in Nat /\ s.batch \in Batches /\ done[s.batch] # Unstarted /\ s.completed <= done[s.batch]
  BY DEF Shows, Snap
<1>2. done[s.batch] \in 0..Unstarted /\ done'[s.batch] \in 0..Unstarted
  BY <1>1 DEF PageTypes, Grows, Counts
<1>3. done'[s.batch] # Unstarted /\ done'[s.batch] >= done[s.batch]
  BY <1>1 DEF Grows
<1>4. Unstarted \in Nat
  BY LiveAssumption DEF Unstarted
<1> QED BY <1>1, <1>2, <1>3, <1>4 DEF Shows

LEMMA StillViewed == ASSUME PageTypes, Grows, NEW v \in [Batches -> View], Views(v, done) PROVE Views(v, done')
<1> SUFFICES ASSUME NEW b \in Batches, v[b].seen
             PROVE  done'[b] # Unstarted /\ v[b].completed <= done'[b] /\ (v[b].done => done'[b] = Members)
  BY DEF Views
<1>1. v[b].completed \in Nat /\ done[b] # Unstarted /\ v[b].completed <= done[b] /\ (v[b].done => done[b] = Members)
  BY DEF Views, View
<1>2. done[b] \in 0..Unstarted /\ done'[b] \in 0..Unstarted /\ done'[b] # Unstarted /\ done'[b] >= done[b]
  BY <1>1 DEF PageTypes, Grows, Counts
<1> QED BY <1>1, <1>2, LiveAssumption DEF Unstarted

\* A snapshot that is true may be applied.
LEMMA AppliedView ==
    ASSUME NEW d \in Counts, NEW s \in Snap, Shows(s, d), NEW v \in [Batches -> View], Views(v, d)
    PROVE  /\ Applied(v, s) \in [Batches -> View] /\ Views(Applied(v, s), d)
           /\ \A b \in Batches : v[b].seen => /\ Applied(v, s)[b].completed >= v[b].completed
                                              /\ v[b].done => Applied(v, s)[b].done
<1>1. CASE ~Accepts(v[s.batch], s)
  <2>1. Applied(v, s) = v
    BY <1>1 DEF Applied
  <2>2. \A b \in Batches : v[b].completed \in Nat
    BY DEF View
  <2> QED BY <2>1, <2>2
<1>2. CASE Accepts(v[s.batch], s)
  <2> DEFINE new == [completed |-> s.completed, done |-> s.completed = Members, seen |-> TRUE]
  <2>1. s.batch \in Batches /\ s.completed \in Nat /\ d[s.batch] \in 0..Unstarted
        /\ d[s.batch] # Unstarted /\ s.completed <= d[s.batch]
    BY DEF Shows, Snap, Counts
  <2>2. new \in View /\ Applied(v, s) = [v EXCEPT ![s.batch] = new]
    BY <1>2, <2>1 DEF Applied, View
  <2>3. \A b \in Batches : Applied(v, s)[b] = IF b = s.batch THEN new ELSE v[b]
    BY <2>2
  <2>4. new.done => d[s.batch] = Members
    <3>1. s.completed = Members => d[s.batch] = Members
      BY <2>1, LiveAssumption DEF Unstarted
    <3> QED BY <3>1
  <2>5. Views(Applied(v, s), d)
    BY <2>1, <2>3, <2>4 DEF Views
  <2>6. v[s.batch].seen => ~v[s.batch].done /\ new.completed >= v[s.batch].completed
    BY <1>2 DEF Accepts
  <2>7. \A b \in Batches : v[b].completed \in Nat
    BY DEF View
  <2>8. ASSUME NEW b \in Batches, v[b].seen
        PROVE  Applied(v, s)[b].completed >= v[b].completed /\ (v[b].done => Applied(v, s)[b].done)
    <3>1. CASE b = s.batch
      BY <2>3, <2>6, <2>8, <3>1
    <3>2. CASE b # s.batch
      BY <2>3, <2>7, <3>2
    <3> QED BY <3>1, <3>2
  <2> QED BY <2>2, <2>5, <2>8
<1> QED BY <1>1, <1>2
-----------------------------------------------------------------------------
(* The ways a step moves publishers, wires and pages.                      *)

PublisherMoves ==
    \/ publisher' = publisher
    \/ \E p, new : /\ new \in Snap /\ publisher' = [publisher EXCEPT ![p] = new]
                   /\ new.pc = "publish" => Shows(new, done')

WireMoves ==
    \/ wire' = wire
    \/ wire' = Pinged
    \/ \E p \in Publishers :
          /\ publisher[p].pc = "publish"
          /\ wire' = [c \in Clients |-> IF ~Subscribed(c) THEN wire[c]
                                        ELSE [wire[c] EXCEPT !.progress = Append(@, publisher[p])]]
    \/ \E c : wire' = [wire EXCEPT ![c] = Quiet]
    \/ \E c \in Clients : wire[c].pings > 0 /\ wire' = [wire EXCEPT ![c].pings = @ - 1]
    \/ \E c \in Clients : wire[c].progress # << >> /\ wire' = [wire EXCEPT ![c].progress = Tail(@)]

\* A page keeps its view, applies a true snapshot, or is a new or closed one.
NewPage(c, new) ==
    /\ new \in Client /\ Calm(new) /\ client' = [client EXCEPT ![c] = new]
    /\ new.pc = "snap" => Shows(new.snap, done')
    /\ \/ new.view = client[c].view
       \/ \E s \in Snap : Shows(s, done') /\ new.view = Applied(client[c].view, s)
       \/ new.view = Away.view /\ "away" \in {client[c].pc, new.pc}
PageMoves == client' = client \/ \E c \in Clients : \E new : NewPage(c, new)

LEMMA PublisherMoved ==
    ASSUME PageInv, Grows, PublisherMoves
    PROVE  publisher' \in [Publishers -> Snap] /\ PublishersAreHonest'
<1>1. PageTypes /\ publisher \in [Publishers -> Snap]
  BY DEF PageInv, PageTypes
<1>2. \A p \in Publishers : publisher[p].pc = "publish" => Shows(publisher[p], done')
  BY <1>1, StillShown DEF PageInv, PublishersAreHonest
<1>3. CASE publisher' = publisher
  BY <1>1, <1>2, <1>3 DEF PublishersAreHonest
<1>4. CASE \E p, new : /\ new \in Snap /\ publisher' = [publisher EXCEPT ![p] = new]
                       /\ new.pc = "publish" => Shows(new, done')
  BY <1>1, <1>2, <1>4 DEF PublishersAreHonest
<1> QED BY <1>3, <1>4 DEF PublisherMoves

TrueWire(w, d) == w \in Wire /\ \A i \in 1..Len(w.progress) : Shows(w.progress[i], d)

LEMMA WireMoved ==
    ASSUME PageInv, Grows, WireMoves
    PROVE  wire' \in [Clients -> Wire] /\ WiresAreHonest'
<1>1. PageTypes /\ wire \in [Clients -> Wire]
  BY DEF PageInv, PageTypes
<1>2. ASSUME NEW c \in Clients PROVE TrueWire(wire[c], done')
  <2>1. wire[c].progress \in Seq(Snap)
    BY <1>1 DEF Wire
  <2>2. \A i \in 1..Len(wire[c].progress) : wire[c].progress[i] \in Snap
    BY <2>1
  <2>3. \A i \in 1..Len(wire[c].progress) : Shows(wire[c].progress[i], done')
    BY <1>1, <2>2, StillShown DEF PageInv, WiresAreHonest
  <2> QED BY <1>1, <2>3 DEF TrueWire
<1>3. TrueWire(Quiet, done')
  <2>1. Quiet \in Wire
    <3>1. << >> \in Seq(Snap)
      OBVIOUS
    <3> QED BY <3>1 DEF Quiet, Wire
  <2> QED BY <2>1 DEF TrueWire, Quiet
<1>4. ASSUME wire' = [c \in Clients |-> wire'[c]], \A c \in Clients : TrueWire(wire'[c], done')
      PROVE  wire' \in [Clients -> Wire] /\ WiresAreHonest'
  BY <1>4 DEF TrueWire, WiresAreHonest
<1>5. ASSUME NEW w \in Wire, TrueWire(w, done'), NEW n \in Nat
      PROVE  TrueWire([w EXCEPT !.pings = n], done')
  BY <1>5 DEF TrueWire, Wire
<1>6. ASSUME NEW w \in Wire, TrueWire(w, done'), NEW s \in Snap, Shows(s, done')
      PROVE  TrueWire([w EXCEPT !.progress = Append(w.progress, s)], done')
  <2>1. w.progress \in Seq(Snap) /\ Append(w.progress, s) \in Seq(Snap)
    BY DEF Wire
  <2>2. \A i \in 1..Len(Append(w.progress, s)) : Shows(Append(w.progress, s)[i], done')
    BY <1>6, <2>1 DEF TrueWire
  <2> QED BY <2>1, <2>2 DEF TrueWire, Wire
<1>7. ASSUME NEW w \in Wire, TrueWire(w, done'), w.progress # << >>
      PROVE  TrueWire([w EXCEPT !.progress = Tail(w.progress)], done')
  <2>1. w.progress \in Seq(Snap)
    BY DEF Wire
  <2>2. Tail(w.progress) \in Seq(Snap)
    BY <1>7, <2>1
  <2>3. \A i \in 1..Len(Tail(w.progress)) : Shows(Tail(w.progress)[i], done')
    BY <1>7, <2>1 DEF TrueWire
  <2> QED BY <2>2, <2>3 DEF TrueWire, Wire
<1>8. CASE wire' = wire
  BY <1>1, <1>2, <1>4, <1>8
<1>9. CASE wire' = Pinged
  <2>1. \A c \in Clients : wire[c] \in Wire /\ wire[c].pings + 1 \in Nat
    BY <1>1 DEF Wire
  <2>2. \A c \in Clients : wire'[c] = wire[c] \/ wire'[c] = [wire[c] EXCEPT !.pings = wire[c].pings + 1]
    BY <1>1, <1>9 DEF Pinged
  <2>3. wire' = [c \in Clients |-> wire'[c]]
    BY <1>9 DEF Pinged
  <2> QED BY <1>2, <1>4, <1>5, <2>1, <2>2, <2>3
<1>10. CASE \E p \in Publishers :
          /\ publisher[p].pc = "publish"
          /\ wire' = [c \in Clients |-> IF ~Subscribed(c) THEN wire[c]
                                        ELSE [wire[c] EXCEPT !.progress = Append(@, publisher[p])]]
  <2>1. PICK p \in Publishers :
          /\ publisher[p].pc = "publish"
          /\ wire' = [c \in Clients |-> IF ~Subscribed(c) THEN wire[c]
                                        ELSE [wire[c] EXCEPT !.progress = Append(@, publisher[p])]]
    BY <1>10
  <2>2. publisher[p] \in Snap
    BY <1>1 DEF PageTypes
  <2>3. Shows(publisher[p], done')
    BY <1>1, <2>1, <2>2, StillShown DEF PageInv, PublishersAreHonest
  <2>4. \A c \in Clients : \/ wire'[c] = wire[c]
                           \/ wire'[c] = [wire[c] EXCEPT !.progress = Append(wire[c].progress, publisher[p])]
    BY <1>1, <2>1
  <2>5. wire' = [c \in Clients |-> wire'[c]]
    BY <2>1
  <2>6. \A c \in Clients : wire[c] \in Wire
    BY <1>1
  <2> QED BY <1>2, <1>4, <1>6, <2>2, <2>3, <2>4, <2>5, <2>6
<1>11. CASE \E c : wire' = [wire EXCEPT ![c] = Quiet]
  BY <1>1, <1>2, <1>3, <1>4, <1>11
<1>12. CASE \E c \in Clients : wire[c].pings > 0 /\ wire' = [wire EXCEPT ![c].pings = @ - 1]
  <2>1. PICK c \in Clients : wire[c].pings > 0 /\ wire' = [wire EXCEPT ![c].pings = @ - 1]
    BY <1>12
  <2>2. wire[c] \in Wire /\ wire[c].pings - 1 \in Nat
    BY <1>1, <2>1 DEF Wire
  <2>3. wire' = [wire EXCEPT ![c] = [wire[c] EXCEPT !.pings = wire[c].pings - 1]]
    BY <1>1, <2>1
  <2> QED BY <1>1, <1>2, <1>4, <1>5, <2>2, <2>3
<1>13. CASE \E c \in Clients : wire[c].progress # << >> /\ wire' = [wire EXCEPT ![c].progress = Tail(@)]
  <2>1. PICK c \in Clients : wire[c].progress # << >> /\ wire' = [wire EXCEPT ![c].progress = Tail(@)]
    BY <1>13
  <2>2. wire[c] \in Wire
    BY <1>1
  <2>3. wire' = [wire EXCEPT ![c] = [wire[c] EXCEPT !.progress = Tail(wire[c].progress)]]
    BY <1>1, <2>1
  <2> QED BY <1>1, <1>2, <1>4, <1>7, <2>1, <2>2, <2>3
<1> QED BY <1>8, <1>9, <1>10, <1>11, <1>12, <1>13 DEF WireMoves

LEMMA AwayPage == Away \in Client /\ Calm(Away) /\ \A d : Views(Away.view, d)
BY DEF Away, Client, Idle, Snap, Unseen, View, Calm, Views

LEMMA PageMoved ==
    ASSUME PageInv, Grows, PageMoves
    PROVE  client' \in [Clients -> Client] /\ PagesAreHonest' /\ PagesAreCalm'
<1>1. PageTypes /\ client \in [Clients -> Client] /\ done' \in Counts
  BY DEF PageInv, PageTypes, Grows
<1>2. ASSUME NEW c \in Clients
      PROVE  /\ client[c].pc = "snap" => Shows(client[c].snap, done')
             /\ client[c].view \in [Batches -> View] /\ Views(client[c].view, done')
  <2>1. client[c].snap \in Snap /\ client[c].view \in [Batches -> View]
    BY <1>1 DEF Client
  <2> QED BY <1>1, <2>1, StillShown, StillViewed DEF PageInv, PagesAreHonest
<1>3. CASE client' = client
  BY <1>1, <1>2, <1>3 DEF PagesAreHonest, PagesAreCalm, PageInv
<1>4. CASE \E c \in Clients : \E new : NewPage(c, new)
  <2>0. PICK c \in Clients : \E new : NewPage(c, new)
    BY <1>4
  <2>1. PICK new : NewPage(c, new)
    BY <2>0
  <2>2. Views(new.view, done')
    BY <1>1, <1>2, <2>1, AppliedView, AwayPage DEF NewPage
  <2>3. \A x \in Clients : client'[x] = IF x = c THEN new ELSE client[x]
    BY <1>1, <2>1 DEF NewPage
  <2>4. client' \in [Clients -> Client]
    BY <1>1, <2>1 DEF NewPage
  <2>5. PagesAreHonest'
    BY <1>2, <2>1, <2>2, <2>3 DEF NewPage, PagesAreHonest
  <2>6. PagesAreCalm'
    BY <2>1, <2>3 DEF NewPage, PagesAreCalm, PageInv
  <2> QED BY <2>4, <2>5, <2>6
<1> QED BY <1>3, <1>4 DEF PageMoves
-----------------------------------------------------------------------------
(* The actions.                                                            *)

Moves == rows' \in Nat /\ Grows /\ PublisherMoves /\ WireMoves /\ PageMoves

LEMMA SameTable == ASSUME PageTypes, done' = done PROVE Grows
<1>1. \A b \in Batches : done[b] \in 0..Unstarted
  BY DEF PageTypes, Counts
<1>2. Unstarted \in Nat
  BY LiveAssumption DEF Unstarted
<1> QED BY <1>1, <1>2 DEF PageTypes, Grows

\* One batch starts or gets on.
LEMMA BatchGrows ==
    ASSUME PageTypes, NEW b \in Batches, NEW n \in 0..Members, done' = [done EXCEPT ![b] = n],
           done[b] = Unstarted \/ n >= done[b]
    PROVE  Grows
<1>1. Members \in Nat /\ Unstarted = Members + 1
  BY LiveAssumption DEF Unstarted
<1>2. n \in 0..Unstarted /\ n # Unstarted
  BY <1>1
<1>3. \A d \in Batches : done[d] \in 0..Unstarted
  BY DEF PageTypes, Counts
<1>4. done' \in Counts
  BY <1>2 DEF PageTypes, Counts
<1>5. \A d \in Batches : done[d] # Unstarted => done'[d] # Unstarted /\ done'[d] >= done[d]
  BY <1>1, <1>2, <1>3 DEF PageTypes, Counts
<1> QED BY <1>4, <1>5 DEF Grows

\* A snapshot shows the table it was read from.
LEMMA ReadShows ==
    ASSUME PageTypes, NEW b \in Started
    PROVE  Snapshot(b) \in Snap /\ Snapshot(b).pc = "publish" /\ Shows(Snapshot(b), done)
<1>1. b \in Batches /\ done[b] # Unstarted /\ done[b] \in 0..Unstarted
  BY DEF Started, PageTypes, Counts
<1>2. Unstarted \in Nat
  BY LiveAssumption DEF Unstarted
<1>3. Snapshot(b) = [pc |-> "publish", batch |-> b, completed |-> done[b]]
  BY DEF Snapshot
<1> QED BY <1>1, <1>2, <1>3 DEF Snap, Shows

LEMMA NotYet == \A n \in {"idle", "read", "insert"}, b \in Batches \cup {0} :
                    [pc |-> n, batch |-> b, completed |-> 0] \in Snap
BY DEF Snap

LEMMA FeedMoves == ASSUME PageInv, Feed PROVE Moves
<1>0. PageTypes
  BY DEF PageInv
<1> USE DEF feed, store
<1>1. CASE ChangeRow \/ SaveRow \/ PublishQueueUpdated
  <2>1. UNCHANGED <<done, publisher, client>> /\ rows' \in Nat /\ (wire' = wire \/ wire' = Pinged)
    BY <1>0, <1>1 DEF ChangeRow, SaveRow, PublishQueueUpdated, PageTypes
  <2> QED BY <1>0, <2>1, SameTable DEF Moves, PublisherMoves, WireMoves, PageMoves
<1>2. ASSUME NEW b \in Batches, NEW p \in Passes, BeginBatch(b, p) PROVE Moves
  <2> DEFINE new == [Idle EXCEPT !.pc = "insert", !.batch = b]
  <2>1. new \in Snap /\ new.pc # "publish"
    <3>1. Idle \in Snap
      BY NotYet DEF Idle
    <3> QED BY <3>1 DEF Snap
  <2>2. publisher' = [publisher EXCEPT ![p] = new]
    BY <1>2 DEF BeginBatch
  <2>3. UNCHANGED <<rows, done, wire, client>>
    BY <1>2 DEF BeginBatch
  <2>4. PublisherMoves
    BY <2>1, <2>2 DEF PublisherMoves
  <2> QED BY <1>0, <2>3, <2>4, SameTable DEF Moves, WireMoves, PageMoves, PageTypes
<1>3. ASSUME NEW b \in Batches, NEW p \in Passes, StartBatch(b, p) PROVE Moves
  <2> DEFINE new == [pc |-> "publish", batch |-> b, completed |-> 0]
  <2>1. 0 \in 0..Members /\ 0 # Unstarted
    BY LiveAssumption DEF Unstarted
  <2>2. Grows
    BY <1>0, <1>3, <2>1, BatchGrows DEF StartBatch, Started
  <2>3. done'[b] = 0
    BY <1>0, <1>3 DEF StartBatch, PageTypes, Counts
  <2>4. new \in Snap /\ Shows(new, done')
    BY <2>1, <2>3 DEF Snap, Shows
  <2>5. PublisherMoves
    BY <1>3, <2>4 DEF StartBatch, PublisherMoves
  <2> QED BY <1>0, <1>3, <2>2, <2>5 DEF StartBatch, Moves, WireMoves, PageMoves, PageTypes
<1>4. ASSUME NEW b \in Batches, CompleteMember(b) PROVE Moves
  <2> DEFINE new == [Idle EXCEPT !.pc = "read", !.batch = b]
  <2>1. done[b] \in 0..Unstarted /\ done[b] < Members
    BY <1>0, <1>4 DEF CompleteMember, Active, PageTypes, Counts
  <2>2. Grows
    <3>1. done[b] + 1 \in 0..Members /\ done[b] + 1 >= done[b]
      BY <2>1, LiveAssumption DEF Unstarted
    <3>2. done' = [done EXCEPT ![b] = done[b] + 1]
      BY <1>4 DEF CompleteMember
    <3> QED BY <1>0, <3>1, <3>2, BatchGrows
  <2>3. new \in Snap /\ new.pc # "publish"
    <3>1. Idle \in Snap
      BY NotYet DEF Idle
    <3> QED BY <3>1 DEF Snap
  <2>4. PublisherMoves
    BY <1>4, <2>3 DEF CompleteMember, PublisherMoves
  <2> QED BY <1>0, <1>4, <2>2, <2>4 DEF CompleteMember, Moves, WireMoves, PageMoves, PageTypes
<1>5. ASSUME NEW p \in Passes, Reconcile(p) PROVE Moves
  <2> DEFINE new == [pc |-> "read", batch |-> 0, completed |-> 0]
  <2>1. PICK reached \in [Started -> 0..Members] :
          /\ \A b \in Started : reached[b] >= done[b]
          /\ done' = [b \in Batches |-> IF b \in Started THEN reached[b] ELSE done[b]]
    BY <1>5 DEF Reconcile
  <2>2. Members \in Nat /\ Unstarted = Members + 1
    BY LiveAssumption DEF Unstarted
  <2>3. \A b \in Started : reached[b] \in 0..Members
    BY <2>1
  <2>4. done \in Counts
    BY <1>0 DEF PageTypes
  <2>5. \A b \in Batches : done'[b] \in 0..Unstarted
    BY <2>1, <2>2, <2>3, <2>4 DEF Counts
  <2>6. done' \in Counts
    BY <2>1, <2>5 DEF Counts
  <2>7. \A b \in Batches : done[b] # Unstarted => done'[b] # Unstarted /\ done'[b] >= done[b]
    BY <2>1, <2>2, <2>3 DEF Started
  <2>8. [Idle EXCEPT !.pc = "read"] = new /\ new \in Snap /\ new.pc # "publish"
    BY NotYet DEF Idle
  <2>9. PublisherMoves
    BY <1>5, <2>8 DEF Reconcile, PublisherMoves
  <2> QED BY <1>0, <1>5, <2>6, <2>7, <2>9 DEF Reconcile, Grows, Moves, WireMoves, PageMoves, PageTypes
<1>6. ASSUME NEW p \in Publishers, ReadBatch(p) PROVE Moves
  <2>1. PICK b \in Started : publisher' = [publisher EXCEPT ![p] = Snapshot(b)]
    BY <1>6 DEF ReadBatch
  <2>2. UNCHANGED <<rows, done, wire, client>>
    BY <1>6 DEF ReadBatch
  <2>3. PublisherMoves
    BY <1>0, <2>1, <2>2, ReadShows DEF PublisherMoves
  <2> QED BY <1>0, <2>2, <2>3, SameTable DEF Moves, WireMoves, PageMoves, PageTypes
<1>7. ASSUME NEW p \in Publishers, PublishBatch(p) PROVE Moves
  <2>1. UNCHANGED <<rows, done, client>> /\ publisher' = [publisher EXCEPT ![p] = Idle]
    BY <1>7 DEF PublishBatch
  <2>2. Idle \in Snap /\ Idle.pc # "publish"
    BY NotYet DEF Idle
  <2>3. PublisherMoves
    BY <2>1, <2>2 DEF PublisherMoves
  <2>4. WireMoves
    BY <1>7 DEF PublishBatch, WireMoves
  <2> QED BY <1>0, <2>1, <2>3, <2>4, SameTable DEF Moves, PageMoves, PageTypes
<1> QED BY <1>1, <1>2, <1>3, <1>4, <1>5, <1>6, <1>7 DEF Feed

\* A step of one page leaves the feeds alone.
LEMMA PageStep ==
    ASSUME PageTypes, UNCHANGED <<feed, store, tracking, publisher>>, WireMoves, PageMoves
    PROVE  Moves
BY SameTable DEF feed, store, PageTypes, Moves, PublisherMoves

LEMMA PagesMove ==
    ASSUME PageInv, NEW c \in Clients, Connect(c) \/ Page(c) \/ Disconnect(c)
    PROVE  Moves
<1>0. PageTypes /\ client[c] \in Client /\ Calm(client[c])
  BY DEF PageInv, PageTypes, PagesAreCalm
<1>1. client[c].snap \in Snap /\ client[c].view \in [Batches -> View] /\ rows \in Nat
      /\ Idle \in Snap /\ Idle.pc # "snap"
  BY <1>0, NotYet DEF Client, PageTypes, Idle
<1>2. ASSUME UNCHANGED <<feed, done, tracking, publisher>>, UNCHANGED older, WireMoves,
             NEW new, NewPage(c, new)
      PROVE  Moves
  BY <1>0, <1>2, PageStep DEF PageMoves, store
<1> DEFINE same(new) == new \in Client /\ Calm(new) /\ new.view = client[c].view /\ new.pc # "snap"
<1>3. ASSUME UNCHANGED <<feed, store, tracking, publisher>>, WireMoves,
             NEW new, same(new), client' = [client EXCEPT ![c] = new]
      PROVE  Moves
  BY <1>0, <1>3, PageStep DEF PageMoves, NewPage
<1>4. CASE Connect(c)
  <2> DEFINE new == [Away EXCEPT !.pc = "batch", !.late = {b \in Batches : done[b] = Members}]
  <2>1. new \in Client /\ Calm(new) /\ new.pc # "snap" /\ new.view = Away.view
    BY DEF Away, Client, Idle, Snap, Unseen, View, Calm
  <2>2. NewPage(c, new)
    BY <1>4, <2>1 DEF Connect, Set, NewPage
  <2>3. PageMoves
    BY <2>2 DEF PageMoves
  <2>4. UNCHANGED <<rows, done, publisher>>
    BY <1>4 DEF Connect, feed, store
  <2>5. WireMoves
    BY <1>4 DEF Connect, WireMoves
  <2> QED BY <1>0, <2>3, <2>4, <2>5, SameTable DEF Moves, PublisherMoves, PageTypes
<1>5. CASE Disconnect(c)
  <2>1. Away \in Client /\ Calm(Away) /\ Away.pc = "away"
    BY AwayPage DEF Away
  <2>2. NewPage(c, Away)
    BY <1>5, <2>1 DEF Disconnect, Set, NewPage
  <2> QED BY <1>0, <1>5, <2>2, PageStep DEF Disconnect, PageMoves, WireMoves
<1>6. CASE ReadInitialBatch(c)
  <2>1. CASE Set(c, [client[c] EXCEPT !.pc = "stats", !.snap = Idle])
    <3> DEFINE new == [client[c] EXCEPT !.pc = "stats", !.snap = Idle]
    <3>1. same(new)
      BY <1>0, <1>1 DEF Client, Calm
    <3> QED BY <1>3, <1>6, <2>1, <3>1 DEF ReadInitialBatch, Set, WireMoves
  <2>2. ASSUME NEW b \in Active, Set(c, [client[c] EXCEPT !.pc = "snap", !.snap = Snapshot(b)]) PROVE Moves
    <3> DEFINE new == [client[c] EXCEPT !.pc = "snap", !.snap = Snapshot(b)]
    <3>1. Snapshot(b) \in Snap /\ Shows(Snapshot(b), done)
      BY <1>0, ReadShows DEF Active
    <3>2. new \in Client /\ Calm(new) /\ new.view = client[c].view /\ new.snap = Snapshot(b)
      BY <1>0, <3>1 DEF Client, Calm
    <3>3. done' = done
      BY <1>6 DEF ReadInitialBatch, store
    <3>4. NewPage(c, new)
      BY <2>2, <3>1, <3>2, <3>3 DEF NewPage, Set
    <3> QED BY <1>0, <1>6, <3>4, PageStep DEF ReadInitialBatch, PageMoves, WireMoves
  <2> QED BY <1>6, <2>1, <2>2 DEF ReadInitialBatch
<1>7. ASSUME NEW s \in Snap, Shows(s, done), NEW new, client' = [client EXCEPT ![c] = new],
             \E me \in Client : /\ Calm(me) /\ me.pc # "snap"
                                /\ new = [me EXCEPT !.view = Applied(client[c].view, s)],
             UNCHANGED <<feed, store, tracking, publisher>>, WireMoves
      PROVE  Moves
  <2>1. done \in Counts /\ Views(client[c].view, done) /\ done' = done
    BY <1>0, <1>7 DEF PageInv, PagesAreHonest, PageTypes, store
  <2>2. Applied(client[c].view, s) \in [Batches -> View]
    BY <1>1, <1>7, <2>1, AppliedView
  <2>3. new \in Client /\ Calm(new) /\ new.pc # "snap" /\ new.view = Applied(client[c].view, s)
    BY <1>7, <2>2 DEF Client, Calm
  <2>4. NewPage(c, new)
    BY <1>7, <2>1, <2>3 DEF NewPage
  <2> QED BY <1>0, <1>7, <2>4, PageStep DEF PageMoves
<1>8. CASE PatchInitialBatch(c)
  <2> DEFINE me == [client[c] EXCEPT !.pc = "stats", !.snap = Idle]
             new == [me EXCEPT !.view = Applied(client[c].view, client[c].snap)]
  <2>1. me \in Client /\ Calm(me) /\ me.pc # "snap"
    BY <1>0, <1>1 DEF Client, Calm
  <2>2. Shows(client[c].snap, done)
    BY <1>8 DEF PatchInitialBatch, PageInv, PagesAreHonest
  <2>3. client' = [client EXCEPT ![c] = new]
    BY <1>0, <1>8 DEF PatchInitialBatch, Set, Client
  <2>4. UNCHANGED <<feed, store, tracking, publisher>> /\ WireMoves
    BY <1>8 DEF PatchInitialBatch, WireMoves
  <2> QED BY <1>1, <1>7, <2>1, <2>2, <2>3, <2>4
<1>9. CASE HandleProgress(c)
  <2> DEFINE s   == Head(wire[c].progress)
             new == [client[c] EXCEPT !.view = Applied(client[c].view, s)]
  <2>1. wire[c].progress \in Seq(Snap) /\ wire[c].progress # << >>
    BY <1>0, <1>9 DEF HandleProgress, PageTypes, Wire
  <2>2. s \in Snap /\ s = wire[c].progress[1] /\ 1 \in 1..Len(wire[c].progress)
    BY <2>1
  <2>3. Shows(s, done)
    BY <2>2 DEF PageInv, WiresAreHonest
  <2>4. client' = [client EXCEPT ![c] = new]
    BY <1>9 DEF HandleProgress, Set
  <2>5. UNCHANGED <<feed, store, tracking, publisher>> /\ WireMoves
    BY <1>9 DEF HandleProgress, WireMoves
  <2>6. done \in Counts /\ Views(client[c].view, done) /\ done' = done
    BY <1>0, <2>5 DEF PageInv, PagesAreHonest, PageTypes, store
  <2>7. Applied(client[c].view, s) \in [Batches -> View]
    BY <1>1, <2>2, <2>3, <2>6, AppliedView
  <2>8. new \in Client /\ Calm(new) /\ new.view = Applied(client[c].view, s)
        /\ (new.pc = "snap" => client[c].pc = "snap" /\ new.snap = client[c].snap)
    BY <1>0, <2>7 DEF Client, Calm
  <2>9. client[c].pc = "snap" => Shows(client[c].snap, done')
    BY <2>6 DEF PageInv, PagesAreHonest
  <2>10. NewPage(c, new)
    BY <2>2, <2>3, <2>4, <2>6, <2>8, <2>9 DEF NewPage
  <2> QED BY <1>0, <2>5, <2>10, PageStep DEF PageMoves
<1>10. ASSUME UNCHANGED <<feed, store, tracking, publisher>>, WireMoves,
              NEW new, new \in Client, Calm(new), new.view = client[c].view,
              new.pc = client[c].pc, new.snap = client[c].snap, client' = [client EXCEPT ![c] = new]
       PROVE  Moves
  <2>1. client[c].pc = "snap" => Shows(client[c].snap, done')
    BY <1>10 DEF store, PageInv, PagesAreHonest
  <2>2. NewPage(c, new)
    BY <1>10, <2>1 DEF NewPage
  <2> QED BY <1>0, <1>10, <2>2, PageStep DEF PageMoves
<1>11. CASE ReadInitialStats(c)
  <2> DEFINE new == [client[c] EXCEPT !.pc = "patch", !.first = QueueStats]
  <2>1. same(new)
    BY <1>0, <1>1 DEF Client, Calm, QueueStats
  <2> QED BY <1>3, <1>11, <2>1 DEF ReadInitialStats, Set, WireMoves
<1>12. CASE PatchInitialStats(c)
  <2> DEFINE new == [client[c] EXCEPT !.pc = "open", !.counters = client[c].first, !.first = 0,
                                      !.overtaken = client[c].counters > client[c].first]
  <2>1. same(new)
    <3>1. (client[c].counters > client[c].first) \in BOOLEAN
      OBVIOUS
    <3> QED BY <1>0, <1>1, <3>1 DEF Client, Calm
  <2> QED BY <1>3, <1>12, <2>1 DEF PatchInitialStats, Set, WireMoves
<1>13. CASE HandlePing(c)
  <2> DEFINE new == Triggered(client[c])
  <2>1. /\ new \in Client /\ Calm(new) /\ new.view = client[c].view
        /\ new.pc = client[c].pc /\ new.snap = client[c].snap
    BY <1>0 DEF Client, Calm, Triggered
  <2> QED BY <1>10, <1>13, <2>1 DEF HandlePing, Set, WireMoves
<1>14. CASE Fire(c)
  <2> DEFINE new == [client[c] EXCEPT !.timer = FALSE, !.running = TRUE, !.pending = FALSE, !.read = QueueStats]
  <2>1. /\ new \in Client /\ Calm(new) /\ new.view = client[c].view
        /\ new.pc = client[c].pc /\ new.snap = client[c].snap
    BY <1>0, <1>1 DEF Client, Calm, QueueStats
  <2> QED BY <1>10, <1>14, <2>1 DEF Fire, Set, WireMoves
<1>15. CASE Fired(c)
  <2> DEFINE new == [client[c] EXCEPT !.running = FALSE, !.counters = client[c].read, !.read = 0,
                                      !.timer = client[c].pending, !.pending = FALSE]
  <2>1. /\ new \in Client /\ Calm(new) /\ new.view = client[c].view
        /\ new.pc = client[c].pc /\ new.snap = client[c].snap
    BY <1>0 DEF Client, Calm
  <2> QED BY <1>10, <1>15, <2>1 DEF Fired, Set, WireMoves
<1> QED BY <1>4, <1>5, <1>6, <1>8, <1>9, <1>11, <1>12, <1>13, <1>14, <1>15 DEF Page
-----------------------------------------------------------------------------
(* The invariant.                                                          *)

LEMMA PagesBegin == ASSUME LiveInit PROVE PageInv
<1> USE DEF LiveInit
<1>1. Unstarted \in Nat /\ Unstarted \in 0..Unstarted
  BY LiveAssumption DEF Unstarted
<1>2. Idle \in Snap /\ Idle.pc # "publish"
  BY NotYet DEF Idle
<1>3. Quiet \in Wire /\ Quiet.progress = << >>
  <2>1. << >> \in Seq(Snap)
    OBVIOUS
  <2> QED BY <2>1 DEF Quiet, Wire
<1>4. PageTypes
  BY <1>1, <1>2, <1>3, AwayPage DEF PageTypes, Counts
<1>5. PublishersAreHonest /\ WiresAreHonest
  BY <1>2, <1>3 DEF PublishersAreHonest, WiresAreHonest
<1>6. PagesAreHonest /\ PagesAreCalm
  BY AwayPage DEF PagesAreHonest, PagesAreCalm, Away
<1> QED BY <1>4, <1>5, <1>6 DEF PageInv

LEMMA StepMoves == ASSUME PageInv, [LiveNext]_liveVars PROVE Moves
<1>1. CASE UNCHANGED liveVars
  BY <1>1, SameTable DEF liveVars, feed, store, PageInv, PageTypes, Moves, PublisherMoves, WireMoves, PageMoves
<1> QED BY <1>1, FeedMoves, PagesMove DEF LiveNext

LEMMA PagesKeep == ASSUME PageInv, [LiveNext]_liveVars PROVE PageInv'
<1>1. Moves
  BY StepMoves
<1>2. PageTypes'
  BY <1>1, PublisherMoved, WireMoved, PageMoved DEF Moves, Grows, PageTypes
<1> QED BY <1>1, <1>2, PublisherMoved, WireMoved, PageMoved DEF Moves, PageInv

LEMMA PageInvViews == ASSUME PageInv PROVE ViewsAreReal
<1>1. PageTypes
  BY DEF PageInv
<1>2. PagesOK
  BY <1>1 DEF PagesOK, PageTypes, Counts, Client, PageInv, PagesAreCalm, Calm
<1>3. ProgressIsReal
  BY DEF ProgressIsReal, PageInv, PagesAreHonest, Views, Started
<1> QED BY <1>2, <1>3 DEF ViewsAreReal

\* A page only shows progress that the batch's row has reached, whichever of the
\* start snapshot, the callback and the reconciling passes told it, and its
\* debounced counters never have two patches in flight (sse.go).
THEOREM ViewsReal == LiveSpec => []ViewsAreReal
<1>1. LiveInit => PageInv
  BY PagesBegin
<1>2. PageInv /\ [LiveNext]_liveVars => PageInv'
  BY PagesKeep
<1>3. PageInv => ViewsAreReal
  BY PageInvViews
<1> QED BY <1>1, <1>2, <1>3, PTL DEF LiveSpec

NeverFalls ==
    \A c \in Clients, b \in Batches :
        client[c].pc # "away" /\ client'[c].pc # "away" /\ client[c].view[b].seen =>
            /\ client'[c].view[b].completed >= client[c].view[b].completed
            /\ client[c].view[b].done => client'[c].view[b].done

LEMMA MovesNeverFall == ASSUME PageInv, [LiveNext]_liveVars PROVE NeverFalls
<1>0. PageTypes /\ client \in [Clients -> Client] /\ Moves
  BY StepMoves DEF PageInv, PageTypes
<1>1. Grows /\ PageMoves
  BY <1>0 DEF Moves
<1>2. \A c \in Clients : client[c].view \in [Batches -> View] /\ Views(client[c].view, done')
  <2>1. \A c \in Clients : client[c].view \in [Batches -> View]
    BY <1>0 DEF Client
  <2> QED BY <1>0, <1>1, <2>1, StillViewed DEF PageInv, PagesAreHonest
<1>3. \A c \in Clients, b \in Batches : client[c].view[b].completed \in Nat
  BY <1>2 DEF View
<1>4. CASE client' = client
  BY <1>3, <1>4 DEF NeverFalls
<1>5. CASE \E c \in Clients : \E new : NewPage(c, new)
  <2>0. PICK c \in Clients : \E new : NewPage(c, new)
    BY <1>5
  <2>1. PICK new : NewPage(c, new)
    BY <2>0
  <2>2. \A x \in Clients : client'[x] = IF x = c THEN new ELSE client[x]
    BY <1>0, <2>1 DEF NewPage
  <2>3. done' \in Counts
    BY <1>1 DEF Grows
  <2>4. ASSUME NEW b \in Batches, client[c].pc # "away", new.pc # "away", client[c].view[b].seen
        PROVE  /\ new.view[b].completed >= client[c].view[b].completed
               /\ client[c].view[b].done => new.view[b].done
    <3>1. CASE new.view = client[c].view
      BY <1>3, <3>1
    <3>2. CASE \E s \in Snap : Shows(s, done') /\ new.view = Applied(client[c].view, s)
      BY <1>2, <2>3, <2>4, <3>2, AppliedView
    <3> QED BY <2>1, <2>4, <3>1, <3>2 DEF NewPage
  <2> QED BY <1>3, <2>2, <2>4 DEF NeverFalls
<1> QED BY <1>1, <1>4, <1>5 DEF PageMoves

\* On an open page the count of a batch never falls and a finished batch never
\* reopens, in whatever order its snapshots are published and delivered
\* (batchProgressTracker).
THEOREM ProgressKept == LiveSpec => ProgressNeverFalls
<1>1. LiveInit => PageInv
  BY PagesBegin
<1>2. PageInv /\ [LiveNext]_liveVars => PageInv'
  BY PagesKeep
<1>3. PageInv /\ [LiveNext]_liveVars => [NeverFalls]_liveVars
  BY MovesNeverFall
<1> QED BY <1>1, <1>2, <1>3, PTL DEF LiveSpec, ProgressNeverFalls, NeverFalls
=============================================================================
