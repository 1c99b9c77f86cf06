----------------------- MODULE JetStreamAppendProofs -----------------------
(***************************************************************************)
(* Theorems about JetStreamAppend for any number of calls, streams, types, *)
(* attempts and any batch size and stream limit.                           *)
(*                                                                         *)
(* VersionsConsecutive is not inductive: a publish in flight carries an    *)
(* anchor chosen long ago.  What makes it safe is that the anchor is the   *)
(* predecessor of the event it travels with (InFlightAnchored), so that    *)
(* "the anchor is still the tip" means "the event is the next version".    *)
(* ConflictIsFinal rests on a second fact: when a call reports or is about *)
(* to report a conflict, the stream has already passed every version it    *)
(* still has in flight (ConflictIsSpent).                                  *)
(***************************************************************************)
EXTENDS JetStreamAppend, SequenceTheorems, TLAPS

\* tip[s] is the last message of the scope of s.
TipIsLast ==
    \A s \in Streams :
        /\ tip[s] \in 0..Len(log)
        /\ tip[s] # 0 => log[tip[s]].stream = s
        /\ \A i \in DOMAIN log : log[i].stream = s => i <= tip[s]

\* A version never exceeds the sequence it is stored at.
VersionsBounded == \A i \in DOMAIN log : log[i].version <= i

\* What is stored or in flight was asked for by a started call.
Requested(e) ==
    /\ batch[e.call] \in EL!Batches
    /\ e.pos \in 1..batch[e.call].n
    /\ e = Event(e.call, e.pos)
    /\ pc[e.call] # "idle"
LogRequested == \A i \in DOMAIN log : Requested(log[i])
NetRequested == \A m \in net : Requested(m.event)

DedupPersisted == \A e \in dedup : Persisted(e)

\* The anchor of a publish in flight is the predecessor of its event.
Precedes(seq, e) ==
    IF seq = 0 THEN e.version = 1
    ELSE /\ seq \in DOMAIN log
         /\ log[seq].stream = e.stream
         /\ log[seq].type = e.type
         /\ log[seq].version = e.version - 1
InFlightAnchored == \A m \in net : Precedes(m.anchor, m.event)

\* A call moves through its batch in order.
PrefixPersisted(c, k) == \A i \in 1..(k - 1) : Persisted(Event(c, i))
ProgressOf(c) ==
    /\ pc[c] = "idle" <=> outcome[c] = "none"
    /\ pc[c] \in {"check", "wait", "reload"} <=> outcome[c] = "open"
    /\ pc[c] = "idle" => from[c] = 1
    /\ pc[c] = "reload" => lastErr[c] # "none"
    /\ pc[c] # "idle" => batch[c] \in EL!Batches
    /\ outcome[c] = "open" => from[c] <= batch[c].n /\ PrefixPersisted(c, from[c])
    /\ outcome[c] = "open" => ScopeVersion(Stream(c)) >= Event(c, from[c]).version - 1
    /\ pc[c] = "wait" => at[c] \in from[c]..batch[c].n /\ PrefixPersisted(c, at[c])
Progress == \A c \in Calls : ProgressOf(c)

\* A publish left only after everything before it in its batch was stored.
InOrder(c, m) ==
    /\ PrefixPersisted(c, m.event.pos)
    /\ pc[c] = "check" => m.event.pos <= from[c]
    /\ pc[c] = "wait" => m.event.pos <= at[c]
InFlightInOrder == \A m \in net : InOrder(m.event.call, m)

\* An answer tells the truth about the event the call waits for.
ReplyTrueOf(c) ==
    pc[c] = "wait" =>
        /\ reply[c].kind = "ack" =>
              /\ reply[c].seq \in DOMAIN log
              /\ log[reply[c].seq] = Event(c, at[c])
        /\ reply[c].kind = "miss" => ScopeVersion(Stream(c)) >= Event(c, at[c]).version
RepliesTrue == \A c \in Calls : ReplyTrueOf(c)

\* Nothing that a conflicting call still has in flight can be stored.
Spent(c) == \A m \in net : m.event.call = c => m.event.version <= ScopeVersion(Stream(c))
SpentOf(c) ==
    outcome[c] = "conflict" \/ (pc[c] = "reload" /\ lastErr[c] = "conflict") => Spent(c)
ConflictIsSpent == \A c \in Calls : SpentOf(c)

IndInv ==
    /\ TypeOK
    /\ TipIsLast
    /\ VersionsConsecutive
    /\ VersionsBounded
    /\ LogRequested
    /\ NetRequested
    /\ DedupPersisted
    /\ InFlightAnchored
    /\ Progress
    /\ InFlightInOrder
    /\ RepliesTrue
    /\ ConflictIsSpent
    /\ SuccessIsComplete

-----------------------------------------------------------------------------
\* The version read from the tip of a scope is a natural number.
LEMMA ScopeVersionNat ==
    ASSUME TypeOK, TipIsLast, NEW s \in Streams
    PROVE  ScopeVersion(s) \in Nat
<1>1. CASE tip[s] = 0
  BY <1>1 DEF ScopeVersion
<1>2. CASE tip[s] # 0
  <2>1. tip[s] \in DOMAIN log
    BY <1>2 DEF TipIsLast, TypeOK
  <2>2. log[tip[s]] \in EventRec
    BY <2>1 DEF TypeOK
  <2> QED BY <1>2, <2>2 DEF ScopeVersion, EventRec
<1> QED BY <1>1, <1>2

\* An event of a started call is a well-formed event record.
LEMMA EventType ==
    ASSUME NEW c \in Calls, batch[c] \in EL!Batches, NEW i \in 1..batch[c].n
    PROVE  /\ i \in 1..MaxBatch
           /\ Event(c, i) \in EventRec
           /\ Event(c, i).version = batch[c].base + i
           /\ Event(c, i).stream = batch[c].stream
           /\ Event(c, i).type = batch[c].type
           /\ Event(c, i).call = c
           /\ Event(c, i).pos = i
<1>1. i \in 1..MaxBatch
  BY BatchAssumption DEF EL!Batches
<1> QED BY <1>1 DEF EventRec, Event, EL!Event, EL!EventOf, EL!Batches

\* What the invariant says of a call that is under way.
LEMMA OpenCall ==
    ASSUME IndInv, NEW c \in Calls, pc[c] \in {"check", "wait", "reload"}
    PROVE  /\ outcome[c] = "open"
           /\ batch[c] \in EL!Batches
           /\ batch[c].stream \in Streams /\ batch[c].base \in Nat
           /\ batch[c].n \in Nat
           /\ from[c] \in 1..batch[c].n
           /\ \A i \in 1..batch[c].n : Event(c, i) \in EventRec
<1>1. outcome[c] = "open" /\ batch[c] \in EL!Batches /\ from[c] <= batch[c].n
  BY DEF IndInv, Progress, ProgressOf
<1>2. from[c] \in 1..MaxBatch
  BY DEF IndInv, TypeOK
<1> QED BY <1>1, <1>2, EventType, BatchAssumption DEF EL!Batches

\* The invariant holds initially.
LEMMA InitIndInv == Init => IndInv
<1> SUFFICES ASSUME Init PROVE IndInv
  OBVIOUS
<1>1. 1 \in 1..MaxBatch /\ 1 \in 1..MaxAttempts
  BY BatchAssumption, AttemptAssumption
<1>2. TypeOK
  BY <1>1 DEF Init, TypeOK, PCs, Errors, Reply, NoReply
<1>3. log = << >> /\ net = {} /\ dedup = {}
  BY DEF Init
<1>4. TipIsLast /\ VersionsConsecutive /\ VersionsBounded /\ LogRequested
  BY <1>3 DEF Init, TipIsLast, VersionsConsecutive, VersionsBounded, LogRequested
<1>5. NetRequested /\ DedupPersisted /\ InFlightAnchored /\ InFlightInOrder
  BY <1>3 DEF NetRequested, DedupPersisted, InFlightAnchored, InFlightInOrder
<1>6. Progress /\ RepliesTrue /\ ConflictIsSpent /\ SuccessIsComplete
  BY DEF Init, Progress, ProgressOf, RepliesTrue, ReplyTrueOf, ConflictIsSpent, SpentOf, SuccessIsComplete
<1> QED BY <1>2, <1>4, <1>5, <1>6 DEF IndInv

-----------------------------------------------------------------------------
(* The call's own steps leave the server alone.                            *)

\* A step of a call preserves the types.
LEMMA TypeOKCall ==
    ASSUME IndInv, NEW c \in Calls, CallStep(c)
    PROVE  TypeOK'
<1> USE BatchAssumption, AttemptAssumption DEF TypeOK, server, client
<1> TypeOK BY DEF IndInv
<1>0. pc[c] # "idle" => from[c] \in 1..MaxBatch /\ batch[c] \in EL!Batches
  BY DEF IndInv, Progress, ProgressOf
<1>1. CASE Begin(c)
  <2>1. PICK s \in Streams, t \in Types, n \in 1..MaxBatch :
            \E base \in 0..ScopeVersion(s) :
              batch' = [batch EXCEPT ![c] = [stream |-> s, type |-> t, base |-> base, n |-> n]]
    BY <1>1 DEF Begin
  <2>2. ScopeVersion(s) \in Nat
    BY ScopeVersionNat DEF IndInv
  <2>3. batch' \in [Calls -> EL!Batches \cup {EL!NoBatch}]
    BY <2>1, <2>2 DEF EL!Batches
  <2> QED BY <1>1, <2>3 DEF Begin, PCs
<1>2. CASE CheckConflict(c)
  BY <1>2 DEF CheckConflict, Reconcile, PCs, Errors
<1>3. CASE CheckRejected(c)
  BY <1>3 DEF CheckRejected, Return, PCs, EL!Answers
<1>4. CASE CheckPublish(c)
  <2>1. Event(c, from[c]) \in EventRec
    BY <1>4, OpenCall DEF CheckPublish
  <2>2. tip[Stream(c)] \in Nat
    BY <1>4, <1>0 DEF CheckPublish, Stream, EL!Batches
  <2> QED BY <1>4, <2>1, <2>2 DEF CheckPublish, Publish, PCs, Message, Reply, NoReply
<1>5. CASE AckedNext(c)
  <2>1. at[c] + 1 \in 1..MaxBatch /\ Event(c, at[c] + 1) \in EventRec
    BY <1>5, <1>0, EventType DEF AckedNext, EL!Batches
  <2>2. reply[c].seq \in Nat
    BY DEF Reply
  <2> QED BY <1>5, <2>1, <2>2 DEF AckedNext, Publish, PCs, Message, Reply, NoReply
<1>6. CASE AckedLast(c)
  BY <1>6 DEF AckedLast, Return, PCs, EL!Answers
<1>7. CASE CasMissed(c)
  BY <1>7 DEF CasMissed, Reconcile, PCs, Errors
<1>8. CASE StreamFull(c)
  BY <1>8 DEF StreamFull, Return, PCs, EL!Answers
<1>9. CASE TimedOut(c)
  BY <1>9 DEF TimedOut, Reconcile, PCs, Errors
<1>10. CASE ReloadInterrupted(c)
  BY <1>10 DEF ReloadInterrupted, Return, PCs, EL!Answers
<1>11. CASE ReloadComplete(c)
  BY <1>11 DEF ReloadComplete, Return, PCs, EL!Answers
<1>12. CASE ReloadConflict(c)
  BY <1>12 DEF ReloadConflict, Return, PCs, EL!Answers
<1>13. CASE ReloadRetry(c)
  <2>1. PICK k \in from[c]..batch[c].n : from' = [from EXCEPT ![c] = k]
    BY <1>13 DEF ReloadRetry
  <2>2. k \in 1..MaxBatch
    BY <1>13, <1>0, <2>1 DEF ReloadRetry, EL!Batches
  <2> QED BY <1>13, <2>1, <2>2 DEF ReloadRetry, PCs
<1>14. CASE ReloadExhausted(c)
  BY <1>14 DEF ReloadExhausted, Return, PCs, EL!Answers, Errors
<1> QED BY <1>1, <1>2, <1>3, <1>4, <1>5, <1>6, <1>7, <1>8, <1>9, <1>10, <1>11,
           <1>12, <1>13, <1>14 DEF CallStep

\* A step of a call does not touch the log, the tips or the window.
LEMMA ServerUnchanged ==
    ASSUME NEW c \in Calls, CallStep(c)
    PROVE  UNCHANGED server
BY DEF CallStep, Begin, CheckConflict, CheckRejected, CheckPublish, AckedNext, AckedLast,
       CasMissed, StreamFull, TimedOut, ReloadInterrupted, ReloadComplete, ReloadConflict,
       ReloadRetry, ReloadExhausted

\* The facts about the log alone survive a step of a call.
LEMMA LogFactsCall ==
    ASSUME IndInv, NEW c \in Calls, CallStep(c)
    PROVE  /\ TipIsLast' /\ VersionsConsecutive' /\ VersionsBounded' /\ DedupPersisted'
           /\ \A e : Persisted(e)' <=> Persisted(e)
           /\ \A s : ScopeVersion(s)' = ScopeVersion(s)
<1>1. log' = log /\ tip' = tip /\ dedup' = dedup
  BY ServerUnchanged DEF server
<1> QED BY <1>1 DEF IndInv, TipIsLast, VersionsConsecutive, VersionsBounded, DedupPersisted,
                    Persisted, EL!Persisted, ScopeVersion

\* Only Begin touches a batch, and only that of an idle call.
LEMMA BatchKept ==
    ASSUME IndInv, NEW c \in Calls, CallStep(c), NEW d \in Calls, pc[d] # "idle"
    PROVE  /\ batch'[d] = batch[d] /\ pc'[d] # "idle"
           /\ \A i : Event(d, i)' = Event(d, i)
           /\ Stream(d)' = Stream(d)
<1>1. batch'[d] = batch[d] /\ pc'[d] # "idle"
  BY DEF IndInv, TypeOK, CallStep, Begin, CheckConflict, CheckRejected, CheckPublish, AckedNext,
         AckedLast, CasMissed, StreamFull, TimedOut, ReloadInterrupted, ReloadComplete,
         ReloadConflict, ReloadRetry, ReloadExhausted, Return, Reconcile, Publish
<1> QED BY <1>1 DEF Event, EL!Event, EL!EventOf, Stream

\* A step of c changes nothing of another call.
LEMMA OthersKept ==
    ASSUME IndInv, NEW c \in Calls, CallStep(c), NEW d \in Calls, d # c
    PROVE  /\ batch'[d] = batch[d] /\ pc'[d] = pc[d] /\ outcome'[d] = outcome[d]
           /\ from'[d] = from[d] /\ at'[d] = at[d] /\ lastErr'[d] = lastErr[d]
           /\ reply'[d] = reply[d] /\ attempt'[d] = attempt[d]
           /\ \A i : Event(d, i)' = Event(d, i)
           /\ Stream(d)' = Stream(d)
<1>1. /\ batch'[d] = batch[d] /\ pc'[d] = pc[d] /\ outcome'[d] = outcome[d]
      /\ from'[d] = from[d] /\ at'[d] = at[d] /\ lastErr'[d] = lastErr[d]
      /\ reply'[d] = reply[d] /\ attempt'[d] = attempt[d]
  BY DEF IndInv, TypeOK, CallStep, Begin, CheckConflict, CheckRejected, CheckPublish, AckedNext,
         AckedLast, CasMissed, StreamFull, TimedOut, ReloadInterrupted, ReloadComplete,
         ReloadConflict, ReloadRetry, ReloadExhausted, Return, Reconcile, Publish, client
<1> QED BY <1>1 DEF Event, EL!Event, EL!EventOf, Stream

\* What a call step may put into net: one publish, of the event after the
\* stored prefix, anchored at that event's predecessor.
Sends(c, m) ==
    /\ m.event = Event(c, m.event.pos)
    /\ m.event.call = c
    /\ m.event.pos \in 1..batch[c].n
    /\ m.event.pos = at'[c]
    /\ pc'[c] = "wait"
    /\ PrefixPersisted(c, m.event.pos)
    /\ Precedes(m.anchor, m.event)
    /\ m.event.pos >= IF pc[c] = "check" THEN from[c] ELSE at[c]

\* A publish that a step of c adds is the next one of the batch of c.
LEMMA NetCall ==
    ASSUME IndInv, NEW c \in Calls, CallStep(c), NEW m \in net', m \notin net
    PROVE  Sends(c, m) /\ pc[c] \in {"check", "wait"}
<1>1. CheckPublish(c) \/ AckedNext(c)
  BY DEF CallStep, Begin, CheckConflict, CheckRejected, AckedLast, CasMissed, StreamFull,
         TimedOut, ReloadInterrupted, ReloadComplete, ReloadConflict, ReloadRetry, ReloadExhausted
<1>2. CASE CheckPublish(c)
  <2> DEFINE i == from[c]  s == Stream(c)
  <2>1. m.event = Event(c, i) /\ m.anchor = tip[s] /\ at'[c] = i /\ pc'[c] = "wait"
    BY <1>2 DEF CheckPublish, Publish, IndInv, TypeOK
  <2>2. /\ batch[c] \in EL!Batches /\ s \in Streams /\ i \in 1..batch[c].n
        /\ PrefixPersisted(c, i)
    BY <1>2, OpenCall DEF CheckPublish, Stream, IndInv, Progress, ProgressOf
  <2>3. Event(c, i).pos = i /\ Event(c, i).call = c /\ Event(c, i).stream = s
        /\ Event(c, i).type = batch[c].type /\ Event(c, i).version \in Nat \ {0}
    BY <2>2, EventType DEF Stream, EventRec
  <2>4. Precedes(tip[s], Event(c, i))
    <3>1. ScopeVersion(s) = Event(c, i).version - 1
      BY <1>2 DEF CheckPublish, TipMatches
    <3>2. CASE tip[s] = 0
      BY <3>1, <3>2, <2>3 DEF ScopeVersion, Precedes
    <3>3. CASE tip[s] # 0
      <4>1. tip[s] \in DOMAIN log /\ log[tip[s]].stream = s
        BY <2>2, <3>3 DEF IndInv, TipIsLast, TypeOK
      <4>2. log[tip[s]].type = batch[c].type
        BY <1>2, <3>3 DEF CheckPublish, TypeMatches
      <4> QED BY <3>1, <3>3, <4>1, <4>2, <2>3 DEF ScopeVersion, Precedes
    <3> QED BY <3>2, <3>3
  <2> QED BY <1>2, <2>1, <2>2, <2>3, <2>4 DEF Sends, CheckPublish
<1>3. CASE AckedNext(c)
  <2> DEFINE i == at[c] + 1
  <2>1. m.event = Event(c, i) /\ m.anchor = reply[c].seq /\ at'[c] = i /\ pc'[c] = "wait"
    BY <1>3 DEF AckedNext, Publish, IndInv, TypeOK
  <2>2. pc[c] = "wait" /\ reply[c].kind = "ack" /\ at[c] < batch[c].n
    BY <1>3 DEF AckedNext
  <2>3. /\ batch[c] \in EL!Batches /\ batch[c].n \in Nat
        /\ at[c] \in 1..batch[c].n /\ i \in 1..batch[c].n /\ PrefixPersisted(c, at[c])
    BY <2>2, OpenCall DEF IndInv, Progress, ProgressOf
  <2>4. reply[c].seq \in DOMAIN log /\ log[reply[c].seq] = Event(c, at[c])
    BY <2>2 DEF IndInv, RepliesTrue, ReplyTrueOf
  <2>5. PrefixPersisted(c, i)
    BY <2>3, <2>4 DEF PrefixPersisted, Persisted, EL!Persisted
  <2>6. Precedes(reply[c].seq, Event(c, i))
    <3>1. reply[c].seq # 0
      BY <2>4 DEF IndInv, TypeOK
    <3> QED BY <3>1, <2>3, <2>4, EventType DEF Precedes, EL!Batches
  <2>7. Event(c, i).pos = i /\ Event(c, i).call = c
    BY <2>3, EventType
  <2> QED BY <2>1, <2>2, <2>3, <2>5, <2>6, <2>7 DEF Sends
<1> QED BY <1>1, <1>2, <1>3


\* A publish of c was asked for and is anchored at its predecessor.
LEMMA RequestedCall ==
    ASSUME IndInv, NEW c \in Calls, CallStep(c)
    PROVE  LogRequested' /\ NetRequested' /\ InFlightAnchored'
<1>1. ASSUME NEW e, e.call \in Calls, Requested(e) PROVE Requested(e)'
  BY <1>1, BatchKept DEF Requested
<1>2. log' = log /\ tip' = tip
  BY ServerUnchanged DEF server
<1>3. \A i \in DOMAIN log : log[i].call \in Calls
  <2>1. \A i \in DOMAIN log : log[i] \in EventRec
    BY DEF IndInv, TypeOK
  <2> QED BY <2>1 DEF EventRec
<1>4. \A m \in net : m.event.call \in Calls
  BY DEF IndInv, TypeOK, Message, EventRec
<1>5. ASSUME NEW m \in net', m \notin net PROVE Requested(m.event)' /\ Precedes(m.anchor, m.event)'
  <2>1. Sends(c, m) /\ pc[c] \in {"check", "wait"}
    BY <1>5, NetCall
  <2>2. Requested(m.event)
    BY <2>1, OpenCall DEF Requested, Sends
  <2>3. Requested(m.event)'
    BY <2>1, <2>2, <1>1 DEF Sends
  <2> QED BY <2>1, <2>3, <1>2 DEF Sends, Precedes
<1>6. LogRequested'
  BY <1>1, <1>2, <1>3 DEF IndInv, LogRequested
<1>7. NetRequested'
  BY <1>1, <1>4, <1>5 DEF IndInv, NetRequested
<1>8. InFlightAnchored'
  BY <1>2, <1>5 DEF IndInv, InFlightAnchored, Precedes
<1> QED BY <1>6, <1>7, <1>8

SuccessOf(c) == outcome[c] = "ok" => \A i \in 1..batch[c].n : Persisted(Event(c, i))

\* A call keeps its own place in the batch, its answers and its success true.
LEMMA ProgressCall ==
    ASSUME IndInv, NEW c \in Calls, CallStep(c)
    PROVE  ProgressOf(c)' /\ ReplyTrueOf(c)' /\ SuccessOf(c)'
<1> USE DEF ProgressOf, ReplyTrueOf, SuccessOf
<1> TypeOK /\ ProgressOf(c) /\ ReplyTrueOf(c) /\ SuccessOf(c)
  BY DEF IndInv, Progress, RepliesTrue, SuccessIsComplete
<1>a. /\ \A e : Persisted(e)' <=> Persisted(e)
      /\ \A s : ScopeVersion(s)' = ScopeVersion(s)
      /\ log' = log
  BY LogFactsCall, ServerUnchanged DEF server
<1>b. pc[c] # "idle" => /\ batch'[c] = batch[c] /\ Stream(c)' = Stream(c)
                       /\ \A i : Event(c, i)' = Event(c, i)
  BY BatchKept
<1>c. ASSUME NEW k, pc[c] # "idle" PROVE PrefixPersisted(c, k)' <=> PrefixPersisted(c, k)
  BY <1>a, <1>b, <1>c DEF PrefixPersisted
<1>1. CASE Begin(c)
  <2>1. PICK s \in Streams, t \in Types, n \in 1..MaxBatch :
          \E base \in 0..ScopeVersion(s) :
            batch' = [batch EXCEPT ![c] = [stream |-> s, type |-> t, base |-> base, n |-> n]]
    BY <1>1 DEF Begin
  <2>2. PICK base \in 0..ScopeVersion(s) :
            batch' = [batch EXCEPT ![c] = [stream |-> s, type |-> t, base |-> base, n |-> n]]
    BY <2>1
  <2>3. ScopeVersion(s) \in Nat /\ n \in Nat /\ n >= 1
    BY ScopeVersionNat, BatchAssumption DEF IndInv
  <2>4. batch'[c] = [stream |-> s, type |-> t, base |-> base, n |-> n]
    BY <2>2 DEF TypeOK
  <2>5. batch'[c] \in EL!Batches
    BY <2>3, <2>4 DEF EL!Batches
  <2>6. pc'[c] = "check" /\ outcome'[c] = "open" /\ from'[c] = 1
    BY <1>1 DEF Begin, TypeOK, client
  <2>7. Stream(c)' = s /\ Event(c, 1)'.version = base + 1
    BY <2>4 DEF Stream, Event, EL!Event, EL!EventOf
  <2>8. PrefixPersisted(c, 1)'
    BY DEF PrefixPersisted
  <2> QED BY <2>3, <2>4, <2>5, <2>6, <2>7, <2>8, <1>a
<1>2. CASE CheckConflict(c) \/ CheckRejected(c)
  BY <1>2, <1>a, <1>b, <1>c DEF CheckConflict, CheckRejected, Reconcile, Return, TypeOK, client
<1>3. CASE CheckPublish(c) \/ AckedNext(c)
  <2>1. pc'[c] = "wait" /\ outcome' = outcome /\ from' = from /\ reply'[c] = NoReply
    BY <1>3 DEF CheckPublish, AckedNext, Publish, TypeOK
  <2>2. at'[c] \in from[c]..batch[c].n /\ PrefixPersisted(c, at'[c])
    <3>1. CASE CheckPublish(c)
      <4>1. at'[c] = from[c]
        BY <3>1 DEF CheckPublish, Publish, TypeOK
      <4> QED BY <3>1, <4>1, OpenCall DEF CheckPublish
    <3>2. CASE AckedNext(c)
      <4>1. at'[c] = at[c] + 1 /\ at[c] < batch[c].n
        BY <3>2 DEF AckedNext, Publish, TypeOK
      <4>2. Persisted(Event(c, at[c]))
        BY <3>2 DEF AckedNext, Persisted, EL!Persisted
      <4>3. at[c] \in Nat /\ from[c] \in Nat /\ batch[c].n \in Nat
        BY <3>2, OpenCall DEF AckedNext, TypeOK
      <4> QED BY <3>2, <4>1, <4>2, <4>3 DEF AckedNext, PrefixPersisted
    <3> QED BY <1>3, <3>1, <3>2
  <2>3. outcome[c] = "open" /\ pc[c] # "idle"
    BY <1>3, OpenCall DEF CheckPublish, AckedNext
  <2> QED BY <2>1, <2>2, <2>3, <1>a, <1>b, <1>c DEF NoReply
<1>4. CASE AckedLast(c)
  <2>1. pc[c] = "wait" /\ reply[c].kind = "ack" /\ at[c] = batch[c].n
    BY <1>4 DEF AckedLast
  <2>2. Persisted(Event(c, at[c]))
    BY <2>1 DEF Persisted, EL!Persisted
  <2>3. \A i \in 1..batch[c].n : Persisted(Event(c, i))
    BY <2>1, <2>2, OpenCall DEF PrefixPersisted
  <2> QED BY <1>4, <2>3, <1>a, <1>b, <1>c DEF AckedLast, Return, TypeOK
<1>5. CASE CasMissed(c) \/ StreamFull(c) \/ TimedOut(c)
  <2>1. /\ pc[c] = "wait" /\ from'[c] = from[c]
        /\ \/ pc'[c] = "reload" /\ outcome'[c] = outcome[c] /\ lastErr'[c] # "none"
           \/ pc'[c] = "done" /\ outcome'[c] = "rejected"
    BY <1>5 DEF CasMissed, StreamFull, TimedOut, Reconcile, Return, TypeOK, client
  <2> QED BY <2>1, <1>a, <1>b, <1>c
<1>6. CASE ReloadInterrupted(c) \/ ReloadConflict(c) \/ ReloadExhausted(c)
  <2>1. /\ pc[c] = "reload" /\ pc'[c] = "done" /\ batch'[c] = batch[c]
        /\ outcome'[c] \in {"interrupted", "conflict", "indeterminate", "none"}
    BY <1>6, <1>b DEF ReloadInterrupted, ReloadConflict, ReloadExhausted, Return, TypeOK, Errors
  <2>2. batch[c] \in EL!Batches
    BY <2>1, OpenCall
  <2>3. outcome'[c] # "none"
    <3>1. ReloadExhausted(c) => lastErr[c] # "none"
      BY <2>1 DEF IndInv
    <3> QED BY <1>6, <2>1, <3>1 DEF ReloadInterrupted, ReloadConflict, ReloadExhausted, Return, TypeOK
  <2> QED BY <2>1, <2>2, <2>3
<1>7. CASE ReloadComplete(c)
  <2>1. \A i \in 1..batch[c].n : Persisted(Event(c, i))
    BY <1>7, OpenCall DEF ReloadComplete, PrefixPersisted
  <2> QED BY <1>7, <2>1, <1>a, <1>b, <1>c DEF ReloadComplete, Return, TypeOK
<1>8. CASE ReloadRetry(c)
  <2>1. PICK k \in from[c]..batch[c].n :
          FirstMissing(c, k) /\ TailFits(c, k) /\ from' = [from EXCEPT ![c] = k]
    BY <1>8 DEF ReloadRetry
  <2>2. from'[c] = k /\ pc'[c] = "check" /\ outcome'[c] = outcome[c] /\ pc[c] = "reload"
    BY <1>8, <2>1 DEF ReloadRetry, TypeOK
  <2>3. from[c] \in Nat /\ batch[c].n \in Nat /\ k \in 1..batch[c].n
    BY <2>2, OpenCall
  <2>4. PrefixPersisted(c, k)
    BY <2>1, <2>2, <2>3 DEF FirstMissing, PrefixPersisted
  <2>5. ScopeVersion(Stream(c)) >= Event(c, k).version - 1
    <3>1. ScopeVersion(Stream(c)) \in Nat
      BY <2>2, OpenCall, ScopeVersionNat DEF IndInv, Stream
    <3> QED BY <2>1, <3>1 DEF TailFits
  <2> QED BY <2>2, <2>3, <2>4, <2>5, <1>a, <1>b, <1>c
<1> QED BY <1>1, <1>2, <1>3, <1>4, <1>5, <1>6, <1>7, <1>8 DEF CallStep

\* What the invariant says of a publish in flight.
LEMMA InFlight ==
    ASSUME IndInv, NEW m \in net
    PROVE  /\ m.event.call \in Calls /\ pc[m.event.call] # "idle"
           /\ batch[m.event.call] \in EL!Batches
           /\ m.event.pos \in 1..batch[m.event.call].n
           /\ m.event = Event(m.event.call, m.event.pos)
           /\ m.event \in EventRec
           /\ m.event.stream = Stream(m.event.call)
           /\ m.event.version = batch[m.event.call].base + m.event.pos
           /\ m.anchor \in Nat
BY EventType DEF IndInv, TypeOK, NetRequested, Requested, Message, EventRec, Stream

\* Nothing stored in a scope is newer than the scope's tip.
LEMMA BelowTip ==
    ASSUME IndInv, NEW e, Persisted(e), e.stream \in Streams
    PROVE  e.version <= ScopeVersion(e.stream)
<1>1. PICK i \in DOMAIN log : log[i] = e
  BY DEF Persisted, EL!Persisted
<1> DEFINE t == tip[e.stream]
<1>2. i <= t /\ t \in DOMAIN log /\ t # 0 /\ log[t].stream = e.stream
  <2>1. log \in Seq(EventRec) /\ i \in 1..Len(log)
    BY <1>1 DEF IndInv, TypeOK
  <2>2. t \in 0..Len(log) /\ i <= t
    BY <1>1 DEF IndInv, TipIsLast
  <2>3. t # 0 /\ t \in 1..Len(log)
    BY <2>1, <2>2
  <2> QED BY <2>1, <2>2, <2>3 DEF IndInv, TipIsLast
<1>3. CASE i = t
  <2>1. log[t] \in EventRec
    BY <1>2 DEF IndInv, TypeOK
  <2>2. ScopeVersion(e.stream) = e.version
    BY <1>1, <1>2, <1>3 DEF ScopeVersion
  <2> QED BY <1>1, <1>3, <2>1, <2>2 DEF EventRec
<1>4. CASE i # t
  <2>1. i \in 1..(t - 1)
    BY <1>1, <1>2, <1>4 DEF IndInv, TypeOK
  <2>2. log[i].version < log[t].version
    BY <1>1, <1>2, <2>1 DEF IndInv, VersionsConsecutive
  <2>3. log[i] \in EventRec /\ log[t] \in EventRec /\ t # 0
    BY <1>1, <1>2, <2>1 DEF IndInv, TypeOK
  <2> QED BY <1>1, <2>2, <2>3 DEF ScopeVersion, EventRec
<1> QED BY <1>3, <1>4

\* Publishes leave in batch order, also across retries.
LEMMA InOrderCall ==
    ASSUME IndInv, NEW c \in Calls, CallStep(c)
    PROVE  InFlightInOrder'
<1>a. \A e : Persisted(e)' <=> Persisted(e)
  BY LogFactsCall
<1>1. ASSUME NEW m \in net, m.event.call = c PROVE InOrder(c, m)'
  <2>0. /\ pc[c] # "idle" /\ batch[c] \in EL!Batches /\ m.event.pos \in 1..batch[c].n
        /\ m.event = Event(c, m.event.pos)
    BY <1>1, InFlight
  <2>1. InOrder(c, m)
    BY <1>1 DEF IndInv, InFlightInOrder
  <2>2. PrefixPersisted(c, m.event.pos)'
    BY <2>0, <2>1, <1>a, BatchKept DEF InOrder, PrefixPersisted
  <2>3. ASSUME pc'[c] = "check" PROVE m.event.pos <= from'[c]
    <3>1. ReloadRetry(c)
      BY <2>0, <2>3 DEF IndInv, TypeOK, CallStep, Begin, CheckConflict, CheckRejected, CheckPublish,
         AckedNext, AckedLast, CasMissed, StreamFull, TimedOut, ReloadInterrupted, ReloadComplete,
         ReloadConflict, ReloadRetry, ReloadExhausted, Return, Reconcile, Publish
    <3>2. PICK k \in from[c]..batch[c].n :
            FirstMissing(c, k) /\ from' = [from EXCEPT ![c] = k]
      BY <3>1 DEF ReloadRetry
    <3>3. from'[c] = k /\ from[c] \in Nat /\ batch[c].n \in Nat /\ k \in 1..batch[c].n
      BY <3>1, <3>2, OpenCall DEF ReloadRetry, IndInv, TypeOK
    <3>4. ~ (k < m.event.pos)
      BY <2>0, <2>1, <3>2, <3>3 DEF FirstMissing, InOrder, PrefixPersisted
    <3> QED BY <3>3, <3>4, <2>0
  <2>4. ASSUME pc'[c] = "wait" PROVE m.event.pos <= at'[c]
    <3>1. CheckPublish(c) \/ AckedNext(c)
      BY <2>0, <2>4 DEF IndInv, TypeOK, CallStep, Begin, CheckConflict, CheckRejected, CheckPublish,
         AckedNext, AckedLast, CasMissed, StreamFull, TimedOut, ReloadInterrupted, ReloadComplete,
         ReloadConflict, ReloadRetry, ReloadExhausted, Return, Reconcile, Publish
    <3>2. \/ pc[c] = "check" /\ at'[c] = from[c]
          \/ pc[c] = "wait" /\ at'[c] = at[c] + 1 /\ at[c] \in Nat
      BY <3>1 DEF CheckPublish, AckedNext, Publish, IndInv, TypeOK
    <3>3. batch[c].n \in Nat
      BY <3>2, OpenCall
    <3> QED BY <2>0, <2>1, <3>2, <3>3 DEF InOrder
  <2> QED BY <2>2, <2>3, <2>4 DEF InOrder
<1>2. ASSUME NEW m \in net, m.event.call # c PROVE InOrder(m.event.call, m)'
  <2>1. m.event.call \in Calls /\ InOrder(m.event.call, m)
    BY InFlight DEF IndInv, InFlightInOrder
  <2> QED BY <1>2, <2>1, <1>a, OthersKept DEF InOrder, PrefixPersisted
<1>3. ASSUME NEW m \in net', m \notin net PROVE InOrder(m.event.call, m)'
  <2>1. Sends(c, m) /\ pc[c] \in {"check", "wait"}
    BY <1>3, NetCall
  <2>2. PrefixPersisted(c, m.event.pos)'
    BY <2>1, <1>a, BatchKept DEF Sends, PrefixPersisted
  <2>3. batch[c].n \in Nat
    BY <2>1, OpenCall
  <2> QED BY <2>1, <2>2, <2>3 DEF Sends, InOrder
<1> QED BY <1>1, <1>2, <1>3 DEF InFlightInOrder

\* A call concludes a conflict only when nothing it has in flight can land.
LEMMA SpentCall ==
    ASSUME IndInv, NEW c \in Calls, CallStep(c)
    PROVE  ConflictIsSpent'
<1>a. \A s : ScopeVersion(s)' = ScopeVersion(s)
  BY LogFactsCall
<1>1. ASSUME NEW d \in Calls, d # c PROVE SpentOf(d)'
  <2>1. SpentOf(d)
    BY DEF IndInv, ConflictIsSpent
  <2>2. ASSUME NEW m \in net', m.event.call = d PROVE m \in net
    BY <1>1, <2>2, NetCall DEF Sends
  <2> QED BY <1>1, <2>1, <2>2, <1>a, OthersKept DEF SpentOf, Spent
<1>2. SpentOf(c)'
  <2> SUFFICES ASSUME outcome'[c] = "conflict" \/ (pc'[c] = "reload" /\ lastErr'[c] = "conflict")
               PROVE  Spent(c)'
    BY DEF SpentOf
  <2>0. CheckConflict(c) \/ CasMissed(c) \/ ReloadConflict(c) \/ ReloadExhausted(c)
    BY DEF IndInv, TypeOK, Progress, ProgressOf, CallStep, Begin, CheckConflict, CheckRejected, CheckPublish,
         AckedNext, AckedLast, CasMissed, StreamFull, TimedOut, ReloadInterrupted, ReloadComplete,
         ReloadConflict, ReloadRetry, ReloadExhausted, Return, Reconcile, Publish, client
  <2>1. net' = net /\ pc[c] \in {"check", "wait", "reload"}
    BY <2>0 DEF CheckConflict, CasMissed, ReloadConflict, ReloadExhausted
  <2>2. Stream(c)' = Stream(c)
    BY <2>1, BatchKept
  <2> SUFFICES ASSUME NEW m \in net, m.event.call = c
               PROVE  m.event.version <= ScopeVersion(Stream(c))
    BY <2>1, <2>2, <1>a DEF Spent
  <2>3. /\ m.event.pos \in 1..batch[c].n /\ m.event.version = batch[c].base + m.event.pos
        /\ batch[c] \in EL!Batches /\ batch[c].base \in Nat /\ batch[c].n \in Nat
        /\ from[c] \in 1..batch[c].n /\ Stream(c) \in Streams
    BY <2>1, InFlight, OpenCall DEF Stream
  <2>4. ScopeVersion(Stream(c)) \in Nat
    BY <2>3, ScopeVersionNat DEF IndInv
  <2>5. InOrder(c, m) /\ ProgressOf(c) /\ ReplyTrueOf(c) /\ SpentOf(c)
    BY DEF IndInv, InFlightInOrder, Progress, RepliesTrue, ConflictIsSpent
  <2>6. CASE CheckConflict(c)
    <3>1. Event(c, from[c]).version = batch[c].base + from[c]
      BY <2>3, EventType
    <3> QED BY <2>3, <2>4, <2>5, <2>6, <3>1 DEF CheckConflict, TipMatches, InOrder, ProgressOf
  <2>7. CASE CasMissed(c)
    <3>1. pc[c] = "wait" /\ at[c] \in from[c]..batch[c].n /\ at[c] \in 1..batch[c].n
      BY <2>3, <2>5, <2>7 DEF CasMissed, ProgressOf
    <3>2. Event(c, at[c]).version = batch[c].base + at[c]
      BY <2>3, <3>1, EventType
    <3> QED BY <2>3, <2>4, <2>5, <2>7, <3>1, <3>2 DEF CasMissed, ReplyTrueOf, InOrder
  <2>8. CASE ReloadConflict(c)
    <3>1. PICK k \in from[c]..batch[c].n : FirstMissing(c, k) /\ ~TailFits(c, k)
      BY <2>8 DEF ReloadConflict
    <3>2. k \in 1..batch[c].n /\ Event(c, k).version = batch[c].base + k
      BY <2>3, <3>1, EventType
    <3>3. m.event.pos <= k
      BY <2>3, <2>5, <3>1, <3>2 DEF FirstMissing, InOrder, PrefixPersisted
    <3>4. ScopeVersion(Stream(c)) >= batch[c].base + k - 1
      <4>1. CASE k = from[c]
        BY <2>3, <2>4, <2>5, <2>8, <3>2, <4>1, OpenCall DEF ReloadConflict, ProgressOf
      <4>2. CASE k # from[c]
        <5>1. k - 1 \in from[c]..(k - 1) /\ k - 1 \in 1..batch[c].n
          BY <2>3, <3>1, <3>2, <4>2
        <5>2. Persisted(Event(c, k - 1))
          BY <3>1, <5>1 DEF FirstMissing
        <5>3. /\ Event(c, k - 1).version = batch[c].base + k - 1
              /\ Event(c, k - 1).stream = Stream(c)
          BY <2>3, <5>1, EventType DEF Stream
        <5> QED BY <2>3, <2>4, <5>2, <5>3, BelowTip
      <4> QED BY <4>1, <4>2
    <3>5. ScopeVersion(Stream(c)) # batch[c].base + k - 1
      BY <3>1, <3>2, <2>3, <2>4 DEF TailFits
    <3> QED BY <2>3, <2>4, <3>2, <3>3, <3>4, <3>5
  <2>9. CASE ReloadExhausted(c)
    <3>1. lastErr[c] = "conflict" /\ pc[c] = "reload"
      BY <2>9 DEF ReloadExhausted, Return, IndInv, TypeOK, client
    <3> QED BY <2>5, <3>1 DEF SpentOf, Spent
  <2> QED BY <2>0, <2>6, <2>7, <2>8, <2>9
<1> QED BY <1>1, <1>2 DEF ConflictIsSpent

\* A step of one call keeps progress, answers and success true for all calls.
LEMMA SuccessCall ==
    ASSUME IndInv, NEW c \in Calls, CallStep(c)
    PROVE  Progress' /\ RepliesTrue' /\ SuccessIsComplete'
<1>a. /\ \A e : Persisted(e)' <=> Persisted(e)
      /\ \A s : ScopeVersion(s)' = ScopeVersion(s)
      /\ log' = log
  BY LogFactsCall, ServerUnchanged DEF server
<1>1. ProgressOf(c)' /\ ReplyTrueOf(c)' /\ SuccessOf(c)'
  BY ProgressCall
<1>2. ASSUME NEW d \in Calls, d # c PROVE ProgressOf(d)' /\ ReplyTrueOf(d)' /\ SuccessOf(d)'
  <2>1. ProgressOf(d) /\ ReplyTrueOf(d) /\ SuccessOf(d)
    BY DEF IndInv, Progress, RepliesTrue, SuccessIsComplete, SuccessOf
  <2> QED BY <1>2, <2>1, <1>a, OthersKept
             DEF ProgressOf, ReplyTrueOf, SuccessOf, PrefixPersisted
<1> QED BY <1>1, <1>2 DEF Progress, RepliesTrue, SuccessIsComplete, SuccessOf

\* Every step of a call preserves the invariant.
LEMMA CallIndInv == ASSUME IndInv, NEW c \in Calls, CallStep(c) PROVE IndInv'
BY TypeOKCall, LogFactsCall, RequestedCall, InOrderCall, SpentCall, SuccessCall DEF IndInv

-----------------------------------------------------------------------------
(* The server and the network.                                             *)

\* The log only grows, so what was true of a call stays true, and an answer
\* that is true of its publish is true of the call that waits for it.
LEMMA AnswerTrue ==
    ASSUME IndInv, NEW m \in net, NEW r \in Reply, Answer(m, r),
           UNCHANGED <<batch, pc, at>>,
           \A i \in DOMAIN log : i \in DOMAIN log' /\ log'[i] = log[i],
           \A s \in Streams : /\ ScopeVersion(s) \in Nat /\ ScopeVersion(s)' \in Nat
                              /\ ScopeVersion(s)' >= ScopeVersion(s),
           r.kind = "ack" => r.seq \in DOMAIN log' /\ log'[r.seq] = m.event,
           r.kind = "miss" => ScopeVersion(m.event.stream)' >= m.event.version
    PROVE  RepliesTrue' /\ reply' \in [Calls -> Reply]
<1> DEFINE c == m.event.call
<1>1. c \in Calls /\ m.event.stream = Stream(c)
  BY InFlight
<1>2. reply \in [Calls -> Reply]
  BY DEF IndInv, TypeOK
<1>3. \A d, i : Event(d, i)' = Event(d, i)
  BY DEF Event, EL!Event, EL!EventOf
<1>4. \A d : Stream(d)' = Stream(d)
  BY DEF Stream
<1>5. ASSUME NEW d \in Calls, reply'[d] = reply[d] PROVE ReplyTrueOf(d)'
  <2>1. ReplyTrueOf(d)
    BY DEF IndInv, RepliesTrue
  <2>2. SUFFICES ASSUME pc[d] = "wait" PROVE ReplyTrueOf(d)'
    BY DEF ReplyTrueOf
  <2>3. Stream(d) \in Streams /\ batch[d] \in EL!Batches /\ at[d] \in 1..batch[d].n
    <3>1. batch[d].n \in Nat /\ batch[d] \in EL!Batches /\ from[d] \in Nat
      BY <2>2, OpenCall
    <3> QED BY <2>2, <3>1, OpenCall DEF Stream, IndInv, Progress, ProgressOf
  <2>4. Event(d, at[d]).version \in Nat
    BY <2>3, EventType DEF EventRec
  <2> QED BY <1>3, <1>4, <1>5, <2>1, <2>2, <2>3, <2>4 DEF ReplyTrueOf
<1>6. CASE Awaits(c, m) /\ reply' = [reply EXCEPT ![c] = r]
  <2>1. reply'[c] = r /\ m.event = Event(c, at[c])
    BY <1>1, <1>2, <1>6 DEF Awaits
  <2>2. ReplyTrueOf(c)'
    BY <1>1, <1>3, <1>4, <2>1 DEF ReplyTrueOf
  <2>3. \A d \in Calls : d # c => reply'[d] = reply[d]
    BY <1>2, <1>6
  <2> QED BY <1>2, <1>5, <1>6, <2>2, <2>3 DEF RepliesTrue
<1>7. CASE reply' = reply
  BY <1>2, <1>5, <1>7 DEF RepliesTrue
<1> QED BY <1>6, <1>7 DEF Answer

\* A step that stores nothing: publishes disappear, a true answer may arrive.
LEMMA QuietIndInv ==
    ASSUME IndInv, UNCHANGED <<log, tip, batch, outcome, pc, client>>,
           net' \subseteq net, dedup' \subseteq dedup,
           RepliesTrue', reply' \in [Calls -> Reply]
    PROVE  IndInv'
<1> USE DEF client
<1>1. TypeOK'
  BY DEF IndInv, TypeOK
<1>2. \A e : Persisted(e)' <=> Persisted(e)
  BY DEF Persisted, EL!Persisted
<1>3. \A c, i : Event(c, i)' = Event(c, i)
  BY DEF Event, EL!Event, EL!EventOf
<1>4. \A s : ScopeVersion(s)' = ScopeVersion(s)
  BY DEF ScopeVersion
<1>5. \A c : Stream(c)' = Stream(c)
  BY DEF Stream
<1>6. TipIsLast' /\ VersionsConsecutive' /\ VersionsBounded' /\ DedupPersisted'
  BY <1>2 DEF IndInv, TipIsLast, VersionsConsecutive, VersionsBounded, DedupPersisted
<1>7. LogRequested' /\ NetRequested' /\ InFlightAnchored'
  BY <1>3 DEF IndInv, LogRequested, NetRequested, InFlightAnchored, Requested, Precedes
<1>8. Progress' /\ InFlightInOrder' /\ SuccessIsComplete' /\ ConflictIsSpent'
  BY <1>2, <1>3, <1>4, <1>5
     DEF IndInv, Progress, ProgressOf, InFlightInOrder, InOrder, SuccessIsComplete, ConflictIsSpent,
         SpentOf, Spent, PrefixPersisted
<1> QED BY <1>1, <1>6, <1>7, <1>8 DEF IndInv

\* Losing a publish or ending a duplicate window preserves the invariant.
LEMMA SilentIndInv ==
    ASSUME IndInv, UNCHANGED <<log, tip, batch, outcome, pc, client, reply>>,
           net' \subseteq net, dedup' \subseteq dedup
    PROVE  IndInv'
<1>1. RepliesTrue'
  BY DEF IndInv, RepliesTrue, ReplyTrueOf, Event, EL!Event, EL!EventOf, Stream, ScopeVersion, client
<1>2. reply' \in [Calls -> Reply]
  BY DEF IndInv, TypeOK
<1> QED BY <1>1, <1>2, QuietIndInv

\* Every server step that stores nothing preserves the invariant.
LEMMA QuietServer ==
    ASSUME IndInv,
           \/ \E m \in net : ServeDuplicate(m) \/ ServeMiss(m) \/ ServeFull(m) \/ Lose(m)
           \/ \E e \in dedup : Expire(e)
    PROVE  IndInv'
<1> USE DEF server, client
<1>1. \A s \in Streams : ScopeVersion(s) \in Nat
  BY ScopeVersionNat DEF IndInv
<1>2. ASSUME UNCHANGED <<log, tip>> PROVE \A s : ScopeVersion(s)' = ScopeVersion(s)
  BY <1>2 DEF ScopeVersion
<1>3. ASSUME NEW m \in net, ServeDuplicate(m) PROVE IndInv'
  <2>1. PICK i \in DOMAIN log : log[i] = m.event /\ Answer(m, [kind |-> "ack", seq |-> i])
    BY <1>3 DEF ServeDuplicate
  <2>2. [kind |-> "ack", seq |-> i] \in Reply
    BY <2>1 DEF Reply, IndInv, TypeOK
  <2>3. UNCHANGED <<log, tip, batch, outcome, pc, client>> /\ net' \subseteq net /\ dedup' \subseteq dedup
    BY <1>3 DEF ServeDuplicate
  <2>4. RepliesTrue' /\ reply' \in [Calls -> Reply]
    BY <1>1, <1>2, <2>1, <2>2, <2>3, AnswerTrue
  <2> QED BY <2>3, <2>4, QuietIndInv
<1>4. ASSUME NEW m \in net, ServeMiss(m) PROVE IndInv'
  <2>1. Answer(m, [kind |-> "miss", seq |-> 0]) /\ tip[m.event.stream] # m.anchor
    BY <1>4 DEF ServeMiss
  <2>2. [kind |-> "miss", seq |-> 0] \in Reply
    BY DEF Reply
  <2>3. UNCHANGED <<log, tip, batch, outcome, pc, client>> /\ net' \subseteq net /\ dedup' \subseteq dedup
    BY <1>4 DEF ServeMiss
  <2>4. ScopeVersion(m.event.stream) >= m.event.version
    <3> DEFINE s == m.event.stream  t == tip[s]
    <3>1. m.event \in EventRec /\ s \in Streams /\ Precedes(m.anchor, m.event)
      BY InFlight DEF EventRec, IndInv, InFlightAnchored
    <3>2. t \in 0..Len(log) /\ (t # 0 => log[t] \in EventRec /\ log[t].stream = s)
      BY <3>1 DEF IndInv, TipIsLast, TypeOK
    <3>3. CASE m.anchor = 0
      BY <2>1, <3>1, <3>2, <3>3 DEF Precedes, ScopeVersion, EventRec
    <3>4. CASE m.anchor # 0
      <4>1. /\ m.anchor \in DOMAIN log /\ log[m.anchor].stream = s
            /\ log[m.anchor].version = m.event.version - 1
        BY <3>1, <3>4 DEF Precedes
      <4>2. m.anchor \in 1..(t - 1) /\ t \in DOMAIN log /\ t # 0
        <5>1. log \in Seq(EventRec) /\ m.anchor \in 1..Len(log)
          BY <4>1 DEF IndInv, TypeOK
        <5>2. m.anchor <= t
          BY <3>1, <4>1 DEF IndInv, TipIsLast
        <5> QED BY <2>1, <3>2, <5>1, <5>2
      <4>3. log[m.anchor].version < log[t].version
        BY <3>2, <4>1, <4>2 DEF IndInv, VersionsConsecutive
      <4> QED BY <3>1, <3>2, <4>1, <4>2, <4>3 DEF ScopeVersion, EventRec
    <3> QED BY <3>3, <3>4
  <2>5. RepliesTrue' /\ reply' \in [Calls -> Reply]
    BY <1>1, <1>2, <2>1, <2>2, <2>3, <2>4, AnswerTrue
  <2> QED BY <2>3, <2>5, QuietIndInv
<1>5. ASSUME NEW m \in net, ServeFull(m) PROVE IndInv'
  <2>1. Answer(m, [kind |-> "full", seq |-> 0]) /\ [kind |-> "full", seq |-> 0] \in Reply
    BY <1>5 DEF ServeFull, Reply
  <2>2. UNCHANGED <<log, tip, batch, outcome, pc, client>> /\ net' \subseteq net /\ dedup' \subseteq dedup
    BY <1>5 DEF ServeFull
  <2>3. RepliesTrue' /\ reply' \in [Calls -> Reply]
    BY <1>1, <1>2, <2>1, <2>2, AnswerTrue
  <2> QED BY <2>2, <2>3, QuietIndInv
<1>7. ASSUME NEW m \in net, Lose(m) PROVE IndInv'
  BY <1>7, SilentIndInv DEF Lose
<1>8. ASSUME NEW e \in dedup, Expire(e) PROVE IndInv'
  BY <1>8, SilentIndInv DEF Expire
<1> QED BY <1>3, <1>4, <1>5, <1>7, <1>8

\* If the anchor of a publish is still the tip of its scope, its event is the
\* next version of the stream, of the stream's type.
LEMMA AnchorFits ==
    ASSUME IndInv, NEW m \in net, tip[m.event.stream] = m.anchor
    PROVE  EL!Fits(m.event)
<1> DEFINE e == m.event  s == m.event.stream
<1>1. e \in EventRec /\ s \in Streams /\ Precedes(m.anchor, e)
  BY InFlight DEF EventRec, IndInv, InFlightAnchored
<1>2. DOMAIN log = 1..Len(log) /\ Len(log) \in Nat /\ \A i \in 1..Len(log) : log[i] \in EventRec
  BY DEF IndInv, TypeOK
<1>3. ASSUME NEW i \in 1..Len(log), log[i].stream = s
      PROVE  log[i].version < e.version /\ log[i].type = e.type
  <2>1. i <= m.anchor /\ m.anchor # 0
    BY <1>1, <1>2, <1>3 DEF IndInv, TipIsLast
  <2>2. /\ m.anchor \in 1..Len(log) /\ log[m.anchor].stream = s
        /\ log[m.anchor].type = e.type /\ log[m.anchor].version = e.version - 1
    BY <1>1, <1>2, <2>1 DEF Precedes
  <2>3. CASE i = m.anchor
    BY <1>1, <2>2, <2>3 DEF EventRec
  <2>4. CASE i # m.anchor
    <3>1. i \in 1..(m.anchor - 1)
      BY <2>1, <2>2, <2>4
    <3>2. log[i].version < log[m.anchor].version /\ log[i].type = log[m.anchor].type
      BY <1>2, <1>3, <2>2, <3>1 DEF IndInv, VersionsConsecutive
    <3>3. log[i].version \in Nat /\ e.version \in Nat
      BY <1>1, <1>2 DEF EventRec
    <3> QED BY <2>2, <3>2, <3>3
  <2> QED BY <2>3, <2>4
<1>4. e.version > 1 => \E i \in DOMAIN log : log[i].stream = s /\ log[i].version = e.version - 1
  BY <1>1 DEF Precedes, EventRec
<1> QED BY <1>2, <1>3, <1>4 DEF EL!Fits

\* The one step that writes: the anchor is still the tip of the scope.
LEMMA StoreIndInv ==
    ASSUME IndInv, NEW m \in net, ServeStore(m)
    PROVE  IndInv'
<1> DEFINE e == m.event  s == m.event.stream  n == Len(log) + 1  c == m.event.call
<1>1. /\ log' = Append(log, e) /\ tip' = [tip EXCEPT ![s] = n] /\ dedup' = dedup \cup {e}
      /\ net' \subseteq net /\ UNCHANGED <<batch, outcome, pc, client>>
      /\ tip[s] = m.anchor /\ Answer(m, [kind |-> "ack", seq |-> n])
  BY DEF ServeStore
<1>2. /\ e \in EventRec /\ s \in Streams /\ Precedes(m.anchor, e) /\ Requested(e)
      /\ c \in Calls /\ s = Stream(c)
  BY InFlight DEF EventRec, IndInv, InFlightAnchored, NetRequested
<1>3. log \in Seq(EventRec) /\ tip \in [Streams -> Nat] /\ TypeOK
  BY DEF IndInv, TypeOK
<1>4. /\ Len(log') = n /\ n \in Nat \ {0} /\ log' \in Seq(EventRec)
      /\ DOMAIN log = 1..Len(log) /\ DOMAIN log' = 1..n
      /\ log'[n] = e
      /\ \A i \in 1..Len(log) : log'[i] = log[i]
  BY <1>1, <1>2, <1>3
<1>5. tip'[s] = n /\ \A r \in Streams : r # s => tip'[r] = tip[r]
  BY <1>1, <1>2, <1>3
<1>6. \A d, i : Event(d, i)' = Event(d, i)
  BY <1>1 DEF Event, EL!Event, EL!EventOf
<1>7. \A d : Stream(d)' = Stream(d)
  BY <1>1 DEF Stream
<1>8. \A x : Persisted(x)' <=> Persisted(x) \/ x = e
  BY <1>4 DEF Persisted, EL!Persisted
<1>9. ScopeVersion(s) = e.version - 1 /\ ScopeVersion(s)' = e.version
  <2>1. ScopeVersion(s)' = e.version
    BY <1>4, <1>5 DEF ScopeVersion
  <2>2. ScopeVersion(s) = e.version - 1
    BY <1>1, <1>2 DEF ScopeVersion, Precedes, EventRec
  <2> QED BY <2>1, <2>2
<1>10. \A r \in Streams : /\ ScopeVersion(r) \in Nat /\ ScopeVersion(r)' \in Nat
                          /\ ScopeVersion(r)' >= ScopeVersion(r)
  <2>1. \A r \in Streams : ScopeVersion(r) \in Nat
    BY ScopeVersionNat DEF IndInv
  <2>2. \A r \in Streams : r # s => ScopeVersion(r)' = ScopeVersion(r)
    <3> SUFFICES ASSUME NEW r \in Streams, r # s PROVE ScopeVersion(r)' = ScopeVersion(r)
      OBVIOUS
    <3>1. tip[r] \in 0..Len(log) /\ tip'[r] = tip[r]
      BY <1>5 DEF IndInv, TipIsLast
    <3>2. tip[r] = 0 \/ tip[r] \in 1..Len(log)
      BY <1>4, <3>1
    <3> QED BY <1>4, <3>1, <3>2 DEF ScopeVersion
  <2> QED BY <1>2, <1>9, <2>1, <2>2 DEF EventRec
<1>11. \A i \in 1..Len(log) : log[i] \in EventRec
  BY <1>3
<1>12. ASSUME NEW i \in 1..Len(log), log[i].stream = s
       PROVE  log[i].version < e.version /\ log[i].type = e.type
  BY <1>1, <1>4, <1>12, AnchorFits DEF EL!Fits
<1>13. VersionsConsecutive'
  <2> SUFFICES ASSUME NEW i \in 1..n
               PROVE  /\ \A j \in 1..(i - 1) : log'[j].stream = log'[i].stream =>
                           log'[j].version < log'[i].version /\ log'[j].type = log'[i].type
                      /\ log'[i].version > 1 => \E j \in 1..(i - 1) :
                           log'[j].stream = log'[i].stream /\ log'[j].version = log'[i].version - 1
    BY <1>4 DEF VersionsConsecutive
  <2>1. CASE i \in 1..Len(log)
    <3>1. log'[i] = log[i] /\ \A j \in 1..(i - 1) : log'[j] = log[j]
      BY <1>3, <1>4, <2>1
    <3> QED BY <1>4, <2>1, <3>1 DEF IndInv, VersionsConsecutive
  <2>2. CASE i = n
    <3>1. \A j \in 1..(i - 1) : j \in 1..Len(log) /\ log'[j] = log[j]
      BY <1>3, <1>4, <2>2
    <3>2. ASSUME e.version > 1
          PROVE \E j \in 1..(i - 1) : log'[j].stream = s /\ log'[j].version = e.version - 1
      <4>1. m.anchor \in 1..Len(log) /\ log[m.anchor].stream = s
            /\ log[m.anchor].version = e.version - 1
        BY <1>2, <1>4, <3>2 DEF Precedes, EventRec
      <4> QED BY <1>3, <1>4, <2>2, <4>1
    <3> QED BY <1>4, <1>12, <2>2, <3>1, <3>2
  <2> QED BY <1>4, <2>1, <2>2
<1>14. VersionsBounded'
  <2>1. e.version <= n
    <3>1. CASE m.anchor = 0
      BY <1>2, <1>4, <3>1 DEF Precedes
    <3>2. CASE m.anchor # 0
      <4>1. m.anchor \in 1..Len(log) /\ log[m.anchor].version = e.version - 1
        BY <1>2, <1>4, <3>2 DEF Precedes
      <4>2. log[m.anchor].version <= m.anchor
        BY <1>4, <4>1 DEF IndInv, VersionsBounded
      <4> QED BY <1>2, <1>3, <4>1, <4>2 DEF EventRec
    <3> QED BY <3>1, <3>2
  <2>2. ASSUME NEW i \in 1..n PROVE log'[i].version <= i
    <3>1. CASE i = n
      BY <1>4, <2>1, <3>1
    <3>2. CASE i # n
      <4>1. i \in 1..Len(log)
        BY <1>3, <3>2
      <4> QED BY <1>4, <4>1 DEF IndInv, VersionsBounded
    <3> QED BY <3>1, <3>2
  <2> QED BY <1>4, <2>2 DEF VersionsBounded
<1>15. TipIsLast'
  <2> SUFFICES ASSUME NEW r \in Streams
               PROVE  /\ tip'[r] \in 0..n /\ (tip'[r] # 0 => log'[tip'[r]].stream = r)
                      /\ \A i \in 1..n : log'[i].stream = r => i <= tip'[r]
    BY <1>4 DEF TipIsLast
  <2>1. CASE r = s
    BY <1>4, <1>5, <2>1
  <2>2. CASE r # s
    <3>1. /\ tip'[r] = tip[r] /\ tip[r] \in 0..Len(log)
          /\ tip[r] # 0 => log[tip[r]].stream = r
          /\ \A i \in 1..Len(log) : log[i].stream = r => i <= tip[r]
      BY <1>4, <1>5, <2>2 DEF IndInv, TipIsLast
    <3>2. tip[r] # 0 => tip[r] \in 1..Len(log)
      BY <1>3, <3>1
    <3>3. \A i \in 1..n : i = n \/ i \in 1..Len(log)
      BY <1>3
    <3> QED BY <1>3, <1>4, <2>2, <3>1, <3>2, <3>3
  <2> QED BY <2>1, <2>2
<1>16. DedupPersisted'
  BY <1>1, <1>8 DEF IndInv, DedupPersisted
<1>17. LogRequested' /\ NetRequested'
  <2>1. \A x : Requested(x)' <=> Requested(x)
    BY <1>1, <1>6 DEF Requested
  <2>2. \A i \in 1..n : i = n \/ i \in 1..Len(log)
    BY <1>3
  <2> QED BY <1>1, <1>2, <1>4, <2>1, <2>2 DEF IndInv, LogRequested, NetRequested
<1>18. InFlightAnchored'
  BY <1>1, <1>4 DEF IndInv, InFlightAnchored, Precedes
<1>19. RepliesTrue' /\ reply' \in [Calls -> Reply]
  <2>1. [kind |-> "ack", seq |-> n] \in Reply
    BY <1>4 DEF Reply
  <2>2. UNCHANGED <<batch, pc, at>>
    BY <1>1 DEF client
  <2> QED BY <1>1, <1>4, <1>10, <2>1, <2>2, AnswerTrue
<1>20. TypeOK'
  BY <1>1, <1>2, <1>3, <1>4, <1>19 DEF TypeOK, client
<1>21. ASSUME NEW d \in Calls, NEW k, PrefixPersisted(d, k) PROVE PrefixPersisted(d, k)'
  BY <1>6, <1>8, <1>21 DEF PrefixPersisted
<1>22. Progress'
  <2> SUFFICES ASSUME NEW d \in Calls PROVE ProgressOf(d)'
    BY DEF Progress
  <2>1. ProgressOf(d)
    BY DEF IndInv, Progress
  <2>2. ASSUME outcome[d] = "open"
        PROVE  ScopeVersion(Stream(d))' >= Event(d, from[d]).version - 1
    <3>1. Stream(d) \in Streams /\ Event(d, from[d]) \in EventRec
      BY <2>1, <2>2, OpenCall DEF ProgressOf, Stream
    <3> QED BY <1>7, <1>10, <2>1, <2>2, <3>1 DEF ProgressOf, EventRec
  <2>3. Stream(d)' = Stream(d)
    BY <1>7
  <2> QED BY <1>1, <1>6, <1>7, <1>21, <2>1, <2>2 DEF ProgressOf, client, ScopeVersion
<1>23. InFlightInOrder'
  <2>1. ASSUME NEW x \in net PROVE InOrder(x.event.call, x)'
    <3>1. InOrder(x.event.call, x) /\ x.event.call \in Calls
      BY InFlight DEF IndInv, InFlightInOrder
    <3> QED BY <1>1, <1>21, <3>1 DEF InOrder, client
  <2> QED BY <1>1, <2>1 DEF InFlightInOrder
<1>24. SuccessIsComplete'
  BY <1>1, <1>6, <1>8 DEF IndInv, SuccessIsComplete
<1>25. ConflictIsSpent'
  <2> SUFFICES ASSUME NEW d \in Calls, SpentOf(d), NEW x \in net, x.event.call = d,
                      x.event.version <= ScopeVersion(Stream(d))
               PROVE  x.event.version <= ScopeVersion(Stream(d))'
    BY <1>1 DEF IndInv, ConflictIsSpent, SpentOf, Spent, client
  <2>1. Stream(d) \in Streams /\ x.event.version \in Nat
    BY InFlight DEF EventRec
  <2> QED BY <1>7, <1>10, <2>1
<1> QED BY <1>13, <1>14, <1>15, <1>16, <1>17, <1>18, <1>19, <1>20, <1>22, <1>23, <1>24, <1>25 DEF IndInv

\* A crash preserves the invariant.
LEMMA CrashIndInv == ASSUME IndInv, Crash PROVE IndInv'
<1> USE DEF server, client
<1>1. /\ UNCHANGED <<log, tip, dedup, batch, from, at, anchor, attempt, lastErr>> /\ net' = {}
      /\ \A c \in Calls :
            /\ outcome'[c] = IF outcome[c] = "open" THEN "interrupted" ELSE outcome[c]
            /\ pc'[c] = IF pc[c] = "idle" THEN "idle" ELSE "done"
  BY DEF Crash
<1>2. \A c, i : Event(c, i)' = Event(c, i)
  BY <1>1 DEF Event, EL!Event, EL!EventOf
<1>3. \A e : Persisted(e)' <=> Persisted(e)
  BY <1>1 DEF Persisted, EL!Persisted
<1>4. TypeOK'
  BY <1>1 DEF Crash, IndInv, TypeOK, EL!Answers, PCs, NoReply, Reply
<1>5. TipIsLast' /\ VersionsConsecutive' /\ VersionsBounded' /\ DedupPersisted'
  BY <1>1, <1>3 DEF IndInv, TipIsLast, VersionsConsecutive, VersionsBounded, DedupPersisted
<1>6. LogRequested'
  <2>1. ASSUME NEW i \in DOMAIN log PROVE Requested(log[i])'
    <3>1. Requested(log[i]) /\ log[i] \in EventRec
      BY DEF IndInv, LogRequested, TypeOK
    <3> QED BY <1>1, <1>2, <3>1 DEF Requested, EventRec
  <2> QED BY <1>1, <2>1 DEF LogRequested
<1>7. NetRequested' /\ InFlightAnchored' /\ InFlightInOrder' /\ ConflictIsSpent'
  BY <1>1 DEF NetRequested, InFlightAnchored, InFlightInOrder, ConflictIsSpent, SpentOf, Spent
<1>8. Progress' /\ RepliesTrue' /\ SuccessIsComplete'
  BY <1>1, <1>2, <1>3 DEF IndInv, Progress, ProgressOf, RepliesTrue, ReplyTrueOf, SuccessIsComplete
<1> QED BY <1>4, <1>5, <1>6, <1>7, <1>8 DEF IndInv

\* The invariant is inductive.
LEMMA NextIndInv == ASSUME IndInv, [Next]_vars PROVE IndInv'
<1>1. ASSUME NEW c \in Calls, CallStep(c) PROVE IndInv'
  BY <1>1, CallIndInv
<1>2. CASE ServerStep
  BY <1>2, QuietServer, StoreIndInv DEF ServerStep
<1>3. CASE Crash
  BY <1>3, CrashIndInv
<1>4. CASE UNCHANGED vars
  BY <1>4, SilentIndInv DEF vars, client
<1> QED BY <1>1, <1>2, <1>3, <1>4 DEF Next

-----------------------------------------------------------------------------
(* The theorems.                                                           *)

\* The invariant holds in every reachable state.
THEOREM IndInvHolds == Spec => []IndInv
<1>1. Init => IndInv
  BY InitIndInv
<1>2. IndInv /\ [Next]_vars => IndInv'
  BY NextIndInv
<1> QED BY <1>1, <1>2, PTL DEF Spec

\* Every variable keeps its type.
THEOREM TypeCorrect == Spec => []TypeOK
<1>1. IndInv => TypeOK
  BY DEF IndInv
<1> QED BY <1>1, IndInvHolds, PTL

\* Every stream reads 1, 2, 3, ... of one type, for any number of writers
\* (jetstream_store.go:136-157).
THEOREM GaplessVersions == Spec => []VersionsConsecutive
<1>1. IndInv => VersionsConsecutive
  BY DEF IndInv
<1> QED BY <1>1, IndInvHolds, PTL

\* nil from AppendWithRetry means every event is stored (append_retry.go:22).
THEOREM SuccessComplete == Spec => []SuccessIsComplete
<1>1. IndInv => SuccessIsComplete
  BY DEF IndInv
<1> QED BY <1>1, IndInvHolds, PTL

\* A stored event belongs to a call that may still write.
LEMMA StoreOpen ==
    ASSUME IndInv, NEW m \in net, ServeStore(m)
    PROVE  outcome[m.event.call] \notin EL!Final
<1> DEFINE e == m.event  c == m.event.call
<1>1. /\ c \in Calls /\ e \in EventRec /\ e.stream = Stream(c) /\ e.stream \in Streams
      /\ e.pos \in 1..batch[c].n /\ e = Event(c, e.pos)
  BY InFlight DEF EventRec
<1>2. e.version = ScopeVersion(e.stream) + 1
  BY <1>1 DEF ServeStore, IndInv, InFlightAnchored, Precedes, ScopeVersion, EventRec
<1>3. ScopeVersion(e.stream) \in Nat
  BY <1>1, ScopeVersionNat DEF IndInv
<1>4. outcome[c] # "ok"
  <2>1. ~Persisted(e)
    BY <1>1, <1>2, <1>3, BelowTip
  <2> QED BY <1>1, <2>1 DEF IndInv, SuccessIsComplete
<1>5. outcome[c] # "conflict"
  BY <1>1, <1>2, <1>3 DEF IndInv, ConflictIsSpent, SpentOf, Spent
<1> QED BY <1>4, <1>5 DEF EL!Final

\* Only a store changes the log.
LEMMA LogSteps ==
    ASSUME [Next]_vars
    PROVE  log' = log \/ \E m \in net : ServeStore(m)
<1>1. ASSUME NEW c \in Calls, CallStep(c) PROVE log' = log
  BY <1>1, ServerUnchanged DEF server
<1>2. CASE ServerStep
  BY <1>2 DEF ServerStep, ServeDuplicate, ServeMiss, ServeFull, Lose, Expire, server
<1> QED BY <1>1, <1>2 DEF Next, Crash, vars, server

\* A conflict is final: nothing of the rejected batch surfaces behind the
\* fresh Load of its caller (append_retry.go:23-24).
THEOREM ConflictFinal == Spec => ConflictIsFinal
<1> DEFINE A == \A c \in Calls : outcome[c] = "conflict" =>
                  \A i \in 1..batch[c].n :
                     (\E j \in DOMAIN log' : log'[j] = Event(c, i)) => Persisted(Event(c, i))
<1>1. ASSUME IndInv, [Next]_vars PROVE A
  <2> SUFFICES ASSUME NEW c \in Calls, outcome[c] = "conflict", NEW i \in 1..batch[c].n,
                      NEW j \in DOMAIN log', log'[j] = Event(c, i)
               PROVE  Persisted(Event(c, i))
    OBVIOUS
  <2>1. CASE log' = log
    BY <2>1 DEF Persisted, EL!Persisted
  <2>2. ASSUME NEW m \in net, ServeStore(m) PROVE Persisted(Event(c, i))
    <3>1. m.event.call # c
      BY <1>1, <2>2, StoreOpen DEF EL!Final
    <3>2. batch[c] \in EL!Batches
      BY <1>1 DEF IndInv, Progress, ProgressOf
    <3>3. Event(c, i).call = c
      BY <3>2, EventType
    <3>4. log \in Seq(EventRec) /\ m.event \in EventRec /\ log' = Append(log, m.event)
      BY <1>1, <2>2, InFlight DEF IndInv, TypeOK, ServeStore
    <3>5. j \in DOMAIN log /\ log[j] = Event(c, i)
      BY <3>1, <3>3, <3>4
    <3> QED BY <3>5 DEF Persisted, EL!Persisted
  <2> QED BY <1>1, <2>1, <2>2, LogSteps
<1>2. IndInv /\ [Next]_vars => [A]_vars
  BY <1>1
<1> QED BY <1>2, IndInvHolds, PTL DEF Spec, ConflictIsFinal

\* Every step of the retry protocol is a step of the store's promise.
LEMMA StepRefines ==
    ASSUME IndInv, IndInv', [Next]_vars
    PROVE  [EL!ELNext]_(EL!elVars)
<1> USE DEF EL!elVars, server, client
<1>1. ASSUME NEW c \in Calls, Begin(c) PROVE EL!ELNext
  <2>1. \A s \in Streams : ScopeVersion(s) \in 0..Len(log)
    <3> SUFFICES ASSUME NEW s \in Streams PROVE ScopeVersion(s) \in 0..Len(log)
      OBVIOUS
    <3>1. ScopeVersion(s) \in Nat /\ Len(log) \in Nat /\ tip[s] \in 0..Len(log)
      <4>1. TypeOK /\ TipIsLast
        BY DEF IndInv
      <4>2. ScopeVersion(s) \in Nat
        BY <4>1, ScopeVersionNat
      <4>3. Len(log) \in Nat
        BY <4>1, LenProperties DEF TypeOK
      <4>4. tip[s] \in 0..Len(log)
        BY <4>1 DEF TipIsLast
      <4> QED BY <4>2, <4>3, <4>4
    <3>2. tip[s] # 0 => tip[s] \in DOMAIN log
      BY <3>1 DEF IndInv, TypeOK
    <3> QED BY <3>1, <3>2 DEF ScopeVersion, IndInv, VersionsBounded
  <2>2. PICK s \in Streams, t \in Types, n \in 1..MaxBatch :
          \E base \in 0..ScopeVersion(s) :
            batch' = [batch EXCEPT ![c] = [stream |-> s, type |-> t, base |-> base, n |-> n]]
    BY <1>1 DEF Begin
  <2>3. PICK base \in 0..Len(log) :
            batch' = [batch EXCEPT ![c] = [stream |-> s, type |-> t, base |-> base, n |-> n]]
    <3>1. ScopeVersion(s) \in Nat /\ Len(log) \in Nat /\ ScopeVersion(s) <= Len(log)
      BY <2>1, ScopeVersionNat DEF IndInv, TypeOK
    <3>2. 0..ScopeVersion(s) \subseteq 0..Len(log)
      BY <3>1
    <3> QED BY <2>2, <3>2
  <2>4. outcome[c] = "none" /\ log' = log /\ outcome' = [outcome EXCEPT ![c] = "open"]
    BY <1>1 DEF Begin, IndInv, Progress, ProgressOf
  <2>5. EL!ELStart(c)
    BY <2>3, <2>4 DEF EL!ELStart
  <2> QED BY <2>5 DEF EL!ELNext
<1>2. ASSUME NEW c \in Calls, CallStep(c), ~Begin(c)
      PROVE  EL!ELNext \/ UNCHANGED <<log, batch, outcome>>
  <2>1. log' = log /\ batch' = batch /\ pc[c] \in {"check", "wait", "reload"}
    BY <1>2, ServerUnchanged DEF CallStep, CheckConflict, CheckRejected, CheckPublish, AckedNext,
       AckedLast, CasMissed, StreamFull, TimedOut, ReloadInterrupted, ReloadComplete,
       ReloadConflict, ReloadRetry, ReloadExhausted
  <2>2. CASE outcome' = outcome
    BY <2>1, <2>2
  <2>3. CASE outcome' # outcome
    <3>1. PICK a : outcome' = [outcome EXCEPT ![c] = a] /\ a \in EL!Answers
      <4>1. ReloadExhausted(c) => lastErr[c] \in {"conflict", "indeterminate"}
        BY DEF ReloadExhausted, IndInv, TypeOK, Errors, Progress, ProgressOf
      <4> QED BY <1>2, <2>3, <4>1 DEF CallStep, CheckConflict, CheckRejected, CheckPublish,
           AckedNext, AckedLast, CasMissed, StreamFull, TimedOut, ReloadInterrupted,
           ReloadComplete, ReloadConflict, ReloadRetry, ReloadExhausted, Return, EL!Answers
    <3>2. outcome[c] = "open"
      BY <2>1, OpenCall
    <3>3. a = "ok" => \A i \in 1..batch[c].n : EL!Persisted(EL!Event(c, i))
      <4> SUFFICES ASSUME a = "ok" PROVE \A i \in 1..batch[c].n : EL!Persisted(EL!Event(c, i))
        OBVIOUS
      <4>1. outcome'[c] = "ok"
        BY <3>1 DEF IndInv, TypeOK
      <4>2. \A i \in 1..batch'[c].n : Persisted(Event(c, i))'
        BY <4>1 DEF IndInv, SuccessIsComplete
      <4> QED BY <2>1, <4>2 DEF Persisted, EL!Persisted, Event, EL!Event, EL!EventOf
    <3>4. EL!ELAnswer(c)
      BY <2>1, <3>1, <3>2, <3>3 DEF EL!ELAnswer
    <3> QED BY <3>4 DEF EL!ELNext
  <2> QED BY <2>2, <2>3
<1>3. ASSUME NEW m \in net, ServeStore(m) PROVE EL!ELNext
  <2> DEFINE c == m.event.call  i == m.event.pos
  <2>1. c \in Calls /\ i \in 1..batch[c].n /\ m.event = EL!Event(c, i)
    BY InFlight DEF Event
  <2>2. EL!Fits(EL!Event(c, i))
    BY <1>3, <2>1, AnchorFits DEF ServeStore
  <2>3. log' = Append(log, EL!Event(c, i)) /\ UNCHANGED <<batch, outcome>>
    BY <1>3, <2>1 DEF ServeStore
  <2>4. EL!ELLand(c)
    BY <1>3, <2>1, <2>2, <2>3, StoreOpen DEF EL!ELLand
  <2> QED BY <2>1, <2>4 DEF EL!ELNext
<1>4. ASSUME ServerStep, ~ \E m \in net : ServeStore(m) PROVE UNCHANGED <<log, batch, outcome>>
  BY <1>4 DEF ServerStep, ServeDuplicate, ServeMiss, ServeFull, Lose, Expire
<1>5. CASE Crash
  <2>1. EL!ELCrash
    BY <1>5 DEF Crash, EL!ELCrash
  <2> QED BY <2>1 DEF EL!ELNext
<1>6. CASE UNCHANGED vars
  BY <1>6 DEF vars
<1> QED BY <1>1, <1>2, <1>3, <1>4, <1>5, <1>6 DEF Next

\* AppendWithRetry over JetStreamStore implements the event store's promise.
THEOREM Refinement == Spec => ImplementsEventLog
<1>1. Init => EL!ELInit
  BY DEF Init, EL!ELInit
<1>2. IndInv /\ IndInv' /\ [Next]_vars => [EL!ELNext]_(EL!elVars)
  BY StepRefines
<1> QED BY <1>1, <1>2, IndInvHolds, PTL DEF Spec, ImplementsEventLog, EL!ELSpec
=============================================================================
