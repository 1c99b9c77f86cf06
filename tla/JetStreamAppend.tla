-------------------------- MODULE JetStreamAppend --------------------------
(***************************************************************************)
(* AppendWithRetry over JetStreamStore.Append (internal/eventsourcing/     *)
(* append_retry.go, jetstream_store.go) on the DOMAIN_EVENTS truth stream. *)
(* JetStream has no multi-message transaction, so a batch is published one *)
(* event at a time under a per-aggregate compare-and-set, and a mid-batch  *)
(* failure leaves a prefix behind.  A publish may be lost, may land after  *)
(* its caller gave up on it, and its acknowledgement may be lost.          *)
(***************************************************************************)
EXTENDS Naturals, Sequences

CONSTANTS Calls,        \* concurrent AppendWithRetry calls
          Streams,      \* aggregate IDs
          Types,        \* aggregate types
          MaxBatch,     \* bound: events in one call
          MaxAttempts,  \* appendRetryAttempts
          MaxMsgs       \* MaxMsgs of the truth stream (DiscardNew)

ASSUME BatchAssumption   == MaxBatch \in Nat \ {0}
ASSUME AttemptAssumption == MaxAttempts \in Nat \ {0}
ASSUME MsgsAssumption    == MaxMsgs \in Nat

VARIABLES log,      \* the stream's messages; a sequence number is an index
          tip,      \* tip[s]: last sequence in the scope domain.events.*.s.*, 0 if none
          dedup,    \* events whose MsgID is inside the duplicate window
          net,      \* publishes the server has not processed yet
          batch,    \* the call's stream, type, expected version and size
          outcome,  \* what the call has returned
          pc,       \* "idle", "check", "wait", "reload" or "done"
          from,     \* first event of `remaining`
          at,       \* event being published
          anchor,   \* expected last sequence for the next publish
          attempt,  \* loop counter of AppendWithRetry
          lastErr,  \* class of the error being reconciled
          reply     \* publish acknowledgement that reached the client

server == <<log, tip, dedup>>
client == <<from, at, anchor, attempt, lastErr>>
vars == <<log, tip, dedup, net, batch, outcome, pc, from, at, anchor, attempt, lastErr, reply>>

EL == INSTANCE EventLog

NoReply == [kind |-> "none", seq |-> 0]
PCs     == {"idle", "check", "wait", "reload", "done"}
Errors  == {"none", "conflict", "indeterminate"}

Event(c, i)  == EL!Event(c, i)
Persisted(e) == EL!Persisted(e)
Stream(c)    == batch[c].stream

\* Version of the aggregate's last persisted event.
ScopeVersion(s) == IF tip[s] = 0 THEN 0 ELSE log[tip[s]].version

Init ==
    /\ log = << >>
    /\ tip = [s \in Streams |-> 0]
    /\ dedup = {}
    /\ net = {}
    /\ batch = [c \in Calls |-> EL!NoBatch]
    /\ outcome = [c \in Calls |-> "none"]
    /\ pc = [c \in Calls |-> "idle"]
    /\ from = [c \in Calls |-> 1]
    /\ at = [c \in Calls |-> 1]
    /\ anchor = [c \in Calls |-> 0]
    /\ attempt = [c \in Calls |-> 1]
    /\ lastErr = [c \in Calls |-> "none"]
    /\ reply = [c \in Calls |-> NoReply]

-----------------------------------------------------------------------------
(* The call.                                                               *)

\* A caller that loaded the stream at version base (possibly stale by now)
\* enters AppendWithRetry.
Begin(c) ==
    /\ pc[c] = "idle"
    /\ \E s \in Streams, t \in Types, n \in 1..MaxBatch :
         \E base \in 0..ScopeVersion(s) :
            batch' = [batch EXCEPT ![c] = [stream |-> s, type |-> t, base |-> base, n |-> n]]
    /\ outcome' = [outcome EXCEPT ![c] = "open"]
    /\ pc' = [pc EXCEPT ![c] = "check"]
    /\ UNCHANGED <<server, net, client, reply>>

Return(c, answer) ==
    /\ outcome' = [outcome EXCEPT ![c] = answer]
    /\ pc' = [pc EXCEPT ![c] = "done"]

\* Send event i under the expectation that seq is the scope's last sequence.
Publish(c, i, seq) ==
    /\ net' = net \cup {[event |-> Event(c, i), anchor |-> seq, attempt |-> attempt[c]]}
    /\ at' = [at EXCEPT ![c] = i]
    /\ anchor' = [anchor EXCEPT ![c] = seq]
    /\ reply' = [reply EXCEPT ![c] = NoReply]
    /\ pc' = [pc EXCEPT ![c] = "wait"]

Reconcile(c, err) ==
    /\ lastErr' = [lastErr EXCEPT ![c] = err]
    /\ pc' = [pc EXCEPT ![c] = "reload"]

\* Mutant: the expected version is not compared with the tip.
TipUnchecked(c) == Stream(c) \in Streams

\* Layer 1 of Append: GetLastMsgForSubject against the expected version.
TipMatches(c) == ScopeVersion(Stream(c)) = Event(c, from[c]).version - 1

TypeMatches(c) == tip[Stream(c)] # 0 => log[tip[Stream(c)]].type = batch[c].type

CheckConflict(c) ==
    /\ pc[c] = "check" /\ ~TipMatches(c)
    /\ Reconcile(c, "conflict")
    /\ UNCHANGED <<server, net, batch, outcome, from, at, anchor, attempt, reply>>

\* A type mismatch, or a failed read of the tip: returned at once.
CheckRejected(c) ==
    /\ pc[c] = "check"
    /\ Return(c, "rejected")
    /\ UNCHANGED <<server, net, batch, client, reply>>

CheckPublish(c) ==
    /\ pc[c] = "check" /\ TipMatches(c) /\ TypeMatches(c)
    /\ Publish(c, from[c], tip[Stream(c)])
    /\ UNCHANGED <<server, batch, outcome, from, attempt, lastErr>>

\* Layer 2: the acknowledgement's sequence anchors the next publish.
AckedNext(c) ==
    /\ pc[c] = "wait" /\ reply[c].kind = "ack" /\ at[c] < batch[c].n
    /\ Publish(c, at[c] + 1, reply[c].seq)
    /\ UNCHANGED <<server, batch, outcome, from, attempt, lastErr>>

AckedLast(c) ==
    /\ pc[c] = "wait" /\ reply[c].kind = "ack" /\ at[c] = batch[c].n
    /\ Return(c, "ok")
    /\ UNCHANGED <<server, net, batch, client, reply>>

CasMissed(c) ==
    /\ pc[c] = "wait" /\ reply[c].kind = "miss"
    /\ Reconcile(c, "conflict")
    /\ UNCHANGED <<server, net, batch, outcome, from, at, anchor, attempt, reply>>

StreamFull(c) ==
    /\ pc[c] = "wait" /\ reply[c].kind = "full"
    /\ Return(c, "rejected")
    /\ UNCHANGED <<server, net, batch, client, reply>>

\* No answer in time: the publish may still be on its way.
TimedOut(c) ==
    /\ pc[c] = "wait" /\ reply[c] = NoReply
    /\ Reconcile(c, "indeterminate")
    /\ UNCHANGED <<server, net, batch, outcome, from, at, anchor, attempt, reply>>

\* A dead context or a failed Load ends reconciliation.
ReloadInterrupted(c) ==
    /\ pc[c] = "reload"
    /\ Return(c, "interrupted")
    /\ UNCHANGED <<server, net, batch, client, reply>>

\* Mutant: the persisted prefix is recognised by version, not by event ID.
ReloadCompleteByVersion(c) ==
    /\ pc[c] = "reload"
    /\ \A i \in from[c]..batch[c].n : Event(c, i).version <= ScopeVersion(Stream(c))
    /\ Return(c, "ok")
    /\ UNCHANGED <<server, net, batch, client, reply>>

ReloadComplete(c) ==
    /\ pc[c] = "reload"
    /\ \A i \in from[c]..batch[c].n : Persisted(Event(c, i))
    /\ Return(c, "ok")
    /\ UNCHANGED <<server, net, batch, client, reply>>

\* k is the first remaining event whose ID the reloaded stream lacks.
FirstMissing(c, k) ==
    /\ ~Persisted(Event(c, k))
    /\ \A i \in from[c]..(k - 1) : Persisted(Event(c, i))

TailFits(c, k) == Event(c, k).version = ScopeVersion(Stream(c)) + 1

\* Mutant: a batch that is not complete after the reload is a conflict.
ReloadConflictEager(c) ==
    /\ pc[c] = "reload"
    /\ \E k \in from[c]..batch[c].n : FirstMissing(c, k)
    /\ Return(c, "conflict")
    /\ UNCHANGED <<server, net, batch, client, reply>>

ReloadConflict(c) ==
    /\ pc[c] = "reload"
    /\ \E k \in from[c]..batch[c].n : FirstMissing(c, k) /\ ~TailFits(c, k)
    /\ Return(c, "conflict")
    /\ UNCHANGED <<server, net, batch, client, reply>>

\* Mutant: the attempt is not counted.
ReloadRetryUncounted(c) ==
    /\ pc[c] = "reload" /\ attempt[c] < MaxAttempts
    /\ \E k \in from[c]..batch[c].n :
         /\ FirstMissing(c, k) /\ TailFits(c, k)
         /\ from' = [from EXCEPT ![c] = k]
    /\ pc' = [pc EXCEPT ![c] = "check"]
    /\ UNCHANGED <<server, net, batch, outcome, attempt, at, anchor, lastErr, reply>>

ReloadRetry(c) ==
    /\ pc[c] = "reload" /\ attempt[c] < MaxAttempts
    /\ \E k \in from[c]..batch[c].n :
         /\ FirstMissing(c, k) /\ TailFits(c, k)
         /\ from' = [from EXCEPT ![c] = k]
    /\ attempt' = [attempt EXCEPT ![c] = @ + 1]
    /\ pc' = [pc EXCEPT ![c] = "check"]
    /\ UNCHANGED <<server, net, batch, outcome, at, anchor, lastErr, reply>>

\* The last attempt failed although the tail still fits: lastErr is returned.
ReloadExhausted(c) ==
    /\ pc[c] = "reload" /\ attempt[c] = MaxAttempts
    /\ \E k \in from[c]..batch[c].n : FirstMissing(c, k) /\ TailFits(c, k)
    /\ Return(c, lastErr[c])
    /\ UNCHANGED <<server, net, batch, client, reply>>

-----------------------------------------------------------------------------
(* The JetStream server and the network (not under src/).                  *)

\* The answer to m reaches the client only while it waits for that publish.
Awaits(c, m) ==
    /\ pc[c] = "wait" /\ reply[c] = NoReply
    /\ m.event = Event(c, at[c]) /\ m.attempt = attempt[c]

Answer(m, r) ==
    LET c == m.event.call IN
    \/ Awaits(c, m) /\ reply' = [reply EXCEPT ![c] = r]
    \/ UNCHANGED reply

\* The server has this MsgID in its window: it acknowledges the original.
ServeDuplicate(m) ==
    /\ m.event \in dedup
    /\ \E i \in DOMAIN log : log[i] = m.event /\ Answer(m, [kind |-> "ack", seq |-> i])
    /\ net' = net \ {m}
    /\ UNCHANGED <<server, batch, outcome, pc, client>>

ServeMiss(m) ==
    /\ m.event \notin dedup /\ tip[m.event.stream] # m.anchor
    /\ Answer(m, [kind |-> "miss", seq |-> 0])
    /\ net' = net \ {m}
    /\ UNCHANGED <<server, batch, outcome, pc, client>>

ServeFull(m) ==
    /\ m.event \notin dedup /\ tip[m.event.stream] = m.anchor
    /\ Len(log) >= MaxMsgs
    /\ Answer(m, [kind |-> "full", seq |-> 0])
    /\ net' = net \ {m}
    /\ UNCHANGED <<server, batch, outcome, pc, client>>

ServeStore(m) ==
    /\ m.event \notin dedup /\ tip[m.event.stream] = m.anchor
    /\ Len(log) < MaxMsgs
    /\ log' = Append(log, m.event)
    /\ tip' = [tip EXCEPT ![m.event.stream] = Len(log) + 1]
    /\ dedup' = dedup \cup {m.event}
    /\ Answer(m, [kind |-> "ack", seq |-> Len(log) + 1])
    /\ net' = net \ {m}
    /\ UNCHANGED <<batch, outcome, pc, client>>

\* The duplicate window of an event ends.
Expire(e) ==
    /\ e \in dedup
    /\ dedup' = dedup \ {e}
    /\ UNCHANGED <<log, tip, net, batch, outcome, pc, client, reply>>

Lose(m) ==
    /\ net' = net \ {m}
    /\ UNCHANGED <<server, batch, outcome, pc, client, reply>>

\* Server and callers share one process: a crash ends all calls and publishes.
Crash ==
    /\ \E c \in Calls : outcome[c] = "open"
    /\ net' = {}
    /\ outcome' = [c \in Calls |-> IF outcome[c] = "open" THEN "interrupted" ELSE outcome[c]]
    /\ pc' = [c \in Calls |-> IF pc[c] = "idle" THEN "idle" ELSE "done"]
    /\ reply' = [c \in Calls |-> NoReply]
    /\ UNCHANGED <<server, batch, client>>

-----------------------------------------------------------------------------
CallStep(c) ==
    \/ Begin(c)
    \/ CheckConflict(c) \/ CheckRejected(c) \/ CheckPublish(c)
    \/ AckedNext(c) \/ AckedLast(c) \/ CasMissed(c) \/ StreamFull(c) \/ TimedOut(c)
    \/ ReloadInterrupted(c) \/ ReloadComplete(c) \/ ReloadConflict(c)
    \/ ReloadRetry(c) \/ ReloadExhausted(c)

ServerStep ==
    \/ \E m \in net : ServeDuplicate(m) \/ ServeMiss(m) \/ ServeFull(m) \/ ServeStore(m) \/ Lose(m)
    \/ \E e \in dedup : Expire(e)

Next == (\E c \in Calls : CallStep(c)) \/ ServerStep \/ Crash

Spec == Init /\ [][Next]_vars

\* Go runs every started call: a publish returns or its context expires.
Returning(c) == CallStep(c) /\ pc[c] # "idle"
FairSpec == Spec /\ \A c \in Calls : WF_vars(Returning(c))
-----------------------------------------------------------------------------
(* Properties.                                                             *)

EventRec == [call : Calls, pos : 1..MaxBatch, stream : Streams, type : Types, version : Nat \ {0}]
Message  == [event : EventRec, anchor : Nat, attempt : 1..MaxAttempts]
Reply    == [kind : {"none", "ack", "miss", "full"}, seq : Nat]

TypeOK ==
    /\ log \in Seq(EventRec)
    /\ tip \in [Streams -> Nat]
    /\ dedup \subseteq EventRec
    /\ net \subseteq Message
    /\ batch \in [Calls -> EL!Batches \cup {EL!NoBatch}]
    /\ outcome \in [Calls -> EL!Answers \cup {"none", "open"}]
    /\ pc \in [Calls -> PCs]
    /\ from \in [Calls -> 1..MaxBatch]
    /\ at \in [Calls -> 1..MaxBatch]
    /\ anchor \in [Calls -> Nat]
    /\ attempt \in [Calls -> 1..MaxAttempts]
    /\ lastErr \in [Calls -> Errors]
    /\ reply \in [Calls -> Reply]

\* Every aggregate's history reads 1, 2, 3, ... in log order and holds one
\* aggregate type, whatever copies of a publish arrive late or twice
\* (the compare-and-set of Append, jetstream_store.go:136-157).
VersionsConsecutive ==
    \A i \in DOMAIN log :
        /\ \A j \in 1..(i - 1) : log[j].stream = log[i].stream =>
              log[j].version < log[i].version /\ log[j].type = log[i].type
        /\ log[i].version > 1 => \E j \in 1..(i - 1) :
              log[j].stream = log[i].stream /\ log[j].version = log[i].version - 1

\* nil from AppendWithRetry means that every event of the batch is in the
\* stream, a lost acknowledgement or a resumed tail included
\* (append_retry.go:22-23).
SuccessIsComplete ==
    \A c \in Calls : outcome[c] = "ok" =>
        \A i \in 1..batch[c].n : Persisted(Event(c, i))

\* A caller told "conflict" rebuilds from a fresh Load; no event of the
\* rejected batch may surface behind that Load (append_retry.go:23-24).
ConflictIsFinal ==
    [][\A c \in Calls : outcome[c] = "conflict" =>
          \A i \in 1..batch[c].n :
             (\E j \in DOMAIN log' : log'[j] = Event(c, i)) => Persisted(Event(c, i))]_vars

\* AppendWithRetry implements the store's promise.
ImplementsEventLog == EL!ELSpec

\* Bounded attempts: every call returns (append_retry.go:25).
CallsReturn == \A c \in Calls : (pc[c] = "check") ~> (pc[c] = "done")

=============================================================================
