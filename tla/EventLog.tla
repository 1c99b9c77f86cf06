------------------------------ MODULE EventLog ------------------------------
(***************************************************************************)
(* What the event store promises its callers (internal/eventsourcing,      *)
(* interface Store and AppendWithRetry): one log in which every aggregate  *)
(* stream holds the versions 1, 2, 3, ... of one aggregate type, written   *)
(* by concurrent append calls.  A call appends a batch of events that      *)
(* continue the version its caller loaded.  It may land any part of its    *)
(* batch at any time until it has been answered with success or with a     *)
(* conflict; those two answers are final.                                  *)
(***************************************************************************)
EXTENDS Naturals, Sequences

CONSTANTS Calls,    \* the append calls (one goroutine each)
          Streams,  \* aggregate stream IDs
          Types,    \* aggregate types
          MaxBatch  \* bound: events in one call

VARIABLES log,      \* DOMAIN_EVENTS, or the events table: a sequence of events
          batch,    \* batch[c]: what call c was asked to append
          outcome   \* outcome[c]: what call c has told its caller

elVars == <<log, batch, outcome>>

Answers == {"ok", "conflict", "indeterminate", "rejected", "interrupted"}
Final   == {"ok", "conflict"}

NoBatch == [n |-> 0]
Batches == [stream : Streams, type : Types, base : Nat, n : 1..MaxBatch]

\* The i-th event of call c: its ID is the pair (call, pos).
EventOf(b, c, i) == [call |-> c, pos |-> i, stream |-> b.stream,
                     type |-> b.type, version |-> b.base + i]
Event(c, i) == EventOf(batch[c], c, i)

Persisted(e) == \E i \in DOMAIN log : log[i] = e

\* Event e is the next version of its stream and of the stream's type.
Fits(e) ==
    /\ \A i \in DOMAIN log : log[i].stream = e.stream =>
            log[i].version < e.version /\ log[i].type = e.type
    /\ e.version > 1 => \E i \in DOMAIN log :
            log[i].stream = e.stream /\ log[i].version = e.version - 1

ELInit ==
    /\ log = << >>
    /\ batch = [c \in Calls |-> NoBatch]
    /\ outcome = [c \in Calls |-> "none"]

\* A caller that has seen its stream at version base asks for n more events.
ELStart(c) ==
    /\ outcome[c] = "none"
    /\ \E s \in Streams, t \in Types, base \in 0..Len(log), n \in 1..MaxBatch :
          batch' = [batch EXCEPT ![c] = [stream |-> s, type |-> t, base |-> base, n |-> n]]
    /\ outcome' = [outcome EXCEPT ![c] = "open"]
    /\ UNCHANGED log

ELLand(c) ==
    /\ outcome[c] \notin Final
    /\ \E i \in 1..batch[c].n :
          /\ Fits(Event(c, i))
          /\ log' = Append(log, Event(c, i))
    /\ UNCHANGED <<batch, outcome>>

ELAnswer(c) ==
    /\ outcome[c] = "open"
    /\ \E a \in Answers :
          /\ a = "ok" => \A i \in 1..batch[c].n : Persisted(Event(c, i))
          /\ outcome' = [outcome EXCEPT ![c] = a]
    /\ UNCHANGED <<log, batch>>

\* A crash of the process interrupts every open call at once.
ELCrash ==
    /\ outcome' = [c \in Calls |-> IF outcome[c] = "open" THEN "interrupted" ELSE outcome[c]]
    /\ UNCHANGED <<log, batch>>

ELNext == \/ \E c \in Calls : ELStart(c) \/ ELLand(c) \/ ELAnswer(c)
          \/ ELCrash

ELSpec == ELInit /\ [][ELNext]_elVars
=============================================================================
