----------------------------- MODULE OutboxRelay -----------------------------
(***************************************************************************)
(* The outbox relay and the flip of the event store's authority            *)
(* (internal/outbox/relay.go, internal/eventsourcing/store.go and          *)
(* store_select.go, the boot order of internal/app/app.go).                *)
(* In sqlite mode an append commits events and outbox rows together and    *)
(* the relay copies the rows to DOMAIN_EVENTS under MsgID = event ID.  A   *)
(* boot in jetstream mode passes a parity gate once, and from then on the  *)
(* copy is the log.                                                        *)
(***************************************************************************)
EXTENDS Naturals, Sequences, FiniteSets, SequencesExt

CONSTANTS Streams,      \* aggregate streams
          MaxEvents,    \* bound: rows of the SQLite events table
          MaxNative,    \* bound: events appended in jetstream mode
          MaxBatch,     \* bound: events in one append transaction
          BatchSize,    \* rows loaded by one relay pass
          MaxCrashes,   \* bound: process ends
          MaxExpiries,  \* bound: duplicate windows that run out
          Unencodable,  \* a row's Event.Bytes may fail for ever
          StoreLoss     \* the nats/ directory may be lost while the process is down

ASSUME BatchSizeAssumption == BatchSize \in Nat \ {0}
ASSUME BoundsAssumption ==
    /\ MaxEvents \in Nat /\ MaxNative \in Nat /\ MaxBatch \in Nat
    /\ MaxCrashes \in Nat /\ MaxExpiries \in Nat
    /\ Unencodable \in BOOLEAN /\ StoreLoss \in BOOLEAN

VARIABLES events,      \* the SQLite events table; a row's index is its rowid
          unpublished, \* rowids whose outbox row has no published_at
          domain,      \* the messages of DOMAIN_EVENTS
          dedup,       \* event IDs inside its duplicate window
          checkpoint,  \* projection_checkpoints: domain_events_relay
          marker,      \* projection_checkpoints: jetstream_authority
          mode,        \* "down", or the event store the process booted with
          stopping,    \* the background context is cancelled
          pc,          \* the relay: "idle", "publish", "mark" or "save"
          todo,        \* rows of the pass not yet attempted, taken in rowid order
          published,   \* rows of the pass to be marked
          frontier, contiguous,
          crashes, expiries, lost

sqlite == <<events, unpublished, checkpoint, marker>>
nats   == <<domain, dedup, expiries, lost>>
relay  == <<pc, todo, published, frontier, contiguous>>
process == <<mode, stopping, crashes>>
vars    == <<sqlite, nats, relay, process>>

Rows == DOMAIN events

\* An event as DOMAIN_EVENTS carries it.  A row's event ID is its rowid.
Message(i) == [id |-> i, stream |-> events[i].stream, version |-> events[i].version]
Mirrored(i) == \E k \in DOMAIN domain : domain[k] = Message(i)

\* MAX(version) of a stream in the events table.
RowsOf(s) == {i \in Rows : events[i].stream = s}
TableVersion(s) == Max({0} \cup {events[i].version : i \in RowsOf(s)})

\* GetLastMsgForSubject: the latest message of the stream's scope.
ScopeOf(s)  == {k \in DOMAIN domain : domain[k].stream = s}
ScopeTip(s) == CHOOSE k \in ScopeOf(s) : \A l \in ScopeOf(s) : l <= k

IdleRelay ==
    /\ pc' = "idle" /\ todo' = {} /\ published' = {}
    /\ frontier' = 0 /\ contiguous' = TRUE

Init ==
    /\ events = << >> /\ unpublished = {}
    /\ domain = << >> /\ dedup = {}
    /\ checkpoint = 0 /\ marker = FALSE
    /\ mode = "down" /\ stopping = FALSE
    /\ pc = "idle" /\ todo = {} /\ published = {} /\ frontier = 0 /\ contiguous = TRUE
    /\ crashes = 0 /\ expiries = 0 /\ lost = FALSE

-----------------------------------------------------------------------------
(* Appends.                                                                *)

\* SQLiteStore.AppendBatch: events and outbox rows in one transaction.  A
\* stale expected version rolls it back, which changes nothing.
AppendSQLite ==
    /\ mode = "sqlite"
    /\ \E n \in 1..MaxBatch : \E batch \in [1..n -> Streams \X BOOLEAN] :
         /\ Len(events) + n <= MaxEvents
         /\ Unencodable \/ \A i \in 1..n : batch[i][2]
         /\ events' = events \o [i \in 1..n |->
               [stream |-> batch[i][1], encodes |-> batch[i][2],
                version |-> TableVersion(batch[i][1])
                            + Cardinality({j \in 1..i : batch[j][1] = batch[i][1]})]]
         /\ unpublished' = unpublished \cup ((Len(events) + 1)..(Len(events) + n))
    /\ UNCHANGED <<checkpoint, marker, nats, relay, process>>

\* JetStreamStore.Append in jetstream mode, one event at the scope's tip.
AppendNative ==
    /\ mode = "jetstream"
    /\ Cardinality({k \in DOMAIN domain : domain[k].id > MaxEvents}) < MaxNative
    /\ \E s \in Streams :
         LET version == IF ScopeOf(s) = {} THEN 1 ELSE domain[ScopeTip(s)].version + 1
             id      == MaxEvents + Len(domain) + 1
         IN  /\ domain' = Append(domain, [id |-> id, stream |-> s, version |-> version])
             /\ dedup' = dedup \cup {id}
    /\ UNCHANGED <<sqlite, expiries, lost, relay, process>>

-----------------------------------------------------------------------------
(* RelayOnce.  The relay runs in both modes.                               *)

\* UnpublishedEvents: the oldest unpublished rows, at most BatchSize.
Load ==
    /\ mode # "down" /\ ~stopping /\ pc = "idle" /\ unpublished # {}
    /\ todo' = {i \in unpublished : Cardinality({j \in unpublished : j < i}) < BatchSize}
    /\ pc' = "publish" /\ published' = {} /\ frontier' = 0 /\ contiguous' = TRUE
    /\ UNCHANGED <<sqlite, nats, process>>

\* The row at hand: rows come ORDER BY rowid.
Row == CHOOSE i \in todo : \A j \in todo : i <= j

\* The loop moves on; after the last row the pass marks what it collected.
NextRow ==
    /\ todo' = todo \ {Row}
    /\ pc' = IF todo = {Row} THEN "mark" ELSE "publish"

\* A row that cannot be encoded is marked like a published one.
DropRow ==
    /\ pc = "publish" /\ ~events[Row].encodes
    /\ published' = published \cup {Row}
    /\ contiguous' = FALSE
    /\ NextRow
    /\ UNCHANGED <<sqlite, nats, process, frontier>>

\* DOMAIN_EVENTS stores a publish unless its MsgID is in the window.
Store(i) ==
    IF i \in dedup THEN UNCHANGED <<domain, dedup>>
    ELSE domain' = Append(domain, Message(i)) /\ dedup' = dedup \cup {i}

\* Mutant: the frontier moves past a row that was not published.
PublishRowAnyFrontier ==
    /\ pc = "publish" /\ events[Row].encodes
    /\ Store(Row)
    /\ published' = published \cup {Row}
    /\ frontier' = Row
    /\ NextRow
    /\ UNCHANGED <<sqlite, expiries, lost, process, contiguous>>

PublishRow ==
    /\ pc = "publish" /\ events[Row].encodes
    /\ Store(Row)
    /\ published' = published \cup {Row}
    /\ frontier' = IF contiguous THEN Row ELSE frontier
    /\ NextRow
    /\ UNCHANGED <<sqlite, expiries, lost, process, contiguous>>

\* An error says nothing about whether the message was stored.
PublishFails ==
    /\ pc = "publish" /\ events[Row].encodes
    /\ Store(Row) \/ UNCHANGED <<domain, dedup>>
    /\ contiguous' = FALSE
    /\ NextRow
    /\ UNCHANGED <<sqlite, expiries, lost, process, published, frontier>>

\* The context has ended: the rest of the pass is skipped.
Break ==
    /\ pc = "publish" /\ stopping
    /\ pc' = "mark" /\ todo' = {}
    /\ UNCHANGED <<sqlite, nats, process, published, frontier, contiguous>>

\* The pass ends here unless its frontier has moved.
EndOfMark ==
    IF frontier > 0
    THEN pc' = "save" /\ UNCHANGED <<todo, published, frontier, contiguous>>
    ELSE IdleRelay

\* Mutant: a pass that met a failure marks nothing.
MarkIfContiguous ==
    /\ pc = "mark"
    /\ unpublished' = IF contiguous THEN unpublished \ published ELSE unpublished
    /\ EndOfMark
    /\ UNCHANGED <<events, checkpoint, marker, nats, process>>

\* MarkPublished, one transaction; skipped when the pass published nothing.
Mark ==
    /\ pc = "mark"
    /\ unpublished' = unpublished \ published
    /\ EndOfMark
    /\ UNCHANGED <<events, checkpoint, marker, nats, process>>

\* MarkPublished fails: the pass returns before its checkpoint.
MarkFails ==
    /\ pc = "mark"
    /\ IdleRelay
    /\ UNCHANGED <<sqlite, nats, process>>

SaveCheckpoint ==
    /\ pc = "save"
    /\ checkpoint' = frontier
    /\ IdleRelay
    /\ UNCHANGED <<events, unpublished, marker, nats, process>>

SaveCheckpointFails ==
    /\ pc = "save"
    /\ IdleRelay
    /\ UNCHANGED <<sqlite, nats, process>>

RelayStep ==
    \/ Load \/ DropRow \/ PublishRow \/ PublishFails \/ Break
    \/ Mark \/ MarkFails \/ SaveCheckpoint \/ SaveCheckpointFails

-----------------------------------------------------------------------------
(* Boot, the parity gate and what happens around the process.              *)

\* The flip is one-way.
BootSQLite ==
    /\ mode = "down" /\ ~marker
    /\ mode' = "sqlite"
    /\ UNCHANGED <<sqlite, nats, relay, stopping, crashes>>

\* Every stream's last row is the last message of its scope.
TipsMatch ==
    \A s \in Streams : TableVersion(s) > 0 =>
        /\ ScopeOf(s) # {}
        /\ \E i \in Rows :
             /\ events[i].stream = s /\ events[i].version = TableVersion(s)
             /\ domain[ScopeTip(s)] = Message(i)

\* CheckJetStreamParity before the flip.
Parity ==
    /\ unpublished = {}
    /\ Len(domain) = Len(events)
    /\ TipsMatch

\* CheckJetStreamParity passes: the flip is recorded, then the process serves.
BootJetStreamFirst ==
    /\ mode = "down" /\ ~marker /\ Parity
    /\ marker' = TRUE
    /\ mode' = "jetstream"
    /\ UNCHANGED <<events, unpublished, checkpoint, nats, relay, stopping, crashes>>

\* Mutant: a recorded flip skips every check.
BootJetStreamUnchecked ==
    /\ mode = "down" /\ marker
    /\ mode' = "jetstream"
    /\ UNCHANGED <<sqlite, nats, relay, stopping, crashes>>

\* After the flip only the message count is compared.
BootJetStreamAgain ==
    /\ mode = "down" /\ marker /\ Len(domain) >= Len(events)
    /\ mode' = "jetstream"
    /\ UNCHANGED <<sqlite, nats, relay, stopping, crashes>>

\* Termination cancels the background context ...
Shutdown ==
    /\ mode # "down" /\ ~stopping /\ crashes < MaxCrashes
    /\ stopping' = TRUE
    /\ crashes' = crashes + 1
    /\ UNCHANGED <<sqlite, nats, relay, mode>>

\* ... and the process ends, at the latest after a bounded wait: the pass may
\* be cut off anywhere.
Exit ==
    /\ stopping
    /\ mode' = "down" /\ stopping' = FALSE
    /\ IdleRelay
    /\ UNCHANGED <<sqlite, nats, crashes>>

Crash ==
    /\ mode # "down" /\ ~stopping /\ crashes < MaxCrashes
    /\ mode' = "down"
    /\ crashes' = crashes + 1
    /\ IdleRelay
    /\ UNCHANGED <<sqlite, nats, stopping>>

\* A duplicate window of ten minutes ends.  A pass is shorter than that
\* (BatchSize * PublishTimeout), so never for a row it has published.
Expire ==
    /\ expiries < MaxExpiries
    /\ \E i \in dedup \ published : dedup' = dedup \ {i}
    /\ expiries' = expiries + 1
    /\ UNCHANGED <<sqlite, domain, lost, relay, process>>

\* The stream is recreated empty at the next boot.
LoseStore ==
    /\ StoreLoss /\ mode = "down" /\ ~lost
    /\ domain' = << >> /\ dedup' = {} /\ lost' = TRUE
    /\ UNCHANGED <<sqlite, expiries, relay, process>>

Boot == BootSQLite \/ BootJetStreamFirst \/ BootJetStreamAgain

Next ==
    \/ AppendSQLite \/ AppendNative \/ RelayStep
    \/ Boot \/ Shutdown \/ Exit \/ Crash \/ Expire \/ LoseStore

Spec == Init /\ [][Next]_vars

\* The relay's loop never stops while the process runs, an operator boots a
\* dead process, and a row's publish and mark, retried for ever, succeed in
\* the end.
FairSpec ==
    /\ Spec
    /\ WF_vars(RelayStep) /\ WF_vars(Boot) /\ WF_vars(Exit)
    /\ \A i \in 1..MaxEvents :
         SF_vars(PublishRow /\ Row = i) /\ SF_vars(Mark /\ i \in published)
-----------------------------------------------------------------------------
(* Properties.                                                             *)

EventRow == [stream : Streams, encodes : BOOLEAN, version : 1..MaxEvents]

TypeOK ==
    /\ events \in Seq(EventRow) /\ Len(events) <= MaxEvents
    /\ unpublished \subseteq Rows /\ published \subseteq Rows
    /\ domain \in Seq([id : Nat, stream : Streams, version : Nat])
    /\ dedup \subseteq Nat
    /\ checkpoint \in {0} \cup Rows /\ frontier \in {0} \cup Rows
    /\ marker \in BOOLEAN /\ contiguous \in BOOLEAN /\ lost \in BOOLEAN
    /\ stopping \in BOOLEAN
    /\ mode \in {"down", "sqlite", "jetstream"}
    /\ pc \in {"idle", "publish", "mark", "save"}
    /\ todo \subseteq Rows /\ (pc = "publish") = (todo # {})
    /\ crashes \in 0..MaxCrashes /\ expiries \in 0..MaxExpiries

\* A row that is no longer in the outbox is in DOMAIN_EVENTS, whatever pass
\* failed or died half-way: publish-then-mark (relay.go:55-56, store.go
\* MarkPublished).  A row that cannot be encoded, and a lost store, excepted.
MarkedIsMirrored ==
    ~lost => \A i \in Rows : (i \notin unpublished /\ events[i].encodes) => Mirrored(i)

\* The checkpoint is a frontier: no row at or below it waits for a publish,
\* although rows are published out of order around failures (relay.go:99-104).
CheckpointIsFrontier == \A i \in unpublished : i > checkpoint

\* One history: no aggregate version is written twice under different event
\* IDs, by whichever mode, restart or loss of the nats/ directory
\* (app.go:82-94, store_select.go:110-131).
NoFork ==
    LET history == Range(domain) \cup {Message(i) : i \in Rows}
    IN  \A m, n \in history :
            (m.stream = n.stream /\ m.version = n.version) => m.id = n.id

\* A process that serves from DOMAIN_EVENTS has every row of the events table
\* there, as long as every row can be encoded: "a subset of the SQLite IDs with
\* equal size is the full set" (store_select.go:89-92, the gate's soundness
\* argument; it counts messages, so a repeated one can stand in for a row that
\* was dropped).
FlipIsComplete ==
    (mode = "jetstream" /\ ~lost /\ \A i \in Rows : events[i].encodes) => \A i \in Rows : Mirrored(i)

\* What the outbox has let go of is in DOMAIN_EVENTS, and what it has not is
\* above the checkpoint (RelayBatch's publish, mark and frontier).
MirrorIsSound == TypeOK /\ MarkedIsMirrored /\ CheckpointIsFrontier

\* The boot chooses the event store that has the whole of the one history
\* (NewEventStore's parity gate and the JetStream-authoritative marker).
FlipIsSound == NoFork /\ FlipIsComplete

\* Every row leaves the outbox, and an encodable one is mirrored by then.
EveryRowDrains == \A i \in 1..MaxEvents : (i \in unpublished) ~> (i \notin unpublished)
=============================================================================
