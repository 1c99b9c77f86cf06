--------------------------- MODULE ArtistSnapshots ---------------------------
(***************************************************************************)
(* The artist repository over both event stores: loads that start from a   *)
(* stored freeze-frame and apply the tail, saves that store the next one,  *)
(* the key-value record of the JetStream store with its anchor in the log, *)
(* and a log that may be rebuilt with other sequence numbers.              *)
(***************************************************************************)
EXTENDS ArtistFacts

CONSTANTS Callers,   \* goroutines that load and save artists
          Interval,  \* SnapshotInterval
          MaxEvents, \* bound: events in the log
          MaxFaults, \* bound: failing calls of the store
          MaxRebuilds \* bound: rebuilt logs

ASSUME SnapshotAssumption == Interval \in Nat \ {0} /\ MaxEvents \in Nat
ASSUME SnapshotNames == "none" \notin Artists
ASSUME SnapshotBounds == MaxFaults \in Nat /\ MaxRebuilds \in Nat

VARIABLES mode,    \* the event store in use
          domain,  \* events of all artists; an event's sequence number is its place
          snap,    \* the snapshots table or the KVSnapshots bucket
          caller,  \* what each goroutine is doing
          faults, rebuilds,
          serial   \* no two callers were ever at work together

vars == <<mode, domain, snap, caller, faults, rebuilds, serial>>

NoSnap == [version |-> 0, seq |-> 0, state |-> Unborn, schema |-> "none"]
Nothing == [artist |-> "none", version |-> 0, state |-> Unborn]
Resting == [pc |-> "idle", artist |-> "none", missing |-> FALSE,
            version |-> 0, state |-> Unborn, seq |-> 0, heals |-> FALSE,
            held |-> Nothing]

EventsOf(a) == {i \in DOMAIN domain : domain[i].artist = a}
Version(a)  == Cardinality(EventsOf(a))

\* Places of the log in their order, and the facts that are found there.
InOrder(places) == [k \in 1..Cardinality(places) |->
                       CHOOSE i \in places : Cardinality({j \in places : j <= i}) = k]
FactsAt(places) == [k \in 1..Cardinality(places) |-> domain[InOrder(places)[k]].fact]
FactsOf(a)      == FactsAt(EventsOf(a))

\* An artist may have grown past the interval before there were snapshots, or
\* have one that an older build wrote.
Grown(a) == [v \in 1..Interval |-> [artist |-> a, version |-> v,
             fact |-> IF v = 1 THEN Fact("created", Manual) ELSE Fact("pending", Manual)]]
Init ==
    /\ mode \in {"sqlite", "jetstream"}
    /\ \E a \in Artists : domain \in {<< >>, Grown(a)}
    /\ snap = [a \in Artists |-> NoSnap]
       \/ snap = [a \in Artists |-> IF Version(a) = 0 THEN NoSnap
                    ELSE [version |-> Version(a), seq |-> Len(domain), state |-> Unborn, schema |-> "old"]]
    /\ caller = [c \in Callers |-> Resting]
    /\ faults = 0 /\ rebuilds = 0 /\ serial = TRUE

Fault == faults < MaxFaults /\ faults' = faults + 1
Become(c, new) == caller' = [caller EXCEPT ![c] = new] /\ UNCHANGED <<mode, rebuilds, serial>>
At(c, pc) == caller[c].pc = pc
-----------------------------------------------------------------------------
(* Loading.                                                                *)

\* A request, a scrape result or a batch asks for an artist.
Begin(c) ==
    \E a \in Artists :
        /\ At(c, "idle")
        /\ caller' = [caller EXCEPT ![c] = [@ EXCEPT !.pc = "snap", !.artist = a]]
        /\ serial' = (serial /\ \A d \in Callers : At(d, "idle"))
        /\ UNCHANGED <<mode, domain, snap, faults, rebuilds>>

\* The replay in full that every failure falls back to; "missing" when it was
\* for want of a snapshot.
InFull(me, missing) == [me EXCEPT !.pc = "full", !.missing = missing]

\* restoreFromSnapshot: the payload of another schema counts as none.
Restored(me, frame) ==
    IF frame.schema # "current" THEN InFull(me, TRUE)
    ELSE [me EXCEPT !.pc = "tail", !.version = frame.version, !.state = frame.state]

\* SQLiteStore.LoadSnapshot, or the KVGet of JetStreamStore.LoadSnapshot.
LoadSnapshot(c) ==
    LET me == caller[c]  frame == snap[me.artist]
    IN  /\ At(c, "snap") /\ UNCHANGED <<domain, snap>>
        /\ \/ /\ UNCHANGED faults
              /\ Become(c, IF frame = NoSnap THEN InFull(me, TRUE)
                           ELSE IF mode = "sqlite" THEN Restored(me, frame)
                           ELSE [me EXCEPT !.pc = "verify", !.version = frame.version,
                                           !.state = frame.state, !.seq = frame.seq,
                                           !.missing = frame.schema # "current"])
           \/ Fault /\ Become(c, InFull(me, FALSE))

\* The anchor must name the same event of the same artist.
Anchored(a, version, seq) ==
    seq \in DOMAIN domain /\ domain[seq].artist = a /\ domain[seq].version = version

\* The GetMsg of JetStreamStore.LoadSnapshot, and the restoring of what it returns.
VerifyAnchor(c) ==
    LET me == caller[c]
    IN  /\ At(c, "verify") /\ UNCHANGED <<domain, snap>>
        /\ \/ /\ UNCHANGED faults
              /\ Become(c, IF me.missing \/ ~Anchored(me.artist, me.version, me.seq)
                           THEN InFull(me, TRUE) ELSE [me EXCEPT !.pc = "tail"])
           \/ Fault /\ Become(c, InFull(me, FALSE))

\* Mutant: the consumer starts behind whatever record is stored by now.
AfterStored(a, version) ==
    LET mine   == EventsOf(a)
        tip    == Max(mine)
        start  == snap[a].seq
        behind == {i \in mine : domain[i].version > version /\ i > start}
    IN  IF mode = "sqlite" THEN {i \in mine : domain[i].version > version}
        ELSE CASE domain[tip].version = version     -> {}
               [] domain[tip].version = version + 1 -> {tip}
               [] OTHER                             -> behind

\* JetStreamStore.LoadAfter and loadSince: the tip decides the short cases; the
\* consumer starts behind the anchor if the record is still the one restored.
\* SQLite selects the later versions.
After(a, version) ==
    LET mine   == EventsOf(a)
        tip    == Max(mine)
        start  == IF snap[a].version = version THEN snap[a].seq ELSE 0
        behind == {i \in mine : domain[i].version > version /\ i > start}
    IN  IF mode = "sqlite" THEN {i \in mine : domain[i].version > version}
        ELSE CASE domain[tip].version = version     -> {}
               [] domain[tip].version = version + 1 -> {tip}
               [] OTHER                             -> behind
\* A tip behind the anchor and a tail with a gap are errors.
Sound(a, version) ==
    mode = "sqlite"
    \/ /\ Version(a) >= version /\ Version(a) > 0
       /\ After(a, version) # {} => domain[Min(After(a, version))].version = version + 1

\* The state is in the caller's hands.
Holding(me, version, state) ==
    [me EXCEPT !.pc = "ready", !.version = version, !.state = state, !.missing = FALSE,
               !.held = [artist |-> me.artist, version |-> version, state |-> state]]

LoadTail(c) ==
    LET me   == caller[c]
        tail == After(me.artist, me.version)
        end  == IF tail = {} THEN me.version ELSE domain[Max(tail)].version
    IN  /\ At(c, "tail") /\ UNCHANGED <<domain, snap>>
        /\ \/ /\ Sound(me.artist, me.version) /\ UNCHANGED faults
              /\ Become(c, Holding(me, end, FoldLeft(Applied, me.state, FactsAt(tail))))
           \/ ~Sound(me.artist, me.version) /\ UNCHANGED faults /\ Become(c, InFull(me, FALSE))
           \/ Fault /\ Become(c, InFull(me, FALSE))

\* A stream past the interval that has no snapshot gets one.
Heals(me) == me.missing /\ Version(me.artist) >= Interval

LoadAll(c) ==
    LET me    == caller[c]
        whole == Holding(me, Version(me.artist), Folded(FactsOf(me.artist)))
    IN  /\ At(c, "full") /\ UNCHANGED <<domain, snap>>
        /\ \/ /\ UNCHANGED faults
              /\ Become(c, IF Heals(me) THEN [whole EXCEPT !.pc = "freeze", !.heals = TRUE] ELSE whole)
           \/ Fault /\ Become(c, Resting)
-----------------------------------------------------------------------------
(* Saving.                                                                 *)

\* Mutant: only a save of one event looks for the boundary.
CrossesAlone(version, committed) == committed = 1 /\ version % Interval = 0

\* maybeSnapshot: a save crossed an interval's boundary, wherever it ended.
Crosses(version, committed) == version \div Interval # (version - committed) \div Interval

\* Only a creation finds no artist, and updateArtistListeners does not record a
\* request twice.
Makes(me, fact) ==
    /\ (fact.type = "created") = (me.version = 0)
    /\ ~(fact.type = "scraped" /\ HasRecorded(me.state, fact.req))

\* The caller only read, or has nothing to record, or the store fails.
Leave(c) == /\ At(c, "ready") /\ UNCHANGED <<domain, snap, faults>>
            /\ Become(c, Resting)

\* A scrape's result for an artist of before the log also creates it.
Seeding == {<<Fact("created", Manual), Fact("scraped", q)>> : q \in Requests}

\* Repository.Save, which a concurrent save turns into a conflict.
Save(c) ==
    LET me == caller[c]
    IN  /\ At(c, "ready") /\ Version(me.artist) = me.version /\ UNCHANGED <<snap, faults>>
        /\ \E facts \in {<<f>> : f \in Facts} \cup Seeding :
              /\ Makes(me, facts[1]) /\ Len(domain) + Len(facts) <= MaxEvents
              /\ domain' = domain \o [i \in DOMAIN facts |->
                               [artist |-> me.artist, version |-> me.version + i, fact |-> facts[i]]]
              /\ Become(c, IF ~Crosses(me.version + Len(facts), Len(facts)) THEN Resting
                           ELSE [me EXCEPT !.pc = "freeze", !.version = @ + Len(facts), !.held = Nothing,
                                           !.state = FoldLeft(Applied, @, facts)])

\* What follows a freeze-frame, stored or not: the load goes on, the save is over.
Thawed(me) == IF me.heals THEN [me EXCEPT !.pc = "ready", !.heals = FALSE] ELSE Resting

\* Mutant: the frame leaves the window of requests out.
FrameWithoutWindow(me, seq) ==
    [version |-> me.version, seq |-> seq, state |-> [me.state EXCEPT !.ids = << >>], schema |-> "current"]

\* marshalSnapshot, every field of the state.
Frame(me, seq) == [version |-> me.version, seq |-> seq, state |-> me.state, schema |-> "current"]

\* JetStreamStore.SaveSnapshot up to the put: only the tip can be the anchor.
AnchorOf(me) ==
    LET tip == Max(EventsOf(me.artist))
    IN  IF domain[tip].version = me.version THEN [me EXCEPT !.pc = "put", !.seq = tip] ELSE Thawed(me)

\* SQLiteStore.SaveSnapshot is one upsert.
SaveSnapshot(c) ==
    LET me == caller[c]
    IN  /\ At(c, "freeze") /\ UNCHANGED domain
        /\ \/ /\ mode = "sqlite" /\ UNCHANGED faults
              /\ snap' = [snap EXCEPT ![me.artist] = Frame(me, 0)] /\ Become(c, Thawed(me))
           \/ mode = "jetstream" /\ UNCHANGED <<snap, faults>> /\ Become(c, AnchorOf(me))
           \/ Fault /\ UNCHANGED snap /\ Become(c, Thawed(me))

PutSnapshot(c) ==
    LET me == caller[c]
    IN  /\ At(c, "put") /\ UNCHANGED domain
        /\ \/ /\ snap' = [snap EXCEPT ![me.artist] = Frame(me, me.seq)] /\ UNCHANGED faults
              /\ Become(c, Thawed(me))
           \/ Fault /\ UNCHANGED snap /\ Become(c, Thawed(me))

\* A stopped application's DOMAIN_EVENTS is built again: every stream keeps its
\* order, the sequence numbers are others.
Rebuild ==
    /\ mode = "jetstream" /\ rebuilds < MaxRebuilds /\ rebuilds' = rebuilds + 1
    /\ \A c \in Callers : At(c, "idle")
    /\ \E order \in [DOMAIN domain -> DOMAIN domain] :
          /\ IsInjective(order)
          /\ \A i, j \in DOMAIN domain :
                i < j /\ domain[order[i]].artist = domain[order[j]].artist => order[i] < order[j]
          /\ domain' = [i \in DOMAIN domain |-> domain[order[i]]]
    /\ UNCHANGED <<mode, snap, caller, faults, serial>>

Step(c) == \/ Begin(c) \/ LoadSnapshot(c) \/ VerifyAnchor(c) \/ LoadTail(c) \/ LoadAll(c)
           \/ Leave(c) \/ Save(c) \/ SaveSnapshot(c) \/ PutSnapshot(c)
Next == (\E c \in Callers : Step(c)) \/ Rebuild
Spec == Init /\ [][Next]_vars
-----------------------------------------------------------------------------
Pcs == {"idle", "snap", "verify", "tail", "full", "ready", "freeze", "put"}

\* Types, and versions that count each artist's events.
TypeOK ==
    /\ \A i \in DOMAIN domain : domain[i].fact \in Facts
    /\ \A i, j \in DOMAIN domain : i < j /\ domain[i].artist = domain[j].artist
           => domain[j].version > domain[i].version
    /\ \A a \in Artists : Len(Folded(FactsOf(a)).ids) <= Window
    /\ \A c \in Callers : caller[c].pc \in Pcs
    /\ \A a \in Artists : snap[a].version \in 0..Version(a)

\* A snapshot that LoadSnapshot would hand out holds what a replay of its first
\* versions gives, whoever stored it and however the log was rebuilt.
Usable(a) == /\ snap[a].schema = "current"
             /\ mode = "jetstream" => Anchored(a, snap[a].version, snap[a].seq)
FramesAreFolds ==
    \A a \in Artists : Usable(a) =>
        snap[a].state = Folded(SubSeq(FactsOf(a), 1, snap[a].version))

\* A request's listeners are recorded once, until as many other requests as the
\* window holds have been recorded after it.
NoDoubleScrape ==
    \A a \in Artists : LET facts == FactsOf(a) IN \A i, j \in DOMAIN facts :
        i < j /\ facts[i].type = "scraped" /\ facts[i].req # Manual /\ facts[j] = facts[i] =>
            Cardinality({facts[k].req : k \in {n \in i+1..j-1 : facts[n].type = "scraped"}}
                        \ {Manual}) >= Window

\* "loaders replay at most N-1 events after it" (repository.go): undisturbed
\* callers leave every artist they touch less than an interval behind.
TailsStayShort ==
    [][\A c \in Callers, a \in Artists :
          caller[c].artist = a /\ caller'[c].pc = "idle" /\ serial' /\ faults' = 0 =>
              (Version(a) - (IF Usable(a) THEN snap[a].version ELSE 0) < Interval)']_vars

\* The repository is the abstract store: a load returns the fold of all facts.
AG == INSTANCE AggregateStore
      WITH history <- [a \in Artists |-> FactsOf(a)], held <- [c \in Callers |-> caller[c].held]
ImplementsStore == AG!AGSpec

\* A usable snapshot stands for the log it was taken of, and the window it keeps
\* still refuses a request that was recorded (Snapshot, RestoreSnapshot,
\* rememberRequest).
SnapshotsAreSound == TypeOK /\ FramesAreFolds /\ NoDoubleScrape
=============================================================================
