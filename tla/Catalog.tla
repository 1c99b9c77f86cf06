------------------------------- MODULE Catalog -------------------------------
(***************************************************************************)
(* The handlers of the catalogue, each a call of its own that writes       *)
(* PocketBase, SQLite and the event log one after the other, while other   *)
(* calls do the same and the process may die between any two writes.       *)
(***************************************************************************)
EXTENDS CatalogStores

CONSTANTS Calls,    \* requests of the browser
          Origins,  \* where an album older than the event log is found
          Ops,      \* kinds of requests
          Typed     \* album sizes typed into the song form, 0 when left empty

Statuses     == {"waiting", "processed_once", "full"}
ListStatuses == {"included", "not_added"}
ASSUME CatalogConstants ==
    Origins \subseteq {"nowhere", "pb", "pb+db", "everywhere"} /\ Typed \subseteq Nat

VARIABLES call,   \* call -> what it does, where it is, what it has read
          origin  \* where the album was at first

vars == <<stores, call, origin>>

Waiting == [op |-> "none", pc |-> "new", key |-> "album", todo |-> << >>,
            was |-> NoRow, view |-> NoRow, credit |-> NoRow, click |-> <<"coll", 0>>,
            events |-> << >>, ver |-> 0, seeding |-> FALSE, alone |-> TRUE, failed |-> FALSE]
Busy(c) == call[c].pc \notin {"new", "done"}
Quiet   == \A c \in Calls : ~Busy(c)

\* One album from before, and perhaps one song with the first place.
Init ==
    /\ origin \in Origins
    /\ \E placed \in {{}} \cup {{s} : s \in Songs} :
        LET there(k, places) == k \in placed \/ (k = "album" /\ origin \in places)
            old(k) == IF k \in Songs THEN Row("recent", 1, BatchSize) ELSE Row("waiting", 1, 1)
            at(places) == [k \in Keys |-> IF there(k, places) THEN old(k) ELSE NoRow]
        IN  /\ pb = at({"pb", "pb+db", "everywhere"}) /\ db = at({"pb+db", "everywhere"})
            /\ log = [k \in Keys |-> IF there(k, {"everywhere"})
                                     THEN <<Event("Created", old(k))>> ELSE << >>]
    /\ call = [c \in Calls |-> Waiting] /\ faults = 0

-----------------------------------------------------------------------------
(* The steps of a call.                                                    *)

At(c, pc)    == call[c].pc = pc
Turn(c, new) == call' = [call EXCEPT ![c] = new] /\ UNCHANGED origin

\* A row whose creation was undone behind another call's back leaves its
\* stream; what is added under its name next is another row with its own.
SameAlbum == \A k \in Keys : log[k] # << >> => Exists(pb[k])

\* A new call; it and the ones under way are no longer alone.
Begin(c, op, first) ==
    LET beside == {d \in Calls : Busy(d)}
        me     == [first EXCEPT !.op = op, !.alone = beside = {}]
    IN  /\ op \in Ops /\ At(c, "new") /\ SameAlbum /\ UNCHANGED origin
        /\ call' = [d \in Calls |-> IF d = c THEN me
                                    ELSE IF d \in beside THEN [call[d] EXCEPT !.alone = FALSE]
                                    ELSE call[d]]

\* What follows the recording of one row: the next one of a song's album and
\* artist (recordSongSideEffectEvents), for an artist's clicks the record.
Onward(me) ==
    IF me.op \in {"artistCount", "artistList"} THEN [me EXCEPT !.pc = "save"]
    ELSE IF me.todo = << >> THEN [me EXCEPT !.pc = "done"]
    ELSE [me EXCEPT !.pc = "load", !.key = Head(me.todo), !.todo = Tail(me.todo)]
\* A failing record is logged and the call goes on.
Drop(c) == Turn(c, [Onward(call[c]) EXCEPT !.failed = TRUE])
End(c)  == Turn(c, [call[c] EXCEPT !.pc = "done", !.failed = TRUE])

\* deleteOrphanAlbumRecord and deleteOrphan; what made the append fail may make
\* the deletion fail as well.
TakenBack(key) == pb' = [pb EXCEPT ![key] = NoRow]

-----------------------------------------------------------------------------
(* How each kind of call begins.                                           *)

\* The record first, then its stream.
Create(c, key, new, events) ==
    /\ ~Exists(pb[key]) /\ log[key] = << >>
    /\ pb' = [pb EXCEPT ![key] = new]
    /\ Begin(c, "create", [Waiting EXCEPT !.pc = "append", !.key = key, !.view = new, !.events = events])
    /\ UNCHANGED <<db, log, faults>>
\* HandleCreateAlbum: parseAlbumCreateInput raises the total to the collected songs.
CreateAlbum(c) ==
    \E status \in Statuses, coll, total \in 0..1 :
        LET new == Row(status, coll, AtLeast(total, coll))
        IN  Create(c, "album", new, AlbumFacts(new))
CreateArtist(c) ==
    \E status \in ListStatuses, coll \in 0..1 :
        LET new == Row(status, coll, 0)
        IN  Create(c, "artist", new, ArtistFacts(new))

\* atomicUpdateAlbumSongField: the PocketBase transaction.
ClickCount(c) ==
    \E field \in {"coll", "total"}, delta \in {-1, 1} :
        /\ Exists(pb["album"])
        /\ pb' = [pb EXCEPT !["album"] = Counted(@, field, delta)]
        /\ Begin(c, "count", [Waiting EXCEPT !.pc = "mirror", !.click = <<field, delta>>,
                                  !.view = Counted(pb["album"], field, delta)])
        /\ UNCHANGED <<db, log, faults>>

\* atomicUpdateAlbumStatus: the PocketBase transaction, which keeps the old one.
ClickStatus(c) ==
    \E status \in Statuses :
        /\ Exists(pb["album"])
        /\ pb' = [pb EXCEPT !["album"].status = status]
        /\ Begin(c, "status", [Waiting EXCEPT !.pc = "mirror", !.was = pb["album"],
                                   !.view = [pb["album"] EXCEPT !.status = status]])
        /\ UNCHANGED <<db, log, faults>>

\* Mutant: the place is taken from the SQLite list, as a toggle takes it.
CreateSongFromMirror(c) ==
    \E s \in Songs, typed \in Typed, old \in BOOLEAN :
        LET place  == NextPlace(db, old)
            album  == WithSong(pb["album"], typed)
            artist == CreditedOn(pb["artist"])
        IN  /\ ~Exists(pb[s])
            /\ pb' = [pb EXCEPT !["album"] = album, !["artist"] = artist, ![s] = place]
            /\ Begin(c, "song", [Waiting EXCEPT !.pc = "append", !.key = s,
                   !.events = SongFacts(place), !.todo = <<"album", "artist">>,
                   !.view = album, !.credit = artist])
            /\ UNCHANGED <<db, log, faults>>

\* persistSongWithMetadata: album, artist and song in one PocketBase
\* transaction; the song takes the next place of the recent batch.
CreateSong(c) ==
    \E s \in Songs, typed \in Typed, old \in BOOLEAN :
        LET place  == NextPlace(pb, old)
            album  == WithSong(pb["album"], typed)
            artist == CreditedOn(pb["artist"])
        IN  /\ ~Exists(pb[s])
            /\ pb' = [pb EXCEPT !["album"] = album, !["artist"] = artist, ![s] = place]
            /\ Begin(c, "song", [Waiting EXCEPT !.pc = "append", !.key = s,
                   !.events = SongFacts(place), !.todo = <<"album", "artist">>,
                   !.view = album, !.credit = artist])
            /\ UNCHANGED <<db, log, faults>>

\* applyRecentUpdate, needsBatchAssignment.
NeedsPlace(row) == row.status # "recent" \/ row.coll <= 0 \/ row.total <= 0

\* HandleUpdateSongRecent up to the save: the record is read and a place is
\* looked up in the SQLite list when it needs one.
Toggle(c) ==
    \E s \in Songs, on \in BOOLEAN, old \in BOOLEAN :
        /\ Exists(pb[s])
        /\ Begin(c, "toggle", [Waiting EXCEPT !.pc = "save", !.key = s, !.was = pb[s],
               !.view = IF ~on THEN NotRecent
                            ELSE IF NeedsPlace(pb[s]) THEN NextPlace(db, old) ELSE pb[s]])
        /\ UNCHANGED stores

\* HandleUpdateCollectionSongs: the record is read, the fact comes first.
ClickArtistCount(c) ==
    \E delta \in {-1, 1} :
        /\ Exists(pb["artist"])
        /\ Begin(c, "artistCount", [Waiting EXCEPT !.pc = "load", !.key = "artist",
               !.was = pb["artist"], !.view = [pb["artist"] EXCEPT !.coll = AtLeast(@ + delta, 0)]])
        /\ UNCHANGED stores
\* HandleUpdateListStatus: likewise.
ClickArtistStatus(c) ==
    \E status \in ListStatuses :
        /\ Exists(pb["artist"])
        /\ Begin(c, "artistList", [Waiting EXCEPT !.pc = "load", !.key = "artist",
               !.was = pb["artist"], !.view = [pb["artist"] EXCEPT !.status = status]])
        /\ UNCHANGED stores
-----------------------------------------------------------------------------
(* The steps that follow.                                                  *)

\* Mutant: the missing row is inserted and then counted once more.
CountMirroredTwice(row, me) == Counted(IF Exists(row) THEN row ELSE me.view, me.click[1], me.click[2])

\* The SQLite transactions of an album's clicks: a row that is missing is
\* filled in from the committed record (upsertAlbumRowFromView), any other
\* moves by itself.  What it holds now is what the event will say.
CountMirrored(row, me) == IF Exists(row) THEN Counted(row, me.click[1], me.click[2]) ELSE me.view
StatusMirrored(row, me) == IF Exists(row) THEN [row EXCEPT !.status = me.view.status] ELSE me.view
\* HandleUpdateAlbumStatus records nothing when the status was there already.
Moved(me) == me.op = "count" \/ me.was.status # me.view.status

Mirror(c) ==
    /\ At(c, "mirror") /\ UNCHANGED <<pb, log>>
    /\ LET me  == call[c]
           new == IF me.op = "count" THEN CountMirrored(db["album"], me)
                  ELSE StatusMirrored(db["album"], me)
       IN  \/ /\ db' = [db EXCEPT !["album"] = new] /\ UNCHANGED faults
              /\ Turn(c, [me EXCEPT !.view = new, !.pc = IF Moved(me) THEN "load" ELSE "done"])
           \/ Fault /\ End(c) /\ UNCHANGED db

\* SaveWithContext writes the fields the handler changed.
Rewritten(row, me) ==
    IF ~Exists(row) \/ me.view = me.was THEN row
    ELSE CASE me.op = "toggle"      -> me.view
           [] me.op = "artistCount" -> [row EXCEPT !.coll = me.view.coll]
           [] me.op = "artistList"  -> [row EXCEPT !.status = me.view.status]
SaveRecord(c) ==
    /\ At(c, "save") /\ UNCHANGED <<db, log>>
    /\ LET me == call[c]
       IN  \/ /\ pb' = [pb EXCEPT ![me.key] = Rewritten(@, me)]
              /\ Turn(c, [me EXCEPT !.pc = IF me.op = "toggle" THEN "mirrorRow" ELSE "done"])
              /\ UNCHANGED faults
           \/ Fault /\ End(c) /\ UNCHANGED pb

\* The toggle's UPDATE of the songs table.
MirrorRow(c) ==
    /\ At(c, "mirrorRow") /\ UNCHANGED <<pb, log>>
    /\ LET me == call[c]
       IN  \/ /\ db' = [db EXCEPT ![me.key] = IF Exists(@) THEN me.view ELSE @]
              /\ Turn(c, [me EXCEPT !.pc = "load"]) /\ UNCHANGED faults
           \/ Fault /\ End(c) /\ UNCHANGED db

\* What is recorded of an aggregate that is to become "new": nothing when it is
\* there already.
NewStatus(agg, new) == IF agg.status = new.status THEN << >> ELSE <<Event("StatusChanged", new)>>
\* Mutant: an adjustment that leaves the collected songs alone is dropped.
NewCountsByCollected(agg, new) == IF agg.coll = new.coll THEN << >> ELSE <<Event("CountsAdjusted", new)>>
NewCounts(agg, new) == IF Counts(agg) = Counts(new) THEN << >> ELSE <<Event("CountsAdjusted", new)>>
NewPlace(agg, new)  == IF agg = new THEN << >> ELSE <<Event("RecentChanged", new)>>

\* foldAlbumCounts, foldArtistCounts, HandleUpdateAlbumSongField and their like;
\* an artist keeps the total its stream has.
AlbumChange(me, agg) ==
    IF me.op = "status" THEN NewStatus(agg, me.view) ELSE NewCounts(agg, me.view)
ArtistChange(me, agg) ==
    IF me.op = "artistList" THEN NewStatus(agg, me.view)
    ELSE NewCounts(agg, [agg EXCEPT !.coll = IF me.op = "song" THEN me.credit.coll ELSE me.view.coll])
Change(me, agg) ==
    CASE me.key = "album"  -> AlbumChange(me, agg)
      [] me.key = "artist" -> ArtistChange(me, agg)
      [] OTHER             -> NewPlace(agg, me.view)

\* A row without a stream is given one first: an album's from what was just
\* committed, with the status it had (recordAlbumStatusEvent); an artist's
\* without songs; a song's without a place.
AlbumSeed(me)  == IF me.op = "status" THEN [me.view EXCEPT !.status = me.was.status] ELSE me.view
ArtistSeed(me) == Row(IF me.op = "song" THEN me.credit.status ELSE me.was.status, 0, 0)
SongSeed(me)   == NotRecent
Seed(me) ==
    CASE me.key = "album"  -> AlbumSeed(me)
      [] me.key = "artist" -> ArtistSeed(me)
      [] OTHER             -> SongSeed(me)

\* albumRepo.Load, artistRepo.Load, loadOrCreateAlbum, loadOrCreateArtist,
\* loadOrCreateSong and the change made to what they return.
Load(c) ==
    LET me    == call[c]
        born  == <<Event("Created", Seed(me))>>
        click == me.op \in {"artistCount", "artistList"}
        then  == Change(me, Folded(me.key, log[me.key]))
        store(seeding, events) ==
            [me EXCEPT !.pc = "append", !.ver = Len(log[me.key]),
                       !.seeding = seeding, !.events = events]
    IN  /\ At(c, "load") /\ UNCHANGED <<pb, db, log>>
        /\ \/ /\ log[me.key] = << >>
              /\ Turn(c, IF click THEN store(FALSE, born \o Change(me, Seed(me)))
                         ELSE store(TRUE, born))
              /\ UNCHANGED faults
           \/ /\ log[me.key] # << >>
              /\ Turn(c, IF then = << >> THEN Onward(me) ELSE store(FALSE, then))
              /\ UNCHANGED faults
           \/ Fault /\ Drop(c)

\* Repository.Save.  A creation that cannot be stored takes its record back.
Store(c) ==
    LET me == call[c]
    IN  /\ At(c, "append") /\ UNCHANGED db
        /\ \/ /\ Saved(me.key, me.ver, me.events)
              /\ Turn(c, [me EXCEPT !.pc = IF me.seeding /\ me.key \in Songs THEN "load" ELSE "project"])
              /\ UNCHANGED <<pb, faults>>
           \/ /\ Conflict(me.key, me.ver) /\ UNCHANGED <<log, faults>>
              /\ IF me.op = "create" THEN TakenBack(me.key) /\ End(c) ELSE UNCHANGED pb /\ Drop(c)
           \/ /\ Fault /\ UNCHANGED log
              /\ IF me.op = "create" THEN (TakenBack(me.key) \/ UNCHANGED pb) /\ End(c)
                 ELSE UNCHANGED pb /\ Drop(c)

\* Project; a failing projection is logged.
Publish(c) ==
    LET me == call[c]
    IN  /\ At(c, "project") /\ UNCHANGED <<pb, log>>
        /\ \/ /\ Project(me.key, me.events) /\ UNCHANGED faults
              /\ Turn(c, IF me.seeding THEN [me EXCEPT !.pc = "load"] ELSE Onward(me))
           \/ Fault /\ Drop(c) /\ UNCHANGED db

\* The process dies: every call under way is over.
Die ==
    /\ ~Quiet /\ Fault /\ UNCHANGED <<pb, db, log, origin>>
    /\ call' = [c \in Calls |-> IF Busy(c) THEN [call[c] EXCEPT !.pc = "done", !.failed = TRUE]
                                ELSE call[c]]

\* ResetForReplay keeps an artist that has scrape jobs.
ResetForReplay(key, hasJobs) == IF key = "artist" /\ hasJobs THEN db[key] ELSE NoRow

\* The replay command on a stopped application: the read models are cleared
\* and every stream is projected again.
Rebuild ==
    /\ Quiet /\ UNCHANGED <<pb, log, faults, call, origin>>
    /\ \E hasJobs \in BOOLEAN :
           db' = [k \in Keys |-> Projected(k, ResetForReplay(k, hasJobs), log[k])]

Step(c) ==
    \/ CreateAlbum(c) \/ CreateArtist(c)
    \/ ClickCount(c) \/ ClickStatus(c) \/ CreateSong(c) \/ Toggle(c)
    \/ ClickArtistCount(c) \/ ClickArtistStatus(c)
    \/ Mirror(c) \/ SaveRecord(c) \/ MirrorRow(c) \/ Load(c) \/ Store(c) \/ Publish(c)
Next == (\E c \in Calls : Step(c)) \/ Die \/ Rebuild
Spec == Init /\ [][Next]_vars
-----------------------------------------------------------------------------
Pcs == {"new", "mirror", "save", "mirrorRow", "load", "append", "project", "done"}

\* Types of the stores and of the calls' program counters.
TypeOK ==
    /\ \A k \in Keys : \A row \in {pb[k], db[k]} : row.coll \in Nat /\ row.total \in Nat
    /\ \A k \in Keys : log[k] # << >> => log[k][1].type = "Created"
    /\ \A c \in Calls : call[c].pc \in Pcs /\ call[c].key \in Keys
    /\ origin \in Origins /\ faults \in 0..MaxFaults

\* No album is ever shown or recorded with more songs collected than it has,
\* whatever calls run side by side and whichever writes fail
\* (albumSongUpdateQuery, mutateAlbumRecord).
CountsInRange ==
    /\ pb["album"].coll <= pb["album"].total /\ db["album"].coll <= db["album"].total
    /\ \A i \in DOMAIN log["album"] : log["album"][i].row.coll <= log["album"][i].row.total

\* Calls that never overlapped and never failed leave the three places in
\* agreement, for every row that has a stream.  Only a song added to an album
\* older than the log does not: its SQLite row keeps lagging behind the stream
\* that the song's creation has started for it.
AllAlone   == \A c \in Calls : call[c].alone
Streamless == origin \in {"pb", "pb+db"} /\ \E c \in Calls : call[c].op = "song"
AloneAgrees ==
    Quiet /\ AllAlone /\ faults = 0 /\ ~Streamless =>
        \A k \in Keys : log[k] # << >> => pb[k] = Folded(k, log[k]) /\ db[k] = Folded(k, log[k])

\* No two recent songs share a place, though songs are added side by side: the
\* list is read inside the transaction that adds the song.  Only a toggle
\* reads it outside (nextRecentBatchAssignment).
SlotsAreUnique ==
    faults = 0 /\ (\A c \in Calls : call[c].op = "toggle" => call[c].alone) =>
        \A s, t \in Recent(pb) : s # t => Counts(pb[s]) # Counts(pb[t])

\* The rows of the catalogue stay within what an album and a list can hold.
CatalogIsSound == TypeOK /\ CountsInRange /\ SlotsAreUnique

\* A count click that runs undisturbed puts right what earlier failures left
\* between the read model and the log: the event repeats the whole SQLite row.
HealsOnClick ==
    [][\A c \in Calls :
           call[c].pc # "done" /\ call'[c].pc = "done" /\ call'[c].op = "count"
               /\ call'[c].alone /\ ~call'[c].failed
           => Counts(db'["album"]) = Counts(Folded("album", log'["album"]))]_vars
=============================================================================
