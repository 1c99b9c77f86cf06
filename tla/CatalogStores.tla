---------------------------- MODULE CatalogStores ----------------------------
(***************************************************************************)
(* The catalogue in its three places: the PocketBase rows ("pb"), the      *)
(* SQLite read models the pages are rendered from ("db") and the event     *)
(* streams ("log").  One album, the artist credited on it, and some songs. *)
(***************************************************************************)
EXTENDS Integers, Sequences, FiniteSets, FiniteSetsExt, SequencesExt

CONSTANTS Songs,     \* songs that may be added to the album
          BatchSize, \* songsRecentBatchSize
          MaxFaults  \* bound: failing writes and deaths of the process

ASSUME CatalogAssumption == BatchSize \in Nat \ {0} /\ MaxFaults \in Nat
ASSUME CatalogNames == IsFiniteSet(Songs) /\ Songs \cap {"album", "artist"} = {}

VARIABLES pb, db, log, \* each one: key -> row, row, sequence of events
          faults

stores == <<pb, db, log, faults>>

Keys == {"album", "artist"} \cup Songs

\* An album's or an artist's row counts songs; a song's row holds its place
\* among the recent songs.
NoRow == [status |-> "none", coll |-> 0, total |-> 0]
Counts(row)  == <<row.coll, row.total>>
Exists(row)  == row.status # "none"
Row(status, coll, total) == [status |-> status, coll |-> coll, total |-> total]
\* A song keeps recent_batch_seq and recent_batch_pos in the two numbers.
NotRecent == Row("kept", 0, 0)

Event(type, row) == [type |-> type, row |-> row]

\* NewAlbum, NewArtist (and the adjustment a creation adds) and NewSong.
AlbumFacts(row)  == <<Event("Created", row)>>
ArtistFacts(row) ==
    <<Event("Created", [row EXCEPT !.coll = 0])>> \o
    IF row.coll = 0 THEN << >> ELSE <<Event("CountsAdjusted", row)>>
SongFacts(row)   == <<Event("Created", row)>>

\* The three aggregates' apply.
AlbumApplied(row, e) ==
    CASE e.type = "Created"        -> e.row
      [] e.type = "StatusChanged"  -> [row EXCEPT !.status = e.row.status]
      [] e.type = "CountsAdjusted" -> [row EXCEPT !.coll = e.row.coll, !.total = e.row.total]
ArtistApplied(row, e) ==
    CASE e.type = "Created"        -> Row(e.row.status, 0, 0)
      [] e.type = "StatusChanged"  -> [row EXCEPT !.status = e.row.status]
      [] e.type = "CountsAdjusted" -> [row EXCEPT !.coll = e.row.coll, !.total = e.row.total]
SongApplied(row, e) == e.row

\* INSERT ... ON CONFLICT DO NOTHING for a creation, UPDATE ... WHERE id = ?
\* for the rest: a creation never touches a row that is there, and every other
\* event moves a row or nothing.
Touches(row, e)         == Exists(row) # (e.type = "Created")
AlbumProjected(row, e)  == IF Touches(row, e) THEN AlbumApplied(row, e) ELSE row
ArtistProjected(row, e) == IF Touches(row, e) THEN ArtistApplied(row, e) ELSE row
SongProjected(row, e)   == IF Touches(row, e) THEN SongApplied(row, e) ELSE row
\* Replay of an aggregate, and of a read model.
Applied(key, row, e) ==
    CASE key = "album"  -> AlbumApplied(row, e)
      [] key = "artist" -> ArtistApplied(row, e)
      [] OTHER          -> SongApplied(row, e)
Projecting(key, row, e) ==
    CASE key = "album"  -> AlbumProjected(row, e)
      [] key = "artist" -> ArtistProjected(row, e)
      [] OTHER          -> SongProjected(row, e)
Replayed(place, key, row, events) ==
    FoldLeft(LAMBDA r, e : IF place = "db" THEN Projecting(key, r, e) ELSE Applied(key, r, e),
             row, events)
Folded(key, events)         == Replayed("log", key, NoRow, events)
Projected(key, row, events) == Replayed("db", key, row, events)
Project(key, events) == db' = [db EXCEPT ![key] = Projected(key, @, events)]

\* Repository.Save: the expected version is the loaded one, AppendWithRetry
\* gives up when another writer was first.
Saved(key, ver, events) ==
    Len(log[key]) = ver /\ log' = [log EXCEPT ![key] = @ \o events]
Conflict(key, ver) == Len(log[key]) # ver

Fault == faults < MaxFaults /\ faults' = faults + 1
-----------------------------------------------------------------------------
(* Counting.                                                               *)

AtLeast(a, b) == IF a > b THEN a ELSE b
AtMost(a, b)  == IF a < b THEN a ELSE b

\* albumSongUpdateQuery: one count moves by delta and drags the other along.
Counted(row, field, delta) ==
    IF field = "coll"
    THEN LET n == AtLeast(row.coll + delta, 0)  IN [row EXCEPT !.coll = n, !.total = AtLeast(@, n)]
    ELSE LET n == AtLeast(row.total + delta, 0) IN [row EXCEPT !.total = n, !.coll = AtMost(@, n)]

\* upsertAlbumForSong, mutateAlbumRecord and createAlbumRecord; "typed" is the
\* number of songs given in the form, 0 when it is left empty.
WithSong(row, typed) ==
    IF ~Exists(row) THEN Row("waiting", 1, AtLeast(typed, 1))
    ELSE [row EXCEPT !.coll = @ + 1, !.total = AtLeast(@, AtLeast(typed, row.coll + 1))]

\* findOrCreateArtist, mutateArtistRecord.
CreditedOn(row) ==
    IF ~Exists(row) THEN Row("not_added", 1, 0) ELSE [row EXCEPT !.coll = @ + 1]
-----------------------------------------------------------------------------
(* Places of recent songs: (1, BatchSize), ..., (1, 1), (2, BatchSize), ... *)

Recent(rows) == {s \in Songs : rows[s].status = "recent"}
BatchOf(row) == AtLeast(row.coll, 1)
PlaceOf(row) == IF row.total \in 1..BatchSize THEN row.total ELSE BatchSize

\* findMaxBatchStats: the newest batch, how many songs it has and the lowest
\* place taken in it.
BatchStats(rows) ==
    LET seq   == Max({BatchOf(rows[s]) : s \in Recent(rows)})
        batch == {s \in Recent(rows) : BatchOf(rows[s]) = seq}
    IN  [seq |-> seq, size |-> Cardinality(batch), lowest |-> Min({PlaceOf(rows[s]) : s \in batch})]

\* computeNextBatchPosition; "old" when the newest song of the batch was added
\* thirteen days ago.
NextPlace(rows, old) ==
    IF Recent(rows) = {} THEN Row("recent", 1, BatchSize)
    ELSE LET batch == BatchStats(rows)
         IN  IF batch.size >= BatchSize \/ batch.lowest <= 1 \/ old
             THEN Row("recent", batch.seq + 1, BatchSize)
             ELSE Row("recent", batch.seq, batch.lowest - 1)
=============================================================================
