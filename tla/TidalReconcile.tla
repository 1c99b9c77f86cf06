--------------------------- MODULE TidalReconcile ---------------------------
(***************************************************************************)
(* What a run of the TIDAL sync proposes: the favourite tracks one after   *)
(* the other against a snapshot of the catalogue (Reconcile).              *)
(*                                                                         *)
(* A title is a name, one perhaps part of another; a credit is the set of  *)
(* artists it names, with dots when it was cut; an album title is a name   *)
(* with the release type and the edition it carries, and a date a year,    *)
(* perhaps with its day.  Confidence is counted in hundredths.             *)
(***************************************************************************)
EXTENDS Integers, Sequences, FiniteSets, FiniteSetsExt, SequencesExt

CONSTANTS PartOf,             \* pairs of titles, the first contained in the second
          FillImpreciseDates  \* ReconcileOptions

ASSUME TidalAssumption == FillImpreciseDates \in BOOLEAN

MinConfidence     == 85
AutoLinkThreshold == 90

NoAlbum == [name |-> "", type |-> "", edition |-> FALSE]
NoDate  == [year |-> 0, day |-> FALSE]

\* CleanAlbumTitle strips every release type and edition the title ends with,
\* and reports what it has stripped.
Clean(album)          == [album EXCEPT !.type = "", !.edition = FALSE]
IsImprecise(date)     == ~date.day

\* A linked track is certain.  Another match needs the whole title or a part
\* of it, and wins by the artist and the year.
SharesArtist(track, song) == track.artists \cap song.credit # {}
Alike(track, song) ==
    {track.title, song.title} \in {{track.title}} \cup {{p[1], p[2]} : p \in PartOf}
TitleScore(track, song) == IF track.title = song.title THEN 90 ELSE 80
ArtistScore(track, song) ==
    CASE SharesArtist(track, song) -> 5
      [] song.credit # {} /\ track.artists # {} /\ ~SharesArtist(track, song) -> -20
      [] OTHER -> 0
YearScore(track, song) == IF song.year > 0 /\ track.date.year = song.year THEN 4 ELSE 0
Score(track, song) ==
    Min({99, TitleScore(track, song) + ArtistScore(track, song) + YearScore(track, song)})

\* byTidalID: of two songs with one id, the later.
LinkedSong(track, catalog) ==
    Max({0} \cup {i \in DOMAIN catalog : catalog[i].tidal = track.id})

Found(song, score, artist) == [song |-> song, score |-> score, artist |-> artist]
FindAllMatches(track, catalog) ==
    LET linked == LinkedSong(track, catalog)
        fits(i) == /\ i # linked /\ catalog[i].title # "" /\ Alike(track, catalog[i])
                   /\ Score(track, catalog[i]) >= MinConfidence
        at(i) == IF fits(i)
                 THEN <<Found(catalog[i], Score(track, catalog[i]), SharesArtist(track, catalog[i]))>>
                 ELSE << >>
    IN  (IF linked = 0 THEN << >> ELSE <<Found(catalog[linked], 100, TRUE)>>)
        \o FlattenSeq([i \in DOMAIN catalog |-> at(i)])

MetadataCompleteness(song) ==
    Cardinality({f \in {"album", "date", "type"} :
        CASE f = "album" -> song.album # NoAlbum
          [] f = "date"  -> song.date # NoDate
          [] f = "type"  -> song.type # ""})
SelectCanonicalDuplicate(s1, s2) ==
    IF s1.spotify # s2.spotify THEN (IF s1.spotify THEN s1 ELSE s2)
    ELSE IF MetadataCompleteness(s1) >= MetadataCompleteness(s2) THEN s1 ELSE s2
CanonicalMatch(matches) ==
    LET better(best, m) ==
            IF \/ m.score > best.score
               \/ m.score = best.score /\ SelectCanonicalDuplicate(best.song, m.song) = m.song
            THEN m ELSE best
    IN  FoldLeft(better, matches[1], Tail(matches))

-----------------------------------------------------------------------------
(* The proposals a track gives rise to.                                    *)

Proposal(kind, target, after, confidence, track, auto, review) ==
    [kind |-> kind, target |-> target, after |-> after, confidence |-> confidence,
     track |-> track.id, auto |-> auto, review |-> review]

GenerateSyntheticSongID(track) == "new:" \o track.id \o track.title
Addition(track) ==
    Proposal("addition", GenerateSyntheticSongID(track),
             [title |-> track.title, credit |-> track.artists, album |-> Clean(track.album),
              date |-> track.date, type |-> track.album.type, tidal |-> track.id],
             100, track, FALSE, FALSE)

\* Only matches as good as the chosen one are the same song.
Duplicates(track, matches, best) ==
    LET same(m) == m.song.id # best.song.id /\ m.score = best.score
        at(m)   == IF same(m)
                   THEN <<Proposal("duplicate", m.song.id, [dup |-> best.song.id], m.score, track, FALSE, FALSE)>>
                   ELSE << >>
    IN  FlattenSeq([i \in DOMAIN matches |-> at(matches[i])])

\* claimed: song -> the track linked to it earlier in this run.
ClaimedByAnother(track, song, claimed) ==
    song.id \in DOMAIN claimed /\ claimed[song.id] # track.id

AutoLinks(track, best, claimed) ==
    /\ best.song.tidal = "" /\ best.score >= AutoLinkThreshold /\ best.artist
    /\ ~ClaimedByAnother(track, best.song, claimed)
Link(track, best, claimed) ==
    LET auto == AutoLinks(track, best, claimed)
    IN  IF best.song.tidal = track.id THEN << >>
        ELSE <<Proposal("link", best.song.id, [tidal |-> track.id], best.score, track,
                        auto, ~auto /\ best.score >= AutoLinkThreshold)>>
Claim(track, best, claimed) ==
    IF best.song.tidal # track.id /\ AutoLinks(track, best, claimed)
    THEN [id \in DOMAIN claimed \cup {best.song.id} |-> IF id = best.song.id THEN track.id ELSE claimed[id]]
    ELSE claimed

\* Fields the song has not and the track has.
Fillable(track, song) ==
    {f \in {"album", "date", "type"} :
        CASE f = "album" -> song.album = NoAlbum /\ Clean(track.album) # NoAlbum
          [] f = "date"  -> /\ song.date = NoDate /\ track.date # NoDate
                            /\ IsImprecise(track.date) => FillImpreciseDates
          [] f = "type"  -> song.type = "" /\ track.album.type # ""}
\* Mutant: two favourites that match one song both fill it.
FillsClaimed(track, best, claimed, fields) ==
    /\ best.score >= AutoLinkThreshold /\ best.artist /\ best.song.tidal \in {"", track.id}
    /\ "date" \in fields => ~track.album.edition /\ ~IsImprecise(track.date)
AutoFills(track, best, claimed, fields) ==
    /\ best.score >= AutoLinkThreshold /\ best.artist /\ best.song.tidal \in {"", track.id}
    /\ ~ClaimedByAnother(track, best.song, claimed)
    /\ "date" \in fields => ~track.album.edition /\ ~IsImprecise(track.date)
Fill(track, best, claimed) ==
    LET fields == Fillable(track, best.song)
        auto   == AutoFills(track, best, claimed, fields)
        offer  == [album |-> Clean(track.album), date |-> track.date, type |-> track.album.type]
    IN  IF fields = {} THEN << >>
        ELSE <<Proposal("fill", best.song.id, [f \in fields |-> offer[f]], best.score, track,
                        auto, ~auto /\ best.score >= AutoLinkThreshold)>>

\* Corrections of what the song has; none is approved by itself.
AlbumName(track, best) ==
    LET album == best.song.album
    IN  IF (album.type # "" \/ album.edition) /\ Clean(track.album) = Clean(album)
        THEN <<Proposal("album_name", best.song.id, [album |-> Clean(track.album)],
                        best.score, track, FALSE, FALSE)>> ELSE << >>
ReleaseType(track, best) ==
    LET type == IF track.album.type # "" THEN track.album.type ELSE best.song.album.type
    IN  IF type # "" /\ best.song.type \notin {"", type}
        THEN <<Proposal("release_type", best.song.id, [type |-> type],
                        best.score, track, FALSE, FALSE)>> ELSE << >>
Credit(track, best) ==
    IF best.song.dots /\ Cardinality(track.artists) > 1
    THEN <<Proposal("credit", best.song.id, [credit |-> track.artists],
                    best.score, track, FALSE, FALSE)>> ELSE << >>

PlansOf(track, matches, claimed) ==
    LET best    == CanonicalMatch(matches)
        claimed1 == Claim(track, best, claimed)
    IN  Duplicates(track, matches, best) \o Link(track, best, claimed)
        \o Fill(track, best, claimed1) \o AlbumName(track, best)
        \o ReleaseType(track, best) \o Credit(track, best)
ReconcileOne(so, track, catalog) ==
    LET matches == FindAllMatches(track, catalog)
    IN  CASE track.title = "" -> so
          [] track.title # "" /\ matches = << >> -> [so EXCEPT !.plans = Append(@, Addition(track))]
          [] OTHER -> [plans   |-> so.plans \o PlansOf(track, matches, so.claimed),
                       claimed |-> Claim(track, CanonicalMatch(matches), so.claimed)]
Reconcile(tracks, catalog) ==
    FoldLeft(LAMBDA so, track : ReconcileOne(so, track, catalog),
             [plans |-> << >>, claimed |-> << >>], tracks).plans

-----------------------------------------------------------------------------
\* Proposals that write to one song come from one track.
OneSource(plans) == \A p, q \in plans : p.target = q.target => p.track = q.track
=============================================================================
