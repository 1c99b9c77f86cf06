--------------------------- MODULE TidalProposals ---------------------------
(***************************************************************************)
(* What a run of the TIDAL sync may approve by itself, over small lists of *)
(* favourites and catalogues.                                              *)
(***************************************************************************)
EXTENDS TidalReconcile

CONSTANTS SeenTracks, SeenSongs  \* id -> the tracks and songs it may stand for

VARIABLE seen  \* the favourites and the catalogue, in their order

SeenInit ==
    \E t1 \in SeenTracks["t1"], t2 \in SeenTracks["t2"],
       s1 \in SeenSongs["s1"], s2 \in SeenSongs["s2"] :
        seen = [tracks |-> <<t1, t2>>, catalog |-> <<s1, s2>>]

Proposed == ToSet(Reconcile(seen.tracks, seen.catalog))

\* However many favourites match a song, only one of them writes to it without
\* review, and never over another link (the "claimed" map and linkedElsewhere).
OneSourcePerSong ==
    LET auto == {p \in Proposed : p.auto}
    IN  /\ OneSource(auto)
        /\ \A p \in auto : \A i \in DOMAIN seen.catalog :
                seen.catalog[i].id = p.target => seen.catalog[i].tidal \in {"", p.track}

\* "a substring plus artist bonus cannot reach the auto-link threshold on its
\* own" (reconcile.go, findAllMatches), nor with the year: what is approved by
\* itself has the whole title and an artist of the song.
AutoHasEvidence ==
    \A p \in Proposed :
        p.auto => \E i \in DOMAIN seen.catalog, j \in DOMAIN seen.tracks :
            /\ seen.catalog[i].id = p.target /\ seen.tracks[j].id = p.track
            /\ \/ seen.catalog[i].tidal = p.track
               \/ seen.catalog[i].title = seen.tracks[j].title /\ SharesArtist(seen.tracks[j], seen.catalog[i])

\* What Reconcile approves by itself is one link per song, with evidence.
ProposalsAreSound == OneSourcePerSong /\ AutoHasEvidence
=============================================================================
