----------------------------- MODULE TidalApply -----------------------------
(***************************************************************************)
(* The command that plans a TIDAL sync from the songs' rows, writes its    *)
(* report, and applies the approved part of the latest report to the       *)
(* songs' streams, their rows and the PocketBase mirror, one proposal      *)
(* after the other.  The command may fail or die between any two writes    *)
(* and be run again; the application is stopped meanwhile.                 *)
(***************************************************************************)
EXTENDS TidalReconcile

CONSTANTS Favorites,  \* lists of favourites a plan may find
          OldSongs,   \* songs of the catalogue at first, in the order of their ids
          PageSize,   \* tracks in one observed page (500)
          MaxPlans,   \* bound: plans made
          Hands,      \* bound: sets of kinds a user approves in a report
          MaxHarms    \* bound: failing writes and deaths

ASSUME TidalApplyAssumption ==
    PageSize \in Nat \ {0} /\ MaxPlans \in Nat /\ MaxHarms \in Nat

VARIABLES kept,      \* song -> the state its stream replays to
          shown,     \* song -> its row
          mirrored,  \* song -> its PocketBase row
          observed,  \* the events of the last sync run recorded, and its favourites
          report,    \* the latest report on disk, and the bulk threshold it is applied with
          apply,     \* the apply under way: its copy of the report and its place in it
          aim,       \* what the streams should come to once the report is applied
          plansMade, harms

tidalVars == <<kept, shown, mirrored, observed, report, apply, aim, plansMade, harms>>

NoSong    == [id |-> ""]
NoReport  == [items |-> << >>, above |-> 0]
SongIds   == {OldSongs[i].id : i \in DOMAIN OldSongs} \cup
             {GenerateSyntheticSongID(t) : t \in UNION {ToSet(tracks) : tracks \in Favorites}}
Idle      == [step |-> "idle", at |-> 0, items |-> << >>, events |-> << >>, partial |-> FALSE]

TidalInit ==
    /\ kept = [s \in SongIds |-> LET at == {i \in DOMAIN OldSongs : OldSongs[i].id = s}
                                 IN  IF at = {} THEN NoSong ELSE OldSongs[CHOOSE i \in at : TRUE]]
    /\ shown = kept /\ mirrored = kept
    /\ observed = [events |-> << >>, tracks |-> << >>]
    /\ report = NoReport /\ apply = Idle /\ aim = kept /\ plansMade = 0 /\ harms = 0

May(fails) == harms' = harms + (IF fails THEN 1 ELSE 0) /\ harms' <= MaxHarms

-----------------------------------------------------------------------------
(* The song aggregate's commands and the projection of its events: an      *)
(* event is the fields it sets, the merged ones included.                  *)

SongEvent(type, sets) == [type |-> type, sets |-> sets]
Merged(song) == [album |-> song.album, date |-> song.date, year |-> song.year, type |-> song.type]
Differs(song, type, sets) ==
    IF \A f \in DOMAIN sets : song[f] = sets[f] THEN << >> ELSE <<SongEvent(type, sets)>>
AfterOr(after, f, fallback) == IF f \in DOMAIN after THEN after[f] ELSE fallback

NewSongEvents(id, after) ==
    <<SongEvent("SongCreated",
        [id |-> id, title |-> after.title, credit |-> after.credit, dots |-> FALSE,
         album |-> after.album, date |-> after.date, year |-> after.date.year,
         type |-> after.type, spotify |-> FALSE])>>
LinkTidalID(song, tidal) == Differs(song, "TidalIDLinked", [tidal |-> tidal])
EnrichMetadata(song, after) ==
    LET date == IF song.date = NoDate THEN AfterOr(after, "date", NoDate) ELSE song.date
    IN  Differs(song, "SongMetadataEnriched",
            [album |-> IF song.album = NoAlbum THEN AfterOr(after, "album", NoAlbum) ELSE song.album,
             date  |-> date,
             year  |-> IF song.year = 0 THEN date.year ELSE song.year,
             type  |-> IF song.type = "" THEN AfterOr(after, "type", "") ELSE song.type])
\* Mutant: a field the correction does not name is cleared.
CorrectBare(song, after) ==
    LET date == AfterOr(after, "date", NoDate)
    IN  Differs(song, "SongMetadataCorrected",
            [album |-> AfterOr(after, "album", NoAlbum), date |-> date,
             year  |-> IF date.year # 0 THEN date.year ELSE song.year,
             type  |-> AfterOr(after, "type", "")])
CorrectMetadata(song, after) ==
    LET date == AfterOr(after, "date", song.date)
    IN  Differs(song, "SongMetadataCorrected",
            [album |-> AfterOr(after, "album", song.album), date |-> date,
             year  |-> IF date.year # 0 THEN date.year ELSE song.year,
             type  |-> AfterOr(after, "type", song.type)])
CorrectArtistCredits(song, credit) ==
    IF song.credit = credit /\ ~song.dots THEN << >>
    ELSE <<SongEvent("SongArtistCreditsCorrected", [credit |-> credit, dots |-> FALSE])>>
MarkDuplicate(song, id) ==
    IF id = song.id THEN << >> ELSE Differs(song, "SongMarkedDuplicate", [dup |-> id])

SongEventApplied(song, e) == e.sets @@ song
Unborn(id) == [id |-> id, tidal |-> "", dup |-> ""]

\* The events a proposal records on the song as it is; an addition makes a
\* song of its own.
EventsFor(p, song) ==
    CASE p.kind = "addition" ->
            NewSongEvents(p.target, p.after)
            \o LinkTidalID(Unborn(p.target), p.after.tidal)
      [] p.kind = "link"       -> LinkTidalID(song, p.after.tidal)
      [] p.kind = "fill"       -> EnrichMetadata(song, p.after)
      [] p.kind \in {"album_name", "release_type"} -> CorrectMetadata(song, p.after)
      [] p.kind = "credit"     -> CorrectArtistCredits(song, p.after.credit)
      [] p.kind = "duplicate"  -> MarkDuplicate(song, p.after.dup)
Appended(song, events, id) ==
    FoldLeft(SongEventApplied, IF song = NoSong THEN Unborn(id) ELSE song, events)

\* INSERT ... ON CONFLICT DO NOTHING for a creation, else UPDATE ... WHERE id.
SongEventProjected(row, e) ==
    CASE e.type = "SongCreated" -> IF row = NoSong THEN e.sets @@ Unborn(e.sets.id) ELSE row
      [] e.type # "SongCreated" -> IF row = NoSong THEN row ELSE e.sets @@ row

-----------------------------------------------------------------------------
(* tidal_sync plan.                                                        *)

\* The pages the favourites are recorded in, and what they replay to.
Pages(tracks) ==
    IF tracks = << >> THEN << << >> >>
    ELSE [k \in 1 .. ((Len(tracks) + PageSize - 1) \div PageSize) |->
            SubSeq(tracks, (k - 1) * PageSize + 1, Min({k * PageSize, Len(tracks)}))]
SyncEvents(tracks) ==
    <<[type |-> "Started"]>>
    \o [k \in DOMAIN Pages(tracks) |-> [type |-> "Observed", tracks |-> Pages(tracks)[k]]]
    \o <<[type |-> "Completed", total |-> Len(FlattenSeq(Pages(tracks)))]>>
SyncReplayed(events) ==
    FlattenSeq([i \in DOMAIN events |-> IF events[i].type = "Observed" THEN events[i].tracks
                                        ELSE << >>])

LoadCatalogSongs ==
    LET old == SelectSeq([i \in DOMAIN OldSongs |-> shown[OldSongs[i].id]], LAMBDA s : s # NoSong)
        new == {s \in SongIds : shown[s] # NoSong /\ \A i \in DOMAIN old : old[i].id # s}
    IN  old \o [i \in 1..Cardinality(new) |-> shown[SetToSeq(new)[i]]]

Item(p, approved) == [plan |-> p, approved |-> approved, applied |-> FALSE]
BulkEligible(p)   == p.kind # "addition" /\ ~p.review
ShouldApply(item, above) ==
    item.approved \/ (BulkEligible(item.plan) /\ above > 0 /\ item.plan.confidence >= above)
ByHand(plans) == {{i \in DOMAIN plans : plans[i].kind \in kinds} : kinds \in Hands}
Chosen(rep) == {i \in DOMAIN rep.items : ShouldApply(rep.items[i], rep.above)}

\* Each approved proposal once, on the streams as they are.
ApplyAll(songs, rep) ==
    LET one(so, i) ==
            LET p == rep.items[i].plan
            IN  IF i \notin Chosen(rep) \/ (so[p.target] = NoSong) # (p.kind = "addition") THEN so
                ELSE [so EXCEPT ![p.target] = Appended(@, EventsFor(p, @), p.target)]
    IN  FoldLeft(one, songs, [i \in DOMAIN rep.items |-> i])

\* A dry run records nothing; any other run that cannot record its
\* observation writes no report.
RunPlan ==
    /\ apply.step = "idle" /\ plansMade < MaxPlans /\ plansMade' = plansMade + 1
    /\ UNCHANGED <<kept, shown, mirrored, apply>>
    /\ \E tracks \in Favorites, dryRun, fails \in BOOLEAN :
        /\ May(fails) /\ (dryRun => ~fails)
        /\ observed' = IF dryRun \/ fails THEN observed
                       ELSE [events |-> SyncEvents(tracks), tracks |-> tracks]
        /\ LET plans == Reconcile(tracks, LoadCatalogSongs)
           IN  IF fails THEN UNCHANGED <<report, aim>>
               ELSE \E by \in ByHand(plans), above \in {0, AutoLinkThreshold} :
                    LET items == [i \in DOMAIN plans |-> Item(plans[i], plans[i].auto \/ i \in by)]
                        rep   == [items |-> items, above |-> above]
                    IN  /\ OneSource({items[i].plan : i \in Chosen(rep)})
                        /\ report' = rep /\ aim' = ApplyAll(kept, rep)

-----------------------------------------------------------------------------
(* tidal_sync apply.                                                       *)

StartApply ==
    /\ apply.step = "idle" /\ report # NoReport
    /\ apply' = [Idle EXCEPT !.step = "next", !.at = 1, !.items = report.items]
    /\ UNCHANGED <<kept, shown, mirrored, observed, report, aim, plansMade, harms>>

Current == apply.items[apply.at]
GoOn(failed) ==
    apply' = [apply EXCEPT !.step = "next", !.at = @ + 1, !.events = << >>, !.partial = @ \/ failed]

\* Skipped, without a stream to load, without a change, or saved.  The version
\* a creation expects is zero.
ApplySave ==
    /\ apply.step = "next" /\ apply.at <= Len(apply.items)
    /\ UNCHANGED <<shown, mirrored, observed, report, aim, plansMade>>
    /\ LET p == Current.plan
           missing  == kept[p.target] = NoSong
           conflict == p.kind = "addition" /\ ~missing
           events   == IF missing /\ p.kind # "addition" THEN << >> ELSE EventsFor(p, kept[p.target])
       IN  IF Current.applied \/ ~ShouldApply(Current, report.above) \/ conflict \/ events = << >>
           THEN GoOn(FALSE) /\ UNCHANGED <<kept, harms>>
           ELSE \E fails \in BOOLEAN :
                /\ May(fails)
                /\ IF fails THEN GoOn(TRUE) /\ UNCHANGED kept
                   ELSE /\ kept' = [kept EXCEPT ![p.target] = Appended(@, events, p.target)]
                        /\ apply' = [apply EXCEPT !.step = "project", !.events = events]

ApplyProject ==
    /\ apply.step = "project"
    /\ UNCHANGED <<kept, mirrored, observed, report, aim, plansMade>>
    /\ \E fails \in BOOLEAN :
        /\ May(fails)
        /\ IF fails THEN GoOn(TRUE) /\ UNCHANGED shown
           ELSE /\ shown' = [shown EXCEPT ![Current.plan.target] =
                                FoldLeft(SongEventProjected, @, apply.events)]
                /\ apply' = [apply EXCEPT !.step = "mirror"]

\* MirrorSongToPB writes the whole aggregate, and may fail with a warning.
ApplyMirror ==
    /\ apply.step = "mirror" /\ apply' = [apply EXCEPT !.step = "record"]
    /\ UNCHANGED <<kept, shown, observed, report, aim, plansMade>>
    /\ \E fails \in BOOLEAN :
        /\ May(fails)
        /\ mirrored' = IF fails THEN mirrored
                       ELSE [mirrored EXCEPT ![Current.plan.target] = kept[Current.plan.target]]

\* The proposal's own stream: proposed, approved and applied in one append.
Decided(status, verdict) ==
    CASE verdict = "proposed" /\ status = "none"     -> "proposed"
      [] verdict = "approved" /\ status = "proposed" -> "approved"
      [] verdict = "rejected" /\ status = "proposed" -> "rejected"
      [] verdict = "applied"  /\ status = "approved" -> "applied"
      [] OTHER -> "error"
ApplyRecord ==
    /\ apply.step = "record"
    /\ UNCHANGED <<kept, shown, mirrored, observed, report, aim, plansMade>>
    /\ \E fails \in BOOLEAN, last \in BOOLEAN :
        /\ May(fails) /\ (last => ~fails)
        /\ FoldLeft(Decided, "none", <<"proposed", "approved", "applied">>) = "applied"
        /\ IF fails THEN GoOn(TRUE)
           ELSE apply' = [apply EXCEPT !.step = "next", !.events = << >>,
                            !.items[apply.at].applied = TRUE,
                            !.at = IF last THEN Len(apply.items) + 1 ELSE @ + 1,
                            !.partial = @ \/ last]

\* The report is written back once, at the end; the run may die before.
EndApply ==
    /\ apply.step = "next" /\ apply.at > Len(apply.items)
    /\ apply' = [Idle EXCEPT !.partial = apply.partial]
    /\ UNCHANGED <<kept, shown, mirrored, observed, aim, plansMade>>
    /\ \E fails \in BOOLEAN : May(fails) /\ report' = IF fails THEN report ELSE [report EXCEPT !.items = apply.items]
TidalDies ==
    /\ apply.step # "idle" /\ May(TRUE) /\ apply' = [Idle EXCEPT !.partial = TRUE]
    /\ UNCHANGED <<kept, shown, mirrored, observed, report, aim, plansMade>>

TidalNext == RunPlan \/ StartApply \/ ApplySave \/ ApplyProject \/ ApplyMirror \/ ApplyRecord
             \/ EndApply \/ TidalDies
TidalSpec == TidalInit /\ [][TidalNext]_tidalVars

-----------------------------------------------------------------------------
\* The stream of a sync run replays to the favourites it was made from, however
\* many pages they fill (runPlan's chunks of 500).
ObservationIsWhole == SyncReplayed(observed.events) = observed.tracks

\* "Reruns converge" (song.EnrichMetadata): an apply of a report that comes to
\* its end unharmed leaves the streams where one unharmed apply of the report
\* would have left them at once, whatever failed or died in earlier applies.
RerunConverges ==
    [][apply.step = "next" /\ apply'.step = "idle" /\ ~apply'.partial => kept = aim]_tidalVars

\* A proposal counts as applied only once the row shows what its stream holds
\* of it (runApply's continue after a failing projection).
AppliedIsShown ==
    [][\A i \in DOMAIN apply.items :
        ~apply.items[i].applied /\ apply'.items # << >> /\ apply'.items[i].applied =>
            LET p == apply.items[i].plan
            IN  /\ shown[p.target] # NoSong
                /\ \A f \in DOMAIN p.after : shown[p.target][f] = kept[p.target][f]]_tidalVars

\* "Relinking an already-linked song needs review" (reconcile.go, Reconcile): a
\* proposal that approved itself replaces a link of the stream only where the
\* row it was planned from had fallen behind.
RelinksAreReviewed ==
    [][\A s \in SongIds :
        kept[s] # NoSong /\ kept[s].tidal # "" /\ (kept[s].tidal)' # kept[s].tidal /\ Current.plan.auto
            => shown[s].tidal # kept[s].tidal]_tidalVars

\* Plans and applies may be repeated after any failure: the streams come to the
\* same songs, the rows show them, and no link is changed behind the reviewer.
AppliesConverge == []ObservationIsWhole /\ RerunConverges /\ AppliedIsShown /\ RelinksAreReviewed
=============================================================================
