--------------------------- MODULE MCCatalogTidal ---------------------------
(***************************************************************************)
(* Instances for TLC of the catalogue's handlers and of the TIDAL sync     *)
(* that corrects the catalogue while they are stopped: what it proposes,   *)
(* how it is applied, and the client it reads the favourites with.  A      *)
(* behaviour follows one of them, and the others stay as they start.       *)
(***************************************************************************)
EXTENDS Catalog, TidalProposals, TidalApply, TidalClient

VARIABLE part

\* Titles, albums and dates.
Titles     == {<<"wave", "wave live">>}
Getz(type, edition) == [name |-> "getz", type |-> type, edition |-> edition]
Day(year)  == [year |-> year, day |-> TRUE]
Year(year) == [year |-> year, day |-> FALSE]
Favourite(id, title, artists, album, date) ==
    [id |-> id, title |-> title, artists |-> artists, date |-> date, album |-> album]
CatalogSong(id, credit, album, year, type, spotify, tidal) ==
    [id |-> id, title |-> "wave", credit |-> credit, dots |-> Cardinality(credit) > 1,
     album |-> album, date |-> NoDate, year |-> year, type |-> type, spotify |-> spotify,
     tidal |-> tidal, dup |-> ""]

\* Two songs that one favourite matches as well, two favourites of one song,
\* and one that is not in the catalogue.
Old  == <<CatalogSong("s1", {"jobim"}, Getz("single", FALSE), 1967, "album", TRUE, ""),
          CatalogSong("s2", {"jobim"}, NoAlbum, 1967, "", FALSE, "")>>
Lists == {<<Favourite("t1", "wave", {"jobim"}, Getz("", FALSE), Day(1967))>>,
          <<Favourite("t2", "wave", {"jobim"}, Getz("ep", TRUE), Day(1967)),
            Favourite("t3", "dindi", {"jobim", "getz"}, Getz("", FALSE), Year(1967))>>}
Approvals == {{}, {"addition", "fill"}}

Tracks == [t \in {"t1", "t2"} |->
    {Favourite(t, title, artists, Getz("", edition), date) :
        title \in {"wave", "wave live"}, artists \in {{}, {"jobim"}, {"jobim", "getz"}},
        edition \in BOOLEAN, date \in {Day(1967), Year(1990)}}]
Listed == [s \in {"s1", "s2"} |->
    {CatalogSong(s, credit, album, year, "", spotify, tidal) :
        credit \in {{}, {"jobim"}}, album \in {NoAlbum} \cup IF s = "s1" THEN {Getz("ep", FALSE)} ELSE {},
        year \in {1967}, spotify \in {s = "s2"}, tidal \in {"", "t1", "elsewhere"}}]

\* Two pages of each kind; the second misses a resource.
Entry(id)   == [id |-> id, type |-> "videos"]
Res(title) == [NoResource EXCEPT !.title = title, !.artists = <<"a1", "a2">>, !.albumDate = "1967"]
Included(kind) ==
    (<<kind, "i1">> :> Res("one")) @@ (<<kind, "i2">> :> Res("two"))
    @@ (<<"videos", "i3">> :> Res("three")) @@ (<<"artists", "a1">> :> Res("jobim"))
PagesOf(kind) ==
    <<[items |-> <<Entry("i1"), Entry("i2")>>, included |-> Included(kind)],
      [items |-> <<Entry("i3"), Entry("i4")>>, included |-> Included(kind)]>>
ServedPages == [kind \in {"tracks", "albums", "artists"} |-> PagesOf(kind)]

PartInit ==
    /\ part \in {"catalog", "proposals", "apply", "client"}
    /\ Init /\ TidalInit /\ ClientInit
    /\ part # "catalog" => origin = "nowhere" /\ db["artist"] = NoRow /\ \A s \in Songs : db[s] = NoRow
    /\ part # "client" => environ = 0 /\ secrets.project = 0
    /\ IF part = "proposals" THEN SeenInit ELSE seen = [tracks |-> << >>, catalog |-> << >>]
PartNext ==
    /\ UNCHANGED <<part, seen>>
    /\ \/ part = "catalog" /\ Next /\ UNCHANGED <<tidalVars, clientVars>>
       \/ part = "apply" /\ TidalNext /\ UNCHANGED <<vars, clientVars>>
       \/ part = "client" /\ ClientNext /\ UNCHANGED <<vars, tidalVars>>
PartSpec == PartInit /\ [][PartNext]_<<vars, tidalVars, clientVars, seen, part>>

Symmetry == Permutations(Calls) \cup Permutations(Songs)
=============================================================================
