----------------------------- MODULE TidalClient -----------------------------
(***************************************************************************)
(* The TIDAL client of the sync command: the refresh token the server      *)
(* rotates and the secret store keeps, the login that obtains one, and the *)
(* pages of favourites requested with the access token it is exchanged     *)
(* for.  One command runs at a time; it may die, answers may be lost, and  *)
(* the store may fail to keep what it is given.                            *)
(***************************************************************************)
EXTENDS Integers, Sequences, FiniteSets, FiniteSetsExt, SequencesExt

CONSTANTS Served,     \* kind -> pages, each with its items and what it includes
          Limits,     \* the -limit flag, 0 for none
          MaxRetries, \* doRequest's maxRetries (5)
          MaxTokens   \* bound: refresh tokens the server gives out

ASSUME TidalClientAssumption ==
    Limits \subseteq Nat /\ MaxRetries \in Nat /\ MaxTokens \in Nat \ {0}
\* There is a first page of each kind, and pages and their items are lists.
ASSUME TidalPagesAssumption ==
    \A kind \in DOMAIN Served :
        LET pages == Served[kind]
        IN  /\ pages # << >> /\ pages \in Seq({pages[p] : p \in DOMAIN pages})
            /\ \A p \in DOMAIN pages : pages[p].items \in Seq({pages[p].items[i] : i \in DOMAIN pages[p].items})

VARIABLES honoured,  \* the refresh token the server honours; tokens are numbered
          secrets,   \* where fnox finds the token: the project's file before the global one
          environ,   \* the token in the environment, 0 for none
          command,   \* what runs: phase, tokens and place in the pages
          spoilt     \* an answer was lost, a save failed, or a death came between the two

clientVars == <<honoured, secrets, environ, command, spoilt>>

Resting == [phase |-> "idle", held |-> 0, new |-> 0, kind |-> "tracks", limit |-> 0,
            page |-> 1, attempt |-> 0, got |-> << >>]

ClientInit ==
    /\ honoured = 1 /\ environ \in {0, 1} /\ spoilt = FALSE /\ command = Resting
    /\ secrets \in {[global |-> 1, project |-> 0], [global |-> 0, project |-> 1]}

\* The environment first, then `fnox get`.
Fnox(at)      == IF at.project # 0 THEN at.project ELSE at.global
ResolveSecret == IF environ # 0 THEN environ ELSE Fnox(secrets)

\* Mutant: the secret is not read back.
SaveUnread(token, sets, removes, reads) ==
    [secrets |-> IF ~sets THEN secrets
                 ELSE [global |-> token, project |-> IF removes THEN 0 ELSE secrets.project],
     ok |-> sets]
\* SaveSecret writes the global entry, removes an older one of the project, and
\* reads the secret back; each of the three may fail, the second unnoticed.
SaveSecret(token, sets, removes, reads) ==
    LET at == IF ~sets THEN secrets
              ELSE [global |-> token, project |-> IF removes THEN 0 ELSE secrets.project]
    IN  [secrets |-> at, ok |-> sets /\ reads /\ Fnox(at) = token]
Ends(phase) == command' = [command EXCEPT !.phase = phase, !.held = 0, !.new = 0]

-----------------------------------------------------------------------------
(* Tokens.                                                                 *)

\* runPlan resolves the secret and starts to refresh.
StartPlan ==
    /\ command.phase \in {"idle", "fetched", "failed"} /\ UNCHANGED <<honoured, secrets, environ, spoilt>>
    /\ \E kind \in DOMAIN Served, limit \in Limits :
        command' = [Resting EXCEPT !.held = ResolveSecret, !.kind = kind, !.limit = limit,
                        !.phase = IF ResolveSecret = 0 THEN "failed" ELSE "refresh"]

\* RefreshAccessToken: refused, or answered with the same token or the next,
\* the answer perhaps lost on its way.
RefreshRejected ==
    command.phase = "refresh" /\ Ends("failed") /\ UNCHANGED <<honoured, secrets, environ, spoilt>>
RefreshAnswered ==
    /\ command.phase = "refresh" /\ command.held = honoured /\ UNCHANGED <<secrets, environ, spoilt>>
    /\ \E rotates \in BOOLEAN :
        /\ rotates => honoured < MaxTokens
        /\ honoured' = honoured + (IF rotates THEN 1 ELSE 0)
        /\ command' = [command EXCEPT !.new = honoured', !.phase = IF rotates THEN "persist" ELSE "request"]
RefreshLost ==
    /\ command.phase = "refresh" /\ command.held = honoured /\ honoured < MaxTokens
    /\ honoured' = honoured + 1 /\ spoilt' = TRUE /\ Ends("failed") /\ UNCHANGED <<secrets, environ>>

\* "never drop the new one": the run goes on with the rotated token whether or
\* not it could be stored.
KeepToken(ok)   == command.new
Persist ==
    /\ command.phase = "persist" /\ UNCHANGED <<honoured, environ>>
    /\ \E sets, removes, reads \in BOOLEAN :
        LET saved == SaveSecret(command.new, sets, removes, reads)
        IN  /\ secrets' = saved.secrets
            /\ spoilt' = ~saved.ok
            /\ command' = [command EXCEPT !.held = KeepToken(saved.ok), !.phase = "request"]

\* AuthorizeLoopback: the first callback decides, the code is exchanged, and a
\* refresh token that comes with it is stored.
Login ==
    /\ command.phase \in {"idle", "fetched", "failed"} /\ UNCHANGED environ
    /\ \E callback \in {"denied", "state mismatch", "no code", "code"}, exchanged, given \in BOOLEAN,
          sets, removes, reads \in BOOLEAN :
        IF callback = "code" /\ exchanged /\ given
        THEN /\ honoured < MaxTokens /\ honoured' = honoured + 1
             /\ LET saved == SaveSecret(honoured', sets, removes, reads)
                IN  secrets' = saved.secrets /\ spoilt' = ~saved.ok
             /\ command' = Resting
        ELSE command' = Resting /\ UNCHANGED <<honoured, secrets, spoilt>>

CommandDies ==
    /\ command.phase \in {"refresh", "persist", "request"} /\ Ends("failed")
    /\ spoilt' = (spoilt \/ command.phase = "persist")
    /\ UNCHANGED <<honoured, secrets, environ>>

-----------------------------------------------------------------------------
(* Requests.                                                               *)

\* A favourite is listed by its id and described by an included resource: of
\* its kind, or, for a track, of the type the list gives it.
NoResource == [title |-> "", artists |-> << >>, date |-> "", albumDate |-> ""]
ResourceOf(kind, item, included) ==
    CASE <<kind, item.id>> \in DOMAIN included -> included[<<kind, item.id>>]
      [] kind = "tracks" /\ <<kind, item.id>> \notin DOMAIN included
         /\ <<item.type, item.id>> \in DOMAIN included -> included[<<item.type, item.id>>]
      [] OTHER -> NoResource
\* Artists the page does not include, or includes without a name, are left out.
ExtractArtistNames(res, included) ==
    LET named(a) == <<"artists", a>> \in DOMAIN included /\ included[<<"artists", a>>].title # ""
        kept     == SelectSeq(res.artists, named)
    IN  [i \in DOMAIN kept |-> included[<<"artists", kept[i]>>].title]
ParseObservedTrack(item, res, included) ==
    [id |-> item.id, title |-> res.title, artists |-> ExtractArtistNames(res, included),
     date |-> IF res.date # "" THEN res.date ELSE res.albumDate]
ObservedAlbum(item, res, included) ==
    [id |-> item.id, title |-> res.title, artists |-> ExtractArtistNames(res, included),
     date |-> res.date]
ObservedArtist(item, res) == [id |-> item.id, title |-> res.title]
Observed(kind, item, included) ==
    LET res == ResourceOf(kind, item, included)
    IN  CASE kind = "tracks"  -> ParseObservedTrack(item, res, included)
          [] kind = "albums"  -> ObservedAlbum(item, res, included)
          [] kind = "artists" -> ObservedArtist(item, res)

\* A page read: its items follow the earlier ones, cut at the limit.
AtLimit(all, limit) == limit > 0 /\ Len(all) >= limit
Cut(all, limit)     == IF AtLimit(all, limit) THEN SubSeq(all, 1, limit) ELSE all
ReadPage ==
    LET pages == Served[command.kind]
        page  == pages[command.page]
        read  == [i \in DOMAIN page.items |-> Observed(command.kind, page.items[i], page.included)]
        all   == command.got \o read
    IN  IF AtLimit(all, command.limit) \/ command.page = Len(pages)
        THEN command' = [Resting EXCEPT !.phase = "fetched", !.kind = command.kind,
                            !.limit = command.limit, !.got = Cut(all, command.limit)]
        ELSE command' = [command EXCEPT !.page = @ + 1, !.attempt = 0, !.got = all]

FetchFavoriteTracks  == command.kind = "tracks" /\ ReadPage
FetchFavoriteAlbums  == command.kind = "albums" /\ ReadPage
FetchFavoriteArtists == command.kind = "artists" /\ ReadPage

\* doRequest: a page, a token to refresh, a wait, or the end; the tries of one
\* page are counted together.
Retries(phase) == command' = [command EXCEPT !.phase = phase, !.attempt = @ + 1]
DoRequest ==
    /\ command.phase = "request" /\ UNCHANGED <<honoured, secrets, environ, spoilt>>
    /\ IF command.attempt > MaxRetries THEN Ends("failed")
       ELSE \/ FetchFavoriteTracks \/ FetchFavoriteAlbums \/ FetchFavoriteArtists
            \/ Retries("refresh")
            \/ Retries("request")
            \/ Ends("failed")

ClientNext == StartPlan \/ RefreshRejected \/ RefreshAnswered \/ RefreshLost \/ Persist \/ Login
              \/ CommandDies \/ DoRequest
ClientSpec == ClientInit /\ [][ClientNext]_clientVars

-----------------------------------------------------------------------------
\* While a command requests pages it holds the token the server honours, so
\* that the next refresh succeeds, whether or not the secret store has it
\* (RefreshAccessToken's "never drop the new one").
RunKeepsToken == command.phase = "request" => command.held = honoured

\* Unless an answer was lost, a save was reported to have failed, or the
\* command died between the two, the next command finds the token the server
\* honours (SaveSecret; an exported TIDAL_REFRESH_TOKEN would hide it).
NextRunFindsToken == ~spoilt /\ environ = 0 /\ command.phase # "persist" => ResolveSecret = honoured

\* What a fetch returns is what was listed, from the first, in order and up to
\* the limit, however its requests were repeated (FetchFavoriteTracks).
FavouritesAreWhole ==
    command.phase = "fetched" =>
        LET pages  == Served[command.kind]
            listed == FlattenSeq([i \in DOMAIN pages |->
                        [j \in DOMAIN pages[i].items |-> pages[i].items[j].id]])
        IN  [i \in DOMAIN command.got |-> command.got[i].id] =
                IF command.limit = 0 THEN listed
                ELSE SubSeq(listed, 1, Min({command.limit, Len(listed)}))

\* A command keeps the rotating token it needs, leaves it to the next one, and
\* reads its lists whole.
ClientIsSound == RunKeepsToken /\ NextRunFindsToken /\ FavouritesAreWhole
=============================================================================
