-------------------------- MODULE MCScrapeFetching --------------------------
(***************************************************************************)
(* Instances for TLC of ScrapeLifecycle, whose workers take a fetch for    *)
(* one step, and of the modules that take that step apart: the service and *)
(* the client, the shared browser, a list of artists, and what the         *)
(* providers answer.  A behaviour follows one of them, and the others stay *)
(* as they start.                                                          *)
(***************************************************************************)
EXTENDS ScrapeLifecycle, LocalBrowser, Fetching, FetchAll, ProviderAnswers, TLC

VARIABLE part

RegistryOfTwo == <<"browserbase", "scraperapi">>
FourArtists   == <<"a1", "a2", "a3", "a4">>

PartInit ==
    /\ part \in {"refresh", "browser", "fetch", "list", "answer"}
    /\ Init /\ BrowserInit /\ FetchInit /\ AllInit
    /\ part # "refresh" => hasFetcher
    /\ part # "list" => way = "pool"
    /\ sample \in IF part = "answer" THEN Samples ELSE {[kind |-> "none"]}
PartNext ==
    /\ UNCHANGED <<part, sample>>
    /\ \/ part = "refresh" /\ Next /\ UNCHANGED <<browserVars, fetchVars, allVars>>
       \/ part = "browser" /\ BrowserNext /\ UNCHANGED <<vars, fetchVars, allVars>>
       \/ part = "fetch" /\ FetchNext /\ UNCHANGED <<vars, browserVars, allVars>>
       \/ part = "list" /\ AllNext /\ UNCHANGED <<vars, browserVars, fetchVars>>
PartSpec ==
    PartInit /\ [][PartNext]_<<vars, browserVars, fetchVars, allVars, sample, part>>

Symmetry == Permutations(Requests) \cup Permutations(Workers)
=============================================================================
