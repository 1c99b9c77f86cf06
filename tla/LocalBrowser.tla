---------------------------- MODULE LocalBrowser ----------------------------
(***************************************************************************)
(* The shared headless browser of spotify.Client: fetches look it up,      *)
(* launch it once among them, open pages in it, and retire it when it is   *)
(* dead or slow, while a reaper closes a retired one after its last page   *)
(* or its grace.  Launch n is the n-th browser, and the channel that its   *)
(* waiters wait on is closed when the launch under way is another.         *)
(***************************************************************************)
EXTENDS Naturals, FiniteSets

CONSTANTS Fetches,
          MaxLaunches, \* bound: browsers launched
          MaxDeaths,   \* bound: browser processes that die
          MaxGraces    \* bound: retired browsers whose pages outlive the grace

ASSUME BrowserBounds == {MaxLaunches, MaxDeaths, MaxGraces} \subseteq Nat

VARIABLES local,     \* Client.local: the shared browser, or 0
          localInit, \* Client.localInit: the launch under way, or 0
          launches,  \* launches begun
          browser,   \* per launch: what a localBrowser keeps
          fetch,     \* per caller: where fetchViaLocalHeadless is
          graces     \* graces that have run out

browserVars == <<local, localInit, launches, browser, fetch, graces>>

Browsers == 1..MaxLaunches
Unborn   == [born |-> FALSE, alive |-> FALSE, retired |-> FALSE, closed |-> FALSE,
             activePages |-> {}, reaped |-> FALSE]
Idle     == [pc |-> "idle", lb |-> 0, again |-> FALSE]

BrowserInit == /\ local = 0 /\ localInit = 0 /\ launches = 0 /\ graces = 0
               /\ browser = [b \in Browsers |-> Unborn] /\ fetch = [c \in Fetches |-> Idle]

In(c, pc)   == fetch[c].pc = pc
Goes(c, pc) == fetch' = [fetch EXCEPT ![c].pc = pc]
Ends(c)     == fetch' = [fetch EXCEPT ![c] = Idle]
Holds(c, pc, b) == fetch' = [fetch EXCEPT ![c].pc = pc, ![c].lb = b]
Born        == [Unborn EXCEPT !.born = TRUE, !.alive = TRUE]
-----------------------------------------------------------------------------
(* getOrCreateBrowser.                                                     *)

FetchViaLocalHeadless(c) ==
    /\ In(c, "idle") /\ Goes(c, "look") /\ UNCHANGED <<local, localInit, launches, browser, graces>>

\* tryExistingBrowser reads the candidate, pings it without the lock, and then
\* makes sure that it is still the shared one.
Look(c) ==
    /\ In(c, "look") /\ UNCHANGED <<local, localInit, launches, browser, graces>>
    /\ IF local = 0 THEN Goes(c, "wait") ELSE Holds(c, "ping", local)
Ping(c) ==
    LET b == browser[fetch[c].lb]
    IN  /\ In(c, "ping") /\ UNCHANGED <<local, localInit, launches, browser, graces>>
        /\ Goes(c, IF b.alive /\ ~b.closed /\ ~b.retired THEN "confirm" ELSE "drop")
Confirm(c) ==
    /\ In(c, "confirm") /\ UNCHANGED <<local, localInit, launches, browser, graces>>
    /\ Goes(c, IF local = fetch[c].lb /\ ~browser[local].retired THEN "got" ELSE "wait")

\* Only the browser that is still shared is taken away, by one of its callers.
Unshared(b) == local' = IF local = b THEN 0 ELSE local

\* markRetired and closeRetiredBrowserAsync.
Reaped(b) == [browser[b] EXCEPT !.retired = TRUE, !.reaped = TRUE]
Drop(c) ==
    LET b == fetch[c].lb
    IN  /\ In(c, "drop") /\ Goes(c, "wait") /\ Unshared(b)
        /\ browser' = IF local = b THEN [browser EXCEPT ![b] = Reaped(b)] ELSE browser
        /\ UNCHANGED <<localInit, launches, graces>>

\* waitForInit waits for the launch it has seen, or until its context ends.
WaitForInit(c) ==
    /\ In(c, "wait") /\ UNCHANGED <<local, localInit, launches, browser, graces>>
    /\ IF localInit = 0 THEN Goes(c, "launch") ELSE Holds(c, "waiting", localInit)
Waited(c) ==
    /\ In(c, "waiting") /\ UNCHANGED <<local, localInit, launches, browser, graces>>
    /\ \/ localInit # fetch[c].lb /\ Goes(c, "look")
       \/ Ends(c)

\* launchNewBrowser: another caller's browser, another caller's launch, or one
\* of its own.
LaunchNewBrowser(c) ==
    /\ In(c, "launch") /\ UNCHANGED <<local, browser, graces>>
    /\ \/ /\ local # 0 /\ Holds(c, "got", local) /\ UNCHANGED <<localInit, launches>>
       \/ /\ local = 0 /\ localInit # 0 /\ Holds(c, "peer", localInit)
          /\ UNCHANGED <<localInit, launches>>
       \/ /\ local = 0 /\ localInit = 0 /\ launches < MaxLaunches
          /\ launches' = launches + 1 /\ localInit' = launches' /\ Holds(c, "launching", launches')
Peered(c) ==
    /\ In(c, "peer") /\ UNCHANGED <<local, localInit, launches, browser, graces>>
    /\ \/ /\ localInit # fetch[c].lb
          /\ IF local = 0 THEN Goes(c, "look") ELSE Holds(c, "got", local)
       \/ Ends(c)

\* newLocalBrowser, and what the launch defers.
Launched(c) ==
    /\ In(c, "launching")
    /\ \/ Goes(c, "share") /\ browser' = [browser EXCEPT ![fetch[c].lb] = Born]
       \/ Goes(c, "failed") /\ UNCHANGED browser
    /\ UNCHANGED <<local, localInit, launches, graces>>
Share(c) ==
    /\ localInit' = 0 /\ UNCHANGED <<launches, browser, graces>>
    /\ \/ In(c, "share") /\ local' = fetch[c].lb /\ Goes(c, "got")
       \/ In(c, "failed") /\ Ends(c) /\ UNCHANGED local
-----------------------------------------------------------------------------
(* The fetch.                                                              *)

\* isUnavailable.
IsUnavailable(b) == browser[b].closed \/ browser[b].retired

\* fetchViaLocalHeadlessOnce: a page, or one more browser, once.
TryAcquirePage(c) ==
    LET b == fetch[c].lb
    IN  /\ In(c, "got") /\ UNCHANGED <<local, localInit, launches, graces>>
        /\ \/ /\ ~IsUnavailable(b) /\ Goes(c, "page")
              /\ browser' = [browser EXCEPT ![b].activePages = @ \cup {c}]
           \/ /\ IsUnavailable(b) /\ UNCHANGED browser
              /\ IF fetch[c].again THEN Ends(c)
                 ELSE fetch' = [fetch EXCEPT ![c] = [Idle EXCEPT !.pc = "look", !.again = TRUE]]

\* A result, an error, after whose setup a dead browser is evicted, or a timeout.
PageClosed(b, c) == [browser[b] EXCEPT !.activePages = @ \ {c}]
ReleasePage(c) ==
    LET b == fetch[c].lb
    IN  /\ In(c, "page") /\ browser' = [browser EXCEPT ![b] = PageClosed(b, c)]
        /\ Ends(c) \/ Goes(c, "recycle")
        /\ UNCHANGED <<local, localInit, launches, graces>>
EvictDeadBrowser(c) ==
    LET b == fetch[c].lb
    IN  /\ In(c, "page") /\ ~browser[b].alive /\ local = b /\ Unshared(b)
        /\ browser' = [browser EXCEPT ![b] = Reaped(b)]
        /\ UNCHANGED <<localInit, launches, fetch, graces>>

\* recycleBrowser retires it first, and takes it away then.
MarkRetired(c) ==
    /\ In(c, "recycle") /\ Goes(c, "recycled")
    /\ browser' = [browser EXCEPT ![fetch[c].lb].retired = TRUE]
    /\ UNCHANGED <<local, localInit, launches, graces>>
RecycleBrowser(c) ==
    LET b == fetch[c].lb
    IN  /\ In(c, "recycled") /\ Goes(c, "dedicated") /\ Unshared(b)
        /\ browser' = IF local = b THEN [browser EXCEPT ![b] = Reaped(b)] ELSE browser
        /\ UNCHANGED <<localInit, launches, graces>>

\* fetchViaDedicatedLocalHeadless closes the browser it launches.
Dedicated(c) ==
    /\ In(c, "dedicated") /\ UNCHANGED <<local, localInit, graces>>
    /\ \/ /\ launches < MaxLaunches /\ launches' = launches + 1 /\ Holds(c, "own", launches')
          /\ browser' = [browser EXCEPT ![launches'] = Born]
       \/ Ends(c) /\ UNCHANGED <<launches, browser>>
CloseDedicated(c) ==
    /\ In(c, "own") /\ Ends(c) /\ browser' = [browser EXCEPT ![fetch[c].lb].closed = TRUE]
    /\ UNCHANGED <<local, localInit, launches, graces>>
-----------------------------------------------------------------------------
(* The reaper, and the process.                                            *)

\* Mutant: the reaper does not wait for the pages.
AtOnce(b) == UNCHANGED graces

\* waitForRetirement: no pages are left, or the grace runs out.
Retirement(b) == \/ browser[b].activePages = {} /\ UNCHANGED graces
                 \/ graces < MaxGraces /\ graces' = graces + 1
Reap(b) ==
    /\ browser[b].reaped /\ ~browser[b].closed /\ Retirement(b)
    /\ browser' = [browser EXCEPT ![b].closed = TRUE]
    /\ UNCHANGED <<local, localInit, launches, fetch>>

Deaths == Cardinality({b \in Browsers : browser[b].born /\ ~browser[b].alive})
Dies(b) ==
    /\ browser[b].alive /\ Deaths < MaxDeaths /\ browser' = [browser EXCEPT ![b].alive = FALSE]
    /\ UNCHANGED <<local, localInit, launches, fetch, graces>>

FetchStep(c) == \/ FetchViaLocalHeadless(c) \/ Look(c) \/ Ping(c) \/ Confirm(c) \/ Drop(c)
                \/ WaitForInit(c) \/ Waited(c) \/ LaunchNewBrowser(c) \/ Peered(c) \/ Launched(c)
                \/ Share(c) \/ TryAcquirePage(c) \/ ReleasePage(c) \/ EvictDeadBrowser(c)
                \/ MarkRetired(c) \/ RecycleBrowser(c) \/ Dedicated(c) \/ CloseDedicated(c)
BrowserNext == (\E c \in Fetches : FetchStep(c)) \/ \E b \in Browsers : Reap(b) \/ Dies(b)
BrowserSpec == BrowserInit /\ [][BrowserNext]_browserVars
-----------------------------------------------------------------------------
\* A browser nobody can close is a leaked process: every open one is shared, has
\* its reaper, or is in the hands of the caller that launched it.
EveryBrowserIsOwned ==
    \A b \in Browsers : browser[b].born /\ ~browser[b].closed =>
        \/ b = local \/ browser[b].reaped
        \/ \E c \in Fetches : fetch[c].lb = b /\ fetch[c].pc \in {"share", "own"}

\* The callers launch one shared browser between them, and what is shared has
\* not been closed.
OneSharedBrowser ==
    /\ Cardinality({c \in Fetches : fetch[c].pc \in {"launching", "share"}}) <= 1
    /\ localInit # 0 => local = 0
    /\ local # 0 => browser[local].born /\ ~browser[local].closed

\* A browser is closed under a page only when its grace has run out.
PagesOutliveOnlyTheGrace ==
    Cardinality({b \in Browsers : browser[b].closed /\ browser[b].activePages # {}}) <= graces

\* No browser is leaked, launched twice or closed under a page in use
\* (getBrowser, retireBrowser and its reaper).
BrowsersAreAccounted == EveryBrowserIsOwned /\ OneSharedBrowser /\ PagesOutliveOnlyTheGrace
=============================================================================
