------------------------------ MODULE Fetching ------------------------------
(***************************************************************************)
(* fetcher.Service and spotify.Client: a call asks one provider, or each   *)
(* enabled one in turn, retries with a backoff, holds a slot of the        *)
(* provider while it asks, and keeps out of a provider that has throttled  *)
(* it until the cooldown ends.  Cooldowns and the ScraperAPI streak are    *)
(* atomics that are loaded, compared and swapped without a lock.  An entry *)
(* of Registry is a provider that is configured; a backoff is one step.    *)
(***************************************************************************)
EXTENDS Integers, Sequences, FiniteSets

CONSTANTS Callers, Registry, Slots, FetchRetries, Profiles,
          MaxClock,  \* bound: moments a request can start or end at
          MaxDelay,  \* bound: length of a cooldown
          MaxStreak  \* bound: throttled ScraperAPI requests in a row

ASSUME FetchBounds == Slots \in Nat \ {0} /\ {FetchRetries, Profiles, MaxClock, MaxDelay} \subseteq Nat

VARIABLES call,   \* per caller: the fetchWithRetry it is in
          slots,  \* per provider: the callers in its semaphore
          until,  \* per provider: scraperAPICooldownUntil, browserbaseCooldownUntil
          streak, \* scraperAPIRateLimitStreak
          clock

fetchVars == <<call, slots, until, streak, clock>>

Providers == {Registry[i] : i \in DOMAIN Registry}
Cooled    == {"scraperapi", "browserbase"}

\* buildProviderTable always holds the page that needs no key.
ASSUME FetchRegistry == Registry \in Seq(STRING) /\ Registry # <<>> /\ "any" \notin Providers

NoCall   == [pc |-> "idle", asked |-> "any", attempt |-> 1, turn |-> 1, profile |-> 1,
              at |-> 0, want |-> 0, seen |-> 0, outcome |-> "ok", refused |-> FALSE]

FetchInit == /\ call = [c \in Callers |-> NoCall] /\ slots = [p \in Providers |-> {}]
             /\ until = [p \in Providers |-> 0] /\ streak = 0 /\ clock = 0

Is(c, pc)   == call[c].pc = pc
Turns(c)    == IF call[c].asked = "any" THEN Registry ELSE <<call[c].asked>>
Provider(c) == Turns(c)[call[c].turn]
Moves(c, pc)   == call' = [call EXCEPT ![c].pc = pc]
-----------------------------------------------------------------------------
(* A call of the service, and its attempts.                                *)

FetchOne(c) ==
    /\ Is(c, "idle")
    /\ \E asked \in Providers \cup {"any"} :
           call' = [call EXCEPT ![c] = [NoCall EXCEPT !.pc = "slot", !.asked = asked]]
    /\ UNCHANGED <<slots, until, streak, clock>>

\* shouldStopRetryOnTimeout: the error of every provider in turn is a text.
ShouldStopRetryOnTimeout(r) == r.outcome = "timeout" /\ r.asked \in {"local", "scraperapi"}

\* Mutant: a provider's refusal is an error like another.
StopsOnTimeout(r) == r.outcome = "cancelled" \/ ShouldStopRetryOnTimeout(r)

\* fetchWithRetry's reasons not to try again.
Stops(r) == r.outcome \in {"quota", "limited", "cancelled"} \/ ShouldStopRetryOnTimeout(r)

\* Its context can end before the next attempt: a deadline, or a shutdown.
FetchWithRetry(c) ==
    LET r == call[c]
    IN  /\ Is(c, "tried")
        /\ \/ call' = [call EXCEPT ![c] = NoCall]
           \/ /\ r.outcome # "ok" /\ ~Stops(r) /\ r.attempt <= FetchRetries
              /\ call' = [call EXCEPT ![c].pc = "slot", ![c].attempt = @ + 1, ![c].turn = 1,
                             ![c].outcome = "ok"]
        /\ UNCHANGED <<slots, until, streak, clock>>
-----------------------------------------------------------------------------
(* The provider table.                                                     *)

\* fetchWithSemaphore gives the slot back whatever the fetch returns.
SlotReturned(c) == [slots EXCEPT ![Provider(c)] = @ \ {c}]
SettlesAs(c, outcome) ==
    /\ slots' = SlotReturned(c)
    /\ call' = [call EXCEPT ![c].pc = "asked", ![c].outcome = outcome,
                   ![c].profile = 1, ![c].at = 0, ![c].seen = 0,
                   ![c].refused = @ \/ (call[c].asked # "any" /\ outcome \in {"quota", "limited"})]

\* Its context, or the provider's own, can end while it waits for a slot.
FetchWithSemaphore(c) ==
    /\ Is(c, "slot") /\ UNCHANGED <<until, streak, clock>>
    /\ \/ /\ Cardinality(slots[Provider(c)]) < Slots
          /\ call' = [call EXCEPT ![c].pc = "begin", ![c].want = 0]
          /\ slots' = [slots EXCEPT ![Provider(c)] = @ \cup {c}]
       \/ SettlesAs(c, "timeout")

\* tryEachProvider goes on to the next one, and flattens what they all said.
TryEachProvider(c) ==
    LET r == call[c]
        Tried(outcome) == call' = [call EXCEPT ![c].pc = "tried", ![c].outcome = outcome]
    IN  /\ Is(c, "asked") /\ UNCHANGED <<slots, until, streak, clock>>
        /\ IF r.asked # "any" \/ r.outcome = "ok" THEN Tried(r.outcome)
           ELSE \/ Tried("cancelled")
                \/ r.turn = Len(Registry) /\ Tried("failed")
                \/ /\ r.turn < Len(Registry)
                   /\ call' = [call EXCEPT ![c].pc = "slot", ![c].turn = @ + 1, ![c].outcome = "ok"]
-----------------------------------------------------------------------------
(* The requests.                                                           *)

CooldownRemaining(p) == p \in Cooled /\ until[p] > clock
BeginFetch(c) ==
    /\ Is(c, "begin") /\ UNCHANGED <<until, streak, clock>>
    /\ IF CooldownRemaining(Provider(c)) THEN SettlesAs(c, "limited")
       ELSE /\ call' = [call EXCEPT ![c].pc = "sent", ![c].at = clock]
            /\ UNCHANGED slots

\* A status or a page that the provider refuses, fails or answers with.
Refused(c) ==
    /\ Is(c, "sent") /\ UNCHANGED <<until, streak, clock>>
    /\ \E outcome \in {"quota", "timeout", "failed"} : SettlesAs(c, outcome)

\* tryScraperAPIProfiles asks again, in another way, after a transient failure.
TryScraperAPIProfiles(c) ==
    /\ Is(c, "sent") /\ Provider(c) = "scraperapi" /\ call[c].profile < Profiles
    /\ call' = [call EXCEPT ![c].profile = @ + 1] /\ UNCHANGED <<slots, until, streak, clock>>

\* Too Many Requests: the delay is counted from when the answer is read for
\* ScraperAPI, and from before the request for Browserbase.
RateLimited(c) ==
    LET p    == Provider(c)
        from == IF p = "scraperapi" THEN clock ELSE call[c].at
    IN  /\ Is(c, "sent") /\ UNCHANGED <<until, clock>>
        /\ \/ /\ p \notin Cooled /\ SettlesAs(c, "limited") /\ UNCHANGED streak
           \/ /\ p \in Cooled /\ UNCHANGED slots
              /\ \E d \in 1..MaxDelay : call' = [call EXCEPT ![c].pc = "mark", ![c].want = from + d]
              /\ IF p = "scraperapi" THEN streak < MaxStreak /\ streak' = streak + 1
                 ELSE UNCHANGED streak
Answered(c) ==
    /\ Is(c, "sent") /\ UNCHANGED <<until, streak, clock>>
    /\ \/ Provider(c) \notin Cooled /\ SettlesAs(c, "ok")
       \/ /\ Provider(c) \in Cooled /\ UNCHANGED slots
          /\ call' = [call EXCEPT ![c].pc = "clear",
                         ![c].at = IF Provider(c) = "scraperapi" THEN clock ELSE @]
-----------------------------------------------------------------------------
(* The atomics.                                                            *)

Loads(c, value, pc) == call' = [call EXCEPT ![c].seen = value, ![c].pc = pc]

\* scraperAPICooldownUntilCAS and markBrowserbaseCooldown.
MarkLoad(c) ==
    /\ Is(c, "mark") /\ UNCHANGED <<until, streak, clock>>
    /\ IF call[c].want <= until[Provider(c)] THEN SettlesAs(c, "limited")
       ELSE Loads(c, until[Provider(c)], "markSwap") /\ UNCHANGED slots

\* Mutant: the deadline is stored, not swapped.
MarkStore(c) ==
    /\ Is(c, "markSwap") /\ UNCHANGED <<streak, clock>> /\ SettlesAs(c, "limited")
    /\ until' = [until EXCEPT ![Provider(c)] = call[c].want]

MarkSwap(c) ==
    /\ Is(c, "markSwap") /\ UNCHANGED <<streak, clock>>
    /\ \/ /\ until[Provider(c)] = call[c].seen /\ SettlesAs(c, "limited")
          /\ until' = [until EXCEPT ![Provider(c)] = call[c].want]
       \/ /\ until[Provider(c)] # call[c].seen /\ Moves(c, "mark") /\ UNCHANGED <<slots, until>>

\* clearScraperAPICooldown and clearBrowserbaseCooldown.
ClearLoad(c) ==
    /\ Is(c, "clear") /\ UNCHANGED <<slots, until, streak, clock>>
    /\ IF call[c].at < until[Provider(c)] THEN Moves(c, "relax")
       ELSE Loads(c, until[Provider(c)], "clearSwap")
ClearSwap(c) ==
    /\ Is(c, "clearSwap") /\ UNCHANGED <<slots, streak, clock>>
    /\ \/ /\ until[Provider(c)] = call[c].seen /\ Moves(c, "relax")
          /\ until' = [until EXCEPT ![Provider(c)] = call[c].at]
       \/ until[Provider(c)] # call[c].seen /\ Moves(c, "clear") /\ UNCHANGED until

\* markScraperAPISuccess, or the pages of the Browserbase session.
RelaxLoad(c) ==
    /\ Is(c, "relax") /\ UNCHANGED <<until, streak, clock>>
    /\ \/ Provider(c) = "browserbase" /\ \E o \in {"ok", "failed", "timeout"} : SettlesAs(c, o)
       \/ Provider(c) = "scraperapi" /\ streak = 0 /\ SettlesAs(c, "ok")
       \/ Provider(c) = "scraperapi" /\ streak > 0 /\ Loads(c, streak, "relaxSwap") /\ UNCHANGED slots

RelaxSwap(c) ==
    /\ Is(c, "relaxSwap") /\ UNCHANGED <<until, clock>>
    /\ \/ streak = call[c].seen /\ streak' = streak - 1 /\ SettlesAs(c, "ok")
       \/ streak # call[c].seen /\ Moves(c, "relax") /\ UNCHANGED <<slots, streak>>

Passes == clock < MaxClock /\ clock' = clock + 1 /\ UNCHANGED <<call, slots, until, streak>>

CallStep(c) == \/ FetchOne(c) \/ FetchWithRetry(c) \/ FetchWithSemaphore(c) \/ TryEachProvider(c)
               \/ BeginFetch(c) \/ Refused(c) \/ TryScraperAPIProfiles(c)
               \/ RateLimited(c) \/ Answered(c) \/ MarkLoad(c) \/ MarkSwap(c) \/ ClearLoad(c)
               \/ ClearSwap(c) \/ RelaxLoad(c) \/ RelaxSwap(c)
FetchNext == (\E c \in Callers : CallStep(c)) \/ Passes
FetchSpec == FetchInit /\ [][FetchNext]_fetchVars
-----------------------------------------------------------------------------
\* A provider's slots are held by the calls that are inside it, and by no other:
\* no way out of a fetch keeps one.
Inside == {"begin", "sent", "mark", "markSwap", "clear", "clearSwap", "relax", "relaxSwap"}
SlotsReturn == \A p \in Providers :
    slots[p] = {c \in Callers : call[c].pc \in Inside /\ Provider(c) = p}

\* A call that names its provider does not go back to it within the call once it
\* is out of quota or throttles: the message is left to another delivery.
RefusalIsFinal == \A c \in Callers :
    Is(c, "sent") => ~call[c].refused

\* A delay that a provider has asked for is in force when the call that was
\* throttled returns, however many calls set and clear the deadline.
DelayIsKept == \A c \in Callers :
    Is(c, "asked") /\ call[c].outcome = "limited" => call[c].want <= until[Provider(c)]

\* No success and no shorter delay moves a cooldown back.
CooldownNeverFalls == [][\A p \in Providers : until'[p] >= until[p]]_fetchVars

\* No throttled or successful request is lost from the streak, and none is
\* counted twice.
StreakCountsEach == [][streak' - streak \in {-1, 0, 1} /\ streak' >= 0]_fetchVars

\* A request holds its slot exactly as long as it runs, is not sent again once
\* it has been refused, and its provider's delay is in force when it returns
\* (withProvider, fetchWithRetry, markRateLimited).
FetchesAreSound == SlotsReturn /\ RefusalIsFinal /\ DelayIsKept

\* Calls that finish side by side lose no delay and no count of each other's
\* (the compare-and-swap loops of the adaptive cooldown).
CooldownIsExact == CooldownNeverFalls /\ StreakCountsEach
=============================================================================
