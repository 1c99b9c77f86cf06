-------------------------- MODULE ProviderAnswers --------------------------
(***************************************************************************)
(* What the providers' answers mean: the count that each reader finds in a *)
(* page, the error that each status stands for, how long a throttled       *)
(* provider is left alone, and what the quota checks say of an account.    *)
(* A page keeps the number in its data, the counts it shows in order and   *)
(* whether it is an artist's; a shown count is a mantissa in tenths and a  *)
(* suffix.  Money is in cents and memory in megabytes.                     *)
(***************************************************************************)
EXTENDS Integers, Sequences, FiniteSets

VARIABLE sample \* a page, a streak or an account

Missing == -1
Failure == -2
-----------------------------------------------------------------------------
(* Pages.                                                                  *)

Shown == [tenths : {0, 15, 20}, suffix : {"", "K", "M"}]
Pages == [kind : {"page"}, json : {Missing, 0, 1502}, union : BOOLEAN, found : BOOLEAN,
          texts : UNION {[1..n -> Shown] : n \in 0..2}]

\* math.Round of the mantissa without a suffix.
ParseListenerCountFromSuffix(t) ==
    CASE t.suffix = "M" -> t.tenths * 100000
      [] t.suffix = "K" -> t.tenths * 100
      [] OTHER          -> (t.tenths + 5) \div 10
FirstText(texts) == IF texts = <<>> THEN Failure ELSE ParseListenerCountFromSuffix(texts[1])

\* The last text, or none on an artist's page: no listeners.
ExtractMonthlyListenersFromText(p) ==
    IF p.texts # <<>> THEN ParseListenerCountFromSuffix(p.texts[Len(p.texts)])
    ELSE IF p.union THEN 0 ELSE Failure
ParseHTMLMonthlyListeners(p) ==
    IF p.json # Missing THEN p.json ELSE ExtractMonthlyListenersFromText(p)
FetchViaMobileSSR(p) ==
    IF ParseHTMLMonthlyListeners(p) = 0 THEN Failure ELSE ParseHTMLMonthlyListeners(p)

\* The query looks at what the page shows, and answers "0 monthly listeners" for
\* an artist's page that shows none.
BuildBQLQuery(p) == IF p.texts # <<>> THEN p.texts
                    ELSE IF p.union THEN <<[tenths |-> 0, suffix |-> ""]>> ELSE <<>>
ParseBrowserlessResponse(p) == FirstText(BuildBQLQuery(p))

\* The data of a page, or what an element shows, which is parsed again.
BrowserbaseListenerExtractor(p) ==
    IF p.json # Missing THEN <<[tenths |-> p.json * 10, suffix |-> ""]>> ELSE p.texts
ParseListenersFromRawText(texts) == FirstText(texts)

\* The page function's dataset item: a number from the data; or the text of an
\* element; or an error with a zero.
ApifyPageFunction(p) ==
    IF p.json # Missing THEN [number |-> p.json, raw |-> <<>>, error |-> FALSE]
    ELSE IF p.texts # <<>>
    THEN [number |-> FirstText(p.texts), raw |-> p.texts, error |-> FALSE]
    ELSE [number |-> 0, raw |-> <<>>, error |-> TRUE]
ResolveListenerCount(item) ==
    IF item.raw = <<>> THEN item.number ELSE ParseListenersFromRawText(item.raw)

ParseApifyItem(item) == IF item.error THEN Failure ELSE ResolveListenerCount(item)

\* The local browser waits for a page that looks ready, and reads the response
\* of the page's own query if that comes first: an artist without a number has
\* none.
ParseLocalHTMLMonthlyListeners(p) ==
    IF p.json = Missing /\ p.texts = <<>> /\ ~p.union THEN Failure ELSE ParseHTMLMonthlyListeners(p)
ExtractMonthlyListeners(p) ==
    IF ~p.union THEN Failure ELSE IF p.json = Missing THEN 0 ELSE p.json
LocalHeadless(p) == IF p.found /\ ExtractMonthlyListeners(p) # Failure
                    THEN ExtractMonthlyListeners(p) ELSE ParseLocalHTMLMonthlyListeners(p)

Readings(p) == {ParseHTMLMonthlyListeners(p), FetchViaMobileSSR(p), ParseBrowserlessResponse(p),
                ParseListenersFromRawText(BrowserbaseListenerExtractor(p)),
                ParseApifyItem(ApifyPageFunction(p)), LocalHeadless(p)} \ {Failure}
-----------------------------------------------------------------------------
(* Statuses.                                                               *)

\* checkProviderHTTPStatus, with the codes that the provider takes for a quota's.
QuotaCodes(site) == IF site \in {"mobile-ssr", "local-browserless"} THEN {402} ELSE {401, 402, 403}
Created(site)    == IF site \in {"browserbase", "apify"} THEN {200, 201} ELSE {200}
CheckProviderHTTPStatus(site, status) ==
    CASE status \in QuotaCodes(site)            -> "quota"
      [] status \in Created(site)               -> "ok"
      [] status = 429 /\ site # "apify"         -> "limited"
      [] OTHER                                  -> "failed"
-----------------------------------------------------------------------------
(* Delays, in seconds.                                                     *)

Streaks == [kind : {"streak"}, streak : 1..10, serverDelay : {0, 1, 3, 30, 60, 90}]

Lesser(a, b)  == IF a < b THEN a ELSE b
Greater(a, b) == IF a > b THEN a ELSE b

\* RetryBackoffWithJitter doubles from one second, five times at most.
RetryBackoff(attempt) == 2 ^ Lesser(attempt - 1, 5)

\* The cooldown before its jitter, and the jitter's end.
ComputeScraperAPICooldown(serverDelay, streak) ==
    Greater(Lesser(2 * 2 ^ Lesser(Lesser(streak, 8) - 1, 5), 60), serverDelay)
JitterDuration(base) == base + Lesser(2, base \div 4)
-----------------------------------------------------------------------------
(* Accounts.                                                               *)

Accounts == [kind : {"account"}, status : {0, 200, 401, 403, 500}, readable : BOOLEAN,
             limit : {0, 9, 100}, used : {0, 9, 95, 101}, memory : {0, 3072, 4096}]

MinCreditsNeeded == 10
MemoryMB         == 1024 \* ApifyMemoryMB: what one run asks for
MaxMemory        == 4096 \* maxActorMemoryGbytes

Info(available, remaining, total) ==
    [available |-> available, remaining |-> remaining, total |-> total]
IsAuthError(status) == status \in {401, 403}
Remaining(a)        == Greater(a.limit - a.used, 0)

\* An account that cannot be read is taken to be exhausted for ScrapingAnt and
\* Apify, and to be good for ScraperAPI unless it is refused.
CheckScrapingAnt(a) ==
    IF a.status # 200 \/ ~a.readable THEN Info(FALSE, 0, 0)
    ELSE Info(Remaining(a) >= MinCreditsNeeded, Remaining(a), a.limit)
ParseScraperAPIResponse(a) ==
    IF ~a.readable THEN Info(TRUE, 0, 0)
    ELSE Info(Remaining(a) > 0 \/ a.limit = 0, Remaining(a), a.limit)
CheckScraperAPI(a) == IF IsAuthError(a.status) THEN Info(FALSE, 0, 0)
                      ELSE IF a.status # 200 THEN Info(TRUE, 0, 0)
                      ELSE ParseScraperAPIResponse(a)

\* Mutant: the memory of the runs under way is not counted.
BudgetOnly(a) == Info(Remaining(a) > 0 \/ a.limit = 0, Remaining(a), a.limit)

ClassifyApifyAvailability(a) ==
    Info((Remaining(a) > 0 \/ a.limit = 0) /\ a.memory + MemoryMB <= MaxMemory,
         Remaining(a), a.limit)
CheckApify(a) == IF a.status # 200 \/ ~a.readable THEN Info(FALSE, 0, 0)
                 ELSE ClassifyApifyAvailability(a)

\* CheckAll for one account's figures at each metered provider, and the free ones
\* or those without a usage API, which are good when they are configured.
CheckAll(a, configured) ==
    [n \in configured |-> CASE n = "scrapingant" -> CheckScrapingAnt(a)
                            [] n = "scraperapi"  -> CheckScraperAPI(a)
                            [] n = "apify"       -> CheckApify(a)
                            [] OTHER             -> Info(TRUE, 0, 0)]
ProviderPriority == <<"local", "local-browserless", "browserbase", "scrapingant", "scraperapi",
                      "apify", "browserless">>
IsProviderReady(name, q) ==
    /\ q.available
    /\ name = "scrapingant" => q.remaining > 0
    /\ name = "apify" => q.total = 0 \/ q.remaining > 0
GetBestFrom(quotas) ==
    LET ready == {i \in DOMAIN ProviderPriority :
                    /\ ProviderPriority[i] \in DOMAIN quotas
                    /\ IsProviderReady(ProviderPriority[i], quotas[ProviderPriority[i]])}
    IN  IF ready = {} THEN ""
        ELSE ProviderPriority[CHOOSE i \in ready : \A j \in ready : i <= j]
-----------------------------------------------------------------------------
Samples == Pages \cup Streaks \cup Accounts

\* Only an artist's page, or a number that is zero, makes a count of zero: a page
\* that could not be read never clears an artist's listeners.  And a count is
\* always one that the page has, the data's first where it is read.
ZeroOf(p) == p.union \/ p.json = 0 \/ \E i \in DOMAIN p.texts : p.texts[i].tenths = 0
Counts(p) == {p.json} \cup {ParseListenerCountFromSuffix(p.texts[i]) : i \in DOMAIN p.texts}
ReadingsAreReal == sample.kind = "page" =>
    \A n \in Readings(sample) : n \in Counts(sample) \/ (n = 0 /\ ZeroOf(sample))

\* A throttled provider is left alone at least as long as it has asked for, never
\* shorter after more refusals, and without its asking never above a minute; the
\* backoff between two attempts stays below.
CooldownIsBounded == sample.kind = "streak" =>
    LET c(n) == ComputeScraperAPICooldown(sample.serverDelay, n)
    IN  /\ c(sample.streak) >= sample.serverDelay /\ c(sample.streak + 1) >= c(sample.streak)
        /\ c(sample.streak) <= Greater(60, sample.serverDelay)
        /\ JitterDuration(c(sample.streak)) - c(sample.streak) \in 0..2
        /\ RetryBackoff(sample.streak) < 60

\* The best provider, among whichever are configured, can pay for one more fetch
\* as far as its account tells; and a status by which a metered account refuses the
\* key is one after which the client does not ask that provider again.
Metered == {"scrapingant", "scraperapi", "apify"}
CanPay(name, a) ==
    CASE name = "scrapingant" -> a.limit - a.used >= MinCreditsNeeded
      [] name = "apify"       -> /\ a.limit = 0 \/ a.used < a.limit
                                 /\ a.memory <= MaxMemory - MemoryMB
      [] OTHER                -> a.limit = 0 \/ a.used < a.limit
BestCanPay == sample.kind = "account" =>
    \A configured \in SUBSET (Metered \cup {"browserless"}) :
        LET best == GetBestFrom(CheckAll(sample, configured))
        IN  best \in Metered =>
                /\ CheckProviderHTTPStatus(best, sample.status) # "quota"
                /\ sample.status = 200 /\ sample.readable => CanPay(best, sample)

\* What a provider answers is read for what it says: a count that is on the
\* page, a delay that is bounded, an account that can pay.
AnswersAreSound == ReadingsAreReal /\ CooldownIsBounded /\ BestCanPay
=============================================================================
