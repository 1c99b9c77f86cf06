------------------------ MODULE ArtistSnapshotsProofs ------------------------
(***************************************************************************)
(* What a snapshot stands for, how long a tail may get, and that the       *)
(* repository over either store is the abstract one, for any callers,      *)
(* artists, requests, window, interval, faults and rebuilt logs.           *)
(*                                                                         *)
(* A snapshot is a replay cut short, so everything rests on what a replay  *)
(* is: FoldLeft is followed step by step (FoldIsRun), and a replay of two  *)
(* lists is one of the second from the state of the first (FoldConcat).    *)
(* The log never loses or reorders a stream (LogGrows, LogRebuilt), so a   *)
(* version, once taken, stands for the same prefix of it whatever others   *)
(* save: that is all a frame, a caller's state and a tail need (FramesHold,*)
(* CallersHold, AnchorsHold).  The bound on tails holds while nobody is    *)
(* disturbed (SerialHolds): then a frame is of the interval its artist is  *)
(* in, unless the one caller at work is about to store the next.           *)
(***************************************************************************)
EXTENDS ArtistSnapshots, FiniteSetTheorems, SequenceTheorems, WellFoundedInduction, TLAPS

-----------------------------------------------------------------------------
(* Least and greatest elements.                                            *)

\* A set of naturals has a least element.
LEMMA LeastExists ==
  ASSUME NEW T \in SUBSET Nat, T # {}
  PROVE  \E x \in T : \A y \in T : x <= y
<1>1. PICK x \in T : \A y \in T : <<y, x>> \notin OpToRel(<, Nat)
  BY WFMin, NatLessThanWellFounded, Zenon
<1>2. \A y \in T : ~(y < x)
  BY <1>1 DEF OpToRel
<1> QED BY <1>2

\* What holds at 0 and is handed on from each place to the next holds everywhere.
LEMMA Climb ==
  ASSUME NEW N \in Nat, NEW T, 0 \in T, \A k \in 1..N : k - 1 \in T => k \in T
  PROVE  \A k \in 0..N : k \in T
<1> DEFINE U == {k \in 0..N : k \notin T}
<1> SUFFICES ASSUME U # {} PROVE FALSE
  OBVIOUS
<1>1. U \in SUBSET Nat
  OBVIOUS
<1>2. PICK k \in U : \A l \in U : k <= l
  BY <1>1, LeastExists
<1>3. k # 0 /\ k - 1 \in 0..N /\ k - 1 \notin U
  BY <1>2
<1> QED BY <1>3

\* A bounded set has a greatest element.
LEMMA GreatestExists ==
  ASSUME NEW n \in Nat, NEW T \in SUBSET (1..n), T # {}
  PROVE  Max(T) \in T /\ \A y \in T : y <= Max(T)
<1> DEFINE U == {u \in 0..n : \A y \in T : y <= u}
<1>1. n \in U /\ U \in SUBSET Nat
  OBVIOUS
<1>2. PICK u \in U : \A v \in U : u <= v
  BY <1>1, LeastExists
<1>3. CASE u \in T
  <2>1. \A y \in T : u >= y
    BY <1>2
  <2> QED BY <1>3, <2>1 DEF Max
<1>4. CASE u \notin T
  <2>1. PICK y \in T : TRUE
    OBVIOUS
  <2>2. u > 0 /\ \A z \in T : z <= u - 1
    BY <1>2, <1>4, <2>1
  <2>3. u - 1 \in U
    BY <1>2, <2>2
  <2> QED BY <1>2, <2>3
<1> QED BY <1>3, <1>4

-----------------------------------------------------------------------------
(* The replay (FoldLeft of Applied).                                       *)

\* The recursive function by which FoldLeft is defined, on the sets of places.
Recursion(g, base, facts, D) ==
    g = [S \in SUBSET D |-> IF S = {} THEN base ELSE Applied(g[S \ {Max(S)}], facts[Max(S)])]

\* That function exists on every bounded set.
LEMMA RecursionExists ==
  ASSUME NEW base, NEW facts, NEW N \in Nat
  PROVE  \E g : Recursion(g, base, facts, 1..N)
<1> DEFINE T == {n \in 0..N : \E g : Recursion(g, base, facts, 1..n)}
<1>1. 0 \in T
  <2> DEFINE g == [S \in SUBSET (1..0) |-> base]
  <2>1. \A S \in SUBSET (1..0) : S = {}
    OBVIOUS
  <2>2. Recursion(g, base, facts, 1..0)
    BY <2>1 DEF Recursion
  <2> QED BY <2>2
<1>2. ASSUME NEW k \in 1..N, k - 1 \in T PROVE k \in T
  <2>1. PICK g : Recursion(g, base, facts, 1..(k - 1))
    BY <1>2
  <2> DEFINE h == [S \in SUBSET (1..k) |-> IF S = {} THEN base
                     ELSE Applied(g[S \ {Max(S)}], facts[Max(S)])]
  <2>2. \A S \in SUBSET (1..(k - 1)) : h[S] = g[S]
    <3>1. \A S \in SUBSET (1..(k - 1)) : S \in SUBSET (1..k)
      OBVIOUS
    <3> QED BY <2>1, <3>1 DEF Recursion
  <2>3. \A S \in SUBSET (1..k) : S # {} => S \ {Max(S)} \in SUBSET (1..(k - 1))
    <3> SUFFICES ASSUME NEW S \in SUBSET (1..k), S # {}, NEW i \in S \ {Max(S)} PROVE i \in 1..(k - 1)
      OBVIOUS
    <3>1. k \in Nat
      OBVIOUS
    <3>2. Max(S) \in S /\ i <= Max(S)
      BY <3>1, GreatestExists
    <3>3. i \in 1..k /\ Max(S) \in 1..k /\ i # Max(S)
      BY <3>2
    <3> HIDE DEF Max
    <3> QED BY <3>1, <3>2, <3>3
  <2>4. Recursion(h, base, facts, 1..k)
    <3>1. \A S \in SUBSET (1..k) : S # {} => h[S \ {Max(S)}] = g[S \ {Max(S)}]
      BY <2>2, <2>3
    <3>2. \A S \in SUBSET (1..k) :
             h[S] = IF S = {} THEN base ELSE Applied(h[S \ {Max(S)}], facts[Max(S)])
      BY <3>1
    <3> HIDE DEF h
    <3>3. h = [S \in SUBSET (1..k) |-> h[S]]
      BY DEF h
    <3> QED BY <3>2, <3>3 DEF Recursion
  <2> QED BY <2>4
<1> HIDE DEF T
<1>3. N \in T
  BY <1>1, <1>2, Climb
<1> QED BY <1>3 DEF T

\* A run of the replay: the states it goes through.
Run(h, base, facts) == h[0] = base /\ \A k \in 1..Len(facts) : h[k] = Applied(h[k - 1], facts[k])

\* A replay is the last state of its run, and there is a run.
LEMMA FoldIsRun ==
  ASSUME NEW base, NEW facts, Len(facts) \in Nat, DOMAIN facts = 1..Len(facts)
  PROVE  /\ \E h : Run(h, base, facts)
         /\ \A h : Run(h, base, facts) => FoldLeft(Applied, base, facts) = h[Len(facts)]
<1> DEFINE N == Len(facts)
           g == CHOOSE g : Recursion(g, base, facts, 1..N)
<1>0. N \in Nat /\ DOMAIN facts = 1..N
  OBVIOUS
<1>1. Recursion(g, base, facts, 1..N)
  BY RecursionExists
<1>2. FoldLeft(Applied, base, facts) = g[1..N]
  BY DEF FoldLeft, MapThenFoldSet, Recursion
<1> HIDE DEF g, N
<1> DEFINE h == [k \in 0..N |-> g[1..k]]
<1>3. h[0] = base
  <2>1. 1..0 = {}
    OBVIOUS
  <2> QED BY <1>0, <1>1, <2>1 DEF Recursion
<1>4. ASSUME NEW k \in 1..N PROVE h[k] = Applied(h[k - 1], facts[k])
  <2>0. k \in Nat /\ k \in 1..k /\ k >= 1
    BY <1>0
  <2>1. Max(1..k) = k
    <3>1. 1..k \in SUBSET (1..k) /\ 1..k # {}
      BY <2>0
    <3>2. Max(1..k) \in 1..k /\ \A y \in 1..k : y <= Max(1..k)
      BY <2>0, <3>1, GreatestExists
    <3> QED BY <2>0, <3>2
  <2>2. (1..k) \ {k} = 1..(k - 1)
    BY <2>0
  <2>3. 1..k # {} /\ 1..k \in SUBSET (1..N)
    BY <1>0, <2>0
  <2>4. g[1..k] = Applied(g[(1..k) \ {Max(1..k)}], facts[Max(1..k)])
    BY <1>1, <2>3 DEF Recursion
  <2> QED BY <1>0, <2>0, <2>1, <2>2, <2>4
<1> HIDE DEF h
<1>5. Run(h, base, facts)
  BY <1>3, <1>4 DEF Run, N
<1>6. ASSUME NEW f, Run(f, base, facts) PROVE f[N] = h[N]
  <2> DEFINE T == {k \in 0..N : f[k] = h[k]}
  <2>1. 0 \in T
    BY <1>0, <1>3, <1>6 DEF Run
  <2>2. \A k \in 1..N : k - 1 \in T => k \in T
    BY <1>0, <1>4, <1>6 DEF Run, N
  <2> HIDE DEF T
  <2>3. N \in T
    BY <1>0, <2>1, <2>2, Climb
  <2> QED BY <2>3 DEF T
<1>7. h[N] = g[1..N]
  BY <1>0 DEF h
<1> QED BY <1>2, <1>5, <1>6, <1>7 DEF N

\* The replay of nothing, of one fact, and of one list after another.
LEMMA FoldEmpty ==
  ASSUME NEW base PROVE FoldLeft(Applied, base, << >>) = base
<1>0. Len(<< >>) = 0 /\ Len(<< >>) \in Nat /\ DOMAIN << >> = 1..Len(<< >>)
  OBVIOUS
<1>1. PICK h : Run(h, base, << >>)
  BY <1>0, FoldIsRun
<1>2. FoldLeft(Applied, base, << >>) = h[Len(<< >>)]
  BY <1>0, <1>1, FoldIsRun
<1> QED BY <1>0, <1>1, <1>2 DEF Run

\* The replay of one fact is one step.
LEMMA FoldOne ==
  ASSUME NEW base, NEW f PROVE FoldLeft(Applied, base, <<f>>) = Applied(base, f)
<1> DEFINE one == <<f>>
<1>0. Len(one) = 1 /\ Len(one) \in Nat /\ DOMAIN one = 1..Len(one) /\ one[1] = f
  OBVIOUS
<1> HIDE DEF one
<1>1. PICK h : Run(h, base, one)
  BY <1>0, FoldIsRun
<1>2. FoldLeft(Applied, base, one) = h[Len(one)]
  BY <1>0, <1>1, FoldIsRun
<1>3. h[0] = base /\ h[1] = Applied(h[0], f)
  BY <1>0, <1>1 DEF Run
<1> QED BY <1>0, <1>2, <1>3 DEF one

\* Replaying one list after another is replaying both.
LEMMA FoldConcat ==
  ASSUME NEW F, NEW u \in Seq(F), NEW v \in Seq(F), NEW base
  PROVE  FoldLeft(Applied, base, u \o v) = FoldLeft(Applied, FoldLeft(Applied, base, u), v)
<1> DEFINE m == Len(u)
           n == Len(v)
<1>1. /\ m \in Nat /\ n \in Nat /\ Len(u \o v) = m + n
      /\ DOMAIN u = 1..m /\ DOMAIN v = 1..n /\ DOMAIN (u \o v) = 1..(m + n)
      /\ \A k \in 1..m : (u \o v)[k] = u[k]
      /\ \A k \in 1..n : (u \o v)[m + k] = v[k]
  OBVIOUS
<1> DEFINE w == u \o v
<1>0. Len(w) \in Nat /\ DOMAIN w = 1..Len(w) /\ Len(w) = m + n
  BY <1>1
<1> HIDE DEF w, m, n
<1>2. PICK h : Run(h, base, w)
  BY <1>0, FoldIsRun
<1>3. FoldLeft(Applied, base, w) = h[m + n]
  BY <1>0, <1>2, FoldIsRun
<1>4. Run(h, base, u)
  BY <1>0, <1>1, <1>2 DEF Run, w, m
<1>5. FoldLeft(Applied, base, u) = h[m]
  BY <1>1, <1>4, FoldIsRun DEF m
<1> DEFINE g == [k \in 0..n |-> h[m + k]]
<1>6. Run(g, h[m], v)
  <2>1. g[0] = h[m]
    BY <1>1
  <2>2. ASSUME NEW k \in 1..n PROVE g[k] = Applied(g[k - 1], v[k])
    <3>1. m + k \in 1..(m + n) /\ (m + k) - 1 = m + (k - 1) /\ k - 1 \in 0..n /\ k \in 0..n
      BY <1>1
    <3>2. h[m + k] = Applied(h[(m + k) - 1], w[m + k])
      BY <1>0, <1>2, <3>1 DEF Run
    <3> QED BY <1>1, <3>1, <3>2 DEF w
  <2> HIDE DEF g
  <2> QED BY <2>1, <2>2 DEF Run, n
<1>7. FoldLeft(Applied, h[m], v) = g[n]
  <2> HIDE DEF g
  <2> QED BY <1>1, <1>6, FoldIsRun DEF n
<1>8. g[n] = h[m + n]
  BY <1>1
<1> QED BY <1>3, <1>5, <1>7, <1>8 DEF w

\* Whatever a step keeps is true of a replay.
LEMMA FoldKeeps ==
  ASSUME NEW F, NEW u \in Seq(F), NEW S, NEW base \in S,
         \A s \in S, f \in F : Applied(s, f) \in S
  PROVE  FoldLeft(Applied, base, u) \in S
<1>1. Len(u) \in Nat /\ DOMAIN u = 1..Len(u) /\ \A k \in 1..Len(u) : u[k] \in F
  OBVIOUS
<1>2. PICK h : Run(h, base, u)
  BY <1>1, FoldIsRun
<1> DEFINE T == {k \in 0..Len(u) : h[k] \in S}
<1>3. 0 \in T
  BY <1>1, <1>2 DEF Run
<1>4. ASSUME NEW k \in 1..Len(u), k - 1 \in T PROVE k \in T
  <2>1. h[k] = Applied(h[k - 1], u[k]) /\ h[k - 1] \in S
    BY <1>2, <1>4 DEF Run
  <2> QED BY <1>1, <2>1
<1> DEFINE n == Len(u)
<1>5. n \in Nat
  BY <1>1
<1>6. \A k \in 1..n : k - 1 \in T => k \in T
  BY <1>4
<1> HIDE DEF T, n
<1>7. n \in T
  BY <1>3, <1>5, <1>6, Climb
<1> QED BY <1>1, <1>2, <1>7, FoldIsRun DEF T, n

-----------------------------------------------------------------------------
(* The log: an artist's events in their order.                             *)

Events == [artist : Artists, version : Nat \ {0}, fact : Facts]

\* Versions rise along a stream, and none is left out.
LogSound ==
    /\ domain \in Seq(Events)
    /\ \A i, j \in DOMAIN domain :
         i < j /\ domain[i].artist = domain[j].artist => domain[i].version < domain[j].version
    /\ \A i \in DOMAIN domain : domain[i].version > 1 =>
         \E j \in EventsOf(domain[i].artist) : domain[j].version = domain[i].version - 1

Later(a, v) == {i \in EventsOf(a) : domain[i].version > v}
Place(a, v) == CHOOSE i \in EventsOf(a) : domain[i].version = v

\* What stands at an artist's place in the log.
LEMMA Logged ==
  ASSUME LogSound, NEW a, NEW i \in EventsOf(a)
  PROVE  /\ Len(domain) \in Nat /\ i \in 1..Len(domain) /\ i \in Nat /\ i \in DOMAIN domain
         /\ domain[i] \in Events /\ domain[i].version \in Nat \ {0} /\ domain[i].artist = a
         /\ domain[i].fact \in Facts /\ a \in Artists
<1>1. Len(domain) \in Nat /\ i \in 1..Len(domain) /\ i \in DOMAIN domain /\ domain[i].artist = a
  BY DEF LogSound, EventsOf
<1>2. domain[i] \in Events
  BY <1>1 DEF LogSound
<1> QED BY <1>1, <1>2 DEF Events

\* Every version up to an event's own stands at one place, not behind it.
LEMMA PlaceIs ==
  ASSUME LogSound, NEW a, NEW i \in EventsOf(a), NEW v \in 1..domain[i].version
  PROVE  /\ Place(a, v) \in EventsOf(a) /\ domain[Place(a, v)].version = v /\ Place(a, v) <= i
         /\ \A j \in EventsOf(a) : domain[j].version = v => j = Place(a, v)
<1> DEFINE n == domain[i].version
           T == {k \in 0..(n - 1) : \E j \in EventsOf(a) : domain[j].version = n - k}
<1>0. n \in Nat \ {0} /\ v \in 1..n
  BY Logged
<1>1. 0 \in T
  BY <1>0
<1>2. ASSUME NEW k \in 1..(n - 1), k - 1 \in T PROVE k \in T
  <2>1. PICK j \in EventsOf(a) : domain[j].version = n - (k - 1)
    BY <1>2
  <2>2. j \in DOMAIN domain /\ domain[j].artist = a /\ domain[j].version > 1
    BY <1>0, <2>1 DEF EventsOf
  <2>3. PICK l \in EventsOf(a) : domain[l].version = (n - (k - 1)) - 1
    BY <2>1, <2>2 DEF LogSound
  <2>4. (n - (k - 1)) - 1 = n - k
    BY <1>0
  <2> QED BY <2>3, <2>4
<1>3. n - v \in T
  <2> HIDE DEF T, n
  <2>1. n - 1 \in Nat /\ n - v \in 0..(n - 1)
    BY <1>0
  <2> QED BY <1>1, <1>2, <2>1, Climb
<1>4. \E j \in EventsOf(a) : domain[j].version = v
  BY <1>0, <1>3
<1>5. Place(a, v) \in EventsOf(a) /\ domain[Place(a, v)].version = v
  BY <1>4 DEF Place
<1>6. ASSUME NEW j \in EventsOf(a), NEW l \in EventsOf(a), domain[j].version <= domain[l].version
      PROVE  j <= l
  BY <1>6, Logged DEF LogSound
<1> HIDE DEF T, n
<1>7. Place(a, v) <= i
  BY <1>0, <1>5, <1>6, Logged DEF n
<1>8. ASSUME NEW j \in EventsOf(a), domain[j].version = v PROVE j = Place(a, v)
  <2>1. j <= Place(a, v) /\ Place(a, v) <= j
    BY <1>0, <1>5, <1>6, <1>8
  <2> QED BY <1>5, <2>1, Logged
<1> QED BY <1>5, <1>7, <1>8

\* A set that is numbered from 1 to n without repetition has n elements.
LEMMA Counting ==
  ASSUME NEW S, NEW n \in Nat, NEW f \in [1..n -> S],
         \A k, l \in 1..n : f[k] = f[l] => k = l, \A s \in S : \E k \in 1..n : f[k] = s
  PROVE  Cardinality(S) = n
<1>1. ExistsBijection(1..n, S)
  BY Zenon DEF ExistsBijection, Bijection, Injection, Surjection, IsInjective
<1> QED BY <1>1, FS_CountingElements

\* How many of an artist's events lie behind version v, up to event i.
LEMMA LaterCount ==
  ASSUME LogSound, NEW a, NEW v \in Nat, NEW i \in EventsOf(a), v <= domain[i].version
  PROVE  Cardinality({j \in Later(a, v) : j <= i}) = domain[i].version - v
<1> DEFINE n == domain[i].version - v
           S == {j \in Later(a, v) : j <= i}
           f == [k \in 1..n |-> Place(a, v + k)]
<1>0. n \in Nat /\ domain[i].version \in Nat
  BY Logged
<1>1. ASSUME NEW k \in 1..n
      PROVE  /\ v + k \in 1..domain[i].version /\ Place(a, v + k) \in S
             /\ domain[Place(a, v + k)].version = v + k
  <2>1. v + k \in 1..domain[i].version
    BY <1>0
  <2>2. /\ Place(a, v + k) \in EventsOf(a) /\ domain[Place(a, v + k)].version = v + k
        /\ Place(a, v + k) <= i
    BY <2>1, PlaceIs
  <2> QED BY <1>0, <2>1, <2>2 DEF Later
<1>2. f \in [1..n -> S]
  BY <1>1
<1>3. ASSUME NEW k \in 1..n, NEW l \in 1..n, f[k] = f[l] PROVE k = l
  <2>1. v + k = v + l
    BY <1>1, <1>3
  <2> QED BY <1>0, <2>1
<1>4. ASSUME NEW s \in S PROVE \E k \in 1..n : f[k] = s
  <2>1. s \in EventsOf(a) /\ domain[s].version > v /\ s <= i
    BY DEF Later
  <2>2. domain[s].version <= domain[i].version /\ domain[s].version \in Nat
    BY <2>1, Logged DEF LogSound
  <2>3. domain[s].version - v \in 1..n /\ v + (domain[s].version - v) = domain[s].version
    BY <1>0, <2>1, <2>2
  <2>4. s = Place(a, domain[s].version)
    <3>1. domain[s].version \in 1..domain[i].version
      BY <1>0, <2>1, <2>2
    <3> QED BY <2>1, <3>1, PlaceIs
  <2>5. f[domain[s].version - v] = Place(a, v + (domain[s].version - v))
    BY <2>3
  <2> HIDE DEF f, n
  <2> QED BY <2>3, <2>4, <2>5
<1> HIDE DEF f, n, S
<1>5. Cardinality(S) = n
  BY <1>0, <1>2, <1>3, <1>4, Counting
<1> QED BY <1>5 DEF S, n

\* An artist's facts are its events' by version, and those behind a version are
\* the end of them.
ByVersion(a) ==
    /\ Version(a) \in Nat /\ FactsOf(a) \in Seq(Facts) /\ Len(FactsOf(a)) = Version(a)
    /\ \A i \in EventsOf(a) : /\ domain[i].version \in 1..Version(a)
                              /\ FactsOf(a)[domain[i].version] = domain[i].fact
    /\ \A v \in 1..Version(a) : \E i \in EventsOf(a) : domain[i].version = v
    /\ \A v \in 0..Version(a) :
         /\ FactsAt(Later(a, v)) \in Seq(Facts) /\ Len(FactsAt(Later(a, v))) = Version(a) - v
         /\ \A k \in 1..(Version(a) - v) : FactsAt(Later(a, v))[k] = FactsOf(a)[v + k]

\* So the order of places is the order of versions.
LEMMA FactsByVersion == LogSound => \A a : ByVersion(a)
<1> SUFFICES ASSUME LogSound, NEW a PROVE ByVersion(a)
  OBVIOUS
<1>1. CASE EventsOf(a) = {}
  <2>1. Version(a) = 0 /\ Later(a, 0) = {}
    BY <1>1, FS_EmptySet DEF Version, Later
  <2>2. FactsAt({}) = << >>
    BY FS_EmptySet DEF FactsAt
  <2>3. FactsOf(a) = << >>
    BY <1>1, <2>2 DEF FactsOf
  <2>4. ASSUME NEW v \in 0..Version(a) PROVE FactsAt(Later(a, v)) = << >>
    BY <2>1, <2>2, <2>4
  <2>5. << >> \in Seq(Facts) /\ Len(<< >>) = 0
    OBVIOUS
  <2>6. ASSUME NEW v \in 0..Version(a)
        PROVE  /\ FactsAt(Later(a, v)) \in Seq(Facts) /\ Len(FactsAt(Later(a, v))) = Version(a) - v
               /\ 1..(Version(a) - v) = {}
    <3>1. v = 0 /\ Version(a) - v = 0 /\ 1..(Version(a) - v) = {}
      <4>1. Version(a) = 0
        BY <2>1
      <4>2. v \in 0..0
        BY <4>1
      <4>3. v = 0
        BY <4>2
      <4> QED BY <4>1, <4>3
    <3>2. FactsAt(Later(a, v)) = << >>
      BY <2>4
    <3> QED BY <2>5, <3>1, <3>2
  <2>7. 1..Version(a) = {}
    BY <2>1
  <2> QED BY <1>1, <2>1, <2>3, <2>5, <2>6, <2>7 DEF ByVersion
<1>2. CASE EventsOf(a) # {}
  <2> DEFINE m == Max(EventsOf(a))
             n == domain[m].version
  <2>1. m \in EventsOf(a) /\ \A j \in EventsOf(a) : j <= m
    <3>1. EventsOf(a) \in SUBSET (1..Len(domain)) /\ Len(domain) \in Nat
      BY DEF LogSound, EventsOf
    <3> QED BY <1>2, <3>1, GreatestExists
  <2> HIDE DEF m
  <2>2. n \in Nat \ {0}
    BY <2>1, Logged
  <2>3. ASSUME NEW v \in 0..n
        PROVE  /\ Cardinality(Later(a, v)) = n - v
               /\ \A k \in 1..(n - v) : InOrder(Later(a, v))[k] = Place(a, v + k)
    <3>1. Later(a, v) = {j \in Later(a, v) : j <= m}
      BY <2>1 DEF Later
    <3>2. Cardinality(Later(a, v)) = n - v
      BY <2>1, <2>2, <3>1, LaterCount
    <3>3. ASSUME NEW k \in 1..(n - v) PROVE InOrder(Later(a, v))[k] = Place(a, v + k)
      <4> DEFINE S == Later(a, v)
      <4>1. v + k \in 1..n /\ v \in Nat /\ k \in Nat
        BY <2>2
      <4>2. Place(a, v + k) \in EventsOf(a) /\ domain[Place(a, v + k)].version = v + k
        BY <2>1, <4>1, PlaceIs
      <4>3. Place(a, v + k) \in S /\ Cardinality({j \in S : j <= Place(a, v + k)}) = k
        <5>1. Cardinality({j \in S : j <= Place(a, v + k)}) = (v + k) - v
          BY <4>1, <4>2, LaterCount
        <5> QED BY <4>1, <4>2, <5>1 DEF Later
      <4>4. ASSUME NEW i \in S, Cardinality({j \in S : j <= i}) = k PROVE i = Place(a, v + k)
        <5>1. i \in EventsOf(a) /\ v <= domain[i].version
          BY <4>1, Logged DEF Later
        <5>2. domain[i].version - v = k
          BY <4>1, <4>4, <5>1, LaterCount
        <5>3. domain[i].version = v + k
          BY <4>1, <5>1, <5>2, Logged
        <5>4. v + k \in 1..n
          BY <4>1
        <5> QED BY <2>1, <5>1, <5>3, <5>4, PlaceIs
      <4> HIDE DEF S
      <4>5. (CHOOSE i \in S : Cardinality({j \in S : j <= i}) = k) = Place(a, v + k)
        BY <4>3, <4>4
      <4> QED BY <3>2, <4>5 DEF InOrder, S
    <3> QED BY <3>2, <3>3
  <2>4. Later(a, 0) = EventsOf(a)
    BY Logged DEF Later
  <2>5. Version(a) = n
    BY <2>2, <2>3, <2>4 DEF Version
  <2>6. ASSUME NEW v \in 0..n
        PROVE  FactsAt(Later(a, v)) = [k \in 1..(n - v) |-> domain[Place(a, v + k)].fact]
    BY <2>3 DEF FactsAt
  <2>7. FactsOf(a) = [k \in 1..n |-> domain[Place(a, k)].fact]
    <3>1. FactsOf(a) = [k \in 1..(n - 0) |-> domain[Place(a, 0 + k)].fact]
      BY <2>2, <2>4, <2>6 DEF FactsOf
    <3> QED BY <2>2, <3>1
  <2>8. ASSUME NEW k \in 1..n
        PROVE  Place(a, k) \in EventsOf(a) /\ domain[Place(a, k)].version = k
               /\ domain[Place(a, k)].fact \in Facts
    BY <2>1, PlaceIs, Logged
  <2> HIDE DEF n
  <2>9. FactsOf(a) \in Seq(Facts) /\ Len(FactsOf(a)) = n
    BY <2>2, <2>7, <2>8
  <2>10. ASSUME NEW i \in EventsOf(a)
         PROVE  domain[i].version \in 1..n /\ FactsOf(a)[domain[i].version] = domain[i].fact
    <3>1. domain[i].version \in 1..n
      BY <2>1, Logged DEF LogSound, n
    <3>2. Place(a, domain[i].version) = i
      BY <2>1, <3>1, PlaceIs DEF n
    <3> QED BY <2>7, <3>1, <3>2
  <2>11. ASSUME NEW v \in 0..n
         PROVE  /\ FactsAt(Later(a, v)) \in Seq(Facts) /\ Len(FactsAt(Later(a, v))) = n - v
                /\ \A k \in 1..(n - v) : FactsAt(Later(a, v))[k] = FactsOf(a)[v + k]
    <3>1. ASSUME NEW k \in 1..(n - v) PROVE v + k \in 1..n
      BY <2>2
    <3>2. n - v \in Nat
      BY <2>2
    <3> QED BY <2>6, <2>7, <2>8, <3>1, <3>2
  <2> QED BY <2>2, <2>5, <2>8, <2>9, <2>10, <2>11 DEF ByVersion
<1> QED BY <1>1, <1>2

-----------------------------------------------------------------------------
(* States of the aggregate.                                                *)

IdLists == {ids \in Seq(Requests \ {Manual}) : Len(ids) <= Window /\ IsInjective(ids)}
States  == [fetch : {"none", "idle", "pending"}, listeners : Requests \cup {Manual},
            last : Requests \cup {Manual}, ids : IdLists]

\* A new artist remembers no request.
LEMMA NoIds == << >> \in IdLists
<1>1. << >> \in Seq(Requests \ {Manual}) /\ Len(<< >>) <= Window
  BY WindowAssumption
<1>2. IsInjective(<< >>)
  BY DEF IsInjective
<1> QED BY <1>1, <1>2 DEF IdLists

\* The list of requests, unfolded.
LEMMA IdsAre ==
  ASSUME NEW ids \in IdLists
  PROVE  /\ ids \in Seq(Requests \ {Manual}) /\ Len(ids) \in Nat /\ Len(ids) <= Window
         /\ DOMAIN ids = 1..Len(ids) /\ \A i, j \in 1..Len(ids) : ids[i] = ids[j] => i = j
BY DEF IdLists, IsInjective

\* recordListenerRequestID keeps the list short and without repetition.
LEMMA RememberedIs ==
  ASSUME NEW ids \in IdLists, NEW q \in Requests \cup {Manual}
  PROVE  Remembered(ids, q) \in IdLists
<1>0. ids \in Seq(Requests \ {Manual}) /\ Len(ids) \in Nat /\ Len(ids) <= Window /\ Window \in Nat \ {0}
      /\ \A i, j \in 1..Len(ids) : ids[i] = ids[j] => i = j
  BY IdsAre, WindowAssumption
<1>1. CASE q = Manual \/ Contains(ids, q)
  BY <1>1 DEF Remembered
<1>2. CASE ~(q = Manual \/ Contains(ids, q)) /\ Len(ids) < Window
  <2> DEFINE new == Append(ids, q)
  <2>1. Remembered(ids, q) = new
    BY <1>2 DEF Remembered
  <2>2. /\ new \in Seq(Requests \ {Manual}) /\ Len(new) = Len(ids) + 1 /\ DOMAIN new = 1..Len(new)
        /\ \A i \in 1..Len(ids) : new[i] = ids[i] /\ ids[i] # q
        /\ new[Len(ids) + 1] = q
    BY <1>0, <1>2 DEF Contains
  <2> HIDE DEF new
  <2>3. \A i, j \in DOMAIN new : new[i] = new[j] => i = j
    BY <1>0, <2>2
  <2>4. IsInjective(new) /\ Len(new) <= Window
    BY <1>0, <1>2, <2>2, <2>3 DEF IsInjective
  <2> QED BY <2>1, <2>2, <2>4 DEF IdLists
<1>3. CASE ~(q = Manual \/ Contains(ids, q)) /\ ~(Len(ids) < Window)
  <2> DEFINE new == Append(Tail(ids), q)
  <2>1. Remembered(ids, q) = new
    BY <1>3 DEF Remembered
  <2>2. Len(ids) = Window /\ ids # << >>
    BY <1>0, <1>3
  <2>3. /\ new \in Seq(Requests \ {Manual}) /\ Len(new) = Len(ids) /\ DOMAIN new = 1..Len(new)
        /\ \A i \in 1..(Len(ids) - 1) : new[i] = ids[i + 1] /\ ids[i + 1] # q
        /\ new[Len(ids)] = q
    BY <1>0, <1>3, <2>2 DEF Contains
  <2> HIDE DEF new
  <2>4. \A i, j \in DOMAIN new : new[i] = new[j] => i = j
    <3> SUFFICES ASSUME NEW i \in 1..Len(ids), NEW j \in 1..Len(ids), new[i] = new[j] PROVE i = j
      BY <2>3
    <3>1. CASE i < Len(ids) /\ j < Len(ids)
      <4>1. i + 1 \in 1..Len(ids) /\ j + 1 \in 1..Len(ids) /\ ids[i + 1] = ids[j + 1]
        BY <1>0, <2>3, <3>1
      <4>2. i + 1 = j + 1
        BY <1>0, <4>1
      <4> QED BY <4>2
    <3>2. CASE ~(i < Len(ids) /\ j < Len(ids))
      BY <1>0, <2>3, <3>2
    <3> QED BY <3>1, <3>2
  <2>5. IsInjective(new) /\ Len(new) <= Window
    BY <1>0, <2>3, <2>4 DEF IsInjective
  <2> QED BY <2>1, <2>3, <2>5 DEF IdLists
<1> QED BY <1>1, <1>2, <1>3

\* Only a scrape carries a request.
LEMMA FactIs ==
  ASSUME NEW f \in Facts
  PROVE  /\ f.type \in {"created", "pending", "scraped"} /\ f.req \in Requests \cup {Manual}
         /\ f.type # "scraped" => f.req = Manual
BY DEF Facts, Fact

\* The state before the first event.
LEMMA UnbornIs == Unborn \in States
BY NoIds DEF Unborn, States

\* Artist.apply stays within the states.
LEMMA AppliedIs ==
  ASSUME NEW s \in States, NEW f \in Facts
  PROVE  Applied(s, f) \in States
<1>1. s.ids \in IdLists
  BY DEF States
<1>2. CASE f.type = "created"
  BY <1>2, NoIds DEF Applied, Unborn, States
<1>3. CASE f.type = "scraped"
  BY <1>1, <1>3, FactIs, RememberedIs DEF Applied, States
<1>4. CASE f.type = "pending"
  BY <1>4 DEF Applied, States
<1> QED BY <1>2, <1>3, <1>4, FactIs

\* So does every replay.
LEMMA FoldedIs ==
  ASSUME NEW u \in Seq(Facts), NEW s \in States
  PROVE  FoldLeft(Applied, s, u) \in States /\ Folded(u) \in States
BY FoldKeeps, AppliedIs, UnbornIs DEF Folded

-----------------------------------------------------------------------------
(* The window of requests.                                                 *)

\* The requests recorded between two facts of a list.
Scrape(f) == f.type = "scraped" /\ f.req # Manual
Since(F, i, j) == {F[k].req : k \in {n \in i+1..j-1 : F[n].type = "scraped"}} \ {Manual}

\* A recorded request is in the window, with nothing behind it but later ones,
\* or as many others as the window holds have been recorded since.
Kept(F, ids, i) ==
    \E p \in 1..Len(ids) :
        /\ ids[p] = F[i].req
        /\ \A r \in p+1..Len(ids) : \E k \in i+1..Len(F) : F[k].type = "scraped" /\ F[k].req = ids[r]
Remembers(F) ==
    \A i \in DOMAIN F : Scrape(F[i]) =>
        Kept(F, Folded(F).ids, i) \/ Cardinality(Since(F, i, Len(F) + 1)) >= Window
NoDouble(F) ==
    \A i, j \in DOMAIN F : i < j /\ Scrape(F[i]) /\ F[j] = F[i] => Cardinality(Since(F, i, j)) >= Window

\* The requests between two facts can be counted.
LEMMA SinceIsFinite ==
  ASSUME NEW F, NEW i \in Nat, NEW j \in Nat
  PROVE  IsFiniteSet(Since(F, i, j)) /\ Cardinality(Since(F, i, j)) \in Nat
<1> DEFINE S == {n \in i+1..j-1 : F[n].type = "scraped"}
           T == {F[k].req : k \in S}
           f == [k \in S |-> F[k].req]
<1>1. IsFiniteSet(i+1..j-1)
  BY FS_Interval
<1>2. IsFiniteSet(S)
  BY <1>1, FS_Subset
<1>3. f \in Surjection(S, T)
  BY DEF Surjection
<1>4. IsFiniteSet(T)
  <2> HIDE DEF S, T, f
  <2> QED BY <1>2, <1>3, FS_Surjection
<1>5. Since(F, i, j) \in SUBSET T
  BY DEF Since
<1> QED BY <1>4, <1>5, FS_Subset, FS_CardinalityType

\* They do not change with the next fact, and those behind a fact become no fewer.
LEMMA SinceGrows ==
  ASSUME NEW F \in Seq(Facts), NEW f \in Facts, NEW i \in 1..Len(F)
  PROVE  /\ \A j \in 1..(Len(F) + 1) : Since(Append(F, f), i, j) = Since(F, i, j)
         /\ Cardinality(Since(Append(F, f), i, Len(F) + 2)) >= Cardinality(Since(F, i, Len(F) + 1))
<1> DEFINE G == Append(F, f)
           n == Len(F)
<1>1. n \in Nat /\ \A k \in 1..n : G[k] = F[k]
  OBVIOUS
<1> HIDE DEF G, n
<1>2. ASSUME NEW j \in 1..(n + 1) PROVE Since(G, i, j) = Since(F, i, j)
  <2>1. \A k \in i+1..j-1 : k \in 1..n
    BY <1>1 DEF n
  <2>2. {k \in i+1..j-1 : G[k].type = "scraped"} = {k \in i+1..j-1 : F[k].type = "scraped"}
    BY <1>1, <2>1
  <2>3. \A k \in {l \in i+1..j-1 : F[l].type = "scraped"} : G[k].req = F[k].req
    BY <1>1, <2>1
  <2> QED BY <2>2, <2>3 DEF Since
<1>3. Since(F, i, n + 1) \in SUBSET Since(G, i, n + 2)
  <2>1. Since(F, i, n + 1) = Since(G, i, n + 1)
    BY <1>1, <1>2
  <2>2. {k \in i+1..(n + 1)-1 : G[k].type = "scraped"} \subseteq {k \in i+1..(n + 2)-1 : G[k].type = "scraped"}
    BY <1>1 DEF n
  <2> QED BY <2>1, <2>2 DEF Since
<1>4. i \in Nat /\ n + 2 \in Nat
  BY <1>1 DEF n
<1>5. Cardinality(Since(F, i, n + 1)) <= Cardinality(Since(G, i, n + 2))
  BY <1>3, <1>4, SinceIsFinite, FS_Subset
<1>6. Cardinality(Since(F, i, n + 1)) \in Nat /\ Cardinality(Since(G, i, n + 2)) \in Nat
  BY <1>1, <1>4, SinceIsFinite
<1> QED BY <1>2, <1>5, <1>6 DEF G, n

\* A request that is not in the window is recorded again only after that many.
LEMMA NoDoubleKept ==
  ASSUME NEW F \in Seq(Facts), NEW f \in Facts, Remembers(F), NoDouble(F),
         Scrape(f) => ~Contains(Folded(F).ids, f.req)
  PROVE  NoDouble(Append(F, f))
<1> DEFINE G == Append(F, f)
           n == Len(F)
<1>1. n \in Nat /\ DOMAIN F = 1..n /\ DOMAIN G = 1..(n + 1) /\ G[n + 1] = f /\ \A k \in 1..n : G[k] = F[k]
  OBVIOUS
<1> SUFFICES ASSUME NEW i \in 1..(n + 1), NEW j \in 1..(n + 1), i < j, Scrape(G[i]), G[j] = G[i]
             PROVE  Cardinality(Since(G, i, j)) >= Window
  BY <1>1 DEF NoDouble
<1>2. i \in 1..n /\ G[i] = F[i]
  BY <1>1
<1>3. Since(G, i, j) = Since(F, i, j)
  BY <1>2, SinceGrows
<1> HIDE DEF G, n
<1>4. CASE j \in 1..n
  BY <1>1, <1>2, <1>3, <1>4 DEF NoDouble
<1>5. CASE j = n + 1
  <2>1. ~Kept(F, Folded(F).ids, i)
    BY <1>1, <1>2, <1>5 DEF Kept, Contains
  <2>2. Cardinality(Since(F, i, n + 1)) >= Window
    BY <1>1, <1>2, <2>1 DEF Remembers, n
  <2> QED BY <1>3, <1>5, <2>2
<1> QED BY <1>1, <1>4, <1>5

\* A list without repetition is no longer than the set it is drawn from.
LEMMA ManyDistinct ==
  ASSUME NEW n \in Nat, NEW T, IsFiniteSet(T), NEW g \in [1..n -> T],
         \A i, j \in 1..n : g[i] = g[j] => i = j
  PROVE  n <= Cardinality(T)
<1>1. g \in Injection(1..n, T)
  BY DEF Injection, IsInjective
<1>2. Cardinality(1..n) <= Cardinality(T)
  BY <1>1, FS_Injection
<1>3. Cardinality(1..n) = n
  BY FS_Interval
<1> QED BY <1>2, <1>3

\* The replay of one more fact.
LEMMA FoldedStep ==
  ASSUME NEW F \in Seq(Facts), NEW f \in Facts
  PROVE  Folded(Append(F, f)) = Applied(Folded(F), f)
<1>1. Append(F, f) = F \o <<f>> /\ <<f>> \in Seq(Facts)
  OBVIOUS
<1>2. FoldLeft(Applied, Unborn, F \o <<f>>) = FoldLeft(Applied, FoldLeft(Applied, Unborn, F), <<f>>)
  BY <1>1, FoldConcat
<1> QED BY <1>1, <1>2, FoldOne DEF Folded

\* What the list's next fact does to the window.
LEMMA RemembersKept ==
  ASSUME NEW F \in Seq(Facts), NEW f \in Facts, Remembers(F), f.type = "created" => F = << >>,
         Scrape(f) => ~Contains(Folded(F).ids, f.req)
  PROVE  Remembers(Append(F, f))
<1> DEFINE G == Append(F, f)
           n == Len(F)
           ids == Folded(F).ids
           new == Folded(G).ids
<1>1. n \in Nat /\ DOMAIN F = 1..n /\ DOMAIN G = 1..(n + 1) /\ Len(G) = n + 1 /\ G[n + 1] = f
      /\ \A k \in 1..n : G[k] = F[k]
  OBVIOUS
<1>2. /\ Folded(F) \in States /\ ids \in IdLists /\ ids \in Seq(Requests \ {Manual}) /\ Len(ids) \in Nat
      /\ Len(ids) <= Window /\ DOMAIN ids = 1..Len(ids)
      /\ \A i, j \in 1..Len(ids) : ids[i] = ids[j] => i = j
  <2>1. Folded(F) \in States
    BY FoldedIs, UnbornIs
  <2>2. ids \in IdLists
    BY <2>1 DEF States
  <2> QED BY <2>1, <2>2, IdsAre
<1>3. Folded(G) = Applied(Folded(F), f)
  BY FoldedStep
<1>4. ASSUME NEW i \in 1..n, Cardinality(Since(F, i, n + 1)) >= Window
      PROVE  Cardinality(Since(G, i, Len(G) + 1)) >= Window
  <2>1. Len(G) + 1 = n + 2 /\ i \in Nat /\ n + 1 \in Nat /\ n + 2 \in Nat
    BY <1>1
  <2>2. Cardinality(Since(G, i, n + 2)) >= Cardinality(Since(F, i, n + 1))
    BY SinceGrows
  <2>3. Cardinality(Since(G, i, n + 2)) \in Nat /\ Cardinality(Since(F, i, n + 1)) \in Nat
    BY <2>1, SinceIsFinite
  <2> QED BY <1>4, <2>1, <2>2, <2>3, WindowAssumption
<1> HIDE DEF G, n, ids, new
<1>5. CASE f.type = "created"
  <2>1. n = 0 /\ ~Scrape(f)
    BY <1>5 DEF n, Scrape
  <2>2. \A i \in DOMAIN G : ~Scrape(G[i])
    BY <1>1, <2>1
  <2> QED BY <2>2 DEF Remembers, G
<1>6. CASE f.type # "created" /\ ~Scrape(f)
  <2>1. new = ids
    <3>1. CASE f.type = "scraped"
      <4>1. Remembered(Folded(F).ids, f.req) = Folded(F).ids
        BY <1>6, <3>1 DEF Scrape, Remembered
      <4> QED BY <1>3, <3>1, <4>1 DEF Applied, new, ids
    <3>2. CASE f.type = "pending"
      BY <1>2, <1>3, <3>2 DEF Applied, new, ids, States
    <3> QED BY <1>6, <3>1, <3>2, FactIs
  <2>2. ASSUME NEW i \in 1..n, Scrape(F[i]), Kept(F, ids, i) PROVE Kept(G, new, i)
    <3>1. PICK p \in 1..Len(ids) :
              /\ ids[p] = F[i].req
              /\ \A r \in p+1..Len(ids) : \E k \in i+1..n : F[k].type = "scraped" /\ F[k].req = ids[r]
      BY <2>2 DEF Kept, n
    <3>2. \A k \in i+1..n : k \in i+1..(n + 1) /\ G[k] = F[k]
      BY <1>1
    <3> QED BY <1>1, <2>1, <3>1, <3>2 DEF Kept
  <2>3. ASSUME NEW i \in 1..(n + 1), Scrape(G[i]) PROVE i \in 1..n /\ G[i] = F[i]
    BY <1>1, <1>6, <2>3
  <2>4. ASSUME NEW i \in 1..n, Scrape(F[i])
        PROVE  Kept(F, ids, i) \/ Cardinality(Since(F, i, n + 1)) >= Window
    BY <1>1, <2>4 DEF Remembers, n, ids
  <2>5. \A i \in 1..(n + 1) : Scrape(G[i]) => Kept(G, new, i) \/ Cardinality(Since(G, i, Len(G) + 1)) >= Window
    BY <1>4, <2>2, <2>3, <2>4
  <2> QED BY <1>1, <2>5 DEF Remembers, G, new
<1>7. CASE Scrape(f)
  <2>0. f.type = "scraped" /\ f.req # Manual /\ f.req \in Requests /\ ~Contains(ids, f.req)
    BY <1>7, FactIs DEF Scrape, ids
  <2>1. new = Remembered(ids, f.req)
    BY <1>3, <2>0 DEF Applied, new, ids
  <2>2. ASSUME NEW i \in 1..n, Scrape(F[i])
        PROVE  Kept(F, ids, i) \/ Cardinality(Since(F, i, n + 1)) >= Window
    BY <1>1, <2>2 DEF Remembers, n, ids
  <2>3. CASE Len(ids) < Window
    <3>1. new = Append(ids, f.req)
      BY <2>0, <2>1, <2>3 DEF Remembered
    <3>2. /\ Len(new) = Len(ids) + 1 /\ new[Len(ids) + 1] = f.req
          /\ \A r \in 1..Len(ids) : new[r] = ids[r]
      BY <1>2, <3>1
    <3>3. ASSUME NEW i \in 1..n, Kept(F, ids, i) PROVE Kept(G, new, i)
      <4>1. PICK p \in 1..Len(ids) :
                /\ ids[p] = F[i].req
                /\ \A r \in p+1..Len(ids) : \E k \in i+1..n : F[k].type = "scraped" /\ F[k].req = ids[r]
        BY <3>3 DEF Kept, n
      <4>2. p \in 1..Len(new) /\ new[p] = G[i].req
        BY <1>1, <1>2, <3>2, <4>1
      <4>3. ASSUME NEW r \in p+1..Len(new)
            PROVE  \E k \in i+1..(n + 1) : G[k].type = "scraped" /\ G[k].req = new[r]
        <5>1. CASE r = Len(ids) + 1
          <6>1. n + 1 \in i+1..(n + 1)
            BY <1>1
          <6> QED BY <1>1, <2>0, <3>2, <5>1, <6>1
        <5>2. CASE r # Len(ids) + 1
          <6>1. r \in p+1..Len(ids) /\ r \in 1..Len(ids)
            BY <1>2, <3>2, <5>2
          <6>2. PICK k \in i+1..n : F[k].type = "scraped" /\ F[k].req = ids[r]
            BY <4>1, <6>1
          <6>3. k \in i+1..(n + 1) /\ G[k] = F[k]
            BY <1>1
          <6> QED BY <3>2, <6>1, <6>2, <6>3
        <5> QED BY <5>1, <5>2
      <4> QED BY <1>1, <4>2, <4>3 DEF Kept
    <3>4. Kept(G, new, n + 1)
      <4>1. Len(new) \in 1..Len(new) /\ Len(new)+1..Len(new) = {} /\ new[Len(new)] = G[n + 1].req
        BY <1>1, <1>2, <3>2
      <4> QED BY <4>1 DEF Kept
    <3>5. \A i \in 1..(n + 1) : Scrape(G[i]) => Kept(G, new, i) \/ Cardinality(Since(G, i, Len(G) + 1)) >= Window
      <4> SUFFICES ASSUME NEW i \in 1..(n + 1), Scrape(G[i])
                   PROVE  Kept(G, new, i) \/ Cardinality(Since(G, i, Len(G) + 1)) >= Window
        OBVIOUS
      <4>1. CASE i = n + 1
        BY <3>4, <4>1
      <4>2. CASE i \in 1..n
        BY <1>1, <1>4, <2>2, <3>3, <4>2
      <4> QED BY <1>1, <4>1, <4>2
    <3> QED BY <1>1, <3>5 DEF Remembers, G, new
  <2>4. CASE ~(Len(ids) < Window)
    <3>0. Len(ids) = Window /\ Window \in Nat \ {0} /\ ids # << >>
      <4>1. Len(ids) \in Nat /\ Len(ids) <= Window
        BY <1>2
      <4>2. Len(ids) = Window /\ Window \in Nat \ {0}
        BY <2>4, <4>1, WindowAssumption
      <4>3. ids # << >>
        BY <4>2
      <4> QED BY <4>2, <4>3
    <3>1. new = Append(Tail(ids), f.req)
      BY <2>0, <2>1, <2>4 DEF Remembered
    <3>2. /\ Len(new) = Len(ids) /\ new[Len(ids)] = f.req
          /\ \A r \in 1..(Len(ids) - 1) : new[r] = ids[r + 1]
      BY <1>2, <3>0, <3>1
    <3>3. new \in IdLists
      BY <1>2, <2>0, <2>1, RememberedIs
    <3>4. ASSUME NEW i \in 1..n, Kept(F, ids, i)
          PROVE  Kept(G, new, i) \/ Cardinality(Since(G, i, Len(G) + 1)) >= Window
      <4>1. PICK p \in 1..Len(ids) :
                /\ ids[p] = F[i].req
                /\ \A r \in p+1..Len(ids) : \E k \in i+1..n : F[k].type = "scraped" /\ F[k].req = ids[r]
        BY <3>4 DEF Kept, n
      <4>2. ASSUME NEW r \in p..Len(new)
            PROVE  \E k \in i+1..(n + 1) : G[k].type = "scraped" /\ G[k].req = new[r]
        <5>1. CASE r = Len(ids)
          <6>1. n + 1 \in i+1..(n + 1)
            BY <1>1
          <6> QED BY <1>1, <2>0, <3>2, <5>1, <6>1
        <5>2. CASE r # Len(ids)
          <6>0. r \in p..Len(ids) /\ p \in 1..Len(ids)
            BY <3>2
          <6>1. r + 1 \in p+1..Len(ids) /\ r \in 1..(Len(ids) - 1)
            BY <3>0, <5>2, <6>0
          <6>2. PICK k \in i+1..n : F[k].type = "scraped" /\ F[k].req = ids[r + 1]
            BY <4>1, <6>1
          <6>3. k \in i+1..(n + 1) /\ G[k] = F[k]
            BY <1>1
          <6> QED BY <3>2, <6>1, <6>2, <6>3
        <5> QED BY <5>1, <5>2
      <4>3. CASE p > 1
        <5>1. p - 1 \in 1..Len(new) /\ new[p - 1] = G[i].req /\ (p - 1) + 1 = p
          BY <1>1, <1>2, <3>2, <4>1, <4>3
        <5> QED BY <1>1, <4>2, <5>1 DEF Kept
      <4>4. CASE p = 1
        <5> DEFINE S == Since(G, i, Len(G) + 1)
        <5>1. IsFiniteSet(S) /\ Cardinality(S) \in Nat
          BY <1>1, SinceIsFinite
        <5>2. ASSUME NEW r \in 1..Window PROVE new[r] \in S
          <6>1. PICK k \in i+1..(n + 1) : G[k].type = "scraped" /\ G[k].req = new[r]
            BY <3>0, <3>2, <4>2, <4>4
          <6>2. k \in i+1..(Len(G) + 1)-1
            BY <1>1, <6>1
          <6>3. new[r] # Manual
            <7>1. r \in 1..Len(new)
              BY <3>0, <3>2
            <7> QED BY <3>3, <7>1, IdsAre
          <6> QED BY <6>1, <6>2, <6>3 DEF Since
        <5> DEFINE g == [r \in 1..Window |-> new[r]]
        <5>3. g \in [1..Window -> S]
          BY <5>2
        <5>4. \A x, y \in 1..Window : g[x] = g[y] => x = y
          BY <3>0, <3>2, <3>3, IdsAre
        <5> HIDE DEF g, S
        <5>5. Window <= Cardinality(S)
          BY <3>0, <5>1, <5>3, <5>4, ManyDistinct
        <5> QED BY <3>0, <5>1, <5>5 DEF S
      <4> QED BY <4>1, <4>3, <4>4
    <3>5. Kept(G, new, n + 1)
      <4>1. Len(new) \in 1..Len(new) /\ Len(new)+1..Len(new) = {} /\ new[Len(new)] = G[n + 1].req
        BY <1>1, <3>0, <3>2
      <4> QED BY <4>1 DEF Kept
    <3>6. \A i \in 1..(n + 1) : Scrape(G[i]) => Kept(G, new, i) \/ Cardinality(Since(G, i, Len(G) + 1)) >= Window
      <4> SUFFICES ASSUME NEW i \in 1..(n + 1), Scrape(G[i])
                   PROVE  Kept(G, new, i) \/ Cardinality(Since(G, i, Len(G) + 1)) >= Window
        OBVIOUS
      <4>1. CASE i = n + 1
        BY <3>5, <4>1
      <4>2. CASE i \in 1..n
        BY <1>1, <1>4, <2>2, <3>4, <4>2
      <4> QED BY <1>1, <4>1, <4>2
    <3> QED BY <1>1, <3>6 DEF Remembers, G, new
  <2> QED BY <2>3, <2>4
<1> QED BY <1>5, <1>6, <1>7

-----------------------------------------------------------------------------
(* The inductive invariant.                                                *)

HeldRec   == [artist : Artists \cup {"none"}, version : Nat, state : States]
CallerRec == [pc : Pcs, artist : Artists \cup {"none"}, missing : BOOLEAN, version : Nat,
              state : States, seq : Nat, heals : BOOLEAN, held : HeldRec]
FrameRec  == [version : Nat, seq : Nat, state : States, schema : {"none", "old", "current"}]
Types ==
    /\ mode \in {"sqlite", "jetstream"} /\ snap \in [Artists -> FrameRec]
    /\ caller \in [Callers -> CallerRec] /\ faults \in Nat /\ rebuilds \in Nat /\ serial \in BOOLEAN

History == [a \in Artists |-> FactsOf(a)]

\* What the window is good for holds of every stream.
WindowsHold == \A a \in Artists : Remembers(History[a]) /\ NoDouble(History[a])

\* A frame is the fold of as many facts as its version says.
FrameOK(frame, facts) ==
    /\ frame.version \in 0..Len(facts) /\ (frame.version = 0 => frame = NoSnap)
    /\ frame.schema = "current" => frame.state = Folded(SubSeq(facts, 1, frame.version))
FramesHold == \A a \in Artists : FrameOK(snap[a], History[a])

\* So is what a caller has in its hands, whatever others have saved since.
CallerOK(me, H, m) ==
    /\ me.pc = "idle" => me = Resting
    /\ me.pc # "idle" => me.artist \in Artists
    /\ me.pc \in {"verify", "put"} => m = "jetstream"
    /\ me.pc \in {"verify", "tail", "ready", "freeze", "put"} => me.version \in 0..Len(H[me.artist])
    /\ me.pc \in {"verify", "tail", "freeze", "put"} => me.version > 0
    /\ me.pc \in {"tail", "ready", "freeze", "put"} \/ (me.pc = "verify" /\ ~me.missing)
           => me.state = Folded(SubSeq(H[me.artist], 1, me.version))
    /\ me.heals => me.pc \in {"freeze", "put"}
    /\ me.held = IF me.pc = "ready" \/ me.heals
                 THEN [artist |-> me.artist, version |-> me.version, state |-> me.state] ELSE Nothing
CallersHold == \A c \in Callers : CallerOK(caller[c], History, mode)

\* Until the log is rebuilt, when nobody is at work, the record a tail starts
\* behind is anchored: it is the one that was verified, or was stored since.
Pinned(D, a, version, seq) == seq \in DOMAIN D /\ D[seq].artist = a /\ D[seq].version = version
AnchorOK(me, m, S, D) ==
    LET frame == S[me.artist]
    IN  m = "jetstream" =>
            /\ me.pc = "tail" /\ frame.version = me.version => Pinned(D, me.artist, frame.version, frame.seq)
            /\ me.pc = "verify" /\ frame.version = me.version
                   => frame.seq = me.seq \/ Pinned(D, me.artist, frame.version, frame.seq)
            /\ me.pc = "put" => Pinned(D, me.artist, me.version, me.seq)
AnchorsHold == \A c \in Callers : AnchorOK(caller[c], mode, snap, domain)

\* While nobody was disturbed, a frame is of the interval its artist is in,
\* unless a caller is about to store the next, and a caller sees all there is.
Undisturbed == serial /\ faults = 0
Usables     == {a \in Artists : Usable(a)}
Near(a, H, U, S) == Len(H[a]) - (IF a \in U THEN S[a].version ELSE 0) < Interval
FreshAt(a, H, S) == S[a].schema = "current" => S[a].version \div Interval = Len(H[a]) \div Interval
Freezes(me)      == me.pc \in {"freeze", "put"}
Sees(me, H, U, S) ==
    LET a == me.artist  frame == S[a]
    IN  /\ me.pc \in {"freeze", "put", "ready"} => me.version = Len(H[a])
        /\ me.pc = "ready" => Near(a, H, U, S)
        /\ me.pc = "full" => me.missing /\ a \notin U
        /\ me.pc = "tail" => a \in U /\ frame.version = me.version
        /\ me.pc = "verify" => /\ frame.version = me.version /\ frame.seq = me.seq
                               /\ me.missing = (frame.schema # "current")
SerialOK(C, H, U, S) ==
    /\ \A c, d \in Callers : C[c].pc # "idle" /\ C[d].pc # "idle" => c = d
    /\ \A a \in Artists : FreshAt(a, H, S) \/ \E c \in Callers : Freezes(C[c]) /\ C[c].artist = a
    /\ \A c \in Callers : Sees(C[c], H, U, S)
SerialHolds == Undisturbed => SerialOK(caller, History, Usables, snap)

SafeInv == Types /\ LogSound /\ WindowsHold /\ FramesHold /\ CallersHold /\ AnchorsHold
IInv    == SafeInv /\ SerialHolds

-----------------------------------------------------------------------------
(* How the log changes.                                                    *)

\* The list F tells an artist's events in the log D.
Told(D, a, F) ==
    /\ F \in Seq(Facts)
    /\ \A i \in DOMAIN D : D[i].artist = a => D[i].version \in 1..Len(F) /\ F[D[i].version] = D[i].fact
    /\ \A v \in 1..Len(F) : \E i \in DOMAIN D : D[i].artist = a /\ D[i].version = v

\* A log tells one list of facts for an artist.
LEMMA ToldOnce ==
  ASSUME NEW D, NEW a, NEW F, NEW G, Told(D, a, F), Told(D, a, G)
  PROVE  F = G
<1>1. ASSUME NEW X, NEW Y, Told(D, a, X), Told(D, a, Y) PROVE Len(X) <= Len(Y)
  <2>1. Len(X) \in Nat /\ Len(Y) \in Nat
    BY <1>1 DEF Told
  <2>2. CASE Len(X) = 0
    BY <2>1, <2>2
  <2>3. CASE Len(X) > 0
    <3>1. PICK i \in DOMAIN D : D[i].artist = a /\ D[i].version = Len(X)
      BY <1>1, <2>1, <2>3 DEF Told
    <3>2. Len(X) \in 1..Len(Y)
      BY <1>1, <3>1 DEF Told
    <3> QED BY <2>1, <3>2
  <2> QED BY <2>1, <2>2, <2>3
<1>2. Len(F) \in Nat /\ Len(G) \in Nat /\ F \in Seq(Facts) /\ G \in Seq(Facts)
  BY DEF Told
<1>3. Len(F) = Len(G)
  <2>1. Len(F) <= Len(G) /\ Len(G) <= Len(F)
    BY <1>1
  <2> QED BY <1>2, <2>1
<1>4. ASSUME NEW v \in 1..Len(F) PROVE F[v] = G[v]
  <2>1. PICK i \in DOMAIN D : D[i].artist = a /\ D[i].version = v
    BY DEF Told
  <2> QED BY <2>1 DEF Told
<1> QED BY <1>2, <1>3, <1>4

\* History is that list.
LEMMA HistoryTells ==
  LogSound => /\ History \in [Artists -> Seq(Facts)]
              /\ \A a \in Artists : /\ Told(domain, a, History[a]) /\ History[a] = FactsOf(a)
                                    /\ Version(a) = Len(History[a]) /\ Len(History[a]) \in Nat
<1> SUFFICES ASSUME LogSound PROVE \A a \in Artists : /\ Told(domain, a, FactsOf(a))
                                                      /\ Version(a) = Len(FactsOf(a)) /\ Version(a) \in Nat
                                                      /\ FactsOf(a) \in Seq(Facts)
  BY DEF History
<1> TAKE a \in Artists
<1>1. ByVersion(a)
  BY FactsByVersion
<1> QED BY <1>1 DEF ByVersion, Told, EventsOf

\* The same of the next state.
LEMMA HistoryTellsNext ==
  LogSound' => /\ History' \in [Artists -> Seq(Facts)]
               /\ \A a \in Artists : /\ Told(domain', a, History'[a]) /\ History'[a] = FactsOf(a)'
                                     /\ Version(a)' = Len(History'[a]) /\ Len(History'[a]) \in Nat
<1>1. (LogSound => /\ History \in [Artists -> Seq(Facts)]
                   /\ \A a \in Artists : /\ Told(domain, a, History[a]) /\ History[a] = FactsOf(a)
                                         /\ Version(a) = Len(History[a]) /\ Len(History[a]) \in Nat)'
  BY HistoryTells, PTL
<1> QED BY <1>1

\* The events that a save adds.
Added(a, facts) == [i \in DOMAIN facts |-> [artist |-> a, version |-> Version(a) + i, fact |-> facts[i]]]

\* The parts of a joined list.
LEMMA AppendIs ==
  ASSUME NEW F, NEW u \in Seq(F), NEW v \in Seq(F)
  PROVE  /\ u \o v \in Seq(F) /\ Len(u \o v) = Len(u) + Len(v) /\ Len(u) \in Nat /\ Len(v) \in Nat
         /\ DOMAIN u = 1..Len(u) /\ DOMAIN v = 1..Len(v) /\ DOMAIN (u \o v) = 1..(Len(u) + Len(v))
         /\ \A i \in 1..Len(u) : (u \o v)[i] = u[i]
         /\ \A i \in Len(u)+1..Len(u)+Len(v) : (u \o v)[i] = v[i - Len(u)] /\ i - Len(u) \in 1..Len(v)
OBVIOUS

\* Appending the next versions leaves the log sound and every anchor in place.
LEMMA LogGrows ==
  ASSUME LogSound, NEW a \in Artists, NEW facts \in Seq(Facts), domain' = domain \o Added(a, facts)
  PROVE  /\ LogSound' /\ History' = [History EXCEPT ![a] = @ \o facts]
         /\ \A b, v, s : Anchored(b, v, s) => Anchored(b, v, s)'
<1> DEFINE n == Len(domain)
           m == Len(facts)
           H == [History EXCEPT ![a] = @ \o facts]
           V == Version(a)
           D == domain'
<1>0. /\ n \in Nat /\ m \in Nat /\ DOMAIN domain = 1..n /\ domain \in Seq(Events)
      /\ History \in [Artists -> Seq(Facts)] /\ V = Len(History[a]) /\ V \in Nat
      /\ \A b \in Artists : Told(domain, b, History[b])
  <2>1. domain \in Seq(Events)
    BY DEF LogSound
  <2> QED BY <2>1, HistoryTells
<1>1. /\ Added(a, facts) \in Seq(Events) /\ Len(Added(a, facts)) = m
      /\ \A k \in 1..m : Added(a, facts)[k] = [artist |-> a, version |-> V + k, fact |-> facts[k]]
  <2>1. DOMAIN facts = 1..m /\ \A k \in 1..m : facts[k] \in Facts
    OBVIOUS
  <2>2. ASSUME NEW k \in 1..m PROVE [artist |-> a, version |-> V + k, fact |-> facts[k]] \in Events
    <3>1. V + k \in Nat \ {0}
      BY <1>0
    <3> QED BY <2>1, <3>1 DEF Events
  <2> QED BY <1>0, <2>1, <2>2 DEF Added
<1>2. /\ D \in Seq(Events) /\ Len(D) = n + m /\ DOMAIN D = 1..(n + m)
      /\ \A i \in 1..n : D[i] = domain[i]
      /\ \A i \in n+1..n+m : /\ D[i].artist = a /\ D[i].version = V + (i - n)
                             /\ D[i].fact = facts[i - n] /\ i - n \in 1..m
  <2> DEFINE new == Added(a, facts)
  <2>1. new \in Seq(Events) /\ Len(new) = m
    BY <1>1
  <2> HIDE DEF new
  <2>2. domain' = domain \o new
    BY DEF new
  <2>3. /\ D \in Seq(Events) /\ Len(D) = n + m /\ DOMAIN D = 1..(n + m)
        /\ \A i \in 1..n : D[i] = domain[i]
        /\ \A i \in n+1..n+m : D[i] = new[i - n] /\ i - n \in 1..m
    BY <1>0, <2>1, <2>2, AppendIs
  <2>4. ASSUME NEW i \in n+1..n+m
        PROVE  /\ D[i].artist = a /\ D[i].version = V + (i - n)
               /\ D[i].fact = facts[i - n] /\ i - n \in 1..m
    <3> DEFINE k == i - n
    <3>1. k \in 1..m /\ D[i] = new[k]
      BY <2>3
    <3> HIDE DEF k
    <3>2. D[i] = [artist |-> a, version |-> V + k, fact |-> facts[k]]
      BY <1>1, <3>1 DEF new
    <3> QED BY <3>1, <3>2 DEF k
  <2> HIDE DEF n, m, V, D
  <2> QED BY <2>3, <2>4
<1> HIDE DEF n, m, V, D
<1>3. \A i \in 1..(n + m) : i \in 1..n \/ i \in n+1..n+m
  BY <1>0
<1>. DEFINE F == History[a]
<1>11. /\ \A i \in 1..n : domain[i].artist = a => domain[i].version \in 1..V /\ F[domain[i].version] = domain[i].fact
      /\ \A v \in 1..V : \E i \in 1..n : domain[i].artist = a /\ domain[i].version = v
  <2>1. Told(domain, a, F)
    BY <1>0
  <2> QED BY <1>0, <2>1 DEF Told
<1>4. ASSUME NEW i \in 1..n, domain[i].artist = a PROVE domain[i].version <= V /\ domain[i].version \in Nat
  <2>1. domain[i].version \in 1..V
    BY <1>11, <1>4
  <2> QED BY <1>0, <2>1
<1>5. ASSUME NEW i \in 1..(n + m), NEW j \in 1..(n + m), i < j, D[i].artist = D[j].artist
      PROVE  D[i].version < D[j].version
  <2>1. CASE j \in 1..n
    <3>1. i \in 1..n /\ D[i] = domain[i] /\ D[j] = domain[j]
      BY <1>0, <1>2, <1>5, <2>1
    <3> QED BY <1>0, <1>5, <2>1, <3>1 DEF LogSound
  <2>2. CASE i \in 1..n /\ j \in n+1..n+m
    <3>1. D[i] = domain[i] /\ D[j].artist = a /\ D[j].version = V + (j - n) /\ j - n \in 1..m
      BY <1>2, <2>2
    <3>2. domain[i].version <= V /\ domain[i].version \in Nat
      BY <1>4, <1>5, <2>2, <3>1
    <3> QED BY <1>0, <3>1, <3>2
  <2>3. CASE i \in n+1..n+m /\ j \in n+1..n+m
    <3>1. D[i].version = V + (i - n) /\ D[j].version = V + (j - n)
      BY <1>2, <2>3
    <3> QED BY <1>0, <1>5, <2>3, <3>1
  <2> QED BY <1>0, <1>3, <1>5, <2>1, <2>2, <2>3
<1>6. ASSUME NEW i \in 1..(n + m), D[i].version > 1
      PROVE  \E j \in 1..(n + m) : D[j].artist = D[i].artist /\ D[j].version = D[i].version - 1
  <2>1. CASE i \in 1..n
    <3>0. D[i] = domain[i]
      BY <1>2, <2>1
    <3>1. PICK j \in EventsOf(domain[i].artist) : domain[j].version = domain[i].version - 1
      BY <1>0, <1>6, <2>1, <3>0 DEF LogSound
    <3>2. j \in 1..n /\ domain[j].artist = domain[i].artist
      BY <1>0, <3>1 DEF EventsOf
    <3>3. j \in 1..(n + m) /\ D[j] = domain[j]
      BY <1>0, <1>2, <3>2
    <3> QED BY <3>0, <3>1, <3>2, <3>3
  <2>2. CASE i = n + 1 /\ i \in n+1..n+m
    <3>1. D[i].artist = a /\ D[i].version = V + (i - n)
      BY <1>2, <2>2
    <3>2. D[i].version - 1 = V /\ V \in 1..V
      BY <1>0, <1>6, <2>2, <3>1
    <3>3. PICK j \in 1..n : domain[j].artist = a /\ domain[j].version = V
      BY <1>11, <3>2
    <3>4. j \in 1..(n + m) /\ D[j] = domain[j]
      BY <1>0, <1>2
    <3> QED BY <3>1, <3>2, <3>3, <3>4
  <2>3. CASE i # n + 1 /\ i \in n+1..n+m
    <3>1. i - 1 \in n+1..n+m /\ i - 1 \in 1..(n + m)
      BY <1>0, <2>3
    <3>2. D[i].artist = a /\ D[i].version = V + (i - n) /\ D[i - 1].artist = a /\ D[i - 1].version = V + ((i - 1) - n)
      BY <1>2, <2>3, <3>1
    <3>3. D[i - 1].version = D[i].version - 1
      BY <1>0, <3>2
    <3> QED BY <3>1, <3>2, <3>3
  <2> QED BY <1>3, <2>1, <2>2, <2>3
<1>7. LogSound'
  <2>1. D \in Seq(Events) /\ DOMAIN D = 1..(n + m)
    BY <1>2
  <2>2. \A i, j \in DOMAIN domain' :
          i < j /\ domain'[i].artist = domain'[j].artist => domain'[i].version < domain'[j].version
    BY <1>5, <2>1 DEF D
  <2>3. \A i \in DOMAIN domain' : domain'[i].version > 1 => \E j \in DOMAIN domain' :
          domain'[j].artist = domain'[i].artist /\ domain'[j].version = domain'[i].version - 1
    BY <1>6, <2>1 DEF D
  <2> QED BY <2>1, <2>2, <2>3 DEF LogSound, EventsOf, D
<1>8. ASSUME NEW b \in Artists PROVE Told(D, b, H[b])
  <2>1. CASE b # a
    <3>1. H[b] = History[b] /\ Told(domain, b, History[b])
      BY <1>0, <2>1
    <3>2. ASSUME NEW i \in 1..(n + m), D[i].artist = b PROVE i \in 1..n /\ D[i] = domain[i]
      BY <1>2, <1>3, <2>1, <3>2
    <3>3. \A i \in 1..n : i \in 1..(n + m)
      BY <1>0
    <3> DEFINE G == History[b]
    <3>4. /\ G \in Seq(Facts)
          /\ \A i \in 1..n : domain[i].artist = b => domain[i].version \in 1..Len(G) /\ G[domain[i].version] = domain[i].fact
          /\ \A v \in 1..Len(G) : \E i \in 1..n : domain[i].artist = b /\ domain[i].version = v
      BY <1>0, <3>1 DEF Told
    <3> HIDE DEF H, G
    <3>5. \A i \in 1..(n + m) : D[i].artist = b => D[i].version \in 1..Len(G) /\ G[D[i].version] = D[i].fact
      BY <3>2, <3>4
    <3>6. \A v \in 1..Len(G) : \E i \in 1..(n + m) : D[i].artist = b /\ D[i].version = v
      BY <1>2, <3>3, <3>4
    <3>7. Told(D, b, G)
      BY <1>2, <3>4, <3>5, <3>6 DEF Told
    <3> QED BY <3>1, <3>7 DEF G
  <2>2. CASE b = a
    <3> DEFINE G == F \o facts
    <3>1. /\ H[a] = G /\ G \in Seq(Facts) /\ Len(G) = V + m /\ \A v \in 1..V : G[v] = F[v]
          /\ \A v \in V+1..V+m : G[v] = facts[v - V] /\ v - V \in 1..m
      BY <1>0, AppendIs DEF m
    <3> HIDE DEF H, G, F
    <3>2. ASSUME NEW i \in 1..(n + m), D[i].artist = a
          PROVE  D[i].version \in 1..(V + m) /\ G[D[i].version] = D[i].fact
      <4>1. CASE i \in 1..n
        <5>1. D[i] = domain[i] /\ domain[i].version \in 1..V /\ F[domain[i].version] = domain[i].fact
          BY <1>11, <1>2, <3>2, <4>1
        <5>2. domain[i].version \in 1..(V + m)
          BY <1>0, <5>1
        <5> QED BY <3>1, <5>1, <5>2
      <4>2. CASE i \in n+1..n+m
        <5>1. D[i].version = V + (i - n) /\ D[i].fact = facts[i - n] /\ i - n \in 1..m
          BY <1>2, <4>2
        <5>2. V + (i - n) \in V+1..V+m /\ V + (i - n) \in 1..(V + m) /\ (V + (i - n)) - V = i - n
          <6>1. V \in Nat /\ m \in Nat
            BY <1>0
          <6>2. \A k \in 1..m : V + k \in V+1..V+m /\ V + k \in 1..(V + m) /\ (V + k) - V = k
            BY <6>1
          <6> QED BY <5>1, <6>2
        <5> QED BY <3>1, <5>1, <5>2
      <4> QED BY <1>3, <4>1, <4>2
    <3>3. ASSUME NEW v \in 1..(V + m) PROVE \E i \in 1..(n + m) : D[i].artist = a /\ D[i].version = v
      <4>1. CASE v \in 1..V
        <5>1. PICK i \in 1..n : domain[i].artist = a /\ domain[i].version = v
          BY <1>11, <4>1
        <5>2. i \in 1..(n + m) /\ D[i] = domain[i]
          BY <1>0, <1>2
        <5> QED BY <5>1, <5>2
      <4>2. CASE v \notin 1..V
        <5> DEFINE i == n + (v - V)
        <5>1. i \in n+1..n+m /\ i \in 1..(n + m) /\ V + (i - n) = v
          BY <1>0, <4>2
        <5> HIDE DEF i
        <5>2. D[i].artist = a /\ D[i].version = v
          BY <1>2, <5>1
        <5> QED BY <5>1, <5>2
      <4> QED BY <4>1, <4>2
    <3> QED BY <1>2, <2>2, <3>1, <3>2, <3>3 DEF Told
  <2> QED BY <2>1, <2>2
<1>9. History' = H
  <2>1. History' \in [Artists -> Seq(Facts)] /\ \A b \in Artists : Told(D, b, History'[b])
    BY <1>7, HistoryTellsNext DEF D
  <2>2. \A b \in Artists : History'[b] = H[b]
    BY <1>8, <2>1, ToldOnce
  <2>3. DOMAIN H = Artists /\ H = [b \in Artists |-> H[b]]
    BY <1>0
  <2> HIDE DEF H
  <2> QED BY <2>1, <2>2, <2>3
<1>10. ASSUME NEW b, NEW v, NEW s, Anchored(b, v, s) PROVE Anchored(b, v, s)'
  <2>1. s \in 1..n /\ domain[s].artist = b /\ domain[s].version = v
    BY <1>0, <1>10 DEF Anchored
  <2>2. s \in DOMAIN D /\ D[s] = domain[s]
    BY <1>0, <1>2, <2>1
  <2> QED BY <2>1, <2>2 DEF Anchored, D
<1> QED BY <1>7, <1>9, <1>10

-----------------------------------------------------------------------------
(* Prefixes and tails of a stream.                                         *)

\* A prefix of a list of facts.
LEMMA PrefixIs ==
  ASSUME NEW F \in Seq(Facts), NEW v \in 0..Len(F)
  PROVE  /\ SubSeq(F, 1, v) \in Seq(Facts) /\ Len(SubSeq(F, 1, v)) = v
         /\ \A k \in 1..v : SubSeq(F, 1, v)[k] = F[k]
OBVIOUS

\* The longest prefix is the list.
LEMMA WholePrefix ==
  ASSUME NEW F \in Seq(Facts) PROVE SubSeq(F, 1, Len(F)) = F
OBVIOUS

\* A prefix stays when the list grows.
LEMMA PrefixStays ==
  ASSUME NEW F \in Seq(Facts), NEW G \in Seq(Facts), NEW v \in 0..Len(F)
  PROVE  v \in 0..Len(F \o G) /\ SubSeq(F \o G, 1, v) = SubSeq(F, 1, v)
<1> DEFINE W == F \o G
<1>1. W \in Seq(Facts) /\ Len(W) = Len(F) + Len(G) /\ Len(F) \in Nat /\ Len(G) \in Nat
      /\ \A k \in 1..Len(F) : W[k] = F[k]
  BY AppendIs
<1> HIDE DEF W
<1>2. v \in 0..Len(W)
  BY <1>1
<1>3. /\ SubSeq(W, 1, v) \in Seq(Facts) /\ Len(SubSeq(W, 1, v)) = v
      /\ \A k \in 1..v : SubSeq(W, 1, v)[k] = W[k]
  BY <1>1, <1>2, PrefixIs
<1>4. \A k \in 1..v : W[k] = F[k]
  BY <1>1
<1>5. SubSeq(W, 1, v) = SubSeq(F, 1, v)
  <2> DEFINE P == SubSeq(W, 1, v)
             Q == SubSeq(F, 1, v)
  <2>1. P \in Seq(Facts) /\ Q \in Seq(Facts) /\ Len(P) = v /\ Len(Q) = v /\ \A k \in 1..v : P[k] = Q[k]
    BY <1>3, <1>4, PrefixIs
  <2> HIDE DEF P, Q
  <2>2. P = Q
    BY <2>1
  <2> QED BY <2>2 DEF P, Q
<1> QED BY <1>2, <1>5 DEF W

\* The state of a prefix and the tail behind it give the state of the stream.
LEMMA TailCompletes ==
  ASSUME LogSound, NEW a \in Artists, NEW v \in 0..Version(a)
  PROVE  FoldLeft(Applied, Folded(SubSeq(History[a], 1, v)), FactsAt(Later(a, v))) = Folded(History[a])
<1> DEFINE F == History[a]
           P == SubSeq(F, 1, v)
           T == FactsAt(Later(a, v))
           n == Version(a)
<1>1. ByVersion(a)
  BY FactsByVersion
<1>2. F \in Seq(Facts) /\ Len(F) = n /\ n \in Nat /\ F = FactsOf(a)
  BY HistoryTells
<1>3. T \in Seq(Facts) /\ Len(T) = n - v /\ \A k \in 1..(n - v) : T[k] = F[v + k]
  <2>1. \A u \in 0..Version(a) :
          /\ FactsAt(Later(a, u)) \in Seq(Facts) /\ Len(FactsAt(Later(a, u))) = Version(a) - u
          /\ \A k \in 1..(Version(a) - u) : FactsAt(Later(a, u))[k] = FactsOf(a)[u + k]
    BY <1>1, Zenon DEF ByVersion
  <2>2. F = FactsOf(a)
    BY <1>2
  <2> HIDE DEF F
  <2> QED BY <2>1, <2>2, Zenon
<1>4. P \in Seq(Facts) /\ Len(P) = v /\ \A k \in 1..v : P[k] = F[k]
  BY <1>2, PrefixIs
<1>5. v \in Nat /\ v <= n
  BY <1>2
<1> HIDE DEF F, P, T, n
<1>6. P \o T = F
  <2> DEFINE W == P \o T
  <2>1. /\ W \in Seq(Facts) /\ Len(W) = v + (n - v) /\ \A i \in 1..v : W[i] = P[i]
        /\ \A i \in v+1..v+(n-v) : W[i] = T[i - v] /\ i - v \in 1..(n - v)
    <3>1. /\ W \in Seq(Facts) /\ Len(W) = Len(P) + Len(T) /\ \A i \in 1..Len(P) : W[i] = P[i]
          /\ \A i \in Len(P)+1..Len(P)+Len(T) : W[i] = T[i - Len(P)] /\ i - Len(P) \in 1..Len(T)
      <4>1. P \in Seq(Facts) /\ T \in Seq(Facts)
        BY <1>3, <1>4
      <4>2. \A u, w \in Seq(Facts) :
              /\ u \o w \in Seq(Facts) /\ Len(u \o w) = Len(u) + Len(w)
              /\ \A i \in 1..Len(u) : (u \o w)[i] = u[i]
              /\ \A i \in Len(u)+1..Len(u)+Len(w) : (u \o w)[i] = w[i - Len(u)] /\ i - Len(u) \in 1..Len(w)
        BY AppendIs
      <4> HIDE DEF W
      <4> QED BY <4>1, <4>2, Zenon DEF W
    <3> HIDE DEF W
    <3> QED BY <1>3, <1>4, <3>1
  <2> HIDE DEF W
  <2>2. Len(W) = n /\ v + (n - v) = n
    BY <1>2, <1>5, <2>1
  <2>3. ASSUME NEW i \in 1..n PROVE W[i] = F[i]
    <3>1. CASE i \in 1..v
      BY <1>4, <2>1, <3>1
    <3>2. CASE i \notin 1..v
      <4>1. i \in v+1..v+(n-v)
        BY <1>2, <1>5, <3>2
      <4>2. W[i] = T[i - v] /\ i - v \in 1..(n - v) /\ v + (i - v) = i
        BY <1>5, <2>1, <4>1
      <4> QED BY <1>3, <4>2
    <3> QED BY <3>1, <3>2
  <2>4. W = F
    BY <1>2, <2>1, <2>2, <2>3
  <2> QED BY <2>4 DEF W
<1>7. FoldLeft(Applied, Unborn, P \o T) = FoldLeft(Applied, FoldLeft(Applied, Unborn, P), T)
  BY <1>3, <1>4, FoldConcat
<1> QED BY <1>6, <1>7 DEF Folded, F, P, T

\* The last event of a stream carries its version.
LEMMA TipIs ==
  ASSUME LogSound, NEW a \in Artists, Version(a) > 0
  PROVE  /\ Max(EventsOf(a)) \in EventsOf(a) /\ domain[Max(EventsOf(a))].version = Version(a)
         /\ \A i \in EventsOf(a) : domain[i].version = Version(a) => i = Max(EventsOf(a))
<1>1. ByVersion(a)
  BY FactsByVersion
<1>2. Version(a) \in 1..Version(a) /\ Version(a) \in Nat
  BY <1>1 DEF ByVersion
<1>3. PICK i \in EventsOf(a) : domain[i].version = Version(a)
  BY <1>1, <1>2 DEF ByVersion
<1>4. EventsOf(a) \in SUBSET (1..Len(domain)) /\ Len(domain) \in Nat
  BY DEF LogSound, EventsOf
<1> DEFINE tip == Max(EventsOf(a))
<1>5. tip \in EventsOf(a) /\ \A j \in EventsOf(a) : j <= tip
  BY <1>3, <1>4, GreatestExists
<1> HIDE DEF tip
<1>6. ASSUME NEW j \in EventsOf(a), domain[j].version = Version(a) PROVE j = tip
  <2>1. domain[tip].version \in 1..Version(a)
    BY <1>1, <1>5 DEF ByVersion
  <2>2. j <= tip /\ j \in 1..Len(domain) /\ tip \in 1..Len(domain)
    BY <1>4, <1>5
  <2>3. ~(j < tip)
    <3> SUFFICES ASSUME j < tip PROVE FALSE
      OBVIOUS
    <3>1. domain[j].version < domain[tip].version
      BY <1>5 DEF LogSound, EventsOf
    <3> QED BY <1>2, <1>6, <2>1, <3>1
  <2> QED BY <2>2, <2>3
<1> QED BY <1>3, <1>5, <1>6 DEF tip

\* What the stores read behind a version, if the record the consumer starts
\* behind is anchored.
LEMMA TailRead ==
  ASSUME LogSound, NEW a \in Artists, NEW v \in 1..Version(a), snap \in [Artists -> FrameRec],
         mode \in {"sqlite", "jetstream"},
         mode = "jetstream" /\ snap[a].version = v => Pinned(domain, a, v, snap[a].seq)
  PROVE  After(a, v) = Later(a, v) /\ Sound(a, v)
         /\ (IF Later(a, v) = {} THEN v ELSE domain[Max(Later(a, v))].version) = Version(a)
<1> DEFINE n == Version(a)
           tip == Max(EventsOf(a))
<1>1. ByVersion(a)
  BY FactsByVersion
<1>2. n \in Nat /\ v \in Nat /\ v <= n /\ n > 0 /\ v > 0
  BY <1>1 DEF ByVersion
<1>3. tip \in EventsOf(a) /\ domain[tip].version = n /\ \A i \in EventsOf(a) : domain[i].version = n => i = tip
  BY <1>2, TipIs
<1>4. \A i \in EventsOf(a) : domain[i].version \in 1..n /\ i \in Nat \ {0}
  BY <1>1, Logged DEF ByVersion
<1>5. \A i, j \in EventsOf(a) : i < j => domain[i].version < domain[j].version
  BY DEF LogSound, EventsOf
<1> HIDE DEF n, tip
<1>6. v = n => Later(a, v) = {}
  BY <1>2, <1>4 DEF Later
<1>7. n = v + 1 => Later(a, v) = {tip}
  BY <1>2, <1>3, <1>4 DEF Later
<1> DEFINE start == IF snap[a].version = v THEN snap[a].seq ELSE 0
           behind == {i \in EventsOf(a) : domain[i].version > v /\ i > start}
<1>8. mode = "jetstream" => behind = Later(a, v)
  <2> SUFFICES ASSUME mode = "jetstream", NEW i \in EventsOf(a), domain[i].version > v PROVE i > start
    BY DEF Later
  <2>1. CASE snap[a].version = v
    <3> DEFINE s == snap[a].seq
    <3>1. s \in EventsOf(a) /\ domain[s].version = v
      BY <2>1 DEF Pinned, EventsOf
    <3>2. s \in Nat /\ i \in Nat /\ domain[i].version \in Nat
      BY <1>4, <3>1
    <3>3. ~(i < s) /\ i # s
      BY <1>2, <1>5, <3>1, <3>2
    <3> HIDE DEF s
    <3>4. i > s
      BY <3>2, <3>3
    <3> QED BY <2>1, <3>4 DEF s
  <2>2. CASE snap[a].version # v
    BY <1>4, <2>2
  <2> QED BY <2>1, <2>2
<1>9. After(a, v) = Later(a, v)
  <2>1. CASE mode = "sqlite"
    BY <2>1 DEF After, Later
  <2>2. CASE mode = "jetstream" /\ domain[tip].version = v
    <3>1. After(a, v) = {}
      BY <2>2 DEF After, tip
    <3> QED BY <1>3, <1>6, <2>2, <3>1
  <2>3. CASE mode = "jetstream" /\ domain[tip].version # v /\ domain[tip].version = v + 1
    <3>1. After(a, v) = {tip}
      BY <2>3 DEF After, tip
    <3> QED BY <1>3, <1>7, <2>3, <3>1
  <2>4. CASE mode = "jetstream" /\ domain[tip].version # v /\ domain[tip].version # v + 1
    <3>1. After(a, v) = behind
      BY <2>4 DEF After, tip
    <3> QED BY <1>8, <2>4, <3>1
  <2> QED BY <2>1, <2>2, <2>3, <2>4
<1>10. Later(a, v) # {} => domain[Min(Later(a, v))].version = v + 1
  <2> SUFFICES ASSUME Later(a, v) # {} PROVE domain[Min(Later(a, v))].version = v + 1
    OBVIOUS
  <2>1. v + 1 \in 1..n
    BY <1>2, <1>4 DEF Later
  <2>2. PICK p \in EventsOf(a) : domain[p].version = v + 1
    BY <1>1, <2>1 DEF ByVersion, n
  <2>3. p \in Later(a, v) /\ \A i \in Later(a, v) : p <= i
    <3>1. p \in Later(a, v)
      BY <1>2, <2>2 DEF Later
    <3>2. ASSUME NEW i \in Later(a, v) PROVE ~(i < p)
      <4>1. i \in EventsOf(a) /\ domain[i].version > v /\ domain[i].version \in Nat
        BY <1>4 DEF Later
      <4> QED BY <1>2, <1>5, <2>2, <4>1
    <3>3. \A i \in Later(a, v) : i \in Nat /\ p \in Nat
      BY <1>4 DEF Later
    <3> QED BY <3>1, <3>2, <3>3
  <2>4. \A i \in Later(a, v) : i \in Nat
    BY <1>4 DEF Later
  <2>5. Min(Later(a, v)) = p
    BY <2>3, <2>4 DEF Min
  <2> QED BY <2>2, <2>5
<1>11. Sound(a, v)
  BY <1>2, <1>9, <1>10 DEF Sound, n
<1>12. Later(a, v) # {} => Max(Later(a, v)) = tip
  <2> SUFFICES ASSUME Later(a, v) # {} PROVE Max(Later(a, v)) = tip
    OBVIOUS
  <2>1. n > v
    BY <1>2, <1>4 DEF Later
  <2>2. tip \in Later(a, v)
    BY <1>3, <2>1 DEF Later
  <2>3. ASSUME NEW i \in Later(a, v) PROVE i <= tip
    <3>1. i \in EventsOf(a) /\ i \in Nat /\ tip \in Nat /\ domain[i].version \in 1..n
      BY <1>3, <1>4 DEF Later
    <3> QED BY <1>2, <1>3, <1>5, <3>1
  <2>4. \A i \in Later(a, v) : i \in Nat
    BY <1>4 DEF Later
  <2> QED BY <2>2, <2>3, <2>4 DEF Max
<1>13. Later(a, v) = {} => v = n
  BY <1>2, <1>3 DEF Later
<1> QED BY <1>3, <1>9, <1>11, <1>12, <1>13 DEF n

\* A renumbering without repetition uses every number.
LEMMA OntoAsWell ==
  ASSUME NEW n \in Nat, NEW order \in [1..n -> 1..n], IsInjective(order), NEW s \in 1..n
  PROVE  \E k \in 1..n : order[k] = s
<1>1. order \in Injection(1..n, 1..n)
  BY DEF Injection
<1>2. IsFiniteSet(1..n)
  BY FS_Interval
<1>3. order \in Surjection(1..n, 1..n)
  BY <1>1, <1>2, FS_Injection
<1> QED BY <1>3 DEF Surjection

\* Another numbering of the log leaves every stream what it was.
LEMMA LogRebuilt ==
  ASSUME LogSound, Rebuild
  PROVE  LogSound' /\ History' = History
<1> DEFINE n == Len(domain)
           D == domain'
<1>0. n \in Nat /\ DOMAIN domain = 1..n /\ \A i \in 1..n : domain[i] \in Events
  BY DEF LogSound
<1>1. PICK order \in [1..n -> 1..n] :
        /\ IsInjective(order)
        /\ \A i, j \in 1..n : i < j /\ domain[order[i]].artist = domain[order[j]].artist => order[i] < order[j]
        /\ D = [i \in 1..n |-> domain[order[i]]]
  BY <1>0 DEF Rebuild
<1> HIDE DEF n, D
<1>2. \A i \in 1..n : order[i] \in 1..n /\ D[i] = domain[order[i]]
  BY <1>1
<1>3. D \in Seq(Events) /\ DOMAIN D = 1..n
  BY <1>0, <1>1
<1>4. \A s \in 1..n : \E k \in 1..n : order[k] = s
  BY <1>0, <1>1, OntoAsWell
<1>5. ASSUME NEW i \in 1..n, NEW j \in 1..n, i < j, D[i].artist = D[j].artist
      PROVE  D[i].version < D[j].version
  <2>1. order[i] < order[j]
    BY <1>1, <1>2, <1>5
  <2> QED BY <1>0, <1>2, <1>5, <2>1 DEF LogSound
<1>6. ASSUME NEW i \in 1..n, D[i].version > 1
      PROVE  \E j \in 1..n : D[j].artist = D[i].artist /\ D[j].version = D[i].version - 1
  <2>1. PICK s \in EventsOf(domain[order[i]].artist) : domain[s].version = domain[order[i]].version - 1
    BY <1>0, <1>2, <1>6 DEF LogSound
  <2>2. s \in 1..n /\ domain[s].artist = domain[order[i]].artist
    BY <1>0, <2>1 DEF EventsOf
  <2>3. PICK k \in 1..n : order[k] = s
    BY <1>4, <2>2
  <2> QED BY <1>2, <2>1, <2>2, <2>3
<1>7. LogSound'
  <2>1. \A i, j \in DOMAIN domain' :
          i < j /\ domain'[i].artist = domain'[j].artist => domain'[i].version < domain'[j].version
    BY <1>3, <1>5 DEF D
  <2>2. \A i \in DOMAIN domain' : domain'[i].version > 1 => \E j \in DOMAIN domain' :
          domain'[j].artist = domain'[i].artist /\ domain'[j].version = domain'[i].version - 1
    BY <1>3, <1>6 DEF D
  <2> QED BY <1>3, <2>1, <2>2 DEF LogSound, EventsOf, D
<1>8. ASSUME NEW a \in Artists PROVE Told(D, a, History[a])
  <2> DEFINE F == History[a]
  <2>1. Told(domain, a, F)
    BY HistoryTells
  <2> HIDE DEF F
  <2>2. /\ F \in Seq(Facts)
        /\ \A i \in 1..n : domain[i].artist = a => domain[i].version \in 1..Len(F) /\ F[domain[i].version] = domain[i].fact
        /\ \A v \in 1..Len(F) : \E i \in 1..n : domain[i].artist = a /\ domain[i].version = v
    BY <1>0, <2>1 DEF Told
  <2>3. \A i \in 1..n : D[i].artist = a => D[i].version \in 1..Len(F) /\ F[D[i].version] = D[i].fact
    BY <1>2, <2>2
  <2>4. ASSUME NEW v \in 1..Len(F) PROVE \E i \in 1..n : D[i].artist = a /\ D[i].version = v
    <3>1. PICK s \in 1..n : domain[s].artist = a /\ domain[s].version = v
      BY <2>2
    <3>2. PICK k \in 1..n : order[k] = s
      BY <1>4
    <3> QED BY <1>2, <3>1, <3>2
  <2>5. Told(D, a, F)
    BY <1>3, <2>2, <2>3, <2>4 DEF Told
  <2> QED BY <2>5 DEF F
<1>9. History' \in [Artists -> Seq(Facts)] /\ History \in [Artists -> Seq(Facts)]
      /\ \A a \in Artists : Told(D, a, History'[a])
  BY <1>7, HistoryTells, HistoryTellsNext DEF D
<1>10. \A a \in Artists : History'[a] = History[a]
  BY <1>8, <1>9, ToldOnce
<1> QED BY <1>7, <1>9, <1>10

\* A step that leaves the log alone leaves the streams.
LEMMA LogStands ==
  ASSUME UNCHANGED domain
  PROVE  /\ LogSound' = LogSound /\ History' = History
         /\ \A a : Version(a)' = Version(a) /\ EventsOf(a)' = EventsOf(a) /\ FactsOf(a)' = FactsOf(a)
BY DEF LogSound, History, FactsOf, FactsAt, InOrder, Version, EventsOf

-----------------------------------------------------------------------------
(* Steps of one caller.                                                    *)

\* A caller that only reads has a sound new state, and the others keep theirs.
LEMMA CallerMoves ==
  ASSUME SafeInv, NEW c \in Callers, NEW new \in CallerRec,
         caller' = [caller EXCEPT ![c] = new], UNCHANGED <<mode, domain, snap>>,
         faults' \in Nat, rebuilds' \in Nat, serial' \in BOOLEAN,
         CallerOK(new, History, mode), AnchorOK(new, mode, snap, domain)
  PROVE  SafeInv'
<1>1. LogSound' /\ History' = History
  BY LogStands DEF SafeInv
<1>2. Types'
  BY DEF SafeInv, Types
<1>3. \A d \in Callers : caller'[d] = IF d = c THEN new ELSE caller[d]
  BY DEF SafeInv, Types
<1>4. WindowsHold' /\ FramesHold'
  BY <1>1 DEF SafeInv, WindowsHold, FramesHold
<1>5. CallersHold' /\ AnchorsHold'
  BY <1>1, <1>3 DEF SafeInv, CallersHold, AnchorsHold
<1> QED BY <1>1, <1>2, <1>4, <1>5 DEF SafeInv

\* One that stores a frame stores what its version stands for.
LEMMA FrameStored ==
  ASSUME SafeInv, NEW c \in Callers, NEW new \in CallerRec, NEW s \in Nat,
         caller' = [caller EXCEPT ![c] = new], UNCHANGED <<mode, domain>>,
         snap' = [snap EXCEPT ![caller[c].artist] = Frame(caller[c], s)],
         faults' \in Nat, rebuilds' \in Nat, serial' \in BOOLEAN,
         caller[c].pc \in {"freeze", "put"},
         mode = "jetstream" => Pinned(domain, caller[c].artist, caller[c].version, s),
         CallerOK(new, History, mode), new.pc \notin {"tail", "verify", "put"}
  PROVE  SafeInv'
<1> DEFINE me == caller[c]
           a == me.artist
           f == Frame(me, s)
<1>1. LogSound' /\ History' = History
  BY LogStands DEF SafeInv
<1>2. /\ me \in CallerRec /\ a \in Artists /\ me.version > 0 /\ me.version \in 0..Len(History[a])
      /\ me.state = Folded(SubSeq(History[a], 1, me.version))
      /\ snap \in [Artists -> FrameRec]
  BY DEF SafeInv, Types, CallersHold, CallerOK
<1>3. /\ f \in FrameRec /\ f.version = me.version /\ f.seq = s /\ f.state = me.state /\ f.schema = "current"
  BY <1>2 DEF Frame, FrameRec, CallerRec
<1> HIDE DEF f
<1>4. \A b \in Artists : snap'[b] = IF b = a THEN f ELSE snap[b]
  BY <1>2 DEF f
<1>5. Types'
  <2>1. snap' \in [Artists -> FrameRec]
    BY <1>2, <1>3 DEF f
  <2> QED BY <2>1 DEF SafeInv, Types
<1>6. \A d \in Callers : caller'[d] = IF d = c THEN new ELSE caller[d]
  BY DEF SafeInv, Types
<1>7. WindowsHold' /\ CallersHold'
  BY <1>1, <1>6 DEF SafeInv, WindowsHold, CallersHold
<1>8. FramesHold'
  <2>1. FrameOK(f, History[a])
    BY <1>2, <1>3 DEF FrameOK
  <2> QED BY <1>1, <1>4, <2>1 DEF SafeInv, FramesHold
<1>9. ASSUME NEW d \in Callers PROVE AnchorOK(caller'[d], mode, snap', domain)
  <2>1. CASE d = c
    BY <1>6, <2>1 DEF AnchorOK
  <2>2. CASE d # c
    <3> DEFINE him == caller[d]
    <3>1. caller'[d] = him /\ AnchorOK(him, mode, snap, domain)
      BY <1>6, <2>2 DEF SafeInv, AnchorsHold
    <3>2. him.pc # "idle" => him.artist \in Artists
      BY DEF SafeInv, CallersHold, CallerOK
    <3> HIDE DEF him
    <3>3. CASE him.artist = a
      BY <1>2, <1>3, <1>4, <3>1, <3>2, <3>3 DEF AnchorOK
    <3>4. CASE him.artist # a
      BY <1>4, <3>1, <3>2, <3>4 DEF AnchorOK
    <3> QED BY <3>1, <3>3, <3>4
  <2> QED BY <2>1, <2>2
<1>10. AnchorsHold'
  BY <1>9 DEF AnchorsHold
<1> QED BY <1>1, <1>5, <1>7, <1>8, <1>10 DEF SafeInv

\* The invariant, as the steps of a caller use it.
LEMMA CallerIs ==
  ASSUME SafeInv, NEW c \in Callers
  PROVE  /\ caller[c] \in CallerRec /\ CallerOK(caller[c], History, mode)
         /\ AnchorOK(caller[c], mode, snap, domain)
         /\ mode \in {"sqlite", "jetstream"} /\ snap \in [Artists -> FrameRec]
         /\ faults \in Nat /\ rebuilds \in Nat /\ serial \in BOOLEAN
         /\ caller \in [Callers -> CallerRec]
         /\ LogSound /\ History \in [Artists -> Seq(Facts)]
         /\ \A a \in Artists : /\ History[a] \in Seq(Facts) /\ History[a] = FactsOf(a)
                               /\ Version(a) = Len(History[a]) /\ Version(a) \in Nat
                               /\ FrameOK(snap[a], History[a]) /\ snap[a] \in FrameRec
BY HistoryTells DEF SafeInv, Types, CallersHold, AnchorsHold, FramesHold

\* A caller at rest claims nothing.
LEMMA RestingIs == Resting \in CallerRec /\ \A H, m, S, D : CallerOK(Resting, H, m) /\ AnchorOK(Resting, m, S, D)
<1>1. Nothing \in HeldRec
  BY UnbornIs DEF Nothing, HeldRec
<1>2. Resting \in CallerRec
  BY <1>1, UnbornIs DEF Resting, CallerRec, Pcs
<1>3. Resting.pc = "idle" /\ Resting.heals = FALSE /\ Resting.held = Nothing
  BY DEF Resting
<1> QED BY <1>2, <1>3 DEF CallerOK, AnchorOK

\* The replay in full that a load falls back to.
LEMMA InFullIs ==
  ASSUME NEW me \in CallerRec, NEW H, NEW m, NEW missing \in BOOLEAN,
         CallerOK(me, H, m), me.pc \in {"snap", "verify", "tail"}
  PROVE  /\ InFull(me, missing) \in CallerRec /\ CallerOK(InFull(me, missing), H, m)
         /\ \A S, D : AnchorOK(InFull(me, missing), m, S, D)
         /\ InFull(me, missing).pc = "full" /\ InFull(me, missing).missing = missing
         /\ InFull(me, missing).artist = me.artist /\ InFull(me, missing).held = me.held
         /\ ~InFull(me, missing).heals
<1> DEFINE new == InFull(me, missing)
<1>1. /\ new \in CallerRec /\ new.pc = "full" /\ new.missing = missing /\ new.artist = me.artist
      /\ new.held = me.held /\ new.heals = me.heals
  BY DEF InFull, CallerRec, Pcs
<1>2. me.artist \in Artists /\ ~me.heals /\ me.held = Nothing
  BY DEF CallerOK, CallerRec
<1> HIDE DEF new
<1>3. CallerOK(new, H, m) /\ \A S, D : AnchorOK(new, m, S, D)
  BY <1>1, <1>2 DEF CallerOK, AnchorOK
<1> QED BY <1>1, <1>2, <1>3 DEF new

\* Begin asks for an artist and reads nothing.
LEMMA BeginIsSafe ==
  ASSUME SafeInv, NEW c \in Callers, Begin(c)
  PROVE  SafeInv'
<1> DEFINE me == caller[c]
<1>1. PICK a \in Artists : caller' = [caller EXCEPT ![c] = [@ EXCEPT !.pc = "snap", !.artist = a]]
  BY DEF Begin
<1> DEFINE new == [me EXCEPT !.pc = "snap", !.artist = a]
<1>2. me = Resting
  BY CallerIs DEF Begin, At, CallerOK
<1>3. new \in CallerRec /\ new.pc = "snap" /\ new.artist = a /\ new.heals = FALSE /\ new.held = Nothing
  <2>1. me \in CallerRec /\ me.heals = FALSE /\ me.held = Nothing
    BY <1>2, RestingIs DEF Resting
  <2> HIDE DEF me
  <2> QED BY <2>1 DEF CallerRec, Pcs
<1>4. caller' = [caller EXCEPT ![c] = new]
  BY <1>1
<1> HIDE DEF new
<1>5. CallerOK(new, History, mode) /\ AnchorOK(new, mode, snap, domain)
  BY <1>3 DEF CallerOK, AnchorOK
<1>6. UNCHANGED <<mode, domain, snap>> /\ faults' \in Nat /\ rebuilds' \in Nat /\ serial' \in BOOLEAN
  BY CallerIs DEF Begin
<1> QED BY <1>3, <1>4, <1>5, <1>6, CallerMoves

\* A frame that is there is one of at least one event.
LEMMA LoadSnapshotIs ==
  ASSUME SafeInv, NEW c \in Callers, LoadSnapshot(c)
  PROVE  /\ SafeInv' /\ UNCHANGED <<mode, domain, snap, serial>>
         /\ \E new \in CallerRec :
              /\ caller' = [caller EXCEPT ![c] = new]
              /\ new.artist = caller[c].artist /\ new.held = caller[c].held
              /\ new.pc \in {"full", "verify", "tail"}
              /\ faults' = faults =>
                   LET frame == snap[new.artist]
                   IN  /\ new.pc = "full" => new.missing /\ ~Usable(new.artist)
                       /\ new.pc = "tail" => Usable(new.artist) /\ frame.version = new.version
                       /\ new.pc = "verify" => /\ frame.version = new.version /\ frame.seq = new.seq
                                               /\ new.missing = (frame.schema # "current")
<1> DEFINE me == caller[c]
           frame == snap[me.artist]
           F == History[me.artist]
<1>1. me \in CallerRec /\ CallerOK(me, History, mode) /\ me.pc = "snap" /\ me.artist \in Artists
      /\ me.held = Nothing /\ ~me.heals
  BY CallerIs DEF LoadSnapshot, At, CallerOK, CallerRec
<1>2. frame \in FrameRec /\ FrameOK(frame, F) /\ F \in Seq(Facts) /\ mode \in {"sqlite", "jetstream"}
  BY <1>1, CallerIs
<1>3. UNCHANGED <<mode, domain, snap, serial>> /\ faults' \in Nat /\ rebuilds' \in Nat /\ serial' \in BOOLEAN
  <2>1. faults \in Nat /\ rebuilds \in Nat /\ serial \in BOOLEAN
    BY CallerIs
  <2>2. UNCHANGED <<mode, domain, snap, serial, rebuilds>>
    BY DEF LoadSnapshot, Become
  <2>3. faults' = faults \/ faults' = faults + 1
    BY DEF LoadSnapshot, Fault
  <2> QED BY <2>1, <2>2, <2>3
<1>4. ASSUME Fault, Become(c, InFull(me, FALSE)) PROVE
        \E new \in CallerRec : /\ caller' = [caller EXCEPT ![c] = new]
                               /\ CallerOK(new, History, mode) /\ AnchorOK(new, mode, snap, domain)
                               /\ new.artist = me.artist /\ new.held = me.held /\ new.pc = "full"
                               /\ faults' # faults
  <2>1. faults' # faults
    BY <1>4, CallerIs DEF Fault
  <2> QED BY <1>1, <1>4, <2>1, InFullIs DEF Become
<1> DEFINE Goal(new) ==
             /\ caller' = [caller EXCEPT ![c] = new] /\ new \in CallerRec
             /\ CallerOK(new, History, mode) /\ AnchorOK(new, mode, snap, domain)
             /\ new.artist = me.artist /\ new.held = me.held /\ new.pc \in {"full", "verify", "tail"}
             /\ new.pc = "full" => new.missing /\ ~Usable(me.artist)
             /\ new.pc = "tail" => Usable(me.artist) /\ frame.version = new.version
             /\ new.pc = "verify" => /\ frame.version = new.version /\ frame.seq = new.seq
                                     /\ new.missing = (frame.schema # "current")
<1>5. ASSUME NEW full, full = InFull(me, TRUE), Become(c, full), frame.schema # "current" PROVE Goal(full)
  <2>1. /\ full \in CallerRec /\ CallerOK(full, History, mode) /\ AnchorOK(full, mode, snap, domain)
        /\ full.pc = "full" /\ full.missing = TRUE /\ full.artist = me.artist /\ full.held = me.held
    BY <1>1, <1>5, InFullIs
  <2>2. ~Usable(me.artist)
    BY <1>5 DEF Usable
  <2>3. caller' = [caller EXCEPT ![c] = full]
    BY <1>5 DEF Become
  <2> QED BY <2>1, <2>2, <2>3
<1>6. ASSUME NEW tail, tail = [me EXCEPT !.pc = "tail", !.version = frame.version, !.state = frame.state],
             Become(c, tail), frame.schema = "current", frame # NoSnap, mode = "sqlite"
      PROVE  Goal(tail)
  <2>1. /\ tail \in CallerRec /\ tail.pc = "tail" /\ tail.artist = me.artist /\ tail.held = Nothing
        /\ tail.heals = FALSE /\ tail.version = frame.version /\ tail.state = frame.state
    BY <1>1, <1>2, <1>6 DEF CallerRec, FrameRec, Pcs
  <2>2. /\ frame.version \in 0..Len(F) /\ frame.version > 0
        /\ frame.state = Folded(SubSeq(F, 1, frame.version))
    BY <1>2, <1>6 DEF FrameOK
  <2>3. CallerOK(tail, History, mode) /\ AnchorOK(tail, mode, snap, domain)
    BY <1>1, <1>6, <2>1, <2>2 DEF CallerOK, AnchorOK
  <2>4. Usable(me.artist)
    BY <1>6 DEF Usable
  <2>5. caller' = [caller EXCEPT ![c] = tail]
    BY <1>6 DEF Become
  <2> QED BY <1>1, <2>1, <2>3, <2>4, <2>5
<1>7. ASSUME NEW ver, Become(c, ver), frame # NoSnap, mode = "jetstream",
             ver = [me EXCEPT !.pc = "verify", !.version = frame.version, !.state = frame.state,
                              !.seq = frame.seq, !.missing = frame.schema # "current"]
      PROVE  Goal(ver)
  <2>1. /\ ver \in CallerRec /\ ver.pc = "verify" /\ ver.artist = me.artist /\ ver.held = Nothing
        /\ ver.heals = FALSE /\ ver.version = frame.version /\ ver.state = frame.state
        /\ ver.seq = frame.seq /\ ver.missing = (frame.schema # "current")
    BY <1>1, <1>2, <1>7 DEF CallerRec, FrameRec, Pcs
  <2>2. /\ frame.version \in 0..Len(F) /\ frame.version > 0
        /\ frame.schema = "current" => frame.state = Folded(SubSeq(F, 1, frame.version))
    BY <1>2, <1>7 DEF FrameOK
  <2>3. CallerOK(ver, History, mode) /\ AnchorOK(ver, mode, snap, domain)
    BY <1>1, <1>7, <2>1, <2>2 DEF CallerOK, AnchorOK
  <2>4. caller' = [caller EXCEPT ![c] = ver]
    BY <1>7 DEF Become
  <2> QED BY <1>1, <2>1, <2>3, <2>4
<1>8. \/ Fault /\ Become(c, InFull(me, FALSE))
      \/ frame.schema # "current" /\ Become(c, InFull(me, TRUE))
      \/ /\ frame.schema = "current" /\ frame # NoSnap /\ mode = "sqlite"
         /\ Become(c, [me EXCEPT !.pc = "tail", !.version = frame.version, !.state = frame.state])
      \/ /\ frame # NoSnap /\ mode = "jetstream"
         /\ Become(c, [me EXCEPT !.pc = "verify", !.version = frame.version, !.state = frame.state,
                                 !.seq = frame.seq, !.missing = frame.schema # "current"])
  <2>1. frame = NoSnap => frame.schema # "current"
    BY DEF NoSnap
  <2> QED BY <1>2, <2>1 DEF LoadSnapshot, Restored
<1>9. \E new \in CallerRec : /\ caller' = [caller EXCEPT ![c] = new]
                             /\ CallerOK(new, History, mode) /\ AnchorOK(new, mode, snap, domain)
                             /\ new.artist = me.artist /\ new.held = me.held
                             /\ new.pc \in {"full", "verify", "tail"}
                             /\ faults' = faults => Goal(new)
  <2>1. CASE Fault /\ Become(c, InFull(me, FALSE))
    BY <1>4, <2>1
  <2>2. (\E new : Goal(new)) => \E new \in CallerRec :
                             /\ caller' = [caller EXCEPT ![c] = new]
                             /\ CallerOK(new, History, mode) /\ AnchorOK(new, mode, snap, domain)
                             /\ new.artist = me.artist /\ new.held = me.held
                             /\ new.pc \in {"full", "verify", "tail"}
                             /\ faults' = faults => Goal(new)
    OBVIOUS
  <2> HIDE DEF Goal
  <2> QED BY <1>5, <1>6, <1>7, <1>8, <2>1, <2>2
<1> HIDE DEF me, frame, F
<1>10. PICK new \in CallerRec : /\ caller' = [caller EXCEPT ![c] = new]
                                /\ CallerOK(new, History, mode) /\ AnchorOK(new, mode, snap, domain)
                                /\ new.artist = me.artist /\ new.held = me.held
                                /\ new.pc \in {"full", "verify", "tail"}
                                /\ faults' = faults => Goal(new)
  BY <1>9
<1>11. SafeInv'
  BY <1>3, <1>10, CallerMoves
<1> QED BY <1>3, <1>10, <1>11 DEF me, frame

\* A failing call is counted.
LEMMA FaultsIs ==
  ASSUME SafeInv, NEW c \in Callers, faults' = faults \/ Fault,
         UNCHANGED <<mode, domain, snap, serial, rebuilds>>
  PROVE  /\ UNCHANGED <<mode, domain, snap>> /\ faults' \in Nat /\ rebuilds' \in Nat /\ serial' \in BOOLEAN
         /\ Fault => faults' # faults
<1>1. faults \in Nat /\ rebuilds \in Nat /\ serial \in BOOLEAN
  BY CallerIs
<1> QED BY <1>1 DEF Fault

\* VerifyAnchor goes on with the tail only if the anchor it read is in the log.
LEMMA VerifyAnchorIs ==
  ASSUME SafeInv, NEW c \in Callers, VerifyAnchor(c)
  PROVE  /\ SafeInv' /\ UNCHANGED <<mode, domain, snap, serial>>
         /\ \E new \in CallerRec :
              /\ caller' = [caller EXCEPT ![c] = new]
              /\ new.artist = caller[c].artist /\ new.held = caller[c].held
              /\ new.pc \in {"full", "tail"}
              /\ faults' = faults =>
                   LET me == caller[c]  anchored == Anchored(me.artist, me.version, me.seq)
                   IN  /\ new.pc = "full" => new.missing /\ (me.missing \/ ~anchored)
                       /\ new.pc = "tail" => ~me.missing /\ anchored /\ new.version = me.version
<1> DEFINE me == caller[c]
           F == History[me.artist]
           anchored == Anchored(me.artist, me.version, me.seq)
<1>1. /\ me \in CallerRec /\ CallerOK(me, History, mode) /\ me.pc = "verify" /\ me.artist \in Artists
      /\ me.held = Nothing /\ ~me.heals /\ AnchorOK(me, mode, snap, domain) /\ mode = "jetstream"
      /\ me.version \in 0..Len(F) /\ me.version > 0
      /\ ~me.missing => me.state = Folded(SubSeq(F, 1, me.version))
  BY CallerIs DEF VerifyAnchor, At, CallerOK, CallerRec
<1>2. UNCHANGED <<mode, domain, snap, serial, rebuilds>> /\ (faults' = faults \/ Fault)
  BY DEF VerifyAnchor, Become
<1>3. UNCHANGED <<mode, domain, snap>> /\ faults' \in Nat /\ rebuilds' \in Nat /\ serial' \in BOOLEAN
      /\ (Fault => faults' # faults)
  BY <1>2, FaultsIs
<1> DEFINE Goal(new) ==
             /\ caller' = [caller EXCEPT ![c] = new] /\ new \in CallerRec
             /\ CallerOK(new, History, mode) /\ AnchorOK(new, mode, snap, domain)
             /\ new.artist = me.artist /\ new.held = me.held /\ new.pc \in {"full", "tail"}
             /\ faults' = faults =>
                  /\ new.pc = "full" => new.missing /\ (me.missing \/ ~anchored)
                  /\ new.pc = "tail" => ~me.missing /\ anchored /\ new.version = me.version
<1>4. ASSUME Fault, Become(c, InFull(me, FALSE)) PROVE \E new : Goal(new)
  BY <1>1, <1>3, <1>4, InFullIs DEF Become
<1>5. ASSUME me.missing \/ ~anchored, Become(c, InFull(me, TRUE)) PROVE \E new : Goal(new)
  <2> DEFINE full == InFull(me, TRUE)
  <2>1. /\ full \in CallerRec /\ CallerOK(full, History, mode) /\ AnchorOK(full, mode, snap, domain)
        /\ full.pc = "full" /\ full.missing = TRUE /\ full.artist = me.artist /\ full.held = me.held
    BY <1>1, InFullIs
  <2>2. caller' = [caller EXCEPT ![c] = full]
    BY <1>5 DEF Become
  <2> HIDE DEF full
  <2> QED BY <1>5, <2>1, <2>2
<1>6. ASSUME ~me.missing, anchored, Become(c, [me EXCEPT !.pc = "tail"]) PROVE \E new : Goal(new)
  <2> DEFINE tail == [me EXCEPT !.pc = "tail"]
  <2>1. /\ tail \in CallerRec /\ tail.pc = "tail" /\ tail.artist = me.artist /\ tail.held = Nothing
        /\ tail.heals = FALSE /\ tail.version = me.version /\ tail.state = me.state
    BY <1>1 DEF CallerRec, Pcs
  <2>2. caller' = [caller EXCEPT ![c] = tail]
    BY <1>6 DEF Become
  <2> HIDE DEF tail
  <2>3. CallerOK(tail, History, mode)
    BY <1>1, <1>6, <2>1 DEF CallerOK
  <2>4. AnchorOK(tail, mode, snap, domain)
    <3>1. Pinned(domain, me.artist, me.version, me.seq)
      BY <1>6 DEF Anchored, Pinned
    <3> QED BY <1>1, <2>1, <3>1 DEF AnchorOK
  <2> QED BY <1>1, <1>6, <2>1, <2>2, <2>3, <2>4
<1>7. \E new : Goal(new)
  <2>1. \/ Fault /\ Become(c, InFull(me, FALSE))
        \/ (me.missing \/ ~anchored) /\ Become(c, InFull(me, TRUE))
        \/ ~me.missing /\ anchored /\ Become(c, [me EXCEPT !.pc = "tail"])
    BY <1>1 DEF VerifyAnchor, CallerRec
  <2> HIDE DEF Goal, anchored
  <2> QED BY <1>4, <1>5, <1>6, <2>1
<1>8. PICK new : Goal(new)
  BY <1>7
<1>9. SafeInv'
  BY <1>3, <1>8, CallerMoves
<1> QED BY <1>2, <1>8, <1>9

\* The record of a load that has come to its end.
Whole(a) == [artist |-> a, version |-> Version(a), state |-> Folded(History[a])]
Healing(new) == [new EXCEPT !.pc = "freeze", !.heals = TRUE]

\* A load that has everything has the replay of the whole stream.
LEMMA WholeIs ==
  ASSUME SafeInv, NEW c \in Callers, NEW a \in Artists, caller[c].artist = a, ~caller[c].heals
  PROVE  LET new == Holding(caller[c], Version(a), Folded(History[a]))
             healing == Healing(new)
         IN  /\ new \in CallerRec /\ CallerOK(new, History, mode) /\ AnchorOK(new, mode, snap, domain)
             /\ new.pc = "ready" /\ new.artist = a /\ new.version = Version(a) /\ new.held = Whole(a)
             /\ Version(a) > 0 => CallerOK(healing, History, mode)
             /\ AnchorOK(healing, mode, snap, domain) /\ healing \in CallerRec
             /\ healing.pc = "freeze" /\ healing.artist = a /\ healing.version = Version(a) /\ healing.held = Whole(a)
<1> DEFINE me == caller[c]
           n == Version(a)
           s == Folded(History[a])
           new == Holding(me, n, s)
           healing == Healing(new)
<1>1. me \in CallerRec /\ n \in Nat /\ n = Len(History[a]) /\ History[a] \in Seq(Facts)
  BY CallerIs
<1>2. s \in States /\ s = Folded(SubSeq(History[a], 1, n)) /\ n \in 0..Len(History[a])
  <2> DEFINE F == History[a]
  <2>1. F \in Seq(Facts) /\ n = Len(F) /\ n \in Nat
    BY <1>1
  <2> HIDE DEF F, n
  <2>2. Folded(F) \in States
    BY <2>1, FoldedIs, UnbornIs
  <2>3. SubSeq(F, 1, n) = F
    BY <2>1, WholePrefix
  <2>4. s = Folded(F) /\ s = Folded(SubSeq(F, 1, n))
    BY <2>3 DEF F
  <2> HIDE DEF s
  <2>5. s \in States /\ s = Folded(SubSeq(F, 1, n)) /\ n \in 0..Len(F)
    BY <2>1, <2>2, <2>4
  <2> QED BY <2>5 DEF F
<1>3. Whole(a) = [artist |-> a, version |-> n, state |-> s] /\ Whole(a) \in HeldRec
  BY <1>1, <1>2 DEF Whole, HeldRec
<1>4. /\ new \in CallerRec /\ new.pc = "ready" /\ new.artist = a /\ new.version = n /\ new.state = s
      /\ new.held = Whole(a) /\ new.heals = FALSE
  <2> HIDE DEF n, s, me
  <2> QED BY <1>1, <1>2, <1>3 DEF Holding, CallerRec, Pcs, me
<1>5. /\ healing \in CallerRec /\ healing.pc = "freeze" /\ healing.artist = a /\ healing.version = n
      /\ healing.state = s /\ healing.held = Whole(a) /\ healing.heals = TRUE
  <2> HIDE DEF new
  <2> QED BY <1>4 DEF CallerRec, Pcs, Healing
<1> HIDE DEF new, healing, n, s
<1>6. CallerOK(new, History, mode) /\ AnchorOK(new, mode, snap, domain) /\ AnchorOK(healing, mode, snap, domain)
  BY <1>2, <1>3, <1>4, <1>5 DEF CallerOK, AnchorOK
<1>7. n > 0 => CallerOK(healing, History, mode)
  BY <1>2, <1>3, <1>5 DEF CallerOK
<1> QED BY <1>4, <1>5, <1>6, <1>7 DEF new, healing, n, s

\* A tail is always sound, so only a failing call makes a load start again.
LEMMA LoadTailIs ==
  ASSUME SafeInv, NEW c \in Callers, LoadTail(c)
  PROVE  /\ SafeInv' /\ UNCHANGED <<mode, domain, snap, serial>>
         /\ \E new \in CallerRec :
              /\ caller' = [caller EXCEPT ![c] = new] /\ new.artist = caller[c].artist
              /\ \/ new.pc = "full" /\ new.held = caller[c].held /\ faults' # faults
                 \/ new.pc = "ready" /\ new.version = Version(new.artist) /\ new.held = Whole(new.artist)
<1> DEFINE me == caller[c]
           a == me.artist
           F == History[a]
<1>1. /\ me \in CallerRec /\ CallerOK(me, History, mode) /\ me.pc = "tail" /\ a \in Artists
      /\ me.held = Nothing /\ ~me.heals /\ AnchorOK(me, mode, snap, domain)
      /\ me.version \in 0..Len(F) /\ me.version > 0
      /\ me.state = Folded(SubSeq(F, 1, me.version))
  BY CallerIs DEF LoadTail, At, CallerOK, CallerRec
<1>2. UNCHANGED <<mode, domain, snap, serial, rebuilds>> /\ (faults' = faults \/ Fault)
  BY DEF LoadTail, Become
<1>3. UNCHANGED <<mode, domain, snap>> /\ faults' \in Nat /\ rebuilds' \in Nat /\ serial' \in BOOLEAN
      /\ (Fault => faults' # faults)
  BY <1>2, FaultsIs
<1>4. me.version \in 1..Version(a) /\ me.version \in 0..Version(a) /\ Version(a) = Len(F) /\ LogSound
      /\ snap \in [Artists -> FrameRec] /\ mode \in {"sqlite", "jetstream"}
  BY <1>1, CallerIs
<1>5. /\ After(a, me.version) = Later(a, me.version) /\ Sound(a, me.version)
      /\ (IF Later(a, me.version) = {} THEN me.version ELSE domain[Max(Later(a, me.version))].version) = Version(a)
  <2>1. mode = "jetstream" /\ snap[a].version = me.version => Pinned(domain, a, me.version, snap[a].seq)
    BY <1>1 DEF AnchorOK
  <2> QED BY <1>1, <1>4, <2>1, TailRead
<1>6. FoldLeft(Applied, me.state, FactsAt(After(a, me.version))) = Folded(F)
  BY <1>1, <1>4, <1>5, TailCompletes
<1>7. \/ Fault /\ Become(c, InFull(me, FALSE))
      \/ Become(c, Holding(me, Version(a), Folded(F)))
  <2> DEFINE tail == After(a, me.version)
             end == IF tail = {} THEN me.version ELSE domain[Max(tail)].version
  <2>1. \/ Become(c, Holding(me, end, FoldLeft(Applied, me.state, FactsAt(tail))))
        \/ ~Sound(a, me.version)
        \/ Fault /\ Become(c, InFull(me, FALSE))
    BY DEF LoadTail
  <2>2. end = Version(a)
    BY <1>5
  <2> HIDE DEF end
  <2> QED BY <1>5, <1>6, <2>1, <2>2
<1>8. CASE Fault /\ Become(c, InFull(me, FALSE))
  <2> DEFINE new == InFull(me, FALSE)
  <2>1. /\ new \in CallerRec /\ CallerOK(new, History, mode) /\ AnchorOK(new, mode, snap, domain)
        /\ new.pc = "full" /\ new.artist = a /\ new.held = me.held
    BY <1>1, InFullIs
  <2>2. caller' = [caller EXCEPT ![c] = new] /\ faults' # faults
    BY <1>3, <1>8 DEF Become
  <2> HIDE DEF new
  <2>3. SafeInv'
    BY <1>3, <2>1, <2>2, CallerMoves
  <2> QED BY <1>2, <2>1, <2>2, <2>3
<1>9. CASE Become(c, Holding(me, Version(a), Folded(F)))
  <2> DEFINE new == Holding(me, Version(a), Folded(F))
  <2>1. /\ new \in CallerRec /\ CallerOK(new, History, mode) /\ AnchorOK(new, mode, snap, domain)
        /\ new.pc = "ready" /\ new.artist = a /\ new.version = Version(a) /\ new.held = Whole(a)
    BY <1>1, WholeIs
  <2>2. caller' = [caller EXCEPT ![c] = new]
    BY <1>9 DEF Become
  <2> HIDE DEF new
  <2>3. SafeInv'
    BY <1>3, <2>1, <2>2, CallerMoves
  <2> QED BY <1>2, <2>1, <2>2, <2>3
<1> QED BY <1>7, <1>8, <1>9

\* LoadAll returns the whole stream, and heals one that has no snapshot.
LEMMA LoadAllIs ==
  ASSUME SafeInv, NEW c \in Callers, LoadAll(c)
  PROVE  /\ SafeInv' /\ UNCHANGED <<mode, domain, snap, serial>>
         /\ \E new \in CallerRec :
              /\ caller' = [caller EXCEPT ![c] = new]
              /\ \/ new = Resting /\ caller[c].held = Nothing /\ faults' # faults
                 \/ /\ new.pc \in {"ready", "freeze"} /\ new.artist = caller[c].artist
                    /\ new.version = Version(new.artist) /\ new.held = Whole(new.artist)
                    /\ new.pc = "ready" => ~Heals(caller[c])
<1> DEFINE me == caller[c]
           a == me.artist
           F == History[a]
<1>1. me \in CallerRec /\ CallerOK(me, History, mode) /\ me.pc = "full" /\ a \in Artists /\ ~me.heals
      /\ me.held = Nothing
  BY CallerIs DEF LoadAll, At, CallerOK, CallerRec
<1>2. UNCHANGED <<mode, domain, snap, serial, rebuilds>> /\ (faults' = faults \/ Fault)
  BY DEF LoadAll, Become
<1>3. UNCHANGED <<mode, domain, snap>> /\ faults' \in Nat /\ rebuilds' \in Nat /\ serial' \in BOOLEAN
      /\ (Fault => faults' # faults)
  BY <1>2, FaultsIs
<1> DEFINE whole == Holding(me, Version(a), Folded(F))
           healing == Healing(whole)
<1>4. /\ whole \in CallerRec /\ CallerOK(whole, History, mode) /\ AnchorOK(whole, mode, snap, domain)
      /\ whole.pc = "ready" /\ whole.artist = a /\ whole.version = Version(a) /\ whole.held = Whole(a)
      /\ Version(a) > 0 => CallerOK(healing, History, mode)
      /\ AnchorOK(healing, mode, snap, domain) /\ healing \in CallerRec
      /\ healing.pc = "freeze" /\ healing.artist = a /\ healing.version = Version(a) /\ healing.held = Whole(a)
  BY <1>1, WholeIs
<1>5. \/ Fault /\ Become(c, Resting)
      \/ Heals(me) /\ Become(c, healing)
      \/ ~Heals(me) /\ Become(c, whole)
  <2>1. F = FactsOf(a)
    BY <1>1, CallerIs
  <2> HIDE DEF F
  <2> QED BY <2>1 DEF LoadAll, Healing
<1> HIDE DEF whole, healing
<1>6. CASE Fault /\ Become(c, Resting)
  <2>1. caller' = [caller EXCEPT ![c] = Resting] /\ faults' # faults
    BY <1>3, <1>6 DEF Become
  <2>2. SafeInv'
    BY <1>3, <2>1, CallerMoves, RestingIs
  <2> QED BY <1>1, <1>2, <2>1, <2>2, RestingIs
<1>7. CASE Heals(me) /\ Become(c, healing)
  <2>1. caller' = [caller EXCEPT ![c] = healing]
    BY <1>7 DEF Become
  <2>2. Version(a) > 0
    BY <1>1, <1>7, SnapshotAssumption, CallerIs DEF Heals
  <2>3. SafeInv'
    BY <1>3, <1>4, <2>1, <2>2, CallerMoves
  <2> QED BY <1>2, <1>4, <2>1, <2>3
<1>8. CASE ~Heals(me) /\ Become(c, whole)
  <2>1. caller' = [caller EXCEPT ![c] = whole]
    BY <1>8 DEF Become
  <2>2. SafeInv'
    BY <1>3, <1>4, <2>1, CallerMoves
  <2> QED BY <1>2, <1>4, <1>8, <2>1, <2>2
<1> QED BY <1>5, <1>6, <1>7, <1>8

\* Leave changes the caller only.
LEMMA LeaveIs ==
  ASSUME SafeInv, NEW c \in Callers, Leave(c)
  PROVE  SafeInv' /\ UNCHANGED <<mode, domain, snap, serial, faults>>
         /\ caller' = [caller EXCEPT ![c] = Resting]
<1>1. UNCHANGED <<mode, domain, snap, serial, rebuilds, faults>> /\ caller' = [caller EXCEPT ![c] = Resting]
  BY DEF Leave, Become
<1>2. faults' \in Nat /\ rebuilds' \in Nat /\ serial' \in BOOLEAN
  BY <1>1, FaultsIs
<1> QED BY <1>1, <1>2, CallerMoves, RestingIs

-----------------------------------------------------------------------------
(* Steps that store a frame or events.                                     *)

\* After a freeze-frame a healed load goes on and a save is over.
LEMMA ThawedIs ==
  ASSUME NEW me \in CallerRec, NEW H, NEW m, CallerOK(me, H, m), me.pc \in {"freeze", "put"}
  PROVE  /\ Thawed(me) \in CallerRec /\ CallerOK(Thawed(me), H, m) /\ \A S, D : AnchorOK(Thawed(me), m, S, D)
         /\ Thawed(me).held = me.held /\ Thawed(me).pc \in {"ready", "idle"}
         /\ Thawed(me).pc = "idle" => Thawed(me) = Resting
         /\ Thawed(me).pc = "ready" => Thawed(me).artist = me.artist /\ Thawed(me).version = me.version
<1>1. CASE me.heals
  <2> DEFINE new == [me EXCEPT !.pc = "ready", !.heals = FALSE]
  <2>1. /\ new \in CallerRec /\ new.pc = "ready" /\ new.heals = FALSE /\ new.artist = me.artist
        /\ new.version = me.version /\ new.state = me.state /\ new.held = me.held
    BY DEF CallerRec, Pcs
  <2>2. Thawed(me) = new
    BY <1>1 DEF Thawed
  <2> HIDE DEF new
  <2>3. CallerOK(new, H, m) /\ \A S, D : AnchorOK(new, m, S, D)
    BY <1>1, <2>1 DEF CallerOK, AnchorOK
  <2> QED BY <2>1, <2>2, <2>3
<1>2. CASE ~me.heals
  <2>1. Thawed(me) = Resting /\ Resting.pc = "idle" /\ Resting.held = Nothing
    BY <1>2 DEF Thawed, Resting
  <2>2. me.held = Nothing
    BY <1>2 DEF CallerOK
  <2> QED BY <2>1, <2>2, RestingIs
<1> QED BY <1>1, <1>2

\* SaveSnapshot stores the frame (SQLite), finds its anchor (JetStream) or gives up.
LEMMA SaveSnapshotIs ==
  ASSUME SafeInv, NEW c \in Callers, SaveSnapshot(c)
  PROVE  /\ SafeInv' /\ UNCHANGED <<mode, domain, serial>>
         /\ LET me == caller[c]
            IN  \E new \in CallerRec :
                  /\ caller' = [caller EXCEPT ![c] = new] /\ new.held = me.held
                  /\ \/ /\ mode = "sqlite" /\ new = Thawed(me)
                        /\ snap' = [snap EXCEPT ![me.artist] = Frame(me, 0)]
                     \/ /\ UNCHANGED snap /\ new.pc = "put"
                        /\ new.artist = me.artist /\ new.version = me.version
                     \/ /\ UNCHANGED snap /\ new = Thawed(me)
                        /\ faults' # faults \/ me.version # Version(me.artist)
<1> DEFINE me == caller[c]
           a == me.artist
           F == History[a]
           tip == Max(EventsOf(a))
<1>1. /\ me \in CallerRec /\ CallerOK(me, History, mode) /\ me.pc = "freeze" /\ a \in Artists
      /\ me.version \in 0..Len(F) /\ me.version > 0 /\ me.state = Folded(SubSeq(F, 1, me.version))
      /\ me.held = IF me.heals THEN [artist |-> a, version |-> me.version, state |-> me.state] ELSE Nothing
  BY CallerIs DEF SaveSnapshot, At, CallerOK, CallerRec
<1>2. UNCHANGED <<mode, domain, serial, rebuilds>> /\ (faults' = faults \/ Fault)
  BY DEF SaveSnapshot, Become
<1>3. faults' \in Nat /\ rebuilds' \in Nat /\ serial' \in BOOLEAN /\ (Fault => faults' # faults)
      /\ mode \in {"sqlite", "jetstream"}
  <2>1. faults \in Nat /\ rebuilds \in Nat /\ serial \in BOOLEAN /\ mode \in {"sqlite", "jetstream"}
    BY CallerIs
  <2>2. faults' = faults \/ (faults' = faults + 1)
    BY <1>2 DEF Fault
  <2> QED BY <1>2, <2>1, <2>2 DEF Fault
<1>4. /\ Thawed(me) \in CallerRec /\ CallerOK(Thawed(me), History, mode)
      /\ AnchorOK(Thawed(me), mode, snap, domain) /\ Thawed(me).held = me.held /\ Thawed(me).pc \in {"ready", "idle"}
  BY <1>1, ThawedIs
<1>5. CASE /\ mode = "sqlite" /\ snap' = [snap EXCEPT ![a] = Frame(me, 0)] /\ Become(c, Thawed(me))
  <2>1. caller' = [caller EXCEPT ![c] = Thawed(me)]
    BY <1>5 DEF Become
  <2> DEFINE new == Thawed(me)
  <2>2. new.pc \notin {"tail", "verify", "put"}
    BY <1>4
  <2> HIDE DEF new
  <2>3. SafeInv'
    <3>1. 0 \in Nat /\ new \in CallerRec /\ CallerOK(new, History, mode) /\ caller' = [caller EXCEPT ![c] = new]
      BY <1>4, <2>1 DEF new
    <3>2. UNCHANGED <<mode, domain>> /\ (mode = "jetstream" => Pinned(domain, caller[c].artist, caller[c].version, 0))
      BY <1>2, <1>5
    <3> QED BY <1>1, <1>3, <1>5, <2>2, <3>1, <3>2, FrameStored
  <2> QED BY <1>2, <1>4, <1>5, <2>1, <2>3
<1>6. CASE Fault /\ UNCHANGED snap /\ Become(c, Thawed(me))
  <2>1. caller' = [caller EXCEPT ![c] = Thawed(me)]
    BY <1>6 DEF Become
  <2>2. SafeInv'
    BY <1>2, <1>3, <1>4, <1>6, <2>1, CallerMoves
  <2> QED BY <1>2, <1>3, <1>4, <1>6, <2>1, <2>2
<1>7. CASE mode = "jetstream" /\ UNCHANGED <<snap, faults>> /\ Become(c, AnchorOf(me))
  <2>1. Version(a) > 0 /\ LogSound
    BY <1>1, CallerIs
  <2>2. tip \in EventsOf(a) /\ domain[tip].version = Version(a)
    BY <1>1, <2>1, TipIs
  <2>3. tip \in Nat /\ tip \in DOMAIN domain /\ domain[tip].artist = a
    BY <2>1, <2>2, Logged
  <2>4. CASE domain[tip].version = me.version
    <3> DEFINE new == [me EXCEPT !.pc = "put", !.seq = tip]
    <3>1. caller' = [caller EXCEPT ![c] = new]
      BY <1>7, <2>4 DEF Become, AnchorOf
    <3> HIDE DEF tip
    <3>2. /\ new \in CallerRec /\ new.pc = "put" /\ new.seq = tip /\ new.heals = me.heals /\ new.artist = a
          /\ new.version = me.version /\ new.state = me.state /\ new.held = me.held
      BY <1>1, <2>3 DEF CallerRec, Pcs
    <3> HIDE DEF new
    <3>3. CallerOK(new, History, mode)
      BY <1>1, <1>7, <3>2 DEF CallerOK
    <3>4. AnchorOK(new, mode, snap, domain)
      BY <2>3, <2>4, <3>2 DEF AnchorOK, Pinned
    <3>5. SafeInv'
      BY <1>2, <1>3, <1>7, <3>1, <3>2, <3>3, <3>4, CallerMoves
    <3> QED BY <1>2, <1>7, <3>1, <3>2, <3>5
  <2>5. CASE domain[tip].version # me.version
    <3>1. caller' = [caller EXCEPT ![c] = Thawed(me)]
      BY <1>7, <2>5 DEF Become, AnchorOf
    <3>2. SafeInv'
      BY <1>2, <1>3, <1>4, <1>7, <3>1, CallerMoves
    <3> QED BY <1>2, <1>4, <1>7, <2>2, <2>5, <3>1, <3>2
  <2> QED BY <2>4, <2>5
<1> QED BY <1>5, <1>6, <1>7 DEF SaveSnapshot

\* PutSnapshot stores a frame whose anchor is in the log.
LEMMA PutSnapshotIs ==
  ASSUME SafeInv, NEW c \in Callers, PutSnapshot(c)
  PROVE  /\ SafeInv' /\ UNCHANGED <<mode, domain, serial>>
         /\ LET me == caller[c]
            IN  /\ caller' = [caller EXCEPT ![c] = Thawed(me)] /\ Thawed(me).held = me.held
                /\ \/ /\ snap' = [snap EXCEPT ![me.artist] = Frame(me, me.seq)]
                      /\ mode = "jetstream" /\ Pinned(domain, me.artist, me.version, me.seq)
                   \/ UNCHANGED snap /\ faults' # faults
<1> DEFINE me == caller[c]
           a == me.artist
           F == History[a]
<1>1. /\ me \in CallerRec /\ CallerOK(me, History, mode) /\ me.pc = "put" /\ a \in Artists
      /\ mode = "jetstream" /\ AnchorOK(me, mode, snap, domain) /\ me.seq \in Nat
  BY CallerIs DEF PutSnapshot, At, CallerOK, CallerRec
<1>2. UNCHANGED <<mode, domain, serial, rebuilds>> /\ (faults' = faults \/ Fault)
      /\ caller' = [caller EXCEPT ![c] = Thawed(me)]
  BY DEF PutSnapshot, Become
<1>3. faults' \in Nat /\ rebuilds' \in Nat /\ serial' \in BOOLEAN /\ (Fault => faults' # faults)
  <2>1. faults \in Nat /\ rebuilds \in Nat /\ serial \in BOOLEAN
    BY CallerIs
  <2>2. faults' = faults \/ (faults' = faults + 1)
    BY <1>2 DEF Fault
  <2> QED BY <1>2, <2>1, <2>2 DEF Fault
<1>4. /\ Thawed(me) \in CallerRec /\ CallerOK(Thawed(me), History, mode)
      /\ AnchorOK(Thawed(me), mode, snap, domain) /\ Thawed(me).held = me.held /\ Thawed(me).pc \in {"ready", "idle"}
  BY <1>1, ThawedIs
<1>5. Pinned(domain, a, me.version, me.seq)
  BY <1>1 DEF AnchorOK
<1>6. CASE snap' = [snap EXCEPT ![a] = Frame(me, me.seq)]
  <2> DEFINE new == Thawed(me)
  <2>1. /\ new \in CallerRec /\ CallerOK(new, History, mode) /\ caller' = [caller EXCEPT ![c] = new]
        /\ new.pc \notin {"tail", "verify", "put"}
    BY <1>2, <1>4
  <2> HIDE DEF new
  <2>2. SafeInv'
    BY <1>1, <1>2, <1>3, <1>5, <1>6, <2>1, FrameStored
  <2> QED BY <1>1, <1>2, <1>4, <1>5, <1>6, <2>2
<1>7. CASE Fault /\ UNCHANGED snap
  <2>1. SafeInv'
    BY <1>2, <1>3, <1>4, <1>7, CallerMoves
  <2> QED BY <1>2, <1>3, <1>4, <1>7, <2>1
<1> QED BY <1>6, <1>7 DEF PutSnapshot

\* What a save may add.
Savable == {<<f>> : f \in Facts} \cup Seeding

\* A save adds one fact or two.
LEMMA SavableIs ==
  ASSUME NEW facts \in Savable
  PROVE  /\ facts \in Seq(Facts) /\ Len(facts) \in {1, 2}
         /\ facts \in {<<f>> : f \in Facts} \cup (Facts \X Facts)
         /\ \/ \E f \in Facts : facts = <<f>> /\ facts[1] = f
            \/ \E q \in Requests : /\ facts = <<Fact("created", Manual), Fact("scraped", q)>>
                                   /\ facts[1] = Fact("created", Manual)
<1>1. CASE facts \in {<<f>> : f \in Facts}
  <2>1. PICK f \in Facts : facts = <<f>>
    BY <1>1
  <2> QED BY <2>1
<1>2. CASE facts \in Seeding
  <2>1. PICK q \in Requests : facts = <<Fact("created", Manual), Fact("scraped", q)>>
    BY <1>2 DEF Seeding
  <2>2. Fact("created", Manual) \in Facts /\ Fact("scraped", q) \in Facts
    BY DEF Facts
  <2> HIDE DEF Facts
  <2> QED BY <2>1, <2>2
<1> QED BY <1>1, <1>2 DEF Savable

\* What Save's guard lets through keeps the window and the absence of doubles.
LEMMA WindowsKept ==
  ASSUME NEW F \in Seq(Facts), NEW me, Remembers(F), NoDouble(F), me.state = Folded(F), me.version = Len(F),
         NEW facts \in Savable, Makes(me, facts[1])
  PROVE  Remembers(F \o facts) /\ NoDouble(F \o facts)
<1>1. ASSUME NEW f \in Facts, facts[1] = f
      PROVE  /\ Remembers(Append(F, f)) /\ NoDouble(Append(F, f)) /\ (f.type = "created" => F = << >>)
             /\ Append(F, f) = F \o <<f>> /\ Append(F, f) \in Seq(Facts)
  <2>1. f.type = "created" => F = << >>
    BY <1>1 DEF Makes
  <2>2. Scrape(f) => ~Contains(Folded(F).ids, f.req)
    BY <1>1 DEF Makes, Scrape, HasRecorded
  <2>3. Append(F, f) = F \o <<f>> /\ Append(F, f) \in Seq(Facts)
    OBVIOUS
  <2> QED BY <2>1, <2>2, <2>3, RemembersKept, NoDoubleKept
<1>2. CASE \E f \in Facts : facts = <<f>> /\ facts[1] = f
  <2>1. PICK f \in Facts : facts = <<f>> /\ facts[1] = f
    BY <1>2
  <2> QED BY <1>1, <2>1
<1>3. ASSUME NEW q \in Requests, facts = <<Fact("created", Manual), Fact("scraped", q)>>,
             facts[1] = Fact("created", Manual)
      PROVE  Remembers(F \o facts) /\ NoDouble(F \o facts)
  <2> DEFINE f == Fact("created", Manual)
             g == Fact("scraped", q)
             G == Append(F, f)
  <2>1. f \in Facts /\ g \in Facts /\ f.type = "created" /\ g.type = "scraped"
    BY DEF Facts, Fact
  <2>2. facts[1] = f /\ facts = <<f, g>>
    BY <1>3
  <2> HIDE DEF f, g
  <2>3. Remembers(G) /\ NoDouble(G) /\ F = << >> /\ G \in Seq(Facts)
    BY <1>1, <2>1, <2>2
  <2>4. Folded(G) = Applied(Folded(F), f)
    BY <2>1, FoldedStep
  <2>5. Folded(G).ids = << >>
    BY <2>1, <2>4 DEF Applied, Unborn
  <2>6. ~Contains(Folded(G).ids, g.req)
    BY <2>5 DEF Contains
  <2>7. F \o facts = Append(G, g)
    BY <2>2, <2>3
  <2> HIDE DEF G
  <2>8. Remembers(Append(G, g)) /\ NoDouble(Append(G, g))
    BY <2>1, <2>3, <2>6, RemembersKept, NoDoubleKept
  <2> QED BY <2>7, <2>8
<1> QED BY <1>2, <1>3, SavableIs

\* Save adds the next versions to the stream its caller loaded.
LEMMA SaveIs ==
  ASSUME SafeInv, NEW c \in Callers, Save(c)
  PROVE  /\ SafeInv' /\ UNCHANGED <<mode, snap, serial, faults>>
         /\ \A b, v, s : Anchored(b, v, s) => Anchored(b, v, s)'
         /\ \E facts \in Savable, new \in CallerRec :
              LET me == caller[c]  a == me.artist  n == Len(facts)
              IN  /\ caller' = [caller EXCEPT ![c] = new] /\ new.held = Nothing /\ ~new.heals
                  /\ a \in Artists /\ me.pc = "ready" /\ me.held.artist = a /\ me.held.version = Version(a)
                  /\ History' = [History EXCEPT ![a] = @ \o facts]
                  /\ \A b \in Artists : Version(b)' = IF b = a THEN Version(b) + n ELSE Version(b)
                  /\ \/ new = Resting /\ ~Crosses(Version(a) + n, n)
                     \/ new.pc = "freeze" /\ new.artist = a /\ new.version = Version(a) + n
<1> DEFINE me == caller[c]
           a == me.artist
           F == History[a]
<1>1. /\ me \in CallerRec /\ CallerOK(me, History, mode) /\ me.pc = "ready" /\ a \in Artists
      /\ Version(a) = me.version /\ ~me.heals
      /\ me.held = [artist |-> a, version |-> me.version, state |-> me.state]
      /\ me.state = Folded(SubSeq(F, 1, me.version))
  BY CallerIs DEF Save, At, CallerOK, CallerRec
<1>2. /\ F \in Seq(Facts) /\ Version(a) = Len(F) /\ Len(F) \in Nat /\ LogSound /\ Remembers(F) /\ NoDouble(F)
      /\ History \in [Artists -> Seq(Facts)] /\ snap \in [Artists -> FrameRec] /\ mode \in {"sqlite", "jetstream"}
      /\ caller \in [Callers -> CallerRec] /\ faults \in Nat /\ rebuilds \in Nat /\ serial \in BOOLEAN
  BY <1>1, CallerIs DEF SafeInv, WindowsHold
<1>3. me.state = Folded(F) /\ me.version = Len(F)
  BY <1>1, <1>2, WholePrefix
<1>4. PICK facts \in Savable :
        /\ Makes(me, facts[1])
        /\ domain' = domain \o [i \in DOMAIN facts |->
                         [artist |-> a, version |-> me.version + i, fact |-> facts[i]]]
        /\ Become(c, IF ~Crosses(me.version + Len(facts), Len(facts)) THEN Resting
                     ELSE [me EXCEPT !.pc = "freeze", !.version = @ + Len(facts), !.held = Nothing,
                                     !.state = FoldLeft(Applied, @, facts)])
  BY DEF Save, Savable
<1> DEFINE n == Len(facts)
           W == F \o facts
<1>5. facts \in Seq(Facts) /\ n \in {1, 2}
  BY SavableIs
<1>6. domain' = domain \o Added(a, facts)
  BY <1>1, <1>4 DEF Added
<1>7. /\ LogSound' /\ History' = [History EXCEPT ![a] = @ \o facts]
      /\ \A b, v, s : Anchored(b, v, s) => Anchored(b, v, s)'
  BY <1>1, <1>2, <1>5, <1>6, LogGrows
<1>8. W \in Seq(Facts) /\ Len(W) = Len(F) + n /\ Remembers(W) /\ NoDouble(W)
  <2>1. W \in Seq(Facts) /\ Len(W) = Len(F) + n
    BY <1>2, <1>5, AppendIs
  <2>2. Remembers(W) /\ NoDouble(W)
    BY <1>2, <1>3, <1>4, WindowsKept
  <2> QED BY <2>1, <2>2
<1>9. Folded(W) = FoldLeft(Applied, Folded(F), facts)
  BY <1>2, <1>5, FoldConcat DEF Folded
<1> HIDE DEF W
<1>10. /\ \A b \in Artists : History'[b] = IF b = a THEN W ELSE History[b]
       /\ \A b \in Artists : Version(b)' = IF b = a THEN Version(b) + n ELSE Version(b)
  <2>1. \A b \in Artists : History'[b] = IF b = a THEN W ELSE History[b]
    BY <1>1, <1>2, <1>7 DEF W
  <2>2. \A b \in Artists : Version(b)' = Len(History'[b])
    BY <1>7, HistoryTellsNext
  <2>3. \A b \in Artists : Version(b) = Len(History[b])
    BY CallerIs
  <2>4. Len(W) = Version(a) + n
    <3> HIDE DEF F, n
    <3> QED BY <1>2, <1>8
  <2> QED BY <1>1, <2>1, <2>2, <2>3, <2>4
<1>11. UNCHANGED <<mode, snap, serial, faults, rebuilds>>
  BY <1>4 DEF Save, Become
<1> DEFINE cut == [me EXCEPT !.pc = "freeze", !.version = Version(a) + n, !.held = Nothing, !.state = Folded(W)]
           new == IF ~Crosses(Version(a) + n, n) THEN Resting ELSE cut
<1>12. caller' = [caller EXCEPT ![c] = new]
  BY <1>1, <1>3, <1>4, <1>9 DEF Become
<1>13. /\ cut \in CallerRec /\ cut.pc = "freeze" /\ cut.version = Len(W) /\ cut.artist = a
       /\ cut.held = Nothing /\ cut.state = Folded(W) /\ cut.heals = FALSE
  <2>1. Folded(W) \in States
    BY <1>8, FoldedIs, UnbornIs
  <2>2. Version(a) + n \in Nat /\ Version(a) + n = Len(W)
    BY <1>2, <1>5, <1>8
  <2>3. Nothing \in HeldRec
    BY UnbornIs DEF Nothing, HeldRec
  <2> HIDE DEF n, me
  <2> QED BY <1>1, <2>1, <2>2, <2>3 DEF CallerRec, Pcs
<1>14. CallerOK(cut, History', mode)
  <2>1. History'[a] = W /\ Len(W) \in 0..Len(W) /\ Len(W) > 0 /\ SubSeq(W, 1, Len(W)) = W
    <3>1. Len(W) \in Nat /\ Len(W) > 0
      <4>1. \A x \in Nat, k \in {1, 2} : x + k \in Nat /\ x + k > 0
        OBVIOUS
      <4> HIDE DEF F, n
      <4> QED BY <1>2, <1>5, <1>8, <4>1
    <3>2. SubSeq(W, 1, Len(W)) = W
      BY <1>8, WholePrefix
    <3> QED BY <1>1, <1>10, <3>1, <3>2
  <2> HIDE DEF cut
  <2> QED BY <1>1, <1>13, <2>1 DEF CallerOK
<1>15. new \in CallerRec /\ CallerOK(new, History', mode) /\ \A S, D : AnchorOK(new, mode, S, D)
  <2>1. \A S, D : AnchorOK(cut, mode, S, D)
    <3> HIDE DEF cut
    <3> QED BY <1>13 DEF AnchorOK
  <2> HIDE DEF cut
  <2> QED BY <1>13, <1>14, <2>1, RestingIs
<1>16. /\ new.held = Nothing /\ ~new.heals
       /\ \/ new = Resting /\ ~Crosses(Version(a) + n, n)
          \/ new.pc = "freeze" /\ new.artist = a /\ new.version = Version(a) + n
  <2>1. Resting.held = Nothing /\ ~Resting.heals
    BY DEF Resting
  <2>2. Version(a) + n = Len(W)
    BY <1>2, <1>8
  <2> HIDE DEF cut
  <2> QED BY <1>13, <2>1, <2>2
<1> HIDE DEF cut, new
<1>17. \A d \in Callers : caller'[d] = IF d = c THEN new ELSE caller[d]
  BY <1>2, <1>12
<1>18. \A b \in Artists, v \in Nat : v \in 0..Len(History[b]) =>
           v \in 0..Len(History'[b]) /\ SubSeq(History'[b], 1, v) = SubSeq(History[b], 1, v)
  <2> SUFFICES ASSUME NEW v \in 0..Len(F)
               PROVE  v \in 0..Len(W) /\ SubSeq(W, 1, v) = SubSeq(F, 1, v)
    BY <1>10
  <2> QED BY <1>2, <1>5, PrefixStays DEF W
<1>19. CallersHold'
  <2> SUFFICES ASSUME NEW d \in Callers, d # c PROVE CallerOK(caller[d], History', mode)
    BY <1>11, <1>15, <1>17 DEF CallersHold
  <2> DEFINE him == caller[d]
  <2>1. CallerOK(him, History, mode) /\ him \in CallerRec
    BY CallerIs
  <2> HIDE DEF him
  <2>2. him.pc # "idle" => him.artist \in Artists
    BY <2>1 DEF CallerOK
  <2>3. him.version \in Nat
    BY <2>1 DEF CallerRec
  <2>4. him.pc # "idle" /\ him.version \in 0..Len(History[him.artist]) =>
           /\ him.version \in 0..Len(History'[him.artist])
           /\ SubSeq(History'[him.artist], 1, him.version) = SubSeq(History[him.artist], 1, him.version)
    BY <1>18, <2>2, <2>3
  <2>5. CallerOK(him, History', mode)
    BY <2>1, <2>4 DEF CallerOK
  <2> QED BY <2>5 DEF him
<1>20. AnchorsHold'
  <2>1. \A b, v, s : Pinned(domain, b, v, s) => Pinned(domain', b, v, s)
    BY <1>7 DEF Anchored, Pinned
  <2> SUFFICES ASSUME NEW d \in Callers, d # c PROVE AnchorOK(caller[d], mode, snap, domain')
    BY <1>11, <1>15, <1>17 DEF AnchorsHold
  <2>2. AnchorOK(caller[d], mode, snap, domain)
    BY CallerIs
  <2> QED BY <2>1, <2>2 DEF AnchorOK
<1>21. FramesHold'
  <2> SUFFICES ASSUME NEW b \in Artists PROVE FrameOK(snap[b], History'[b])
    BY <1>11 DEF FramesHold
  <2>1. FrameOK(snap[b], History[b]) /\ snap[b].version \in Nat
    BY CallerIs DEF FrameRec
  <2>2. snap[b].version \in 0..Len(History[b])
    BY <2>1 DEF FrameOK
  <2> QED BY <1>18, <2>1, <2>2 DEF FrameOK
<1>22. WindowsHold'
  BY <1>8, <1>10 DEF WindowsHold, SafeInv
<1>23. Types'
  <2>1. caller' \in [Callers -> CallerRec]
    BY <1>2, <1>12, <1>15
  <2> QED BY <1>2, <1>11, <2>1 DEF Types
<1>24. SafeInv'
  BY <1>7, <1>19, <1>20, <1>21, <1>22, <1>23 DEF SafeInv
<1>25. a \in Artists /\ me.pc = "ready" /\ me.held.artist = a /\ me.held.version = Version(a)
  BY <1>1
<1> HIDE DEF me
<1>26. \E f \in Savable, x \in CallerRec :
          /\ caller' = [caller EXCEPT ![c] = x] /\ x.held = Nothing /\ ~x.heals
          /\ a \in Artists /\ me.pc = "ready" /\ me.held.artist = a /\ me.held.version = Version(a)
          /\ History' = [History EXCEPT ![a] = @ \o f]
          /\ \A b \in Artists : Version(b)' = IF b = a THEN Version(b) + Len(f) ELSE Version(b)
          /\ \/ x = Resting /\ ~Crosses(Version(a) + Len(f), Len(f))
             \/ x.pc = "freeze" /\ x.artist = a /\ x.version = Version(a) + Len(f)
  <2> HIDE DEF a
  <2>1. new \in CallerRec /\ facts \in Savable
    BY <1>15
  <2> QED BY <1>7, <1>10, <1>12, <1>16, <1>25, <2>1
<1> QED BY <1>7, <1>11, <1>24, <1>26 DEF me

\* Rebuild renumbers a log that nobody is reading.
LEMMA RebuildIsSafe ==
  ASSUME SafeInv, Rebuild
  PROVE  SafeInv'
<1>1. LogSound' /\ History' = History
  BY LogRebuilt DEF SafeInv
<1>2. /\ UNCHANGED <<mode, snap, caller, faults, serial>> /\ rebuilds' = rebuilds + 1
      /\ \A c \in Callers : caller[c].pc = "idle"
  BY DEF Rebuild, At
<1>3. Types'
  BY <1>2 DEF SafeInv, Types
<1>4. WindowsHold' /\ FramesHold' /\ CallersHold'
  BY <1>1, <1>2 DEF SafeInv, WindowsHold, FramesHold, CallersHold
<1>5. AnchorsHold'
  BY <1>2 DEF AnchorsHold, AnchorOK
<1> QED BY <1>1, <1>3, <1>4, <1>5 DEF SafeInv

\* An artist of before the snapshots, or with one of an older build, is sound.
LEMMA InitIsSafe ==
  ASSUME Init
  PROVE  IInv
<1>1. domain \in Seq(Events) /\ \A i \in DOMAIN domain : domain[i].fact.type # "scraped"
  <2>1. CASE domain = << >>
    BY <2>1
  <2>2. ASSUME NEW a \in Artists, domain = Grown(a)
        PROVE  domain \in Seq(Events) /\ \A i \in DOMAIN domain : domain[i].fact.type # "scraped"
    <3>1. \A v \in 1..Interval :
             /\ domain[v] = [artist |-> a, version |-> v,
                  fact |-> IF v = 1 THEN Fact("created", Manual) ELSE Fact("pending", Manual)]
             /\ v \in Nat \ {0}
      BY <2>2, SnapshotAssumption DEF Grown
    <3>2. ASSUME NEW v \in 1..Interval PROVE domain[v] \in Events /\ domain[v].fact.type # "scraped"
      <4> DEFINE f == IF v = 1 THEN Fact("created", Manual) ELSE Fact("pending", Manual)
      <4>1. f \in Facts /\ f.type # "scraped"
        BY DEF Facts, Fact
      <4> HIDE DEF f
      <4>2. domain[v] = [artist |-> a, version |-> v, fact |-> f] /\ v \in Nat \ {0}
        BY <3>1 DEF f
      <4> QED BY <4>1, <4>2 DEF Events
    <3>3. domain = [v \in 1..Interval |-> domain[v]]
      BY <2>2 DEF Grown
    <3> QED BY <3>2, <3>3, SnapshotAssumption
  <2> QED BY <2>1, <2>2 DEF Init
<1>2. LogSound
  <2>1. CASE domain = << >>
    BY <1>1, <2>1 DEF LogSound
  <2>2. ASSUME NEW a \in Artists, domain = Grown(a) PROVE LogSound
    <3>1. DOMAIN domain = 1..Interval /\ Interval \in Nat
          /\ \A v \in 1..Interval : domain[v].artist = a /\ domain[v].version = v
      BY <2>2, SnapshotAssumption DEF Grown
    <3>2. ASSUME NEW i \in 1..Interval, domain[i].version > 1
          PROVE  \E j \in EventsOf(domain[i].artist) : domain[j].version = domain[i].version - 1
      <4>1. i - 1 \in 1..Interval
        BY <3>1, <3>2
      <4> QED BY <3>1, <4>1 DEF EventsOf
    <3> QED BY <1>1, <3>1, <3>2 DEF LogSound
  <2> QED BY <2>1, <2>2 DEF Init
<1>3. \A a \in Artists : /\ Version(a) \in Nat /\ Version(a) = Len(History[a]) /\ History[a] \in Seq(Facts)
                         /\ History[a] = FactsOf(a)
  BY <1>2, HistoryTells
<1>4. WindowsHold
  <2> SUFFICES ASSUME NEW a \in Artists PROVE \A k \in DOMAIN History[a] : ~Scrape(History[a][k])
    BY DEF WindowsHold, Remembers, NoDouble
  <2> SUFFICES ASSUME NEW k \in 1..Version(a) PROVE ~Scrape(FactsOf(a)[k])
    BY <1>3
  <2>1. ByVersion(a)
    BY <1>2, FactsByVersion
  <2>2. PICK i \in EventsOf(a) : domain[i].version = k
    BY <2>1 DEF ByVersion
  <2>3. FactsOf(a)[k] = domain[i].fact
    BY <2>1, <2>2 DEF ByVersion
  <2>4. i \in DOMAIN domain
    BY DEF EventsOf
  <2> QED BY <1>1, <2>3, <2>4 DEF Scrape
<1>5. Len(domain) \in Nat
  BY <1>1
<1>6. NoSnap \in FrameRec /\ NoSnap.version = 0 /\ NoSnap.schema # "current"
  BY UnbornIs DEF NoSnap, FrameRec
<1>7. \A a \in Artists : snap[a] \in FrameRec /\ FrameOK(snap[a], History[a]) /\ snap[a].schema # "current"
  <2> TAKE a \in Artists
  <2>1. CASE snap[a] = NoSnap
    BY <1>3, <1>6, <2>1 DEF FrameOK
  <2>2. CASE /\ snap[a] = [version |-> Version(a), seq |-> Len(domain), state |-> Unborn, schema |-> "old"]
             /\ Version(a) # 0
    <3>1. snap[a] \in FrameRec /\ snap[a].version = Version(a) /\ snap[a].schema = "old"
      BY <1>3, <1>5, <2>2, UnbornIs DEF FrameRec
    <3> QED BY <1>3, <2>2, <3>1 DEF FrameOK
  <2> QED BY <2>1, <2>2 DEF Init
<1>8. snap \in [Artists -> FrameRec]
  <2>1. snap = [a \in Artists |-> snap[a]]
    BY DEF Init
  <2> QED BY <1>7, <2>1
<1>9. Types /\ FramesHold
  BY <1>7, <1>8, RestingIs DEF Init, Types, FramesHold
<1>10. \A c \in Callers : caller[c] = Resting /\ caller[c].pc = "idle"
  BY DEF Init, Resting
<1>11. CallersHold /\ AnchorsHold
  BY <1>10, RestingIs DEF CallersHold, AnchorsHold
<1>12. SerialHolds
  BY <1>7, <1>10 DEF SerialHolds, SerialOK, FreshAt, Sees
<1> QED BY <1>2, <1>4, <1>9, <1>11, <1>12 DEF IInv, SafeInv

\* Every step keeps the safe part of the invariant.
LEMMA NextIsSafe ==
  ASSUME SafeInv, [Next]_vars
  PROVE  SafeInv'
<1>1. ASSUME NEW c \in Callers, Step(c) PROVE SafeInv'
  BY <1>1, BeginIsSafe, LoadSnapshotIs, VerifyAnchorIs, LoadTailIs, LoadAllIs, LeaveIs, SaveIs,
     SaveSnapshotIs, PutSnapshotIs DEF Step
<1>2. CASE UNCHANGED vars
  <2>1. LogSound' /\ History' = History
    BY <1>2, LogStands DEF SafeInv, vars
  <2> QED BY <1>2, <2>1 DEF vars, SafeInv, Types, WindowsHold, FramesHold, CallersHold, AnchorsHold
<1> QED BY <1>1, <1>2, RebuildIsSafe DEF Next

-----------------------------------------------------------------------------
(* Undisturbed callers.                                                    *)

\* Division with remainder.
LEMMA DivMod ==
  ASSUME NEW x \in Nat, NEW I \in Nat \ {0}
  PROVE  x = I * (x \div I) + (x % I) /\ x % I \in 0..(I - 1) /\ x \div I \in Nat
OBVIOUS

\* Versions of one interval are less than its length apart.
LEMMA SameInterval ==
  ASSUME NEW x \in Nat, NEW y \in Nat, NEW I \in Nat \ {0}, x \div I = y \div I
  PROVE  x - y < I
<1>1. x = I * (x \div I) + (x % I) /\ x % I \in 0..(I - 1)
  BY DivMod
<1>2. y = I * (y \div I) + (y % I) /\ y % I \in 0..(I - 1)
  BY DivMod
<1>3. x - y = (x % I) - (y % I)
  BY <1>1, <1>2
<1> QED BY <1>1, <1>2, <1>3

\* The first interval is that of version 0.
LEMMA FirstInterval ==
  ASSUME NEW x \in Nat, NEW I \in Nat \ {0}
  PROVE  x < I <=> x \div I = 0 \div I
<1>1. x = I * (x \div I) + (x % I) /\ x % I \in 0..(I - 1) /\ x \div I \in Nat
  BY DivMod
<1>2. 0 \div I = 0
  OBVIOUS
<1>3. ASSUME x \div I = 0 PROVE x < I
  <2>1. I * (x \div I) = 0
    BY <1>3
  <2> QED BY <1>1, <2>1
<1>4. ASSUME x \div I # 0 PROVE ~(x < I)
  <2>1. x \div I >= 1
    BY <1>1, <1>4
  <2>2. I * (x \div I) >= I
    <3> DEFINE q == x \div I
    <3>1. q \in Nat /\ q >= 1
      BY <1>1, <2>1
    <3> HIDE DEF q
    <3>2. I * q >= I
      BY <3>1
    <3> QED BY <3>2 DEF q
  <2> QED BY <1>1, <2>2
<1> QED BY <1>2, <1>3, <1>4

\* Nobody who was disturbed is undisturbed later.
LEMMA BeforeUndisturbed ==
  ASSUME SafeInv, Next, Undisturbed'
  PROVE  Undisturbed /\ faults' = faults
<1>1. faults \in Nat /\ serial \in BOOLEAN
  BY DEF SafeInv, Types
<1>2. faults' = faults \/ faults' = faults + 1
  BY DEF Next, Step, Begin, LoadSnapshot, VerifyAnchor, LoadTail, LoadAll, Leave, Save,
         SaveSnapshot, PutSnapshot, Rebuild, Fault
<1>3. serial' => serial
  BY <1>1 DEF Next, Step, Begin, LoadSnapshot, VerifyAnchor, LoadTail, LoadAll, Leave, Save,
         SaveSnapshot, PutSnapshot, Rebuild, Become
<1> QED BY <1>1, <1>2, <1>3 DEF Undisturbed

\* The only caller at work moves.
LEMMA AloneMoves ==
  ASSUME NEW C \in [Callers -> CallerRec], NEW c \in Callers, NEW new \in CallerRec,
         \A d \in Callers \ {c} : C[d].pc = "idle",
         NEW H, NEW U, NEW S, Sees(new, H, U, S),
         \A a \in Artists : FreshAt(a, H, S) \/ (Freezes(new) /\ new.artist = a)
  PROVE  SerialOK([C EXCEPT ![c] = new], H, U, S)
<1> DEFINE D == [C EXCEPT ![c] = new]
<1>1. \A d \in Callers : D[d] = IF d = c THEN new ELSE C[d]
  OBVIOUS
<1> HIDE DEF D
<1>2. \A d \in Callers : D[d].pc # "idle" => d = c
  BY <1>1
<1>3. \A d \in Callers : Sees(D[d], H, U, S)
  <2> SUFFICES ASSUME NEW d \in Callers, d # c PROVE Sees(D[d], H, U, S)
    BY <1>1
  <2>1. D[d].pc = "idle"
    BY <1>1
  <2> QED BY <2>1 DEF Sees
<1>4. \A a \in Artists : FreshAt(a, H, S) \/ \E d \in Callers : Freezes(D[d]) /\ D[d].artist = a
  BY <1>1
<1> QED BY <1>2, <1>3, <1>4 DEF SerialOK, D

\* The undisturbed part, as the caller at work uses it.
LEMMA SerialIs ==
  ASSUME SafeInv, NEW c \in Callers, caller[c].pc # "idle", SerialOK(caller, History, Usables, snap)
  PROVE  /\ caller \in [Callers -> CallerRec] /\ \A d \in Callers \ {c} : caller[d].pc = "idle"
         /\ Sees(caller[c], History, Usables, snap)
         /\ \A a \in Artists : \/ FreshAt(a, History, snap)
                               \/ Freezes(caller[c]) /\ caller[c].artist = a
<1>1. caller \in [Callers -> CallerRec]
  BY CallerIs
<1>2. \A d \in Callers \ {c} : caller[d].pc = "idle"
  BY DEF SerialOK
<1> QED BY <1>1, <1>2 DEF SerialOK, Freezes

\* A step that reads changes no stream and no frame's use.
LEMMA UsablesStand ==
  UNCHANGED <<mode, domain, snap>> => History' = History /\ Usables' = Usables
<1> SUFFICES ASSUME UNCHANGED <<mode, domain, snap>> PROVE History' = History /\ Usables' = Usables
  OBVIOUS
<1>1. History' = History
  BY LogStands
<1>2. Usables' = Usables
  BY DEF Usables, Usable, Anchored
<1> QED BY <1>1, <1>2

\* A frame of the artist's own interval, or no frame in the first.
LEMMA NearIs ==
  ASSUME NEW a, NEW H, NEW U, NEW S, Len(H[a]) \in Nat, S[a].version \in Nat,
         IF a \in U THEN S[a].version \div Interval = Len(H[a]) \div Interval
         ELSE Len(H[a]) < Interval
  PROVE  Near(a, H, U, S)
<1>1. CASE a \in U
  <2>1. Len(H[a]) - S[a].version < Interval
    BY <1>1, SameInterval, SnapshotAssumption
  <2> QED BY <1>1, <2>1 DEF Near
<1>2. CASE a \notin U
  BY <1>2 DEF Near
<1> QED BY <1>1, <1>2

\* The invariant gives the property that the runs check.
LEMMA SafeGivesSound == SafeInv => SnapshotsAreSound
<1> SUFFICES ASSUME SafeInv PROVE SnapshotsAreSound
  OBVIOUS
<1>1. LogSound /\ \A a \in Artists : /\ History[a] = FactsOf(a) /\ Version(a) = Len(History[a])
                                     /\ History[a] \in Seq(Facts)
  BY HistoryTells DEF SafeInv
<1>2. \A i \in DOMAIN domain : domain[i].fact \in Facts
  <2>1. \A i \in DOMAIN domain : domain[i] \in Events
    BY <1>1 DEF LogSound
  <2> QED BY <2>1 DEF Events
<1>3. ASSUME NEW i \in DOMAIN domain, NEW j \in DOMAIN domain, i < j, domain[i].artist = domain[j].artist
      PROVE  domain[j].version > domain[i].version
  <2>1. domain[i].version < domain[j].version /\ domain[i] \in Events /\ domain[j] \in Events
    BY <1>1, <1>3 DEF LogSound
  <2> QED BY <2>1 DEF Events
<1>4. ASSUME NEW a \in Artists PROVE Len(Folded(FactsOf(a)).ids) <= Window
  <2>1. Folded(FactsOf(a)) \in States
    BY <1>1, FoldedIs, UnbornIs
  <2>2. Folded(FactsOf(a)).ids \in IdLists
    BY <2>1 DEF States
  <2> QED BY <2>2 DEF IdLists
<1>5. \A c \in Callers : caller[c].pc \in Pcs
  BY DEF SafeInv, Types, CallerRec
<1>6. \A a \in Artists : snap[a].version \in 0..Version(a)
  BY <1>1 DEF SafeInv, FramesHold, FrameOK
<1>7. FramesAreFolds
  BY <1>1 DEF SafeInv, FramesHold, FrameOK, FramesAreFolds, Usable
<1>8. NoDoubleScrape
  BY <1>1 DEF SafeInv, WindowsHold, NoDouble, Scrape, Since, NoDoubleScrape
<1> QED BY <1>2, <1>3, <1>4, <1>5, <1>6, <1>7, <1>8 DEF SnapshotsAreSound, TypeOK

\* What a step of an undisturbed caller c leaves behind.
Quiet(c) ==
    /\ SerialOK(caller', History', Usables', snap')
    /\ caller'[c].pc = "idle" => Near(caller[c].artist, History', Usables', snap')

\* A caller that only moves sees as much as before.
LEMMA ReadsQuietly ==
  ASSUME SafeInv, NEW c \in Callers, caller[c].pc # "idle", SerialOK(caller, History, Usables, snap),
         UNCHANGED <<mode, domain, snap>>, NEW new \in CallerRec, caller' = [caller EXCEPT ![c] = new],
         Sees(new, History, Usables, snap),
         Freezes(caller[c]) => Freezes(new) /\ new.artist = caller[c].artist,
         new.pc = "idle" => Near(caller[c].artist, History, Usables, snap)
  PROVE  Quiet(c)
<1>1. History' = History /\ Usables' = Usables
  BY UsablesStand
<1>2. /\ caller \in [Callers -> CallerRec] /\ \A d \in Callers \ {c} : caller[d].pc = "idle"
      /\ \A a \in Artists : FreshAt(a, History, snap) \/ (Freezes(new) /\ new.artist = a)
  BY SerialIs
<1>3. SerialOK(caller', History, Usables, snap)
  BY <1>2, AloneMoves
<1>4. caller'[c] = new
  BY <1>2
<1> QED BY <1>1, <1>3, <1>4 DEF Quiet

\* Begin is undisturbed if everybody else rests.
LEMMA BeginQuietly ==
  ASSUME SafeInv, NEW c \in Callers, Begin(c), SerialOK(caller, History, Usables, snap), serial'
  PROVE  Quiet(c)
<1>1. PICK a \in Artists : caller' = [caller EXCEPT ![c] = [@ EXCEPT !.pc = "snap", !.artist = a]]
  BY DEF Begin
<1> DEFINE new == [caller[c] EXCEPT !.pc = "snap", !.artist = a]
<1>2. caller' = [caller EXCEPT ![c] = new]
  BY <1>1
<1>3. /\ \A d \in Callers : caller[d].pc = "idle"
      /\ caller \in [Callers -> CallerRec] /\ UNCHANGED <<mode, domain, snap>>
  BY CallerIs DEF Begin, At
<1>4. new \in CallerRec /\ new.pc = "snap"
  BY <1>3 DEF CallerRec, Pcs
<1> HIDE DEF new
<1>5. Sees(new, History, Usables, snap) /\ \A b \in Artists : FreshAt(b, History, snap)
  BY <1>3, <1>4 DEF Sees, SerialOK, Freezes
<1>6. SerialOK(caller', History, Usables, snap)
  BY <1>2, <1>3, <1>4, <1>5, AloneMoves
<1>7. History' = History /\ Usables' = Usables /\ caller'[c] = new
  BY <1>2, <1>3, UsablesStand
<1> QED BY <1>3, <1>4, <1>6, <1>7 DEF Quiet

\* An undisturbed load falls back only for want of a usable frame.
LEMMA LoadsQuietly ==
  ASSUME SafeInv, NEW c \in Callers, LoadSnapshot(c) \/ VerifyAnchor(c),
         SerialOK(caller, History, Usables, snap), faults' = faults
  PROVE  Quiet(c)
<1> DEFINE me == caller[c]
           a == me.artist
<1>1. a \in Artists /\ me.pc \in {"snap", "verify"} /\ Sees(me, History, Usables, snap)
      /\ (me.pc = "verify" => mode = "jetstream")
  BY CallerIs, SerialIs DEF LoadSnapshot, VerifyAnchor, At, CallerOK
<1>2. a \in Usables <=> Usable(a)
  BY <1>1 DEF Usables
<1>3. CASE LoadSnapshot(c)
  <2>1. PICK new \in CallerRec :
              /\ caller' = [caller EXCEPT ![c] = new] /\ new.artist = a
              /\ new.pc \in {"full", "verify", "tail"}
              /\ LET frame == snap[new.artist]
                 IN  /\ new.pc = "full" => new.missing /\ ~Usable(new.artist)
                     /\ new.pc = "tail" => Usable(new.artist) /\ frame.version = new.version
                     /\ new.pc = "verify" => /\ frame.version = new.version /\ frame.seq = new.seq
                                             /\ new.missing = (frame.schema # "current")
    BY <1>3, LoadSnapshotIs
  <2>2. Sees(new, History, Usables, snap)
    BY <1>2, <2>1 DEF Sees
  <2>3. UNCHANGED <<mode, domain, snap>>
    BY <1>3, LoadSnapshotIs
  <2> QED BY <1>1, <2>1, <2>2, <2>3, ReadsQuietly DEF Freezes
<1>4. CASE VerifyAnchor(c)
  <2> DEFINE anchored == Anchored(a, me.version, me.seq)
  <2>1. PICK new \in CallerRec :
              /\ caller' = [caller EXCEPT ![c] = new] /\ new.artist = a /\ new.pc \in {"full", "tail"}
              /\ new.pc = "full" => new.missing /\ (me.missing \/ ~anchored)
              /\ new.pc = "tail" => ~me.missing /\ anchored /\ new.version = me.version
    BY <1>4, VerifyAnchorIs
  <2>2. me.pc = "verify" /\ mode = "jetstream"
    BY <1>1, <1>4 DEF VerifyAnchor, At
  <2>3. /\ snap[a].version = me.version /\ snap[a].seq = me.seq
        /\ me.missing = (snap[a].schema # "current")
    BY <1>1, <2>2 DEF Sees
  <2>4. Usable(a) <=> ~me.missing /\ anchored
    BY <2>2, <2>3 DEF Usable
  <2>5. Sees(new, History, Usables, snap)
    BY <1>2, <2>1, <2>3, <2>4 DEF Sees
  <2>6. UNCHANGED <<mode, domain, snap>>
    BY <1>4, VerifyAnchorIs
  <2> QED BY <1>1, <2>1, <2>5, <2>6, ReadsQuietly DEF Freezes
<1> QED BY <1>3, <1>4

\* The tail behind a fresh frame is shorter than the interval.
LEMMA TailQuietly ==
  ASSUME SafeInv, NEW c \in Callers, LoadTail(c),
         SerialOK(caller, History, Usables, snap), faults' = faults
  PROVE  Quiet(c)
<1> DEFINE me == caller[c]
           a == me.artist
<1>1. a \in Artists /\ me.pc = "tail"
  BY CallerIs DEF LoadTail, At, CallerOK
<1>2. a \in Usables /\ FreshAt(a, History, snap)
  BY <1>1, SerialIs DEF Sees, Freezes
<1>3. PICK new \in CallerRec :
            /\ caller' = [caller EXCEPT ![c] = new] /\ new.artist = a
            /\ new.pc = "ready" /\ new.version = Version(a)
  BY LoadTailIs
<1>4. Version(a) = Len(History[a]) /\ Len(History[a]) \in Nat /\ snap[a].version \in Nat
  BY <1>1, CallerIs DEF FrameRec
<1>5. snap[a].version \div Interval = Len(History[a]) \div Interval
  <2>1. snap[a].schema = "current"
    BY <1>2 DEF Usables, Usable
  <2> QED BY <1>2, <2>1 DEF FreshAt
<1>6. Near(a, History, Usables, snap)
  BY <1>2, <1>4, <1>5, NearIs
<1>7. Sees(new, History, Usables, snap)
  BY <1>3, <1>4, <1>6 DEF Sees
<1>8. UNCHANGED <<mode, domain, snap>>
  BY LoadTailIs
<1> QED BY <1>1, <1>3, <1>7, <1>8, ReadsQuietly DEF Freezes

\* A replay in full without healing was shorter than the interval.
LEMMA FullQuietly ==
  ASSUME SafeInv, NEW c \in Callers, LoadAll(c),
         SerialOK(caller, History, Usables, snap), faults' = faults
  PROVE  Quiet(c)
<1> DEFINE me == caller[c]
           a == me.artist
<1>1. a \in Artists /\ me.pc = "full"
  BY CallerIs DEF LoadAll, At, CallerOK
<1>2. me.missing /\ a \notin Usables
  BY <1>1, SerialIs DEF Sees
<1>3. PICK new \in CallerRec :
            /\ caller' = [caller EXCEPT ![c] = new] /\ new.artist = a
            /\ new.pc \in {"ready", "freeze"} /\ new.version = Version(a)
            /\ new.pc = "ready" => ~Heals(me)
  BY LoadAllIs
<1>4. Version(a) = Len(History[a]) /\ Len(History[a]) \in Nat /\ snap[a].version \in Nat
  BY <1>1, CallerIs DEF FrameRec
<1>5. new.pc = "ready" => Near(a, History, Usables, snap)
  <2>1. new.pc = "ready" => Len(History[a]) < Interval
    BY <1>2, <1>3, <1>4, SnapshotAssumption DEF Heals
  <2> QED BY <1>2, <1>4, <2>1, NearIs
<1>6. Sees(new, History, Usables, snap)
  BY <1>3, <1>4, <1>5 DEF Sees
<1>7. UNCHANGED <<mode, domain, snap>>
  BY LoadAllIs
<1> QED BY <1>1, <1>3, <1>6, <1>7, ReadsQuietly DEF Freezes

\* A caller that leaves has nothing more to store.
LEMMA LeavesQuietly ==
  ASSUME SafeInv, NEW c \in Callers, Leave(c), SerialOK(caller, History, Usables, snap)
  PROVE  Quiet(c)
<1> DEFINE me == caller[c]
           a == me.artist
<1>1. me.pc = "ready" /\ Sees(me, History, Usables, snap)
  BY SerialIs DEF Leave, At
<1>2. Near(a, History, Usables, snap) /\ ~Freezes(me)
  BY <1>1 DEF Sees, Freezes
<1>3. Resting.pc = "idle"
  BY DEF Resting
<1>4. Sees(Resting, History, Usables, snap)
  BY <1>3 DEF Sees
<1>5. UNCHANGED <<mode, domain, snap>> /\ caller' = [caller EXCEPT ![c] = Resting]
  BY LeaveIs
<1> QED BY <1>1, <1>2, <1>4, <1>5, RestingIs, ReadsQuietly

\* A save that crosses no boundary stays in the interval of the last frame.
LEMMA SavesQuietly ==
  ASSUME SafeInv, NEW c \in Callers, Save(c), SerialOK(caller, History, Usables, snap)
  PROVE  Quiet(c)
<1> DEFINE me == caller[c]
           a == me.artist
           H == History
           G == History'
           U == Usables'
<1>1. PICK facts \in Savable, new \in CallerRec :
        /\ caller' = [caller EXCEPT ![c] = new]
        /\ a \in Artists /\ me.pc = "ready"
        /\ G = [H EXCEPT ![a] = @ \o facts]
        /\ \/ new = Resting /\ ~Crosses(Version(a) + Len(facts), Len(facts))
           \/ new.pc = "freeze" /\ new.artist = a /\ new.version = Version(a) + Len(facts)
  <2> HIDE DEF H, G, U
  <2>1. \E facts \in Savable, new \in CallerRec :
              LET n == Len(facts)
              IN  /\ caller' = [caller EXCEPT ![c] = new]
                  /\ a \in Artists /\ me.pc = "ready"
                  /\ History' = [History EXCEPT ![a] = @ \o facts]
                  /\ \/ new = Resting /\ ~Crosses(Version(a) + n, n)
                     \/ new.pc = "freeze" /\ new.artist = a /\ new.version = Version(a) + n
    BY SaveIs
  <2> QED BY <2>1 DEF H, G
<1> DEFINE V == Len(H[a])
           n == Len(facts)
           W == Len(G[a])
<1>2. /\ UNCHANGED <<mode, snap>> /\ \A b, v, s : Anchored(b, v, s) => Anchored(b, v, s)'
      /\ caller \in [Callers -> CallerRec] /\ H \in [Artists -> Seq(Facts)]
      /\ Version(a) = V /\ V \in Nat /\ snap[a].version \in Nat
  <2>1. a \in Artists
    BY <1>1
  <2> QED BY <2>1, SaveIs, CallerIs DEF FrameRec
<1>3. n \in Nat /\ facts \in Seq(Facts)
  BY SavableIs
<1>4. W = V + n /\ W \in Nat /\ \A b \in Artists \ {a} : G[b] = H[b]
  <2>1. G[a] = H[a] \o facts /\ H[a] \in Seq(Facts)
    BY <1>1, <1>2
  <2>2. Len(H[a] \o facts) = V + n
    BY <1>3, <2>1, AppendIs
  <2>3. V + n \in Nat
    BY <1>2, <1>3
  <2> QED BY <1>1, <1>2, <2>1, <2>2, <2>3
<1>5. /\ \A d \in Callers \ {c} : caller[d].pc = "idle"
      /\ \A b \in Artists : FreshAt(b, H, snap)
      /\ Near(a, H, Usables, snap)
  BY <1>1, SerialIs DEF Freezes, Sees
<1>6. ASSUME NEW b \in Artists \ {a} PROVE FreshAt(b, G, snap)
  BY <1>4, <1>5 DEF FreshAt
<1>7. caller'[c] = new
  BY <1>1, <1>2
<1>8. CASE new = Resting /\ ~Crosses(Version(a) + n, n)
  <2>0. W - n = V
    <3> HIDE DEF V, W, n
    <3> QED BY <1>2, <1>3, <1>4
  <2>1. W \div Interval = V \div Interval
    <3> HIDE DEF V, W, n
    <3> QED BY <1>2, <1>4, <1>8, <2>0 DEF Crosses
  <2>2. FreshAt(a, G, snap)
    BY <1>1, <1>5, <2>1 DEF FreshAt
  <2>3. Near(a, G, U, snap)
    <3>1. CASE a \in U
      <4>1. snap[a].schema = "current"
        <5>1. \A b \in U : snap'[b].schema = "current"
          BY DEF Usables, Usable
        <5> QED BY <1>2, <3>1, <5>1
      <4>2. snap[a].version \div Interval = W \div Interval
        BY <2>2, <4>1 DEF FreshAt
      <4> HIDE DEF U, G
      <4> QED BY <1>2, <1>4, <3>1, <4>2, NearIs
    <3>2. CASE a \notin U
      <4>1. Usables \subseteq U
        BY <1>2 DEF Usables, Usable
      <4>2. V < Interval
        BY <1>2, <1>5, <3>2, <4>1 DEF Near
      <4>3. W < Interval
        <5> HIDE DEF V, W
        <5> QED BY <1>2, <1>4, <2>1, <4>2, FirstInterval, SnapshotAssumption
      <4> HIDE DEF U, G
      <4> QED BY <1>2, <1>4, <3>2, <4>3, NearIs
    <3> QED BY <3>1, <3>2
  <2>4. Resting.pc = "idle"
    BY DEF Resting
  <2>5. Sees(new, G, U, snap)
    BY <1>8, <2>4 DEF Sees
  <2>6. SerialOK(caller', G, U, snap)
    <3> HIDE DEF G, U, H, a
    <3>1. \A b \in Artists : FreshAt(b, G, snap)
      BY <1>6, <2>2
    <3> QED BY <1>1, <1>2, <1>5, <2>5, <3>1, AloneMoves
  <2> QED BY <1>2, <1>7, <2>3, <2>6 DEF Quiet
<1>9. CASE new.pc = "freeze" /\ new.artist = a /\ new.version = Version(a) + n
  <2>1. Sees(new, G, U, snap)
    BY <1>2, <1>4, <1>9 DEF Sees
  <2>2. \A b \in Artists : FreshAt(b, G, snap) \/ (Freezes(new) /\ new.artist = b)
    BY <1>6, <1>9 DEF Freezes
  <2>3. SerialOK(caller', G, U, snap)
    <3> HIDE DEF G, U, H
    <3> QED BY <1>1, <1>2, <1>5, <2>1, <2>2, AloneMoves
  <2> QED BY <1>2, <1>7, <1>9, <2>3 DEF Quiet
<1> QED BY <1>1, <1>8, <1>9

\* A frame that an undisturbed caller stores is of all there is.
LEMMA StoresQuietly ==
  ASSUME SafeInv, NEW c \in Callers, SerialOK(caller, History, Usables, snap), caller[c].pc \in {"freeze", "put"},
         UNCHANGED <<mode, domain>>, caller' = [caller EXCEPT ![c] = Thawed(caller[c])],
         NEW s \in Nat, snap' = [snap EXCEPT ![caller[c].artist] = Frame(caller[c], s)],
         mode = "jetstream" => Pinned(domain, caller[c].artist, caller[c].version, s)
  PROVE  Quiet(c)
<1> DEFINE me == caller[c]
           a == me.artist
           new == Thawed(me)
           S == snap'
           U == Usables'
           H == History
<1>1. /\ me \in CallerRec /\ a \in Artists /\ snap \in [Artists -> FrameRec] /\ caller \in [Callers -> CallerRec]
      /\ Len(H[a]) \in Nat /\ CallerOK(me, H, mode)
  BY CallerIs DEF CallerOK
<1>2. /\ new \in CallerRec /\ new.pc \in {"ready", "idle"}
      /\ new.pc = "ready" => new.artist = a /\ new.version = me.version
  BY <1>1, ThawedIs
<1>3. /\ me.version = Len(H[a]) /\ \A d \in Callers \ {c} : caller[d].pc = "idle"
      /\ \A b \in Artists \ {a} : FreshAt(b, H, snap)
  <2>1. me.pc # "idle"
    OBVIOUS
  <2>2. /\ Sees(me, H, Usables, snap) /\ \A d \in Callers \ {c} : caller[d].pc = "idle"
        /\ \A b \in Artists : FreshAt(b, H, snap) \/ (Freezes(me) /\ me.artist = b)
    BY <2>1, SerialIs
  <2>3. me.version = Len(H[a])
    BY <2>2 DEF Sees
  <2> QED BY <2>2, <2>3
<1>4. S[a].version = me.version /\ S[a].schema = "current" /\ S[a].seq = s /\ \A b \in Artists \ {a} : S[b] = snap[b]
  BY <1>1 DEF Frame
<1>5. History' = H
  BY LogStands
<1>6. a \in U
  <2>1. mode' = "jetstream" => Pinned(domain', a, S[a].version, S[a].seq)
    BY <1>4
  <2>2. \A b \in Artists : S[b].schema = "current" /\ (mode' = "jetstream" => Pinned(domain', b, S[b].version, S[b].seq))
             => b \in U
    BY DEF Usables, Usable, Anchored, Pinned
  <2> HIDE DEF U, S
  <2> QED BY <1>1, <1>4, <2>1, <2>2
<1> HIDE DEF S, U, H, new
<1>7. Near(a, H, U, S)
  BY <1>1, <1>3, <1>4, <1>6, NearIs
<1>8. \A b \in Artists : FreshAt(b, H, S)
  BY <1>3, <1>4 DEF FreshAt
<1>9. Sees(new, H, U, S)
  BY <1>2, <1>3, <1>7 DEF Sees
<1>10. SerialOK(caller', H, U, S)
  BY <1>1, <1>2, <1>3, <1>8, <1>9, AloneMoves DEF new
<1>11. caller'[c] = new
  BY <1>1 DEF new
<1> QED BY <1>5, <1>7, <1>10, <1>11 DEF Quiet, S, U, H

\* Both ways of storing a frame are undisturbed.
LEMMA FreezesQuietly ==
  ASSUME SafeInv, NEW c \in Callers, SaveSnapshot(c) \/ PutSnapshot(c),
         SerialOK(caller, History, Usables, snap), faults' = faults
  PROVE  Quiet(c)
<1> DEFINE me == caller[c]
           a == me.artist
<1>1. a \in Artists /\ me \in CallerRec /\ me.pc \in {"freeze", "put"} /\ Sees(me, History, Usables, snap)
      /\ Version(a) = Len(History[a])
  BY CallerIs, SerialIs DEF SaveSnapshot, PutSnapshot, At, CallerOK
<1>2. me.version = Version(a) /\ me.seq \in Nat
  BY <1>1 DEF Sees, CallerRec
<1>3. CASE SaveSnapshot(c)
  <2>1. PICK new \in CallerRec :
           /\ caller' = [caller EXCEPT ![c] = new]
           /\ \/ /\ mode = "sqlite" /\ new = Thawed(me)
                 /\ snap' = [snap EXCEPT ![a] = Frame(me, 0)]
              \/ UNCHANGED snap /\ new.pc = "put" /\ new.artist = a /\ new.version = me.version
    BY <1>2, <1>3, SaveSnapshotIs
  <2>2. UNCHANGED <<mode, domain>>
    BY <1>3, SaveSnapshotIs
  <2>3. CASE mode = "sqlite" /\ new = Thawed(me) /\ snap' = [snap EXCEPT ![a] = Frame(me, 0)]
    BY <1>1, <2>1, <2>2, <2>3, StoresQuietly
  <2>4. CASE UNCHANGED snap /\ new.pc = "put" /\ new.artist = a /\ new.version = me.version
    <3>1. Sees(new, History, Usables, snap)
      BY <1>1, <1>2, <2>4 DEF Sees
    <3> QED BY <1>1, <2>1, <2>2, <2>4, <3>1, ReadsQuietly DEF Freezes
  <2> QED BY <2>1, <2>3, <2>4
<1>4. CASE PutSnapshot(c)
  <2>1. /\ UNCHANGED <<mode, domain>> /\ caller' = [caller EXCEPT ![c] = Thawed(me)]
        /\ snap' = [snap EXCEPT ![a] = Frame(me, me.seq)] /\ Pinned(domain, a, me.version, me.seq)
    BY <1>4, PutSnapshotIs
  <2> QED BY <1>1, <1>2, <2>1, StoresQuietly
<1> QED BY <1>3, <1>4

\* Every step of an undisturbed caller.
LEMMA StepIsQuiet ==
  ASSUME SafeInv, NEW c \in Callers, Step(c), SerialOK(caller, History, Usables, snap), Undisturbed'
  PROVE  Quiet(c)
<1>1. faults' = faults /\ serial'
  <2>1. Next
    BY DEF Next
  <2> QED BY <2>1, BeforeUndisturbed DEF Undisturbed
<1> QED BY <1>1, BeginQuietly, LoadsQuietly, TailQuietly, FullQuietly, LeavesQuietly, SavesQuietly,
           FreezesQuietly DEF Step

\* A step moves one caller.
LEMMA OthersWait ==
  ASSUME SafeInv, NEW d \in Callers, Step(d)
  PROVE  \A c \in Callers \ {d} : caller'[c] = caller[c]
<1>1. caller \in [Callers -> CallerRec]
  BY CallerIs
<1>2. \E new : caller' = [caller EXCEPT ![d] = new]
  <2>1. CASE Begin(d)
    BY <2>1 DEF Begin
  <2>2. CASE LoadSnapshot(d) \/ VerifyAnchor(d) \/ LoadTail(d)
    BY <2>2, LoadSnapshotIs, VerifyAnchorIs, LoadTailIs
  <2>3. CASE LoadAll(d) \/ Leave(d) \/ Save(d)
    BY <2>3 DEF LoadAll, Leave, Save, Become
  <2>4. CASE SaveSnapshot(d) \/ PutSnapshot(d)
    BY <2>4 DEF SaveSnapshot, PutSnapshot, Become
  <2> QED BY <2>1, <2>2, <2>3, <2>4 DEF Step
<1> QED BY <1>1, <1>2

-----------------------------------------------------------------------------
(* The theorems.                                                           *)

\* Every step keeps the undisturbed part of the invariant.
LEMMA NextKeepsSerial ==
  ASSUME IInv, [Next]_vars
  PROVE  SerialHolds'
<1> SUFFICES ASSUME Undisturbed' PROVE SerialOK(caller', History', Usables', snap')
  BY DEF SerialHolds
<1>1. CASE UNCHANGED vars
  <2>1. Undisturbed /\ UNCHANGED <<mode, domain, snap, caller>>
    BY <1>1 DEF vars, Undisturbed
  <2> QED BY <2>1, UsablesStand DEF IInv, SerialHolds
<1>2. ASSUME Next PROVE SerialOK(caller, History, Usables, snap) /\ faults' = faults /\ SafeInv
  BY <1>2, BeforeUndisturbed DEF IInv, SerialHolds
<1>3. ASSUME NEW c \in Callers, Step(c) PROVE SerialOK(caller', History', Usables', snap')
  <2>1. Next
    BY <1>3 DEF Next
  <2> QED BY <1>2, <1>3, <2>1, StepIsQuiet DEF Quiet
<1>4. CASE Rebuild
  <2>1. SerialOK(caller, History, Usables, snap) /\ SafeInv
    BY <1>2, <1>4 DEF Next
  <2>2. History' = History /\ UNCHANGED <<caller, snap>> /\ \A c \in Callers : caller[c].pc = "idle"
    BY <1>4, <2>1, LogRebuilt DEF SafeInv, Rebuild, At
  <2>3. \A H, U, S : (\A a \in Artists : FreshAt(a, H, S)) => SerialOK(caller, H, U, S)
    BY <2>2 DEF SerialOK, Sees
  <2>4. \A a \in Artists : FreshAt(a, History, snap)
    BY <2>1, <2>2 DEF SerialOK, Freezes
  <2> QED BY <2>2, <2>3, <2>4
<1> QED BY <1>1, <1>3, <1>4 DEF Next

\* The invariant holds in every state.
LEMMA Inductive == Spec => []IInv
<1>1. Init => IInv
  BY InitIsSafe
<1>2. IInv /\ [Next]_vars => IInv'
  BY NextIsSafe, NextKeepsSerial DEF IInv
<1> QED BY <1>1, <1>2, PTL DEF Spec

\* Snapshot, RestoreSnapshot, rememberRequest, SaveSnapshot: whoever stored a
\* snapshot and however the log was rebuilt, one that LoadSnapshot hands out is
\* the replay of its first versions; and a request is recorded once, until the
\* window has been filled with others.
THEOREM FramesStandForTheLog == Spec => []SnapshotsAreSound
<1>1. IInv => SnapshotsAreSound
  BY SafeGivesSound DEF IInv
<1> QED BY <1>1, Inductive, PTL

\* "loaders replay at most N-1 events" (repository.go): what callers that nobody
\* disturbs leave behind, after a save of any length and after a heal.
THEOREM TailsAreBounded == Spec => TailsStayShort
<1> DEFINE Left == \A c \in Callers, a \in Artists :
              caller[c].artist = a /\ caller'[c].pc = "idle" /\ serial' /\ faults' = 0 =>
                  (Version(a) - (IF Usable(a) THEN snap[a].version ELSE 0) < Interval)'
<1>1. ASSUME IInv, [Next]_vars PROVE Left
  <2> SUFFICES ASSUME NEW c \in Callers, NEW a \in Artists, caller[c].artist = a, caller'[c].pc = "idle",
                      serial', faults' = 0
               PROVE  (Version(a) - (IF Usable(a) THEN snap[a].version ELSE 0) < Interval)'
    OBVIOUS
  <2>1. SafeInv /\ SafeInv' /\ Undisturbed'
    BY <1>1, NextIsSafe DEF IInv, Undisturbed
  <2>2. caller[c].pc # "idle"
    <3>1. CallerOK(caller[c], History, mode)
      BY <2>1, CallerIs
    <3>2. Resting.artist = "none"
      BY DEF Resting
    <3> QED BY <3>1, <3>2, SnapshotNames DEF CallerOK
  <2>3. Next /\ caller' # caller
    BY <1>1, <2>2 DEF vars
  <2>4. SerialOK(caller, History, Usables, snap)
    BY <1>1, <2>1, <2>3, BeforeUndisturbed DEF IInv, SerialHolds
  <2>5. PICK d \in Callers : Step(d)
    BY <2>2, <2>3 DEF Next, Rebuild
  <2>6. d = c
    <3>1. d # c => caller'[c] = caller[c]
      BY <2>1, <2>5, OthersWait
    <3> QED BY <2>2, <3>1
  <2>7. Near(a, History', Usables', snap')
    BY <2>1, <2>4, <2>5, <2>6, StepIsQuiet DEF Quiet
  <2>8. Version(a)' = Len(History'[a])
    BY <2>1, HistoryTellsNext DEF SafeInv
  <2>9. a \in Usables' <=> Usable(a)'
    BY DEF Usables
  <2> QED BY <2>7, <2>8, <2>9 DEF Near
<1>2. IInv /\ [Next]_vars => [Left]_vars
  BY <1>1
<1> QED BY <1>2, Inductive, PTL DEF Spec, TailsStayShort

-----------------------------------------------------------------------------
(* The refinement.                                                         *)

Held == [c \in Callers |-> caller[c].held]

\* The abstract store is over the same facts, replays and records.
LEMMA SameFacts == AG!Facts = Facts
BY DEF AG!Facts, AG!Fact, AG!Manual, Facts, Fact, Manual

\* Its replay is the repository's.
LEMMA SameFold == \A F : AG!Folded(F) = Folded(F)
BY DEF AG!Folded, AG!FoldLeft, AG!MapThenFoldSet, AG!Applied, AG!Unborn, AG!Remembered, AG!Contains,
       AG!Manual, AG!Max, Folded, FoldLeft, MapThenFoldSet, Applied, Unborn, Remembered, Contains, Manual, Max

\* Its empty record is the repository's.
LEMMA SameNothing == AG!Nothing = Nothing
BY DEF AG!Nothing, AG!Unborn, AG!Manual, Nothing, Unborn, Manual

\* What a step of a caller is in the abstract store.
LEMMA StepTells ==
  ASSUME SafeInv, NEW c \in Callers, Step(c)
  PROVE  \E record :
           /\ Held' = [Held EXCEPT ![c] = record]
           /\ \/ History' = History /\ record = Held[c]
              \/ History' = History /\ record = Nothing
              \/ History' = History /\ \E a \in Artists : record = Whole(a)
              \/ /\ record = Nothing
                 /\ LET a == Held[c].artist
                    IN  /\ a \in Artists /\ Held[c].version = Len(History[a])
                        /\ \E facts \in Savable : History' = [History EXCEPT ![a] = @ \o facts]
<1> DEFINE me == caller[c]
<1>1. caller \in [Callers -> CallerRec] /\ CallerOK(me, History, mode)
  BY CallerIs
<1>2. ASSUME NEW new, caller' = [caller EXCEPT ![c] = new] PROVE Held' = [Held EXCEPT ![c] = new.held]
  <2>1. \A d \in Callers : caller'[d] = IF d = c THEN new ELSE caller[d]
    BY <1>1, <1>2
  <2>2. DOMAIN Held = Callers /\ Held' = [d \in Callers |-> caller'[d].held]
        /\ \A d \in Callers : Held[d] = caller[d].held
    BY DEF Held
  <2>3. Held' = [d \in Callers |-> IF d = c THEN new.held ELSE Held[d]]
    BY <2>1, <2>2
  <2> QED BY <2>2, <2>3
<1>3. Held[c] = me.held
  BY DEF Held
<1>4. Resting.held = Nothing
  BY DEF Resting
<1>5. CASE Begin(c)
  <2>1. PICK a \in Artists : caller' = [caller EXCEPT ![c] = [@ EXCEPT !.pc = "snap", !.artist = a]]
    BY <1>5 DEF Begin
  <2> DEFINE new == [me EXCEPT !.pc = "snap", !.artist = a]
  <2>2. caller' = [caller EXCEPT ![c] = new]
    BY <2>1
  <2>3. new.held = me.held
    BY <1>1 DEF CallerRec
  <2>4. History' = History
    BY <1>5, LogStands DEF Begin
  <2> HIDE DEF new
  <2> QED BY <1>2, <1>3, <2>2, <2>3, <2>4
<1>6. CASE LoadSnapshot(c) \/ VerifyAnchor(c)
  <2>1. PICK new \in CallerRec : caller' = [caller EXCEPT ![c] = new] /\ new.held = me.held
    BY <1>6, LoadSnapshotIs, VerifyAnchorIs
  <2>2. History' = History
    BY <1>6, LoadSnapshotIs, VerifyAnchorIs, LogStands
  <2> QED BY <1>2, <1>3, <2>1, <2>2
<1>7. CASE LoadTail(c)
  <2>1. me.artist \in Artists
    BY <1>1, <1>7 DEF LoadTail, At, CallerOK
  <2>2. PICK new \in CallerRec : /\ caller' = [caller EXCEPT ![c] = new]
                                 /\ new.artist = me.artist
                                 /\ new.held = me.held \/ new.held = Whole(new.artist)
    BY <1>7, LoadTailIs
  <2>3. History' = History
    BY <1>7, LoadTailIs, LogStands
  <2>4. new.held = me.held \/ \E a \in Artists : new.held = Whole(a)
    BY <2>1, <2>2
  <2> QED BY <1>2, <1>3, <2>2, <2>3, <2>4
<1>8. CASE LoadAll(c)
  <2>1. me.artist \in Artists
    BY <1>1, <1>8 DEF LoadAll, At, CallerOK
  <2>2. PICK new \in CallerRec : /\ caller' = [caller EXCEPT ![c] = new]
                                 /\ new = Resting \/ (new.artist = me.artist /\ new.held = Whole(new.artist))
    BY <1>8, LoadAllIs
  <2>3. History' = History
    BY <1>8, LoadAllIs, LogStands
  <2>4. new.held = Nothing \/ \E a \in Artists : new.held = Whole(a)
    BY <1>4, <2>1, <2>2
  <2> QED BY <1>2, <2>2, <2>3, <2>4
<1>9. CASE Leave(c)
  <2>1. caller' = [caller EXCEPT ![c] = Resting] /\ History' = History
    BY <1>9, LeaveIs, LogStands
  <2> QED BY <1>2, <1>4, <2>1
<1>10. CASE Save(c)
  <2>1. PICK facts \in Savable, new \in CallerRec :
              /\ caller' = [caller EXCEPT ![c] = new] /\ new.held = Nothing
              /\ me.artist \in Artists /\ me.held.artist = me.artist
              /\ me.held.version = Version(me.artist)
              /\ History' = [History EXCEPT ![me.artist] = @ \o facts]
    BY <1>10, SaveIs
  <2>2. Version(me.artist) = Len(History[me.artist])
    BY <2>1, CallerIs
  <2>3. Held' = [Held EXCEPT ![c] = Nothing]
    BY <1>2, <2>1
  <2> HIDE DEF me
  <2>4. LET a == Held[c].artist
        IN  /\ a \in Artists /\ Held[c].version = Len(History[a])
            /\ History' = [History EXCEPT ![a] = @ \o facts]
    BY <1>3, <2>1, <2>2
  <2> QED BY <2>3, <2>4
<1>11. CASE SaveSnapshot(c)
  <2>1. PICK new \in CallerRec : caller' = [caller EXCEPT ![c] = new] /\ new.held = me.held
    BY <1>11, SaveSnapshotIs
  <2>2. History' = History
    BY <1>11, SaveSnapshotIs, LogStands
  <2> QED BY <1>2, <1>3, <2>1, <2>2
<1>12. CASE PutSnapshot(c)
  <2>1. caller' = [caller EXCEPT ![c] = Thawed(me)] /\ Thawed(me).held = me.held
    BY <1>12, PutSnapshotIs
  <2>2. History' = History
    BY <1>12, PutSnapshotIs, LogStands
  <2> QED BY <1>2, <1>3, <2>1, <2>2
<1> QED BY <1>5, <1>6, <1>7, <1>8, <1>9, <1>10, <1>11, <1>12 DEF Step

\* Every step of a caller is one of the abstract store, or none.
LEMMA StepRefines ==
  ASSUME SafeInv, NEW c \in Callers, Step(c)
  PROVE  AG!AGLoad(c) \/ AG!AGSave(c) \/ AG!AGLeave(c) \/ UNCHANGED <<History, Held>>
<1>1. PICK record :
         /\ Held' = [Held EXCEPT ![c] = record]
         /\ \/ History' = History /\ record = Held[c]
            \/ History' = History /\ record = Nothing
            \/ History' = History /\ \E a \in Artists : record = Whole(a)
            \/ /\ record = Nothing
               /\ LET a == Held[c].artist
                  IN  /\ a \in Artists /\ Held[c].version = Len(History[a])
                      /\ \E facts \in Savable : History' = [History EXCEPT ![a] = @ \o facts]
  BY StepTells
<1>2. CASE History' = History /\ record = Held[c]
  <2>1. Held = [d \in Callers |-> Held[d]]
    BY DEF Held
  <2>2. Held' = Held
    BY <1>1, <1>2, <2>1
  <2> QED BY <1>2, <2>2
<1>3. CASE History' = History /\ record = Nothing
  BY <1>1, <1>3, SameNothing DEF AG!AGLeave, History, Held
<1>4. CASE History' = History /\ \E a \in Artists : record = Whole(a)
  <2>1. PICK a \in Artists : record = Whole(a)
    BY <1>4
  <2>2. record = [artist |-> a, version |-> Len(History[a]), state |-> AG!Folded(History[a])]
    <3>1. Version(a) = Len(History[a])
      BY CallerIs
    <3> QED BY <2>1, <3>1, SameFold DEF Whole
  <2> QED BY <1>1, <1>4, <2>2 DEF AG!AGLoad, History, Held
<1>5. CASE /\ record = Nothing
           /\ LET a == Held[c].artist
              IN  /\ a \in Artists /\ Held[c].version = Len(History[a])
                  /\ \E facts \in Savable : History' = [History EXCEPT ![a] = @ \o facts]
  <2> DEFINE a == Held[c].artist
  <2>1. PICK facts \in Savable : History' = [History EXCEPT ![a] = @ \o facts]
    BY <1>5
  <2>2. facts \in {<<f>> : f \in AG!Facts} \cup (AG!Facts \X AG!Facts)
    BY SameFacts, SavableIs
  <2> QED BY <1>1, <1>5, <2>1, <2>2, SameNothing DEF AG!AGSave, History, Held
<1> QED BY <1>1, <1>2, <1>3, <1>4, <1>5

\* Load and Save over either store, with snapshots, faults and rebuilt logs: what
\* a caller gets is the fold of an artist's whole stream at one moment, and a
\* save adds to exactly that stream or changes nothing.
THEOREM StoreIsImplemented == Spec => ImplementsStore
<1>1. Init => AG!AGInit
  <2> SUFFICES ASSUME Init PROVE AG!AGInit
    OBVIOUS
  <2>1. History \in [Artists -> Seq(Facts)]
    BY InitIsSafe, HistoryTells DEF IInv, SafeInv
  <2>2. Held = [c \in Callers |-> Nothing]
    BY DEF Init, Held, Resting
  <2> QED BY <2>1, <2>2, SameFacts, SameNothing DEF AG!AGInit, History, Held
<1>2. IInv /\ [Next]_vars => [AG!AGNext]_(AG!agVars)
  <2> SUFFICES ASSUME IInv, [Next]_vars PROVE AG!AGNext \/ UNCHANGED <<History, Held>>
    BY DEF AG!agVars, History, Held
  <2>1. CASE UNCHANGED vars
    BY <2>1, LogStands DEF vars, Held
  <2>2. CASE Rebuild
    BY <2>2, LogRebuilt DEF IInv, SafeInv, Rebuild, Held
  <2>3. ASSUME NEW c \in Callers, Step(c) PROVE AG!AGNext \/ UNCHANGED <<History, Held>>
    BY <2>3, StepRefines DEF IInv, AG!AGNext
  <2> QED BY <2>1, <2>2, <2>3 DEF Next
<1> QED BY <1>1, <1>2, Inductive, PTL DEF Spec, ImplementsStore, AG!AGSpec
=============================================================================
