---------------------------- MODULE CatalogProofs ----------------------------
(***************************************************************************)
(* The catalogue's calls, for any songs, calls, typed counts, cap and      *)
(* number of failures: four invariants, each on the ground of the one      *)
(* before.                                                                 *)
(*                                                                         *)
(* CatInv says what every row, stream and call looks like and keeps each   *)
(* count in range.  SlotInv follows a song through the steps of the call   *)
(* that is at work on it: the record, the SQLite row and the stream differ *)
(* by what this call still has to write, so that a place seen in the       *)
(* records is a place held in all three.  ClickInv follows an album's      *)
(* count click that no other call runs beside.  AgreeInv follows the album *)
(* and the artist as SlotInv does the songs, while no two calls overlap.   *)
(*                                                                         *)
(* Streams are replayed with a fold over their indices; that a replay can  *)
(* be cut at any event is proved first, by the least index at which it     *)
(* could not.                                                              *)
(*                                                                         *)
(* The last parts are about the TIDAL sync, for any pages, limits, tokens, *)
(* favourites and catalogue: the token of a command and of the next, lists *)
(* read page by page and flattened (FlattenPages), and what a plan may     *)
(* approve by itself, with its two folds (PlanTurnIsRun).                  *)
(***************************************************************************)
EXTENDS Catalog, TidalClient, TidalProposals, FiniteSetTheorems, SequenceTheorems, WellFoundedInduction, TLAPS

-----------------------------------------------------------------------------
(* Least and greatest elements.                                            *)

\* A set of naturals has a least element.
LEMMA LeastExists ==
  ASSUME NEW T \in SUBSET Nat, T # {}
  PROVE  \E x \in T : \A y \in T : x <= y
<1>1. PICK x \in T : \A y \in T : <<y, x>> \notin OpToRel(<, Nat)
  BY WFMin, NatLessThanWellFounded, Zenon
<1>2. \A y \in T : ~(y < x)
  BY <1>1 DEF OpToRel
<1> QED BY <1>2

\* What holds at 0 and is handed on from each place to the next holds everywhere.
LEMMA Climb ==
  ASSUME NEW N \in Nat, NEW T, 0 \in T, \A k \in 1..N : k - 1 \in T => k \in T
  PROVE  \A k \in 0..N : k \in T
<1> DEFINE U == {k \in 0..N : k \notin T}
<1> SUFFICES ASSUME U # {} PROVE FALSE
  OBVIOUS
<1>1. U \in SUBSET Nat
  OBVIOUS
<1>2. PICK k \in U : \A l \in U : k <= l
  BY <1>1, LeastExists
<1>3. k # 0 /\ k - 1 \in 0..N /\ k - 1 \notin U
  BY <1>2
<1> QED BY <1>3

\* A bounded set has a greatest element.
LEMMA GreatestExists ==
  ASSUME NEW n \in Nat, NEW T \in SUBSET (1..n), T # {}
  PROVE  Max(T) \in T /\ \A y \in T : y <= Max(T)
<1> DEFINE U == {u \in 0..n : \A y \in T : y <= u}
<1>1. n \in U /\ U \in SUBSET Nat
  OBVIOUS
<1>2. PICK u \in U : \A v \in U : u <= v
  BY <1>1, LeastExists
<1>3. CASE u \in T
  <2>1. \A y \in T : u >= y
    BY <1>2
  <2> QED BY <1>3, <2>1 DEF Max
<1>4. CASE u \notin T
  <2>1. PICK y \in T : TRUE
    OBVIOUS
  <2>2. u > 0 /\ \A z \in T : z <= u - 1
    BY <1>2, <1>4, <2>1
  <2>3. u - 1 \in U
    BY <1>2, <2>2
  <2> QED BY <1>2, <2>3
<1> QED BY <1>3, <1>4

-----------------------------------------------------------------------------
(* Replays of an aggregate (place "log") and of a read model ("db").       *)

\* The recursive function by which FoldLeft is defined, on the sets of places.
Stepped(place, key, row, e) == IF place = "db" THEN Projecting(key, row, e) ELSE Applied(key, row, e)
Recursion(place, key, g, base, facts, D) ==
    g = [S \in SUBSET D |-> IF S = {} THEN base ELSE Stepped(place, key, g[S \ {Max(S)}], facts[Max(S)])]

\* That function exists on every bounded set.
LEMMA RecursionExists ==
  ASSUME NEW place, NEW key, NEW base, NEW facts, NEW N \in Nat
  PROVE  \E g : Recursion(place, key, g, base, facts, 1..N)
<1> DEFINE T == {n \in 0..N : \E g : Recursion(place, key, g, base, facts, 1..n)}
<1>1. 0 \in T
  <2> DEFINE g == [S \in SUBSET (1..0) |-> base]
  <2>1. \A S \in SUBSET (1..0) : S = {}
    OBVIOUS
  <2>2. Recursion(place, key, g, base, facts, 1..0)
    BY <2>1 DEF Recursion
  <2> QED BY <2>2
<1>2. ASSUME NEW k \in 1..N, k - 1 \in T PROVE k \in T
  <2>1. PICK g : Recursion(place, key, g, base, facts, 1..(k - 1))
    BY <1>2
  <2> DEFINE h == [S \in SUBSET (1..k) |-> IF S = {} THEN base
                     ELSE Stepped(place, key, g[S \ {Max(S)}], facts[Max(S)])]
  <2>2. \A S \in SUBSET (1..(k - 1)) : h[S] = g[S]
    <3>1. \A S \in SUBSET (1..(k - 1)) : S \in SUBSET (1..k)
      OBVIOUS
    <3> QED BY <2>1, <3>1 DEF Recursion
  <2>3. \A S \in SUBSET (1..k) : S # {} => S \ {Max(S)} \in SUBSET (1..(k - 1))
    <3> SUFFICES ASSUME NEW S \in SUBSET (1..k), S # {}, NEW i \in S \ {Max(S)} PROVE i \in 1..(k - 1)
      OBVIOUS
    <3>1. k \in Nat
      OBVIOUS
    <3>2. Max(S) \in S /\ i <= Max(S)
      BY <3>1, GreatestExists
    <3>3. i \in 1..k /\ Max(S) \in 1..k /\ i # Max(S)
      BY <3>2
    <3> HIDE DEF Max
    <3> QED BY <3>1, <3>2, <3>3
  <2>4. Recursion(place, key, h, base, facts, 1..k)
    <3>1. \A S \in SUBSET (1..k) : S # {} => h[S \ {Max(S)}] = g[S \ {Max(S)}]
      BY <2>2, <2>3
    <3>2. \A S \in SUBSET (1..k) :
             h[S] = IF S = {} THEN base ELSE Stepped(place, key, h[S \ {Max(S)}], facts[Max(S)])
      BY <3>1
    <3> HIDE DEF h
    <3>3. h = [S \in SUBSET (1..k) |-> h[S]]
      BY DEF h
    <3> QED BY <3>2, <3>3 DEF Recursion
  <2> QED BY <2>4
<1> HIDE DEF T
<1>3. N \in T
  BY <1>1, <1>2, Climb
<1> QED BY <1>3 DEF T

\* A run of the replay: the states it goes through.
Run(place, key, h, base, facts) == h[0] = base /\ \A k \in 1..Len(facts) : h[k] = Stepped(place, key, h[k - 1], facts[k])

\* A replay is the last state of its run, and there is a run.
LEMMA FoldIsRun ==
  ASSUME NEW place, NEW key, NEW base, NEW facts, Len(facts) \in Nat, DOMAIN facts = 1..Len(facts)
  PROVE  /\ \E h : Run(place, key, h, base, facts)
         /\ \A h : Run(place, key, h, base, facts) => Replayed(place, key, base, facts) = h[Len(facts)]
<1> DEFINE N == Len(facts)
           g == CHOOSE g : Recursion(place, key, g, base, facts, 1..N)
<1>0. N \in Nat /\ DOMAIN facts = 1..N
  OBVIOUS
<1>1. Recursion(place, key, g, base, facts, 1..N)
  BY RecursionExists
<1>2. Replayed(place, key, base, facts) = g[1..N]
  BY DEF Replayed, Stepped, FoldLeft, MapThenFoldSet, Recursion
<1> HIDE DEF g, N
<1> DEFINE h == [k \in 0..N |-> g[1..k]]
<1>3. h[0] = base
  <2>1. 1..0 = {}
    OBVIOUS
  <2> QED BY <1>0, <1>1, <2>1 DEF Recursion
<1>4. ASSUME NEW k \in 1..N PROVE h[k] = Stepped(place, key, h[k - 1], facts[k])
  <2>0. k \in Nat /\ k \in 1..k /\ k >= 1
    BY <1>0
  <2>1. Max(1..k) = k
    <3>1. 1..k \in SUBSET (1..k) /\ 1..k # {}
      BY <2>0
    <3>2. Max(1..k) \in 1..k /\ \A y \in 1..k : y <= Max(1..k)
      BY <2>0, <3>1, GreatestExists
    <3> QED BY <2>0, <3>2
  <2>2. (1..k) \ {k} = 1..(k - 1)
    BY <2>0
  <2>3. 1..k # {} /\ 1..k \in SUBSET (1..N)
    BY <1>0, <2>0
  <2>4. g[1..k] = Stepped(place, key, g[(1..k) \ {Max(1..k)}], facts[Max(1..k)])
    BY <1>1, <2>3 DEF Recursion
  <2> QED BY <1>0, <2>0, <2>1, <2>2, <2>4
<1> HIDE DEF h
<1>5. Run(place, key, h, base, facts)
  BY <1>3, <1>4 DEF Run, N
<1>6. ASSUME NEW f, Run(place, key, f, base, facts) PROVE f[N] = h[N]
  <2> DEFINE T == {k \in 0..N : f[k] = h[k]}
  <2>1. 0 \in T
    BY <1>0, <1>3, <1>6 DEF Run
  <2>2. \A k \in 1..N : k - 1 \in T => k \in T
    BY <1>0, <1>4, <1>6 DEF Run, N
  <2> HIDE DEF T
  <2>3. N \in T
    BY <1>0, <2>1, <2>2, Climb
  <2> QED BY <2>3 DEF T
<1>7. h[N] = g[1..N]
  BY <1>0 DEF h
<1> QED BY <1>2, <1>5, <1>6, <1>7 DEF N

\* The replay of nothing, of one fact, and of one list after another.
LEMMA FoldEmpty ==
  ASSUME NEW place, NEW key, NEW base PROVE Replayed(place, key, base, << >>) = base
<1>0. Len(<< >>) = 0 /\ Len(<< >>) \in Nat /\ DOMAIN << >> = 1..Len(<< >>)
  OBVIOUS
<1>1. PICK h : Run(place, key, h, base, << >>)
  BY <1>0, FoldIsRun
<1>2. Replayed(place, key, base, << >>) = h[Len(<< >>)]
  BY <1>0, <1>1, FoldIsRun
<1> QED BY <1>0, <1>1, <1>2 DEF Run

\* The replay of one fact is one step.
LEMMA FoldOne ==
  ASSUME NEW place, NEW key, NEW base, NEW f PROVE Replayed(place, key, base, <<f>>) = Stepped(place, key, base, f)
<1> DEFINE one == <<f>>
<1>0. Len(one) = 1 /\ Len(one) \in Nat /\ DOMAIN one = 1..Len(one) /\ one[1] = f
  OBVIOUS
<1> HIDE DEF one
<1>1. PICK h : Run(place, key, h, base, one)
  BY <1>0, FoldIsRun
<1>2. Replayed(place, key, base, one) = h[Len(one)]
  BY <1>0, <1>1, FoldIsRun
<1>3. h[0] = base /\ h[1] = Stepped(place, key, h[0], f)
  BY <1>0, <1>1 DEF Run
<1> QED BY <1>0, <1>2, <1>3 DEF one

\* Replaying one list after another is replaying both.
LEMMA FoldConcat ==
  ASSUME NEW F, NEW u \in Seq(F), NEW v \in Seq(F), NEW place, NEW key, NEW base
  PROVE  Replayed(place, key, base, u \o v) = Replayed(place, key, Replayed(place, key, base, u), v)
<1> DEFINE m == Len(u)
           n == Len(v)
<1>1. /\ m \in Nat /\ n \in Nat /\ Len(u \o v) = m + n
      /\ DOMAIN u = 1..m /\ DOMAIN v = 1..n /\ DOMAIN (u \o v) = 1..(m + n)
      /\ \A k \in 1..m : (u \o v)[k] = u[k]
      /\ \A k \in 1..n : (u \o v)[m + k] = v[k]
  OBVIOUS
<1> DEFINE w == u \o v
<1>0. Len(w) \in Nat /\ DOMAIN w = 1..Len(w) /\ Len(w) = m + n
  BY <1>1
<1> HIDE DEF w, m, n
<1>2. PICK h : Run(place, key, h, base, w)
  BY <1>0, FoldIsRun
<1>3. Replayed(place, key, base, w) = h[m + n]
  BY <1>0, <1>2, FoldIsRun
<1>4. Run(place, key, h, base, u)
  BY <1>0, <1>1, <1>2 DEF Run, w, m
<1>5. Replayed(place, key, base, u) = h[m]
  BY <1>1, <1>4, FoldIsRun DEF m
<1> DEFINE g == [k \in 0..n |-> h[m + k]]
<1>6. Run(place, key, g, h[m], v)
  <2>1. g[0] = h[m]
    BY <1>1
  <2>2. ASSUME NEW k \in 1..n PROVE g[k] = Stepped(place, key, g[k - 1], v[k])
    <3>1. m + k \in 1..(m + n) /\ (m + k) - 1 = m + (k - 1) /\ k - 1 \in 0..n /\ k \in 0..n
      BY <1>1
    <3>2. h[m + k] = Stepped(place, key, h[(m + k) - 1], w[m + k])
      BY <1>0, <1>2, <3>1 DEF Run
    <3> QED BY <1>1, <3>1, <3>2 DEF w
  <2> HIDE DEF g
  <2> QED BY <2>1, <2>2 DEF Run, n
<1>7. Replayed(place, key, h[m], v) = g[n]
  <2> HIDE DEF g
  <2> QED BY <1>1, <1>6, FoldIsRun DEF n
<1>8. g[n] = h[m + n]
  BY <1>1
<1> QED BY <1>3, <1>5, <1>7, <1>8 DEF w

\* Whatever a step keeps is true of a replay.
LEMMA FoldKeeps ==
  ASSUME NEW place, NEW key, NEW F, NEW u \in Seq(F), NEW S, NEW base \in S,
         \A s \in S, f \in F : Stepped(place, key, s, f) \in S
  PROVE  Replayed(place, key, base, u) \in S
<1>1. Len(u) \in Nat /\ DOMAIN u = 1..Len(u) /\ \A k \in 1..Len(u) : u[k] \in F
  OBVIOUS
<1>2. PICK h : Run(place, key, h, base, u)
  BY <1>1, FoldIsRun
<1> DEFINE T == {k \in 0..Len(u) : h[k] \in S}
<1>3. 0 \in T
  BY <1>1, <1>2 DEF Run
<1>4. ASSUME NEW k \in 1..Len(u), k - 1 \in T PROVE k \in T
  <2>1. h[k] = Stepped(place, key, h[k - 1], u[k]) /\ h[k - 1] \in S
    BY <1>2, <1>4 DEF Run
  <2> QED BY <1>1, <2>1
<1> DEFINE n == Len(u)
<1>5. n \in Nat
  BY <1>1
<1>6. \A k \in 1..n : k - 1 \in T => k \in T
  BY <1>4
<1> HIDE DEF T, n
<1>7. n \in T
  BY <1>3, <1>5, <1>6, Climb
<1> QED BY <1>1, <1>2, <1>7, FoldIsRun DEF T, n


-----------------------------------------------------------------------------
(* The catalogue: what rows, streams and calls look like, and that no album *)
(* has more songs collected than it has.                                   *)

Labels  == {"none", "recent", "kept", "waiting", "processed_once", "full", "included", "not_added"}
Rows    == [status : Labels, coll : Nat, total : Nat]
Events  == [type : {"Created", "StatusChanged", "CountsAdjusted", "RecentChanged"}, row : Rows]
OpNames == {"none", "create", "count", "status", "song", "toggle", "artistCount", "artistList"}
CallRec == [op : OpNames, pc : Pcs, key : Keys, todo : Seq({"album", "artist"}),
            was : Rows, view : Rows, credit : Rows, click : {"coll", "total"} \X Int,
            events : Seq(Events), ver : Nat, seeding : BOOLEAN, alone : BOOLEAN, failed : BOOLEAN]

\* What an aggregate records; only the first of a stream is its creation.
TypesOf(key)   == {"Created"} \cup IF key \in Songs THEN {"RecentChanged"} ELSE {"StatusChanged", "CountsAdjusted"}
Fits(key, ver, events) ==
    \A i \in DOMAIN events : /\ events[i].type \in TypesOf(key)
                             /\ (events[i].type = "Created") = (ver = 0 /\ i = 1)
InRange(row)       == row.coll <= row.total
Ranged(key, events) == key = "album" => \A i \in DOMAIN events : InRange(events[i].row)

\* Which rows a kind of call has to do with, and in which steps.
Records == {"load", "append", "project"}
Shape(me) ==
    \/ me.op = "create" /\ me.key \notin Songs /\ me.pc \in {"append", "project"} /\ me.todo = << >> /\ ~me.seeding
    \/ me.op = "song" /\ me.key \in Songs /\ me.pc \in {"append", "project"} /\ me.todo = <<"album", "artist">> /\ ~me.seeding
    \/ me.op = "song" /\ me.key = "album" /\ me.pc \in Records /\ me.todo = <<"artist">>
    \/ me.op = "song" /\ me.key = "artist" /\ me.pc \in Records /\ me.todo = << >>
    \/ me.op \in {"count", "status"} /\ me.key = "album" /\ me.pc \in {"mirror"} \cup Records /\ me.todo = << >>
    \/ me.op = "toggle" /\ me.key \in Songs /\ me.pc \in {"save", "mirrorRow"} \cup Records /\ me.todo = << >>
    \/ me.op \in {"artistCount", "artistList"} /\ me.key = "artist" /\ me.pc \in {"save"} \cup Records /\ me.todo = << >>

Under(me) == me.pc \notin {"new", "done"}
CallOK(me) ==
    /\ me \in CallRec
    /\ Under(me) => Shape(me)
    /\ me.pc \in {"append", "project"} =>
           me.events # << >> /\ Fits(me.key, me.ver, me.events) /\ Ranged(me.key, me.events)
    /\ Under(me) /\ (me.key = "album" \/ me.op = "song") => InRange(me.view)
LogOK(key, events) == Fits(key, 0, events) /\ Ranged(key, events)
RowsOK(rows) == rows \in [Keys -> Rows] /\ InRange(rows["album"])

CatInv ==
    /\ RowsOK(pb) /\ RowsOK(db)
    /\ log \in [Keys -> Seq(Events)] /\ \A k \in Keys : LogOK(k, log[k])
    /\ call \in [Calls -> CallRec] /\ \A c \in Calls : CallOK(call[c])
    /\ faults \in 0..MaxFaults /\ origin \in Origins

\* The album's and the artist's keys are no songs.
LEMMA KeysAre == /\ "album" \in Keys /\ "artist" \in Keys /\ "album" # "artist"
                 /\ "album" \notin Songs /\ "artist" \notin Songs /\ Songs \subseteq Keys
                 /\ \A k \in Keys : k = "album" \/ k = "artist" \/ k \in Songs
BY CatalogNames DEF Keys

\* Rows are built from labels and counts.
LEMMA RowIs ==
  /\ NoRow \in Rows /\ NotRecent \in Rows
  /\ \A status \in Labels, m, n \in Nat : Row(status, m, n) \in Rows
BY DEF Rows, NoRow, NotRecent, Row, Labels

\* What a call is before its first step.
LEMMA WaitingIs == CallOK(Waiting) /\ Waiting.pc = "new" /\ Waiting.alone
BY KeysAre, RowIs DEF CallOK, Waiting, CallRec, OpNames, Pcs, Under

\* One step of a replay keeps rows rows, and an album in range.
LEMMA SteppedIs ==
  ASSUME NEW place, NEW key \in Keys, NEW row \in Rows, NEW e \in Events, e.type \in TypesOf(key)
  PROVE  /\ Stepped(place, key, row, e) \in Rows
         /\ key = "album" /\ InRange(row) /\ InRange(e.row) => InRange(Stepped(place, key, row, e))
<1>1. e.row \in Rows /\ e.row.coll \in Nat /\ e.row.total \in Nat /\ e.row.status \in Labels
  BY DEF Events, Rows
<1>2. CASE key = "album"
  <2>1. e.type \in {"Created", "StatusChanged", "CountsAdjusted"}
    BY <1>2, KeysAre DEF TypesOf
  <2>2. AlbumApplied(row, e) \in Rows /\ (InRange(row) /\ InRange(e.row) => InRange(AlbumApplied(row, e)))
    BY <1>1, <2>1 DEF AlbumApplied, Rows, InRange
  <2> QED BY <1>2, <2>2 DEF Stepped, Projecting, Applied, AlbumProjected
<1>3. CASE key = "artist"
  <2>1. e.type \in {"Created", "StatusChanged", "CountsAdjusted"}
    BY <1>3, KeysAre DEF TypesOf
  <2>2. ArtistApplied(row, e) \in Rows
    BY <1>1, <2>1 DEF ArtistApplied, Rows, Row
  <2> QED BY <1>3, <2>2 DEF Stepped, Projecting, Applied, ArtistProjected
<1>4. CASE key \in Songs
  BY <1>1, <1>4, KeysAre DEF Stepped, Projecting, Applied, SongProjected, SongApplied
<1> QED BY <1>2, <1>3, <1>4, KeysAre

\* So does a whole one.
LEMMA ReplayedIs ==
  ASSUME NEW place, NEW key \in Keys, NEW row \in Rows, NEW events \in Seq(Events),
         \A i \in DOMAIN events : events[i].type \in TypesOf(key)
  PROVE  /\ Replayed(place, key, row, events) \in Rows
         /\ key = "album" /\ InRange(row) /\ Ranged(key, events) => InRange(Replayed(place, key, row, events))
<1> DEFINE F == {e \in Events : e.type \in TypesOf(key)}
           G == {e \in F : InRange(e.row)}
           S == {r \in Rows : InRange(r)}
<1>0. Len(events) \in Nat /\ DOMAIN events = 1..Len(events) /\ events = [i \in 1..Len(events) |-> events[i]]
  OBVIOUS
<1>1. events \in Seq(F)
  BY <1>0
<1>2. Replayed(place, key, row, events) \in Rows
  <2>1. \A r \in Rows, e \in F : Stepped(place, key, r, e) \in Rows
    BY SteppedIs
  <2> HIDE DEF F
  <2> QED BY <1>1, <2>1, FoldKeeps
<1>3. ASSUME key = "album", InRange(row), Ranged(key, events) PROVE InRange(Replayed(place, key, row, events))
  <2>1. events \in Seq(G)
    BY <1>0, <1>3 DEF Ranged
  <2>2. \A r \in S, e \in G : Stepped(place, key, r, e) \in S
    BY <1>3, SteppedIs
  <2>3. row \in S
    BY <1>3
  <2> HIDE DEF G, S
  <2>4. Replayed(place, key, row, events) \in S
    BY <2>1, <2>2, <2>3, FoldKeeps
  <2> QED BY <2>4 DEF S
<1> QED BY <1>2, <1>3

-----------------------------------------------------------------------------
(* How calls begin.                                                        *)

\* Being alone or not matters to no call's shape.
LEMMA AloneOrNot ==
  ASSUME NEW me, CallOK(me), NEW b \in BOOLEAN PROVE CallOK([me EXCEPT !.alone = b])
BY DEF CallOK, CallRec, Shape, Fits, Ranged, Under

\* A call that is well made begins well, beside the others.
LEMMA BeginIs ==
  ASSUME CatInv, NEW c \in Calls, NEW op \in OpNames, NEW first, Begin(c, op, first),
         CallOK([first EXCEPT !.op = op, !.alone = TRUE]), first \in CallRec
  PROVE  call' \in [Calls -> CallRec] /\ (\A d \in Calls : CallOK(call'[d])) /\ origin' = origin
<1> DEFINE beside == {d \in Calls : Busy(d)}
           b  == (beside = {})
           me == [first EXCEPT !.op = op, !.alone = b]
<1>1. CallOK(me)
  <2> DEFINE yes == [first EXCEPT !.op = op, !.alone = TRUE]
  <2>1. b \in BOOLEAN
    OBVIOUS
  <2>2. me = [yes EXCEPT !.alone = b]
    BY DEF CallRec
  <2> HIDE DEF yes, b
  <2>3. CallOK([yes EXCEPT !.alone = b])
    BY <2>1, AloneOrNot DEF yes
  <2> QED BY <2>2, <2>3
<1>2. call' = [d \in Calls |-> IF d = c THEN me
                               ELSE IF d \in beside THEN [call[d] EXCEPT !.alone = FALSE] ELSE call[d]]
  BY DEF Begin
<1>3. origin' = origin
  BY DEF Begin
<1> HIDE DEF me, beside
<1>4. ASSUME NEW d \in Calls PROVE CallOK(call'[d])
  <2>1. CallOK([call[d] EXCEPT !.alone = FALSE]) /\ CallOK(call[d])
    BY AloneOrNot DEF CatInv
  <2> QED BY <1>1, <1>2, <2>1
<1>5. \A d \in Calls : call'[d] \in CallRec
  BY <1>4 DEF CallOK
<1>6. call' = [d \in Calls |-> call'[d]]
  BY <1>2
<1> QED BY <1>3, <1>4, <1>5, <1>6

\* A row of another key, or an album's in range.
LEMMA RowSet ==
  ASSUME NEW rows, RowsOK(rows), NEW k \in Keys, NEW new \in Rows, k = "album" => InRange(new)
  PROVE  RowsOK([rows EXCEPT ![k] = new])
BY KeysAre DEF RowsOK

\* A count that moves drags the other along.
LEMMA CountedIs ==
  ASSUME NEW row \in Rows, NEW field \in {"coll", "total"}, NEW delta \in Int
  PROVE  Counted(row, field, delta) \in Rows /\ InRange(Counted(row, field, delta)) /\ Counted(row, field, delta).status = row.status
<1>1. row.coll \in Nat /\ row.total \in Nat /\ row.status \in Labels /\ row = [status |-> row.status, coll |-> row.coll, total |-> row.total]
  BY DEF Rows
<1>2. CASE field = "coll"
  <2> DEFINE n == AtLeast(row.coll + delta, 0)
             m == AtLeast(row.total, n)
  <2>1. n \in Nat /\ m \in Nat /\ n <= m
    BY <1>1 DEF AtLeast
  <2>2. Counted(row, field, delta) = [status |-> row.status, coll |-> n, total |-> m]
    BY <1>1, <1>2 DEF Counted
  <2> HIDE DEF n, m
  <2> QED BY <1>1, <2>1, <2>2 DEF Rows, InRange
<1>3. CASE field = "total"
  <2> DEFINE n == AtLeast(row.total + delta, 0)
             m == AtMost(row.coll, n)
  <2>1. n \in Nat /\ m \in Nat /\ m <= n
    BY <1>1 DEF AtLeast, AtMost
  <2>2. Counted(row, field, delta) = [status |-> row.status, coll |-> m, total |-> n]
    BY <1>1, <1>3 DEF Counted
  <2> HIDE DEF n, m
  <2> QED BY <1>1, <2>1, <2>2 DEF Rows, InRange
<1> QED BY <1>2, <1>3

\* Lists of one event and of two.
LEMMA OneEvent ==
  ASSUME NEW e \in Events PROVE /\ <<e>> \in Seq(Events) /\ <<e>> # << >> /\ DOMAIN <<e>> = {1} /\ <<e>>[1] = e
                                /\ Len(<<e>>) = 1
OBVIOUS

\* The same of two.
LEMMA TwoEvents ==
  ASSUME NEW e \in Events, NEW f \in Events
  PROVE  /\ <<e, f>> \in Seq(Events) /\ <<e, f>> # << >> /\ DOMAIN <<e, f>> = {1, 2}
         /\ <<e, f>>[1] = e /\ <<e, f>>[2] = f /\ <<e>> \o <<f>> = <<e, f>> /\ <<e>> \o << >> = <<e>>
<1>1. /\ <<e, f>> \in Seq(Events) /\ <<e, f>> # << >> /\ DOMAIN <<e, f>> = {1, 2}
      /\ <<e, f>>[1] = e /\ <<e, f>>[2] = f /\ Len(<<e, f>>) = 2
  OBVIOUS
<1>2. <<e>> \in Seq(Events) /\ <<f>> \in Seq(Events) /\ << >> \in Seq(Events)
  OBVIOUS
<1>3. <<e>> \o << >> = <<e>>
  BY <1>2
<1>4. <<e>> \o <<f>> = <<e, f>>
  <2> DEFINE both == <<e>> \o <<f>>
  <2>1. both \in Seq(Events) /\ Len(both) = 2 /\ both[1] = e /\ both[2] = f
    BY <1>2
  <2> HIDE DEF both
  <2>2. both = <<e, f>>
    BY <1>1, <2>1
  <2> QED BY <2>2 DEF both
<1> QED BY <1>1, <1>3, <1>4

\* What an event is made of.
LEMMA EventIs ==
  ASSUME NEW type \in {"Created", "StatusChanged", "CountsAdjusted", "RecentChanged"}, NEW row \in Rows
  PROVE  Event(type, row) \in Events /\ Event(type, row).type = type /\ Event(type, row).row = row
BY DEF Event, Events

\* What a creation records.
LEMMA CreationIs ==
  ASSUME NEW row \in Rows
  PROVE  /\ AlbumFacts(row) \in Seq(Events) /\ AlbumFacts(row) # << >> /\ Fits("album", 0, AlbumFacts(row))
         /\ (InRange(row) => Ranged("album", AlbumFacts(row)))
         /\ ArtistFacts(row) \in Seq(Events) /\ ArtistFacts(row) # << >> /\ Fits("artist", 0, ArtistFacts(row))
         /\ Ranged("artist", ArtistFacts(row))
         /\ \A s \in Songs : /\ SongFacts(row) \in Seq(Events) /\ SongFacts(row) # << >>
                             /\ Fits(s, 0, SongFacts(row)) /\ Ranged(s, SongFacts(row))
<1>1. Event("Created", row) \in Events /\ Event("Created", row).type = "Created" /\ Event("Created", row).row = row
  BY EventIs
<1>2. /\ <<Event("Created", row)>> \in Seq(Events) /\ <<Event("Created", row)>> # << >>
      /\ DOMAIN <<Event("Created", row)>> = {1} /\ <<Event("Created", row)>>[1] = Event("Created", row)
  BY <1>1, OneEvent
<1>3. AlbumFacts(row) # << >> /\ AlbumFacts(row) \in Seq(Events) /\ Fits("album", 0, AlbumFacts(row)) /\ (InRange(row) => Ranged("album", AlbumFacts(row)))
  BY <1>1, <1>2 DEF AlbumFacts, Fits, Ranged, TypesOf
<1>4. \A s \in Songs : SongFacts(row) \in Seq(Events) /\ SongFacts(row) # << >> /\ Fits(s, 0, SongFacts(row)) /\ Ranged(s, SongFacts(row))
  BY <1>1, <1>2, KeysAre DEF SongFacts, Fits, Ranged, TypesOf
<1>5. ArtistFacts(row) \in Seq(Events) /\ ArtistFacts(row) # << >> /\ Fits("artist", 0, ArtistFacts(row)) /\ Ranged("artist", ArtistFacts(row))
  <2> DEFINE born == [row EXCEPT !.coll = 0]
             one == Event("Created", born)
             two == Event("CountsAdjusted", row)
  <2>1. born \in Rows
    BY DEF Rows
  <2>2. one \in Events /\ one.type = "Created" /\ two \in Events /\ two.type = "CountsAdjusted"
    BY <2>1, EventIs
  <2>3. ArtistFacts(row) = IF row.coll = 0 THEN <<one>> ELSE <<one, two>>
    <3>1. ArtistFacts(row) = <<one>> \o IF row.coll = 0 THEN << >> ELSE <<two>>
      BY DEF ArtistFacts
    <3> HIDE DEF one, two
    <3>2. <<one>> \o << >> = <<one>> /\ <<one>> \o <<two>> = <<one, two>>
      BY <2>2, TwoEvents
    <3> QED BY <3>1, <3>2
  <2> HIDE DEF one, two
  <2>4. CASE row.coll = 0
    BY <2>2, <2>3, <2>4, OneEvent, KeysAre DEF Fits, Ranged, TypesOf
  <2>5. CASE row.coll # 0
    BY <2>2, <2>3, <2>5, TwoEvents, KeysAre DEF Fits, Ranged, TypesOf
  <2> QED BY <2>4, <2>5
<1> QED BY <1>3, <1>4, <1>5

\* What each kind of call about an album or an artist begins with.
Opening(op, me) ==
    /\ op # "song" /\ me.ver = 0 /\ ~me.seeding /\ ~me.failed
    /\ op = "create" =>
         /\ me.pc = "append" /\ Exists(me.view) /\ ~Exists(pb[me.key]) /\ log[me.key] = << >>
         /\ me.events = (IF me.key = "album" THEN AlbumFacts(me.view) ELSE ArtistFacts(me.view))
         /\ (me.key = "artist" => me.view.total = 0) /\ pb' = [pb EXCEPT ![me.key] = me.view]
    /\ op = "count" =>
         /\ me.pc = "mirror" /\ me.key = "album" /\ Exists(me.view) /\ Exists(pb["album"])
         /\ me.view = Counted(pb["album"], me.click[1], me.click[2]) /\ pb' = [pb EXCEPT !["album"] = me.view]
    /\ op = "status" =>
         /\ me.pc = "mirror" /\ me.key = "album" /\ me.was = pb["album"] /\ Exists(me.was) /\ Exists(me.view)
         /\ me.was = [me.view EXCEPT !.status = me.was.status] /\ pb' = [pb EXCEPT !["album"] = me.view]
    /\ op \in {"artistCount", "artistList"} =>
         /\ me.pc = "load" /\ me.key = "artist" /\ me.was = pb["artist"] /\ Exists(me.was) /\ Exists(me.view)
         /\ pb' = pb
         /\ me.view = IF op = "artistCount" THEN [me.was EXCEPT !.coll = me.view.coll]
                      ELSE [me.was EXCEPT !.status = me.view.status]

\* A call that is about an album or an artist begins.
PlainBegun(c) ==
    \E op \in OpNames \ {"toggle", "none"}, first \in CallRec :
        /\ Begin(c, op, first) /\ UNCHANGED <<db, log, faults>>
        /\ first.pc # "new" /\ first.key \notin Songs /\ CallOK([first EXCEPT !.op = op, !.alone = TRUE])
        /\ RowsOK(pb') /\ (\A s \in Songs : pb'[s] = pb[s]) /\ Opening(op, first)

\* Creations of albums and artists.
LEMMA CreateBegins ==
  ASSUME CatInv, NEW c \in Calls, CreateAlbum(c) \/ CreateArtist(c) PROVE PlainBegun(c)
<1>1. PICK key \in {"album", "artist"}, new \in Rows, events \in Seq(Events) :
         /\ Create(c, key, new, events) /\ (key = "album" => InRange(new))
         /\ events \in Seq(Events) /\ events # << >> /\ Fits(key, 0, events) /\ Ranged(key, events)
         /\ Exists(new) /\ events = (IF key = "album" THEN AlbumFacts(new) ELSE ArtistFacts(new))
         /\ (key = "artist" => new.total = 0)
  <2>1. CASE CreateAlbum(c)
    <3>1. PICK status \in Statuses, coll \in 0..1, total \in 0..1 :
             Create(c, "album", Row(status, coll, AtLeast(total, coll)), AlbumFacts(Row(status, coll, AtLeast(total, coll))))
      BY <2>1 DEF CreateAlbum
    <3> DEFINE new == Row(status, coll, AtLeast(total, coll))
    <3>2. new \in Rows /\ InRange(new) /\ Exists(new)
      <4>1. status \in Labels /\ status # "none" /\ coll \in Nat /\ AtLeast(total, coll) \in Nat /\ coll <= AtLeast(total, coll)
        BY <3>1 DEF Labels, Statuses, AtLeast
      <4>2. InRange(Row(status, coll, AtLeast(total, coll))) /\ Exists(Row(status, coll, AtLeast(total, coll)))
        BY <4>1 DEF Row, InRange, Exists
      <4> QED BY <4>1, <4>2, RowIs
    <3> HIDE DEF new
    <3> QED BY <3>1, <3>2, CreationIs, KeysAre DEF new
  <2>2. CASE CreateArtist(c)
    <3>1. PICK status \in ListStatuses, coll \in 0..1 :
             Create(c, "artist", Row(status, coll, 0), ArtistFacts(Row(status, coll, 0)))
      BY <2>2 DEF CreateArtist
    <3> DEFINE new == Row(status, coll, 0)
    <3>2. new \in Rows /\ Exists(new) /\ new.total = 0
      <4>1. status \in Labels /\ coll \in Nat /\ status # "none"
        BY <3>1 DEF Labels, ListStatuses
      <4> QED BY <4>1, RowIs DEF Row, Exists
    <3> HIDE DEF new
    <3> QED BY <3>1, <3>2, CreationIs, KeysAre DEF new
  <2> QED BY <2>1, <2>2
<1> DEFINE first == [Waiting EXCEPT !.pc = "append", !.key = key, !.view = new, !.events = events]
<1>6. first.pc # "new" /\ first.key \notin Songs
  BY <1>1, KeysAre DEF Waiting
<1>10. /\ key \in {"album", "artist"} /\ new \in Rows /\ (key = "album" => InRange(new))
       /\ events \in Seq(Events) /\ events # << >> /\ Fits(key, 0, events) /\ Ranged(key, events)
  BY <1>1
<1>2. first \in CallRec /\ CallOK([first EXCEPT !.op = "create", !.alone = TRUE])
  <2>1. Waiting \in CallRec /\ Waiting.todo = << >> /\ ~Waiting.seeding /\ Waiting.ver = 0
    BY WaitingIs DEF CallOK, Waiting
  <2>2. key \in Keys /\ key \notin Songs /\ "append" \in Pcs /\ "create" \in OpNames
    BY <1>10, KeysAre DEF Pcs, OpNames
  <2>3. first \in CallRec /\ first.pc = "append" /\ first.key = key /\ first.view = new /\ first.events = events
        /\ first.todo = << >> /\ ~first.seeding /\ first.ver = 0
    BY <1>10, <2>1, <2>2 DEF CallRec
  <2> HIDE DEF first
  <2> DEFINE me == [first EXCEPT !.op = "create", !.alone = TRUE]
  <2>4. me \in CallRec /\ me.op = "create" /\ me.pc = "append" /\ me.key = key /\ me.view = new /\ me.events = events
        /\ me.todo = << >> /\ ~me.seeding /\ me.ver = 0
    BY <2>2, <2>3 DEF CallRec
  <2> HIDE DEF me
  <2>5. Shape(me)
    BY <2>2, <2>4 DEF Shape
  <2>6. me.events # << >> /\ Fits(me.key, me.ver, me.events) /\ Ranged(me.key, me.events)
    BY <1>10, <2>4
  <2>7. me.key = "album" \/ me.op = "song" => InRange(me.view)
    BY <1>10, <2>4
  <2>8. CallOK(me)
    BY <2>4, <2>5, <2>6, <2>7 DEF CallOK
  <2> QED BY <2>3, <2>8 DEF me
<1>3. Begin(c, "create", first) /\ pb' = [pb EXCEPT ![key] = new] /\ UNCHANGED <<db, log, faults>>
  BY <1>1 DEF Create
<1>8. Opening("create", first)
  <2>1. /\ first.pc = "append" /\ first.key = key /\ first.view = new /\ first.events = events
        /\ first.ver = 0 /\ ~first.seeding /\ ~first.failed
    BY DEF Waiting
  <2>2. ~Exists(pb[key]) /\ log[key] = << >>
    BY <1>1 DEF Create
  <2> HIDE DEF first
  <2> QED BY <1>1, <1>3, <2>1, <2>2 DEF Opening
<1> HIDE DEF first
<1>5. RowsOK(pb')
  BY <1>1, <1>3, RowSet, KeysAre DEF CatInv
<1>7. \A s \in Songs : pb'[s] = pb[s]
  BY <1>1, <1>3, KeysAre
<1>9. "create" \in OpNames \ {"toggle", "none"}
  BY DEF OpNames
<1> QED BY <1>2, <1>3, <1>5, <1>6, <1>7, <1>8, <1>9 DEF PlainBegun

-----------------------------------------------------------------------------
(* Places of recent songs.                                                 *)

\* A finite set of naturals is bounded.
LEMMA BoundExists ==
  ASSUME NEW T \in SUBSET Nat, IsFiniteSet(T)
  PROVE  \E b \in Nat : \A x \in T : x <= b
<1>1. PICK n \in Nat : ExistsSurjection(1..n, T)
  BY FS_NatSurjection
<1>2. PICK f \in [1..n -> T] : \A x \in T : \E i \in 1..n : f[i] = x
  BY <1>1 DEF ExistsSurjection, Surjection
<1> DEFINE U == {k \in 0..n : \E b \in Nat : \A i \in 1..k : f[i] <= b}
<1>3. 0 \in U
  <2>1. 1..0 = {} /\ 0 \in 0..n /\ 0 \in Nat
    BY <1>1
  <2> QED BY <2>1
<1>4. ASSUME NEW k \in 1..n, k - 1 \in U PROVE k \in U
  <2>1. PICK b \in Nat : \A i \in 1..(k - 1) : f[i] <= b
    BY <1>4
  <2>2. f[k] \in Nat
    BY <1>2
  <2> DEFINE d == IF f[k] > b THEN f[k] ELSE b
  <2>3. \A i \in 1..k : f[i] <= d
    <3> SUFFICES ASSUME NEW i \in 1..k PROVE f[i] <= d
      OBVIOUS
    <3>1. i = k \/ i \in 1..(k - 1)
      OBVIOUS
    <3>0. i \in 1..n
      BY <1>1
    <3>2. f[i] \in Nat
      BY <1>2, <3>0
    <3> QED BY <2>1, <2>2, <3>1, <3>2
  <2>4. d \in Nat /\ k \in 0..n
    BY <2>2
  <2> QED BY <2>3, <2>4
<1> HIDE DEF U
<1>5. n \in U
  BY <1>1, <1>3, <1>4, Climb
<1>6. PICK b \in Nat : \A i \in 1..n : f[i] <= b
  BY <1>5 DEF U
<1> QED BY <1>2, <1>6

\* The greatest and the least of what songs have.
LEMMA ExtremesAre ==
  ASSUME NEW T \in SUBSET (Nat \ {0}), IsFiniteSet(T), T # {}
  PROVE  /\ Max(T) \in T /\ \A x \in T : x <= Max(T)
         /\ Min(T) \in T /\ \A x \in T : Min(T) <= x
<1>1. PICK b \in Nat : \A x \in T : x <= b
  BY BoundExists
<1>2. T \in SUBSET (1..b)
  BY <1>1
<1>3. Max(T) \in T /\ \A x \in T : x <= Max(T)
  BY <1>2, GreatestExists
<1>4. \E x \in T : \A y \in T : x <= y
  BY LeastExists
<1>5. Min(T) \in T /\ \A x \in T : Min(T) <= x
  BY <1>4 DEF Min
<1> QED BY <1>3, <1>5

\* A row within the batches.
Placed(row) == row.coll > 0 /\ row.total \in 1..BatchSize

\* The next place is within the batches, and nobody has it.
LEMMA NextIs ==
  ASSUME NEW rows \in [Keys -> Rows], NEW old \in BOOLEAN
  PROVE  LET new == NextPlace(rows, old)
         IN  /\ new \in Rows /\ new.status = "recent" /\ Placed(new)
             /\ \A s \in Recent(rows) : Placed(rows[s]) => Counts(rows[s]) # Counts(new)
<1>0. BatchSize \in Nat /\ BatchSize > 0 /\ 1 \in Nat
  BY CatalogAssumption
<1>1. \A m \in Nat \ {0}, n \in 1..BatchSize :
         LET new == Row("recent", m, n) IN new \in Rows /\ new.status = "recent" /\ Placed(new) /\ new.coll = m /\ new.total = n
  BY <1>0, RowIs DEF Row, Placed, Labels, Rows
<1>2. CASE Recent(rows) = {}
  BY <1>0, <1>1, <1>2 DEF NextPlace
<1>3. CASE Recent(rows) # {}
  <2> DEFINE B(s) == BatchOf(rows[s])
             P(s) == PlaceOf(rows[s])
             seq == Max({B(s) : s \in Recent(rows)})
             batch == {s \in Recent(rows) : B(s) = seq}
             lowest == Min({P(s) : s \in batch})
  <2>1. \A s \in Recent(rows) : /\ B(s) \in Nat \ {0} /\ P(s) \in 1..BatchSize
                                /\ (Placed(rows[s]) => B(s) = rows[s].coll /\ P(s) = rows[s].total)
    <3> SUFFICES ASSUME NEW s \in Recent(rows)
                 PROVE  /\ B(s) \in Nat \ {0} /\ P(s) \in 1..BatchSize
                        /\ (Placed(rows[s]) => B(s) = rows[s].coll /\ P(s) = rows[s].total)
      OBVIOUS
    <3>1. rows[s] \in Rows
      BY KeysAre DEF Recent
    <3>2. rows[s].coll \in Nat /\ rows[s].total \in Nat
      BY <3>1 DEF Rows
    <3> QED BY <1>0, <3>2 DEF BatchOf, PlaceOf, AtLeast, Placed
  <2>2. IsFiniteSet(Recent(rows))
    BY CatalogNames, FS_Subset DEF Recent
  <2> HIDE DEF B, P
  <2>3. seq \in Nat \ {0} /\ (\A s \in Recent(rows) : B(s) <= seq) /\ batch # {}
    <3> DEFINE T == {B(s) : s \in Recent(rows)}
    <3>1. T \in SUBSET (Nat \ {0}) /\ T # {}
      BY <1>3, <2>1
    <3>2. IsFiniteSet(T)
      <4> DEFINE f == [s \in Recent(rows) |-> B(s)]
      <4>1. f \in Surjection(Recent(rows), T)
        BY DEF Surjection
      <4> QED BY <2>2, <4>1, FS_Surjection DEF ExistsSurjection
    <3>3. Max(T) \in T /\ \A x \in T : x <= Max(T)
      BY <3>1, <3>2, ExtremesAre
    <3> QED BY <3>1, <3>3
  <2>4. lowest \in 1..BatchSize /\ \A s \in batch : lowest <= P(s)
    <3> DEFINE T == {P(s) : s \in batch}
    <3>1. T \in SUBSET (Nat \ {0}) /\ T # {} /\ T \in SUBSET (1..BatchSize)
      BY <1>0, <2>1, <2>3
    <3>2. IsFiniteSet(T)
      <4>1. IsFiniteSet(batch)
        BY <2>2, FS_Subset
      <4> DEFINE f == [s \in batch |-> P(s)]
      <4>2. f \in Surjection(batch, T)
        BY DEF Surjection
      <4> HIDE DEF T, f, batch
      <4> QED BY <4>1, <4>2, FS_Surjection DEF ExistsSurjection
    <3>3. Min(T) \in T /\ \A x \in T : Min(T) <= x
      BY <3>1, <3>2, ExtremesAre
    <3> QED BY <3>1, <3>3
  <2> DEFINE full == Cardinality(batch) >= BatchSize \/ lowest <= 1 \/ old
  <2>5. NextPlace(rows, old) = IF full THEN Row("recent", seq + 1, BatchSize) ELSE Row("recent", seq, lowest - 1)
    BY <1>3 DEF NextPlace, BatchStats, B, P
  <2> HIDE DEF lowest, seq
  <2>6. CASE full
    <3> DEFINE new == Row("recent", seq + 1, BatchSize)
    <3>1. new \in Rows /\ new.status = "recent" /\ Placed(new) /\ new.coll = seq + 1
      BY <1>0, <1>1, <2>3
    <3>2. \A s \in Recent(rows) : Placed(rows[s]) => rows[s].coll <= seq
      BY <2>1, <2>3
    <3> HIDE DEF new
    <3>3. \A s \in Recent(rows) : Placed(rows[s]) => Counts(rows[s]) # Counts(new)
      <4> SUFFICES ASSUME NEW s \in Recent(rows), Placed(rows[s]), Counts(rows[s]) = Counts(new) PROVE FALSE
        OBVIOUS
      <4>1. rows[s].coll = new.coll
        BY DEF Counts
      <4> QED BY <2>3, <3>1, <3>2, <4>1
    <3> QED BY <2>5, <2>6, <3>1, <3>3 DEF new
  <2>7. CASE ~full
    <3> DEFINE new == Row("recent", seq, lowest - 1)
    <3>0. lowest - 1 \in 1..BatchSize
      BY <1>0, <2>4, <2>7
    <3>1. new \in Rows /\ new.status = "recent" /\ Placed(new) /\ new.coll = seq /\ new.total = lowest - 1
      BY <1>1, <2>3, <3>0
    <3> HIDE DEF new
    <3>3. \A s \in Recent(rows) : Placed(rows[s]) => Counts(rows[s]) # Counts(new)
      <4> SUFFICES ASSUME NEW s \in Recent(rows), Placed(rows[s]), Counts(rows[s]) = Counts(new) PROVE FALSE
        OBVIOUS
      <4>1. rows[s].coll = new.coll /\ rows[s].total = new.total
        BY DEF Counts
      <4>2. s \in batch /\ P(s) = lowest - 1
        BY <2>1, <3>1, <4>1
      <4>3. lowest <= lowest - 1
        BY <2>4, <4>2
      <4> QED BY <2>4, <4>3
    <3> QED BY <2>5, <2>7, <3>1, <3>3 DEF new
  <2> QED BY <2>6, <2>7
<1> QED BY <1>2, <1>3

-----------------------------------------------------------------------------
(* What the other kinds of calls begin with.                               *)

\* A call that begins on rows that stay well made keeps everything well made.
LEMMA BegunIsSafe ==
  ASSUME CatInv, NEW c \in Calls, NEW op \in OpNames, NEW first \in CallRec, Begin(c, op, first),
         CallOK([first EXCEPT !.op = op, !.alone = TRUE]), RowsOK(pb'), UNCHANGED <<db, log, faults>>
  PROVE  CatInv'
<1>1. call' \in [Calls -> CallRec] /\ (\A d \in Calls : CallOK(call'[d])) /\ origin' = origin
  BY BeginIs
<1> QED BY <1>1 DEF CatInv

\* A click on an album's count.
LEMMA ClickCountBegins == ASSUME CatInv, NEW c \in Calls, ClickCount(c) PROVE PlainBegun(c)
<1>1. PICK field \in {"coll", "total"}, delta \in {-1, 1} :
         /\ Exists(pb["album"])
         /\ pb' = [pb EXCEPT !["album"] = Counted(@, field, delta)]
         /\ Begin(c, "count", [Waiting EXCEPT !.pc = "mirror", !.click = <<field, delta>>,
                                  !.view = Counted(pb["album"], field, delta)])
         /\ UNCHANGED <<db, log, faults>>
  BY DEF ClickCount
<1> DEFINE new == Counted(pb["album"], field, delta)
           first == [Waiting EXCEPT !.pc = "mirror", !.click = <<field, delta>>, !.view = new]
<1>2. new \in Rows /\ InRange(new) /\ Exists(new)
  <2>1. delta \in Int /\ pb["album"] \in Rows
    BY <1>1, KeysAre DEF CatInv, RowsOK
  <2> QED BY <1>1, <2>1, CountedIs DEF Exists
<1>9. Opening("count", first)
  <2>1. /\ first.pc = "mirror" /\ first.key = "album" /\ first.view = new /\ first.click = <<field, delta>>
        /\ first.ver = 0 /\ ~first.seeding /\ ~first.failed
    BY DEF Waiting
  <2>2. first.click[1] = field /\ first.click[2] = delta /\ pb' = [pb EXCEPT !["album"] = new]
    BY <1>1, <2>1
  <2> HIDE DEF first
  <2> QED BY <1>1, <1>2, <2>1, <2>2 DEF Opening
<1> HIDE DEF new
<1>6. <<field, delta>> \in {"coll", "total"} \X Int
  BY <1>1
<1>3. first \in CallRec /\ CallOK([first EXCEPT !.op = "count", !.alone = TRUE])
  BY <1>1, <1>2, <1>6, WaitingIs, KeysAre DEF CallOK, CallRec, Waiting, Shape, Under, OpNames, Pcs
<1>4. RowsOK(pb')
  BY <1>1, <1>2, RowSet, KeysAre DEF CatInv, new
<1>5. Begin(c, "count", first)
  BY <1>1 DEF new
<1>7. first.pc # "new" /\ first.key \notin Songs
  BY KeysAre DEF Waiting
<1>8. \A s \in Songs : pb'[s] = pb[s]
  BY <1>1, KeysAre
<1> HIDE DEF first
<1>10. "count" \in OpNames \ {"toggle", "none"}
  BY DEF OpNames
<1> QED BY <1>1, <1>3, <1>4, <1>5, <1>7, <1>8, <1>9, <1>10 DEF PlainBegun

\* A click on an album's status.
LEMMA ClickStatusBegins == ASSUME CatInv, NEW c \in Calls, ClickStatus(c) PROVE PlainBegun(c)
<1>1. PICK status \in Statuses :
         /\ Exists(pb["album"])
         /\ pb' = [pb EXCEPT !["album"].status = status]
         /\ Begin(c, "status", [Waiting EXCEPT !.pc = "mirror", !.was = pb["album"],
                                   !.view = [pb["album"] EXCEPT !.status = status]])
         /\ UNCHANGED <<db, log, faults>>
  BY DEF ClickStatus
<1> DEFINE was == pb["album"]
           new == [was EXCEPT !.status = status]
           first == [Waiting EXCEPT !.pc = "mirror", !.was = was, !.view = new]
<1>2. /\ new \in Rows /\ InRange(new) /\ was \in Rows /\ Exists(new) /\ Exists(was)
      /\ was = [new EXCEPT !.status = was.status]
  <2>1. status \in Labels /\ status # "none" /\ pb["album"] \in Rows /\ InRange(pb["album"])
    BY <1>1, KeysAre DEF CatInv, RowsOK, Labels, Statuses
  <2> QED BY <1>1, <2>1 DEF Rows, InRange, Exists
<1>4. pb' = [pb EXCEPT !["album"] = new] /\ Begin(c, "status", first)
  BY <1>1
<1>9. Opening("status", first)
  <2>1. /\ first.pc = "mirror" /\ first.key = "album" /\ first.view = new /\ first.was = was
        /\ first.ver = 0 /\ ~first.seeding /\ ~first.failed
    BY DEF Waiting
  <2>2. was = pb["album"]
    OBVIOUS
  <2> HIDE DEF first, new, was
  <2> QED BY <1>2, <1>4, <2>1, <2>2 DEF Opening
<1> HIDE DEF new, was
<1>3. first \in CallRec /\ CallOK([first EXCEPT !.op = "status", !.alone = TRUE])
  BY <1>1, <1>2, WaitingIs, KeysAre DEF CallOK, CallRec, Waiting, Shape, Under, OpNames, Pcs
<1>5. RowsOK(pb')
  BY <1>2, <1>4, RowSet, KeysAre DEF CatInv
<1>7. first.pc # "new" /\ first.key \notin Songs
  BY KeysAre DEF Waiting
<1>8. \A s \in Songs : pb'[s] = pb[s]
  BY <1>4, KeysAre
<1> HIDE DEF first
<1>10. "status" \in OpNames \ {"toggle", "none"}
  BY DEF OpNames
<1> QED BY <1>1, <1>3, <1>4, <1>5, <1>7, <1>8, <1>9, <1>10 DEF PlainBegun

\* What a song does to its album and artist.
LEMMA WithSongIs ==
  ASSUME NEW row \in Rows, NEW typed \in Nat
  PROVE  /\ WithSong(row, typed) \in Rows /\ InRange(WithSong(row, typed)) /\ Exists(WithSong(row, typed))
         /\ CreditedOn(row) \in Rows /\ Exists(CreditedOn(row))
<1>1. row.coll \in Nat /\ row.total \in Nat /\ row.status \in Labels
  BY DEF Rows
<1>2. WithSong(row, typed) \in Rows /\ InRange(WithSong(row, typed)) /\ Exists(WithSong(row, typed))
  <2>1. CASE Exists(row)
    <3> DEFINE n == AtLeast(row.total, AtLeast(typed, row.coll + 1))
    <3>1. n \in Nat /\ row.coll + 1 <= n
      BY <1>1 DEF AtLeast
    <3>2. WithSong(row, typed) = [row EXCEPT !.coll = row.coll + 1, !.total = n]
      BY <2>1 DEF WithSong, Rows
    <3>3. WithSong(row, typed) = [status |-> row.status, coll |-> row.coll + 1, total |-> n]
      BY <3>2 DEF Rows
    <3> HIDE DEF n
    <3> QED BY <1>1, <2>1, <3>1, <3>3 DEF Rows, InRange, Exists
  <2>2. CASE ~Exists(row)
    <3>1. AtLeast(typed, 1) \in Nat /\ 1 <= AtLeast(typed, 1)
      BY DEF AtLeast
    <3>2. WithSong(row, typed) = Row("waiting", 1, AtLeast(typed, 1))
      BY <2>2 DEF WithSong
    <3> QED BY <3>1, <3>2 DEF Rows, Row, Labels, InRange, Exists
  <2> QED BY <2>1, <2>2
<1>3. CreditedOn(row) \in Rows /\ Exists(CreditedOn(row))
  BY <1>1 DEF CreditedOn, Rows, Row, Labels, Exists
<1> QED BY <1>2, <1>3

\* A new song begins with its album, its artist and its place.
SongFirst(s, place, album, artist) ==
    [Waiting EXCEPT !.pc = "append", !.key = s, !.events = SongFacts(place),
                    !.todo = <<"album", "artist">>, !.view = album, !.credit = artist]
SongBegun(c, s, place, album, artist) ==
    LET first == SongFirst(s, place, album, artist)
    IN  /\ ~Exists(pb[s]) /\ pb' = [pb EXCEPT !["album"] = album, !["artist"] = artist, ![s] = place]
        /\ InRange(album) /\ Exists(album) /\ Exists(artist)
        /\ place.status = "recent" /\ Placed(place)
        /\ \A t \in Recent(pb) : Placed(pb[t]) => Counts(pb[t]) # Counts(place)
        /\ artist = CreditedOn(pb["artist"]) /\ (\E typed \in Nat : album = WithSong(pb["album"], typed))
        /\ (Exists(pb["artist"]) => artist.status = pb["artist"].status)
        /\ first \in CallRec /\ Begin(c, "song", first) /\ UNCHANGED <<db, log, faults>>
        /\ CallOK([first EXCEPT !.op = "song", !.alone = TRUE])
\* What createCanonicalSong leaves when it starts to append.
LEMMA SongBegins ==
  ASSUME CatInv, NEW c \in Calls, CreateSong(c)
  PROVE  \E s \in Songs, place \in Rows, album \in Rows, artist \in Rows : SongBegun(c, s, place, album, artist)
<1>1. PICK s \in Songs, typed \in Typed, old \in BOOLEAN :
        LET place  == NextPlace(pb, old)
            album  == WithSong(pb["album"], typed)
            artist == CreditedOn(pb["artist"])
        IN  /\ ~Exists(pb[s])
            /\ pb' = [pb EXCEPT !["album"] = album, !["artist"] = artist, ![s] = place]
            /\ Begin(c, "song", [Waiting EXCEPT !.pc = "append", !.key = s,
                   !.events = SongFacts(place), !.todo = <<"album", "artist">>,
                   !.view = album, !.credit = artist])
            /\ UNCHANGED <<db, log, faults>>
  BY DEF CreateSong
<1> DEFINE place  == NextPlace(pb, old)
           album  == WithSong(pb["album"], typed)
           artist == CreditedOn(pb["artist"])
           first == SongFirst(s, place, album, artist)
<1>2. /\ place \in Rows /\ place.status = "recent" /\ Placed(place)
      /\ \A t \in Recent(pb) : Placed(pb[t]) => Counts(pb[t]) # Counts(place)
  BY <1>1, NextIs DEF CatInv, RowsOK
<1>3. album \in Rows /\ InRange(album) /\ Exists(album) /\ artist \in Rows /\ Exists(artist)
  BY <1>1, WithSongIs, KeysAre, CatalogConstants DEF CatInv, RowsOK
<1>4. /\ ~Exists(pb[s]) /\ pb' = [pb EXCEPT !["album"] = album, !["artist"] = artist, ![s] = place]
      /\ Begin(c, "song", first) /\ UNCHANGED <<db, log, faults>>
      /\ (Exists(pb["artist"]) => artist.status = pb["artist"].status)
      /\ artist = CreditedOn(pb["artist"]) /\ \E n \in Nat : album = WithSong(pb["album"], n)
  <2>1. Begin(c, "song", first)
    BY <1>1 DEF SongFirst
  <2>2. pb["artist"] \in Rows
    BY KeysAre DEF CatInv, RowsOK
  <2>3. Exists(pb["artist"]) => artist.status = pb["artist"].status
    BY <2>2 DEF CreditedOn, Rows
  <2>4. artist = CreditedOn(pb["artist"]) /\ \E n \in Nat : album = WithSong(pb["album"], n)
    BY CatalogConstants
  <2> QED BY <1>1, <2>1, <2>3, <2>4
<1> HIDE DEF place, album, artist
<1>5. /\ SongFacts(place) \in Seq(Events) /\ SongFacts(place) # << >>
      /\ Fits(s, 0, SongFacts(place)) /\ Ranged(s, SongFacts(place))
  BY <1>1, <1>2, CreationIs
<1>7. <<"album", "artist">> \in Seq({"album", "artist"}) /\ s \in Keys
  BY KeysAre
<1>8. first \in CallRec
  BY <1>2, <1>3, <1>5, <1>7, WaitingIs DEF CallOK, CallRec, Waiting, Pcs, SongFirst
<1>6. first \in CallRec /\ CallOK([first EXCEPT !.op = "song", !.alone = TRUE])
  <2> DEFINE me == [first EXCEPT !.op = "song", !.alone = TRUE]
  <2>1. me \in CallRec
    BY <1>8 DEF CallRec, OpNames
  <2>2. /\ me.op = "song" /\ me.pc = "append" /\ me.key = s /\ me.events = SongFacts(place) /\ me.ver = 0
        /\ me.todo = <<"album", "artist">> /\ me.view = album /\ ~me.seeding
    BY <1>8 DEF CallRec, Waiting, SongFirst
  <2> HIDE DEF me, first
  <2> QED BY <1>3, <1>5, <1>8, <2>1, <2>2 DEF CallOK, Shape, Under, me
<1> HIDE DEF first
<1> QED BY <1>1, <1>2, <1>3, <1>4, <1>6 DEF first, SongBegun

\* Starting a song keeps the rows, the streams and the calls safe.
LEMMA CreateSongIsSafe == ASSUME CatInv, NEW c \in Calls, CreateSong(c) PROVE CatInv'
<1>1. PICK s \in Songs, place \in Rows, album \in Rows, artist \in Rows : SongBegun(c, s, place, album, artist)
  BY SongBegins
<1> DEFINE first == SongFirst(s, place, album, artist)
<1>5. /\ first \in CallRec /\ Begin(c, "song", first) /\ UNCHANGED <<db, log, faults>>
      /\ CallOK([first EXCEPT !.op = "song", !.alone = TRUE])
      /\ pb' = [pb EXCEPT !["album"] = album, !["artist"] = artist, ![s] = place] /\ InRange(album)
  BY <1>1 DEF SongBegun
<1>2. RowsOK([pb EXCEPT !["album"] = album])
  BY RowSet, <1>1, <1>5, KeysAre DEF CatInv
<1>3. RowsOK([pb EXCEPT !["album"] = album, !["artist"] = artist])
  BY RowSet, <1>2, KeysAre
<1>4. RowsOK(pb')
  BY RowSet, <1>1, <1>3, <1>5, KeysAre
<1> HIDE DEF first
<1> QED BY <1>4, <1>5, BegunIsSafe DEF OpNames

\* A toggle begins with a place that is free in the SQLite list, the one the
\* song has, or none.
LEMMA ToggleBegins ==
  ASSUME CatInv, NEW c \in Calls, Toggle(c)
  PROVE  \E s \in Songs, view \in Rows :
           LET first == [Waiting EXCEPT !.pc = "save", !.key = s, !.was = pb[s], !.view = view]
           IN  /\ Exists(pb[s]) /\ first \in CallRec /\ Begin(c, "toggle", first) /\ UNCHANGED stores
               /\ \/ view = NotRecent
                  \/ view = pb[s]
                  \/ /\ view.status = "recent" /\ Placed(view)
                     /\ \A t \in Recent(db) : Placed(db[t]) => Counts(db[t]) # Counts(view)
               /\ CallOK([first EXCEPT !.op = "toggle", !.alone = TRUE])
<1>1. PICK s \in Songs, on \in BOOLEAN, old \in BOOLEAN :
        /\ Exists(pb[s])
        /\ Begin(c, "toggle", [Waiting EXCEPT !.pc = "save", !.key = s, !.was = pb[s],
               !.view = IF ~on THEN NotRecent
                            ELSE IF NeedsPlace(pb[s]) THEN NextPlace(db, old) ELSE pb[s]])
        /\ UNCHANGED stores
  BY DEF Toggle
<1> DEFINE view == IF ~on THEN NotRecent ELSE IF NeedsPlace(pb[s]) THEN NextPlace(db, old) ELSE pb[s]
           was == pb[s]
           first == [Waiting EXCEPT !.pc = "save", !.key = s, !.was = was, !.view = view]
<1>2. was \in Rows /\ s \in Keys
  BY <1>1, KeysAre DEF CatInv, RowsOK
<1>3. /\ view \in Rows
      /\ \/ view = NotRecent
         \/ view = pb[s]
         \/ /\ view.status = "recent" /\ Placed(view)
            /\ \A t \in Recent(db) : Placed(db[t]) => Counts(db[t]) # Counts(view)
  BY <1>1, <1>2, RowIs, NextIs DEF CatInv, RowsOK
<1>4. Begin(c, "toggle", first)
  BY <1>1
<1> HIDE DEF view
<1>5. first \in CallRec /\ CallOK([first EXCEPT !.op = "toggle", !.alone = TRUE])
  <2> HIDE DEF was
  <2>1. Waiting \in CallRec /\ Waiting.todo = << >>
    BY WaitingIs DEF CallOK, Waiting
  <2>2. s \in Songs /\ s # "album" /\ "save" \in Pcs /\ "toggle" \in OpNames
    BY <1>1, KeysAre DEF Pcs, OpNames
  <2>3. first \in CallRec /\ first.pc = "save" /\ first.key = s /\ first.todo = << >>
    BY <1>2, <1>3, <2>1, <2>2 DEF CallRec
  <2> HIDE DEF first
  <2> DEFINE me == [first EXCEPT !.op = "toggle", !.alone = TRUE]
  <2>4. me \in CallRec /\ me.op = "toggle" /\ me.pc = "save" /\ me.key = s /\ me.todo = << >>
    BY <2>2, <2>3 DEF CallRec
  <2> HIDE DEF me
  <2>5. Shape(me)
    BY <2>2, <2>4 DEF Shape
  <2>6. CallOK(me)
    BY <2>2, <2>4, <2>5 DEF CallOK
  <2> QED BY <2>3, <2>6 DEF me
<1> HIDE DEF first
<1> QED BY <1>1, <1>3, <1>4, <1>5 DEF first

\* So does starting a toggle, which reads the record.
LEMMA ToggleIsSafe == ASSUME CatInv, NEW c \in Calls, Toggle(c) PROVE CatInv'
<1>1. PICK first \in CallRec : /\ Begin(c, "toggle", first) /\ UNCHANGED stores
                               /\ CallOK([first EXCEPT !.op = "toggle", !.alone = TRUE])
  BY ToggleBegins
<1>2. RowsOK(pb') /\ UNCHANGED <<db, log, faults>>
  BY <1>1 DEF stores, CatInv
<1> QED BY <1>1, <1>2, BegunIsSafe DEF OpNames

\* Clicks on an artist.
LEMMA ArtistClickBegins ==
  ASSUME CatInv, NEW c \in Calls, ClickArtistCount(c) \/ ClickArtistStatus(c) PROVE PlainBegun(c)
<1> DEFINE was == pb["artist"]
<1>0. was \in Rows
  BY KeysAre DEF CatInv, RowsOK
<1>1. PICK op \in {"artistCount", "artistList"}, view \in Rows :
         /\ Begin(c, op, [Waiting EXCEPT !.pc = "load", !.key = "artist", !.was = was, !.view = view])
         /\ UNCHANGED stores /\ Exists(was) /\ Exists(view)
         /\ view = IF op = "artistCount" THEN [was EXCEPT !.coll = view.coll] ELSE [was EXCEPT !.status = view.status]
  <2>1. CASE ClickArtistCount(c)
    <3>1. PICK delta \in {-1, 1} : /\ UNCHANGED stores /\ Exists(was)
             /\ Begin(c, "artistCount", [Waiting EXCEPT !.pc = "load", !.key = "artist",
                  !.was = pb["artist"], !.view = [pb["artist"] EXCEPT !.coll = AtLeast(@ + delta, 0)]])
      BY <2>1 DEF ClickArtistCount
    <3> DEFINE view == [was EXCEPT !.coll = AtLeast(@ + delta, 0)]
    <3>2. view \in Rows /\ Exists(view) /\ view = [was EXCEPT !.coll = view.coll]
      BY <1>0, <3>1 DEF Rows, AtLeast, Exists
    <3> QED BY <3>1, <3>2
  <2>2. CASE ClickArtistStatus(c)
    <3>1. PICK status \in ListStatuses : /\ UNCHANGED stores /\ Exists(was)
             /\ Begin(c, "artistList", [Waiting EXCEPT !.pc = "load", !.key = "artist",
                  !.was = pb["artist"], !.view = [pb["artist"] EXCEPT !.status = status]])
      BY <2>2 DEF ClickArtistStatus
    <3> DEFINE view == [was EXCEPT !.status = status]
    <3>2. view \in Rows /\ Exists(view) /\ view = [was EXCEPT !.status = view.status]
      BY <1>0, <3>1 DEF Rows, ListStatuses, Labels, Exists
    <3> QED BY <3>1, <3>2
  <2> QED BY <2>1, <2>2
<1> DEFINE first == [Waiting EXCEPT !.pc = "load", !.key = "artist", !.was = was, !.view = view]
<1>5. Opening(op, first)
  <2>1. /\ first.pc = "load" /\ first.key = "artist" /\ first.view = view /\ first.was = was
        /\ first.ver = 0 /\ ~first.seeding /\ ~first.failed
    BY DEF Waiting
  <2>2. was = pb["artist"] /\ pb' = pb
    BY <1>1 DEF stores
  <2> HIDE DEF first, was
  <2> QED BY <1>1, <2>1, <2>2 DEF Opening
<1> HIDE DEF was
<1>2. first \in CallRec /\ CallOK([first EXCEPT !.op = op, !.alone = TRUE])
  <2>1. Waiting \in CallRec /\ Waiting.todo = << >>
    BY WaitingIs DEF CallOK, Waiting
  <2>2. /\ "artist" \in Keys /\ "load" \in Pcs /\ op \in OpNames /\ op \in {"artistCount", "artistList"}
        /\ was \in Rows /\ view \in Rows
    BY <1>0, <1>1, KeysAre DEF Pcs, OpNames
  <2>3. first \in CallRec /\ first.pc = "load" /\ first.key = "artist" /\ first.todo = << >>
    BY <2>1, <2>2 DEF CallRec
  <2> HIDE DEF first
  <2> DEFINE me == [first EXCEPT !.op = op, !.alone = TRUE]
  <2>4. me \in CallRec /\ me.op = op /\ me.pc = "load" /\ me.key = "artist" /\ me.todo = << >>
    BY <2>2, <2>3 DEF CallRec
  <2> HIDE DEF me
  <2>5. Shape(me)
    BY <2>2, <2>4 DEF Shape, Records
  <2>6. CallOK(me)
    BY <2>2, <2>4, <2>5 DEF CallOK
  <2> QED BY <2>3, <2>6 DEF me
<1>3. RowsOK(pb') /\ UNCHANGED <<db, log, faults>> /\ \A s \in Songs : pb'[s] = pb[s]
  BY <1>1 DEF stores, CatInv
<1>4. first.pc # "new" /\ first.key \notin Songs
  BY KeysAre DEF Waiting
<1> HIDE DEF first
<1>6. op \in OpNames \ {"toggle", "none"}
  BY <1>1 DEF OpNames
<1>7. Begin(c, op, first)
  BY <1>1 DEF first
<1> QED BY <1>2, <1>3, <1>4, <1>5, <1>6, <1>7 DEF PlainBegun

\* So does the start of every other kind of call.
LEMMA PlainIsSafe ==
  ASSUME CatInv, NEW c \in Calls, PlainBegun(c) PROVE CatInv'
<1>1. PICK op \in OpNames \ {"toggle", "none"}, first \in CallRec :
         /\ Begin(c, op, first) /\ UNCHANGED <<db, log, faults>>
         /\ CallOK([first EXCEPT !.op = op, !.alone = TRUE]) /\ RowsOK(pb')
  BY DEF PlainBegun
<1>2. op \in OpNames
  OBVIOUS
<1> QED BY <1>1, <1>2, BegunIsSafe

-----------------------------------------------------------------------------
(* The steps that follow.                                                  *)

\* A call that turns into a well-made one leaves all of them well made.
LEMMA TurnIs ==
  ASSUME CatInv, NEW c \in Calls, NEW new, CallOK(new), Turn(c, new)
  PROVE  call' \in [Calls -> CallRec] /\ (\A d \in Calls : CallOK(call'[d])) /\ origin' = origin
BY DEF Turn, CatInv, CallOK

\* A call that is over is well made.
LEMMA OverIs ==
  ASSUME NEW me, CallOK(me), NEW b \in BOOLEAN PROVE CallOK([me EXCEPT !.pc = "done", !.failed = b])
BY DEF CallOK, CallRec, Under, Pcs

\* So is one that has failed and goes on.
LEMMA FailedIs == ASSUME NEW me, CallOK(me) PROVE CallOK([me EXCEPT !.failed = TRUE])
BY DEF CallOK, CallRec, Under, Shape

\* What follows the recording of a row.
LEMMA OnwardIs ==
  ASSUME NEW me, CallOK(me), me.pc \in Records
  PROVE  CallOK(Onward(me)) /\ Onward(me).events = me.events
<1>1. me \in CallRec /\ Shape(me) /\ me.todo \in Seq({"album", "artist"})
      /\ (me.key = "album" \/ me.op = "song" => InRange(me.view))
  BY DEF CallOK, Under, Records, CallRec
<1>2. CASE me.op \in {"artistCount", "artistList"}
  BY <1>1, <1>2, KeysAre DEF Onward, CallOK, CallRec, Under, Shape, Pcs
<1>3. CASE me.op \notin {"artistCount", "artistList"} /\ me.todo = << >>
  BY <1>1, <1>3 DEF Onward, CallOK, CallRec, Under, Pcs
<1>4. CASE me.op \notin {"artistCount", "artistList"} /\ me.todo = <<"album", "artist">>
  <2>1. Head(me.todo) = "album" /\ Tail(me.todo) = <<"artist">>
    BY <1>4
  <2>2. Onward(me) = [me EXCEPT !.pc = "load", !.key = "album", !.todo = <<"artist">>]
    BY <1>4, <2>1 DEF Onward
  <2>3. <<"artist">> \in Seq({"album", "artist"}) /\ me.op = "song"
    BY <1>1, <1>4 DEF Shape
  <2> QED BY <1>1, <2>2, <2>3, KeysAre DEF CallOK, CallRec, Under, Pcs, Shape, Records
<1>5. CASE me.op \notin {"artistCount", "artistList"} /\ me.todo = <<"artist">>
  <2>1. Head(me.todo) = "artist" /\ Tail(me.todo) = << >>
    BY <1>5
  <2>2. Onward(me) = [me EXCEPT !.pc = "load", !.key = "artist", !.todo = << >>]
    BY <1>5, <2>1 DEF Onward
  <2>3. << >> \in Seq({"album", "artist"}) /\ me.op = "song"
    BY <1>1, <1>5 DEF Shape
  <2> QED BY <1>1, <2>2, <2>3, KeysAre DEF CallOK, CallRec, Under, Pcs, Shape, Records
<1> QED BY <1>1, <1>2, <1>3, <1>4, <1>5 DEF Shape

\* A failing record, and a failing call.
LEMMA DropIs ==
  ASSUME CatInv, NEW c \in Calls, call[c].pc \in Records, Drop(c)
  PROVE  call' \in [Calls -> CallRec] /\ (\A d \in Calls : CallOK(call'[d])) /\ origin' = origin
<1> DEFINE new == [Onward(call[c]) EXCEPT !.failed = TRUE]
<1>1. CallOK(new)
  BY OnwardIs, FailedIs DEF CatInv
<1>2. Turn(c, new)
  BY DEF Drop
<1> HIDE DEF new
<1> QED BY <1>1, <1>2, TurnIs

\* A call that ends in an error.
LEMMA EndIs ==
  ASSUME CatInv, NEW c \in Calls, End(c)
  PROVE  call' \in [Calls -> CallRec] /\ (\A d \in Calls : CallOK(call'[d])) /\ origin' = origin
<1> DEFINE new == [call[c] EXCEPT !.pc = "done", !.failed = TRUE]
<1>1. CallOK(new)
  BY OverIs DEF CatInv
<1>2. Turn(c, new)
  BY DEF End
<1> HIDE DEF new
<1> QED BY <1>1, <1>2, TurnIs

\* The faults stay within their bound.
LEMMA FaultIs == ASSUME CatInv, Fault PROVE faults' \in 0..MaxFaults
BY CatalogAssumption DEF CatInv, Fault

\* The SQLite row of an album's click.
LEMMA MirrorRowIs ==
  ASSUME CatInv, NEW c \in Calls, call[c].pc = "mirror"
  PROVE  LET me == call[c]
             new == IF me.op = "count" THEN CountMirrored(db["album"], me) ELSE StatusMirrored(db["album"], me)
         IN  new \in Rows /\ InRange(new)
<1> DEFINE me == call[c]  row == db["album"]
<1>1. CallOK(me) /\ row \in Rows /\ InRange(row)
  BY KeysAre DEF CatInv, RowsOK
<1>2. /\ me.view \in Rows /\ InRange(me.view) /\ me.click \in {"coll", "total"} \X Int
      /\ me.click[1] \in {"coll", "total"} /\ me.click[2] \in Int
  BY <1>1 DEF CallOK, Under, Shape, CallRec, Records
<1>3. CountMirrored(row, me) \in Rows /\ InRange(CountMirrored(row, me))
  BY <1>1, <1>2, CountedIs DEF CountMirrored
<1>4. StatusMirrored(row, me) \in Rows /\ InRange(StatusMirrored(row, me))
  BY <1>1, <1>2 DEF StatusMirrored, Rows, InRange
<1> QED BY <1>3, <1>4

\* The album click's UPDATE of the SQLite row.
LEMMA MirrorIsSafe == ASSUME CatInv, NEW c \in Calls, Mirror(c) PROVE CatInv'
<1> DEFINE me == call[c]
           new == IF me.op = "count" THEN CountMirrored(db["album"], me) ELSE StatusMirrored(db["album"], me)
           next == [me EXCEPT !.view = new, !.pc = IF Moved(me) THEN "load" ELSE "done"]
<1>1. me.pc = "mirror" /\ UNCHANGED <<pb, log>> /\ CallOK(me)
  BY DEF Mirror, At, CatInv
<1>2. new \in Rows /\ InRange(new)
  BY <1>1, MirrorRowIs
<1>3. CASE db' = [db EXCEPT !["album"] = new] /\ UNCHANGED faults /\ Turn(c, next)
  <2> HIDE DEF new
  <2>1. CallOK(next)
    <3> HIDE DEF me
    <3> QED BY <1>1, <1>2, KeysAre DEF CallOK, Under, Shape, CallRec, Records, Pcs
  <2>2. RowsOK(db')
    BY <1>2, <1>3, RowSet, KeysAre DEF CatInv
  <2> HIDE DEF next, me
  <2>3. call' \in [Calls -> CallRec] /\ (\A d \in Calls : CallOK(call'[d])) /\ origin' = origin
    BY <1>3, <2>1, TurnIs
  <2> QED BY <1>1, <1>3, <2>2, <2>3 DEF CatInv
<1>4. CASE Fault /\ End(c) /\ UNCHANGED db
  BY <1>1, <1>4, EndIs, FaultIs DEF CatInv
<1> QED BY <1>3, <1>4 DEF Mirror

\* The save of a toggled record.
LEMMA SaveRecordIsSafe == ASSUME CatInv, NEW c \in Calls, SaveRecord(c) PROVE CatInv'
<1> DEFINE me == call[c]
           new == Rewritten(pb[me.key], me)
           next == [me EXCEPT !.pc = IF me.op = "toggle" THEN "mirrorRow" ELSE "done"]
<1>1. me.pc = "save" /\ UNCHANGED <<db, log>> /\ CallOK(me)
  BY DEF SaveRecord, At, CatInv
<1>2. me \in CallRec /\ Shape(me) /\ me.key \in Keys /\ me.key # "album" /\ me.op \in {"toggle", "artistCount", "artistList"}
  BY <1>1, KeysAre DEF CallOK, Under, Shape, Records, CallRec
<1>3. new \in Rows
  <2>1. pb[me.key] \in Rows /\ me.view \in Rows
    BY <1>2 DEF CatInv, RowsOK, CallRec
  <2> HIDE DEF me
  <2> QED BY <1>2, <2>1 DEF Rewritten, Rows
<1>4. CASE pb' = [pb EXCEPT ![me.key] = Rewritten(@, me)] /\ UNCHANGED faults /\ Turn(c, next)
  <2>1. CallOK(next)
    <3> HIDE DEF me
    <3> QED BY <1>1, <1>2 DEF CallOK, Under, Shape, CallRec, Records, Pcs
  <2>2. RowsOK(pb')
    BY <1>2, <1>3, <1>4, RowSet DEF CatInv
  <2> HIDE DEF next, me
  <2>3. call' \in [Calls -> CallRec] /\ (\A d \in Calls : CallOK(call'[d])) /\ origin' = origin
    BY <1>4, <2>1, TurnIs
  <2> QED BY <1>1, <1>4, <2>2, <2>3 DEF CatInv
<1>5. CASE Fault /\ End(c) /\ UNCHANGED pb
  BY <1>1, <1>5, EndIs, FaultIs DEF CatInv
<1> QED BY <1>4, <1>5 DEF SaveRecord

\* The mirror of a toggled record.
LEMMA MirrorRowIsSafe == ASSUME CatInv, NEW c \in Calls, MirrorRow(c) PROVE CatInv'
<1> DEFINE me == call[c]
           next == [me EXCEPT !.pc = "load"]
<1>1. me.pc = "mirrorRow" /\ UNCHANGED <<pb, log>> /\ CallOK(me)
  BY DEF MirrorRow, At, CatInv
<1>2. me \in CallRec /\ Shape(me) /\ me.key \in Keys /\ me.key # "album" /\ me.view \in Rows
  BY <1>1, KeysAre DEF CallOK, Under, Shape, Records, CallRec
<1>4. CASE db' = [db EXCEPT ![me.key] = IF Exists(@) THEN me.view ELSE @] /\ UNCHANGED faults /\ Turn(c, next)
  <2>1. CallOK(next)
    <3> HIDE DEF me
    <3> QED BY <1>1, <1>2 DEF CallOK, Under, Shape, CallRec, Records, Pcs
  <2>2. RowsOK(db')
    <3> DEFINE new == IF Exists(db[me.key]) THEN me.view ELSE db[me.key]
    <3>1. new \in Rows /\ db' = [db EXCEPT ![me.key] = new]
      BY <1>2, <1>4 DEF CatInv, RowsOK
    <3> HIDE DEF new
    <3> QED BY <1>2, <3>1, RowSet DEF CatInv
  <2> HIDE DEF next, me
  <2>3. call' \in [Calls -> CallRec] /\ (\A d \in Calls : CallOK(call'[d])) /\ origin' = origin
    BY <1>4, <2>1, TurnIs
  <2> QED BY <1>1, <1>4, <2>2, <2>3 DEF CatInv
<1>5. CASE Fault /\ End(c) /\ UNCHANGED db
  BY <1>1, <1>5, EndIs, FaultIs DEF CatInv
<1> QED BY <1>4, <1>5 DEF MirrorRow

\* At most one event, which is no creation, and only when something changes.
Slight(key, events) == events = << >> \/ \E e \in Events : events = <<e>> /\ e.type \in TypesOf(key) \ {"Created"}
                                                           /\ (key = "album" => InRange(e.row))

\* What is recorded of an aggregate that is to change.
LEMMA ChangeIs ==
  ASSUME NEW me, CallOK(me), Under(me), NEW agg \in Rows PROVE Slight(me.key, Change(me, agg))
<1>1. /\ me.view \in Rows /\ me.credit \in Rows /\ me.key \in Keys /\ (me.key = "album" => InRange(me.view))
  BY DEF CallOK, CallRec
<1>2. \A type \in {"StatusChanged", "CountsAdjusted", "RecentChanged"}, new \in Rows :
         type \in TypesOf(me.key) /\ (me.key = "album" => InRange(new)) => Slight(me.key, <<Event(type, new)>>)
  <2> SUFFICES ASSUME NEW type \in {"StatusChanged", "CountsAdjusted", "RecentChanged"}, NEW new \in Rows,
                      type \in TypesOf(me.key), me.key = "album" => InRange(new)
               PROVE  Slight(me.key, <<Event(type, new)>>)
    OBVIOUS
  <2>1. Event(type, new) \in Events /\ Event(type, new).type = type /\ Event(type, new).row = new
    BY EventIs
  <2> HIDE DEF Event
  <2> QED BY <2>1 DEF Slight
<1>3. Slight(me.key, << >>)
  BY DEF Slight
<1>4. CASE me.key = "album"
  <2>1. {"StatusChanged", "CountsAdjusted"} \subseteq TypesOf(me.key)
    BY <1>4, KeysAre DEF TypesOf
  <2> QED BY <1>1, <1>2, <1>3, <1>4, <2>1 DEF Change, AlbumChange, NewStatus, NewCounts
<1>5. CASE me.key = "artist"
  <2>1. {"StatusChanged", "CountsAdjusted"} \subseteq TypesOf(me.key)
    BY <1>5, KeysAre DEF TypesOf
  <2> DEFINE new == [agg EXCEPT !.coll = IF me.op = "song" THEN me.credit.coll ELSE me.view.coll]
  <2>2. new \in Rows
    BY <1>1 DEF Rows
  <2>3. Change(me, agg) = IF me.op = "artistList" THEN NewStatus(agg, me.view) ELSE NewCounts(agg, new)
    BY <1>5, KeysAre DEF Change, ArtistChange
  <2> HIDE DEF new
  <2> QED BY <1>1, <1>2, <1>3, <1>5, <2>1, <2>2, <2>3, KeysAre DEF NewStatus, NewCounts
<1>6. CASE me.key \in Songs
  <2>1. "RecentChanged" \in TypesOf(me.key)
    BY <1>6 DEF TypesOf
  <2> QED BY <1>1, <1>2, <1>3, <1>6, <2>1, KeysAre DEF Change, NewPlace
<1> QED BY <1>1, <1>4, <1>5, <1>6, KeysAre

\* What a stream that is missing starts with.
LEMMA SeedIs ==
  ASSUME NEW me, CallOK(me), Under(me) PROVE Seed(me) \in Rows /\ (me.key = "album" => InRange(Seed(me)))
<1>1. /\ me.view \in Rows /\ me.credit \in Rows /\ me.was \in Rows /\ me.key \in Keys
      /\ (me.key = "album" => InRange(me.view))
  BY DEF CallOK, CallRec
<1>2. AlbumSeed(me) \in Rows /\ (me.key = "album" => InRange(AlbumSeed(me)))
  BY <1>1 DEF AlbumSeed, Rows, InRange
<1>3. ArtistSeed(me) \in Rows /\ SongSeed(me) \in Rows
  BY <1>1, RowIs DEF ArtistSeed, SongSeed, Rows
<1> QED BY <1>1, <1>2, <1>3, KeysAre DEF Seed

\* Slight changes fit behind what there is, and behind a creation.
LEMMA SlightFits ==
  ASSUME NEW key \in Keys, NEW events, Slight(key, events), NEW row \in Rows, key = "album" => InRange(row)
  PROVE  /\ events \in Seq(Events)
         /\ \A ver \in Nat \ {0} : Fits(key, ver, events) /\ Ranged(key, events)
         /\ LET born == <<Event("Created", row)>>
            IN  /\ born \in Seq(Events) /\ born # << >> /\ Fits(key, 0, born) /\ Ranged(key, born)
                /\ born \o events \in Seq(Events) /\ born \o events # << >>
                /\ Fits(key, 0, born \o events) /\ Ranged(key, born \o events)
<1> DEFINE one == Event("Created", row)
<1>1. one \in Events /\ one.type = "Created" /\ one.row = row /\ "Created" \in TypesOf(key)
  BY EventIs DEF TypesOf
<1> HIDE DEF one
<1>2. <<one>> \in Seq(Events) /\ <<one>> # << >> /\ Fits(key, 0, <<one>>) /\ Ranged(key, <<one>>)
  BY <1>1, OneEvent DEF Fits, Ranged
<1>3. CASE events = << >>
  <2>1. <<one>> \o << >> = <<one>> /\ << >> \in Seq(Events)
    BY <1>1, TwoEvents
  <2>2. \A ver \in Nat \ {0} : Fits(key, ver, << >>) /\ Ranged(key, << >>)
    BY DEF Fits, Ranged
  <2> QED BY <1>2, <1>3, <2>1, <2>2 DEF one
<1>4. CASE events # << >>
  <2>1. PICK e \in Events : events = <<e>> /\ e.type \in TypesOf(key) \ {"Created"} /\ (key = "album" => InRange(e.row))
    BY <1>4 DEF Slight
  <2>2. events \in Seq(Events) /\ \A ver \in Nat \ {0} : Fits(key, ver, events) /\ Ranged(key, events)
    BY <2>1, OneEvent DEF Fits, Ranged
  <2>3. /\ <<one>> \o events = <<one, e>> /\ <<one, e>> \in Seq(Events) /\ <<one, e>> # << >>
        /\ DOMAIN <<one, e>> = {1, 2} /\ <<one, e>>[1] = one /\ <<one, e>>[2] = e
    BY <1>1, <2>1, TwoEvents
  <2>4. Fits(key, 0, <<one, e>>) /\ Ranged(key, <<one, e>>)
    BY <1>1, <2>1, <2>3 DEF Fits, Ranged
  <2> QED BY <1>2, <2>2, <2>3, <2>4 DEF one
<1> QED BY <1>3, <1>4

\* How a call that has loaded an aggregate goes on.
Stores(me, ver, seeding, events) == [me EXCEPT !.pc = "append", !.ver = ver, !.seeding = seeding, !.events = events]
Loaded(me, stream) ==
    LET born == <<Event("Created", Seed(me))>>
        then == Change(me, Folded(me.key, stream))
    IN  IF stream = << >>
        THEN IF me.op \in {"artistCount", "artistList"} THEN Stores(me, 0, FALSE, born \o Change(me, Seed(me)))
             ELSE Stores(me, 0, TRUE, born)
        ELSE IF then = << >> THEN Onward(me) ELSE Stores(me, Len(stream), FALSE, then)
\* What Load does.
LEMMA LoadIs ==
  ASSUME CatInv, NEW c \in Calls, Load(c)
  PROVE  /\ call[c].pc = "load" /\ UNCHANGED <<pb, db, log>>
         /\ \/ Turn(c, Loaded(call[c], log[call[c].key])) /\ UNCHANGED faults
            \/ Fault /\ Drop(c)
<1>1. Len(<< >>) = 0
  OBVIOUS
<1> QED BY <1>1, Zenon DEF Load, At, Loaded, Stores

\* A call that has loaded its aggregate is well-formed.
LEMMA LoadedIs ==
  ASSUME CatInv, NEW c \in Calls, call[c].pc = "load" PROVE CallOK(Loaded(call[c], log[call[c].key]))
<1> DEFINE me == call[c]
           stream == log[me.key]
           born == <<Event("Created", Seed(me))>>
           then == Change(me, Folded(me.key, stream))
<1>1. CallOK(me) /\ Under(me) /\ me.pc = "load" /\ me \in CallRec /\ me.key \in Keys /\ Shape(me)
  BY DEF CatInv, CallOK, Under, CallRec
<1>2. stream \in Seq(Events) /\ Len(stream) \in Nat /\ (stream # << >> => Len(stream) > 0) /\ LogOK(me.key, stream)
  BY <1>1 DEF CatInv
<1>3. Seed(me) \in Rows /\ (me.key = "album" => InRange(Seed(me)))
  BY <1>1, SeedIs
<1>4. Folded(me.key, stream) \in Rows
  BY <1>1, <1>2, ReplayedIs, RowIs DEF Folded, LogOK, Fits
<1>5. Slight(me.key, then) /\ Slight(me.key, Change(me, Seed(me)))
  BY <1>1, <1>3, <1>4, ChangeIs
<1>6. /\ \A ver \in Nat \ {0} : Fits(me.key, ver, then) /\ Ranged(me.key, then)
      /\ then \in Seq(Events)
      /\ born \in Seq(Events) /\ born # << >> /\ Fits(me.key, 0, born) /\ Ranged(me.key, born)
      /\ LET all == born \o Change(me, Seed(me))
         IN  all \in Seq(Events) /\ all # << >> /\ Fits(me.key, 0, all) /\ Ranged(me.key, all)
  BY <1>1, <1>3, <1>5, SlightFits
<1> DEFINE all == born \o Change(me, Seed(me))
<1>7. \A ver \in Nat, seeding \in BOOLEAN, events \in Seq(Events) :
         /\ events # << >> /\ Fits(me.key, ver, events) /\ Ranged(me.key, events)
         /\ (me.op = "create" \/ (me.op = "song" /\ me.key \in Songs) => ~seeding)
         => CallOK(Stores(me, ver, seeding, events))
  <2> SUFFICES ASSUME NEW ver \in Nat, NEW seeding \in BOOLEAN, NEW events \in Seq(Events),
                      events # << >>, Fits(me.key, ver, events), Ranged(me.key, events),
                      me.op = "create" \/ (me.op = "song" /\ me.key \in Songs) => ~seeding
               PROVE  CallOK(Stores(me, ver, seeding, events))
    OBVIOUS
  <2> DEFINE new == Stores(me, ver, seeding, events)
  <2> HIDE DEF me, stream, born, then
  <2>1. new \in CallRec
    BY <1>1 DEF CallRec, Stores, Pcs
  <2>2. /\ new.op = me.op /\ new.pc = "append" /\ new.key = me.key /\ new.events = events /\ new.ver = ver
        /\ new.todo = me.todo /\ new.view = me.view /\ new.seeding = seeding
    BY <1>1 DEF CallRec, Stores
  <2>3. me.key = "album" \/ me.op = "song" => InRange(me.view)
    BY <1>1 DEF CallOK
  <2> HIDE DEF new
  <2>4. Shape(new)
    BY <1>1, <2>2, KeysAre DEF Shape, Records
  <2>5. CallOK(new)
    BY <2>1, <2>2, <2>3, <2>4 DEF CallOK
  <2> QED BY <2>5 DEF new
<1>8. me.op # "create" /\ ~(me.op = "song" /\ me.key \in Songs)
  BY <1>1, KeysAre DEF Shape, Records
<1>9. CallOK(Onward(me))
  BY <1>1, OnwardIs DEF Records
<1>10. Loaded(me, stream) = IF stream = << >>
                            THEN IF me.op \in {"artistCount", "artistList"} THEN Stores(me, 0, FALSE, all)
                                 ELSE Stores(me, 0, TRUE, born)
                            ELSE IF then = << >> THEN Onward(me) ELSE Stores(me, Len(stream), FALSE, then)
  BY DEF Loaded
<1> HIDE DEF me, stream, all, born, then
<1>11. CallOK(Loaded(me, stream))
  <2>1. CASE stream = << >>
    <3>1. CallOK(Stores(me, 0, FALSE, all)) /\ CallOK(Stores(me, 0, TRUE, born))
      BY <1>6, <1>7, <1>8 DEF all
    <3> QED BY <1>10, <2>1, <3>1
  <2>2. CASE stream # << >> /\ then # << >>
    <3>1. Len(stream) \in Nat \ {0}
      BY <1>2, <2>2
    <3>2. CallOK(Stores(me, Len(stream), FALSE, then))
      BY <1>6, <1>7, <2>2, <3>1
    <3> QED BY <1>10, <2>2, <3>2
  <2> QED BY <1>9, <1>10, <2>1, <2>2
<1> QED BY <1>11 DEF me, stream

\* Loading an aggregate.
LEMMA LoadIsSafe == ASSUME CatInv, NEW c \in Calls, Load(c) PROVE CatInv'
<1>1. call[c].pc = "load" /\ UNCHANGED <<pb, db, log>>
  BY LoadIs
<1>2. /\ call' \in [Calls -> CallRec] /\ (\A d \in Calls : CallOK(call'[d])) /\ origin' = origin
      /\ faults' \in 0..MaxFaults
  <2>1. CASE Turn(c, Loaded(call[c], log[call[c].key])) /\ UNCHANGED faults
    BY <1>1, <2>1, LoadedIs, TurnIs DEF CatInv
  <2>2. CASE Fault /\ Drop(c)
    BY <1>1, <2>2, DropIs, FaultIs DEF Records
  <2> QED BY <2>1, <2>2, LoadIs
<1> QED BY <1>1, <1>2 DEF CatInv

\* A stream and what is appended at its version.
LEMMA AppendedIs ==
  ASSUME NEW key \in Keys, NEW stream \in Seq(Events), LogOK(key, stream),
         NEW events \in Seq(Events), Fits(key, Len(stream), events), Ranged(key, events)
  PROVE  stream \o events \in Seq(Events) /\ LogOK(key, stream \o events)
<1> DEFINE m == Len(stream)  n == Len(events)  all == stream \o events
<1>1. /\ m \in Nat /\ n \in Nat /\ DOMAIN stream = 1..m /\ DOMAIN events = 1..n /\ DOMAIN all = 1..(m + n)
      /\ \A i \in 1..m : all[i] = stream[i]
      /\ \A i \in 1..n : all[m + i] = events[i]
      /\ all \in Seq(Events)
  OBVIOUS
<1> HIDE DEF all
<1>2. ASSUME NEW i \in DOMAIN all
      PROVE  /\ all[i].type \in TypesOf(key) /\ (all[i].type = "Created") = (0 = 0 /\ i = 1)
             /\ (key = "album" => InRange(all[i].row))
  <2>1. CASE i \in 1..m
    BY <1>1, <2>1 DEF LogOK, Fits, Ranged
  <2>2. CASE i \notin 1..m
    <3>1. i - m \in 1..n /\ i = m + (i - m) /\ i # m
      BY <1>1, <2>2
    <3> DEFINE j == i - m
    <3>2. /\ events[j].type \in TypesOf(key) /\ (events[j].type = "Created") = (m = 0 /\ j = 1)
          /\ (key = "album" => InRange(events[j].row)) /\ all[i] = events[j]
      BY <1>1, <3>1 DEF Fits, Ranged
    <3>3. (m = 0 /\ j = 1) = (i = 1)
      BY <1>1, <2>2, <3>1
    <3> QED BY <3>2, <3>3
  <2> QED BY <2>1, <2>2
<1>3. LogOK(key, all)
  BY <1>2 DEF LogOK, Fits, Ranged
<1> QED BY <1>1, <1>3 DEF all

\* What is stored is what the call had made of the stream it loaded.
LEMMA SavedIs ==
  ASSUME CatInv, NEW c \in Calls, call[c].pc = "append", Saved(call[c].key, call[c].ver, call[c].events)
  PROVE  log' \in [Keys -> Seq(Events)] /\ \A k \in Keys : LogOK(k, log'[k])
<1> DEFINE me == call[c]
<1>1. CallOK(me) /\ me \in CallRec /\ me.key \in Keys /\ me.events \in Seq(Events)
  BY DEF CatInv, CallOK, CallRec
<1>2. log[me.key] \in Seq(Events) /\ LogOK(me.key, log[me.key])
  BY <1>1 DEF CatInv
<1>3. Len(log[me.key]) = me.ver /\ log' = [log EXCEPT ![me.key] = log[me.key] \o me.events]
  BY DEF Saved
<1>4. log[me.key] \o me.events \in Seq(Events) /\ LogOK(me.key, log[me.key] \o me.events)
  BY <1>1, <1>2, <1>3, AppendedIs DEF CallOK
<1> HIDE DEF me
<1> QED BY <1>1, <1>3, <1>4 DEF CatInv

\* Appending to a stream; the version check keeps what Load found true.
LEMMA StoreIsSafe == ASSUME CatInv, NEW c \in Calls, Store(c) PROVE CatInv'
<1> DEFINE me == call[c]
           next == [me EXCEPT !.pc = IF me.seeding /\ me.key \in Songs THEN "load" ELSE "project"]
<1>1. me.pc = "append" /\ UNCHANGED db /\ CallOK(me) /\ me \in CallRec /\ me.key \in Keys
  BY DEF Store, At, CatInv, CallRec
<1>2. CASE Saved(me.key, me.ver, me.events) /\ Turn(c, next) /\ UNCHANGED <<pb, faults>>
  <2>1. CallOK(next)
    <3> HIDE DEF me
    <3> QED BY <1>1, KeysAre DEF CallOK, Under, Shape, CallRec, Records, Pcs
  <2>2. log' \in [Keys -> Seq(Events)] /\ \A k \in Keys : LogOK(k, log'[k])
    BY <1>1, <1>2, SavedIs
  <2> HIDE DEF next, me
  <2>3. call' \in [Calls -> CallRec] /\ (\A d \in Calls : CallOK(call'[d])) /\ origin' = origin
    BY <1>2, <2>1, TurnIs
  <2> QED BY <1>1, <1>2, <2>2, <2>3 DEF CatInv
<1>3. ASSUME UNCHANGED log, TakenBack(me.key) \/ UNCHANGED pb, End(c) \/ Drop(c), faults' \in 0..MaxFaults PROVE CatInv'
  <2>1. call' \in [Calls -> CallRec] /\ (\A d \in Calls : CallOK(call'[d])) /\ origin' = origin
    BY <1>1, <1>3, EndIs, DropIs DEF Records
  <2>2. RowsOK(pb')
    <3>1. InRange(NoRow) /\ NoRow \in Rows
      BY RowIs DEF InRange, NoRow
    <3> QED BY <1>1, <1>3, <3>1, RowSet DEF TakenBack, CatInv
  <2> QED BY <1>1, <1>3, <2>1, <2>2 DEF CatInv
<1>4. CASE /\ Conflict(me.key, me.ver) /\ UNCHANGED <<log, faults>>
           /\ IF me.op = "create" THEN TakenBack(me.key) /\ End(c) ELSE UNCHANGED pb /\ Drop(c)
  BY <1>3, <1>4 DEF CatInv
<1>5. CASE /\ Fault /\ UNCHANGED log
           /\ IF me.op = "create" THEN (TakenBack(me.key) \/ UNCHANGED pb) /\ End(c) ELSE UNCHANGED pb /\ Drop(c)
  BY <1>3, <1>5, FaultIs
<1> QED BY <1>2, <1>4, <1>5 DEF Store

\* Projecting what was appended.
LEMMA PublishIsSafe == ASSUME CatInv, NEW c \in Calls, Publish(c) PROVE CatInv'
<1> DEFINE me == call[c]
           next == IF me.seeding THEN [me EXCEPT !.pc = "load"] ELSE Onward(me)
           new  == Projected(me.key, db[me.key], me.events)
<1>1. me.pc = "project" /\ UNCHANGED <<pb, log>> /\ CallOK(me) /\ me \in CallRec /\ me.key \in Keys
  BY DEF Publish, At, CatInv, CallRec
<1>2. CASE Project(me.key, me.events) /\ UNCHANGED faults /\ Turn(c, next)
  <2>1. CallOK(next)
    <3>1. me.seeding => CallOK([me EXCEPT !.pc = "load"])
      <4> HIDE DEF me
      <4> QED BY <1>1, KeysAre DEF CallOK, Under, Shape, CallRec, Records, Pcs
    <3>2. CallOK(Onward(me))
      BY <1>1, OnwardIs DEF Records
    <3> QED BY <3>1, <3>2
  <2>2. new \in Rows /\ (me.key = "album" => InRange(new))
    <3>1. /\ me.events \in Seq(Events) /\ Ranged(me.key, me.events)
          /\ \A i \in DOMAIN me.events : me.events[i].type \in TypesOf(me.key)
      BY <1>1 DEF CallOK, CallRec, Fits
    <3>2. db[me.key] \in Rows /\ (me.key = "album" => InRange(db[me.key]))
      BY <1>1 DEF CatInv, RowsOK
    <3> QED BY <1>1, <3>1, <3>2, ReplayedIs DEF Projected
  <2>3. db' = [db EXCEPT ![me.key] = new]
    BY <1>2 DEF Project
  <2> HIDE DEF new
  <2>4. RowsOK(db')
    BY <1>1, <2>2, <2>3, RowSet DEF CatInv
  <2> HIDE DEF next, me
  <2>5. call' \in [Calls -> CallRec] /\ (\A d \in Calls : CallOK(call'[d])) /\ origin' = origin
    BY <1>2, <2>1, TurnIs
  <2> QED BY <1>1, <1>2, <2>4, <2>5 DEF CatInv
<1>3. CASE Fault /\ Drop(c) /\ UNCHANGED db
  BY <1>1, <1>3, DropIs, FaultIs DEF CatInv, Records
<1> QED BY <1>2, <1>3 DEF Publish

\* The process dies: calls are lost, the three places stay.
LEMMA DieIsSafe == ASSUME CatInv, Die PROVE CatInv'
<1>1. /\ UNCHANGED <<pb, db, log, origin>> /\ faults' \in 0..MaxFaults
      /\ call' = [c \in Calls |-> IF Busy(c) THEN [call[c] EXCEPT !.pc = "done", !.failed = TRUE] ELSE call[c]]
  BY FaultIs DEF Die
<1>2. \A c \in Calls : CallOK(call'[c])
  BY <1>1, OverIs DEF CatInv
<1> QED BY <1>1, <1>2 DEF CatInv, CallOK

\* cmd/rebuild replays the streams into the read model.
LEMMA RebuildIsSafe == ASSUME CatInv, Rebuild PROVE CatInv'
<1>1. PICK hasJobs \in BOOLEAN : db' = [k \in Keys |-> Projected(k, ResetForReplay(k, hasJobs), log[k])]
  BY DEF Rebuild
<1>2. ASSUME NEW k \in Keys PROVE db'[k] \in Rows /\ (k = "album" => InRange(db'[k]))
  <2>1. /\ log[k] \in Seq(Events) /\ Ranged(k, log[k]) /\ \A i \in DOMAIN log[k] : log[k][i].type \in TypesOf(k)
    BY DEF CatInv, LogOK, Fits
  <2>2. ResetForReplay(k, hasJobs) \in Rows /\ (k = "album" => InRange(ResetForReplay(k, hasJobs)))
    BY RowIs, KeysAre DEF ResetForReplay, CatInv, RowsOK, InRange, NoRow
  <2> HIDE DEF ResetForReplay
  <2>3. /\ Replayed("db", k, ResetForReplay(k, hasJobs), log[k]) \in Rows
        /\ (k = "album" => InRange(Replayed("db", k, ResetForReplay(k, hasJobs), log[k])))
    BY <2>1, <2>2, ReplayedIs
  <2> QED BY <1>1, <2>3 DEF Projected
<1>3. RowsOK(db')
  BY <1>1, <1>2, KeysAre DEF RowsOK
<1>4. UNCHANGED <<pb, log, faults, call, origin>>
  BY DEF Rebuild
<1> QED BY <1>3, <1>4 DEF CatInv

-----------------------------------------------------------------------------
(* Nothing is ever out of range.                                           *)

\* Every start is safe.
LEMMA InitIsSafe == ASSUME Init PROVE CatInv
<1>1. PICK placed \in {{}} \cup {{s} : s \in Songs} :
        LET there(k, places) == k \in placed \/ (k = "album" /\ origin \in places)
            old(k) == IF k \in Songs THEN Row("recent", 1, BatchSize) ELSE Row("waiting", 1, 1)
            at(places) == [k \in Keys |-> IF there(k, places) THEN old(k) ELSE NoRow]
        IN  /\ pb = at({"pb", "pb+db", "everywhere"}) /\ db = at({"pb+db", "everywhere"})
            /\ log = [k \in Keys |-> IF there(k, {"everywhere"})
                                     THEN <<Event("Created", old(k))>> ELSE << >>]
  BY DEF Init
<1> DEFINE old(k) == IF k \in Songs THEN Row("recent", 1, BatchSize) ELSE Row("waiting", 1, 1)
<1>2. \A k \in Keys : old(k) \in Rows /\ (k = "album" => InRange(old(k)))
  BY KeysAre, RowIs, CatalogAssumption DEF Labels, InRange, Row
<1>3. NoRow \in Rows /\ InRange(NoRow)
  BY RowIs DEF InRange, NoRow
<1>4. /\ \A k \in Keys : pb[k] \in {old(k), NoRow} /\ db[k] \in {old(k), NoRow}
                         /\ log[k] \in {<<Event("Created", old(k))>>, << >>}
      /\ pb = [k \in Keys |-> pb[k]] /\ db = [k \in Keys |-> db[k]] /\ log = [k \in Keys |-> log[k]]
  BY <1>1
<1> HIDE DEF old
<1>5. RowsOK(pb) /\ RowsOK(db)
  BY <1>2, <1>3, <1>4, KeysAre DEF RowsOK
<1>6. ASSUME NEW k \in Keys PROVE log[k] \in Seq(Events) /\ LogOK(k, log[k])
  <2>1. Event("Created", old(k)) \in Events /\ Event("Created", old(k)).type = "Created" /\ Event("Created", old(k)).row = old(k)
    BY <1>2, EventIs
  <2> HIDE DEF Event
  <2>2. LogOK(k, <<Event("Created", old(k))>>) /\ <<Event("Created", old(k))>> \in Seq(Events)
    BY <1>2, <2>1, OneEvent DEF LogOK, Fits, Ranged, TypesOf
  <2>3. LogOK(k, << >>) /\ << >> \in Seq(Events)
    BY DEF LogOK, Fits, Ranged
  <2> QED BY <1>4, <2>2, <2>3
<1>7. call = [c \in Calls |-> Waiting] /\ faults = 0 /\ origin \in Origins
  BY DEF Init
<1>8. call \in [Calls -> CallRec] /\ \A c \in Calls : CallOK(call[c])
  BY <1>7, WaitingIs DEF CallOK
<1>9. log \in [Keys -> Seq(Events)]
  BY <1>4, <1>6
<1> QED BY <1>5, <1>6, <1>7, <1>8, <1>9, CatalogAssumption DEF CatInv

\* Every step is safe.
LEMMA NextIsSafe == ASSUME CatInv, [Next]_vars PROVE CatInv'
<1>1. CASE UNCHANGED vars
  BY <1>1 DEF vars, stores, CatInv
<1>2. ASSUME NEW c \in Calls, Step(c) PROVE CatInv'
  BY <1>2, CreateBegins, ClickCountBegins, ClickStatusBegins, ArtistClickBegins, PlainIsSafe, CreateSongIsSafe,
     ToggleIsSafe, MirrorIsSafe, SaveRecordIsSafe, MirrorRowIsSafe, LoadIsSafe, StoreIsSafe, PublishIsSafe DEF Step
<1> QED BY <1>1, <1>2, DieIsSafe, RebuildIsSafe DEF Next

\* Whatever calls run side by side, fail or are lost, no row and
\* no event of an album has more collected than there are, every stream starts with
\* its creation and every call is in a step of its kind (CatInv, catalog_mirror.go).
THEOREM CatalogStaysSafe == Spec => []CatInv
BY InitIsSafe, NextIsSafe, PTL DEF Spec

-----------------------------------------------------------------------------
(* No two recent songs share a place.                                      *)

\* Nothing has failed, and nobody ran beside a toggle.
Good == faults = 0 /\ \A c \in Calls : call[c].op = "toggle" => call[c].alone

\* What a song's stream says, to the read model and to the aggregate.
Says(s, row, stream) == /\ stream # << >> /\ Exists(row)
                        /\ Projected(s, NoRow, stream) = row /\ Folded(s, stream) = row

\* A song that is added, and one that is toggled: its record, its SQLite row
\* and its stream in each step.
Adding(me, s, record, row, stream) ==
    /\ me.op = "song" /\ ~me.seeding /\ me.events = SongFacts(record) /\ Exists(record) /\ row = NoRow
    /\ \/ me.pc = "append" /\ stream = << >> /\ me.ver = 0
       \/ me.pc = "project" /\ Says(s, record, stream)
Toggling(me, s, record, row, stream) ==
    /\ me.op = "toggle" /\ Exists(me.view) /\ Exists(row)
    /\ \/ me.pc = "save" /\ record = row /\ me.was = record /\ Says(s, row, stream)
       \/ me.pc = "mirrorRow" /\ record = me.view /\ Says(s, row, stream)
       \/ me.pc = "load" /\ record = me.view /\ row = me.view /\ Says(s, Folded(s, stream), stream)
       \/ /\ me.pc = "append" /\ record = me.view /\ row = me.view /\ Says(s, Folded(s, stream), stream)
          /\ me.ver = Len(stream) /\ me.events = <<Event("RecentChanged", me.view)>> /\ ~me.seeding
       \/ /\ me.pc = "project" /\ record = me.view /\ row = me.view /\ Says(s, me.view, stream)
          /\ me.events = <<Event("RecentChanged", me.view)>> /\ ~me.seeding

InWork(s) == {c \in Calls : Busy(c) /\ call[c].key = s}
Absent(s)  == pb[s] = NoRow /\ db[s] = NoRow /\ log[s] = << >>
Settled(s) == db[s] = pb[s] /\ Says(s, pb[s], log[s])
SongOK(s) ==
    \/ InWork(s) = {} /\ (Absent(s) \/ Settled(s))
    \/ \E c \in Calls : /\ InWork(s) = {c}
                        /\ \/ Adding(call[c], s, pb[s], db[s], log[s])
                           \/ Toggling(call[c], s, pb[s], db[s], log[s])

\* A place that is nobody else's.
Free(view, s) == view.status = "recent" => Placed(view) /\ \A t \in Recent(pb) \ {s} : Counts(pb[t]) # Counts(view)
PlacesHold    == \A s \in Recent(pb) : Free(pb[s], s)
\* A toggle is the only call under way.
TogglesOK ==
    \A c \in Calls : Busy(c) /\ call[c].op = "toggle" =>
        /\ \A d \in Calls : Busy(d) => d = c
        /\ call[c].pc = "save" => Free(call[c].view, call[c].key)

SlotInv ==
    /\ \A c \in Calls : call[c].pc = "new" => call[c].op = "none"
    /\ Good => PlacesHold /\ TogglesOK /\ \A s \in Songs : SongOK(s)

\* What a song's creation and its moves say.
LEMMA SongStreams ==
  ASSUME NEW s \in Songs, NEW row \in Rows, Exists(row), NEW type \in {"Created", "RecentChanged"}
  PROVE  LET e == Event(type, row)
         IN  /\ e \in Events
             /\ type = "Created" => /\ Says(s, row, <<e>>) /\ Projected(s, NoRow, <<e>>) = row
             /\ type = "RecentChanged" =>
                  /\ \A stream \in Seq(Events) : Says(s, Folded(s, stream), stream) => Says(s, row, stream \o <<e>>)
                  /\ \A was \in Rows : Exists(was) => Projected(s, was, <<e>>) = row
<1> DEFINE e == Event(type, row)
<1>1. e \in Events /\ e.type = type /\ e.row = row
  BY EventIs
<1>2. s # "album" /\ s # "artist" /\ s \in Keys
  BY KeysAre
<1>3. NoRow \in Rows /\ ~Exists(NoRow)
  BY RowIs DEF Exists, NoRow
<1> HIDE DEF e
<1>4. \A was : Stepped("log", s, was, e) = row
  BY <1>1, <1>2 DEF Stepped, Applied, SongApplied
<1>5. \A was \in Rows : (Exists(was) <=> type # "Created") => Stepped("db", s, was, e) = row
  BY <1>1, <1>2 DEF Stepped, Projecting, SongProjected, SongApplied, Touches
<1>6. \A was : Replayed("log", s, was, <<e>>) = row
  BY <1>4, FoldOne
<1>7. \A was \in Rows : (Exists(was) <=> type # "Created") => Replayed("db", s, was, <<e>>) = row
  BY <1>5, FoldOne
<1>8. <<e>> # << >> /\ <<e>> \in Seq(Events)
  BY <1>1, OneEvent
<1>9. type = "Created" => Says(s, row, <<e>>) /\ Projected(s, NoRow, <<e>>) = row
  BY <1>3, <1>6, <1>7, <1>8 DEF Says, Folded, Projected
<1>10. ASSUME type = "RecentChanged"
       PROVE  /\ \A stream \in Seq(Events) : Says(s, Folded(s, stream), stream) => Says(s, row, stream \o <<e>>)
              /\ \A was \in Rows : Exists(was) => Projected(s, was, <<e>>) = row
  <2>1. \A was \in Rows : Exists(was) => Projected(s, was, <<e>>) = row
    BY <1>7, <1>10 DEF Projected
  <2>2. ASSUME NEW stream \in Seq(Events), Says(s, Folded(s, stream), stream)
        PROVE  Says(s, row, stream \o <<e>>)
    <3>1. /\ Folded(s, stream \o <<e>>) = Replayed("log", s, Folded(s, stream), <<e>>)
          /\ Projected(s, NoRow, stream \o <<e>>) = Replayed("db", s, Projected(s, NoRow, stream), <<e>>)
      <4> DEFINE one == <<e>>
      <4>1. stream \in Seq(Events) /\ one \in Seq(Events)
        BY <1>8
      <4> HIDE DEF one
      <4>2. \A place : Replayed(place, s, NoRow, stream \o one) = Replayed(place, s, Replayed(place, s, NoRow, stream), one)
        <5> TAKE place
        <5> QED BY <4>1, FoldConcat
      <4> QED BY <4>2 DEF Folded, Projected, one
    <3>2. stream \o <<e>> # << >>
      BY <1>1
    <3>3. Projected(s, NoRow, stream) = Folded(s, stream) /\ Exists(Folded(s, stream))
      BY <2>2 DEF Says
    <3>4. Stepped("db", s, Folded(s, stream), e) = row
      BY <1>1, <1>2, <1>10, <3>3 DEF Stepped, Projecting, SongProjected, SongApplied, Touches
    <3>5. Replayed("db", s, Folded(s, stream), <<e>>) = row
      BY <3>4, FoldOne
    <3> QED BY <1>6, <3>1, <3>2, <3>3, <3>5 DEF Says
  <2> QED BY <2>1, <2>2
<1> QED BY <1>1, <1>9, <1>10 DEF e

\* At first every song is absent, or stands in its three places.
LEMMA InitHasSlots == ASSUME Init, CatInv PROVE SlotInv
<1>1. PICK placed \in {{}} \cup {{s} : s \in Songs} :
        LET there(k, places) == k \in placed \/ (k = "album" /\ origin \in places)
            old(k) == IF k \in Songs THEN Row("recent", 1, BatchSize) ELSE Row("waiting", 1, 1)
            at(places) == [k \in Keys |-> IF there(k, places) THEN old(k) ELSE NoRow]
        IN  /\ pb = at({"pb", "pb+db", "everywhere"}) /\ db = at({"pb+db", "everywhere"})
            /\ log = [k \in Keys |-> IF there(k, {"everywhere"})
                                     THEN <<Event("Created", old(k))>> ELSE << >>]
  BY DEF Init
<1> DEFINE first == Row("recent", 1, BatchSize)
<1>2. first \in Rows /\ Exists(first) /\ Placed(first) /\ first.status = "recent"
  BY RowIs, CatalogAssumption DEF Labels, Row, Exists, Placed
<1>3. ASSUME NEW s \in Songs
      PROVE  /\ s \in placed => pb[s] = first /\ db[s] = first /\ log[s] = <<Event("Created", first)>>
             /\ s \notin placed => Absent(s)
  BY <1>1, KeysAre DEF Absent
<1> HIDE DEF first
<1>4. call = [c \in Calls |-> Waiting]
  BY DEF Init
<1>5. \A c \in Calls : call[c].pc = "new" /\ call[c].op = "none" /\ ~Busy(c)
  BY <1>4 DEF Waiting, Busy
<1>6. ASSUME NEW s \in Songs PROVE SongOK(s)
  <2>1. Says(s, first, <<Event("Created", first)>>)
    BY <1>2, SongStreams
  <2>2. InWork(s) = {}
    BY <1>5 DEF InWork
  <2> QED BY <1>3, <2>1, <2>2 DEF SongOK, Settled
<1>7. PlacesHold
  <2>1. \A s \in Recent(pb) : s \in Songs /\ s \in placed /\ pb[s] = first
    <3>1. NoRow.status # "recent"
      BY DEF NoRow
    <3> QED BY <1>3, <3>1 DEF Recent, Absent
  <2>2. \A s, t \in placed : s = t
    BY <1>1
  <2> QED BY <1>2, <2>1, <2>2 DEF PlacesHold, Free
<1> QED BY <1>5, <1>6, <1>7 DEF SlotInv, TogglesOK

\* Two records of a call that tell the same of it, but for its being alone.
SameWork(me, you) ==
    /\ me.op = you.op /\ me.pc = you.pc /\ me.key = you.key /\ me.was = you.was /\ me.view = you.view
    /\ me.seeding = you.seeding /\ me.events = you.events /\ me.ver = you.ver

\* Where a call begins and all is still good, all was good and no toggle is
\* under way beside it.
LEMMA BeginsGood ==
  ASSUME CatInv, SlotInv, Good', NEW c \in Calls, NEW op \in OpNames, NEW first \in CallRec,
         Begin(c, op, first), faults' = faults
  PROVE  /\ Good /\ call[c].pc = "new" /\ ~Busy(c)
         /\ \A d \in Calls : Busy(d) => call[d].op # "toggle"
         /\ op = "toggle" => \A d \in Calls : ~Busy(d)
         /\ SameWork(call'[c], [first EXCEPT !.op = op])
         /\ \A d \in Calls \ {c} : SameWork(call'[d], call[d])
<1> DEFINE beside == {d \in Calls : Busy(d)}
           b  == (beside = {})
           me == [first EXCEPT !.op = op, !.alone = b]
<1>1. call[c].pc = "new" /\ call[c].op = "none" /\ ~Busy(c)
  BY DEF Begin, At, SlotInv, Busy
<1>2. call' = [d \in Calls |-> IF d = c THEN me
                               ELSE IF d \in beside THEN [call[d] EXCEPT !.alone = FALSE] ELSE call[d]]
  BY DEF Begin
<1>3. \A d \in Calls : call[d] \in CallRec
  BY DEF CatInv
<1>4. me \in CallRec /\ me.op = op /\ me.alone = b /\ SameWork(me, [first EXCEPT !.op = op])
  BY DEF CallRec, SameWork
<1> HIDE DEF me, beside
<1>5. ASSUME NEW d \in Calls \ {c}
      PROVE  /\ SameWork(call'[d], call[d])
             /\ call'[d].op = call[d].op /\ (call'[d].alone => call[d].alone)
             /\ (d \in beside => ~call'[d].alone)
  <2>1. CASE d \in beside
    <3>1. call'[d] = [call[d] EXCEPT !.alone = FALSE]
      BY <1>2, <2>1
    <3> QED BY <1>3, <3>1 DEF CallRec, SameWork
  <2>2. CASE d \notin beside
    <3>1. call'[d] = call[d]
      BY <1>2, <2>2
    <3> QED BY <2>2, <3>1 DEF SameWork
  <2> QED BY <2>1, <2>2
<1>6. Good
  BY <1>1, <1>5 DEF Good
<1>7. \A d \in Calls : Busy(d) => call[d].op # "toggle"
  BY <1>1, <1>5 DEF Good, beside
<1>8. ASSUME op = "toggle" PROVE \A d \in Calls : ~Busy(d)
  <2>1. call'[c] = me
    BY <1>2
  <2>2. b
    BY <1>4, <1>8, <2>1 DEF Good
  <2> QED BY <2>2 DEF beside
<1> QED BY <1>1, <1>2, <1>4, <1>5, <1>6, <1>7, <1>8

\* A song that the beginning of a call does not touch.
LEMMA BegunBeside ==
  ASSUME CatInv, SlotInv, Good', NEW c \in Calls, NEW op \in OpNames, NEW first \in CallRec,
         Begin(c, op, first), faults' = faults,
         NEW s \in Songs, first.key # s, pb'[s] = pb[s], db'[s] = db[s], log'[s] = log[s]
  PROVE  SongOK(s)'
<1>1. /\ Good /\ ~Busy(c) /\ \A d \in Calls : Busy(d) => call[d].op # "toggle"
      /\ SameWork(call'[c], [first EXCEPT !.op = op])
      /\ \A d \in Calls \ {c} : SameWork(call'[d], call[d])
  BY BeginsGood, ZenonT(60)
<1>3. InWork(s)' = InWork(s)
  <2>1. call'[c].key = first.key
    BY <1>1 DEF CallRec, SameWork
  <2>2. \A d \in Calls \ {c} : call'[d].key = call[d].key /\ call'[d].pc = call[d].pc
    BY <1>1 DEF SameWork
  <2> QED BY <1>1, <2>1, <2>2 DEF InWork, Busy
<1>4. SongOK(s)
  BY <1>1 DEF SlotInv
<1>5. CASE InWork(s) = {} /\ (Absent(s) \/ Settled(s))
  <2>1. Absent(s)' \/ Settled(s)'
    BY <1>5 DEF Absent, Settled
  <2> QED BY <1>3, <1>5, <2>1 DEF SongOK
<1>6. CASE \E d \in Calls : /\ InWork(s) = {d}
                            /\ \/ Adding(call[d], s, pb[s], db[s], log[s])
                               \/ Toggling(call[d], s, pb[s], db[s], log[s])
  <2>1. PICK d \in Calls : /\ InWork(s) = {d}
                           /\ \/ Adding(call[d], s, pb[s], db[s], log[s])
                              \/ Toggling(call[d], s, pb[s], db[s], log[s])
    BY <1>6
  <2>2. d # c /\ call[d].op # "toggle"
    BY <1>1, <2>1 DEF InWork
  <2>3. Adding(call[d], s, pb[s], db[s], log[s])
    BY <2>1, <2>2 DEF Toggling
  <2>4. Adding(call'[d], s, pb'[s], db'[s], log'[s])
    BY <1>1, <2>1, <2>2, <2>3 DEF Adding, SameWork
  <2>5. Adding(call[d], s, pb[s], db[s], log[s])'
    BY <2>4
  <2> QED BY <1>3, <2>1, <2>5 DEF SongOK
<1> QED BY <1>4, <1>5, <1>6 DEF SongOK

\* No toggle is under way after another call has begun beside it.
LEMMA BegunWithoutToggles ==
  ASSUME CatInv, SlotInv, Good', NEW c \in Calls, NEW op \in OpNames \ {"toggle", "none"}, NEW first \in CallRec,
         first.pc # "new", Begin(c, op, first), faults' = faults
  PROVE  TogglesOK' /\ \A d \in Calls : call'[d].pc = "new" => call'[d].op = "none"
<1>1. /\ \A d \in Calls : Busy(d) => call[d].op # "toggle"
      /\ SameWork(call'[c], [first EXCEPT !.op = op])
      /\ \A d \in Calls \ {c} : SameWork(call'[d], call[d])
  <2>1. op \in OpNames
    OBVIOUS
  <2> QED BY <2>1, BeginsGood, ZenonT(60)
<1>2. call'[c].op = op /\ call'[c].pc = first.pc
  BY <1>1 DEF CallRec, SameWork
<1>3. \A d \in Calls \ {c} : call'[d].pc = call[d].pc /\ call'[d].op = call[d].op
  BY <1>1 DEF SameWork
<1> QED BY <1>1, <1>2, <1>3 DEF TogglesOK, Busy, SlotInv

\* Calls that begin without a song leave the songs as they are.
LEMMA BegunElsewhere ==
  ASSUME CatInv, SlotInv, NEW c \in Calls, NEW op \in OpNames \ {"toggle", "none"}, NEW first \in CallRec,
         first.pc # "new", first.key \notin Songs, Begin(c, op, first), UNCHANGED <<db, log, faults>>,
         \A s \in Songs : pb'[s] = pb[s]
  PROVE  SlotInv'
<1>1. \A d \in Calls : call'[d].pc = "new" => call'[d].op = "none"
  <2> DEFINE beside == {d \in Calls : Busy(d)}
             me == [first EXCEPT !.op = op, !.alone = beside = {}]
  <2>1. call' = [d \in Calls |-> IF d = c THEN me
                                 ELSE IF d \in beside THEN [call[d] EXCEPT !.alone = FALSE] ELSE call[d]]
    BY DEF Begin
  <2>2. me.pc = first.pc /\ \A d \in Calls : [call[d] EXCEPT !.alone = FALSE].pc = call[d].pc /\ [call[d] EXCEPT !.alone = FALSE].op = call[d].op
    BY DEF CallRec, CatInv
  <2> HIDE DEF me
  <2> QED BY <2>1, <2>2 DEF SlotInv
<1>2. ASSUME Good' PROVE PlacesHold' /\ TogglesOK' /\ \A s \in Songs : SongOK(s)'
  <2>1. Good
    BY <1>2, BeginsGood
  <2>2. \A s \in Songs : SongOK(s)'
    BY <1>2, BegunBeside
  <2>3. PlacesHold'
    <3>1. PlacesHold
      BY <2>1 DEF SlotInv
    <3>2. Recent(pb') = Recent(pb)
      BY DEF Recent
    <3> QED BY <3>1, <3>2 DEF PlacesHold, Free, Recent
  <2> QED BY <1>2, <2>2, <2>3, BegunWithoutToggles
<1> QED BY <1>1, <1>2 DEF SlotInv

\* A call that is about no song leaves the songs as they are.
LEMMA PlainHasSlots == ASSUME CatInv, SlotInv, NEW c \in Calls, PlainBegun(c) PROVE SlotInv'
BY BegunElsewhere DEF PlainBegun

\* A song that has no record is absent altogether.
LEMMA AbsentIs == ASSUME NEW s \in Songs, SongOK(s), ~Exists(pb[s]) PROVE InWork(s) = {} /\ Absent(s)
<1>1. \A row, stream, x : Says(s, row, stream) => Exists(row)
  BY DEF Says
<1> QED BY <1>1 DEF SongOK, Settled, Adding, Toggling

\* A new song takes a place that is nobody's (nextRecentSlot).
LEMMA SongHasSlots == ASSUME CatInv, SlotInv, NEW c \in Calls, CreateSong(c) PROVE SlotInv'
<1>1. PICK s \in Songs, place \in Rows, album \in Rows, artist \in Rows : SongBegun(c, s, place, album, artist)
  BY SongBegins
<1> DEFINE first == SongFirst(s, place, album, artist)
<1>2. /\ first.pc = "append" /\ first.key = s /\ first.events = SongFacts(place) /\ first.ver = 0 /\ first.seeding = FALSE
      /\ [first EXCEPT !.op = "song"].op = "song" /\ [first EXCEPT !.op = "song"].pc = "append"
      /\ [first EXCEPT !.op = "song"].key = s /\ [first EXCEPT !.op = "song"].events = SongFacts(place)
      /\ [first EXCEPT !.op = "song"].ver = 0 /\ [first EXCEPT !.op = "song"].seeding = FALSE
  BY DEF SongFirst, Waiting
<1>3. /\ ~Exists(pb[s]) /\ pb' = [pb EXCEPT !["album"] = album, !["artist"] = artist, ![s] = place]
      /\ place.status = "recent" /\ Placed(place)
      /\ \A t \in Recent(pb) : Placed(pb[t]) => Counts(pb[t]) # Counts(place)
      /\ first \in CallRec /\ Begin(c, "song", first) /\ UNCHANGED <<db, log, faults>>
  BY <1>1 DEF SongBegun
<1> HIDE DEF first
<1>4. "song" \in OpNames \ {"toggle", "none"} /\ "song" \in OpNames
  BY DEF OpNames
<1>5. pb'[s] = place /\ \A t \in Songs \ {s} : pb'[t] = pb[t]
  BY <1>3, KeysAre DEF CatInv, RowsOK
<1>6. \A d \in Calls : call'[d].pc = "new" => call'[d].op = "none"
  <2> DEFINE beside == {d \in Calls : Busy(d)}
             me == [first EXCEPT !.op = "song", !.alone = beside = {}]
  <2>1. call' = [d \in Calls |-> IF d = c THEN me
                                 ELSE IF d \in beside THEN [call[d] EXCEPT !.alone = FALSE] ELSE call[d]]
    BY <1>3 DEF Begin
  <2>2. me.pc = first.pc /\ \A d \in Calls : [call[d] EXCEPT !.alone = FALSE].pc = call[d].pc /\ [call[d] EXCEPT !.alone = FALSE].op = call[d].op
    BY <1>3 DEF CallRec, CatInv
  <2> HIDE DEF me
  <2> QED BY <1>2, <2>1, <2>2 DEF SlotInv
<1>7. ASSUME Good' PROVE PlacesHold' /\ TogglesOK' /\ \A t \in Songs : SongOK(t)'
  <2>1. /\ Good /\ ~Busy(c)
        /\ SameWork(call'[c], [first EXCEPT !.op = "song"])
        /\ \A d \in Calls \ {c} : SameWork(call'[d], call[d])
    BY <1>3, <1>4, <1>7, BeginsGood, ZenonT(60)
  <2>2. PlacesHold /\ \A t \in Songs : SongOK(t)
    BY <2>1 DEF SlotInv
  <2>3. InWork(s) = {} /\ Absent(s)
    BY <1>3, <2>2, AbsentIs
  <2>4. SongOK(s)'
    <3>1. call'[c].key = s /\ call'[c].pc = "append" /\ \A d \in Calls \ {c} : call'[d].key = call[d].key /\ call'[d].pc = call[d].pc
      BY <1>2, <2>1 DEF SameWork
    <3>2. InWork(s)' = {c}
      BY <2>3, <3>1 DEF InWork, Busy
    <3>3. Adding(call'[c], s, place, NoRow, << >>)
      <4>1. Exists(place)
        BY <1>3 DEF Exists
      <4> QED BY <1>2, <2>1, <4>1 DEF SameWork, Adding
    <3>4. db'[s] = NoRow /\ log'[s] = << >>
      BY <1>3, <2>3 DEF Absent
    <3>5. Adding(call[c], s, pb[s], db[s], log[s])'
      BY <1>5, <3>3, <3>4
    <3> QED BY <3>2, <3>5 DEF SongOK
  <2>5. \A t \in Songs \ {s} : SongOK(t)'
    BY <1>2, <1>3, <1>4, <1>5, <1>7, BegunBeside
  <2>6. PlacesHold'
    <3>1. Recent(pb') = Recent(pb) \cup {s} /\ s \notin Recent(pb)
      BY <1>3, <1>5 DEF Recent, Exists
    <3>2. \A t \in Recent(pb) : pb'[t] = pb[t] /\ Placed(pb[t])
      BY <1>5, <2>2, <3>1 DEF PlacesHold, Free, Recent
    <3>3. \A t \in Recent(pb) : pb[t].status = "recent" /\ \A u \in Recent(pb) \ {t} : Counts(pb[u]) # Counts(pb[t])
      BY <2>2 DEF PlacesHold, Free, Recent
    <3>4. \A t \in Recent(pb') : Placed(pb'[t]) /\ \A u \in Recent(pb') \ {t} : Counts(pb'[u]) # Counts(pb'[t])
      <4>0. \A t \in Recent(pb) : Counts(pb[t]) # Counts(place)
        BY <1>3, <3>2
      <4> SUFFICES ASSUME NEW t \in Recent(pb) \cup {s}
                   PROVE  Placed(pb'[t]) /\ \A u \in Recent(pb) \cup {s} : u # t => Counts(pb'[u]) # Counts(pb'[t])
        BY <3>1
      <4>1. CASE t = s
        BY <1>3, <1>5, <3>1, <3>2, <4>0, <4>1
      <4>2. CASE t # s
        <5>1. t \in Recent(pb) /\ pb'[t] = pb[t]
          BY <3>2, <4>2
        <5> QED BY <1>5, <3>2, <3>3, <4>0, <5>1
      <4> QED BY <4>1, <4>2
    <3> QED BY <3>4 DEF PlacesHold, Free
  <2>7. TogglesOK'
    BY <1>2, <1>3, <1>4, <1>7, BegunWithoutToggles
  <2> QED BY <2>4, <2>5, <2>6, <2>7
<1> QED BY <1>6, <1>7 DEF SlotInv

\* A toggle chooses its place from the records (handleSongToggle).
LEMMA ToggleHasSlots == ASSUME CatInv, SlotInv, NEW c \in Calls, Toggle(c) PROVE SlotInv'
<1>1. PICK s \in Songs, view \in Rows :
           LET first == [Waiting EXCEPT !.pc = "save", !.key = s, !.was = pb[s], !.view = view]
           IN  /\ Exists(pb[s]) /\ first \in CallRec /\ Begin(c, "toggle", first) /\ UNCHANGED stores
               /\ \/ view = NotRecent
                  \/ view = pb[s]
                  \/ /\ view.status = "recent" /\ Placed(view)
                     /\ \A t \in Recent(db) : Placed(db[t]) => Counts(db[t]) # Counts(view)
  BY ToggleBegins
<1> DEFINE first == [Waiting EXCEPT !.pc = "save", !.key = s, !.was = pb[s], !.view = view]
           now == [first EXCEPT !.op = "toggle"]
<1>2. /\ first.pc = "save" /\ first.key = s
      /\ now.op = "toggle" /\ now.pc = "save" /\ now.key = s /\ now.was = pb[s] /\ now.view = view
  BY DEF Waiting
<1>3. first \in CallRec /\ Begin(c, "toggle", first) /\ UNCHANGED <<pb, db, log, faults>> /\ "toggle" \in OpNames
  BY <1>1 DEF stores, OpNames
<1> HIDE DEF first
<1>6. \A d \in Calls : call'[d].pc = "new" => call'[d].op = "none"
  <2> DEFINE beside == {d \in Calls : Busy(d)}
             me == [first EXCEPT !.op = "toggle", !.alone = beside = {}]
  <2>1. call' = [d \in Calls |-> IF d = c THEN me
                                 ELSE IF d \in beside THEN [call[d] EXCEPT !.alone = FALSE] ELSE call[d]]
    BY <1>3 DEF Begin
  <2>2. me.pc = first.pc /\ \A d \in Calls : [call[d] EXCEPT !.alone = FALSE].pc = call[d].pc /\ [call[d] EXCEPT !.alone = FALSE].op = call[d].op
    BY <1>3 DEF CallRec, CatInv
  <2> HIDE DEF me
  <2> QED BY <1>2, <2>1, <2>2 DEF SlotInv
<1>7. ASSUME Good' PROVE PlacesHold' /\ TogglesOK' /\ \A t \in Songs : SongOK(t)'
  <2>1. /\ Good /\ \A d \in Calls : ~Busy(d)
        /\ SameWork(call'[c], now)
        /\ \A d \in Calls \ {c} : SameWork(call'[d], call[d])
    BY <1>3, <1>7, BeginsGood, ZenonT(60)
  <2> HIDE DEF now
  <2>2. PlacesHold /\ \A t \in Songs : SongOK(t) /\ InWork(t) = {} /\ (Absent(t) \/ Settled(t))
    <3>1. \A t \in Songs : InWork(t) = {}
      BY <2>1 DEF InWork
    <3> QED BY <2>1, <3>1 DEF SlotInv, SongOK
  <2>3. Settled(s) /\ Exists(pb[s])
    BY <1>1, <2>2 DEF Absent, Exists, NoRow
  <2>4. /\ call'[c].key = s /\ call'[c].pc = "save" /\ call'[c].view = view
        /\ \A d \in Calls \ {c} : call'[d].key = call[d].key /\ call'[d].pc = call[d].pc
    BY <1>2, <2>1 DEF SameWork
  <2>5. SongOK(s)'
    <3>1. InWork(s)' = {c}
      BY <2>2, <2>4 DEF InWork, Busy
    <3>2. Exists(view)
      BY <1>1 DEF Exists, NotRecent, Row
    <3>3. Toggling(call'[c], s, pb[s], db[s], log[s])
      BY <1>2, <2>1, <2>3, <3>2 DEF SameWork, Toggling, Settled
    <3>4. Toggling(call[c], s, pb[s], db[s], log[s])'
      BY <1>3, <3>3
    <3> QED BY <3>1, <3>4 DEF SongOK
  <2>6. \A t \in Songs \ {s} : SongOK(t)'
    BY <1>2, <1>3, <1>7, BegunBeside
  <2>7. PlacesHold'
    BY <1>3, <2>2 DEF PlacesHold, Free, Recent
  <2>8. TogglesOK'
    <3>1. \A d \in Calls : Busy(d)' => d = c
      BY <2>1, <2>4 DEF Busy
    <3>2. Free(view, s)
      <4>1. CASE view = NotRecent
        BY <4>1 DEF Free, NotRecent, Row
      <4>2. CASE view = pb[s]
        BY <2>2, <4>2 DEF PlacesHold, Free, Recent
      <4>3. CASE /\ view.status = "recent" /\ Placed(view)
                 /\ \A t \in Recent(db) : Placed(db[t]) => Counts(db[t]) # Counts(view)
        <5>1. \A t \in Recent(pb) : db[t] = pb[t] /\ Placed(pb[t])
          BY <2>2 DEF Absent, Settled, Recent, PlacesHold, Free
        <5>2. Recent(pb) \subseteq Recent(db)
          BY <5>1 DEF Recent
        <5> QED BY <4>3, <5>1, <5>2 DEF Free
      <4> QED BY <1>1, <4>1, <4>2, <4>3
    <3>3. Free(view, s)'
      BY <1>3, <3>2 DEF Free, Recent
    <3> QED BY <2>4, <3>1, <3>3 DEF TogglesOK
  <2> QED BY <2>5, <2>6, <2>7, <2>8
<1> QED BY <1>6, <1>7 DEF SlotInv

-----------------------------------------------------------------------------
(* Places are kept by the steps that follow.                               *)

\* A call that goes on as what it is.
GoesOn(c, new) == /\ Busy(c) /\ Turn(c, new) /\ new.pc # "new"
                  /\ new.op = call[c].op /\ new.alone = call[c].alone
\* What it leaves to the others.
LEMMA GoesOnIs ==
  ASSUME CatInv, SlotInv, NEW c \in Calls, NEW new, GoesOn(c, new), faults' = faults
  PROVE  /\ call'[c] = new /\ \A d \in Calls \ {c} : call'[d] = call[d]
         /\ \A d \in Calls : call'[d].pc = "new" => call'[d].op = "none"
         /\ Good' => Good
<1>1. call'[c] = new /\ \A d \in Calls \ {c} : call'[d] = call[d]
  BY DEF GoesOn, Turn, CatInv
<1>2. \A d \in Calls : call'[d].op = call[d].op /\ call'[d].alone = call[d].alone
  BY <1>1 DEF GoesOn
<1> QED BY <1>1, <1>2 DEF GoesOn, SlotInv, Good

\* A failure ends what is said of places.
LEMMA FailureHasSlots ==
  ASSUME CatInv, SlotInv, Fault, \A d \in Calls : call'[d].pc = "new" => call'[d].op = "none" PROVE SlotInv'
BY DEF CatInv, SlotInv, Fault, Good
\* The same of a failure that moves a call.
LEMMA FailingTurn ==
  ASSUME CatInv, SlotInv, Fault, NEW c \in Calls, NEW new, Turn(c, new), new.pc # "new" PROVE SlotInv'
<1>1. \A d \in Calls : call'[d].pc = "new" => call'[d].op = "none"
  BY DEF Turn, CatInv, SlotInv
<1> QED BY <1>1, FailureHasSlots
\* The same of a call that ends in an error or skips what is left of its aggregate.
LEMMA FailedCalls ==
  ASSUME CatInv, SlotInv, Fault, NEW c \in Calls, Busy(c), End(c) \/ (Drop(c) /\ call[c].pc \in Records) PROVE SlotInv'
<1>1. CASE End(c)
  <2> DEFINE new == [call[c] EXCEPT !.pc = "done", !.failed = TRUE]
  <2>1. new.pc # "new" /\ Turn(c, new)
    BY <1>1 DEF CatInv, CallRec, End
  <2> HIDE DEF new
  <2> QED BY <2>1, FailingTurn
<1>2. CASE Drop(c) /\ call[c].pc \in Records
  <2> DEFINE new == [Onward(call[c]) EXCEPT !.failed = TRUE]
  <2>1. new.pc # "new" /\ Turn(c, new)
    BY <1>2 DEF CatInv, CallRec, Drop, Onward
  <2> HIDE DEF new
  <2> QED BY <2>1, FailingTurn
<1> QED BY <1>1, <1>2

\* A step that is not about a song.
LEMMA ElsewhereHasSlots ==
  ASSUME CatInv, SlotInv, NEW c \in Calls, NEW new, GoesOn(c, new), call[c].key \notin Songs, new.key \notin Songs,
         faults' = faults, \A s \in Songs : pb'[s] = pb[s] /\ db'[s] = db[s] /\ log'[s] = log[s]
  PROVE  SlotInv'
<1>1. /\ call'[c] = new /\ \A d \in Calls \ {c} : call'[d] = call[d]
      /\ \A d \in Calls : call'[d].pc = "new" => call'[d].op = "none"
      /\ Good' => Good
  BY GoesOnIs
<1>2. ASSUME Good' PROVE PlacesHold' /\ TogglesOK' /\ \A s \in Songs : SongOK(s)'
  <2>1. Good /\ PlacesHold /\ TogglesOK /\ \A s \in Songs : SongOK(s)
    BY <1>1, <1>2 DEF SlotInv
  <2>2. PlacesHold'
    <3>1. Recent(pb') = Recent(pb)
      BY DEF Recent
    <3> QED BY <2>1, <3>1 DEF PlacesHold, Free, Recent
  <2>3. TogglesOK'
    <3>1. call[c].op # "toggle" /\ Busy(c) /\ new.op # "toggle"
      BY DEF CatInv, CallOK, Under, Shape, Busy, GoesOn
    <3>2. \A d \in Calls : ~(Busy(d) /\ call[d].op = "toggle")
      BY <2>1, <3>1 DEF TogglesOK
    <3> QED BY <1>1, <3>1, <3>2 DEF TogglesOK, Busy
  <2>4. ASSUME NEW s \in Songs PROVE SongOK(s)'
    <3>1. InWork(s)' = InWork(s)
      BY <1>1 DEF InWork, Busy
    <3>2. CASE InWork(s) = {} /\ (Absent(s) \/ Settled(s))
      <4>1. Absent(s)' \/ Settled(s)'
        BY <3>2 DEF Absent, Settled
      <4> QED BY <3>1, <3>2, <4>1 DEF SongOK
    <3>3. CASE \E d \in Calls : /\ InWork(s) = {d}
                                /\ \/ Adding(call[d], s, pb[s], db[s], log[s])
                                   \/ Toggling(call[d], s, pb[s], db[s], log[s])
      <4>1. PICK d \in Calls : /\ InWork(s) = {d}
                               /\ \/ Adding(call[d], s, pb[s], db[s], log[s])
                                  \/ Toggling(call[d], s, pb[s], db[s], log[s])
        BY <3>3
      <4>2. d # c
        BY <4>1 DEF InWork
      <4>3. call'[d] = call[d] /\ pb'[s] = pb[s] /\ db'[s] = db[s] /\ log'[s] = log[s]
        BY <1>1, <4>2
      <4>4. \/ Adding(call[d], s, pb[s], db[s], log[s])'
            \/ Toggling(call[d], s, pb[s], db[s], log[s])'
        BY <4>1, <4>3
      <4> QED BY <3>1, <4>1, <4>4 DEF SongOK
    <3> QED BY <2>1, <3>2, <3>3 DEF SongOK
  <2> QED BY <2>2, <2>3, <2>4
<1> QED BY <1>1, <1>2 DEF SlotInv

\* A step about a song, in whatever phase it leaves it.
LEMMA SongStepHasSlots ==
  ASSUME CatInv, SlotInv, NEW c \in Calls, NEW new, GoesOn(c, new), NEW s \in Songs, call[c].key = s,
         new.key = s \/ new.key \notin Songs, new.pc # "save",
         faults' = faults, \A t \in Songs \ {s} : pb'[t] = pb[t] /\ db'[t] = db[t] /\ log'[t] = log[t],
         Good => /\ PlacesHold'
                 /\ IF new.pc # "done" /\ new.key = s
                    THEN \/ Adding(new, s, pb'[s], db'[s], log'[s])
                         \/ Toggling(new, s, pb'[s], db'[s], log'[s])
                    ELSE Settled(s)'
  PROVE  SlotInv'
<1>1. /\ call'[c] = new /\ \A d \in Calls \ {c} : call'[d] = call[d]
      /\ \A d \in Calls : call'[d].pc = "new" => call'[d].op = "none"
      /\ Good' => Good
  BY GoesOnIs
<1>2. ASSUME Good' PROVE PlacesHold' /\ TogglesOK' /\ \A t \in Songs : SongOK(t)'
  <2>1. Good /\ PlacesHold /\ TogglesOK /\ \A t \in Songs : SongOK(t)
    BY <1>1, <1>2 DEF SlotInv
  <2>0. Busy(c) /\ new.op = call[c].op
    BY DEF GoesOn
  <2>3. TogglesOK'
    <3>1. ASSUME NEW d \in Calls, Busy(d)', call'[d].op = "toggle"
          PROVE  (\A e \in Calls : Busy(e)' => e = d) /\ call'[d].pc # "save"
      <4>1. \A e \in Calls : Busy(e)' => Busy(e)
        BY <1>1, <2>0 DEF Busy
      <4>2. call[d].op = "toggle" /\ Busy(d)
        BY <1>1, <2>0, <3>1, <4>1
      <4>3. \A e \in Calls : Busy(e) => e = d
        BY <2>1, <4>2 DEF TogglesOK
      <4>4. d = c
        BY <2>0, <4>3
      <4> QED BY <1>1, <4>1, <4>3, <4>4
    <3> QED BY <3>1 DEF TogglesOK
  <2>4. InWork(s) = {c}
    <3>1. c \in InWork(s)
      BY <2>0 DEF InWork
    <3> QED BY <2>1, <3>1 DEF SongOK
  <2>5. SongOK(s)'
    <3>1. CASE new.pc # "done" /\ new.key = s
      <4>1. InWork(s)' = {c}
        BY <1>1, <2>4, <3>1, GoesOnIs DEF InWork, Busy, GoesOn
      <4>2. \/ Adding(call[c], s, pb[s], db[s], log[s])'
            \/ Toggling(call[c], s, pb[s], db[s], log[s])'
        BY <1>1, <2>1, <3>1
      <4> QED BY <4>1, <4>2 DEF SongOK
    <3>2. CASE ~(new.pc # "done" /\ new.key = s)
      <4>1. InWork(s)' = {}
        BY <1>1, <2>4, <3>2 DEF InWork, Busy
      <4> QED BY <2>1, <3>2, <4>1 DEF SongOK
    <3> QED BY <3>1, <3>2
  <2>6. ASSUME NEW t \in Songs \ {s} PROVE SongOK(t)'
    <3>1. InWork(t)' = InWork(t)
      BY <1>1 DEF InWork, Busy
    <3>2. CASE InWork(t) = {} /\ (Absent(t) \/ Settled(t))
      <4>1. Absent(t)' \/ Settled(t)'
        BY <3>2 DEF Absent, Settled
      <4> QED BY <3>1, <3>2, <4>1 DEF SongOK
    <3>3. CASE \E d \in Calls : /\ InWork(t) = {d}
                                /\ \/ Adding(call[d], t, pb[t], db[t], log[t])
                                   \/ Toggling(call[d], t, pb[t], db[t], log[t])
      <4>1. PICK d \in Calls : /\ InWork(t) = {d}
                               /\ \/ Adding(call[d], t, pb[t], db[t], log[t])
                                  \/ Toggling(call[d], t, pb[t], db[t], log[t])
        BY <3>3
      <4>2. d # c
        BY <4>1 DEF InWork
      <4>3. call'[d] = call[d] /\ pb'[t] = pb[t] /\ db'[t] = db[t] /\ log'[t] = log[t]
        BY <1>1, <4>2
      <4>4. \/ Adding(call[d], t, pb[t], db[t], log[t])'
            \/ Toggling(call[d], t, pb[t], db[t], log[t])'
        BY <4>1, <4>3
      <4> QED BY <3>1, <4>1, <4>4 DEF SongOK
    <3> QED BY <2>1, <3>2, <3>3 DEF SongOK
  <2>7. PlacesHold'
    BY <2>1
  <2> QED BY <2>3, <2>5, <2>6, <2>7
<1> QED BY <1>1, <1>2 DEF SlotInv

\* Places hold while no record of a song is written.
LEMMA PlacesStay ==
  ASSUME PlacesHold, \A t \in Songs : pb'[t] = pb[t] PROVE PlacesHold'
<1>1. Recent(pb') = Recent(pb)
  BY DEF Recent
<1> QED BY <1>1 DEF PlacesHold, Free, Recent

\* The phase a call has left its song in.
LEMMA PhaseIs ==
  ASSUME SlotInv, Good, NEW c \in Calls, Busy(c), NEW s \in Songs, call[c].key = s
  PROVE  \/ Adding(call[c], s, pb[s], db[s], log[s])
         \/ Toggling(call[c], s, pb[s], db[s], log[s])
<1>1. SongOK(s) /\ c \in InWork(s)
  BY DEF SlotInv, InWork
<1> QED BY <1>1 DEF SongOK

\* An album's UPDATE touches no song.
LEMMA MirrorHasSlots == ASSUME CatInv, SlotInv, NEW c \in Calls, Mirror(c) PROVE SlotInv'
<1> DEFINE me == call[c]
           row == IF me.op = "count" THEN CountMirrored(db["album"], me) ELSE StatusMirrored(db["album"], me)
           new == [me EXCEPT !.view = row, !.pc = IF Moved(me) THEN "load" ELSE "done"]
<1>1. me \in CallRec /\ me.pc = "mirror" /\ Busy(c) /\ me.key \notin Songs /\ UNCHANGED <<pb, log>>
  BY KeysAre DEF Mirror, At, CatInv, CallOK, Under, Shape, Busy, Records
<1>2. CASE db' = [db EXCEPT !["album"] = row] /\ UNCHANGED faults /\ Turn(c, new)
  <2> HIDE DEF row
  <2>1. GoesOn(c, new) /\ new.key \notin Songs
    BY <1>1, <1>2 DEF GoesOn, CallRec
  <2>2. \A s \in Songs : pb'[s] = pb[s] /\ db'[s] = db[s] /\ log'[s] = log[s]
    BY <1>1, <1>2, KeysAre
  <2> HIDE DEF new
  <2> QED BY <1>1, <1>2, <2>1, <2>2, ElsewhereHasSlots
<1>3. CASE Fault /\ End(c) /\ UNCHANGED db
  BY <1>1, <1>3, FailedCalls
<1> QED BY <1>2, <1>3 DEF Mirror

\* The record moves to the place the toggle chose.
LEMMA SaveRecordHasSlots == ASSUME CatInv, SlotInv, NEW c \in Calls, SaveRecord(c) PROVE SlotInv'
<1> DEFINE me == call[c]  s == me.key
           new == [me EXCEPT !.pc = IF me.op = "toggle" THEN "mirrorRow" ELSE "done"]
<1>1. /\ me \in CallRec /\ me.pc = "save" /\ Busy(c) /\ UNCHANGED <<db, log>> /\ s \in Keys
      /\ \/ me.op = "toggle" /\ s \in Songs
         \/ me.op # "toggle" /\ s \notin Songs
  BY KeysAre DEF SaveRecord, At, CatInv, CallOK, Under, Shape, Busy, Records, CallRec
<1>2. CASE pb' = [pb EXCEPT ![s] = Rewritten(@, me)] /\ UNCHANGED faults /\ Turn(c, new)
  <2>0. /\ new.key = s /\ new.op = me.op /\ new.view = me.view /\ new.pc = (IF me.op = "toggle" THEN "mirrorRow" ELSE "done")
        /\ new.alone = me.alone
    BY <1>1 DEF CallRec
  <2> HIDE DEF new
  <2>1. GoesOn(c, new)
    BY <1>1, <1>2, <2>0 DEF GoesOn
  <2>2. \A t \in Songs \ {s} : pb'[t] = pb[t] /\ db'[t] = db[t] /\ log'[t] = log[t]
    BY <1>1, <1>2 DEF CatInv, RowsOK
  <2>3. CASE s \notin Songs
    BY <1>1, <1>2, <2>0, <2>1, <2>2, <2>3, ElsewhereHasSlots
  <2>4. CASE s \in Songs
    <3>1. me.op = "toggle" /\ new.pc = "mirrorRow" /\ new.op = "toggle"
      BY <1>1, <2>0, <2>4
    <3>2. ASSUME Good PROVE PlacesHold' /\ Toggling(new, s, pb'[s], db'[s], log'[s])
      <4>1. Toggling(me, s, pb[s], db[s], log[s])
        BY <1>1, <2>4, <3>1, <3>2, PhaseIs DEF Adding
      <4>2. Exists(me.view) /\ Exists(db[s]) /\ pb[s] = db[s] /\ me.was = pb[s] /\ Says(s, db[s], log[s])
        BY <1>1, <4>1 DEF Toggling
      <4>3. pb'[s] = me.view
        BY <1>1, <1>2, <3>1, <4>2 DEF Rewritten, CatInv, RowsOK
      <4>4. Toggling(new, s, pb'[s], db'[s], log'[s])
        BY <1>1, <2>0, <3>1, <4>2, <4>3 DEF Toggling
      <4>5. PlacesHold /\ Free(me.view, s)
        BY <1>1, <3>1, <3>2 DEF SlotInv, TogglesOK
      <4>6. PlacesHold'
        <5> DEFINE R == Recent(pb) \ {s}
        <5>1. \A t \in Recent(pb') : t = s \/ t \in R
          BY <2>2 DEF Recent
        <5>2. \A t \in R : pb'[t] = pb[t] /\ pb[t].status = "recent" /\ t \in Songs
          BY <2>2 DEF Recent
        <5>3. \A t \in R : Placed(pb[t]) /\ \A u \in R : u # t => Counts(pb[u]) # Counts(pb[t])
          BY <4>5 DEF PlacesHold, Free, Recent
        <5>4. s \in Recent(pb') => Placed(me.view) /\ \A u \in R : Counts(pb[u]) # Counts(me.view)
          BY <4>3, <4>5 DEF Free, Recent
        <5> HIDE DEF R
        <5>5. \A t \in Recent(pb') : Placed(pb'[t]) /\ \A u \in Recent(pb') \ {t} : Counts(pb'[u]) # Counts(pb'[t])
          <6> SUFFICES ASSUME NEW t \in Recent(pb')
                       PROVE  Placed(pb'[t]) /\ \A u \in Recent(pb') : u # t => Counts(pb'[u]) # Counts(pb'[t])
            OBVIOUS
          <6>1. CASE t = s
            BY <4>3, <5>1, <5>2, <5>4, <6>1
          <6>2. CASE t # s
            <7>1. t \in R /\ pb'[t] = pb[t]
              BY <5>1, <5>2, <6>2
            <7> QED BY <4>3, <5>1, <5>2, <5>3, <5>4, <7>1
          <6> QED BY <6>1, <6>2
        <5> QED BY <5>5 DEF PlacesHold, Free
      <4> QED BY <4>4, <4>6
    <3> HIDE DEF me, s
    <3> QED BY <1>1, <1>2, <2>0, <2>1, <2>2, <2>4, <3>1, <3>2, SongStepHasSlots DEF me, s
  <2> QED BY <2>3, <2>4
<1>3. CASE Fault /\ End(c) /\ UNCHANGED pb
  BY <1>1, <1>3, FailedCalls
<1> QED BY <1>2, <1>3 DEF SaveRecord

\* The SQLite row follows the record.
LEMMA MirrorRowHasSlots == ASSUME CatInv, SlotInv, NEW c \in Calls, MirrorRow(c) PROVE SlotInv'
<1> DEFINE me == call[c]  s == me.key
           new == [me EXCEPT !.pc = "load"]
<1>1. /\ me \in CallRec /\ me.pc = "mirrorRow" /\ Busy(c) /\ UNCHANGED <<pb, log>> /\ s \in Songs /\ s \in Keys /\ me.op = "toggle"
  BY KeysAre DEF MirrorRow, At, CatInv, CallOK, Under, Shape, Busy, Records, CallRec
<1>2. CASE db' = [db EXCEPT ![s] = IF Exists(@) THEN me.view ELSE @] /\ UNCHANGED faults /\ Turn(c, new)
  <2>0. new.key = s /\ new.op = "toggle" /\ new.view = me.view /\ new.pc = "load" /\ new.alone = me.alone
    BY <1>1 DEF CallRec
  <2> HIDE DEF new
  <2>1. GoesOn(c, new)
    BY <1>1, <1>2, <2>0 DEF GoesOn
  <2>2. \A t \in Songs \ {s} : pb'[t] = pb[t] /\ db'[t] = db[t] /\ log'[t] = log[t]
    BY <1>1, <1>2, KeysAre DEF CatInv, RowsOK
  <2>3. ASSUME Good PROVE PlacesHold' /\ Toggling(new, s, pb'[s], db'[s], log'[s])
    <3>1. Toggling(me, s, pb[s], db[s], log[s])
      BY <1>1, <2>3, PhaseIs DEF Adding
    <3>2. Exists(me.view) /\ Exists(db[s]) /\ pb[s] = me.view /\ Says(s, db[s], log[s])
      BY <1>1, <3>1 DEF Toggling
    <3>3. db'[s] = me.view
      BY <1>1, <1>2, <3>2 DEF CatInv, RowsOK
    <3>4. Says(s, Folded(s, log[s]), log[s])
      BY <3>2 DEF Says
    <3>5. Toggling(new, s, pb'[s], db'[s], log'[s])
      BY <1>1, <2>0, <3>2, <3>3, <3>4 DEF Toggling
    <3>6. PlacesHold'
      BY <1>1, <2>3, PlacesStay DEF SlotInv
    <3> QED BY <3>5, <3>6
  <2> HIDE DEF me, s
  <2> QED BY <1>1, <1>2, <2>0, <2>1, <2>2, <2>3, SongStepHasSlots DEF me, s
<1>3. CASE Fault /\ End(c) /\ UNCHANGED db
  BY <1>1, <1>3, FailedCalls
<1> QED BY <1>2, <1>3 DEF MirrorRow

\* How a call that goes on keeps what it is.
LEMMA OnwardKeeps ==
  ASSUME NEW me, CallOK(me), me.pc \in Records
  PROVE  /\ Onward(me).op = me.op /\ Onward(me).alone = me.alone /\ Onward(me).pc \in {"save", "load", "done"}
         /\ Onward(me).key = me.key \/ Onward(me).key \notin Songs
         /\ me.key \in Songs /\ me.op = "toggle" => Onward(me).pc = "done" /\ Onward(me).key = me.key
         /\ me.key \in Songs /\ me.op # "toggle" => Onward(me).pc = "load" /\ Onward(me).key \notin Songs
<1>1. me \in CallRec /\ Shape(me) /\ me.todo \in Seq({"album", "artist"})
  BY DEF CallOK, CallRec, Under, Records
<1>2. CASE me.op \in {"artistCount", "artistList"}
  <2>1. me.key \notin Songs
    BY <1>1, <1>2, KeysAre DEF Shape, Records
  <2> QED BY <1>1, <1>2, <2>1 DEF Onward, CallRec
<1>3. CASE me.op \notin {"artistCount", "artistList"} /\ me.todo = << >>
  <2>1. me.key \in Songs => me.op = "toggle"
    BY <1>1, <1>3, KeysAre DEF Shape
  <2> QED BY <1>1, <1>3, <2>1 DEF Onward, CallRec
<1>4. CASE me.op \notin {"artistCount", "artistList"} /\ me.todo # << >>
  <2>1. Head(me.todo) \in {"album", "artist"}
    BY <1>1, <1>4
  <2>2. me.op # "toggle"
    BY <1>1, <1>4 DEF Shape
  <2>3. Onward(me) = [me EXCEPT !.pc = "load", !.key = Head(me.todo), !.todo = Tail(me.todo)]
    BY <1>4 DEF Onward
  <2> QED BY <1>1, <2>1, <2>2, <2>3, KeysAre DEF CallRec
<1> QED BY <1>2, <1>3, <1>4

\* Load finds what the row says, or the song's stream is not there.
LEMMA LoadHasSlots == ASSUME CatInv, SlotInv, NEW c \in Calls, Load(c) PROVE SlotInv'
<1>0. PICK s \in Keys : s = call[c].key
  BY DEF CatInv, CallRec
<1> DEFINE me == call[c]
           new == Loaded(me, log[s])
<1>1. /\ me \in CallRec /\ CallOK(me) /\ me.pc = "load" /\ Busy(c) /\ UNCHANGED <<pb, db, log>> /\ me.key = s /\ Shape(me)
      /\ (s \in Songs => me.op = "toggle")
  BY <1>0, LoadIs, KeysAre DEF CatInv, CallOK, Under, Shape, Busy, Records, CallRec
<1>2. CASE Turn(c, new) /\ UNCHANGED faults
  <2>0. /\ \A ver, seeding, events : LET n == Stores(me, ver, seeding, events)
                                     IN  /\ n.op = me.op /\ n.alone = me.alone /\ n.pc = "append" /\ n.key = s
                                         /\ n.view = me.view /\ n.ver = ver /\ n.seeding = seeding /\ n.events = events
    BY <1>1 DEF CallRec, Stores
  <2>1. /\ Onward(me).op = me.op /\ Onward(me).alone = me.alone /\ Onward(me).pc \in {"save", "load", "done"}
        /\ Onward(me).key = s \/ Onward(me).key \notin Songs
        /\ s \in Songs => Onward(me).pc = "done" /\ Onward(me).key = s
    BY <1>1, OnwardKeeps DEF Records
  <2>2. \/ new = Onward(me)
        \/ \E ver, seeding, events : new = Stores(me, ver, seeding, events)
    BY DEF Loaded
  <2>3. GoesOn(c, new) /\ (new.key = s \/ new.key \notin Songs) /\ (s \in Songs => new.key = s /\ new.pc # "save")
    <3> HIDE DEF new
    <3> QED BY <1>1, <1>2, <2>0, <2>1, <2>2 DEF GoesOn
  <2>4. CASE s \notin Songs
    <3> HIDE DEF new
    <3> QED BY <1>1, <1>2, <2>3, <2>4, ElsewhereHasSlots
  <2>5. CASE s \in Songs
    <3>1. ASSUME Good
          PROVE  /\ PlacesHold'
                 /\ IF new.pc # "done" THEN Toggling(new, s, pb'[s], db'[s], log'[s]) ELSE Settled(s)'
      <4>1. Toggling(me, s, pb[s], db[s], log[s])
        BY <1>1, <2>5, <3>1, PhaseIs DEF Adding
      <4>2. Exists(me.view) /\ Exists(db[s]) /\ pb[s] = me.view /\ db[s] = me.view /\ Says(s, Folded(s, log[s]), log[s])
        BY <1>1, <4>1 DEF Toggling
      <4>3. PlacesHold'
        BY <1>1, <3>1, PlacesStay DEF SlotInv
      <4>4. log[s] # << >>
        BY <4>2 DEF Says
      <4>5. Change(me, Folded(s, log[s])) = NewPlace(Folded(s, log[s]), me.view)
        BY <1>1, <2>5, KeysAre DEF Change
      <4> DEFINE one == <<Event("RecentChanged", me.view)>>
      <4>6. new = IF Folded(s, log[s]) = me.view THEN Onward(me) ELSE Stores(me, Len(log[s]), FALSE, one)
        <5>1. one # << >>
          OBVIOUS
        <5> QED BY <1>1, <4>4, <4>5, <5>1 DEF Loaded, NewPlace
      <4> HIDE DEF new
      <4>7. CASE Folded(s, log[s]) = me.view
        <5>1. Settled(s) /\ new.pc = "done"
          BY <2>1, <2>5, <4>2, <4>6, <4>7 DEF Settled
        <5>2. Settled(s)'
          BY <1>1, <5>1 DEF Settled
        <5> QED BY <4>3, <5>1, <5>2
      <4>8. CASE Folded(s, log[s]) # me.view
        <5>1. new = Stores(me, Len(log[s]), FALSE, one)
          BY <4>6, <4>8
        <5>2. /\ new.op = me.op /\ new.pc = "append" /\ new.view = me.view
              /\ new.ver = Len(log[s]) /\ new.seeding = FALSE /\ new.events = one
          BY <1>1, <5>1 DEF CallRec, Stores
        <5>3. Toggling(new, s, pb[s], db[s], log[s])
          BY <1>1, <2>5, <4>2, <5>2 DEF Toggling
        <5>4. pb' = pb /\ db' = db /\ log' = log
          BY <1>1
        <5> HIDE DEF one, me
        <5> QED BY <4>3, <5>2, <5>3, <5>4
      <4> QED BY <4>7, <4>8
    <3>2. \A t \in Songs \ {s} : pb'[t] = pb[t] /\ db'[t] = db[t] /\ log'[t] = log[t]
      BY <1>1
    <3>3. call[c].key = s
      BY <1>0
    <3> HIDE DEF me, new
    <3> QED BY <1>2, <2>3, <2>5, <3>1, <3>2, <3>3, SongStepHasSlots
  <2> QED BY <2>4, <2>5
<1>3. CASE Fault /\ Drop(c)
  BY <1>1, <1>3, FailedCalls DEF Records
<1> QED BY <1>0, <1>2, <1>3, LoadIs

\* Where a record is dropped or a call ends without a failure, it is one that
\* was not about a song, unless something had failed or run beside a toggle.
LEMMA ConflictHasSlots ==
  ASSUME CatInv, SlotInv, NEW c \in Calls, call[c].pc = "append", Conflict(call[c].key, call[c].ver),
         End(c) \/ Drop(c), UNCHANGED <<db, log, faults>>, \A t \in Songs : pb'[t] = pb[t]
  PROVE  SlotInv'
<1>0. PICK s \in Keys : s = call[c].key
  BY DEF CatInv, CallRec
<1> DEFINE me == call[c]
<1>1. me \in CallRec /\ CallOK(me) /\ Busy(c) /\ me.key = s /\ me.pc \in Records
  BY <1>0 DEF CatInv, Busy, Records
<1>2. PICK new : /\ Turn(c, new) /\ new.op = me.op /\ new.alone = me.alone /\ new.pc \in {"save", "load", "done"}
                 /\ (new.key = s \/ new.key \notin Songs) /\ (s \in Songs => new.pc # "save")
  <2>1. CASE End(c)
    <3>1. LET new == [me EXCEPT !.pc = "done", !.failed = TRUE]
          IN  /\ Turn(c, new) /\ new.op = me.op /\ new.alone = me.alone /\ new.pc = "done" /\ new.key = s
      BY <1>1, <2>1 DEF End, CallRec
    <3> QED BY <3>1
  <2>2. CASE Drop(c)
    <3>1. Onward(me) \in CallRec
      BY <1>1, OnwardIs DEF CallOK
    <3>2. LET new == [Onward(me) EXCEPT !.failed = TRUE]
          IN  /\ Turn(c, new) /\ new.op = Onward(me).op /\ new.alone = Onward(me).alone /\ new.pc = Onward(me).pc
              /\ new.key = Onward(me).key
      BY <2>2, <3>1 DEF Drop, CallRec
    <3>3. /\ Onward(me).op = me.op /\ Onward(me).alone = me.alone /\ Onward(me).pc \in {"save", "load", "done"}
          /\ Onward(me).key = s \/ Onward(me).key \notin Songs
          /\ s \in Songs => Onward(me).pc # "save"
      BY <1>1, OnwardKeeps
    <3> DEFINE new == [Onward(me) EXCEPT !.failed = TRUE]
    <3>4. /\ Turn(c, new) /\ new.op = Onward(me).op /\ new.alone = Onward(me).alone /\ new.pc = Onward(me).pc
          /\ new.key = Onward(me).key
      BY <3>2
    <3> HIDE DEF new, me
    <3> QED BY <3>3, <3>4
  <2> QED BY <2>1, <2>2
<1>3. GoesOn(c, new)
  BY <1>1, <1>2 DEF GoesOn
<1>4. CASE s \notin Songs
  BY <1>0, <1>2, <1>3, <1>4, ElsewhereHasSlots
<1>5. CASE s \in Songs
  <2>1. ~Good
    <3> SUFFICES ASSUME Good PROVE FALSE
      OBVIOUS
    <3>1. Adding(me, s, pb[s], db[s], log[s]) \/ Toggling(me, s, pb[s], db[s], log[s])
      BY <1>1, <1>5, PhaseIs
    <3>2. Len(log[s]) = me.ver
      BY <1>1, <3>1 DEF Adding, Toggling
    <3> QED BY <1>1, <3>2 DEF Conflict
  <2> HIDE DEF me
  <2> QED BY <1>0, <1>2, <1>3, <1>5, <2>1, SongStepHasSlots
<1> QED BY <1>4, <1>5

\* The stream follows the record.
LEMMA StoreHasSlots == ASSUME CatInv, SlotInv, NEW c \in Calls, Store(c) PROVE SlotInv'
<1>0. PICK s \in Keys : s = call[c].key
  BY DEF CatInv, CallRec
<1> DEFINE me == call[c]
           new == [me EXCEPT !.pc = IF me.seeding /\ me.key \in Songs THEN "load" ELSE "project"]
<1>1. me \in CallRec /\ CallOK(me) /\ Busy(c) /\ me.key = s /\ me.pc = "append" /\ UNCHANGED db
  BY <1>0 DEF CatInv, Busy, Store, At
<1>2. CASE Saved(s, me.ver, me.events) /\ Turn(c, new) /\ UNCHANGED <<pb, faults>>
  <2>1. /\ new.op = me.op /\ new.alone = me.alone /\ new.key = s /\ new.view = me.view /\ new.events = me.events
        /\ new.seeding = me.seeding /\ new.ver = me.ver /\ new.pc \in {"load", "project"} /\ (~me.seeding => new.pc = "project")
    BY <1>1 DEF CallRec
  <2> HIDE DEF new
  <2>2. GoesOn(c, new)
    BY <1>1, <1>2, <2>1 DEF GoesOn
  <2>3. log' = [log EXCEPT ![s] = log[s] \o me.events] /\ log \in [Keys -> Seq(Events)]
    BY <1>2 DEF Saved, CatInv
  <2>4. \A t \in Songs \ {s} : pb'[t] = pb[t] /\ db'[t] = db[t] /\ log'[t] = log[t]
    BY <1>1, <1>2, <2>3
  <2>5. CASE s \notin Songs
    BY <1>0, <1>1, <1>2, <2>1, <2>2, <2>4, <2>5, ElsewhereHasSlots
  <2>6. CASE s \in Songs
    <3>1. ASSUME Good
          PROVE  /\ PlacesHold' /\ new.pc = "project"
                 /\ Adding(new, s, pb'[s], db'[s], log'[s]) \/ Toggling(new, s, pb'[s], db'[s], log'[s])
      <4>1. PlacesHold'
        BY <1>2, <3>1, PlacesStay DEF SlotInv
      <4>2. pb'[s] = pb[s] /\ db'[s] = db[s] /\ log'[s] = log[s] \o me.events /\ pb[s] \in Rows /\ log[s] \in Seq(Events)
        BY <1>1, <1>2, <2>3 DEF CatInv, RowsOK
      <4>3. CASE Adding(me, s, pb[s], db[s], log[s])
        <5>1. Exists(pb[s]) /\ me.events = <<Event("Created", pb[s])>> /\ log[s] = << >> /\ db[s] = NoRow /\ ~me.seeding /\ me.op = "song"
          BY <1>1, <4>3 DEF Adding, SongFacts
        <5>2. Says(s, pb[s], <<Event("Created", pb[s])>>) /\ Event("Created", pb[s]) \in Events
          BY <2>6, <4>2, <5>1, SongStreams
        <5>3. << >> \o <<Event("Created", pb[s])>> = <<Event("Created", pb[s])>>
          <6> DEFINE one == <<Event("Created", pb[s])>>
          <6>1. one \in Seq(Events)
            BY <5>2, OneEvent
          <6> HIDE DEF one
          <6>2. << >> \o one = one
            BY <6>1
          <6> QED BY <6>2 DEF one
        <5>4. Adding(new, s, pb[s], db[s], log'[s])
          BY <2>1, <4>2, <5>1, <5>2, <5>3 DEF Adding, SongFacts
        <5> QED BY <2>1, <4>1, <4>2, <5>1, <5>4
      <4>4. CASE Toggling(me, s, pb[s], db[s], log[s])
        <5>1. /\ me.op = "toggle" /\ Exists(me.view) /\ Exists(db[s]) /\ pb[s] = me.view /\ db[s] = me.view
              /\ Says(s, Folded(s, log[s]), log[s]) /\ me.events = <<Event("RecentChanged", me.view)>> /\ ~me.seeding
          BY <1>1, <4>4 DEF Toggling
        <5>2. Says(s, me.view, log[s] \o <<Event("RecentChanged", me.view)>>)
          BY <1>1, <2>6, <4>2, <5>1, SongStreams DEF CallRec
        <5>3. Toggling(new, s, pb[s], db[s], log'[s])
          BY <2>1, <4>2, <5>1, <5>2 DEF Toggling
        <5> QED BY <2>1, <4>1, <4>2, <5>1, <5>3
      <4> QED BY <1>1, <2>6, <3>1, <4>3, <4>4, PhaseIs
    <3> HIDE DEF me
    <3> QED BY <1>0, <1>2, <2>1, <2>2, <2>4, <2>6, <3>1, SongStepHasSlots
  <2> QED BY <2>5, <2>6
<1>3. CASE /\ Conflict(s, me.ver) /\ UNCHANGED <<log, faults>>
           /\ IF me.op = "create" THEN TakenBack(s) /\ End(c) ELSE UNCHANGED pb /\ Drop(c)
  <2>1. \A t \in Songs : pb'[t] = pb[t]
    <3>1. me.op = "create" => s \notin Songs
      BY <1>1 DEF CallOK, Under, Shape
    <3>2. CASE me.op = "create"
      <4>1. pb' = [pb EXCEPT ![s] = NoRow] /\ s \notin Songs
        BY <1>3, <3>1, <3>2 DEF TakenBack
      <4> QED BY <4>1 DEF CatInv, RowsOK
    <3>3. CASE me.op # "create"
      BY <1>3, <3>3
    <3> QED BY <3>2, <3>3
  <2>2. End(c) \/ Drop(c)
    BY <1>3
  <2> QED BY <1>0, <1>1, <1>3, <2>1, <2>2, ConflictHasSlots
<1>4. CASE /\ Fault /\ UNCHANGED log
           /\ IF me.op = "create" THEN (TakenBack(s) \/ UNCHANGED pb) /\ End(c) ELSE UNCHANGED pb /\ Drop(c)
  <2>1. End(c) \/ Drop(c)
    BY <1>4
  <2> QED BY <1>1, <1>4, <2>1, FailedCalls DEF Records
<1> QED BY <1>0, <1>2, <1>3, <1>4 DEF Store

\* The projection writes what the record says.
LEMMA PublishHasSlots == ASSUME CatInv, SlotInv, NEW c \in Calls, Publish(c) PROVE SlotInv'
<1>0. PICK s \in Keys : s = call[c].key
  BY DEF CatInv, CallRec
<1> DEFINE me == call[c]
           new == IF me.seeding THEN [me EXCEPT !.pc = "load"] ELSE Onward(me)
<1>1. me \in CallRec /\ CallOK(me) /\ Busy(c) /\ me.key = s /\ me.pc = "project" /\ UNCHANGED <<pb, log>>
  BY <1>0 DEF CatInv, Busy, Publish, At
<1>2. CASE Project(s, me.events) /\ UNCHANGED faults /\ Turn(c, new)
  <2>1. /\ new.op = me.op /\ new.alone = me.alone /\ new.pc \in {"save", "load", "done"}
        /\ (new.key = s \/ new.key \notin Songs) /\ (s \in Songs => new.pc # "save")
        /\ s \in Songs /\ ~me.seeding => (new.pc = "done" \/ new.key # s)
    <3>1. me.seeding => new.op = me.op /\ new.alone = me.alone /\ new.pc = "load" /\ new.key = s
      BY <1>1 DEF CallRec
    <3>2. ~me.seeding => new = Onward(me)
      OBVIOUS
    <3> HIDE DEF new
    <3>3. /\ Onward(me).op = me.op /\ Onward(me).alone = me.alone /\ Onward(me).pc \in {"save", "load", "done"}
          /\ Onward(me).key = s \/ Onward(me).key \notin Songs
          /\ s \in Songs => Onward(me).pc # "save" /\ (Onward(me).pc = "done" \/ Onward(me).key # s)
      BY <1>1, OnwardKeeps DEF Records
    <3> QED BY <3>1, <3>2, <3>3
  <2> HIDE DEF new
  <2>2. GoesOn(c, new)
    BY <1>1, <1>2, <2>1 DEF GoesOn
  <2>3. db' = [db EXCEPT ![s] = Projected(s, db[s], me.events)] /\ db \in [Keys -> Rows]
    BY <1>2 DEF Project, CatInv, RowsOK
  <2>4. \A t \in Songs \ {s} : pb'[t] = pb[t] /\ db'[t] = db[t] /\ log'[t] = log[t]
    BY <1>1, <1>2, <2>3
  <2>5. CASE s \notin Songs
    BY <1>0, <1>1, <1>2, <2>1, <2>2, <2>4, <2>5, ElsewhereHasSlots
  <2>6. CASE s \in Songs
    <3>1. ASSUME Good PROVE PlacesHold' /\ ~(new.pc # "done" /\ new.key = s) /\ Settled(s)'
      <4>1. PlacesHold'
        BY <1>1, <3>1, PlacesStay DEF SlotInv
      <4>2. pb'[s] = pb[s] /\ db'[s] = Projected(s, db[s], me.events) /\ log'[s] = log[s] /\ pb[s] \in Rows /\ db[s] \in Rows
        BY <1>1, <2>3 DEF CatInv, RowsOK
      <4>3. CASE Adding(me, s, pb[s], db[s], log[s])
        <5>1. /\ Exists(pb[s]) /\ me.events = <<Event("Created", pb[s])>> /\ Says(s, pb[s], log[s])
              /\ db[s] = NoRow /\ ~me.seeding
          BY <1>1, <4>3 DEF Adding, SongFacts
        <5>2. Projected(s, NoRow, <<Event("Created", pb[s])>>) = pb[s]
          BY <2>6, <4>2, <5>1, SongStreams
        <5>3. Settled(s)'
          BY <4>2, <5>1, <5>2 DEF Settled
        <5> QED BY <2>1, <2>6, <4>1, <5>1, <5>3
      <4>4. CASE Toggling(me, s, pb[s], db[s], log[s])
        <5>1. /\ Exists(me.view) /\ Exists(db[s]) /\ pb[s] = me.view /\ db[s] = me.view
              /\ Says(s, me.view, log[s]) /\ me.events = <<Event("RecentChanged", me.view)>> /\ ~me.seeding
          BY <1>1, <4>4 DEF Toggling
        <5>2. Projected(s, db[s], <<Event("RecentChanged", me.view)>>) = me.view
          BY <1>1, <2>6, <4>2, <5>1, SongStreams DEF CallRec
        <5>3. Settled(s)'
          BY <4>2, <5>1, <5>2 DEF Settled
        <5> QED BY <2>1, <2>6, <4>1, <5>1, <5>3
      <4> QED BY <1>1, <2>6, <3>1, <4>3, <4>4, PhaseIs
    <3> HIDE DEF me
    <3> QED BY <1>0, <1>2, <2>1, <2>2, <2>4, <2>6, <3>1, SongStepHasSlots
  <2> QED BY <2>5, <2>6
<1>3. CASE Fault /\ Drop(c)
  BY <1>1, <1>3, FailedCalls DEF Records
<1> QED BY <1>0, <1>2, <1>3 DEF Publish

\* Death is a failure.
LEMMA DieHasSlots == ASSUME CatInv, SlotInv, Die PROVE SlotInv'
<1>1. \A d \in Calls : call'[d].pc = "new" => call'[d].op = "none"
  <2> SUFFICES ASSUME NEW d \in Calls, call'[d].pc = "new" PROVE call'[d].op = "none"
    OBVIOUS
  <2>1. call[d] \in CallRec
    BY DEF CatInv
  <2>2. call'[d] = IF Busy(d) THEN [call[d] EXCEPT !.pc = "done", !.failed = TRUE] ELSE call[d]
    BY DEF Die
  <2>3. CASE Busy(d)
    <3>1. call'[d].pc = "done"
      BY <2>1, <2>2, <2>3 DEF CallRec
    <3> QED BY <3>1
  <2>4. CASE ~Busy(d)
    BY <2>2, <2>4 DEF SlotInv
  <2> QED BY <2>3, <2>4
<1> QED BY <1>1, FailureHasSlots DEF Die

\* A rebuild finds every song as it was, for its stream says so.
LEMMA RebuildHasSlots == ASSUME CatInv, SlotInv, Rebuild PROVE SlotInv'
<1>1. PICK hasJobs \in BOOLEAN : db' = [k \in Keys |-> Projected(k, ResetForReplay(k, hasJobs), log[k])]
  BY DEF Rebuild
<1>2. UNCHANGED <<pb, log, faults, call, origin>> /\ \A c \in Calls : ~Busy(c)
  BY DEF Rebuild, Quiet
<1>3. ASSUME NEW s \in Songs PROVE db'[s] = Projected(s, NoRow, log[s])
  BY <1>1, KeysAre DEF ResetForReplay
<1>4. ASSUME Good PROVE PlacesHold' /\ TogglesOK' /\ \A s \in Songs : SongOK(s)'
  <2>1. PlacesHold'
    BY <1>2, <1>4, PlacesStay DEF SlotInv
  <2>2. TogglesOK'
    BY <1>2 DEF TogglesOK, Busy
  <2>3. ASSUME NEW s \in Songs PROVE SongOK(s)'
    <3>1. InWork(s) = {} /\ InWork(s)' = {} /\ (Absent(s) \/ Settled(s))
      <4>1. InWork(s) = {} /\ InWork(s)' = {}
        BY <1>2 DEF InWork, Busy
      <4> QED BY <1>4, <4>1 DEF SlotInv, SongOK
    <3>2. CASE Absent(s)
      <4>1. Absent(s)'
        BY <1>2, <1>3, <3>2, FoldEmpty DEF Absent, Projected
      <4> QED BY <3>1, <4>1 DEF SongOK
    <3>3. CASE Settled(s)
      <4>1. Settled(s)'
        BY <1>2, <1>3, <3>3 DEF Settled, Says
      <4> QED BY <3>1, <4>1 DEF SongOK
    <3> QED BY <3>1, <3>2, <3>3
  <2> QED BY <2>1, <2>2, <2>3
<1>5. Good' => Good
  BY <1>2 DEF Good
<1> QED BY <1>2, <1>4, <1>5 DEF SlotInv

\* What no step changes.
LEMMA StutterHasSlots == ASSUME SlotInv, UNCHANGED vars PROVE SlotInv'
<1>1. UNCHANGED <<pb, db, log, faults, call, origin>>
  BY DEF vars, stores
<1>2. Good' = Good /\ PlacesHold' = PlacesHold /\ TogglesOK' = TogglesOK
  BY <1>1 DEF Good, PlacesHold, Free, Recent, TogglesOK, Busy
<1>3. \A s \in Songs : SongOK(s)' = SongOK(s)
  BY <1>1 DEF SongOK, InWork, Busy, Absent, Settled
<1> QED BY <1>1, <1>2, <1>3 DEF SlotInv

\* Every step keeps the places.
LEMMA NextHasSlots == ASSUME CatInv, SlotInv, [Next]_vars PROVE SlotInv'
<1>1. ASSUME NEW c \in Calls, Step(c) PROVE SlotInv'
  BY <1>1, CreateBegins, ClickCountBegins, ClickStatusBegins, ArtistClickBegins, PlainHasSlots, SongHasSlots,
     ToggleHasSlots, MirrorHasSlots, SaveRecordHasSlots, MirrorRowHasSlots, LoadHasSlots, StoreHasSlots,
     PublishHasSlots DEF Step
<1> QED BY <1>1, DieHasSlots, RebuildHasSlots, StutterHasSlots DEF Next

\* The rows, the streams and the places are sound in every state.
LEMMA SoundIs == ASSUME CatInv, SlotInv PROVE CatalogIsSound
<1>1. TypeOK
  <2>1. \A k \in Keys : \A row \in {pb[k], db[k]} : row.coll \in Nat /\ row.total \in Nat
    BY DEF CatInv, RowsOK, Rows
  <2>2. ASSUME NEW k \in Keys, log[k] # << >> PROVE log[k][1].type = "Created"
    <3>1. log[k] \in Seq(Events) /\ 1 \in DOMAIN log[k]
      BY <2>2 DEF CatInv
    <3> QED BY <3>1 DEF CatInv, LogOK, Fits
  <2>3. \A c \in Calls : call[c].pc \in Pcs /\ call[c].key \in Keys
    BY DEF CatInv, CallRec
  <2> QED BY <2>1, <2>2, <2>3 DEF TypeOK, CatInv
<1>2. CountsInRange
  BY KeysAre DEF CountsInRange, CatInv, RowsOK, LogOK, Ranged, InRange
<1>3. SlotsAreUnique
  <2> SUFFICES ASSUME Good PROVE \A s, t \in Recent(pb) : s # t => Counts(pb[s]) # Counts(pb[t])
    BY DEF SlotsAreUnique, Good
  <2>1. \A s \in Recent(pb) : pb[s].status = "recent" /\ Free(pb[s], s)
    BY DEF SlotInv, PlacesHold, Recent
  <2> QED BY <2>1 DEF Free
<1> QED BY <1>1, <1>2, <1>3 DEF CatalogIsSound

\* For any songs, calls, typed counts and number of failures, no album has more
\* collected than it has, and, while nothing has failed and no call ran beside a
\* toggle, no two recent songs share a place (nextRecentSlot, handleSongToggle,
\* createCanonicalSong).
THEOREM CatalogStaysSound == Spec => []CatalogIsSound
<1>1. Init => CatInv /\ SlotInv
  BY InitIsSafe, InitHasSlots
<1>2. (CatInv /\ SlotInv) /\ [Next]_vars => (CatInv /\ SlotInv)'
  BY NextIsSafe, NextHasSlots
<1>3. CatInv /\ SlotInv => CatalogIsSound
  BY SoundIs
<1> QED BY <1>1, <1>2, <1>3, PTL DEF Spec

-----------------------------------------------------------------------------
(* A count click that runs undisturbed puts the read model right.          *)

\* An album's count click in each step, once its row has moved.
Clicking(me, row, stream) ==
    /\ Exists(me.view)
    /\ \/ me.pc = "mirror"
       \/ me.pc = "load" /\ row = me.view
       \/ me.pc = "append" /\ row = me.view
          /\ \/ me.seeding /\ me.ver = 0 /\ me.events = <<Event("Created", me.view)>>
             \/ ~me.seeding /\ me.events = <<Event("CountsAdjusted", me.view)>>
       \/ me.pc = "project" /\ row = me.view /\ Counts(Folded("album", stream)) = Counts(me.view)
          /\ me.events = <<Event(IF me.seeding THEN "Created" ELSE "CountsAdjusted", me.view)>>
ClickInv ==
    \A c \in Calls : Busy(c) /\ call[c].alone =>
        /\ \A d \in Calls : Busy(d) => d = c
        /\ call[c].op = "count" /\ ~call[c].failed => Clicking(call[c], db["album"], log["album"])


\* What a replay makes of one more event.
LEMMA OneMore ==
  ASSUME NEW place, NEW key, NEW base, NEW stream \in Seq(Events), NEW e \in Events
  PROVE  Replayed(place, key, base, stream \o <<e>>) = Stepped(place, key, Replayed(place, key, base, stream), e)
<1> DEFINE one == <<e>>
<1>1. one \in Seq(Events)
  BY OneEvent
<1>2. Replayed(place, key, Replayed(place, key, base, stream), one) = Stepped(place, key, Replayed(place, key, base, stream), e)
  BY FoldOne
<1> HIDE DEF one
<1>3. Replayed(place, key, base, stream \o one) = Replayed(place, key, Replayed(place, key, base, stream), one)
  BY <1>1, FoldConcat
<1> QED BY <1>2, <1>3 DEF one

\* What an album's creation and adjustment say.
LEMMA AlbumEvents ==
  ASSUME NEW new \in Rows
  PROVE  /\ Folded("album", <<Event("Created", new)>>) = new
         /\ \A row \in Rows : Exists(row) => Projected("album", row, <<Event("Created", new)>>) = row
         /\ \A row \in Rows : Exists(row) => Projected("album", row, <<Event("CountsAdjusted", new)>>)
                                             = [row EXCEPT !.coll = new.coll, !.total = new.total]
         /\ \A stream \in Seq(Events) : LogOK("album", stream) =>
              Folded("album", stream \o <<Event("CountsAdjusted", new)>>)
                = [Folded("album", stream) EXCEPT !.coll = new.coll, !.total = new.total]
<1> DEFINE one == Event("Created", new)  two == Event("CountsAdjusted", new)
<1>1. one \in Events /\ one.type = "Created" /\ one.row = new /\ two \in Events /\ two.type = "CountsAdjusted" /\ two.row = new
  BY EventIs
<1> HIDE DEF one, two
<1>2. \A row : Stepped("log", "album", row, one) = new
  BY <1>1, KeysAre DEF Stepped, Applied, AlbumApplied
<1>3. \A row \in Rows : Exists(row) => Stepped("db", "album", row, one) = row
  BY <1>1, KeysAre DEF Stepped, Projecting, AlbumProjected, Touches
<1>4. \A row \in Rows : Exists(row) => Stepped("db", "album", row, two) = [row EXCEPT !.coll = new.coll, !.total = new.total]
  BY <1>1, KeysAre DEF Stepped, Projecting, AlbumProjected, Touches, AlbumApplied
<1>5. \A row \in Rows : Stepped("log", "album", row, two) = [row EXCEPT !.coll = new.coll, !.total = new.total]
  BY <1>1, KeysAre DEF Stepped, Applied, AlbumApplied
<1>6. Folded("album", <<one>>) = new
  BY <1>2, FoldOne DEF Folded
<1>7. \A row \in Rows : Exists(row) => Projected("album", row, <<one>>) = row
  BY <1>3, FoldOne DEF Projected
<1>8. \A row \in Rows : Exists(row) => Projected("album", row, <<two>>) = [row EXCEPT !.coll = new.coll, !.total = new.total]
  <2> SUFFICES ASSUME NEW row \in Rows, Exists(row)
               PROVE  Projected("album", row, <<two>>) = [row EXCEPT !.coll = new.coll, !.total = new.total]
    OBVIOUS
  <2>1. Projected("album", row, <<two>>) = Stepped("db", "album", row, two)
    BY FoldOne DEF Projected
  <2> QED BY <1>4, <2>1
<1>9. ASSUME NEW stream \in Seq(Events), LogOK("album", stream)
      PROVE  Folded("album", stream \o <<two>>) = [Folded("album", stream) EXCEPT !.coll = new.coll, !.total = new.total]
  <2>1. Folded("album", stream) \in Rows
    BY <1>9, ReplayedIs, RowIs, KeysAre DEF Folded, LogOK, Fits
  <2> HIDE DEF one, two
  <2>2. Folded("album", stream \o <<two>>) = Stepped("log", "album", Folded("album", stream), two)
    BY <1>1, OneMore DEF Folded
  <2> QED BY <1>5, <2>1, <2>2
<1> QED BY <1>6, <1>7, <1>8, <1>9 DEF one, two

\* The rows of an album keep their counts when they get the counts they have.
LEMMA CountsAre ==
  ASSUME NEW row \in Rows, NEW new \in Rows
  PROVE  Counts([row EXCEPT !.coll = new.coll, !.total = new.total]) = Counts(new)
BY DEF Counts, Rows

\* The end of a count click.
Heals ==
    \A c \in Calls :
        call[c].pc # "done" /\ call'[c].pc = "done" /\ call'[c].op = "count" /\ call'[c].alone /\ ~call'[c].failed
           => Counts(db'["album"]) = Counts(Folded("album", log'["album"]))

\* A call that begins.
LEMMA BeginHeals ==
  ASSUME CatInv, ClickInv, NEW c \in Calls, NEW op \in OpNames, NEW first \in CallRec, Begin(c, op, first),
         first.pc \notin {"new", "done"}, op = "count" => first.pc = "mirror" /\ Exists(first.view)
  PROVE  ClickInv' /\ Heals
<1> DEFINE beside == {d \in Calls : Busy(d)}
           b  == (beside = {})
           me == [first EXCEPT !.op = op, !.alone = b]
<1>1. call' = [d \in Calls |-> IF d = c THEN me
                               ELSE IF d \in beside THEN [call[d] EXCEPT !.alone = FALSE] ELSE call[d]]
  BY DEF Begin
<1>2. me.pc = first.pc /\ me.op = op /\ me.alone = b /\ me.view = first.view
  BY DEF CallRec
<1>3. \A d \in Calls : LET you == [call[d] EXCEPT !.alone = FALSE]
                       IN  you.pc = call[d].pc /\ you.op = call[d].op /\ ~you.alone
  BY DEF CatInv, CallRec
<1> HIDE DEF me
<1>4. \A d \in Calls \ {c} : /\ call'[d].pc = call[d].pc /\ call'[d].op = call[d].op
                             /\ (Busy(d) => ~call'[d].alone)
  <2> SUFFICES ASSUME NEW d \in Calls \ {c}
               PROVE  call'[d].pc = call[d].pc /\ call'[d].op = call[d].op /\ (Busy(d) => ~call'[d].alone)
    OBVIOUS
  <2>1. call'[d] = IF d \in beside THEN [call[d] EXCEPT !.alone = FALSE] ELSE call[d]
    BY <1>1
  <2> QED BY <1>3, <2>1
<1>5. call'[c] = me
  BY <1>1
<1>6. ASSUME NEW d \in Calls, Busy(d)', call'[d].alone PROVE d = c /\ \A e \in Calls : Busy(e)' => e = c
  <2>1. d = c
    BY <1>4, <1>6 DEF Busy
  <2>2. beside = {}
    BY <1>2, <1>5, <1>6, <2>1
  <2> QED BY <1>4, <2>1, <2>2 DEF Busy
<1>7. op = "count" => Clicking(me, db'["album"], log'["album"])
  BY <1>2 DEF Clicking
<1>8. ClickInv'
  BY <1>2, <1>5, <1>6, <1>7 DEF ClickInv
<1>9. Heals
  BY <1>2, <1>4, <1>5 DEF Heals
<1> QED BY <1>8, <1>9

\* A call that goes on, if the click it may be goes on well.
LEMMA GoesOnHeals ==
  ASSUME CatInv, ClickInv, NEW c \in Calls, NEW new, GoesOn(c, new), ~new.failed => ~call[c].failed,
         new.op = "count" /\ new.alone /\ ~new.failed /\ Clicking(call[c], db["album"], log["album"]) =>
             IF new.pc # "done" THEN Clicking(new, db'["album"], log'["album"])
             ELSE Counts(db'["album"]) = Counts(Folded("album", log'["album"]))
  PROVE  ClickInv' /\ Heals
<1>1. call'[c] = new /\ (\A d \in Calls \ {c} : call'[d] = call[d]) /\ Busy(c) /\ new.op = call[c].op /\ new.alone = call[c].alone
  BY DEF GoesOn, Turn, CatInv
<1>2. ASSUME NEW d \in Calls, Busy(d)', call'[d].alone
      PROVE  d = c /\ \A e \in Calls : Busy(e)' => e = c
  <2>1. Busy(d) /\ call[d].alone
    BY <1>1, <1>2 DEF Busy
  <2>2. d = c
    BY <1>1, <2>1 DEF ClickInv
  <2>3. \A e \in Calls : Busy(e)' => Busy(e)
    BY <1>1 DEF Busy
  <2> QED BY <2>1, <2>2, <2>3 DEF ClickInv
<1>3. new.op = "count" /\ new.alone /\ ~new.failed => Clicking(call[c], db["album"], log["album"])
  BY <1>1 DEF ClickInv
<1>4. ClickInv'
  <2>1. ASSUME NEW d \in Calls, Busy(d)', call'[d].alone, call'[d].op = "count", ~call'[d].failed
        PROVE  Clicking(call'[d], db'["album"], log'["album"])
    <3>1. d = c /\ new.pc # "done"
      BY <1>1, <1>2, <2>1 DEF Busy
    <3> QED BY <1>1, <1>3, <2>1, <3>1
  <2> QED BY <1>2, <2>1 DEF ClickInv
<1>5. Heals
  BY <1>1, <1>3 DEF Heals
<1> QED BY <1>4, <1>5

\* Calls of other kinds, and calls that fail.
LEMMA OthersHeal ==
  ASSUME CatInv, ClickInv, NEW c \in Calls, NEW new, GoesOn(c, new), ~new.failed => ~call[c].failed,
         new.op # "count" \/ new.failed
  PROVE  ClickInv' /\ Heals
BY GoesOnHeals

\* Calls that fail.
LEMMA FailuresHeal ==
  ASSUME CatInv, ClickInv, NEW c \in Calls, Busy(c), End(c) \/ (Drop(c) /\ call[c].pc \in Records) PROVE ClickInv' /\ Heals
<1>1. call[c] \in CallRec /\ CallOK(call[c])
  BY DEF CatInv
<1>2. CASE End(c)
  <2> DEFINE new == [call[c] EXCEPT !.pc = "done", !.failed = TRUE]
  <2>1. GoesOn(c, new) /\ new.failed
    BY <1>1, <1>2 DEF CallRec, End, GoesOn
  <2> HIDE DEF new
  <2> QED BY <2>1, OthersHeal
<1>3. CASE Drop(c) /\ call[c].pc \in Records
  <2> DEFINE new == [Onward(call[c]) EXCEPT !.failed = TRUE]
  <2>0. Onward(call[c]) \in CallRec
    BY <1>1, <1>3, OnwardIs DEF CallOK
  <2>1. new.failed /\ new.pc = Onward(call[c]).pc /\ new.op = Onward(call[c]).op /\ new.alone = Onward(call[c]).alone
    BY <2>0 DEF CallRec
  <2>2. Onward(call[c]).op = call[c].op /\ Onward(call[c]).alone = call[c].alone /\ Onward(call[c]).pc # "new"
    BY <1>1, <1>3, OnwardKeeps
  <2>3. Turn(c, new)
    BY <1>3 DEF Drop
  <2> HIDE DEF new
  <2>4. GoesOn(c, new)
    BY <2>1, <2>2, <2>3 DEF GoesOn
  <2> QED BY <2>1, <2>4, OthersHeal
<1> QED BY <1>2, <1>3

\* The UPDATE of a click gives the row its counts.
LEMMA MirrorHeals == ASSUME CatInv, ClickInv, NEW c \in Calls, Mirror(c) PROVE ClickInv' /\ Heals
<1> DEFINE me == call[c]
           row == IF me.op = "count" THEN CountMirrored(db["album"], me) ELSE StatusMirrored(db["album"], me)
           new == [me EXCEPT !.view = row, !.pc = IF Moved(me) THEN "load" ELSE "done"]
<1>1. me \in CallRec /\ CallOK(me) /\ me.pc = "mirror" /\ Busy(c) /\ UNCHANGED <<pb, log>>
  BY DEF Mirror, At, CatInv, Busy
<1>2. CASE db' = [db EXCEPT !["album"] = row] /\ UNCHANGED faults /\ Turn(c, new)
  <2>1. /\ new.op = me.op /\ new.alone = me.alone /\ new.failed = me.failed /\ new.view = row
        /\ new.pc = (IF Moved(me) THEN "load" ELSE "done")
    BY <1>1 DEF CallRec
  <2> HIDE DEF new
  <2>2. GoesOn(c, new)
    BY <1>1, <1>2, <2>1 DEF GoesOn
  <2>3. ASSUME new.op = "count", Clicking(me, db["album"], log["album"])
        PROVE  new.pc # "done" /\ Clicking(new, db'["album"], log'["album"])
    <3>1. Exists(me.view) /\ me.op = "count"
      BY <2>1, <2>3 DEF Clicking
    <3>2. Exists(row)
      <4>1. db["album"] \in Rows /\ me.click[1] \in {"coll", "total"} /\ me.click[2] \in Int
        BY <1>1, KeysAre DEF CatInv, RowsOK, CallRec
      <4>2. row = CountMirrored(db["album"], me)
        BY <3>1
      <4> QED BY <3>1, <4>1, <4>2, CountedIs DEF CountMirrored, Exists
    <3>3. db'["album"] = row
      BY <1>2, KeysAre DEF CatInv, RowsOK
    <3> HIDE DEF row
    <3> QED BY <2>1, <3>1, <3>2, <3>3 DEF Moved, Clicking
  <2> QED BY <2>1, <2>2, <2>3, GoesOnHeals
<1>3. CASE Fault /\ End(c) /\ UNCHANGED db
  BY <1>1, <1>3, FailuresHeal
<1> QED BY <1>2, <1>3 DEF Mirror

\* Toggles are no clicks.
LEMMA RecordHeals ==
  ASSUME CatInv, ClickInv, NEW c \in Calls, SaveRecord(c) \/ MirrorRow(c) PROVE ClickInv' /\ Heals
<1> DEFINE me == call[c]
<1>1. me \in CallRec /\ CallOK(me) /\ Busy(c) /\ me.op # "count"
  BY DEF SaveRecord, MirrorRow, At, CatInv, Busy, CallOK, Under, Shape, Records
<1>2. ASSUME NEW pc \in {"mirrorRow", "done", "load"}, Turn(c, [me EXCEPT !.pc = pc]) PROVE ClickInv' /\ Heals
  <2> DEFINE new == [me EXCEPT !.pc = pc]
  <2>1. GoesOn(c, new) /\ new.op # "count" /\ new.failed = me.failed
    BY <1>1, <1>2 DEF CallRec, GoesOn
  <2> HIDE DEF new
  <2> QED BY <2>1, OthersHeal
<1>3. ASSUME End(c) PROVE ClickInv' /\ Heals
  BY <1>1, <1>3, FailuresHeal
<1>4. CASE SaveRecord(c)
  <2>1. Turn(c, [me EXCEPT !.pc = "mirrorRow"]) \/ Turn(c, [me EXCEPT !.pc = "done"]) \/ End(c)
    BY <1>4 DEF SaveRecord
  <2> QED BY <1>2, <1>3, <2>1
<1>5. CASE MirrorRow(c)
  <2>1. Turn(c, [me EXCEPT !.pc = "load"]) \/ End(c)
    BY <1>5 DEF MirrorRow
  <2> QED BY <1>2, <1>3, <2>1
<1> QED BY <1>4, <1>5

\* Load keeps the row; a click that finds no stream seeds it with the row.
LEMMA LoadHeals == ASSUME CatInv, ClickInv, NEW c \in Calls, Load(c) PROVE ClickInv' /\ Heals
<1> DEFINE me == call[c]
           new == Loaded(me, log[me.key])
<1>1. me \in CallRec /\ CallOK(me) /\ me.pc = "load" /\ Busy(c) /\ UNCHANGED <<pb, db, log>> /\ Shape(me)
  BY LoadIs DEF CatInv, CallOK, Under, Busy
<1>2. CASE Turn(c, new) /\ UNCHANGED faults
  <2>0. \A ver, seeding, events :
          /\ Stores(me, ver, seeding, events).op = me.op /\ Stores(me, ver, seeding, events).alone = me.alone
          /\ Stores(me, ver, seeding, events).pc = "append" /\ Stores(me, ver, seeding, events).failed = me.failed
          /\ Stores(me, ver, seeding, events).view = me.view /\ Stores(me, ver, seeding, events).ver = ver
          /\ Stores(me, ver, seeding, events).seeding = seeding /\ Stores(me, ver, seeding, events).events = events
    BY <1>1 DEF CallRec, Stores
  <2>1. /\ Onward(me).op = me.op /\ Onward(me).alone = me.alone /\ Onward(me).pc \in {"save", "load", "done"}
        /\ Onward(me).failed = me.failed /\ (me.op = "count" => Onward(me).pc = "done")
    <3>1. Onward(me).op = me.op /\ Onward(me).alone = me.alone /\ Onward(me).pc \in {"save", "load", "done"}
      BY <1>1, OnwardKeeps DEF Records
    <3>2. Onward(me).failed = me.failed
      BY <1>1 DEF Onward, CallRec
    <3>3. me.op = "count" => me.todo = << >>
      BY <1>1 DEF Shape
    <3>4. me.op = "count" => Onward(me).pc = "done"
      BY <1>1, <3>3 DEF Onward, CallRec
    <3> QED BY <3>1, <3>2, <3>4
  <2>2. \/ new = Onward(me)
        \/ \E ver, seeding, events : new = Stores(me, ver, seeding, events)
    BY DEF Loaded
  <2>3. GoesOn(c, new) /\ new.failed = me.failed
    <3> HIDE DEF new
    <3> QED BY <1>1, <1>2, <2>0, <2>1, <2>2 DEF GoesOn
  <2>4. CASE me.op # "count"
    <3> HIDE DEF new
    <3> QED BY <2>3, <2>4, OthersHeal DEF GoesOn
  <2>5. CASE me.op = "count"
    <3> DEFINE agg == Folded("album", log["album"])  one == <<Event("CountsAdjusted", me.view)>>
    <3>1. me.key = "album"
      BY <1>1, <2>5, KeysAre DEF Shape
    <3>2. Seed(me) = me.view /\ Change(me, agg) = IF Counts(agg) = Counts(me.view) THEN << >> ELSE one
      BY <2>5, <3>1 DEF Seed, AlbumSeed, Change, AlbumChange, NewCounts
    <3>3. one # << >>
      OBVIOUS
    <3>4. new = IF log["album"] = << >> THEN Stores(me, 0, TRUE, <<Event("Created", me.view)>>)
                ELSE IF Counts(agg) = Counts(me.view) THEN Onward(me) ELSE Stores(me, Len(log["album"]), FALSE, one)
      BY <2>5, <3>1, <3>2, <3>3 DEF Loaded
    <3> HIDE DEF new
    <3>5. ASSUME Clicking(me, db["album"], log["album"])
          PROVE  IF new.pc # "done" THEN Clicking(new, db'["album"], log'["album"])
                 ELSE Counts(db'["album"]) = Counts(Folded("album", log'["album"]))
      <4>1. Exists(me.view) /\ db["album"] = me.view
        BY <1>1, <3>5 DEF Clicking
      <4>2. db' = db /\ log' = log
        BY <1>1
      <4>3. CASE log["album"] = << >>
        <5>1. new = Stores(me, 0, TRUE, <<Event("Created", me.view)>>)
          BY <3>4, <4>3
        <5>2. new.pc = "append" /\ new.view = me.view /\ new.ver = 0 /\ new.seeding /\ new.events = <<Event("Created", me.view)>>
          BY <1>1, <5>1 DEF CallRec, Stores
        <5> QED BY <4>1, <4>2, <5>2 DEF Clicking
      <4>4. CASE log["album"] # << >> /\ Counts(agg) = Counts(me.view)
        BY <2>1, <2>5, <3>4, <4>1, <4>2, <4>4
      <4>5. CASE log["album"] # << >> /\ Counts(agg) # Counts(me.view)
        <5>1. new = Stores(me, Len(log["album"]), FALSE, one)
          BY <3>4, <4>5
        <5>2. new.pc = "append" /\ new.view = me.view /\ new.seeding = FALSE /\ new.events = one
          BY <1>1, <5>1 DEF CallRec, Stores
        <5> QED BY <4>1, <4>2, <5>2 DEF Clicking
      <4> QED BY <4>3, <4>4, <4>5
    <3> HIDE DEF me
    <3> QED BY <2>3, <3>5, GoesOnHeals DEF me
  <2> QED BY <2>4, <2>5
<1>3. CASE Fault /\ Drop(c)
  BY <1>1, <1>3, FailuresHeal DEF Records
<1> QED BY <1>2, <1>3, LoadIs

\* The stream gets the counts of the row.
LEMMA StoreHeals == ASSUME CatInv, ClickInv, NEW c \in Calls, Store(c) PROVE ClickInv' /\ Heals
<1> DEFINE me == call[c]
           new == [me EXCEPT !.pc = IF me.seeding /\ me.key \in Songs THEN "load" ELSE "project"]
<1>1. me \in CallRec /\ CallOK(me) /\ Busy(c) /\ me.pc = "append" /\ UNCHANGED db /\ Shape(me)
  BY DEF CatInv, Busy, Store, At, CallOK, Under
<1>2. CASE Saved(me.key, me.ver, me.events) /\ Turn(c, new) /\ UNCHANGED <<pb, faults>>
  <2>1. /\ new.op = me.op /\ new.alone = me.alone /\ new.failed = me.failed /\ new.view = me.view /\ new.events = me.events
        /\ new.seeding = me.seeding /\ new.pc \in {"load", "project"} /\ (me.key \notin Songs => new.pc = "project")
    BY <1>1 DEF CallRec
  <2> HIDE DEF new
  <2>2. GoesOn(c, new)
    BY <1>1, <1>2, <2>1 DEF GoesOn
  <2>3. ASSUME new.op = "count", Clicking(me, db["album"], log["album"])
        PROVE  new.pc # "done" /\ Clicking(new, db'["album"], log'["album"])
    <3>1. me.key = "album" /\ "album" \in Keys /\ "album" \notin Songs
      BY <1>1, <2>1, <2>3, KeysAre DEF Shape
    <3>2. /\ Exists(me.view) /\ db["album"] = me.view /\ me.view \in Rows
          /\ \/ me.seeding /\ me.ver = 0 /\ me.events = <<Event("Created", me.view)>>
             \/ ~me.seeding /\ me.events = <<Event("CountsAdjusted", me.view)>>
      BY <1>1, <2>3 DEF Clicking, CallRec
    <3>3. /\ log'["album"] = log["album"] \o me.events /\ Len(log["album"]) = me.ver
          /\ log["album"] \in Seq(Events) /\ LogOK("album", log["album"])
      BY <1>2, <3>1 DEF Saved, CatInv
    <3>4. Counts(Folded("album", log'["album"])) = Counts(me.view)
      <4>1. CASE me.seeding
        <5> DEFINE one == <<Event("Created", me.view)>>
        <5>1. log["album"] = << >> /\ me.events = one
          BY <3>2, <3>3, <4>1
        <5>2. one \in Seq(Events)
          BY <3>2, EventIs, OneEvent
        <5> HIDE DEF one
        <5>3. << >> \o one = one
          BY <5>2
        <5>4. log'["album"] = one
          BY <3>3, <5>1, <5>3
        <5> QED BY <3>2, <5>4, AlbumEvents DEF one
      <4>2. CASE ~me.seeding
        <5>1. log'["album"] = log["album"] \o <<Event("CountsAdjusted", me.view)>>
          BY <3>2, <3>3, <4>2
        <5>2. Folded("album", log["album"]) \in Rows
          BY <3>3, ReplayedIs, RowIs, KeysAre DEF Folded, LogOK, Fits
        <5>3. Folded("album", log'["album"]) = [Folded("album", log["album"]) EXCEPT !.coll = me.view.coll, !.total = me.view.total]
          BY <3>2, <3>3, <5>1, AlbumEvents
        <5> DEFINE said == Folded("album", log["album"])
        <5>4. Counts([said EXCEPT !.coll = me.view.coll, !.total = me.view.total]) = Counts(me.view)
          BY <3>2, <5>2, CountsAre
        <5> QED BY <5>3, <5>4
      <4> QED BY <4>1, <4>2
    <3>5. db'["album"] = me.view
      BY <1>1, <3>2
    <3> QED BY <2>1, <3>1, <3>2, <3>4, <3>5 DEF Clicking
  <2> QED BY <2>1, <2>2, <2>3, GoesOnHeals
<1>3. ASSUME End(c) \/ Drop(c) PROVE ClickInv' /\ Heals
  BY <1>1, <1>3, FailuresHeal DEF Records
<1>4. (Saved(me.key, me.ver, me.events) /\ Turn(c, new) /\ UNCHANGED <<pb, faults>>) \/ End(c) \/ Drop(c)
  BY DEF Store
<1> QED BY <1>2, <1>3, <1>4

\* The projection keeps the counts of the row.
LEMMA PublishHeals == ASSUME CatInv, ClickInv, NEW c \in Calls, Publish(c) PROVE ClickInv' /\ Heals
<1> DEFINE me == call[c]
           new == IF me.seeding THEN [me EXCEPT !.pc = "load"] ELSE Onward(me)
<1>1. me \in CallRec /\ CallOK(me) /\ Busy(c) /\ me.pc = "project" /\ UNCHANGED <<pb, log>> /\ Shape(me)
  BY DEF CatInv, Busy, Publish, At, CallOK, Under
<1>2. CASE Project(me.key, me.events) /\ UNCHANGED faults /\ Turn(c, new)
  <2>1. /\ new.op = me.op /\ new.alone = me.alone /\ new.failed = me.failed /\ new.pc # "new"
        /\ me.op = "count" => IF me.seeding THEN new.pc = "load" /\ new.view = me.view ELSE new.pc = "done"
    <3>1. Onward(me).op = me.op /\ Onward(me).alone = me.alone /\ Onward(me).pc \in {"save", "load", "done"}
      BY <1>1, OnwardKeeps DEF Records
    <3>2. Onward(me).failed = me.failed
      BY <1>1 DEF Onward, CallRec
    <3>3. me.op = "count" => me.todo = << >>
      BY <1>1 DEF Shape
    <3>4. me.op = "count" => Onward(me).pc = "done"
      BY <1>1, <3>3 DEF Onward, CallRec
    <3>5. LET n == [me EXCEPT !.pc = "load"]
          IN  n.op = me.op /\ n.alone = me.alone /\ n.failed = me.failed /\ n.pc = "load" /\ n.view = me.view
      BY <1>1 DEF CallRec
    <3> QED BY <3>1, <3>2, <3>4, <3>5
  <2> HIDE DEF new
  <2>2. GoesOn(c, new)
    BY <1>1, <1>2, <2>1 DEF GoesOn
  <2>3. ASSUME new.op = "count", Clicking(me, db["album"], log["album"])
        PROVE  IF new.pc # "done" THEN Clicking(new, db'["album"], log'["album"])
               ELSE Counts(db'["album"]) = Counts(Folded("album", log'["album"]))
    <3>1. me.key = "album" /\ me.op = "count" /\ "album" \in Keys
      BY <1>1, <2>1, <2>3, KeysAre DEF Shape
    <3>2. /\ Exists(me.view) /\ db["album"] = me.view /\ me.view \in Rows
          /\ Counts(Folded("album", log["album"])) = Counts(me.view)
          /\ me.events = <<Event(IF me.seeding THEN "Created" ELSE "CountsAdjusted", me.view)>>
      BY <1>1, <2>3 DEF Clicking, CallRec
    <3>3. db'["album"] = Projected("album", me.view, me.events) /\ log' = log
      BY <1>1, <1>2, <3>1, <3>2 DEF Project, CatInv, RowsOK
    <3>4. CASE me.seeding
      <4>1. db'["album"] = me.view
        BY <3>2, <3>3, <3>4, AlbumEvents
      <4> QED BY <2>1, <3>1, <3>2, <3>4, <4>1 DEF Clicking
    <3>5. CASE ~me.seeding
      <4>1. Projected("album", me.view, <<Event("CountsAdjusted", me.view)>>) = [me.view EXCEPT !.coll = me.view.coll, !.total = me.view.total]
        BY <3>2, AlbumEvents
      <4>2. Counts(db'["album"]) = Counts(me.view)
        <5>1. Counts([me.view EXCEPT !.coll = me.view.coll, !.total = me.view.total]) = Counts(me.view)
          BY <3>2, CountsAre
        <5>2. db'["album"] = [me.view EXCEPT !.coll = me.view.coll, !.total = me.view.total]
          BY <3>2, <3>3, <3>5, <4>1
        <5> QED BY <5>1, <5>2
      <4> QED BY <2>1, <3>1, <3>2, <3>3, <3>5, <4>2
    <3> QED BY <3>4, <3>5
  <2> QED BY <2>1, <2>2, <2>3, GoesOnHeals
<1>3. CASE Fault /\ Drop(c) /\ UNCHANGED db
  BY <1>1, <1>3, FailuresHeal DEF Records
<1> QED BY <1>2, <1>3 DEF Publish

\* A click begins at its UPDATE; no other call runs alone beside it.
LEMMA BeginningsHeal ==
  ASSUME CatInv, ClickInv, NEW c \in Calls, PlainBegun(c) \/ CreateSong(c) \/ Toggle(c) PROVE ClickInv' /\ Heals
<1>1. CASE PlainBegun(c)
  <2>1. PICK op \in OpNames \ {"toggle", "none"}, first \in CallRec :
           /\ Begin(c, op, first) /\ first.pc # "new" /\ Opening(op, first)
           /\ CallOK([first EXCEPT !.op = op, !.alone = TRUE])
    BY <1>1 DEF PlainBegun
  <2>2. op \in {"create", "count", "status", "artistCount", "artistList"}
    BY <2>1 DEF Opening, OpNames
  <2>3. first.pc \in {"append", "mirror", "load"} /\ (op = "count" => first.pc = "mirror" /\ Exists(first.view))
    BY <2>1, <2>2 DEF Opening
  <2>4. op \in OpNames
    OBVIOUS
  <2> QED BY <2>1, <2>3, <2>4, BeginHeals
<1>2. CASE CreateSong(c)
  <2>1. PICK s \in Songs, place \in Rows, album \in Rows, artist \in Rows : SongBegun(c, s, place, album, artist)
    BY <1>2, SongBegins
  <2> DEFINE first == SongFirst(s, place, album, artist)
  <2>2. first \in CallRec /\ Begin(c, "song", first)
    BY <2>1 DEF SongBegun
  <2>3. first.pc = "append" /\ "song" \in OpNames
    BY DEF SongFirst, Waiting, OpNames
  <2> HIDE DEF first
  <2> QED BY <2>2, <2>3, BeginHeals
<1>3. CASE Toggle(c)
  <2>1. PICK s \in Songs, view \in Rows :
           LET first == [Waiting EXCEPT !.pc = "save", !.key = s, !.was = pb[s], !.view = view]
           IN  first \in CallRec /\ Begin(c, "toggle", first)
    BY <1>3, ToggleBegins
  <2> DEFINE first == [Waiting EXCEPT !.pc = "save", !.key = s, !.was = pb[s], !.view = view]
  <2>2. first \in CallRec /\ Begin(c, "toggle", first)
    BY <2>1
  <2>3. first.pc = "save" /\ "toggle" \in OpNames
    BY DEF Waiting, OpNames
  <2> HIDE DEF first
  <2> QED BY <2>2, <2>3, BeginHeals
<1> QED BY <1>1, <1>2, <1>3

\* Every step keeps a click on its way and ends it well.
LEMMA NextHeals == ASSUME CatInv, ClickInv, [Next]_vars PROVE ClickInv' /\ Heals
<1>1. ASSUME NEW c \in Calls, Step(c) PROVE ClickInv' /\ Heals
  BY <1>1, CreateBegins, ClickCountBegins, ClickStatusBegins, ArtistClickBegins, BeginningsHeal, MirrorHeals,
     RecordHeals, LoadHeals, StoreHeals, PublishHeals DEF Step
<1>2. CASE Die
  <2>1. \A c \in Calls : call'[c] = IF Busy(c) THEN [call[c] EXCEPT !.pc = "done", !.failed = TRUE] ELSE call[c]
    BY <1>2 DEF Die
  <2>2. \A c \in Calls : Busy(c) => call'[c].pc = "done" /\ call'[c].failed
    BY <2>1 DEF CatInv, CallRec
  <2>3. \A c \in Calls : ~Busy(c)'
    BY <2>1, <2>2 DEF Busy
  <2> QED BY <2>1, <2>2, <2>3 DEF ClickInv, Heals
<1>3. ASSUME call' = call, (db' = db /\ log' = log) \/ \A c \in Calls : ~Busy(c) PROVE ClickInv' /\ Heals
  BY <1>3 DEF ClickInv, Heals, Busy
<1>4. CASE Rebuild
  BY <1>3, <1>4 DEF Rebuild, Quiet
<1>5. CASE UNCHANGED vars
  BY <1>3, <1>5 DEF vars, stores
<1> QED BY <1>1, <1>2, <1>4, <1>5 DEF Next

\* An album's count click that ran alone and did not fail leaves the read model and
\* the album's stream with the same counts, however far apart crashes, failed
\* projections or calls side by side had left them (handleAlbumClick).
THEOREM ClicksHeal == Spec => HealsOnClick
<1>1. Init => CatInv /\ ClickInv
  <2>1. Init => ClickInv
    BY DEF Init, ClickInv, Busy, Waiting
  <2> QED BY <2>1, InitIsSafe
<1>2. (CatInv /\ ClickInv) /\ [Next]_vars => (CatInv /\ ClickInv)'
  BY NextIsSafe, NextHeals
<1>3. (CatInv /\ ClickInv) /\ [Next]_vars => [Heals]_vars
  BY NextHeals
<1>4. HealsOnClick <=> [][Heals]_vars
  BY DEF HealsOnClick, Heals
<1> QED BY <1>1, <1>2, <1>3, <1>4, PTL DEF Spec

-----------------------------------------------------------------------------
(* The three places agree after calls that were alone.                     *)

\* Nothing has failed and no two calls have overlapped.
Calm == /\ \A c \in Calls : call[c].pc # "new" => call[c].alone
        /\ faults = 0 /\ ~Streamless
Ancient == origin \in {"pb", "pb+db"}
Sides   == {"album", "artist"}

\* A stream replayed over an artist's row that is there already (ResetForReplay
\* keeps it) changes nothing of what the row says.
Steady(stream) ==
    \A row \in Rows : Exists(row) =>
        LET new == Projected("artist", row, stream)
            said == Folded("artist", stream)
        IN  /\ Exists(new) /\ new \in Rows
            /\ Counts(row) = Counts(said) => Counts(new) = Counts(said)
            /\ row.status = said.status => new.status = said.status
Tells(k, row, stream) == Says(k, row, stream) /\ (k = "artist" => Steady(stream))

\* A row that no call is at work on.
Kept(k, record, row, stream) ==
    IF stream = << >>
    THEN row \in {NoRow, record} /\ (record = NoRow \/ (k = "album" /\ Ancient /\ Exists(record)))
    ELSE row = record /\ Tells(k, record, stream)

\* The album and the artist a call is at work on, or has still to come to.
Held(me) == IF me.op = "song" /\ me.key # "artist" THEN Sides ELSE {me.key} \ Songs
Goal(me, k) == IF k = "album" THEN me.view ELSE me.credit

\* A row a song has changed, before its stream has been told.
Due(k, new, row, stream) ==
    /\ Exists(new)
    /\ \/ stream = << >> /\ row = NoRow /\ (k = "artist" => new.total = 0)
       \/ Tells(k, row, stream) /\ row.status = new.status /\ (k = "artist" => row.total = new.total)

\* The event a change is told by, and a row that it turns into the new one.
Type(me)             == IF me.op \in {"status", "artistList"} THEN "StatusChanged" ELSE "CountsAdjusted"
Fact(me, new)        == <<Event(Type(me), new)>>
Near(type, was, new) == IF type = "CountsAdjusted" THEN was.status = new.status ELSE Counts(was) = Counts(new)

\* Each kind of call in each of its steps: the record, the SQLite row and the
\* stream of the row it is at.
CreateHand(me, k, record, row, stream) ==
    /\ record = me.view /\ row = NoRow /\ ~me.seeding /\ Exists(me.view)
    /\ me.events = (IF k = "album" THEN AlbumFacts(me.view) ELSE ArtistFacts(me.view))
    /\ k = "artist" => me.view.total = 0
    /\ \/ me.pc = "append" /\ stream = << >> /\ me.ver = 0
       \/ me.pc = "project" /\ stream = me.events /\ Tells(k, me.view, stream)
ClickHand(me, record, row, stream) ==
    LET was == Folded("album", stream)
    IN  /\ record = me.view /\ Exists(me.view) /\ (stream = << >> => Ancient)
        /\ me.op = "status" => Exists(me.was) /\ me.was = [me.view EXCEPT !.status = me.was.status]
        /\ \/ /\ me.pc = "mirror" /\ ~me.seeding
              /\ \/ stream = << >> /\ row = NoRow
                 \/ /\ Exists(row) /\ (stream # << >> => Tells("album", row, stream))
                    /\ IF me.op = "count" THEN Counted(row, me.click[1], me.click[2]) = me.view ELSE row = me.was
           \/ me.pc = "load" /\ row = me.view /\ (stream # << >> => Tells("album", was, stream) /\ Near(Type(me), was, me.view))
           \/ me.pc = "append" /\ row = me.view
              /\ \/ me.seeding /\ stream = << >> /\ me.ver = 0 /\ me.events = <<Event("Created", AlbumSeed(me))>>
                 \/ /\ ~me.seeding /\ Tells("album", was, stream) /\ Near(Type(me), was, me.view) /\ me.ver = Len(stream)
                    /\ me.events = Fact(me, me.view)
           \/ me.pc = "project" /\ row = me.view
              /\ \/ me.seeding /\ Tells("album", AlbumSeed(me), stream) /\ me.events = <<Event("Created", AlbumSeed(me))>>
                 \/ ~me.seeding /\ Tells("album", me.view, stream) /\ me.events = Fact(me, me.view)
SongHand(me, k, record, row, stream) ==
    LET new == Goal(me, k)
        born == <<Event("Created", Seed(me))>>
    IN  /\ record = new /\ Exists(new)
        /\ \/ me.pc = "load" /\ Due(k, new, row, stream)
           \/ me.pc = "append" /\ Due(k, new, row, stream) /\ me.ver = Len(stream)
              /\ \/ me.seeding /\ stream = << >> /\ me.events = born
                 \/ ~me.seeding /\ stream # << >> /\ me.events = Fact(me, new)
           \/ me.pc = "project"
              /\ \/ /\ me.seeding /\ row = NoRow /\ Tells(k, Seed(me), stream) /\ stream = born /\ me.events = born
                    /\ (k = "artist" => new.total = 0)
                 \/ /\ ~me.seeding /\ Exists(row) /\ row.status = new.status /\ Tells(k, new, stream)
                    /\ me.events = Fact(me, new)
ArtistHand(me, record, row, stream) ==
    /\ record = me.was /\ Exists(me.was) /\ Exists(me.view)
    /\ me.view = IF me.op = "artistCount" THEN [me.was EXCEPT !.coll = me.view.coll]
                 ELSE [me.was EXCEPT !.status = me.view.status]
    /\ \/ me.pc = "load" /\ row = me.was /\ Tells("artist", row, stream)
       \/ me.pc = "append" /\ row = me.was /\ Tells("artist", row, stream)
          /\ me.ver = Len(stream) /\ me.events = Fact(me, me.view) /\ ~me.seeding
       \/ me.pc = "project" /\ row = me.was /\ Tells("artist", me.view, stream) /\ me.events = Fact(me, me.view) /\ ~me.seeding
       \/ me.pc = "save" /\ row = me.view /\ Tells("artist", me.view, stream)

InHand(me, k, record, row, stream) ==
    IF k # me.key THEN record = Goal(me, k) /\ Due(k, Goal(me, k), row, stream)
    ELSE /\ me.op = "create" => CreateHand(me, k, record, row, stream)
         /\ me.op \in {"count", "status"} => ClickHand(me, record, row, stream)
         /\ me.op = "song" => SongHand(me, k, record, row, stream)
         /\ me.op \in {"artistCount", "artistList"} => ArtistHand(me, record, row, stream)
AgreeInv ==
    Calm => /\ \A c \in Calls : Busy(c) => \A k \in Held(call[c]) : InHand(call[c], k, pb[k], db[k], log[k])
            /\ \A k \in Sides : (\A c \in Calls : Busy(c) => k \notin Held(call[c])) => Kept(k, pb[k], db[k], log[k])

\* Two rows with the same status and the same counts.
LEMMA SameRow == ASSUME NEW a \in Rows, NEW b \in Rows, a.status = b.status, Counts(a) = Counts(b) PROVE a = b
<1>1. a.coll = b.coll /\ a.total = b.total
  BY DEF Counts
<1> QED BY <1>1 DEF Rows

\* What a row tells that is replayed from its stream.
LEMMA TellsIs ==
  ASSUME NEW k \in Sides, NEW row \in Rows, NEW stream \in Seq(Events), Tells(k, row, stream)
  PROVE  Exists(row) /\ Folded(k, stream) = row /\ Projected(k, NoRow, stream) = row /\ stream # << >>
BY DEF Tells, Says

\* One more event moves the aggregate and the read model alike.
LEMMA ToldOneMore ==
  ASSUME NEW k \in Sides, NEW was \in Rows, NEW stream \in Seq(Events), Tells(k, was, stream),
         NEW e \in Events, e.type \in {"StatusChanged", "CountsAdjusted"},
         NEW new, new = Stepped("log", k, was, e), Exists(new)
  PROVE  Tells(k, new, stream \o <<e>>)
<1>1. Exists(was) /\ Folded(k, stream) = was /\ Projected(k, NoRow, stream) = was
  BY TellsIs
<1>2. k \in Keys /\ k \notin Songs /\ e.type \in TypesOf(k) /\ (k = "album" \/ k = "artist")
  BY KeysAre DEF Sides, TypesOf
<1>3. ASSUME NEW row \in Rows, Exists(row) PROVE Stepped("db", k, row, e) = Stepped("log", k, row, e)
  BY <1>2, <1>3, KeysAre DEF Stepped, Projecting, Applied, AlbumProjected, ArtistProjected, Touches
<1>4. Folded(k, stream \o <<e>>) = new
  BY <1>1, OneMore DEF Folded
<1>5. Projected(k, NoRow, stream \o <<e>>) = new
  BY <1>1, <1>3, OneMore DEF Projected
<1>6. stream \o <<e>> # << >>
  OBVIOUS
<1>7. ASSUME k = "artist", NEW row \in Rows, Exists(row)
      PROVE  LET then == Projected("artist", row, stream \o <<e>>)
             IN  /\ Exists(then) /\ then \in Rows
                 /\ Counts(row) = Counts(new) => Counts(then) = Counts(new)
                 /\ row.status = new.status => then.status = new.status
  <2> DEFINE mid  == Projected("artist", row, stream)
             then == Projected("artist", row, stream \o <<e>>)
  <2>1. /\ Exists(mid) /\ mid \in Rows
        /\ Counts(row) = Counts(was) => Counts(mid) = Counts(was)
        /\ row.status = was.status => mid.status = was.status
    BY <1>1, <1>7 DEF Tells, Steady
  <2>2. then = Stepped("db", "artist", mid, e)
    BY OneMore DEF Projected
  <2> HIDE DEF mid, then
  <2>3. then = ArtistApplied(mid, e) /\ new = ArtistApplied(was, e)
    BY <1>3, <1>7, <2>1, <2>2, KeysAre DEF Stepped, Applied
  <2>4. then \in Rows
    BY <1>2, <1>7, <2>1, <2>2, SteppedIs
  <2>5. e.row \in Rows
    BY DEF Events
  <2> DEFINE goal == /\ Exists(then) /\ then \in Rows
                     /\ Counts(row) = Counts(new) => Counts(then) = Counts(new)
                     /\ row.status = new.status => then.status = new.status
  <2>6. ASSUME e.type = "StatusChanged" PROVE goal
    <3>1. /\ then.status = e.row.status /\ new.status = e.row.status
          /\ Counts(then) = Counts(mid) /\ Counts(new) = Counts(was)
      BY <2>1, <2>3, <2>6 DEF ArtistApplied, Rows, Counts
    <3> QED BY <2>1, <2>4, <3>1 DEF Exists
  <2>7. ASSUME e.type = "CountsAdjusted" PROVE goal
    <3>1. /\ then.status = mid.status /\ new.status = was.status
          /\ Counts(then) = Counts(e.row) /\ Counts(new) = Counts(e.row)
      BY <2>1, <2>3, <2>7 DEF ArtistApplied, Rows, Counts
    <3> QED BY <2>1, <2>4, <3>1 DEF Exists
  <2> QED BY <2>6, <2>7 DEF then
<1>8. k = "artist" => Steady(stream \o <<e>>)
  BY <1>4, <1>7 DEF Steady
<1> QED BY <1>4, <1>5, <1>6, <1>8 DEF Tells, Says

\* A stream that begins.
LEMMA ToldFirst ==
  ASSUME NEW k \in Sides, NEW row \in Rows, Exists(row), k = "artist" => row.coll = 0 /\ row.total = 0
  PROVE  Tells(k, row, <<Event("Created", row)>>)
<1> DEFINE e == Event("Created", row)
<1>1. e \in Events /\ e.type = "Created" /\ e.row = row
  BY EventIs
<1>2. k \in Keys /\ k \notin Songs /\ (k = "album" \/ k = "artist")
  BY KeysAre DEF Sides
<1> HIDE DEF e
<1>3. NoRow \in Rows /\ ~Exists(NoRow)
  BY RowIs DEF Exists, NoRow
<1>4. k = "artist" => Row(row.status, 0, 0) = row
  BY DEF Row, Rows
<1>5. Stepped("log", k, NoRow, e) = row /\ Stepped("db", k, NoRow, e) = row
  BY <1>1, <1>2, <1>3, <1>4, KeysAre
  DEF Stepped, Projecting, Applied, AlbumProjected, ArtistProjected, Touches, AlbumApplied, ArtistApplied
<1>6. ASSUME k = "artist", NEW old \in Rows, Exists(old) PROVE Projected("artist", old, <<e>>) = old
  <2>1. Stepped("db", "artist", old, e) = old
    BY <1>1, <1>6, KeysAre DEF Stepped, Projecting, ArtistProjected, Touches
  <2> QED BY <2>1, FoldOne DEF Projected
<1>7. Folded(k, <<e>>) = row /\ Projected(k, NoRow, <<e>>) = row
  BY <1>5, FoldOne DEF Folded, Projected
<1>8. <<e>> # << >>
  OBVIOUS
<1>9. k = "artist" => Steady(<<e>>)
  BY <1>6, <1>7 DEF Steady
<1> QED BY <1>7, <1>8, <1>9 DEF Tells, Says, e

\* The streams that creations begin.
LEMMA ToldCreation ==
  ASSUME NEW k \in Sides, NEW row \in Rows, Exists(row), k = "artist" => row.total = 0
  PROVE  Tells(k, row, IF k = "album" THEN AlbumFacts(row) ELSE ArtistFacts(row))
<1>1. CASE k = "album"
  BY <1>1, ToldFirst DEF AlbumFacts, Sides
<1>2. CASE k = "artist"
  <2> DEFINE born == [row EXCEPT !.coll = 0]
             one == Event("Created", born)
             two == Event("CountsAdjusted", row)
  <2>1. born \in Rows /\ Exists(born) /\ born.coll = 0 /\ born.total = 0
    BY <1>2 DEF Rows, Exists
  <2>2. two \in Events /\ two.type = "CountsAdjusted" /\ two.row = row /\ one \in Events
    BY <2>1, EventIs
  <2>3. [born EXCEPT !.coll = row.coll, !.total = row.total] = row
    BY DEF Rows
  <2>7. row.coll = 0 => born = row
    BY DEF Rows
  <2> HIDE DEF born
  <2>4. Tells("artist", born, <<one>>)
    BY <2>1, ToldFirst DEF Sides
  <2> HIDE DEF one, two
  <2>8. "artist" \in Sides /\ <<one>> \in Seq(Events)
    BY <2>2 DEF Sides
  <2>5. row = Stepped("log", "artist", born, two)
    BY <2>1, <2>2, <2>3, KeysAre DEF Stepped, Applied, ArtistApplied
  <2>6. Tells("artist", row, <<one>> \o <<two>>)
    <3> DEFINE list == <<one>>
    <3> HIDE DEF list
    <3>1. list \in Seq(Events) /\ Tells("artist", born, list)
      BY <2>4, <2>8 DEF list
    <3>2. Tells("artist", row, list \o <<two>>)
      BY <2>1, <2>2, <2>5, <2>8, <3>1, ToldOneMore
    <3> QED BY <3>2 DEF list
  <2>9. ArtistFacts(row) = IF row.coll = 0 THEN <<one>> ELSE <<one>> \o <<two>>
    <3>1. <<one>> \o << >> = <<one>>
      BY <2>2, TwoEvents
    <3> QED BY <3>1 DEF ArtistFacts, one, two, born
  <2>10. "artist" # "album"
    OBVIOUS
  <2> QED BY <1>2, <2>4, <2>6, <2>7, <2>9, <2>10
<1> QED BY <1>1, <1>2 DEF Sides

\* What a change's event does to a row, in a stream and in the read model.
LEMMA Becomes ==
  ASSUME NEW k \in Sides, NEW was \in Rows, Exists(was), NEW new \in Rows,
         NEW type \in {"StatusChanged", "CountsAdjusted"}, Near(type, was, new)
  PROVE  /\ Stepped("log", k, was, Event(type, new)) = new
         /\ Projected(k, was, <<Event(type, new)>>) = new
<1> DEFINE e == Event(type, new)
<1>1. e \in Events /\ e.type = type /\ e.row = new
  BY EventIs
<1>2. k = "album" \/ k = "artist"
  BY DEF Sides
<1> HIDE DEF e
<1>3. type = "CountsAdjusted" => [was EXCEPT !.coll = new.coll, !.total = new.total] = new
  BY DEF Near, Rows
<1>4. type = "StatusChanged" => [was EXCEPT !.status = new.status] = new
  <2>1. type = "StatusChanged" => was.coll = new.coll /\ was.total = new.total
    BY DEF Near, Counts
  <2> QED BY <2>1 DEF Rows
<1>5. Stepped("log", k, was, e) = new /\ Stepped("db", k, was, e) = new
  BY <1>1, <1>2, <1>3, <1>4, KeysAre
  DEF Stepped, Projecting, Applied, AlbumProjected, ArtistProjected, Touches, AlbumApplied, ArtistApplied
<1>6. Projected(k, was, <<e>>) = new
  BY <1>5, FoldOne DEF Projected
<1> QED BY <1>5, <1>6 DEF e

\* A creation leaves a row that is there alone.
LEMMA Untouched ==
  ASSUME NEW k \in Sides, NEW was \in Rows, Exists(was), NEW new \in Rows
  PROVE  Projected(k, was, <<Event("Created", new)>>) = was
<1> DEFINE e == Event("Created", new)
<1>1. e \in Events /\ e.type = "Created" /\ e.row = new
  BY EventIs
<1>2. k = "album" \/ k = "artist"
  BY DEF Sides
<1> HIDE DEF e
<1>3. Stepped("db", k, was, e) = was
  BY <1>1, <1>2, KeysAre DEF Stepped, Projecting, AlbumProjected, ArtistProjected, Touches
<1>4. Projected(k, was, <<e>>) = was
  BY <1>3, FoldOne DEF Projected
<1> QED BY <1>4 DEF e

\* A stream that tells of a change.
LEMMA ToldChange ==
  ASSUME NEW k \in Sides, NEW was \in Rows, NEW stream \in Seq(Events), Tells(k, was, stream), NEW new \in Rows,
         Exists(new), NEW type \in {"StatusChanged", "CountsAdjusted"}, Near(type, was, new)
  PROVE  Tells(k, new, stream \o <<Event(type, new)>>)
<1>1. Exists(was)
  BY TellsIs
<1> DEFINE e == Event(type, new)
<1>2. e \in Events /\ e.type = type
  BY EventIs
<1>3. new = Stepped("log", k, was, e)
  BY <1>1, Becomes
<1> HIDE DEF e
<1>4. Tells(k, new, stream \o <<e>>)
  BY <1>2, <1>3, ToldOneMore
<1> QED BY <1>4 DEF e

\* What a step leaves to the next one.
Likewise(new, me) ==
    /\ new.op = me.op /\ new.key = me.key /\ new.was = me.was /\ new.view = me.view
    /\ new.credit = me.credit /\ new.click = me.click
Loading(new, me, seeding, ver, events) ==
    Likewise(new, me) /\ new.pc = "append" /\ new.seeding = seeding /\ new.ver = ver /\ new.events = events

-----------------------------------------------------------------------------
(* The creation of an album or an artist.                                  *)

\* A creation's stream begins with what it is to tell.
LEMMA CreateAppends ==
  ASSUME NEW k \in Sides, NEW me \in CallRec, NEW record, NEW row, NEW stream, NEW new,
         CreateHand(me, k, record, row, stream), me.pc = "append", Likewise(new, me),
         new.pc = "project", new.events = me.events, new.seeding = me.seeding
  PROVE  CreateHand(new, k, record, row, stream \o me.events)
<1>1. stream = << >> /\ me.events \in Seq(Events)
  BY DEF CreateHand, CallRec
<1>2. << >> \o me.events = me.events
  BY <1>1
<1>3. me.view \in Rows
  BY DEF CallRec
<1>4. Tells(k, me.view, me.events)
  BY <1>3, ToldCreation DEF CreateHand
<1> QED BY <1>1, <1>2, <1>4 DEF CreateHand, Likewise

\* Its projection inserts the row.
LEMMA CreatePublishes ==
  ASSUME NEW k \in Sides, NEW me \in CallRec, NEW record, NEW row, NEW stream \in Seq(Events),
         CreateHand(me, k, record, row, stream), me.pc = "project"
  PROVE  Kept(k, record, Projected(k, row, me.events), stream)
<1>1. me.view \in Rows
  BY DEF CallRec
<1>2. Tells(k, me.view, stream) /\ row = NoRow /\ stream = me.events /\ record = me.view
  BY DEF CreateHand
<1>3. Projected(k, NoRow, stream) = me.view /\ stream # << >>
  BY <1>1, <1>2, TellsIs
<1> QED BY <1>2, <1>3 DEF Kept

-----------------------------------------------------------------------------
(* An album's clicks.                                                      *)

\* What the steps of a click share.
LEMMA ClickIs ==
  ASSUME NEW me \in CallRec, NEW record, NEW row, NEW stream \in Seq(Events), ClickHand(me, record, row, stream),
         me.op \in {"count", "status"}
  PROVE  /\ me.view \in Rows /\ me.was \in Rows /\ AlbumSeed(me) \in Rows /\ Exists(AlbumSeed(me))
         /\ Type(me) \in {"StatusChanged", "CountsAdjusted"} /\ "album" \in Sides
         /\ Near(Type(me), AlbumSeed(me), me.view)
         /\ record = me.view /\ Exists(me.view) /\ (stream = << >> => Ancient)
<1>1. me.view \in Rows /\ me.was \in Rows
  BY DEF CallRec
<1>2. Exists(me.view) /\ (me.op = "status" => Exists(me.was) /\ me.was = [me.view EXCEPT !.status = me.was.status])
  BY DEF ClickHand
<1>3. AlbumSeed(me) \in Rows /\ Exists(AlbumSeed(me))
  BY <1>1, <1>2 DEF AlbumSeed, Rows
<1>4. Near(Type(me), AlbumSeed(me), me.view)
  BY <1>1 DEF AlbumSeed, Rows, Near, Type, Counts
<1> QED BY <1>1, <1>3, <1>4 DEF ClickHand, Type, Sides

\* The UPDATE leaves what the click has committed.
LEMMA ClickMirrors ==
  ASSUME NEW me \in CallRec, NEW record, NEW row \in Rows, NEW stream \in Seq(Events),
         ClickHand(me, record, row, stream), me.pc = "mirror", me.op \in {"count", "status"},
         NEW then, then = IF me.op = "count" THEN CountMirrored(row, me) ELSE StatusMirrored(row, me)
  PROVE  /\ then = me.view
         /\ \A new : Likewise(new, me) /\ new.pc = "load" => ClickHand(new, record, then, stream)
         /\ ~Moved(me) => Kept("album", record, then, stream)
<1>1. /\ me.view \in Rows /\ me.was \in Rows /\ record = me.view /\ Exists(me.view) /\ (stream = << >> => Ancient)
      /\ Type(me) \in {"StatusChanged", "CountsAdjusted"} /\ "album" \in Sides
      /\ (me.op = "status" => Exists(me.was) /\ me.was = [me.view EXCEPT !.status = me.was.status])
  BY ClickIs DEF ClickHand
<1>2. \/ stream = << >> /\ row = NoRow
      \/ /\ Exists(row) /\ (stream # << >> => Tells("album", row, stream))
         /\ IF me.op = "count" THEN Counted(row, me.click[1], me.click[2]) = me.view ELSE row = me.was
  BY DEF ClickHand
<1>3. then = me.view
  <2>1. CASE row = NoRow
    BY <2>1 DEF CountMirrored, StatusMirrored, Exists, NoRow
  <2>2. CASE Exists(row) /\ me.op = "count"
    BY <1>2, <2>2 DEF CountMirrored, Exists, NoRow
  <2>3. CASE Exists(row) /\ me.op # "count"
    <3>1. row = me.was /\ [row EXCEPT !.status = me.view.status] = me.view
      BY <1>1, <1>2, <2>3 DEF Exists, NoRow, Rows
    <3> QED BY <2>3, <3>1 DEF StatusMirrored
  <2> QED BY <1>2, <2>1, <2>2, <2>3
<1>4. stream # << >> => Tells("album", row, stream) /\ Folded("album", stream) = row /\ Near(Type(me), row, me.view)
  <2>1. ASSUME stream # << >> PROVE Tells("album", row, stream) /\ Folded("album", stream) = row
    BY <1>1, <1>2, <2>1, TellsIs
  <2>2. ASSUME stream # << >>, me.op = "count" PROVE Near(Type(me), row, me.view)
    <3>1. me.click[1] \in {"coll", "total"} /\ me.click[2] \in Int /\ Counted(row, me.click[1], me.click[2]) = me.view
      BY <1>2, <2>2 DEF CallRec
    <3>2. Counted(row, me.click[1], me.click[2]).status = row.status
      BY <3>1, CountedIs
    <3> QED BY <2>2, <3>1, <3>2 DEF Near, Type
  <2>3. ASSUME stream # << >>, me.op # "count" PROVE Near(Type(me), row, me.view)
    <3>1. row = [me.view EXCEPT !.status = me.was.status]
      BY <1>1, <1>2, <2>3
    <3>2. Counts(row) = Counts(me.view)
      BY <1>1, <3>1 DEF Rows, Counts
    <3> QED BY <2>3, <3>2 DEF Near, Type
  <2> QED BY <2>1, <2>2, <2>3
<1>5. ASSUME NEW new, Likewise(new, me), new.pc = "load" PROVE ClickHand(new, record, then, stream)
  <2>1. Type(new) = Type(me) /\ new.view = me.view /\ new.was = me.was /\ new.op = me.op
    BY <1>5 DEF Likewise, Type
  <2> QED BY <1>1, <1>3, <1>4, <1>5, <2>1 DEF ClickHand
<1>6. ASSUME ~Moved(me) PROVE Kept("album", record, then, stream)
  <2>1. me.op = "status" /\ me.was.status = me.view.status
    BY <1>6 DEF Moved
  <2>2. me.was = me.view
    BY <1>1, <2>1 DEF Rows
  <2>3. stream # << >> => row = me.view
    <3>1. stream # << >> => row = me.was
      BY <1>2, <2>1
    <3> QED BY <2>2, <3>1
  <2> QED BY <1>1, <1>3, <1>4, <2>3 DEF Kept
<1> QED BY <1>3, <1>5, <1>6

\* Load finds what is to be appended, or that nothing is.
LEMMA ClickLoads ==
  ASSUME NEW me \in CallRec, NEW record, NEW row \in Rows, NEW stream \in Seq(Events), LogOK("album", stream),
         ClickHand(me, record, row, stream), me.pc = "load", me.op \in {"count", "status"},
         NEW then, then = AlbumChange(me, Folded("album", stream))
  PROVE  /\ stream = << >> =>
              \A new : Loading(new, me, TRUE, 0, <<Event("Created", AlbumSeed(me))>>) =>
                 ClickHand(new, record, row, stream)
         /\ stream # << >> /\ then # << >> =>
              \A new : Loading(new, me, FALSE, Len(stream), then) =>
                 ClickHand(new, record, row, stream)
         /\ stream # << >> /\ then = << >> => Kept("album", record, row, stream)
<1> DEFINE was == Folded("album", stream)
<1>1. /\ me.view \in Rows /\ record = me.view /\ Exists(me.view) /\ (stream = << >> => Ancient)
      /\ Type(me) \in {"StatusChanged", "CountsAdjusted"} /\ "album" \in Sides /\ row = me.view
      /\ (me.op = "status" => Exists(me.was) /\ me.was = [me.view EXCEPT !.status = me.was.status])
      /\ (stream # << >> => Tells("album", was, stream) /\ Near(Type(me), was, me.view))
  BY ClickIs DEF ClickHand
<1>2. \A new : Likewise(new, me) => /\ Type(new) = Type(me) /\ new.view = me.view /\ new.was = me.was /\ new.op = me.op
                                    /\ AlbumSeed(new) = AlbumSeed(me) /\ Fact(new, new.view) = Fact(me, me.view)
  BY DEF Likewise, Type, AlbumSeed, Fact
<1>3. was \in Rows
  BY ReplayedIs, RowIs, KeysAre DEF Folded, LogOK, Fits
<1> HIDE DEF was
<1>4. then = AlbumChange(me, was)
  BY DEF was
<1>8. ASSUME NEW new, Likewise(new, me)
      PROVE  /\ Type(new) = Type(me) /\ new.view = me.view /\ new.was = me.was /\ new.op = me.op
             /\ AlbumSeed(new) = AlbumSeed(me) /\ Fact(new, new.view) = Fact(me, me.view)
  BY <1>2, <1>8
<1>5. stream = << >> =>
        \A new : Loading(new, me, TRUE, 0, <<Event("Created", AlbumSeed(me))>>) =>
                 ClickHand(new, record, row, stream)
  <2> SUFFICES ASSUME stream = << >>, NEW new, Loading(new, me, TRUE, 0, <<Event("Created", AlbumSeed(me))>>)
               PROVE  ClickHand(new, record, row, stream)
    OBVIOUS
  <2> QED BY <1>1, <1>8 DEF ClickHand, Loading
<1>6. stream # << >> /\ then # << >> =>
        \A new : Loading(new, me, FALSE, Len(stream), then) =>
                 ClickHand(new, record, row, stream)
  <2> SUFFICES ASSUME stream # << >>, then # << >>, NEW new, Loading(new, me, FALSE, Len(stream), then)
               PROVE  ClickHand(new, record, row, stream)
    OBVIOUS
  <2>1. then = Fact(me, me.view)
    BY <1>4 DEF AlbumChange, NewStatus, NewCounts, Fact, Type
  <2> QED BY <1>1, <1>8, <2>1 DEF ClickHand, was, Loading
<1>7. CASE stream # << >> /\ then = << >>
  <2>1. <<Event("StatusChanged", me.view)>> # << >> /\ <<Event("CountsAdjusted", me.view)>> # << >>
    OBVIOUS
  <2>2. IF me.op = "status" THEN was.status = me.view.status ELSE Counts(was) = Counts(me.view)
    BY <1>4, <1>7, <2>1 DEF AlbumChange, NewStatus, NewCounts
  <2>3. was.status = me.view.status /\ Counts(was) = Counts(me.view)
    BY <1>1, <1>7, <2>2 DEF Near, Type
  <2>4. was = me.view
    BY <1>1, <1>3, <2>3, SameRow
  <2> QED BY <1>1, <1>7, <2>4 DEF Kept
<1> QED BY <1>5, <1>6, <1>7

\* The stream then tells what the row says.
LEMMA ClickAppends ==
  ASSUME NEW me \in CallRec, NEW record, NEW row, NEW stream \in Seq(Events), LogOK("album", stream),
         ClickHand(me, record, row, stream), me.pc = "append", me.op \in {"count", "status"},
         NEW new, Likewise(new, me), new.pc = "project", new.events = me.events, new.seeding = me.seeding
  PROVE  ClickHand(new, record, row, stream \o me.events)
<1> DEFINE was == Folded("album", stream)
<1>1. /\ me.view \in Rows /\ record = me.view /\ Exists(me.view) /\ (stream = << >> => Ancient)
      /\ Type(me) \in {"StatusChanged", "CountsAdjusted"} /\ "album" \in Sides /\ row = me.view
      /\ (me.op = "status" => Exists(me.was) /\ me.was = [me.view EXCEPT !.status = me.was.status])
      /\ AlbumSeed(me) \in Rows /\ Exists(AlbumSeed(me))
      /\ \/ me.seeding /\ stream = << >> /\ me.ver = 0 /\ me.events = <<Event("Created", AlbumSeed(me))>>
         \/ /\ ~me.seeding /\ Tells("album", was, stream) /\ Near(Type(me), was, me.view)
            /\ me.events = Fact(me, me.view)
  BY ClickIs DEF ClickHand
<1>2. /\ Type(new) = Type(me) /\ new.view = me.view /\ new.was = me.was /\ new.op = me.op
      /\ AlbumSeed(new) = AlbumSeed(me) /\ Fact(new, new.view) = Fact(me, me.view)
  BY DEF Likewise, Type, AlbumSeed, Fact
<1>3. was \in Rows
  BY ReplayedIs, RowIs, KeysAre DEF Folded, LogOK, Fits
<1> HIDE DEF was
<1>4. me.events \in Seq(Events) /\ me.events # << >>
  <2>1. <<Event("Created", AlbumSeed(me))>> # << >> /\ Fact(me, me.view) # << >>
    BY DEF Fact
  <2>2. me.events = <<Event("Created", AlbumSeed(me))>> \/ me.events = Fact(me, me.view)
    BY <1>1
  <2> QED BY <2>1, <2>2 DEF CallRec
<1>5. stream \o me.events # << >>
  BY <1>4
<1>6. CASE me.seeding
  <2>1. stream \o me.events = <<Event("Created", AlbumSeed(me))>>
    <3>1. << >> \o me.events = me.events
      BY <1>4
    <3> QED BY <1>1, <1>6, <3>1
  <2>2. Tells("album", AlbumSeed(me), <<Event("Created", AlbumSeed(me))>>)
    BY <1>1, ToldFirst
  <2> QED BY <1>1, <1>2, <1>5, <1>6, <2>1, <2>2 DEF ClickHand
<1>7. CASE ~me.seeding
  <2>1. Tells("album", me.view, stream \o <<Event(Type(me), me.view)>>)
    BY <1>1, <1>3, <1>7, ToldChange
  <2> QED BY <1>1, <1>2, <1>5, <1>7, <2>1 DEF ClickHand, Fact
<1> QED BY <1>6, <1>7

\* Its projection leaves the row as it is.
LEMMA ClickPublishes ==
  ASSUME NEW me \in CallRec, NEW record, NEW row \in Rows, NEW stream \in Seq(Events),
         ClickHand(me, record, row, stream), me.pc = "project", me.op \in {"count", "status"},
         NEW then, then = Projected("album", row, me.events)
  PROVE  /\ me.seeding => \A new : Likewise(new, me) /\ new.pc = "load" => ClickHand(new, record, then, stream)
         /\ ~me.seeding => Kept("album", record, then, stream)
<1>1. /\ me.view \in Rows /\ record = me.view /\ Exists(me.view) /\ (stream = << >> => Ancient)
      /\ Type(me) \in {"StatusChanged", "CountsAdjusted"} /\ "album" \in Sides /\ row = me.view
      /\ (me.op = "status" => Exists(me.was) /\ me.was = [me.view EXCEPT !.status = me.was.status])
      /\ AlbumSeed(me) \in Rows /\ Exists(AlbumSeed(me)) /\ Near(Type(me), AlbumSeed(me), me.view)
      /\ \/ me.seeding /\ Tells("album", AlbumSeed(me), stream) /\ me.events = <<Event("Created", AlbumSeed(me))>>
         \/ ~me.seeding /\ Tells("album", me.view, stream) /\ me.events = Fact(me, me.view)
  BY ClickIs DEF ClickHand
<1>2. CASE me.seeding
  <2>1. then = me.view
    <3>1. row = me.view /\ me.events = <<Event("Created", AlbumSeed(me))>>
      BY <1>1, <1>2
    <3>2. Projected("album", me.view, <<Event("Created", AlbumSeed(me))>>) = me.view
      BY <1>1, Untouched
    <3> QED BY <3>1, <3>2
  <2>2. Folded("album", stream) = AlbumSeed(me)
    BY <1>1, <1>2, TellsIs
  <2>3. ASSUME NEW new, Likewise(new, me), new.pc = "load" PROVE ClickHand(new, record, then, stream)
    <3>1. Type(new) = Type(me) /\ new.view = me.view /\ new.was = me.was /\ new.op = me.op
      BY <2>3 DEF Likewise, Type
    <3> QED BY <1>1, <1>2, <2>1, <2>2, <2>3, <3>1 DEF ClickHand
  <2> QED BY <1>2, <2>3
<1>3. CASE ~me.seeding
  <2>1. Near(Type(me), me.view, me.view)
    BY DEF Near
  <2>2. then = me.view
    <3>1. row = me.view /\ me.events = <<Event(Type(me), me.view)>>
      BY <1>1, <1>3 DEF Fact
    <3>2. /\ me.view \in Rows /\ Exists(me.view) /\ Type(me) \in {"StatusChanged", "CountsAdjusted"}
          /\ "album" \in Sides
      BY <1>1
    <3>3. Projected("album", me.view, <<Event(Type(me), me.view)>>) = me.view
      BY <2>1, <3>2, Becomes
    <3> QED BY <3>1, <3>3
  <2>3. stream # << >>
    BY <1>1, <1>3, TellsIs
  <2> QED BY <1>1, <1>3, <2>2, <2>3 DEF Kept
<1> QED BY <1>2, <1>3

-----------------------------------------------------------------------------
(* A new song, at its album and at its artist.                             *)

\* What the steps of a song share.
LEMMA SongIs ==
  ASSUME NEW k \in Sides, NEW me \in CallRec, me.op = "song", me.key = k, Exists(Goal(me, k))
  PROVE  /\ Goal(me, k) \in Rows /\ Seed(me) \in Rows /\ Exists(Seed(me)) /\ Seed(me).status = Goal(me, k).status
         /\ (k = "artist" => Seed(me).coll = 0 /\ Seed(me).total = 0)
         /\ (k = "album" => Seed(me) = me.view) /\ Type(me) = "CountsAdjusted"
         /\ \A new : Likewise(new, me) => /\ Goal(new, k) = Goal(me, k) /\ Seed(new) = Seed(me)
                                          /\ Fact(new, Goal(me, k)) = Fact(me, Goal(me, k))
<1>1. me.view \in Rows /\ me.credit \in Rows /\ me.was \in Rows
  BY DEF CallRec
<1>2. \A new : Likewise(new, me) => /\ Goal(new, k) = Goal(me, k) /\ Seed(new) = Seed(me)
                                    /\ Fact(new, Goal(me, k)) = Fact(me, Goal(me, k))
  BY DEF Likewise, Goal, Seed, AlbumSeed, ArtistSeed, SongSeed, Fact, Type
<1>3. CASE k = "album"
  <2>1. Seed(me) = me.view /\ Goal(me, k) = me.view
    BY <1>3 DEF Seed, AlbumSeed, Goal
  <2> QED BY <1>1, <1>2, <1>3, <2>1 DEF Type
<1>4. CASE k = "artist"
  <2>1. Seed(me) = Row(me.credit.status, 0, 0) /\ Goal(me, k) = me.credit
    BY <1>4 DEF Seed, ArtistSeed, Goal
  <2>2. Seed(me) \in Rows /\ Seed(me).status = me.credit.status /\ Seed(me).coll = 0 /\ Seed(me).total = 0
    BY <1>1, <2>1 DEF Row, Rows
  <2> QED BY <1>1, <1>2, <1>4, <2>1, <2>2 DEF Type, Exists
<1> QED BY <1>3, <1>4 DEF Sides

\* Load finds what the stream is owed, or that it is owed nothing.
LEMMA SongLoads ==
  ASSUME NEW k \in Sides, NEW me \in CallRec, NEW record, NEW row \in Rows, NEW stream \in Seq(Events),
         SongHand(me, k, record, row, stream), me.pc = "load", me.op = "song", me.key = k,
         NEW then, then = Change(me, Folded(k, stream))
  PROVE  /\ stream = << >> =>
              \A new : Loading(new, me, TRUE, 0, <<Event("Created", Seed(me))>>) =>
                 SongHand(new, k, record, row, stream)
         /\ stream # << >> /\ then # << >> =>
              \A new : Loading(new, me, FALSE, Len(stream), then) =>
                 SongHand(new, k, record, row, stream)
         /\ stream # << >> /\ then = << >> => Kept(k, record, row, stream)
<1> DEFINE goal == Goal(me, k)
<1>1. record = goal /\ Exists(goal) /\ Due(k, goal, row, stream)
  BY DEF SongHand
<1>2. /\ goal \in Rows
      /\ \A new : Likewise(new, me) => /\ Goal(new, k) = goal /\ Seed(new) = Seed(me)
                                       /\ Fact(new, goal) = Fact(me, goal)
  BY <1>1, SongIs
<1>3. Len(<< >>) = 0
  OBVIOUS
<1>4. stream = << >> =>
        \A new : Loading(new, me, TRUE, 0, <<Event("Created", Seed(me))>>) =>
                 SongHand(new, k, record, row, stream)
  <2> SUFFICES ASSUME stream = << >>, NEW new, Loading(new, me, TRUE, 0, <<Event("Created", Seed(me))>>)
               PROVE  SongHand(new, k, record, row, stream)
    OBVIOUS
  <2>1. Goal(new, k) = goal /\ Seed(new) = Seed(me)
    BY <1>2 DEF Loading
  <2> QED BY <1>1, <1>3, <2>1 DEF SongHand, Loading
<1>5. ASSUME stream # << >>
      PROVE  /\ Tells(k, row, stream) /\ row.status = goal.status /\ (k = "artist" => row.total = goal.total)
             /\ then = IF Counts(row) = Counts(goal) THEN << >> ELSE Fact(me, goal)
  <2>1. Tells(k, row, stream) /\ row.status = goal.status /\ (k = "artist" => row.total = goal.total)
    BY <1>1, <1>5 DEF Due
  <2>2. Folded(k, stream) = row
    BY <2>1, TellsIs
  <2>3. CASE k = "album"
    BY <2>1, <2>2, <2>3 DEF Change, AlbumChange, NewCounts, Fact, Type, Goal
  <2>4. CASE k = "artist"
    <3>1. goal = me.credit /\ [row EXCEPT !.coll = me.credit.coll] = goal
      BY <1>2, <2>1, <2>4 DEF Goal, Rows
    <3>2. Change(me, row) = NewCounts(row, goal)
      BY <2>4, <3>1 DEF Change, ArtistChange
    <3> QED BY <2>1, <2>2, <3>2 DEF NewCounts, Fact, Type
  <2> QED BY <2>1, <2>3, <2>4 DEF Sides
<1>6. stream # << >> /\ then # << >> =>
        \A new : Loading(new, me, FALSE, Len(stream), then) =>
                 SongHand(new, k, record, row, stream)
  <2> SUFFICES ASSUME stream # << >>, then # << >>, NEW new, Loading(new, me, FALSE, Len(stream), then)
               PROVE  SongHand(new, k, record, row, stream)
    OBVIOUS
  <2>1. then = Fact(me, goal)
    BY <1>5
  <2>2. Goal(new, k) = goal /\ Fact(new, goal) = Fact(me, goal)
    BY <1>2 DEF Loading
  <2> QED BY <1>1, <2>1, <2>2 DEF SongHand, Loading
<1>7. ASSUME stream # << >>, then = << >> PROVE Kept(k, record, row, stream)
  <2>1. Fact(me, goal) # << >>
    BY DEF Fact
  <2>2. row.status = goal.status /\ Counts(row) = Counts(goal) /\ Tells(k, row, stream)
    BY <1>5, <1>7, <2>1
  <2>3. row = goal
    BY <1>2, <2>2, SameRow
  <2> QED BY <1>1, <1>7, <2>2, <2>3 DEF Kept
<1> QED BY <1>4, <1>6, <1>7

\* The stream then tells what the record says.
LEMMA SongAppends ==
  ASSUME NEW k \in Sides, NEW me \in CallRec, NEW record, NEW row \in Rows, NEW stream \in Seq(Events),
         SongHand(me, k, record, row, stream), me.pc = "append", me.op = "song", me.key = k,
         NEW new, Likewise(new, me), new.pc = "project", new.events = me.events, new.seeding = me.seeding
  PROVE  SongHand(new, k, record, row, stream \o me.events)
<1> DEFINE goal == Goal(me, k)
           born == <<Event("Created", Seed(me))>>
<1>1. /\ record = goal /\ Exists(goal) /\ Due(k, goal, row, stream)
      /\ \/ me.seeding /\ stream = << >> /\ me.events = born
         \/ ~me.seeding /\ stream # << >> /\ me.events = Fact(me, goal)
  BY DEF SongHand
<1>2. /\ goal \in Rows /\ Seed(me) \in Rows /\ Exists(Seed(me)) /\ Seed(me).status = goal.status
      /\ (k = "artist" => Seed(me).coll = 0 /\ Seed(me).total = 0) /\ Type(me) = "CountsAdjusted"
  BY <1>1, SongIs
<1>3. Goal(new, k) = goal /\ Seed(new) = Seed(me) /\ Fact(new, goal) = Fact(me, goal)
  BY <1>1, SongIs
<1>4. CASE me.seeding
  <2>1. stream = << >> /\ me.events = born
    BY <1>1, <1>4
  <2>2. stream \o me.events = born
    <3>1. me.events \in Seq(Events)
      BY DEF CallRec
    <3>2. << >> \o me.events = me.events
      BY <3>1
    <3> QED BY <2>1, <3>2
  <2>3. Tells(k, Seed(me), born)
    BY <1>2, ToldFirst
  <2>4. row = NoRow /\ (k = "artist" => goal.total = 0)
    BY <1>1, <2>1 DEF Due, Tells, Says
  <2> QED BY <1>1, <1>3, <1>4, <2>1, <2>2, <2>3, <2>4 DEF SongHand
<1>5. CASE ~me.seeding
  <2>1. stream # << >> /\ me.events = Fact(me, goal)
    BY <1>1, <1>5
  <2>2. Tells(k, row, stream) /\ row.status = goal.status
    BY <1>1, <2>1 DEF Due
  <2>3. Exists(row)
    BY <2>2, TellsIs
  <2>4. Near("CountsAdjusted", row, goal)
    BY <2>2 DEF Near
  <2>5. Tells(k, goal, stream \o <<Event("CountsAdjusted", goal)>>)
    BY <1>1, <1>2, <2>2, <2>4, ToldChange
  <2>6. me.events = <<Event("CountsAdjusted", goal)>>
    BY <1>2, <2>1 DEF Fact
  <2> QED BY <1>1, <1>3, <1>5, <2>1, <2>2, <2>3, <2>5, <2>6 DEF SongHand
<1> QED BY <1>4, <1>5

\* A seeded row is still to be told its change; a told one is kept.
LEMMA SongPublishes ==
  ASSUME NEW k \in Sides, NEW me \in CallRec, NEW record, NEW row \in Rows, NEW stream \in Seq(Events),
         SongHand(me, k, record, row, stream), me.pc = "project", me.op = "song", me.key = k,
         NEW then, then = Projected(k, row, me.events)
  PROVE  /\ me.seeding => \A new : Likewise(new, me) /\ new.pc = "load" => SongHand(new, k, record, then, stream)
         /\ ~me.seeding => Kept(k, record, then, stream)
<1> DEFINE goal == Goal(me, k)
           born == <<Event("Created", Seed(me))>>
<1>1. /\ record = goal /\ Exists(goal)
      /\ \/ /\ me.seeding /\ row = NoRow /\ Tells(k, Seed(me), stream) /\ stream = born /\ me.events = born
            /\ (k = "artist" => goal.total = 0)
         \/ /\ ~me.seeding /\ Exists(row) /\ row.status = goal.status /\ Tells(k, goal, stream)
            /\ me.events = Fact(me, goal)
  BY DEF SongHand
<1>2. /\ goal \in Rows /\ Seed(me) \in Rows /\ Exists(Seed(me)) /\ Seed(me).status = goal.status
      /\ (k = "artist" => Seed(me).coll = 0 /\ Seed(me).total = 0) /\ Type(me) = "CountsAdjusted"
      /\ \A new : Likewise(new, me) => Goal(new, k) = goal
  BY <1>1, SongIs
<1>3. CASE me.seeding
  <2>1. row = NoRow /\ Tells(k, Seed(me), stream) /\ stream = me.events /\ (k = "artist" => goal.total = 0)
    BY <1>1, <1>3
  <2>2. then = Seed(me)
    BY <1>2, <2>1, TellsIs
  <2>3. Due(k, goal, then, stream)
    BY <1>1, <1>2, <2>1, <2>2 DEF Due
  <2>4. ASSUME NEW new, Likewise(new, me), new.pc = "load" PROVE SongHand(new, k, record, then, stream)
    <3>1. Goal(new, k) = goal
      BY <1>2, <2>4
    <3> QED BY <1>1, <2>3, <2>4, <3>1 DEF SongHand
  <2> QED BY <1>3, <2>4
<1>4. CASE ~me.seeding
  <2>1. Exists(row) /\ row.status = goal.status /\ Tells(k, goal, stream) /\ me.events = Fact(me, goal)
    BY <1>1, <1>4
  <2>2. Near("CountsAdjusted", row, goal)
    BY <2>1 DEF Near
  <2>3. Projected(k, row, <<Event("CountsAdjusted", goal)>>) = goal
    BY <1>2, <2>1, <2>2, Becomes
  <2>4. then = goal
    BY <1>2, <2>1, <2>3 DEF Fact
  <2>5. stream # << >>
    BY <1>2, <2>1, TellsIs
  <2> QED BY <1>1, <1>4, <2>1, <2>4, <2>5 DEF Kept
<1> QED BY <1>3, <1>4

-----------------------------------------------------------------------------
(* An artist's clicks.                                                     *)

\* What the steps of an artist's click share.
LEMMA ArtistIs ==
  ASSUME NEW me \in CallRec, NEW record, NEW row, NEW stream, ArtistHand(me, record, row, stream),
         me.op \in {"artistCount", "artistList"}
  PROVE  /\ me.view \in Rows /\ me.was \in Rows /\ record = me.was /\ Exists(me.was) /\ Exists(me.view)
         /\ Type(me) \in {"StatusChanged", "CountsAdjusted"} /\ "artist" \in Sides
         /\ Near(Type(me), me.was, me.view)
         /\ me.view = IF me.op = "artistCount" THEN [me.was EXCEPT !.coll = me.view.coll]
                      ELSE [me.was EXCEPT !.status = me.view.status]
         /\ \A new : Likewise(new, me) => /\ new.op = me.op /\ new.was = me.was /\ new.view = me.view
                                          /\ Fact(new, new.view) = Fact(me, me.view)
<1>1. me.view \in Rows /\ me.was \in Rows
  BY DEF CallRec
<1>2. /\ record = me.was /\ Exists(me.was) /\ Exists(me.view)
      /\ me.view = IF me.op = "artistCount" THEN [me.was EXCEPT !.coll = me.view.coll]
                   ELSE [me.was EXCEPT !.status = me.view.status]
  BY DEF ArtistHand
<1>3. CASE me.op = "artistCount"
  <2>1. me.view.status = me.was.status
    BY <1>1, <1>2, <1>3 DEF Rows
  <2> QED BY <1>1, <1>2, <1>3, <2>1 DEF Type, Near, Sides, Likewise, Fact
<1>4. CASE me.op = "artistList"
  <2>1. Counts(me.view) = Counts(me.was)
    BY <1>1, <1>2, <1>4 DEF Rows, Counts
  <2> QED BY <1>1, <1>2, <1>4, <2>1 DEF Type, Near, Sides, Likewise, Fact
<1> QED BY <1>3, <1>4

\* Load finds a stream, and what is to be appended to it.
LEMMA ArtistLoads ==
  ASSUME NEW me \in CallRec, NEW record, NEW row, NEW stream \in Seq(Events), ArtistHand(me, record, row, stream),
         me.pc = "load", me.op \in {"artistCount", "artistList"},
         NEW then, then = ArtistChange(me, Folded("artist", stream))
  PROVE  /\ stream # << >>
         /\ then # << >> => \A new : Loading(new, me, FALSE, Len(stream), then) => ArtistHand(new, record, row, stream)
         /\ then = << >> => \A new : Likewise(new, me) /\ new.pc = "save" => ArtistHand(new, record, row, stream)
<1>1. /\ me.view \in Rows /\ me.was \in Rows /\ record = me.was /\ Exists(me.was) /\ Exists(me.view)
      /\ "artist" \in Sides
      /\ me.view = IF me.op = "artistCount" THEN [me.was EXCEPT !.coll = me.view.coll]
                   ELSE [me.was EXCEPT !.status = me.view.status]
  BY ArtistIs
<1>2. row = me.was /\ Tells("artist", me.was, stream)
  BY DEF ArtistHand
<1>3. Folded("artist", stream) = me.was /\ stream # << >>
  BY <1>1, <1>2, TellsIs
<1>4. then = IF me.op = "artistList" THEN NewStatus(me.was, me.view) ELSE NewCounts(me.was, me.view)
  BY <1>1, <1>3 DEF ArtistChange
<1>5. ASSUME NEW new, Likewise(new, me)
      PROVE  /\ new.op = me.op /\ new.was = me.was /\ new.view = me.view /\ Fact(new, new.view) = Fact(me, me.view)
  BY <1>5, ArtistIs
<1>6. then # << >> => then = Fact(me, me.view)
  BY <1>4 DEF NewStatus, NewCounts, Fact, Type
<1>7. then = << >> => me.view = me.was
  <2>1. <<Event("StatusChanged", me.view)>> # << >> /\ <<Event("CountsAdjusted", me.view)>> # << >>
    OBVIOUS
  <2>2. then = << >> => IF me.op = "artistList" THEN me.was.status = me.view.status ELSE Counts(me.was) = Counts(me.view)
    BY <1>4, <2>1 DEF NewStatus, NewCounts
  <2>3. me.op = "artistList" => Counts(me.was) = Counts(me.view)
    BY <1>1 DEF Rows, Counts
  <2>4. me.op # "artistList" => me.was.status = me.view.status
    BY <1>1 DEF Rows
  <2> QED BY <1>1, <2>2, <2>3, <2>4, SameRow
<1>8. then # << >> => \A new : Loading(new, me, FALSE, Len(stream), then) => ArtistHand(new, record, row, stream)
  <2> SUFFICES ASSUME then # << >>, NEW new, Loading(new, me, FALSE, Len(stream), then)
               PROVE  ArtistHand(new, record, row, stream)
    OBVIOUS
  <2>1. Likewise(new, me) /\ new.pc = "append" /\ ~new.seeding /\ new.ver = Len(stream) /\ new.events = then
    BY DEF Loading
  <2>2. new.events = Fact(new, new.view)
    BY <1>5, <1>6, <2>1
  <2> QED BY <1>1, <1>2, <1>5, <2>1, <2>2 DEF ArtistHand
<1>9. then = << >> => \A new : Likewise(new, me) /\ new.pc = "save" => ArtistHand(new, record, row, stream)
  <2> SUFFICES ASSUME then = << >>, NEW new, Likewise(new, me), new.pc = "save"
               PROVE  ArtistHand(new, record, row, stream)
    OBVIOUS
  <2> QED BY <1>1, <1>2, <1>5, <1>7 DEF ArtistHand
<1> QED BY <1>3, <1>8, <1>9

\* The stream then tells what the record will say.
LEMMA ArtistAppends ==
  ASSUME NEW me \in CallRec, NEW record, NEW row, NEW stream \in Seq(Events), ArtistHand(me, record, row, stream),
         me.pc = "append", me.op \in {"artistCount", "artistList"},
         NEW new, Likewise(new, me), new.pc = "project", new.events = me.events, new.seeding = me.seeding
  PROVE  ArtistHand(new, record, row, stream \o me.events)
<1>1. /\ me.view \in Rows /\ me.was \in Rows /\ record = me.was /\ Exists(me.was) /\ Exists(me.view)
      /\ "artist" \in Sides /\ Type(me) \in {"StatusChanged", "CountsAdjusted"} /\ Near(Type(me), me.was, me.view)
      /\ me.view = IF me.op = "artistCount" THEN [me.was EXCEPT !.coll = me.view.coll]
                   ELSE [me.was EXCEPT !.status = me.view.status]
  BY ArtistIs
<1>2. new.op = me.op /\ new.was = me.was /\ new.view = me.view /\ Fact(new, new.view) = Fact(me, me.view)
  BY ArtistIs
<1>3. row = me.was /\ Tells("artist", me.was, stream) /\ me.events = Fact(me, me.view) /\ ~me.seeding
  BY DEF ArtistHand
<1>4. Tells("artist", me.view, stream \o <<Event(Type(me), me.view)>>)
  BY <1>1, <1>3, ToldChange
<1>5. me.events = <<Event(Type(me), me.view)>>
  BY <1>3 DEF Fact
<1> QED BY <1>1, <1>2, <1>3, <1>4, <1>5 DEF ArtistHand

\* Its projection moves the row ahead of the record.
LEMMA ArtistPublishes ==
  ASSUME NEW me \in CallRec, NEW record, NEW row, NEW stream \in Seq(Events), ArtistHand(me, record, row, stream),
         me.pc = "project", me.op \in {"artistCount", "artistList"},
         NEW then, then = Projected("artist", row, me.events), NEW new, Likewise(new, me), new.pc = "save"
  PROVE  ~me.seeding /\ ArtistHand(new, record, then, stream)
<1>1. /\ me.view \in Rows /\ me.was \in Rows /\ record = me.was /\ Exists(me.was) /\ Exists(me.view)
      /\ "artist" \in Sides /\ Type(me) \in {"StatusChanged", "CountsAdjusted"} /\ Near(Type(me), me.was, me.view)
      /\ me.view = IF me.op = "artistCount" THEN [me.was EXCEPT !.coll = me.view.coll]
                   ELSE [me.was EXCEPT !.status = me.view.status]
  BY ArtistIs
<1>2. new.op = me.op /\ new.was = me.was /\ new.view = me.view
  BY ArtistIs
<1>3. row = me.was /\ Tells("artist", me.view, stream) /\ me.events = Fact(me, me.view) /\ ~me.seeding
  BY DEF ArtistHand
<1>4. Projected("artist", me.was, <<Event(Type(me), me.view)>>) = me.view
  <2>1. /\ me.view \in Rows /\ me.was \in Rows /\ Exists(me.was) /\ Type(me) \in {"StatusChanged", "CountsAdjusted"}
        /\ "artist" \in Sides /\ Near(Type(me), me.was, me.view)
    BY <1>1
  <2> QED BY <2>1, Becomes
<1>5. then = me.view
  BY <1>3, <1>4 DEF Fact
<1> QED BY <1>1, <1>2, <1>3, <1>5 DEF ArtistHand

\* The record follows.
LEMMA ArtistSaves ==
  ASSUME NEW me \in CallRec, NEW record, NEW row, NEW stream \in Seq(Events), ArtistHand(me, record, row, stream),
         me.pc = "save", me.op \in {"artistCount", "artistList"}
  PROVE  Kept("artist", Rewritten(record, me), row, stream)
<1>1. /\ me.view \in Rows /\ me.was \in Rows /\ record = me.was /\ Exists(me.was) /\ "artist" \in Sides
      /\ me.view = IF me.op = "artistCount" THEN [me.was EXCEPT !.coll = me.view.coll]
                   ELSE [me.was EXCEPT !.status = me.view.status]
  BY ArtistIs
<1>2. row = me.view /\ Tells("artist", me.view, stream)
  BY DEF ArtistHand
<1>3. stream # << >>
  BY <1>1, <1>2, TellsIs
<1>4. Rewritten(record, me) = me.view
  BY <1>1 DEF Rewritten
<1> QED BY <1>2, <1>3, <1>4 DEF Kept

-----------------------------------------------------------------------------
(* From one call's steps to all of them.                                   *)

\* What is known of a row while a call is the only one.
Stands(me, k, record, row, stream) ==
    IF Under(me) /\ k \in Held(me) THEN InHand(me, k, record, row, stream) ELSE Kept(k, record, row, stream)

\* What is to be shown after a step.
LEMMA AgreeIs ==
  ASSUME origin' = origin,
         Calm' => /\ \A d \in Calls : Under(call'[d]) =>
                       \A k \in Held(call'[d]) : InHand(call'[d], k, pb'[k], db'[k], log'[k])
                  /\ \A k \in Sides : (\A d \in Calls : Under(call'[d]) => k \notin Held(call'[d])) =>
                       Kept(k, pb'[k], db'[k], log'[k])
  PROVE  AgreeInv'
BY DEF AgreeInv, InHand, ClickHand, Kept, Ancient, Busy, Under

\* What is known of the row a call is at.
LEMMA HandIs ==
  ASSUME NEW me, NEW k, me.key = k, NEW record, NEW row, NEW stream
  PROVE  /\ me.op = "create" => (InHand(me, k, record, row, stream) <=> CreateHand(me, k, record, row, stream))
         /\ me.op \in {"count", "status"} => (InHand(me, k, record, row, stream) <=> ClickHand(me, record, row, stream))
         /\ me.op = "song" => (InHand(me, k, record, row, stream) <=> SongHand(me, k, record, row, stream))
         /\ me.op \in {"artistCount", "artistList"} => (InHand(me, k, record, row, stream) <=> ArtistHand(me, record, row, stream))
BY DEF InHand

\* A call holds the album, the artist or neither.
LEMMA HeldIs == ASSUME NEW me, me.key \in Keys PROVE Held(me) \subseteq Sides
BY KeysAre DEF Held, Sides

\* A call that goes on while all is calm was alone before, and what was known of
\* the rows is known by its step.
LEMMA AgreeGoesOn ==
  ASSUME CatInv, SlotInv, ClickInv, AgreeInv, NEW c \in Calls, NEW new, GoesOn(c, new), new.key \in Keys, faults' = faults,
         Calm /\ (\A k \in Sides : Stands(call[c], k, pb[k], db[k], log[k])) =>
             \A k \in Sides : Stands(new, k, pb'[k], db'[k], log'[k])
  PROVE  AgreeInv'
<1>1. call'[c] = new /\ \A d \in Calls \ {c} : call'[d] = call[d]
  BY GoesOnIs
<1>2. origin' = origin /\ Busy(c) /\ new.pc # "new" /\ new.op = call[c].op /\ new.alone = call[c].alone
  BY DEF GoesOn, Turn
<1>3. ASSUME Calm'
      PROVE  Calm /\ call[c].alone
  <2>1. \A d \in Calls : call'[d].op = call[d].op /\ call'[d].alone = call[d].alone
    BY <1>1, <1>2
  <2>2. \A d \in Calls : call[d].pc # "new" => call'[d].pc # "new"
    BY <1>1, <1>2
  <2>3. (\A d \in Calls : call'[d].pc # "new" => call'[d].alone) /\ faults' = 0 /\ ~Streamless'
    BY <1>3 DEF Calm
  <2>4. \A d \in Calls : call[d].pc # "new" => call[d].alone
    BY <2>1, <2>2, <2>3
  <2>5. ~Streamless
    BY <1>2, <2>1, <2>3 DEF Streamless
  <2>6. call[c].pc # "new"
    BY <1>2 DEF Busy
  <2> QED BY <2>3, <2>4, <2>5, <2>6 DEF Calm
<1>4. ASSUME Calm' PROVE \A d \in Calls \ {c} : ~Busy(d) /\ ~Under(call'[d])
  <2>1. \A d \in Calls : Busy(d) => d = c
    BY <1>2, <1>3, <1>4 DEF ClickInv
  <2> QED BY <1>1, <2>1 DEF Busy, Under
<1>5. ASSUME Calm' PROVE \A k \in Sides : Stands(call[c], k, pb[k], db[k], log[k])
  <2>1. /\ \A k \in Held(call[c]) : InHand(call[c], k, pb[k], db[k], log[k])
        /\ \A k \in Sides : k \notin Held(call[c]) => Kept(k, pb[k], db[k], log[k])
    BY <1>2, <1>3, <1>4, <1>5 DEF AgreeInv
  <2> QED BY <1>2, <2>1 DEF Stands, Busy, Under
<1>6. ASSUME Calm' PROVE \A k \in Sides : Stands(new, k, pb'[k], db'[k], log'[k])
  BY <1>3, <1>5, <1>6
<1>7. Held(new) \subseteq Sides
  BY HeldIs
<1>8. ASSUME Calm', NEW d \in Calls, Under(call'[d]), NEW k \in Held(call'[d])
      PROVE  InHand(call'[d], k, pb'[k], db'[k], log'[k])
  <2>1. d = c /\ call'[d] = new
    BY <1>1, <1>4, <1>8
  <2>2. k \in Sides /\ Under(new) /\ k \in Held(new)
    BY <1>7, <1>8, <2>1
  <2> QED BY <1>6, <1>8, <2>1, <2>2 DEF Stands
<1>9. ASSUME Calm', NEW k \in Sides, \A d \in Calls : Under(call'[d]) => k \notin Held(call'[d])
      PROVE  Kept(k, pb'[k], db'[k], log'[k])
  BY <1>1, <1>6, <1>9 DEF Stands
<1> QED BY <1>2, <1>8, <1>9, AgreeIs

\* A failure ends what is said of agreement.
LEMMA FailureAgrees == ASSUME CatInv, Fault, origin' = origin PROVE AgreeInv'
<1>1. faults' # 0
  BY DEF Fault, CatInv
<1> QED BY <1>1, AgreeIs DEF Calm

\* A call that begins while all is calm finds every row kept.
LEMMA AgreeBegun ==
  ASSUME CatInv, SlotInv, AgreeInv, NEW c \in Calls, NEW op \in OpNames, NEW first \in CallRec,
         first.pc \notin {"new", "done"}, Begin(c, op, first), faults' = faults,
         faults = 0 /\ ~Streamless' /\ (\A k \in Sides : Kept(k, pb[k], db[k], log[k])) =>
             \A k \in Sides : Stands([first EXCEPT !.op = op, !.alone = TRUE], k, pb'[k], db'[k], log'[k])
  PROVE  AgreeInv'
<1> DEFINE me == [first EXCEPT !.op = op, !.alone = TRUE]
<1>1. origin' = origin /\ call[c].pc = "new" /\ call[c].op = "none" /\ call \in [Calls -> CallRec]
  BY DEF Begin, At, SlotInv, CatInv
<1>2. me \in CallRec /\ me.op = op /\ me.pc = first.pc /\ me.key = first.key
  BY DEF CallRec
<1>3. ASSUME Calm' PROVE (\A d \in Calls : ~Busy(d)) /\ call'[c] = me /\ \A d \in Calls \ {c} : call'[d] = call[d]
  <2> DEFINE beside == {d \in Calls : Busy(d)}
             one    == [first EXCEPT !.op = op, !.alone = beside = {}]
  <2>1. call' = [d \in Calls |-> IF d = c THEN one ELSE IF d \in beside THEN [call[d] EXCEPT !.alone = FALSE] ELSE call[d]]
    BY DEF Begin
  <2>2. one.alone = (beside = {}) /\ one.pc = first.pc
    BY DEF CallRec
  <2>3. call'[c] = one
    BY <2>1
  <2>4. one.alone
    BY <1>3, <2>2, <2>3 DEF Calm
  <2>5. beside = {}
    BY <2>2, <2>4
  <2> QED BY <2>1, <2>3, <2>5
<1> HIDE DEF me
<1>4. ASSUME Calm' PROVE Calm /\ faults = 0 /\ ~Streamless'
  <2>1. (\A d \in Calls : call'[d].pc # "new" => call'[d].alone) /\ faults' = 0 /\ ~Streamless'
    BY <1>4 DEF Calm
  <2>2. \A d \in Calls : call[d].pc # "new" => call[d].alone
    BY <1>1, <1>3, <1>4, <2>1
  <2>3. \A d \in Calls : call[d].op = "song" => call'[d].op = "song"
    BY <1>1, <1>3, <1>4
  <2>4. ~Streamless
    BY <1>1, <2>1, <2>3 DEF Streamless
  <2> QED BY <2>1, <2>2, <2>4 DEF Calm
<1>5. ASSUME Calm' PROVE \A k \in Sides : Kept(k, pb[k], db[k], log[k])
  BY <1>3, <1>4, <1>5 DEF AgreeInv
<1>6. ASSUME Calm' PROVE \A k \in Sides : Stands(me, k, pb'[k], db'[k], log'[k])
  BY <1>4, <1>5, <1>6 DEF me
<1>7. Held(me) \subseteq Sides
  BY <1>2, HeldIs DEF CallRec
<1>8. ASSUME Calm', NEW d \in Calls, Under(call'[d]), NEW k \in Held(call'[d])
      PROVE  InHand(call'[d], k, pb'[k], db'[k], log'[k])
  <2>1. d = c /\ call'[d] = me
    BY <1>3, <1>8 DEF Busy, Under
  <2>2. k \in Sides /\ Under(me) /\ k \in Held(me)
    BY <1>7, <1>8, <2>1
  <2> QED BY <1>6, <1>8, <2>1, <2>2 DEF Stands
<1>9. ASSUME Calm', NEW k \in Sides, \A d \in Calls : Under(call'[d]) => k \notin Held(call'[d])
      PROVE  Kept(k, pb'[k], db'[k], log'[k])
  BY <1>3, <1>6, <1>9 DEF Stands
<1> QED BY <1>1, <1>8, <1>9, AgreeIs

\* A row that is kept, with and without its stream.
LEMMA KeptIs ==
  ASSUME NEW k \in Sides, NEW record \in Rows, NEW row \in Rows, NEW stream \in Seq(Events), Kept(k, record, row, stream)
  PROVE  /\ stream = << >> => /\ row \in {NoRow, record}
                              /\ record = NoRow \/ (k = "album" /\ Ancient /\ Exists(record))
         /\ stream # << >> => row = record /\ Exists(row) /\ Tells(k, record, stream) /\ Folded(k, stream) = record
         /\ ~Exists(NoRow)
<1>1. stream # << >> => row = record /\ Tells(k, record, stream)
  BY DEF Kept
<1>2. stream # << >> => Exists(record) /\ Folded(k, stream) = record
  BY <1>1, TellsIs
<1> QED BY <1>1, <1>2 DEF Kept, Exists, NoRow

\* The first step of a creation, of an album's click and of an artist's click.
LEMMA CreateStarts ==
  ASSUME NEW k \in Sides, NEW me \in CallRec, NEW was \in Rows, NEW row \in Rows, Kept(k, was, row, << >>), ~Exists(was),
         me.pc = "append", ~me.seeding, me.ver = 0, Exists(me.view), k = "artist" => me.view.total = 0,
         me.events = IF k = "album" THEN AlbumFacts(me.view) ELSE ArtistFacts(me.view)
  PROVE  CreateHand(me, k, me.view, row, << >>)
<1>1. row = NoRow
  BY DEF Kept
<1> QED BY <1>1 DEF CreateHand

\* An album's click.
LEMMA ClickStarts ==
  ASSUME NEW me \in CallRec, NEW was \in Rows, NEW row \in Rows, NEW stream \in Seq(Events), Kept("album", was, row, stream),
         Exists(was), me.pc = "mirror", ~me.seeding, Exists(me.view), me.op \in {"count", "status"},
         me.op = "count" => me.view = Counted(was, me.click[1], me.click[2]),
         me.op = "status" => me.was = was /\ me.was = [me.view EXCEPT !.status = me.was.status]
  PROVE  ClickHand(me, me.view, row, stream)
<1>1. /\ stream = << >> => row \in {NoRow, was} /\ (was = NoRow \/ (Ancient /\ Exists(was)))
      /\ stream # << >> => row = was /\ Exists(row) /\ Tells("album", was, stream)
      /\ ~Exists(NoRow)
  BY KeptIs DEF Sides
<1>2. stream = << >> => Ancient
  BY <1>1
<1>3. CASE stream = << >> /\ row = NoRow
  BY <1>2, <1>3 DEF ClickHand
<1>4. CASE row = was
  <2>1. IF me.op = "count" THEN Counted(row, me.click[1], me.click[2]) = me.view ELSE row = me.was
    BY <1>4
  <2>2. Exists(row) /\ (stream # << >> => Tells("album", row, stream))
    BY <1>1, <1>4
  <2> QED BY <1>2, <2>1, <2>2 DEF ClickHand
<1> QED BY <1>1, <1>3, <1>4

\* An artist's click.
LEMMA ArtistStarts ==
  ASSUME NEW me \in CallRec, NEW row \in Rows, NEW stream \in Seq(Events), Kept("artist", me.was, row, stream),
         me.pc = "load", Exists(me.was), Exists(me.view),
         me.view = IF me.op = "artistCount" THEN [me.was EXCEPT !.coll = me.view.coll]
                   ELSE [me.was EXCEPT !.status = me.view.status]
  PROVE  ArtistHand(me, me.was, row, stream)
<1>1. me.was \in Rows /\ "artist" \in Sides /\ "artist" # "album"
  BY DEF CallRec, Sides
<1>2. stream # << >> /\ row = me.was /\ Tells("artist", me.was, stream)
  BY <1>1, KeptIs
<1> QED BY <1>2 DEF ArtistHand

\* What a song owes the streams of its album and artist.
LEMMA SongStarts ==
  ASSUME NEW k \in Sides, NEW was \in Rows, NEW row \in Rows, NEW stream \in Seq(Events), Kept(k, was, row, stream), ~Ancient,
         NEW new \in Rows, IF k = "album" THEN \E typed \in Nat : new = WithSong(was, typed) ELSE new = CreditedOn(was)
  PROVE  Due(k, new, row, stream)
<1>1. Exists(new)
  BY WithSongIs
<1>2. CASE stream = << >>
  <2>1. was = NoRow /\ row = NoRow /\ ~Exists(was)
    <3>1. row \in {NoRow, was} /\ (was = NoRow \/ (k = "album" /\ Ancient /\ Exists(was))) /\ ~Exists(NoRow)
      BY <1>2, KeptIs
    <3> QED BY <3>1
  <2>2. k = "artist" => new.total = 0
    BY <2>1 DEF CreditedOn, Row
  <2> QED BY <1>1, <1>2, <2>1, <2>2 DEF Due
<1>3. CASE stream # << >>
  <2>1. row = was /\ Exists(row) /\ Tells(k, row, stream)
    BY <1>3, KeptIs
  <2>2. k = "album" => row.status = new.status
    BY <2>1 DEF WithSong, Rows
  <2>3. k # "album" => row.status = new.status /\ row.total = new.total
    BY <2>1 DEF CreditedOn, Rows
  <2> QED BY <1>1, <2>1, <2>2, <2>3 DEF Due
<1> QED BY <1>2, <1>3

\* Calls that begin without a song.
LEMMA PlainAgrees == ASSUME CatInv, SlotInv, AgreeInv, NEW c \in Calls, PlainBegun(c) PROVE AgreeInv'
<1>1. PICK op \in OpNames \ {"toggle", "none"}, first \in CallRec :
        /\ Begin(c, op, first) /\ UNCHANGED <<db, log, faults>>
        /\ first.pc # "new" /\ first.key \notin Songs /\ CallOK([first EXCEPT !.op = op, !.alone = TRUE])
        /\ RowsOK(pb') /\ (\A s \in Songs : pb'[s] = pb[s]) /\ Opening(op, first)
  BY DEF PlainBegun
<1> DEFINE me == [first EXCEPT !.op = op, !.alone = TRUE]
<1>2. /\ me \in CallRec /\ me.op = op /\ me.pc = first.pc /\ me.key = first.key /\ me.view = first.view /\ me.was = first.was
      /\ me.ver = first.ver /\ me.seeding = first.seeding /\ me.events = first.events /\ me.click = first.click
  BY DEF CallRec
<1> HIDE DEF me
<1>3. /\ pb \in [Keys -> Rows] /\ db \in [Keys -> Rows] /\ log \in [Keys -> Seq(Events)] /\ db' = db /\ log' = log
      /\ faults' = faults
  BY <1>1 DEF CatInv, RowsOK
<1>4. me.op \in {"create", "count", "status", "artistCount", "artistList"} /\ me.ver = 0 /\ ~me.seeding
  BY <1>1, <1>2 DEF Opening, OpNames
<1>5. me.key \in Sides /\ Held(me) = {me.key} /\ Sides \subseteq Keys
  <2>1. me.key \in Keys /\ me.key \notin Songs
    BY <1>1, <1>2 DEF CallRec
  <2> QED BY <1>4, <2>1, KeysAre DEF Held, Sides
<1>6. me.pc \in {"append", "mirror", "load"}
  BY <1>1, <1>2, <1>4 DEF Opening
<1>7. ASSUME \A k \in Sides : Kept(k, pb[k], db[k], log[k]), NEW k \in Sides
      PROVE  Stands(me, k, pb'[k], db'[k], log'[k])
  <2>0. Kept(k, pb[k], db[k], log[k]) /\ k \in Keys /\ pb[k] \in Rows /\ db[k] \in Rows /\ log[k] \in Seq(Events)
    BY <1>3, <1>5, <1>7
  <2>1. CASE k # me.key
    <3>1. pb'[k] = pb[k]
      <4>1. me.op \in {"count", "status"} => me.key = "album"
        BY <1>1, <1>2 DEF Opening
      <4>2. pb' = [pb EXCEPT ![me.key] = me.view] \/ pb' = pb
        BY <1>1, <1>2, <1>4, <4>1 DEF Opening
      <4> QED BY <1>3, <2>0, <2>1, <4>2
    <3> QED BY <1>3, <1>5, <2>0, <2>1, <3>1 DEF Stands
  <2>2. CASE k = me.key /\ me.op = "create"
    <3>1. /\ me.pc = "append" /\ Exists(me.view) /\ ~Exists(pb[k]) /\ log[k] = << >>
          /\ me.events = (IF k = "album" THEN AlbumFacts(me.view) ELSE ArtistFacts(me.view))
          /\ (k = "artist" => me.view.total = 0) /\ pb' = [pb EXCEPT ![k] = me.view]
      BY <1>1, <1>2, <2>2 DEF Opening
    <3>2. CreateHand(me, k, me.view, db[k], << >>)
      BY <1>2, <1>4, <2>0, <3>1, CreateStarts
    <3>3. pb'[k] = me.view
      BY <1>3, <2>0, <3>1
    <3>4. InHand(me, k, me.view, db[k], << >>)
      BY <2>2, <3>2, HandIs
    <3>5. k \in Held(me) /\ Under(me) /\ db'[k] = db[k] /\ log'[k] = log[k]
      BY <1>3, <1>5, <1>6, <2>2 DEF Under
    <3> QED BY <3>1, <3>3, <3>4, <3>5 DEF Stands
  <2>3. CASE k = me.key /\ me.op = "count"
    <3>1. /\ me.pc = "mirror" /\ k = "album" /\ Exists(me.view) /\ Exists(pb[k])
          /\ me.view = Counted(pb[k], me.click[1], me.click[2]) /\ pb' = [pb EXCEPT ![k] = me.view]
      BY <1>1, <1>2, <2>3 DEF Opening
    <3>2. ClickHand(me, me.view, db[k], log[k])
      BY <1>2, <1>4, <2>0, <2>3, <3>1, ClickStarts
    <3>3. pb'[k] = me.view
      BY <1>3, <2>0, <3>1
    <3>4. InHand(me, k, me.view, db[k], log[k])
      BY <2>3, <3>2, HandIs
    <3>5. k \in Held(me) /\ Under(me) /\ db'[k] = db[k] /\ log'[k] = log[k]
      BY <1>3, <1>5, <1>6, <2>3 DEF Under
    <3> QED BY <3>1, <3>3, <3>4, <3>5 DEF Stands
  <2>4. CASE k = me.key /\ me.op = "status"
    <3>1. /\ me.pc = "mirror" /\ k = "album" /\ me.was = pb[k] /\ Exists(me.was) /\ Exists(me.view)
          /\ me.was = [me.view EXCEPT !.status = me.was.status] /\ pb' = [pb EXCEPT ![k] = me.view]
      BY <1>1, <1>2, <2>4 DEF Opening
    <3>2. ClickHand(me, me.view, db[k], log[k])
      BY <1>2, <1>4, <2>0, <2>4, <3>1, ClickStarts
    <3>3. pb'[k] = me.view
      BY <1>3, <2>0, <3>1
    <3>4. InHand(me, k, me.view, db[k], log[k])
      BY <2>4, <3>2, HandIs
    <3>5. k \in Held(me) /\ Under(me) /\ db'[k] = db[k] /\ log'[k] = log[k]
      BY <1>3, <1>5, <1>6, <2>4 DEF Under
    <3> QED BY <3>1, <3>3, <3>4, <3>5 DEF Stands
  <2>5. CASE k = me.key /\ me.op \in {"artistCount", "artistList"}
    <3>1. /\ me.pc = "load" /\ k = "artist" /\ me.was = pb[k] /\ Exists(me.was) /\ Exists(me.view) /\ pb' = pb
          /\ me.view = IF me.op = "artistCount" THEN [me.was EXCEPT !.coll = me.view.coll]
                       ELSE [me.was EXCEPT !.status = me.view.status]
      BY <1>1, <1>2, <2>5 DEF Opening
    <3>2. ArtistHand(me, me.was, db[k], log[k])
      BY <1>2, <2>0, <3>1, ArtistStarts
    <3>3. InHand(me, k, me.was, db[k], log[k])
      BY <2>5, <3>2, HandIs
    <3>4. k \in Held(me) /\ Under(me) /\ pb'[k] = me.was /\ db'[k] = db[k] /\ log'[k] = log[k]
      BY <1>3, <1>5, <1>6, <2>5, <3>1 DEF Under
    <3> QED BY <3>3, <3>4 DEF Stands
  <2> QED BY <1>4, <2>1, <2>2, <2>3, <2>4, <2>5
<1> QED
  <2>1. first.pc \notin {"new", "done"} /\ op \in OpNames
    BY <1>2, <1>6
  <2>2. (\A k \in Sides : Kept(k, pb[k], db[k], log[k])) => \A k \in Sides : Stands(me, k, pb'[k], db'[k], log'[k])
    BY <1>7
  <2> QED BY <1>1, <1>3, <2>1, <2>2, AgreeBegun DEF me

\* A song that begins owes its album and its artist their events.
LEMMA NewSongAgrees == ASSUME CatInv, SlotInv, AgreeInv, NEW c \in Calls, CreateSong(c) PROVE AgreeInv'
<1>1. PICK s \in Songs, place \in Rows, album \in Rows, artist \in Rows : SongBegun(c, s, place, album, artist)
  BY SongBegins
<1> DEFINE first == SongFirst(s, place, album, artist)
           me    == [first EXCEPT !.op = "song", !.alone = TRUE]
<1>2. /\ first \in CallRec /\ Begin(c, "song", first) /\ db' = db /\ log' = log /\ faults' = faults
      /\ pb' = [pb EXCEPT !["album"] = album, !["artist"] = artist, ![s] = place]
      /\ artist = CreditedOn(pb["artist"]) /\ (\E typed \in Nat : album = WithSong(pb["album"], typed))
  BY <1>1 DEF SongBegun
<1>3. first.pc = "append" /\ me.pc = "append" /\ me.op = "song" /\ me.key = s /\ me.view = album /\ me.credit = artist
  BY DEF SongFirst, Waiting
<1>4. first.pc \notin {"new", "done"} /\ "song" \in OpNames
  BY <1>3 DEF OpNames
<1>5. pb \in [Keys -> Rows] /\ db \in [Keys -> Rows] /\ log \in [Keys -> Seq(Events)]
  BY DEF CatInv, RowsOK
<1>6. s # "artist" /\ s # "album" /\ Sides \subseteq Keys
  BY KeysAre DEF Sides
<1>7. Held(me) = Sides /\ Under(me)
  BY <1>3, <1>6 DEF Held, Under
<1>8. pb'["album"] = album /\ pb'["artist"] = artist
  BY <1>2, <1>5, <1>6, KeysAre
<1>9. origin' = origin /\ call'[c].op = "song"
  <2>1. call' = [d \in Calls |-> IF d = c THEN [first EXCEPT !.op = "song", !.alone = {e \in Calls : Busy(e)} = {}]
                                 ELSE IF d \in {e \in Calls : Busy(e)} THEN [call[d] EXCEPT !.alone = FALSE] ELSE call[d]]
    BY <1>2 DEF Begin
  <2>2. call'[c] = [first EXCEPT !.op = "song", !.alone = {e \in Calls : Busy(e)} = {}]
    BY <2>1
  <2> QED BY <1>2, <2>2 DEF Begin, CallRec
<1> HIDE DEF first, me
<1>10. ASSUME ~Streamless' PROVE ~Ancient
  BY <1>9, <1>10 DEF Streamless, Ancient
<1>11. ASSUME ~Ancient, \A k \in Sides : Kept(k, pb[k], db[k], log[k]), NEW k \in Sides
       PROVE  Stands(me, k, pb'[k], db'[k], log'[k])
  <2>1. Kept(k, pb[k], db[k], log[k]) /\ k \in Keys /\ pb[k] \in Rows /\ db[k] \in Rows /\ log[k] \in Seq(Events)
    BY <1>5, <1>6, <1>11
  <2>2. Goal(me, k) \in Rows /\ pb'[k] = Goal(me, k)
    BY <1>3, <1>8 DEF Goal, Sides
  <2>3. IF k = "album" THEN \E typed \in Nat : Goal(me, k) = WithSong(pb[k], typed) ELSE Goal(me, k) = CreditedOn(pb[k])
    BY <1>2, <1>3 DEF Goal, Sides
  <2>4. Due(k, Goal(me, k), db[k], log[k])
    BY <1>11, <2>1, <2>2, <2>3, SongStarts
  <2>5. InHand(me, k, pb'[k], db'[k], log'[k])
    BY <1>2, <1>3, <1>6, <2>2, <2>4 DEF InHand, Sides
  <2> QED BY <1>7, <2>5 DEF Stands
<1> QED
  <2>1. ~Streamless' /\ (\A k \in Sides : Kept(k, pb[k], db[k], log[k])) => \A k \in Sides : Stands(me, k, pb'[k], db'[k], log'[k])
    BY <1>10, <1>11
  <2> QED BY <1>2, <1>4, <2>1, AgreeBegun DEF me

\* A toggle is about neither.
LEMMA ToggleAgrees == ASSUME CatInv, SlotInv, AgreeInv, NEW c \in Calls, Toggle(c) PROVE AgreeInv'
<1>1. PICK s \in Songs, view \in Rows :
           LET first == [Waiting EXCEPT !.pc = "save", !.key = s, !.was = pb[s], !.view = view]
           IN  first \in CallRec /\ Begin(c, "toggle", first) /\ UNCHANGED stores
  BY ToggleBegins
<1> DEFINE first == [Waiting EXCEPT !.pc = "save", !.key = s, !.was = pb[s], !.view = view]
           me    == [first EXCEPT !.op = "toggle", !.alone = TRUE]
<1>2. first \in CallRec /\ Begin(c, "toggle", first) /\ pb' = pb /\ db' = db /\ log' = log /\ faults' = faults
  BY <1>1 DEF stores
<1>3. first.pc = "save" /\ me.op = "toggle" /\ me.key = s
  BY DEF Waiting
<1> HIDE DEF first, me
<1>4. Held(me) = {}
  BY <1>3 DEF Held
<1>5. (\A k \in Sides : Kept(k, pb[k], db[k], log[k])) => \A k \in Sides : Stands(me, k, pb'[k], db'[k], log'[k])
  BY <1>2, <1>4 DEF Stands
<1>6. "toggle" \in OpNames /\ first.pc \notin {"new", "done"}
  BY <1>3 DEF OpNames
<1> QED BY <1>2, <1>5, <1>6, AgreeBegun DEF me

\* At first the album stands in the places its origin says.
LEMMA InitAgrees == ASSUME Init PROVE AgreeInv
<1>1. PICK placed \in {{}} \cup {{s} : s \in Songs} :
        LET there(k, places) == k \in placed \/ (k = "album" /\ origin \in places)
            old(k) == IF k \in Songs THEN Row("recent", 1, BatchSize) ELSE Row("waiting", 1, 1)
            at(places) == [k \in Keys |-> IF there(k, places) THEN old(k) ELSE NoRow]
        IN  /\ pb = at({"pb", "pb+db", "everywhere"}) /\ db = at({"pb+db", "everywhere"})
            /\ log = [k \in Keys |-> IF there(k, {"everywhere"})
                                     THEN <<Event("Created", old(k))>> ELSE << >>]
  BY DEF Init
<1> DEFINE one == Row("waiting", 1, 1)
<1>2. one \in Rows /\ Exists(one)
  BY RowIs DEF Labels, Row, Exists
<1>3. "album" \notin placed /\ "artist" \notin placed /\ "album" \notin Songs
  BY KeysAre
<1> HIDE DEF one
<1>4. /\ pb["album"] = (IF origin \in {"pb", "pb+db", "everywhere"} THEN one ELSE NoRow)
      /\ db["album"] = (IF origin \in {"pb+db", "everywhere"} THEN one ELSE NoRow)
      /\ log["album"] = IF origin \in {"everywhere"} THEN <<Event("Created", one)>> ELSE << >>
  BY <1>1, <1>3, KeysAre DEF one
<1>5. pb["artist"] = NoRow /\ db["artist"] = NoRow /\ log["artist"] = << >>
  BY <1>1, <1>3, KeysAre
<1>6. Tells("album", one, <<Event("Created", one)>>)
  BY <1>2, ToldFirst DEF Sides
<1>7. <<Event("Created", one)>> # << >>
  OBVIOUS
<1>8. Kept("album", pb["album"], db["album"], log["album"])
  <2>1. CASE origin = "everywhere"
    BY <1>4, <1>6, <1>7, <2>1 DEF Kept
  <2>2. CASE origin # "everywhere"
    BY <1>2, <1>4, <2>2 DEF Kept, Ancient
  <2> QED BY <2>1, <2>2
<1>9. Kept("artist", pb["artist"], db["artist"], log["artist"])
  BY <1>5 DEF Kept
<1>10. \A d \in Calls : ~Busy(d)
  BY DEF Init, Busy, Waiting
<1> QED BY <1>8, <1>9, <1>10 DEF AgreeInv, Sides

\* A row that a step is not about.
LEMMA Beside ==
  ASSUME NEW me, NEW new, Likewise(new, me), Under(me), Under(new) \/ Held(me) \subseteq {me.key},
         NEW k \in Sides, k # me.key, NEW record, NEW row, NEW stream, Stands(me, k, record, row, stream)
  PROVE  Stands(new, k, record, row, stream)
<1>1. Held(new) = Held(me) /\ Goal(new, k) = Goal(me, k) /\ new.key = me.key
  BY DEF Likewise, Held, Goal
<1>2. CASE k \in Held(me)
  <2>1. Under(new)
    BY <1>2
  <2>2. record = Goal(me, k) /\ Due(k, Goal(me, k), row, stream)
    BY <1>2 DEF Stands, InHand
  <2> QED BY <1>1, <1>2, <2>1, <2>2 DEF Stands, InHand
<1>3. CASE k \notin Held(me)
  BY <1>1, <1>3 DEF Stands
<1> QED BY <1>2, <1>3

\* A step about one row.
LEMMA AgreeStep ==
  ASSUME CatInv, SlotInv, ClickInv, AgreeInv, NEW c \in Calls, NEW new, GoesOn(c, new), Likewise(new, call[c]),
         Under(new) \/ Held(call[c]) \subseteq {call[c].key}, faults' = faults,
         \A k \in Sides : k # call[c].key => pb'[k] = pb[k] /\ db'[k] = db[k] /\ log'[k] = log[k],
         \A k \in Sides : k = call[c].key /\ Calm /\ Stands(call[c], k, pb[k], db[k], log[k])
             => Stands(new, k, pb'[k], db'[k], log'[k])
  PROVE  AgreeInv'
<1>1. Under(call[c]) /\ new.key = call[c].key /\ call[c] \in CallRec
  BY DEF GoesOn, Busy, Under, Likewise, CatInv
<1>2. ASSUME Calm, NEW k \in Sides, Stands(call[c], k, pb[k], db[k], log[k])
      PROVE  Stands(new, k, pb'[k], db'[k], log'[k])
  <2>1. CASE k = call[c].key
    BY <1>2, <2>1
  <2>2. CASE k # call[c].key
    <3>1. Stands(new, k, pb[k], db[k], log[k])
      BY <1>1, <1>2, <2>2, Beside
    <3> QED BY <2>2, <3>1
  <2> QED BY <2>1, <2>2
<1>3. new.key \in Keys
  BY <1>1 DEF CallRec
<1> QED BY <1>2, <1>3, AgreeGoesOn

\* What a call comes to when it is done with a row: nothing, or a song's album
\* and artist.
LEMMA OnwardClaims ==
  ASSUME NEW me, CallOK(me), me.pc \in Records, me.op \notin {"artistCount", "artistList"},
         NEW k \in Sides, NEW record, NEW row, NEW stream,
         IF k = me.key THEN Kept(k, record, row, stream) ELSE Stands(me, k, record, row, stream)
  PROVE  Stands(Onward(me), k, record, row, stream)
<1>1. me \in CallRec /\ Shape(me) /\ me.todo \in Seq({"album", "artist"}) /\ Under(me)
  BY DEF CallOK, Under, Records, CallRec
<1>2. CASE me.todo = << >>
  <2>1. ~Under(Onward(me))
    BY <1>1, <1>2 DEF Onward, CallRec, Under
  <2>2. k # me.key => k \notin Held(me)
    BY <1>1, <1>2, KeysAre DEF Shape, Held, Sides
  <2>3. Kept(k, record, row, stream)
    BY <2>2 DEF Stands
  <2> QED BY <2>1, <2>3 DEF Stands
<1>3. ASSUME me.op = "song", me.key # "artist", k # me.key
      PROVE  record = Goal(me, k) /\ Due(k, Goal(me, k), row, stream)
  <2>1. Stands(me, k, record, row, stream) /\ k \in Held(me)
    BY <1>3 DEF Held
  <2>2. InHand(me, k, record, row, stream)
    BY <1>1, <2>1 DEF Stands
  <2> QED BY <1>3, <2>2 DEF InHand
<1>4. ASSUME NEW new, new.op = "song", new.pc = "load", new.view = me.view, new.credit = me.credit,
             record = Goal(me, k), Due(k, Goal(me, k), row, stream), k \in Held(new)
      PROVE  Stands(new, k, record, row, stream)
  <2>1. Goal(new, k) = Goal(me, k) /\ Under(new) /\ Exists(Goal(me, k))
    BY <1>4 DEF Goal, Under, Due
  <2>2. CASE k = new.key
    <3>1. SongHand(new, k, record, row, stream)
      BY <1>4, <2>1 DEF SongHand
    <3>2. InHand(new, k, record, row, stream)
      BY <1>4, <2>2, <3>1, HandIs
    <3> QED BY <1>4, <2>1, <3>2 DEF Stands
  <2>3. CASE k # new.key
    BY <1>4, <2>1, <2>3 DEF Stands, InHand
  <2> QED BY <2>2, <2>3
<1>5. CASE me.todo = <<"album", "artist">>
  <2>1. Head(me.todo) = "album" /\ Tail(me.todo) = <<"artist">>
    BY <1>5
  <2>2. Onward(me) = [me EXCEPT !.pc = "load", !.key = "album", !.todo = <<"artist">>]
    BY <1>1, <1>5, <2>1 DEF Onward
  <2>3. me.op = "song" /\ me.key \in Songs /\ me.key # "artist" /\ k # me.key
    BY <1>1, <1>5, KeysAre DEF Shape, Sides
  <2>4. /\ Onward(me).op = "song" /\ Onward(me).pc = "load" /\ Onward(me).view = me.view
        /\ Onward(me).credit = me.credit /\ Onward(me).key = "album"
    BY <1>1, <2>2, <2>3 DEF CallRec
  <2>5. k \in Held(Onward(me))
    BY <2>4 DEF Held
  <2> QED BY <1>3, <1>4, <2>3, <2>4, <2>5
<1>6. CASE me.todo = <<"artist">>
  <2>1. Head(me.todo) = "artist" /\ Tail(me.todo) = << >>
    BY <1>6
  <2>2. Onward(me) = [me EXCEPT !.pc = "load", !.key = "artist", !.todo = << >>]
    BY <1>1, <1>6, <2>1 DEF Onward
  <2>3. me.op = "song" /\ me.key = "album"
    BY <1>1, <1>6 DEF Shape
  <2>4. /\ Onward(me).op = "song" /\ Onward(me).pc = "load" /\ Onward(me).view = me.view
        /\ Onward(me).credit = me.credit /\ Onward(me).key = "artist"
    BY <1>1, <2>2, <2>3 DEF CallRec
  <2>5. Held(Onward(me)) = {"artist"}
    BY <2>4, KeysAre DEF Held
  <2>6. CASE k = "album"
    BY <2>3, <2>5, <2>6 DEF Stands
  <2>7. CASE k = "artist"
    BY <1>3, <1>4, <2>3, <2>4, <2>5, <2>7
  <2> QED BY <2>6, <2>7 DEF Sides
<1> QED BY <1>1, <1>2, <1>5, <1>6 DEF Shape

\* A step that is the last about its row.
LEMMA AgreeOnward ==
  ASSUME CatInv, SlotInv, ClickInv, AgreeInv, NEW c \in Calls, call[c].pc \in Records,
         call[c].op \notin {"artistCount", "artistList"}, Turn(c, Onward(call[c])), faults' = faults,
         \A k \in Sides : k # call[c].key => pb'[k] = pb[k] /\ db'[k] = db[k] /\ log'[k] = log[k],
         \A k \in Sides : k = call[c].key /\ Calm /\ Stands(call[c], k, pb[k], db[k], log[k])
             => Kept(k, pb'[k], db'[k], log'[k])
  PROVE  AgreeInv'
<1> DEFINE me == call[c]
<1>1. CallOK(me) /\ me \in CallRec
  BY DEF CatInv
<1>2. /\ Onward(me).op = me.op /\ Onward(me).alone = me.alone /\ Onward(me).pc \in {"save", "load", "done"}
      /\ CallOK(Onward(me))
  BY <1>1, OnwardKeeps, OnwardIs
<1>3. GoesOn(c, Onward(me)) /\ Onward(me).key \in Keys
  BY <1>2 DEF GoesOn, Busy, Records, CallOK, CallRec
<1>4. ASSUME Calm, NEW k \in Sides, Stands(me, k, pb[k], db[k], log[k])
      PROVE  Stands(Onward(me), k, pb'[k], db'[k], log'[k])
  <2>1. IF k = me.key THEN Kept(k, pb'[k], db'[k], log'[k]) ELSE Stands(me, k, pb'[k], db'[k], log'[k])
    BY <1>4
  <2> HIDE DEF me
  <2> QED BY <1>1, <2>1, OnwardClaims DEF me
<1> HIDE DEF me
<1>5. Calm /\ (\A k \in Sides : Stands(me, k, pb[k], db[k], log[k])) =>
        \A k \in Sides : Stands(Onward(me), k, pb'[k], db'[k], log'[k])
  BY <1>4
<1> QED BY <1>3, <1>5, AgreeGoesOn DEF me

\* Failures of a call.
LEMMA FailingAgrees == ASSUME CatInv, Fault, NEW c \in Calls, End(c) \/ Drop(c) PROVE AgreeInv'
BY FailureAgrees DEF End, Drop, Turn

-----------------------------------------------------------------------------
(* The steps of every kind of call, at the row it is at.                   *)

\* Loading.
LEMMA LoadClaims ==
  ASSUME NEW k \in Sides, NEW me, CallOK(me), me.pc = "load", me.key = k, NEW record, NEW row \in Rows,
         NEW stream \in Seq(Events), LogOK(k, stream), InHand(me, k, record, row, stream),
         NEW then, then = Change(me, Folded(k, stream))
  PROVE  /\ stream = << >> => /\ me.op \notin {"artistCount", "artistList"}
                              /\ \A new : Loading(new, me, TRUE, 0, <<Event("Created", Seed(me))>>)
                                            => InHand(new, k, record, row, stream)
         /\ stream # << >> /\ then # << >> =>
              \A new : Loading(new, me, FALSE, Len(stream), then) => InHand(new, k, record, row, stream)
         /\ stream # << >> /\ then = << >> =>
              IF me.op \in {"artistCount", "artistList"}
              THEN \A new : Likewise(new, me) /\ new.pc = "save" => InHand(new, k, record, row, stream)
              ELSE Kept(k, record, row, stream)
<1>1. me \in CallRec /\ Shape(me) /\ k \notin Songs /\ (k = "album" \/ k = "artist")
  BY KeysAre DEF CallOK, Under, Sides
<1>2. \A new : Likewise(new, me) => new.key = k /\ new.op = me.op
  BY DEF Likewise
<1>3. \A new, seeding, ver, events : Loading(new, me, seeding, ver, events) => new.key = k /\ new.op = me.op
  BY DEF Likewise, Loading
<1>4. CASE me.op \in {"count", "status"}
  <2>1. k = "album" /\ ClickHand(me, record, row, stream)
    BY <1>1, <1>4, HandIs DEF Shape
  <2>2. Seed(me) = AlbumSeed(me) /\ then = AlbumChange(me, Folded("album", stream))
    BY <2>1 DEF Seed, Change
  <2>3. /\ stream = << >> =>
              \A new : Loading(new, me, TRUE, 0, <<Event("Created", AlbumSeed(me))>>) => ClickHand(new, record, row, stream)
        /\ stream # << >> /\ then # << >> =>
              \A new : Loading(new, me, FALSE, Len(stream), then) => ClickHand(new, record, row, stream)
        /\ stream # << >> /\ then = << >> => Kept("album", record, row, stream)
    BY <1>1, <1>4, <2>1, <2>2, ClickLoads
  <2> QED BY <1>3, <1>4, <2>1, <2>2, <2>3, HandIs
<1>5. CASE me.op = "song"
  <2>1. SongHand(me, k, record, row, stream)
    BY <1>1, <1>5, HandIs
  <2>2. /\ stream = << >> =>
              \A new : Loading(new, me, TRUE, 0, <<Event("Created", Seed(me))>>) => SongHand(new, k, record, row, stream)
        /\ stream # << >> /\ then # << >> =>
              \A new : Loading(new, me, FALSE, Len(stream), then) => SongHand(new, k, record, row, stream)
        /\ stream # << >> /\ then = << >> => Kept(k, record, row, stream)
    BY <1>1, <1>5, <2>1, SongLoads
  <2> QED BY <1>3, <1>5, <2>2, HandIs
<1>6. CASE me.op \in {"artistCount", "artistList"}
  <2>1. k = "artist" /\ ArtistHand(me, record, row, stream)
    BY <1>1, <1>6, HandIs DEF Shape
  <2>2. then = ArtistChange(me, Folded("artist", stream))
    BY <2>1, KeysAre DEF Change
  <2>3. /\ stream # << >>
        /\ then # << >> => \A new : Loading(new, me, FALSE, Len(stream), then) => ArtistHand(new, record, row, stream)
        /\ then = << >> => \A new : Likewise(new, me) /\ new.pc = "save" => ArtistHand(new, record, row, stream)
    BY <1>1, <1>6, <2>1, <2>2, ArtistLoads
  <2> QED BY <1>2, <1>3, <1>6, <2>1, <2>3, HandIs
<1> QED BY <1>1, <1>4, <1>5, <1>6 DEF Shape

\* Appending: nobody else has, and the stream tells what the call is to tell.
LEMMA StoreClaims ==
  ASSUME NEW k \in Sides, NEW me, CallOK(me), me.pc = "append", me.key = k, NEW record, NEW row \in Rows,
         NEW stream \in Seq(Events), LogOK(k, stream), InHand(me, k, record, row, stream)
  PROVE  /\ me.ver = Len(stream)
         /\ \A new : Likewise(new, me) /\ new.pc = "project" /\ new.events = me.events /\ new.seeding = me.seeding
                        => InHand(new, k, record, row, stream \o me.events)
<1>1. me \in CallRec /\ Shape(me) /\ k \notin Songs /\ (k = "album" \/ k = "artist")
  BY KeysAre DEF CallOK, Under, Sides
<1>2. Len(<< >>) = 0
  OBVIOUS
<1>3. ASSUME NEW new, Likewise(new, me), new.pc = "project", new.events = me.events, new.seeding = me.seeding
      PROVE  InHand(new, k, record, row, stream \o me.events)
  <2>0. new.key = k /\ new.op = me.op
    BY <1>3 DEF Likewise
  <2>1. CASE me.op = "create"
    <3>1. CreateHand(new, k, record, row, stream \o me.events)
      <4>1. CreateHand(me, k, record, row, stream)
        BY <2>1, HandIs
      <4> QED BY <1>1, <1>3, <4>1, CreateAppends
    <3> QED BY <2>0, <2>1, <3>1, HandIs
  <2>2. CASE me.op \in {"count", "status"}
    <3>1. k = "album" /\ ClickHand(me, record, row, stream)
      BY <1>1, <2>2, HandIs DEF Shape
    <3>2. ClickHand(new, record, row, stream \o me.events)
      BY <1>1, <1>3, <2>2, <3>1, ClickAppends
    <3> QED BY <2>0, <2>2, <3>2, HandIs
  <2>3. CASE me.op = "song"
    <3>1. SongHand(me, k, record, row, stream)
      BY <2>3, HandIs
    <3>2. SongHand(new, k, record, row, stream \o me.events)
      BY <1>1, <1>3, <2>3, <3>1, SongAppends
    <3> QED BY <2>0, <2>3, <3>2, HandIs
  <2>4. CASE me.op \in {"artistCount", "artistList"}
    <3>1. ArtistHand(me, record, row, stream)
      BY <2>4, HandIs
    <3>2. ArtistHand(new, record, row, stream \o me.events)
      BY <1>1, <1>3, <2>4, <3>1, ArtistAppends
    <3> QED BY <2>0, <2>4, <3>2, HandIs
  <2> QED BY <1>1, <2>1, <2>2, <2>3, <2>4 DEF Shape
<1>4. me.ver = Len(stream)
  <2>1. CASE me.op = "create"
    BY <1>2, <2>1, HandIs DEF CreateHand
  <2>2. CASE me.op \in {"count", "status"}
    <3>1. ClickHand(me, record, row, stream)
      BY <2>2, HandIs
    <3> QED BY <1>2, <3>1 DEF ClickHand
  <2>3. CASE me.op = "song"
    BY <2>3, HandIs DEF SongHand
  <2>4. CASE me.op \in {"artistCount", "artistList"}
    BY <2>4, HandIs DEF ArtistHand
  <2> QED BY <1>1, <2>1, <2>2, <2>3, <2>4 DEF Shape
<1> QED BY <1>3, <1>4

\* Projecting.
LEMMA PublishClaims ==
  ASSUME NEW k \in Sides, NEW me, CallOK(me), me.pc = "project", me.key = k, NEW record, NEW row \in Rows,
         NEW stream \in Seq(Events), InHand(me, k, record, row, stream),
         NEW then, then = Projected(k, row, me.events)
  PROVE  /\ me.seeding => /\ me.op \notin {"artistCount", "artistList"}
                          /\ \A new : Likewise(new, me) /\ new.pc = "load" => InHand(new, k, record, then, stream)
         /\ ~me.seeding =>
              IF me.op \in {"artistCount", "artistList"}
              THEN \A new : Likewise(new, me) /\ new.pc = "save" => InHand(new, k, record, then, stream)
              ELSE Kept(k, record, then, stream)
<1>1. me \in CallRec /\ Shape(me) /\ k \notin Songs /\ (k = "album" \/ k = "artist")
  BY KeysAre DEF CallOK, Under, Sides
<1>2. \A new : Likewise(new, me) => new.key = k /\ new.op = me.op
  BY DEF Likewise
<1>3. CASE me.op = "create"
  <2>1. CreateHand(me, k, record, row, stream)
    BY <1>3, HandIs
  <2>2. ~me.seeding
    BY <1>1, <1>3 DEF Shape
  <2>3. Kept(k, record, then, stream)
    BY <1>1, <2>1, CreatePublishes
  <2> QED BY <1>3, <2>2, <2>3
<1>4. CASE me.op \in {"count", "status"}
  <2>1. k = "album" /\ ClickHand(me, record, row, stream)
    BY <1>1, <1>4, HandIs DEF Shape
  <2>2. /\ me.seeding => \A new : Likewise(new, me) /\ new.pc = "load" => ClickHand(new, record, then, stream)
        /\ ~me.seeding => Kept("album", record, then, stream)
    BY <1>1, <1>4, <2>1, ClickPublishes
  <2> QED BY <1>2, <1>4, <2>1, <2>2, HandIs
<1>5. CASE me.op = "song"
  <2>1. SongHand(me, k, record, row, stream)
    BY <1>5, HandIs
  <2>2. /\ me.seeding => \A new : Likewise(new, me) /\ new.pc = "load" => SongHand(new, k, record, then, stream)
        /\ ~me.seeding => Kept(k, record, then, stream)
    BY <1>1, <1>5, <2>1, SongPublishes
  <2> QED BY <1>2, <1>5, <2>2, HandIs
<1>6. CASE me.op \in {"artistCount", "artistList"}
  <2>1. k = "artist" /\ ArtistHand(me, record, row, stream)
    BY <1>1, <1>6, HandIs DEF Shape
  <2>2. ~me.seeding
    BY <2>1 DEF ArtistHand
  <2>3. ASSUME NEW new, Likewise(new, me), new.pc = "save" PROVE InHand(new, k, record, then, stream)
    <3>1. ArtistHand(new, record, then, stream)
      BY <1>1, <1>6, <2>1, <2>3, ArtistPublishes
    <3> QED BY <1>2, <1>6, <2>3, <3>1, HandIs
  <2> QED BY <1>6, <2>2, <2>3
<1> QED BY <1>1, <1>3, <1>4, <1>5, <1>6 DEF Shape

-----------------------------------------------------------------------------
(* Every step keeps what is known of the rows.                             *)

\* The UPDATE of an album's click.
LEMMA MirrorAgrees == ASSUME CatInv, SlotInv, ClickInv, AgreeInv, NEW c \in Calls, Mirror(c) PROVE AgreeInv'
<1> DEFINE me == call[c]
           row == IF me.op = "count" THEN CountMirrored(db["album"], me) ELSE StatusMirrored(db["album"], me)
           new == [me EXCEPT !.view = row, !.pc = IF Moved(me) THEN "load" ELSE "done"]
<1>1. me \in CallRec /\ CallOK(me) /\ me.pc = "mirror" /\ Busy(c) /\ Under(me) /\ Shape(me) /\ pb' = pb /\ log' = log
  BY DEF Mirror, At, CatInv, Busy, CallOK, Under
<1>2. CASE db' = [db EXCEPT !["album"] = row] /\ UNCHANGED faults /\ Turn(c, new)
  <2>1. /\ new.op = me.op /\ new.alone = me.alone /\ new.key = me.key /\ new.was = me.was /\ new.view = row
        /\ new.credit = me.credit /\ new.click = me.click /\ new.pc = (IF Moved(me) THEN "load" ELSE "done")
    BY <1>1 DEF CallRec
  <2> HIDE DEF new
  <2>2. GoesOn(c, new)
    BY <1>1, <1>2, <2>1 DEF GoesOn
  <2>3. me.key = "album" /\ me.op \in {"count", "status"}
    BY <1>1 DEF Shape, Records
  <2>4. db'["album"] = row /\ db'["artist"] = db["artist"]
    BY <1>2, KeysAre DEF CatInv, RowsOK
  <2>5. db["album"] \in Rows /\ log["album"] \in Seq(Events)
    BY KeysAre DEF CatInv, RowsOK
  <2>6. ASSUME Calm, \A k \in Sides : Stands(me, k, pb[k], db[k], log[k]), NEW k \in Sides
        PROVE  Stands(new, k, pb'[k], db'[k], log'[k])
    <3>1. Held(me) = {"album"} /\ "album" \in Sides /\ "artist" \in Sides
      BY <2>3, KeysAre DEF Held, Sides
    <3>2. ClickHand(me, pb["album"], db["album"], log["album"])
      <4>1. Stands(me, "album", pb["album"], db["album"], log["album"])
        BY <2>6, <3>1
      <4>2. InHand(me, "album", pb["album"], db["album"], log["album"])
        BY <1>1, <3>1, <4>1 DEF Stands
      <4> QED BY <2>3, <4>2, HandIs
    <3>3. /\ row = me.view
          /\ \A n : Likewise(n, me) /\ n.pc = "load" => ClickHand(n, pb["album"], row, log["album"])
          /\ ~Moved(me) => Kept("album", pb["album"], row, log["album"])
      BY <1>1, <2>3, <2>5, <3>2, ClickMirrors
    <3>4. Likewise(new, me) /\ Held(new) = {"album"}
      BY <2>1, <3>1, <3>3 DEF Likewise, Held
    <3>5. CASE k = "artist"
      <4>1. Stands(new, k, pb[k], db[k], log[k])
        BY <1>1, <2>3, <2>6, <3>1, <3>4, <3>5, KeysAre, Beside
      <4> QED BY <1>1, <2>4, <3>5, <4>1
    <3>6. CASE k = "album" /\ Moved(me)
      <4>1. ClickHand(new, pb["album"], row, log["album"])
        BY <2>1, <3>3, <3>4, <3>6
      <4>2. InHand(new, "album", pb["album"], row, log["album"])
        BY <2>1, <2>3, <4>1, HandIs
      <4> QED BY <1>1, <2>1, <2>4, <3>4, <3>6, <4>2 DEF Stands, Under
    <3>7. CASE k = "album" /\ ~Moved(me)
      BY <1>1, <2>1, <2>4, <3>3, <3>7 DEF Stands, Under
    <3> QED BY <3>5, <3>6, <3>7 DEF Sides
  <2>7. Calm /\ (\A k \in Sides : Stands(me, k, pb[k], db[k], log[k])) => \A k \in Sides : Stands(new, k, pb'[k], db'[k], log'[k])
    BY <2>6
  <2>8. new.key \in Keys /\ faults' = faults
    BY <1>2, <2>1, <2>3, KeysAre
  <2> HIDE DEF me
  <2> QED BY <2>2, <2>7, <2>8, AgreeGoesOn DEF me
<1>3. CASE Fault /\ End(c) /\ UNCHANGED db
  BY <1>3, FailingAgrees
<1> QED BY <1>2, <1>3 DEF Mirror

\* The save of a toggled song or of an artist whose event is stored.
LEMMA SaveRecordAgrees == ASSUME CatInv, SlotInv, ClickInv, AgreeInv, NEW c \in Calls, SaveRecord(c) PROVE AgreeInv'
<1>0. PICK s \in Keys : s = call[c].key
  BY DEF CatInv, CallRec
<1> DEFINE me == call[c]
           new == [me EXCEPT !.pc = IF me.op = "toggle" THEN "mirrorRow" ELSE "done"]
<1>1. /\ me \in CallRec /\ CallOK(me) /\ me.pc = "save" /\ Busy(c) /\ Under(me) /\ Shape(me) /\ db' = db /\ log' = log
      /\ me.key = s
  BY <1>0 DEF SaveRecord, At, CatInv, Busy, CallOK, Under
<1>2. CASE pb' = [pb EXCEPT ![s] = Rewritten(@, me)] /\ UNCHANGED faults /\ Turn(c, new)
  <2>1. new.alone = me.alone /\ Likewise(new, me) /\ new.pc = (IF me.op = "toggle" THEN "mirrorRow" ELSE "done")
    BY <1>1 DEF CallRec, Likewise
  <2> HIDE DEF new
  <2>2. GoesOn(c, new)
    BY <1>1, <1>2, <2>1 DEF GoesOn, Likewise
  <2>3. \/ me.op = "toggle" /\ s \in Songs
        \/ me.op \in {"artistCount", "artistList"} /\ s = "artist"
    BY <1>1 DEF Shape, Records
  <2>4. \A k \in Sides : k # s => pb'[k] = pb[k] /\ db'[k] = db[k] /\ log'[k] = log[k]
    BY <1>1, <1>2, KeysAre DEF CatInv, RowsOK, Sides
  <2>5. Under(new) \/ Held(me) \subseteq {s}
    BY <1>1, <2>1, <2>3 DEF Under, Held
  <2>6. ASSUME NEW k \in Sides, k = s, Stands(me, k, pb[k], db[k], log[k])
        PROVE  Stands(new, k, pb'[k], db'[k], log'[k])
    <3>1. me.op \in {"artistCount", "artistList"} /\ k = "artist" /\ Held(me) = {"artist"}
      BY <1>1, <2>3, <2>6, KeysAre DEF Held, Sides
    <3>2. InHand(me, k, pb[k], db[k], log[k])
      BY <1>1, <2>6, <3>1 DEF Stands
    <3>3. ArtistHand(me, pb[k], db[k], log[k])
      BY <1>1, <2>6, <3>1, <3>2, HandIs
    <3>4. pb[k] \in Rows /\ db[k] \in Rows /\ log[k] \in Seq(Events) /\ pb'[k] = Rewritten(pb[k], me)
      BY <1>2, <2>6 DEF CatInv, RowsOK
    <3>5. Kept("artist", Rewritten(pb[k], me), db[k], log[k])
      BY <1>1, <3>1, <3>3, <3>4, ArtistSaves
    <3>6. ~Under(new)
      BY <2>1, <3>1 DEF Under
    <3> QED BY <1>1, <3>1, <3>4, <3>5, <3>6 DEF Stands
  <2> HIDE DEF me
  <2> QED BY <1>0, <1>1, <1>2, <2>1, <2>2, <2>4, <2>5, <2>6, AgreeStep DEF me
<1>3. CASE Fault /\ End(c) /\ UNCHANGED pb
  BY <1>3, FailingAgrees
<1> QED BY <1>0, <1>2, <1>3 DEF SaveRecord

\* The UPDATE of a toggled song's row.
LEMMA MirrorRowAgrees == ASSUME CatInv, SlotInv, ClickInv, AgreeInv, NEW c \in Calls, MirrorRow(c) PROVE AgreeInv'
<1>0. PICK s \in Keys : s = call[c].key
  BY DEF CatInv, CallRec
<1> DEFINE me == call[c]
           new == [me EXCEPT !.pc = "load"]
<1>1. /\ me \in CallRec /\ CallOK(me) /\ me.pc = "mirrorRow" /\ Busy(c) /\ Under(me) /\ Shape(me) /\ pb' = pb /\ log' = log
      /\ me.key = s
  BY <1>0 DEF MirrorRow, At, CatInv, Busy, CallOK, Under
<1>2. CASE db' = [db EXCEPT ![s] = IF Exists(@) THEN me.view ELSE @] /\ UNCHANGED faults /\ Turn(c, new)
  <2>1. new.alone = me.alone /\ Likewise(new, me) /\ new.pc = "load"
    BY <1>1 DEF CallRec, Likewise
  <2> HIDE DEF new
  <2>2. GoesOn(c, new) /\ Under(new)
    BY <1>1, <1>2, <2>1 DEF GoesOn, Likewise, Under
  <2>3. s \in Songs
    BY <1>1 DEF Shape, Records
  <2>4. \A k \in Sides : k # s /\ pb'[k] = pb[k] /\ db'[k] = db[k] /\ log'[k] = log[k]
    BY <1>1, <1>2, <2>3, KeysAre DEF CatInv, RowsOK, Sides
  <2> HIDE DEF me
  <2> QED BY <1>0, <1>2, <2>1, <2>2, <2>4, AgreeStep DEF me
<1>3. CASE Fault /\ End(c) /\ UNCHANGED db
  BY <1>3, FailingAgrees
<1> QED BY <1>0, <1>2, <1>3 DEF MirrorRow

\* The row a call is at is one it holds, unless it is a song's.
LEMMA AtHand ==
  ASSUME NEW me, Under(me), NEW k \in Sides, me.key = k, NEW record, NEW row, NEW stream
  PROVE  k \in Held(me) /\ (Stands(me, k, record, row, stream) <=> InHand(me, k, record, row, stream))
<1>1. k \in Held(me)
  BY KeysAre DEF Held, Sides
<1> QED BY <1>1 DEF Stands

\* A loaded aggregate.
LEMMA LoadAgrees == ASSUME CatInv, SlotInv, ClickInv, AgreeInv, NEW c \in Calls, Load(c) PROVE AgreeInv'
<1>0. PICK s \in Keys : s = call[c].key
  BY DEF CatInv, CallRec
<1> DEFINE me   == call[c]
           then == Change(me, Folded(s, log[s]))
           born == <<Event("Created", Seed(me))>>
           new  == Loaded(me, log[s])
<1>1. /\ me \in CallRec /\ CallOK(me) /\ me.pc = "load" /\ Busy(c) /\ Under(me) /\ Shape(me) /\ me.key = s
      /\ pb' = pb /\ db' = db /\ log' = log
  BY <1>0, LoadIs DEF CatInv, CallOK, Under, Busy
<1>2. CASE Turn(c, new) /\ UNCHANGED faults
  <2>1. ASSUME NEW ver, NEW seeding, NEW events
        PROVE  LET n == Stores(me, ver, seeding, events)
               IN  Loading(n, me, seeding, ver, events) /\ n.alone = me.alone /\ Likewise(n, me) /\ n.op = me.op
    BY <1>1 DEF CallRec, Stores, Loading, Likewise
  <2>2. ASSUME NEW ver, NEW seeding, NEW events, new = Stores(me, ver, seeding, events),
               \A k \in Sides : k = s /\ InHand(me, k, pb[k], db[k], log[k]) /\ Loading(new, me, seeding, ver, events)
                    => InHand(new, k, pb[k], db[k], log[k])
        PROVE  AgreeInv'
    <3> HIDE DEF new
    <3>1. Loading(new, me, seeding, ver, events) /\ new.alone = me.alone /\ Likewise(new, me) /\ new.op = me.op
      BY <2>1, <2>2
    <3>2. new.pc = "append" /\ Under(new) /\ new.key = s
      BY <1>1, <3>1 DEF Loading, Under, Likewise
    <3>3. GoesOn(c, new)
      BY <1>1, <1>2, <3>1, <3>2 DEF GoesOn
    <3>4. ASSUME NEW k \in Sides, k = s, Stands(me, k, pb[k], db[k], log[k])
          PROVE  Stands(new, k, pb'[k], db'[k], log'[k])
      <4>1. InHand(me, k, pb[k], db[k], log[k])
        BY <1>1, <3>4, AtHand
      <4>2. InHand(new, k, pb[k], db[k], log[k])
        BY <2>2, <3>1, <3>4, <4>1
      <4>3. Stands(new, k, pb[k], db[k], log[k])
        BY <3>2, <3>4, <4>2, AtHand
      <4> QED BY <1>1, <4>3
    <3> HIDE DEF me
    <3> QED BY <1>0, <1>1, <1>2, <3>1, <3>2, <3>3, <3>4, AgreeStep DEF me
  <2>3. ASSUME NEW k \in Sides, k = s
        PROVE  pb[k] \in Rows /\ db[k] \in Rows /\ log[k] \in Seq(Events) /\ LogOK(k, log[k])
    BY <2>3 DEF CatInv, RowsOK
  <2>4. CASE log[s] = << >> /\ me.op \in {"artistCount", "artistList"}
    <3>1. new = Stores(me, 0, FALSE, born \o Change(me, Seed(me)))
      BY <1>1, <2>4 DEF Loaded
    <3>2. ASSUME NEW k \in Sides, k = s, InHand(me, k, pb[k], db[k], log[k]) PROVE FALSE
      <4>1. k = "artist"
        BY <1>1, <2>4, <3>2, KeysAre DEF Shape, Sides
      <4>2. ArtistHand(me, pb[k], db[k], log[k])
        BY <1>1, <2>4, <3>2, HandIs
      <4>3. log[k] # << >>
        BY <1>1, <2>3, <2>4, <3>2, <4>2, ArtistLoads
      <4> QED BY <2>4, <3>2, <4>3
    <3> HIDE DEF new, born
    <3> QED BY <2>2, <3>1, <3>2
  <2>5. CASE log[s] = << >> /\ me.op \notin {"artistCount", "artistList"}
    <3>1. new = Stores(me, 0, TRUE, born)
      BY <1>1, <2>5 DEF Loaded
    <3>2. ASSUME NEW k \in Sides, k = s, InHand(me, k, pb[k], db[k], log[k]), Loading(new, me, TRUE, 0, born)
          PROVE  InHand(new, k, pb[k], db[k], log[k])
      <4> HIDE DEF me, new
      <4> QED BY <1>1, <2>3, <2>5, <3>2, LoadClaims
    <3> HIDE DEF new, born
    <3> QED BY <2>2, <3>1, <3>2
  <2>6. CASE log[s] # << >> /\ then # << >>
    <3>1. new = Stores(me, Len(log[s]), FALSE, then)
      BY <1>1, <2>6 DEF Loaded
    <3>2. ASSUME NEW k \in Sides, k = s, InHand(me, k, pb[k], db[k], log[k]), Loading(new, me, FALSE, Len(log[s]), then)
          PROVE  InHand(new, k, pb[k], db[k], log[k])
      <4> HIDE DEF me, new
      <4> QED BY <1>1, <2>3, <2>6, <3>2, LoadClaims
    <3> HIDE DEF new, then
    <3> QED BY <2>2, <3>1, <3>2
  <2>7. CASE log[s] # << >> /\ then = << >> /\ me.op \notin {"artistCount", "artistList"}
    <3>1. new = Onward(me)
      BY <1>1, <2>7 DEF Loaded
    <3>2. ASSUME NEW k \in Sides, k = s, Stands(me, k, pb[k], db[k], log[k])
          PROVE  Kept(k, pb'[k], db'[k], log'[k])
      <4>1. InHand(me, k, pb[k], db[k], log[k])
        BY <1>1, <3>2, AtHand
      <4>2. Kept(k, pb[k], db[k], log[k])
        <5> HIDE DEF me
        <5> QED BY <1>1, <2>3, <2>7, <3>2, <4>1, LoadClaims
      <4> QED BY <1>1, <4>2
    <3>3. Turn(c, Onward(me))
      BY <1>2, <3>1
    <3> HIDE DEF new, then, me
    <3> QED BY <1>0, <1>1, <1>2, <2>7, <3>2, <3>3, AgreeOnward DEF me, Records
  <2>8. CASE log[s] # << >> /\ then = << >> /\ me.op \in {"artistCount", "artistList"}
    <3> DEFINE n == [me EXCEPT !.pc = "save"]
    <3>1. new = n
      BY <1>1, <2>8 DEF Loaded, Onward
    <3>2. Likewise(n, me) /\ n.pc = "save" /\ n.alone = me.alone /\ n.key = s
      BY <1>1 DEF CallRec, Likewise
    <3>3. Turn(c, n)
      BY <1>2, <3>1
    <3> HIDE DEF new, n
    <3>4. GoesOn(c, n) /\ Under(n)
      BY <1>1, <3>2, <3>3 DEF GoesOn, Likewise, Under
    <3>5. ASSUME NEW k \in Sides, k = s, Stands(me, k, pb[k], db[k], log[k])
          PROVE  Stands(n, k, pb'[k], db'[k], log'[k])
      <4>1. InHand(me, k, pb[k], db[k], log[k])
        BY <1>1, <3>5, AtHand
      <4>2. InHand(n, k, pb[k], db[k], log[k])
        <5> HIDE DEF me
        <5> QED BY <1>1, <2>3, <2>8, <3>2, <3>5, <4>1, LoadClaims
      <4>3. Stands(n, k, pb[k], db[k], log[k])
        BY <3>2, <3>4, <3>5, <4>2, AtHand
      <4> QED BY <1>1, <4>3
    <3> HIDE DEF me, then
    <3> QED BY <1>0, <1>1, <1>2, <3>2, <3>4, <3>5, AgreeStep DEF me
  <2> QED BY <2>4, <2>5, <2>6, <2>7, <2>8
<1>3. CASE Fault /\ Drop(c)
  BY <1>3, FailingAgrees
<1>4. (Turn(c, new) /\ UNCHANGED faults) \/ (Fault /\ Drop(c))
  BY <1>0, LoadIs
<1> QED BY <1>2, <1>3, <1>4

\* While all is calm nobody has appended behind a call's back.
LEMMA NoConflict ==
  ASSUME CatInv, SlotInv, Calm, NEW c \in Calls, call[c].pc = "append",
         \A k \in Sides : Stands(call[c], k, pb[k], db[k], log[k])
  PROVE  ~Conflict(call[c].key, call[c].ver)
<1>0. PICK s \in Keys : s = call[c].key
  BY DEF CatInv, CallRec
<1> DEFINE me == call[c]
<1>1. me \in CallRec /\ CallOK(me) /\ me.pc = "append" /\ Busy(c) /\ Under(me) /\ me.key = s
  BY <1>0 DEF CatInv, Busy, Under
<1>2. CASE s \in Songs
  <2>1. Good
    BY DEF Calm, SlotInv, Good
  <2>2. Adding(me, s, pb[s], db[s], log[s]) \/ Toggling(me, s, pb[s], db[s], log[s])
    BY <1>1, <1>2, <2>1, PhaseIs
  <2>3. Len(<< >>) = 0
    OBVIOUS
  <2>4. me.ver = Len(log[s])
    BY <1>1, <2>2, <2>3 DEF Adding, Toggling
  <2> QED BY <1>0, <2>4 DEF Conflict
<1>3. CASE s \notin Songs
  <2>1. s \in Sides
    BY <1>3, KeysAre DEF Sides
  <2>2. InHand(me, s, pb[s], db[s], log[s])
    BY <1>1, <2>1, AtHand
  <2>3. db[s] \in Rows /\ log[s] \in Seq(Events) /\ LogOK(s, log[s])
    BY DEF CatInv, RowsOK
  <2>4. me.ver = Len(log[s])
    <3> HIDE DEF me
    <3> QED BY <1>1, <2>1, <2>2, <2>3, StoreClaims
  <2> QED BY <1>0, <2>4 DEF Conflict
<1> QED BY <1>2, <1>3

\* A call that would give up.
LEMMA ConflictAgrees ==
  ASSUME CatInv, SlotInv, ClickInv, AgreeInv, NEW c \in Calls, call[c].pc = "append", Conflict(call[c].key, call[c].ver),
         End(c) \/ Drop(c), faults' = faults
  PROVE  AgreeInv'
<1>1. call[c] \in CallRec /\ CallOK(call[c]) /\ Busy(c) /\ call[c].pc \in Records
  BY DEF CatInv, Busy, Records
<1>2. ASSUME NEW new, GoesOn(c, new), new.key \in Keys PROVE AgreeInv'
  BY <1>2, NoConflict, AgreeGoesOn
<1>3. CASE End(c)
  <2> DEFINE new == [call[c] EXCEPT !.pc = "done", !.failed = TRUE]
  <2>1. GoesOn(c, new) /\ new.key \in Keys
    BY <1>1, <1>3 DEF CallRec, End, GoesOn
  <2> HIDE DEF new
  <2> QED BY <1>2, <2>1
<1>4. CASE Drop(c)
  <2> DEFINE new == [Onward(call[c]) EXCEPT !.failed = TRUE]
  <2>0. Onward(call[c]) \in CallRec
    BY <1>1, OnwardIs DEF CallOK
  <2>1. /\ new.pc = Onward(call[c]).pc /\ new.op = Onward(call[c]).op /\ new.alone = Onward(call[c]).alone
        /\ new.key \in Keys
    BY <2>0 DEF CallRec
  <2>2. Onward(call[c]).op = call[c].op /\ Onward(call[c]).alone = call[c].alone /\ Onward(call[c]).pc # "new"
    BY <1>1, OnwardKeeps
  <2>3. Turn(c, new)
    BY <1>4 DEF Drop
  <2> HIDE DEF new
  <2>4. GoesOn(c, new)
    BY <1>1, <2>1, <2>2, <2>3 DEF GoesOn
  <2> QED BY <1>2, <2>1, <2>4
<1> QED BY <1>3, <1>4

\* An appended event.
LEMMA StoreAgrees == ASSUME CatInv, SlotInv, ClickInv, AgreeInv, NEW c \in Calls, Store(c) PROVE AgreeInv'
<1>0. PICK s \in Keys : s = call[c].key
  BY DEF CatInv, CallRec
<1> DEFINE me == call[c]
           new == [me EXCEPT !.pc = IF me.seeding /\ me.key \in Songs THEN "load" ELSE "project"]
<1>1. me \in CallRec /\ CallOK(me) /\ Busy(c) /\ Under(me) /\ me.key = s /\ me.pc = "append" /\ db' = db
  BY <1>0 DEF CatInv, Busy, Store, At, Under
<1>2. CASE Saved(s, me.ver, me.events) /\ Turn(c, new) /\ UNCHANGED <<pb, faults>>
  <2>1. /\ Likewise(new, me) /\ new.alone = me.alone /\ new.events = me.events /\ new.seeding = me.seeding
        /\ new.pc \in {"load", "project"} /\ (s \notin Songs => new.pc = "project")
    BY <1>1 DEF CallRec, Likewise
  <2> HIDE DEF new
  <2>2. GoesOn(c, new) /\ Under(new) /\ new.key = s
    BY <1>1, <1>2, <2>1 DEF GoesOn, Likewise, Under
  <2>3. log' = [log EXCEPT ![s] = log[s] \o me.events] /\ log \in [Keys -> Seq(Events)]
    BY <1>2 DEF Saved, CatInv
  <2>4. \A k \in Sides : k # s => pb'[k] = pb[k] /\ db'[k] = db[k] /\ log'[k] = log[k]
    BY <1>1, <1>2, <2>3, KeysAre DEF Sides
  <2>5. ASSUME NEW k \in Sides, k = s, Stands(me, k, pb[k], db[k], log[k])
        PROVE  Stands(new, k, pb'[k], db'[k], log'[k])
    <3>1. InHand(me, k, pb[k], db[k], log[k])
      BY <1>1, <2>5, AtHand
    <3>2. new.pc = "project"
      BY <2>1, <2>5, KeysAre DEF Sides
    <3>3. db[k] \in Rows /\ log[k] \in Seq(Events) /\ LogOK(k, log[k])
      BY <2>5 DEF CatInv, RowsOK
    <3>4. InHand(new, k, pb[k], db[k], log[k] \o me.events)
      <4> HIDE DEF me
      <4> QED BY <1>1, <2>1, <2>5, <3>1, <3>2, <3>3, StoreClaims
    <3>5. Stands(new, k, pb[k], db[k], log[k] \o me.events)
      BY <2>2, <2>5, <3>4, AtHand
    <3> QED BY <1>1, <1>2, <2>3, <2>5, <3>5
  <2> HIDE DEF me
  <2> QED BY <1>0, <1>1, <1>2, <2>1, <2>2, <2>4, <2>5, AgreeStep DEF me
<1>3. CASE Conflict(s, me.ver) /\ faults' = faults /\ (End(c) \/ Drop(c))
  BY <1>0, <1>1, <1>3, ConflictAgrees
<1>4. CASE Fault /\ (End(c) \/ Drop(c))
  BY <1>4, FailingAgrees
<1> QED BY <1>0, <1>2, <1>3, <1>4 DEF Store

\* A projected event.
LEMMA PublishAgrees == ASSUME CatInv, SlotInv, ClickInv, AgreeInv, NEW c \in Calls, Publish(c) PROVE AgreeInv'
<1>0. PICK s \in Keys : s = call[c].key
  BY DEF CatInv, CallRec
<1> DEFINE me == call[c]
           new == IF me.seeding THEN [me EXCEPT !.pc = "load"] ELSE Onward(me)
<1>1. me \in CallRec /\ CallOK(me) /\ Busy(c) /\ Under(me) /\ me.key = s /\ me.pc = "project" /\ pb' = pb /\ log' = log
  BY <1>0 DEF CatInv, Busy, Publish, At, Under
<1>2. CASE Project(s, me.events) /\ UNCHANGED faults /\ Turn(c, new)
  <2>1. db' = [db EXCEPT ![s] = Projected(s, db[s], me.events)] /\ db \in [Keys -> Rows]
    BY <1>2 DEF Project, CatInv, RowsOK
  <2>2. \A k \in Sides : k # s => pb'[k] = pb[k] /\ db'[k] = db[k] /\ log'[k] = log[k]
    BY <1>1, <2>1, KeysAre DEF Sides
  <2>3. ASSUME NEW k \in Sides, k = s
        PROVE  /\ pb[k] \in Rows /\ db[k] \in Rows /\ log[k] \in Seq(Events)
               /\ db'[k] = Projected(k, db[k], me.events) /\ pb'[k] = pb[k] /\ log'[k] = log[k]
    BY <1>1, <2>1, <2>3 DEF CatInv, RowsOK
  <2>4. ASSUME NEW n, Turn(c, n), Likewise(n, me), n.alone = me.alone, n.pc \in {"load", "save"},
               \A k \in Sides : k = s /\ InHand(me, k, pb[k], db[k], log[k]) => InHand(n, k, pb[k], db'[k], log[k])
        PROVE  AgreeInv'
    <3>1. GoesOn(c, n) /\ Under(n) /\ n.key = s
      BY <1>1, <2>4 DEF GoesOn, Likewise, Under
    <3>2. ASSUME NEW k \in Sides, k = s, Stands(me, k, pb[k], db[k], log[k])
          PROVE  Stands(n, k, pb'[k], db'[k], log'[k])
      <4>1. InHand(me, k, pb[k], db[k], log[k])
        BY <1>1, <3>2, AtHand
      <4>2. Stands(n, k, pb[k], db'[k], log[k])
        BY <2>4, <3>1, <3>2, <4>1, AtHand
      <4> QED BY <1>1, <4>2
    <3> HIDE DEF me
    <3> QED BY <1>0, <1>2, <2>2, <2>4, <3>1, <3>2, AgreeStep DEF me
  <2>5. CASE me.seeding
    <3> DEFINE n == [me EXCEPT !.pc = "load"]
    <3>1. Turn(c, n) /\ Likewise(n, me) /\ n.alone = me.alone /\ n.pc = "load"
      BY <1>1, <1>2, <2>5 DEF CallRec, Likewise
    <3> HIDE DEF n
    <3>2. ASSUME NEW k \in Sides, k = s, InHand(me, k, pb[k], db[k], log[k]) PROVE InHand(n, k, pb[k], db'[k], log[k])
      <4> HIDE DEF me
      <4> QED BY <1>1, <2>3, <2>5, <3>1, <3>2, PublishClaims
    <3> QED BY <2>4, <3>1, <3>2
  <2>6. CASE ~me.seeding /\ me.op \in {"artistCount", "artistList"}
    <3> DEFINE n == [me EXCEPT !.pc = "save"]
    <3>1. Turn(c, n) /\ Likewise(n, me) /\ n.alone = me.alone /\ n.pc = "save"
      BY <1>1, <1>2, <2>6 DEF CallRec, Likewise, Onward
    <3> HIDE DEF n
    <3>2. ASSUME NEW k \in Sides, k = s, InHand(me, k, pb[k], db[k], log[k]) PROVE InHand(n, k, pb[k], db'[k], log[k])
      <4> HIDE DEF me
      <4> QED BY <1>1, <2>3, <2>6, <3>1, <3>2, PublishClaims
    <3> QED BY <2>4, <3>1, <3>2
  <2>7. CASE ~me.seeding /\ me.op \notin {"artistCount", "artistList"}
    <3>1. Turn(c, Onward(me))
      BY <1>2, <2>7
    <3>2. ASSUME NEW k \in Sides, k = s, Stands(me, k, pb[k], db[k], log[k]) PROVE Kept(k, pb'[k], db'[k], log'[k])
      <4>1. InHand(me, k, pb[k], db[k], log[k])
        BY <1>1, <3>2, AtHand
      <4>2. Kept(k, pb[k], db'[k], log[k])
        <5> HIDE DEF me
        <5> QED BY <1>1, <2>3, <2>7, <3>2, <4>1, PublishClaims
      <4> QED BY <1>1, <4>2
    <3> HIDE DEF me, new
    <3> QED BY <1>0, <1>1, <1>2, <2>2, <2>7, <3>1, <3>2, AgreeOnward DEF me, Records
  <2> QED BY <2>5, <2>6, <2>7
<1>3. CASE Fault /\ Drop(c)
  BY <1>3, FailingAgrees
<1> QED BY <1>0, <1>2, <1>3 DEF Publish

\* A kept row is kept by a replay, of an artist also over the row that is there.
LEMMA ReplayKeeps ==
  ASSUME NEW k \in Sides, NEW record \in Rows, NEW row \in Rows, NEW stream \in Seq(Events), Kept(k, record, row, stream),
         NEW base, base = NoRow \/ (k = "artist" /\ base = row)
  PROVE  Kept(k, record, Projected(k, base, stream), stream)
<1>1. CASE stream = << >>
  <2>1. Projected(k, base, << >>) = base
    BY FoldEmpty DEF Projected
  <2>2. base \in {NoRow, record}
    BY <1>1 DEF Kept
  <2> QED BY <1>1, <2>1, <2>2 DEF Kept
<1>2. CASE stream # << >>
  <2>1. row = record /\ Tells(k, record, stream)
    BY <1>2 DEF Kept
  <2>2. Exists(record) /\ Folded(k, stream) = record /\ Projected(k, NoRow, stream) = record
    BY <2>1, TellsIs
  <2>3. CASE base = NoRow
    BY <1>2, <2>1, <2>2, <2>3 DEF Kept
  <2>4. CASE k = "artist" /\ base = row
    <3> DEFINE new == Projected("artist", record, stream)
    <3>1. Steady(stream) /\ Folded("artist", stream) = record
      BY <2>1, <2>2, <2>4 DEF Tells
    <3>2. /\ new \in Rows
          /\ Counts(record) = Counts(record) => Counts(new) = Counts(record)
          /\ record.status = record.status => new.status = record.status
      BY <2>2, <3>1 DEF Steady
    <3>3. new = record
      <4> HIDE DEF new
      <4> QED BY <3>2, SameRow
    <3> QED BY <1>2, <2>1, <2>4, <3>3 DEF Kept
  <2> QED BY <2>3, <2>4
<1> QED BY <1>1, <1>2

\* A rebuild.
LEMMA RebuildAgrees == ASSUME CatInv, AgreeInv, Rebuild PROVE AgreeInv'
<1>1. PICK hasJobs \in BOOLEAN : db' = [k \in Keys |-> Projected(k, ResetForReplay(k, hasJobs), log[k])]
  BY DEF Rebuild
<1>2. UNCHANGED <<pb, log, faults, call, origin>> /\ \A d \in Calls : ~Busy(d)
  BY DEF Rebuild, Quiet
<1>3. ASSUME Calm', NEW k \in Sides PROVE Kept(k, pb'[k], db'[k], log'[k])
  <2>1. Calm
    BY <1>2, <1>3 DEF Calm, Streamless
  <2>2. Kept(k, pb[k], db[k], log[k])
    BY <1>2, <2>1 DEF AgreeInv
  <2>3. k \in Keys
    BY KeysAre DEF Sides
  <2>4. pb[k] \in Rows /\ db[k] \in Rows /\ log[k] \in Seq(Events)
    BY <2>3 DEF CatInv, RowsOK
  <2> DEFINE base == ResetForReplay(k, hasJobs)
  <2>5. base = NoRow \/ (k = "artist" /\ base = db[k])
    BY DEF ResetForReplay
  <2>6. db'[k] = Projected(k, base, log[k])
    BY <1>1, <2>3
  <2> HIDE DEF base
  <2>7. Kept(k, pb[k], Projected(k, base, log[k]), log[k])
    BY <2>2, <2>4, <2>5, ReplayKeeps
  <2> QED BY <1>2, <2>6, <2>7
<1>4. \A d \in Calls : ~Under(call'[d])
  BY <1>2 DEF Busy, Under
<1> QED BY <1>2, <1>3, <1>4, AgreeIs

\* What no step changes.
LEMMA StutterAgrees == ASSUME AgreeInv, UNCHANGED vars PROVE AgreeInv'
<1>1. UNCHANGED <<pb, db, log, faults, call, origin>>
  BY DEF vars, stores
<1>2. Calm' => Calm
  BY <1>1 DEF Calm, Streamless
<1>3. Calm => /\ \A d \in Calls : Under(call[d]) => \A k \in Held(call[d]) : InHand(call[d], k, pb[k], db[k], log[k])
              /\ \A k \in Sides : (\A d \in Calls : Under(call[d]) => k \notin Held(call[d])) => Kept(k, pb[k], db[k], log[k])
  BY DEF AgreeInv, Busy, Under
<1> QED BY <1>1, <1>2, <1>3, AgreeIs

\* Every step keeps what is known of the rows.
LEMMA NextAgrees == ASSUME CatInv, SlotInv, ClickInv, AgreeInv, [Next]_vars PROVE AgreeInv'
<1>1. ASSUME NEW c \in Calls, Step(c) PROVE AgreeInv'
  BY <1>1, CreateBegins, ClickCountBegins, ClickStatusBegins, ArtistClickBegins, PlainAgrees, NewSongAgrees, ToggleAgrees,
     MirrorAgrees, SaveRecordAgrees, MirrorRowAgrees, LoadAgrees, StoreAgrees, PublishAgrees DEF Step
<1>2. CASE Die
  BY <1>2, FailureAgrees DEF Die
<1> QED BY <1>1, <1>2, RebuildAgrees, StutterAgrees DEF Next

\* While nobody is at work, what is kept and what is settled agrees.
LEMMA AgreedIs == ASSUME CatInv, SlotInv, AgreeInv PROVE AloneAgrees
<1> SUFFICES ASSUME Quiet, AllAlone, faults = 0, ~Streamless, NEW k \in Keys, log[k] # << >>
             PROVE  pb[k] = Folded(k, log[k]) /\ db[k] = Folded(k, log[k])
  BY DEF AloneAgrees
<1>1. \A d \in Calls : ~Busy(d)
  BY DEF Quiet
<1>2. CASE k \in Songs
  <2>1. Good
    BY DEF Good, AllAlone
  <2>2. SongOK(k) /\ InWork(k) = {}
    BY <1>1, <1>2, <2>1 DEF SlotInv, InWork
  <2>3. Settled(k)
    BY <2>2 DEF SongOK, Absent
  <2> QED BY <2>3 DEF Settled, Says
<1>3. CASE k \notin Songs
  <2>1. k \in Sides
    BY <1>3, KeysAre DEF Sides
  <2>2. Calm
    BY DEF Calm, AllAlone
  <2>3. Kept(k, pb[k], db[k], log[k])
    BY <1>1, <2>1, <2>2 DEF AgreeInv
  <2>4. pb[k] \in Rows /\ db[k] \in Rows /\ log[k] \in Seq(Events)
    BY DEF CatInv, RowsOK
  <2> QED BY <2>1, <2>3, <2>4, KeptIs
<1> QED BY <1>2, <1>3

\* For any songs, calls, typed counts and number of failures, calls that never
\* overlapped and never failed leave the PocketBase record, the SQLite row and the
\* replayed stream equal, for the album, the artist and every song, but where a song
\* was added to an album older than the event log (handleAlbumClick,
\* recordSongSideEffectEvents, persistSongWithMetadata).
THEOREM CallsAloneAgree == Spec => []AloneAgrees
<1> DEFINE Inv == CatInv /\ SlotInv /\ ClickInv /\ AgreeInv
<1>1. Init => Inv
  <2>1. Init => ClickInv
    BY DEF Init, ClickInv, Busy, Waiting
  <2> QED BY <2>1, InitIsSafe, InitHasSlots, InitAgrees
<1>2. Inv /\ [Next]_vars => Inv'
  BY NextIsSafe, NextHasSlots, NextHeals, NextAgrees
<1>3. Inv => AloneAgrees
  BY AgreedIs
<1> QED BY <1>1, <1>2, <1>3, PTL DEF Spec

-----------------------------------------------------------------------------
(* The TIDAL client: lists of pages.                                       *)

\* The recursive function by which FlattenSeq is defined.
Flattening(g, seqs, n) == g = [i \in 1..n |-> IF i = 1 THEN seqs[i] ELSE g[i - 1] \o seqs[i]]
\* A run of it: what the first pages list, page after page.
Flats(f, seqs) == f[0] = << >> /\ \A i \in 1..Len(seqs) : f[i] = f[i - 1] \o seqs[i]

\* That function exists on every prefix of a list.
LEMMA FlatteningExists ==
  ASSUME NEW seqs, NEW N \in Nat
  PROVE  \E g : Flattening(g, seqs, N)
<1> DEFINE T == {n \in 0..N : \E g : Flattening(g, seqs, n)}
<1>1. 0 \in T
  <2> DEFINE g == [i \in 1..0 |-> seqs[i]]
  <2>1. \A i \in 1..0 : FALSE
    OBVIOUS
  <2>2. Flattening(g, seqs, 0)
    BY <2>1 DEF Flattening
  <2> QED BY <2>2
<1>2. ASSUME NEW k \in 1..N, k - 1 \in T PROVE k \in T
  <2>1. PICK g : Flattening(g, seqs, k - 1)
    BY <1>2
  <2> DEFINE h == [i \in 1..k |-> IF i = 1 THEN seqs[i] ELSE g[i - 1] \o seqs[i]]
  <2>0. k \in Nat /\ k > 0
    OBVIOUS
  <2>2. ASSUME NEW i \in 1..(k - 1) PROVE h[i] = g[i]
    <3>1. g[i] = IF i = 1 THEN seqs[i] ELSE g[i - 1] \o seqs[i]
      BY <2>1, Zenon DEF Flattening
    <3>2. i \in 1..k
      BY <2>0
    <3> QED BY <3>1, <3>2, Zenon
  <2>3. ASSUME NEW i \in 1..k PROVE h[i] = IF i = 1 THEN seqs[i] ELSE h[i - 1] \o seqs[i]
    <3>1. i # 1 => i - 1 \in 1..(k - 1)
      BY <2>0
    <3>2. i # 1 => h[i - 1] = g[i - 1]
      BY <2>2, <3>1
    <3> QED BY <3>2, Zenon
  <2>4. h = [i \in 1..k |-> h[i]]
    OBVIOUS
  <2> HIDE DEF h
  <2>5. Flattening(h, seqs, k)
    BY <2>3, <2>4 DEF Flattening
  <2> QED BY <2>5
<1> HIDE DEF T
<1>3. N \in T
  BY <1>1, <1>2, Climb
<1> QED BY <1>3 DEF T

\* One list after another.
LEMMA ConcatIs ==
  ASSUME NEW S, NEW u \in Seq(S), NEW v \in Seq(S)
  PROVE  /\ u \o v \in Seq(S) /\ Len(u \o v) = Len(u) + Len(v) /\ Len(u) \in Nat /\ Len(v) \in Nat
         /\ \A k \in 1..Len(u) : (u \o v)[k] = u[k]
         /\ \A k \in 1..Len(v) : (u \o v)[Len(u) + k] = v[k]
OBVIOUS

\* What a list begins with, a longer one begins with.
LEMMA StillBegins ==
  ASSUME NEW S, NEW b \in Seq(S), NEW u \in Seq(S), NEW v \in Seq(S), NEW w, w = u \o v,
         Len(b) <= Len(u), \A k \in 1..Len(b) : u[k] = b[k]
  PROVE  Len(b) <= Len(w) /\ \A k \in 1..Len(b) : w[k] = b[k]
<1>1. Len(b) \in Nat
  OBVIOUS
<1>2. /\ Len(w) = Len(u) + Len(v) /\ Len(u) \in Nat /\ Len(v) \in Nat
      /\ \A k \in 1..Len(u) : w[k] = u[k]
  BY ConcatIs
<1> QED BY <1>1, <1>2

\* What a run holds are lists, each a beginning of the later ones.
LEMMA FlatsAre ==
  ASSUME NEW S, NEW seqs \in Seq(Seq(S)), NEW f, Flats(f, seqs)
  PROVE  /\ \A i \in 0..Len(seqs) : f[i] \in Seq(S)
         /\ \A i, j \in 0..Len(seqs) : i <= j => /\ Len(f[i]) <= Len(f[j])
                                                 /\ \A k \in 1..Len(f[i]) : f[j][k] = f[i][k]
<1> DEFINE N == Len(seqs)
           T == {i \in 0..N : f[i] \in Seq(S)}
<1>0. N \in Nat /\ \A i \in 1..N : seqs[i] \in Seq(S)
  OBVIOUS
<1>a. f[0] = << >> /\ \A i \in 1..N : f[i] = f[i - 1] \o seqs[i]
  BY Zenon DEF Flats
<1> HIDE DEF N
<1>1. 0 \in T
  <2>1. << >> \in Seq(S)
    OBVIOUS
  <2>2. f[0] \in Seq(S)
    BY <1>a, <2>1, Zenon
  <2>3. 0 \in 0..N
    BY <1>0
  <2> QED BY <2>2, <2>3, Zenon
<1>2. ASSUME NEW k \in 1..N, k - 1 \in T PROVE k \in T
  <2>1. f[k] = f[k - 1] \o seqs[k] /\ f[k - 1] \in Seq(S) /\ seqs[k] \in Seq(S)
    BY <1>0, <1>a, <1>2
  <2>2. f[k] \in Seq(S)
    BY <2>1, ConcatIs
  <2> QED BY <1>0, <2>2
<1> HIDE DEF T
<1>3. \A i \in 0..N : i \in T
  BY <1>0, <1>1, <1>2, Climb
<1>4. \A i \in 0..N : f[i] \in Seq(S)
  BY <1>3 DEF T
<1>5. ASSUME NEW i \in 0..N, NEW j \in 0..N, i <= j
      PROVE  Len(f[i]) <= Len(f[j]) /\ \A k \in 1..Len(f[i]) : f[j][k] = f[i][k]
  <2> DEFINE Begins(l) == Len(f[i]) <= Len(f[l]) /\ \A k \in 1..Len(f[i]) : f[l][k] = f[i][k]
             U == {d \in 0..(N - i) : Begins(i + d)}
  <2>1. 0 \in U
    BY <1>0, <1>4
  <2>2. ASSUME NEW d \in 1..(N - i), d - 1 \in U PROVE d \in U
    <3>0. i + d \in 1..N
      BY <1>0
    <3>a. PICK l \in 1..N : l = i + d
      BY <3>0
    <3>b. PICK m \in 0..N : m = l - 1
      BY <1>0
    <3>1. m = i + (d - 1)
      BY <1>0, <3>a, <3>b
    <3>2. f[l] = f[m] \o seqs[l] /\ f[m] \in Seq(S) /\ seqs[l] \in Seq(S) /\ f[i] \in Seq(S)
      BY <1>0, <1>a, <1>4, <3>b
    <3>3. Begins(m)
      BY <2>2, <3>1
    <3>4. Begins(l)
      <4>1. \A b, u, v \in Seq(S) :
               (Len(b) <= Len(u) /\ \A k \in 1..Len(b) : u[k] = b[k])
               => Len(b) <= Len(u \o v) /\ \A k \in 1..Len(b) : (u \o v)[k] = b[k]
        BY StillBegins
      <4>2. /\ Len(f[i]) <= Len(f[m] \o seqs[l])
            /\ \A k \in 1..Len(f[i]) : (f[m] \o seqs[l])[k] = f[i][k]
        BY <3>2, <3>3, <4>1, Zenon
      <4> QED BY <3>2, <4>2, Zenon
    <3> QED BY <1>0, <3>a, <3>4
  <2>3. N - i \in Nat /\ j - i \in 0..(N - i) /\ i + (j - i) = j
    BY <1>0, <1>5
  <2> HIDE DEF U
  <2>4. j - i \in U
    BY <2>1, <2>2, <2>3, Climb
  <2>5. Begins(i + (j - i))
    BY <2>4 DEF U
  <2> QED BY <2>3, <2>5
<1> QED BY <1>4, <1>5 DEF N

\* A flattened list is the end of its run, and there is a run.
LEMMA FlattenIsRun ==
  ASSUME NEW S, NEW seqs \in Seq(Seq(S)), seqs # << >>
  PROVE  /\ \E f : Flats(f, seqs)
         /\ \A f : Flats(f, seqs) => FlattenSeq(seqs) = f[Len(seqs)]
<1> DEFINE N == Len(seqs)
           g == CHOOSE g : Flattening(g, seqs, N)
<1>0. N \in Nat /\ N # 0 /\ \A i \in 1..N : seqs[i] \in Seq(S)
  OBVIOUS
<1>1. Flattening(g, seqs, N)
  BY <1>0, FlatteningExists
<1>2. FlattenSeq(seqs) = g[N]
  BY <1>0 DEF FlattenSeq, Flattening
<1> HIDE DEF g, N
<1> DEFINE h == [i \in 0..N |-> IF i = 0 THEN << >> ELSE g[i]]
<1>3. h[0] = << >>
  BY <1>0
<1>4. \A i \in 1..N : h[i] = h[i - 1] \o seqs[i]
  <2>1. \A i \in 1..N : g[i] = IF i = 1 THEN seqs[i] ELSE g[i - 1] \o seqs[i]
    BY <1>1 DEF Flattening
  <2>2. \A i \in 1..N : << >> \o seqs[i] = seqs[i]
    BY <1>0
  <2>3. \A i \in 1..N : i # 1 => i - 1 \in 1..N /\ i - 1 # 0
    BY <1>0
  <2>4. ASSUME NEW i \in 1..N PROVE h[i] = h[i - 1] \o seqs[i]
    <3>1. CASE i = 1
      <4>1. h[1] = seqs[1] /\ h[1 - 1] = << >>
        BY <1>0, <2>1, <3>1
      <4> QED BY <2>2, <3>1, <4>1
    <3>2. CASE i # 1
      <4>1. h[i] = g[i] /\ g[i] = g[i - 1] \o seqs[i]
        <5>1. i \in 0..N /\ i # 0
          BY <1>0
        <5> QED BY <2>1, <3>2, <5>1, Zenon
      <4>2. h[i - 1] = g[i - 1]
        BY <1>0, <2>3, <3>2
      <4> QED BY <4>1, <4>2
    <3> QED BY <3>1, <3>2
  <2> QED BY <2>4
<1>5. h[N] = g[N]
  BY <1>0
<1> HIDE DEF h
<1>6. Flats(h, seqs)
  BY <1>3, <1>4 DEF Flats, N
<1>7. ASSUME NEW f, Flats(f, seqs) PROVE f[N] = h[N]
  <2> DEFINE T == {k \in 0..N : f[k] = h[k]}
  <2>0. f[0] = << >> /\ \A i \in 1..N : f[i] = f[i - 1] \o seqs[i]
    BY <1>7, Zenon DEF Flats, N
  <2>1. 0 \in T
    BY <1>0, <1>3, <2>0
  <2>2. ASSUME NEW k \in 1..N, k - 1 \in T PROVE k \in T
    <3>1. f[k - 1] = h[k - 1] /\ k \in 0..N
      BY <1>0, <2>2
    <3>2. f[k] = h[k]
      BY <1>4, <2>0, <3>1
    <3> QED BY <3>1, <3>2
  <2> HIDE DEF T
  <2>3. \A k \in 0..N : k \in T
    BY <1>0, <2>1, <2>2, Climb
  <2>4. N \in T
    BY <1>0, <2>3
  <2> QED BY <2>4 DEF T
<1> QED BY <1>2, <1>5, <1>6, <1>7 DEF N

\* What the first pages of a list hold, flattened: nothing at first, then a page
\* more each time, always a beginning of the whole.
LEMMA FlattenPages ==
  ASSUME NEW S, NEW seqs \in Seq(Seq(S)), seqs # << >>
  PROVE  /\ FlattenSeq(SubSeq(seqs, 1, 0)) = << >>
         /\ FlattenSeq(seqs) \in Seq(S) /\ FlattenSeq(SubSeq(seqs, 1, Len(seqs))) = FlattenSeq(seqs)
         /\ \A n \in 1..Len(seqs) :
              /\ FlattenSeq(SubSeq(seqs, 1, n - 1)) \in Seq(S)
              /\ FlattenSeq(SubSeq(seqs, 1, n)) = FlattenSeq(SubSeq(seqs, 1, n - 1)) \o seqs[n]
              /\ Len(FlattenSeq(SubSeq(seqs, 1, n))) <= Len(FlattenSeq(seqs))
              /\ \A k \in 1..Len(FlattenSeq(SubSeq(seqs, 1, n))) :
                    FlattenSeq(seqs)[k] = FlattenSeq(SubSeq(seqs, 1, n))[k]
<1> DEFINE N == Len(seqs)
<1>0. N \in Nat /\ N # 0
  OBVIOUS
<1>1. PICK f : Flats(f, seqs) /\ FlattenSeq(seqs) = f[N]
  BY FlattenIsRun
<1>2. f[0] = << >> /\ \A i \in 1..N : f[i] = f[i - 1] \o seqs[i]
  BY <1>1, Zenon DEF Flats
<1>3. /\ \A i \in 0..N : f[i] \in Seq(S)
      /\ \A i, j \in 0..N : i <= j => /\ Len(f[i]) <= Len(f[j])
                                      /\ \A k \in 1..Len(f[i]) : f[j][k] = f[i][k]
  BY <1>1, FlatsAre
<1>4. ASSUME NEW n \in 1..N PROVE FlattenSeq(SubSeq(seqs, 1, n)) = f[n]
  <2> DEFINE some == SubSeq(seqs, 1, n)
  <2>0. n \in Nat /\ n >= 1 /\ n <= N
    BY <1>0
  <2>a. Len(some) = n /\ \A i \in 1..n : some[i] = seqs[i]
    BY <2>0
  <2>b. some \in Seq(Seq(S))
    BY <2>0
  <2>c. some # << >>
    <3> HIDE DEF some
    <3> QED BY <2>0, <2>a
  <2>1. some \in Seq(Seq(S)) /\ Len(some) = n /\ some # << >> /\ \A i \in 1..n : some[i] = seqs[i]
    BY <2>a, <2>b, <2>c
  <2> HIDE DEF some
  <2>2. Flats(f, some)
    <3>1. \A i \in 1..n : i \in 1..N
      BY <1>0
    <3> QED BY <1>2, <2>1, <3>1 DEF Flats
  <2>3. FlattenSeq(some) = f[Len(some)]
    BY <2>1, <2>2, FlattenIsRun
  <2> QED BY <2>1, <2>3 DEF some
<1>5. FlattenSeq(SubSeq(seqs, 1, 0)) = << >>
  <2>1. SubSeq(seqs, 1, 0) = << >> /\ Len(<< >>) = 0
    OBVIOUS
  <2> QED BY <2>1, Zenon DEF FlattenSeq
<1>6. \A n \in 0..N : FlattenSeq(SubSeq(seqs, 1, n)) = f[n]
  <2> SUFFICES ASSUME NEW n \in 0..N PROVE FlattenSeq(SubSeq(seqs, 1, n)) = f[n]
    OBVIOUS
  <2>1. n = 0 \/ n \in 1..N
    BY <1>0
  <2> QED BY <1>2, <1>4, <1>5, <2>1
<1> HIDE DEF N
<1>7. N \in 0..N /\ \A n \in 1..N : n \in 0..N /\ n - 1 \in 0..N /\ n <= N
  BY <1>0
<1>8. FlattenSeq(seqs) \in Seq(S) /\ FlattenSeq(SubSeq(seqs, 1, N)) = FlattenSeq(seqs)
  BY <1>1, <1>3, <1>6, <1>7
<1>9. ASSUME NEW n \in 1..N
      PROVE  /\ FlattenSeq(SubSeq(seqs, 1, n - 1)) \in Seq(S)
             /\ FlattenSeq(SubSeq(seqs, 1, n)) = FlattenSeq(SubSeq(seqs, 1, n - 1)) \o seqs[n]
             /\ Len(FlattenSeq(SubSeq(seqs, 1, n))) <= Len(FlattenSeq(seqs))
             /\ \A k \in 1..Len(FlattenSeq(SubSeq(seqs, 1, n))) :
                   FlattenSeq(seqs)[k] = FlattenSeq(SubSeq(seqs, 1, n))[k]
  <2>1. FlattenSeq(SubSeq(seqs, 1, n)) = f[n] /\ FlattenSeq(SubSeq(seqs, 1, n - 1)) = f[n - 1]
    BY <1>6, <1>7
  <2>2. Len(f[n]) <= Len(f[N]) /\ \A k \in 1..Len(f[n]) : f[N][k] = f[n][k]
    BY <1>3, <1>7
  <2>3. f[n - 1] \in Seq(S) /\ f[n] = f[n - 1] \o seqs[n]
    BY <1>2, <1>3, <1>7
  <2> QED BY <1>1, <2>1, <2>2, <2>3, Zenon
<1> QED BY <1>5, <1>8, <1>9 DEF N

\* What is flattened are the elements of the lists.
LEMMA FlatIsList == ASSUME NEW S, NEW seqs \in Seq(Seq(S)) PROVE FlattenSeq(seqs) \in Seq(S)
<1>1. CASE seqs = << >>
  BY <1>1 DEF FlattenSeq
<1>2. CASE seqs # << >>
  BY <1>2, FlattenPages
<1> QED BY <1>1, <1>2

-----------------------------------------------------------------------------
(* The TIDAL client: its invariant.                                        *)

\* What a kind's pages list, page by page, and of what was read.
ItemIds(kind) == [p \in DOMAIN Served[kind] |->
                    [i \in DOMAIN Served[kind][p].items |-> Served[kind][p].items[i].id]]
IdsListed(kind) == {Served[kind][p].items[i].id : p \in Nat, i \in Nat}
IdsOf(got)      == [i \in DOMAIN got |-> got[i].id]
ReadItems == {Observed(kind, Served[kind][p].items[i], Served[kind][p].included) :
                kind \in DOMAIN Served, p \in Nat, i \in Nat}
Kinds     == {"tracks", "albums", "artists"}
Working   == {"refresh", "persist", "request"}
Commands  == [phase : Working \cup {"idle", "fetched", "failed"}, held : Nat, new : Nat,
              kind : {"tracks"} \cup DOMAIN Served, limit : Nat, page : Nat, attempt : Nat, got : Seq(ReadItems)]

ClientTypes == /\ honoured \in Nat /\ environ \in Nat /\ secrets \in [global : Nat, project : Nat]
               /\ command \in Commands /\ honoured # 0
\* A rotated token that is to be stored is the one the server honours.
TokenIsNew == command.phase = "persist" => command.new = honoured
\* A command at work has read the pages before the one it is at.
PagesRead == command.phase \in Working =>
               /\ command.kind \in DOMAIN Served /\ command.page \in 1..Len(Served[command.kind])
               /\ IdsOf(command.got) = FlattenSeq(SubSeq(ItemIds(command.kind), 1, command.page - 1))
TokenInv == ClientTypes /\ TokenIsNew /\ RunKeepsToken /\ NextRunFindsToken
ClientInv == TokenInv /\ PagesRead /\ FavouritesAreWhole

\* The pages of a kind are lists, and there is one.
LEMMA PagesAre ==
  ASSUME NEW kind \in DOMAIN Served
  PROVE  /\ Len(Served[kind]) \in Nat /\ Len(Served[kind]) # 0 /\ DOMAIN Served[kind] = 1..Len(Served[kind])
         /\ \A p \in 1..Len(Served[kind]) :
              /\ Len(Served[kind][p].items) \in Nat
              /\ DOMAIN Served[kind][p].items = 1..Len(Served[kind][p].items)
         /\ ItemIds(kind) \in Seq(Seq(IdsListed(kind))) /\ ItemIds(kind) # << >> /\ Len(ItemIds(kind)) = Len(Served[kind])
<1> DEFINE pages == Served[kind]
<1>1. /\ pages # << >> /\ pages \in Seq({pages[p] : p \in DOMAIN pages})
      /\ \A p \in DOMAIN pages : pages[p].items \in Seq({pages[p].items[i] : i \in DOMAIN pages[p].items})
  BY TidalPagesAssumption
<1>2. Len(pages) \in Nat /\ Len(pages) # 0 /\ DOMAIN pages = 1..Len(pages)
  BY <1>1
<1>3. \A p \in 1..Len(pages) : Len(pages[p].items) \in Nat /\ DOMAIN pages[p].items = 1..Len(pages[p].items)
  BY <1>1, <1>2
<1>4. ASSUME NEW p \in 1..Len(pages) PROVE ItemIds(kind)[p] \in Seq(IdsListed(kind))
  <2> DEFINE ids == [i \in 1..Len(pages[p].items) |-> pages[p].items[i].id]
  <2>1. ItemIds(kind)[p] = ids
    BY <1>2, <1>3 DEF ItemIds
  <2>2. \A i \in 1..Len(pages[p].items) : ids[i] \in IdsListed(kind)
    BY <1>2, <1>3 DEF IdsListed
  <2>4. ids \in [1..Len(pages[p].items) -> IdsListed(kind)] /\ Len(pages[p].items) \in Nat
    BY <1>3, <2>2
  <2> HIDE DEF ids
  <2>3. ids \in Seq(IdsListed(kind))
    BY <2>4
  <2> QED BY <2>1, <2>3
<1>5. ItemIds(kind) = [p \in 1..Len(pages) |-> ItemIds(kind)[p]]
  BY <1>2 DEF ItemIds
<1>6. ItemIds(kind) \in Seq(Seq(IdsListed(kind))) /\ Len(ItemIds(kind)) = Len(pages)
  BY <1>2, <1>4, <1>5
<1> QED BY <1>2, <1>3, <1>6

\* A favourite keeps the id it is listed by, whatever resource describes it.
LEMMA ObservedId ==
  ASSUME NEW kind \in Kinds, NEW item, NEW included
  PROVE  Observed(kind, item, included).id = item.id
BY DEF Observed, ParseObservedTrack, ObservedAlbum, ObservedArtist, Kinds

\* The lesser of two numbers.
LEMMA LesserIs ==
  ASSUME NEW a \in Nat, NEW b \in Nat, a <= b PROVE Min({a, b}) = a /\ Min({b, a}) = a
<1>1. ASSUME NEW x \in {a, b}, \A y \in {a, b} : x <= y PROVE x = a
  BY <1>1
<1>2. {a, b} = {b, a} /\ a \in {a, b} /\ \A y \in {a, b} : a <= y
  OBVIOUS
<1> QED BY <1>1, <1>2 DEF Min

\* A page read: the ids of what was read are what the pages up to it list, and a
\* fetch that ends returns the listed ids up to its limit.
LEMMA ReadIs ==
  ASSUME ClientTypes, PagesRead, command.phase = "request", command.kind \in Kinds, ReadPage
  PROVE  /\ command' \in Commands
         /\ \/ command'.phase = "fetched"
            \/ command'.phase = "request" /\ command'.held = command.held
         /\ PagesRead' /\ FavouritesAreWhole'
<1> DEFINE pages   == Served[command.kind]
           page    == pages[command.page]
           read    == [i \in DOMAIN page.items |-> Observed(command.kind, page.items[i], page.included)]
           all     == command.got \o read
           seqs    == ItemIds(command.kind)
           ids     == IdsListed(command.kind)
           flat(n) == FlattenSeq(SubSeq(seqs, 1, n))
           listed  == FlattenSeq(seqs)
<1>1. /\ command \in Commands /\ command.kind \in DOMAIN Served /\ command.page \in 1..Len(pages)
      /\ IdsOf(command.got) = flat(command.page - 1)
  BY DEF ClientTypes, PagesRead, Working
<1>2. /\ Len(pages) \in Nat /\ seqs \in Seq(Seq(ids)) /\ seqs # << >> /\ Len(seqs) = Len(pages)
      /\ Len(page.items) \in Nat /\ DOMAIN page.items = 1..Len(page.items)
      /\ DOMAIN pages = 1..Len(pages)
  BY <1>1, PagesAre
<1>3. /\ flat(command.page - 1) \in Seq(ids) /\ listed \in Seq(ids) /\ flat(Len(pages)) = listed
      /\ flat(command.page) = flat(command.page - 1) \o seqs[command.page]
      /\ Len(flat(command.page)) <= Len(listed)
      /\ \A k \in 1..Len(flat(command.page)) : listed[k] = flat(command.page)[k]
  <2> HIDE DEF seqs, pages, ids
  <2>1. command.page \in 1..Len(seqs) /\ Len(seqs) = Len(pages)
    BY <1>1, <1>2
  <2>2. seqs \in Seq(Seq(ids)) /\ seqs # << >>
    BY <1>2
  <2>3. /\ FlattenSeq(seqs) \in Seq(ids) /\ FlattenSeq(SubSeq(seqs, 1, Len(seqs))) = FlattenSeq(seqs)
        /\ \A n \in 1..Len(seqs) :
              /\ FlattenSeq(SubSeq(seqs, 1, n - 1)) \in Seq(ids)
              /\ FlattenSeq(SubSeq(seqs, 1, n)) = FlattenSeq(SubSeq(seqs, 1, n - 1)) \o seqs[n]
              /\ Len(FlattenSeq(SubSeq(seqs, 1, n))) <= Len(FlattenSeq(seqs))
              /\ \A k \in 1..Len(FlattenSeq(SubSeq(seqs, 1, n))) :
                    FlattenSeq(seqs)[k] = FlattenSeq(SubSeq(seqs, 1, n))[k]
    BY <2>2, FlattenPages
  <2> QED BY <2>1, <2>3, Zenon
<1>4. /\ command.got \in Seq(ReadItems) /\ command.limit \in Nat /\ command.page \in Nat
      /\ command.kind \in {"tracks"} \cup DOMAIN Served
  BY <1>1 DEF Commands
<1>5. read \in Seq(ReadItems) /\ Len(read) = Len(page.items)
  <2>1. \A i \in 1..Len(page.items) : Observed(command.kind, page.items[i], page.included) \in ReadItems
    <3> SUFFICES ASSUME NEW i \in 1..Len(page.items)
                 PROVE  Observed(command.kind, page.items[i], page.included) \in ReadItems
      OBVIOUS
    <3>1. i \in Nat
      BY <1>2
    <3>2. command.page \in Nat /\ command.kind \in DOMAIN Served
      BY <1>1, <1>4
    <3> HIDE DEF read
    <3> QED BY <3>1, <3>2 DEF ReadItems
  <2>2. read \in [1..Len(page.items) -> ReadItems]
    BY <1>2, <2>1
  <2>3. Len(page.items) \in Nat
    BY <1>2
  <2> HIDE DEF read, page
  <2>4. PICK n \in Nat : n = Len(page.items)
    BY <2>3
  <2>5. read \in [1..n -> ReadItems]
    BY <2>2, <2>4
  <2>6. read \in Seq(ReadItems) /\ Len(read) = n
    BY <2>5
  <2> QED BY <2>4, <2>6
<1>6. seqs[command.page] = [i \in 1..Len(page.items) |-> page.items[i].id]
  BY <1>1, <1>2 DEF ItemIds
<1>7. \A i \in 1..Len(page.items) : read[i].id = page.items[i].id
  BY <1>2, ObservedId
<1> HIDE DEF read, page, seqs, ids, pages
<1>8. /\ all \in Seq(ReadItems) /\ Len(all) = Len(command.got) + Len(read)
      /\ Len(command.got) \in Nat /\ Len(read) \in Nat
      /\ \A k \in 1..Len(command.got) : all[k] = command.got[k]
      /\ \A k \in 1..Len(read) : all[Len(command.got) + k] = read[k]
  <2>1. \A u, v \in Seq(ReadItems) :
           /\ u \o v \in Seq(ReadItems) /\ Len(u \o v) = Len(u) + Len(v) /\ Len(u) \in Nat /\ Len(v) \in Nat
           /\ \A k \in 1..Len(u) : (u \o v)[k] = u[k]
           /\ \A k \in 1..Len(v) : (u \o v)[Len(u) + k] = v[k]
    BY ConcatIs
  <2> QED BY <1>4, <1>5, <2>1, Zenon
<1> HIDE DEF all
<1>9. IdsOf(all) = flat(command.page) /\ Len(flat(command.page)) = Len(all) /\ flat(command.page) \in Seq(ids)
  <2> DEFINE u == flat(command.page - 1)
             v == seqs[command.page]
  <2>0. DOMAIN command.got = 1..Len(command.got) /\ Len(command.got) \in Nat
    BY <1>4
  <2>a. u = [i \in 1..Len(command.got) |-> command.got[i].id] /\ u \in Seq(ids)
    BY <1>1, <1>3, <2>0, Zenon DEF IdsOf
  <2>b. DOMAIN u = 1..Len(command.got)
    BY <2>a, Zenon
  <2>1. u = [i \in 1..Len(command.got) |-> command.got[i].id] /\ u \in Seq(ids) /\ Len(u) = Len(command.got)
    <3> HIDE DEF u
    <3> QED BY <2>0, <2>a, <2>b
  <2>2. v \in Seq(ids) /\ Len(v) = Len(read) /\ v = [i \in 1..Len(read) |-> read[i].id]
    BY <1>1, <1>2, <1>5, <1>6, <1>7
  <2> HIDE DEF u, v
  <2>3. /\ u \o v \in Seq(ids) /\ Len(u \o v) = Len(all)
        /\ \A k \in 1..Len(u) : (u \o v)[k] = u[k]
        /\ \A k \in 1..Len(v) : (u \o v)[Len(u) + k] = v[k]
    BY <1>8, <2>1, <2>2, ConcatIs
  <2>4. ASSUME NEW k \in 1..Len(all) PROVE all[k].id = (u \o v)[k]
    <3>1. CASE k \in 1..Len(command.got)
      BY <1>8, <2>1, <2>3, <3>1
    <3>2. CASE k \notin 1..Len(command.got)
      <4>1. PICK j \in 1..Len(read) : k = Len(command.got) + j
        <5>1. k - Len(command.got) \in 1..Len(read) /\ k = Len(command.got) + (k - Len(command.got))
          BY <1>8, <3>2
        <5> QED BY <5>1
      <4>2. all[k] = read[j] /\ (u \o v)[k] = v[j] /\ v[j] = read[j].id
        BY <1>8, <2>1, <2>2, <2>3, <4>1
      <4> QED BY <4>2
    <3> QED BY <3>1, <3>2
  <2>5. IdsOf(all) = [k \in 1..Len(all) |-> all[k].id]
    BY <1>8 DEF IdsOf
  <2>6. u \o v = [k \in 1..Len(all) |-> (u \o v)[k]]
    <3> DEFINE w == u \o v
    <3>1. w \in Seq(ids) /\ Len(w) = Len(all) /\ Len(all) \in Nat
      BY <1>8, <2>3
    <3> HIDE DEF w
    <3>2. w = [k \in 1..Len(all) |-> w[k]]
      BY <3>1
    <3> QED BY <3>2 DEF w
  <2>7. IdsOf(all) = u \o v
    BY <2>4, <2>5, <2>6
  <2> QED BY <1>3, <2>3, <2>7 DEF u, v
<1> DEFINE limit == command.limit
           done  == AtLimit(all, limit) \/ command.page = Len(pages)
<1>10. IF done THEN command' = [Resting EXCEPT !.phase = "fetched", !.kind = command.kind,
                                   !.limit = command.limit, !.got = Cut(all, command.limit)]
       ELSE command' = [command EXCEPT !.page = @ + 1, !.attempt = 0, !.got = all]
  BY DEF ReadPage, all, read, page, pages
<1>11. CASE ~done
  <2>1. command' = [command EXCEPT !.page = @ + 1, !.attempt = 0, !.got = all]
    BY <1>10, <1>11
  <2>2. /\ command' \in Commands /\ command'.phase = "request" /\ command'.held = command.held
        /\ command'.kind = command.kind /\ command'.page = command.page + 1 /\ command'.got = all
    <3>1. command.page + 1 \in Nat /\ 0 \in Nat
      BY <1>4
    <3> QED BY <1>1, <1>8, <2>1, <3>1 DEF Commands
  <2>3. command.page + 1 \in 1..Len(pages) /\ (command.page + 1) - 1 = command.page
    BY <1>1, <1>2, <1>11
  <2>4. PagesRead'
    BY <1>1, <1>9, <2>2, <2>3 DEF PagesRead, pages, seqs
  <2> QED BY <2>2, <2>4 DEF FavouritesAreWhole
<1>12. CASE done
  <2> DEFINE got == Cut(all, limit)
  <2>1. command' = [Resting EXCEPT !.phase = "fetched", !.kind = command.kind, !.limit = limit, !.got = got]
    BY <1>10, <1>12
  <2>2. /\ got \in Seq(ReadItems)
        /\ IdsOf(got) = IF limit = 0 THEN listed ELSE SubSeq(listed, 1, Min({limit, Len(listed)}))
    <3> DEFINE F == flat(command.page)
    <3>0. F = [k \in 1..Len(all) |-> all[k].id]
      <4>1. DOMAIN all = 1..Len(all)
        BY <1>8
      <4>2. IdsOf(all) = [k \in 1..Len(all) |-> all[k].id]
        BY <4>1, Zenon DEF IdsOf
      <4> QED BY <1>9, <4>2
    <3>a. Len(listed) \in Nat /\ Len(all) \in Nat /\ Len(all) <= Len(listed)
          /\ \A k \in 1..Len(all) : listed[k] = all[k].id
      <4>1. Len(F) = Len(all)
        BY <1>9
      <4>2. Len(all) \in Nat /\ Len(listed) \in Nat
        BY <1>3, <1>8
      <4> HIDE DEF F
      <4>3. \A k \in 1..Len(all) : F[k] = all[k].id
        BY <3>0
      <4> QED BY <1>3, <4>1, <4>2, <4>3 DEF F
    <3>1. CASE AtLimit(all, limit)
      <4>1. got = SubSeq(all, 1, limit) /\ limit > 0 /\ limit <= Len(all)
        BY <1>4, <1>8, <3>1 DEF Cut, AtLimit
      <4>2. got \in Seq(ReadItems) /\ got = [k \in 1..limit |-> all[k]]
        BY <1>4, <1>8, <4>1
      <4>3. IdsOf(got) = [k \in 1..limit |-> all[k].id]
        <5> HIDE DEF got
        <5> QED BY <4>2 DEF IdsOf
      <4>4. Min({limit, Len(listed)}) = limit
        <5> DEFINE n == Len(listed)
        <5>1. limit <= n /\ limit \in Nat /\ n \in Nat
          BY <1>4, <3>a, <4>1
        <5> HIDE DEF n, limit
        <5>2. Min({limit, n}) = limit
          BY <5>1, LesserIs
        <5> QED BY <5>2 DEF n
      <4>5. SubSeq(listed, 1, limit) = [k \in 1..limit |-> listed[k]]
        BY <1>3, <1>4, <3>a, <4>1
      <4>6. [k \in 1..limit |-> listed[k]] = [k \in 1..limit |-> all[k].id]
        BY <1>4, <3>a, <4>1
      <4>7. limit # 0
        BY <4>1
      <4> HIDE DEF got, listed
      <4> QED BY <4>2, <4>3, <4>4, <4>5, <4>6, <4>7, Zenon
    <3>2. CASE ~AtLimit(all, limit)
      <4>1. got = all /\ (limit = 0 \/ Len(all) < limit)
        BY <1>4, <1>8, <3>2 DEF Cut, AtLimit
      <4>2. IdsOf(got) = listed /\ Len(all) = Len(listed)
        BY <1>3, <1>9, <1>12, <3>2, <4>1
      <4>3. CASE limit # 0
        <5>1. Min({limit, Len(listed)}) = Len(listed)
          BY <1>4, <3>a, <4>1, <4>2, <4>3, LesserIs
        <5>2. SubSeq(listed, 1, Len(listed)) = listed
          BY <1>3
        <5> QED BY <1>8, <4>1, <4>2, <4>3, <5>1, <5>2
      <4> QED BY <1>8, <4>1, <4>2, <4>3
    <3> QED BY <3>1, <3>2
  <2> HIDE DEF got
  <2>3. /\ command' \in Commands /\ command'.phase = "fetched" /\ command'.kind = command.kind
        /\ command'.limit = limit /\ command'.got = got
    BY <1>4, <2>1, <2>2 DEF Commands, Resting, Working
  <2>4. PagesRead'
    BY <2>3 DEF PagesRead, Working
  <2>5. FavouritesAreWhole'
    BY <2>2, <2>3 DEF FavouritesAreWhole, IdsOf, ItemIds, seqs, pages
  <2> QED BY <2>3, <2>4, <2>5
<1> QED BY <1>11, <1>12

\* The tokens: every step keeps what the server honours in the hands of whoever
\* needs it.
LEMMA StepsKeepToken == ASSUME ClientInv, [ClientNext]_clientVars PROVE TokenInv'
<1>0. /\ honoured \in Nat /\ environ \in Nat /\ secrets \in [global : Nat, project : Nat] /\ honoured # 0
      /\ command \in Commands
  BY DEF ClientInv, TokenInv, ClientTypes
<1>a. /\ command.phase = "persist" => command.new = honoured
      /\ command.phase = "request" => command.held = honoured
      /\ ~spoilt /\ environ = 0 /\ command.phase # "persist" => Fnox(secrets) = honoured
  BY DEF ClientInv, TokenInv, TokenIsNew, RunKeepsToken, NextRunFindsToken, ResolveSecret
<1>b. ASSUME honoured' \in Nat, honoured' # 0, environ' = environ, secrets' \in [global : Nat, project : Nat],
             command' \in Commands, command'.phase = "persist" => command'.new = honoured',
             command'.phase = "request" => command'.held = honoured',
             ~spoilt' /\ environ = 0 /\ command'.phase # "persist" => Fnox(secrets') = honoured'
      PROVE  TokenInv'
  <2>1. ClientTypes'
    BY <1>0, <1>b DEF ClientTypes
  <2>2. NextRunFindsToken'
    BY <1>b DEF NextRunFindsToken, ResolveSecret, Fnox
  <2> QED BY <1>b, <2>1, <2>2 DEF TokenInv, TokenIsNew, RunKeepsToken
<1>c. ASSUME UNCHANGED <<honoured, secrets, environ, spoilt>>, command' \in Commands, command.phase # "persist",
             command'.phase # "persist", command'.phase = "request" => command'.held = honoured
      PROVE  TokenInv'
  <2>1. ~spoilt' /\ environ = 0 => Fnox(secrets') = honoured'
    BY <1>a, <1>c
  <2> QED BY <1>0, <1>b, <1>c, <2>1
<1>d. Resting \in Commands /\ Resting.phase = "idle"
  <2>1. << >> \in Seq(ReadItems)
    OBVIOUS
  <2> QED BY <2>1 DEF Resting, Commands, Working
<1>e. ASSUME Ends("failed") PROVE command' \in Commands /\ command'.phase = "failed"
  BY <1>0, <1>e DEF Ends, Commands, Working
<1>f. ASSUME NEW token \in Nat, NEW sets \in BOOLEAN, NEW removes \in BOOLEAN, NEW reads \in BOOLEAN
      PROVE  LET saved == SaveSecret(token, sets, removes, reads)
             IN  saved.secrets \in [global : Nat, project : Nat] /\ (saved.ok => Fnox(saved.secrets) = token)
  <2>1. [global |-> token, project |-> IF removes THEN 0 ELSE secrets.project] \in [global : Nat, project : Nat]
    BY <1>0
  <2> QED BY <1>0, <2>1 DEF SaveSecret
<1>1. CASE UNCHANGED clientVars
  <2>1. UNCHANGED <<honoured, secrets, environ, spoilt, command>>
    BY <1>1 DEF clientVars
  <2> QED BY <1>0, <1>a, <1>b, <2>1
<1>2. CASE StartPlan
  <2>1. PICK kind \in DOMAIN Served, limit \in Limits :
          command' = [Resting EXCEPT !.held = ResolveSecret, !.kind = kind, !.limit = limit,
                          !.phase = IF ResolveSecret = 0 THEN "failed" ELSE "refresh"]
    BY <1>2 DEF StartPlan
  <2>2. UNCHANGED <<honoured, secrets, environ, spoilt>> /\ command.phase # "persist"
    BY <1>2 DEF StartPlan
  <2>3. limit \in Nat /\ ResolveSecret \in Nat
    BY <1>0, TidalClientAssumption DEF ResolveSecret, Fnox
  <2>4. command' \in Commands /\ command'.phase \in {"failed", "refresh"}
    BY <1>d, <2>1, <2>3 DEF Commands, Working, Resting
  <2> QED BY <1>c, <2>2, <2>4
<1>3. CASE RefreshRejected
  <2>1. UNCHANGED <<honoured, secrets, environ, spoilt>> /\ command.phase = "refresh" /\ Ends("failed")
    BY <1>3 DEF RefreshRejected
  <2> QED BY <1>c, <1>e, <2>1
<1>4. CASE RefreshAnswered
  <2>1. PICK rotates \in BOOLEAN :
          /\ honoured' = honoured + (IF rotates THEN 1 ELSE 0)
          /\ command' = [command EXCEPT !.new = honoured', !.phase = IF rotates THEN "persist" ELSE "request"]
    BY <1>4 DEF RefreshAnswered
  <2>2. UNCHANGED <<secrets, environ, spoilt>> /\ command.phase = "refresh" /\ command.held = honoured
    BY <1>4 DEF RefreshAnswered
  <2>3. honoured' \in Nat /\ honoured' # 0
    BY <1>0, <2>1
  <2>4. command' \in Commands /\ command'.new = honoured' /\ command'.held = honoured
        /\ command'.phase = IF rotates THEN "persist" ELSE "request"
    BY <1>0, <2>1, <2>2, <2>3 DEF Commands, Working
  <2>5. CASE rotates
    BY <1>0, <1>b, <2>2, <2>3, <2>4, <2>5
  <2>6. CASE ~rotates
    <3>1. honoured' = honoured
      BY <1>0, <2>1, <2>6
    <3> QED BY <1>c, <2>2, <2>4, <2>6, <3>1
  <2> QED BY <2>5, <2>6
<1>5. CASE RefreshLost
  <2>1. /\ honoured' = honoured + 1 /\ spoilt' = TRUE /\ Ends("failed") /\ UNCHANGED <<secrets, environ>>
    BY <1>5 DEF RefreshLost
  <2>2. honoured' \in Nat /\ honoured' # 0
    BY <1>0, <2>1
  <2> QED BY <1>0, <1>b, <1>e, <2>1, <2>2
<1>6. CASE Persist
  <2>1. UNCHANGED <<honoured, environ>> /\ command.phase = "persist" /\ command.new = honoured
    BY <1>6, <1>a DEF Persist
  <2>2. PICK sets \in BOOLEAN, removes \in BOOLEAN, reads \in BOOLEAN :
          LET saved == SaveSecret(command.new, sets, removes, reads)
          IN  /\ secrets' = saved.secrets
              /\ spoilt' = ~saved.ok
              /\ command' = [command EXCEPT !.held = KeepToken(saved.ok), !.phase = "request"]
    BY <1>6, Zenon DEF Persist
  <2>3. secrets' \in [global : Nat, project : Nat] /\ (~spoilt' => Fnox(secrets') = honoured)
    <3>1. command.new \in Nat
      BY <1>0, <2>1
    <3> QED BY <1>f, <2>1, <2>2, <3>1, Zenon
  <2>4. command' \in Commands /\ command'.phase = "request" /\ command'.held = honoured
    BY <1>0, <2>1, <2>2 DEF Commands, Working, KeepToken
  <2> QED BY <1>0, <1>b, <2>1, <2>3, <2>4
<1>7. CASE Login
  <2>1. PICK sets \in BOOLEAN, removes \in BOOLEAN, reads \in BOOLEAN :
          \/ /\ honoured' = honoured + 1
             /\ LET saved == SaveSecret(honoured', sets, removes, reads)
                IN  secrets' = saved.secrets /\ spoilt' = ~saved.ok
          \/ UNCHANGED <<honoured, secrets, spoilt>>
    <3>1. PICK callback \in {"denied", "state mismatch", "no code", "code"}, exchanged \in BOOLEAN, given \in BOOLEAN,
               sets \in BOOLEAN, removes \in BOOLEAN, reads \in BOOLEAN :
            IF callback = "code" /\ exchanged /\ given
            THEN /\ honoured < MaxTokens /\ honoured' = honoured + 1
                 /\ LET saved == SaveSecret(honoured', sets, removes, reads)
                    IN  secrets' = saved.secrets /\ spoilt' = ~saved.ok
                 /\ command' = Resting
            ELSE command' = Resting /\ UNCHANGED <<honoured, secrets, spoilt>>
      BY <1>7, Zenon DEF Login
    <3> QED BY <3>1, Zenon
  <2>2. UNCHANGED environ /\ command.phase # "persist"
    BY <1>7 DEF Login
  <2>3. command' = Resting
    BY <1>7, Zenon DEF Login
  <2>4. CASE UNCHANGED <<honoured, secrets, spoilt>>
    BY <1>c, <1>d, <2>2, <2>3, <2>4
  <2>5. CASE /\ honoured' = honoured + 1
             /\ LET saved == SaveSecret(honoured', sets, removes, reads)
                IN  secrets' = saved.secrets /\ spoilt' = ~saved.ok
    <3>1. honoured' \in Nat /\ honoured' # 0
      BY <1>0, <2>5
    <3>2. secrets' \in [global : Nat, project : Nat] /\ (~spoilt' => Fnox(secrets') = honoured')
      BY <1>f, <2>5, <3>1, Zenon
    <3> QED BY <1>b, <1>d, <2>2, <2>3, <3>1, <3>2
  <2> QED BY <2>1, <2>4, <2>5
<1>8. CASE CommandDies
  <2>1. UNCHANGED <<honoured, secrets, environ>> /\ Ends("failed") /\ spoilt' = (spoilt \/ command.phase = "persist")
    BY <1>8 DEF CommandDies
  <2>2. ~spoilt' => ~spoilt /\ command.phase # "persist"
    BY <2>1
  <2> QED BY <1>0, <1>a, <1>b, <1>e, <2>1, <2>2
<1>9. CASE DoRequest
  <2>1. UNCHANGED <<honoured, secrets, environ, spoilt>> /\ command.phase = "request" /\ command.held = honoured
    BY <1>9, <1>a DEF DoRequest
  <2>2. CASE Ends("failed")
    BY <1>c, <1>e, <2>1, <2>2
  <2>3. CASE Retries("refresh") \/ Retries("request")
    <3>1. PICK phase \in {"refresh", "request"} : command' = [command EXCEPT !.phase = phase, !.attempt = @ + 1]
      BY <2>3 DEF Retries
    <3>a. command.attempt + 1 \in Nat
      BY <1>0 DEF Commands
    <3>2. command' \in Commands /\ command'.phase \in {"refresh", "request"} /\ command'.held = honoured
      BY <1>0, <2>1, <3>1, <3>a DEF Commands, Working
    <3> QED BY <1>c, <2>1, <3>2
  <2>4. CASE command.kind \in Kinds /\ ReadPage
    <3>1. /\ command' \in Commands
          /\ \/ command'.phase = "fetched"
             \/ command'.phase = "request" /\ command'.held = command.held
      BY <2>1, <2>4, ReadIs DEF ClientInv, TokenInv
    <3> QED BY <1>c, <2>1, <3>1
  <2> QED BY <1>9, <2>2, <2>3, <2>4 DEF DoRequest, FetchFavoriteTracks, FetchFavoriteAlbums, FetchFavoriteArtists, Kinds
<1> QED BY <1>1, <1>2, <1>3, <1>4, <1>5, <1>6, <1>7, <1>8, <1>9 DEF ClientNext

\* The pages: every step keeps what was read the beginning of what is listed.
LEMMA StepsKeepPages == ASSUME ClientInv, [ClientNext]_clientVars PROVE PagesRead' /\ FavouritesAreWhole'
<1> USE DEF Working
<1>0. command \in Commands /\ ClientTypes /\ PagesRead /\ FavouritesAreWhole
  BY DEF ClientInv, TokenInv, ClientTypes
<1>a. ASSUME command'.phase \in {"idle", "failed"} PROVE PagesRead' /\ FavouritesAreWhole'
  BY <1>a DEF PagesRead, FavouritesAreWhole
<1>b. ASSUME command.phase \in Working, command'.phase \in Working, command'.kind = command.kind,
             command'.page = command.page, command'.got = command.got
      PROVE  PagesRead' /\ FavouritesAreWhole'
  BY <1>0, <1>b DEF PagesRead, FavouritesAreWhole
<1>c. ASSUME Ends("failed") PROVE PagesRead' /\ FavouritesAreWhole'
  <2>1. command'.phase = "failed"
    BY <1>0, <1>c DEF Ends, Commands
  <2> QED BY <1>a, <2>1
<1>1. CASE UNCHANGED clientVars
  BY <1>0, <1>1 DEF clientVars, PagesRead, FavouritesAreWhole
<1>2. CASE StartPlan
  <2>1. PICK kind \in DOMAIN Served, limit \in Limits :
          command' = [Resting EXCEPT !.held = ResolveSecret, !.kind = kind, !.limit = limit,
                          !.phase = IF ResolveSecret = 0 THEN "failed" ELSE "refresh"]
    BY <1>2 DEF StartPlan
  <2>2. /\ command'.phase \in {"failed", "refresh"} /\ command'.kind = kind
        /\ command'.page = 1 /\ command'.got = << >>
    BY <2>1 DEF Resting
  <2>3. Len(Served[kind]) \in Nat /\ Len(Served[kind]) # 0
    BY PagesAre
  <2>4. ItemIds(kind) \in Seq(Seq(IdsListed(kind))) /\ ItemIds(kind) # << >>
    BY PagesAre
  <2>5. FlattenSeq(SubSeq(ItemIds(kind), 1, 0)) = << >>
    BY <2>4, FlattenPages
  <2>6. IdsOf(<< >>) = << >>
    BY DEF IdsOf
  <2>7. 1 \in 1..Len(Served[kind]) /\ 1 - 1 = 0
    BY <2>3
  <2>8. PagesRead'
    BY <2>2, <2>5, <2>6, <2>7 DEF PagesRead
  <2>9. FavouritesAreWhole'
    BY <2>2 DEF FavouritesAreWhole
  <2> QED BY <2>8, <2>9
<1>3. CASE RefreshRejected \/ RefreshLost \/ CommandDies
  BY <1>c, <1>3 DEF RefreshRejected, RefreshLost, CommandDies
<1>4. CASE RefreshAnswered
  <2>1. PICK rotates \in BOOLEAN :
          command' = [command EXCEPT !.new = honoured', !.phase = IF rotates THEN "persist" ELSE "request"]
    BY <1>4 DEF RefreshAnswered
  <2>2. /\ command'.phase \in Working /\ command'.kind = command.kind
        /\ command'.page = command.page /\ command'.got = command.got
    BY <1>0, <2>1 DEF Commands
  <2> QED BY <1>4, <1>b, <2>2 DEF RefreshAnswered
<1>5. CASE Persist
  <2>1. PICK token : command' = [command EXCEPT !.held = token, !.phase = "request"]
    BY <1>5 DEF Persist
  <2>2. /\ command'.phase \in Working /\ command'.kind = command.kind
        /\ command'.page = command.page /\ command'.got = command.got
    BY <1>0, <2>1 DEF Commands
  <2> QED BY <1>5, <1>b, <2>2 DEF Persist
<1>6. CASE Login
  <2>1. command' = Resting
    BY <1>6 DEF Login
  <2> QED BY <1>a, <2>1 DEF Resting
<1>7. CASE DoRequest
  <2>1. command.phase = "request"
    BY <1>7 DEF DoRequest
  <2>2. CASE Retries("refresh") \/ Retries("request")
    <3>1. /\ command'.phase \in Working /\ command'.kind = command.kind
          /\ command'.page = command.page /\ command'.got = command.got
      BY <1>0, <2>2 DEF Retries, Commands
    <3> QED BY <1>b, <2>1, <3>1
  <2>3. CASE command.kind \in Kinds /\ ReadPage
    BY <1>0, <2>1, <2>3, ReadIs
  <2> QED BY <1>7, <1>c, <2>2, <2>3 DEF DoRequest, FetchFavoriteTracks, FetchFavoriteAlbums, FetchFavoriteArtists, Kinds
<1> QED BY <1>1, <1>2, <1>3, <1>4, <1>5, <1>6, <1>7 DEF ClientNext

\* For any lists of pages, limits, retries and tokens: a command keeps the rotating
\* token it needs, the next command finds it unless an answer, a save or the process
\* was lost, and a fetch returns what was listed, in order and up to its limit,
\* however its requests were repeated (RefreshAccessToken, SaveSecret,
\* FetchFavoriteTracks).
THEOREM ClientStaysSound == ClientSpec => []ClientIsSound
<1>1. ClientInit => ClientInv
  <2> SUFFICES ASSUME ClientInit PROVE ClientInv
    OBVIOUS
  <2>1. command = Resting /\ honoured = 1 /\ environ \in {0, 1}
        /\ secrets \in {[global |-> 1, project |-> 0], [global |-> 0, project |-> 1]}
    BY DEF ClientInit
  <2>2. << >> \in Seq(ReadItems)
    OBVIOUS
  <2>3. command \in Commands /\ command.phase = "idle"
    BY <2>1, <2>2 DEF Resting, Commands, Working
  <2>4. secrets \in [global : Nat, project : Nat] /\ Fnox(secrets) = 1
    BY <2>1 DEF Fnox
  <2>5. ClientTypes
    BY <2>1, <2>3, <2>4 DEF ClientTypes
  <2> QED BY <2>1, <2>3, <2>4, <2>5 DEF ClientInv, TokenInv, TokenIsNew, RunKeepsToken, NextRunFindsToken, ResolveSecret,
        PagesRead, FavouritesAreWhole, Working
<1>2. ClientInv /\ [ClientNext]_clientVars => ClientInv'
  BY StepsKeepToken, StepsKeepPages DEF ClientInv
<1>3. ClientInv => ClientIsSound
  BY DEF ClientInv, TokenInv, ClientIsSound
<1> QED BY <1>1, <1>2, <1>3, PTL DEF ClientSpec

-----------------------------------------------------------------------------
(* The TIDAL plan: two folds.                                              *)

\* The choice among matches, match by match, and the plan, track by track.
Better(best, m) ==
    IF \/ m.score > best.score
       \/ m.score = best.score /\ SelectCanonicalDuplicate(best.song, m.song) = m.song
    THEN m ELSE best
PlanTurn(fold, catalog, x, e) == IF fold = "best" THEN Better(x, e) ELSE ReconcileOne(x, e, catalog)
PlanTurned(fold, catalog, base, list) == FoldLeft(LAMBDA x, e : PlanTurn(fold, catalog, x, e), base, list)
PlanTurning(fold, catalog, g, base, list, D) ==
    g = [S \in SUBSET D |-> IF S = {} THEN base ELSE PlanTurn(fold, catalog, g[S \ {Max(S)}], list[Max(S)])]
PlanTurns(fold, catalog, h, base, list) ==
    h[0] = base /\ \A k \in 1..Len(list) : h[k] = PlanTurn(fold, catalog, h[k - 1], list[k])

\* The recursive function by which FoldLeft is defined exists.
LEMMA PlanTurningExists ==
  ASSUME NEW fold, NEW catalog, NEW base, NEW list, NEW N \in Nat
  PROVE  \E g : PlanTurning(fold, catalog, g, base, list, 1..N)
<1> DEFINE T == {n \in 0..N : \E g : PlanTurning(fold, catalog, g, base, list, 1..n)}
<1>1. 0 \in T
  <2> DEFINE g == [S \in SUBSET (1..0) |-> base]
  <2>1. \A S \in SUBSET (1..0) : S = {}
    OBVIOUS
  <2>2. PlanTurning(fold, catalog, g, base, list, 1..0)
    BY <2>1 DEF PlanTurning
  <2> QED BY <2>2
<1>2. ASSUME NEW k \in 1..N, k - 1 \in T PROVE k \in T
  <2>1. PICK g : PlanTurning(fold, catalog, g, base, list, 1..(k - 1))
    BY <1>2
  <2> DEFINE h == [S \in SUBSET (1..k) |-> IF S = {} THEN base
                     ELSE PlanTurn(fold, catalog, g[S \ {Max(S)}], list[Max(S)])]
  <2>2. \A S \in SUBSET (1..(k - 1)) : h[S] = g[S]
    <3>1. \A S \in SUBSET (1..(k - 1)) : S \in SUBSET (1..k)
      OBVIOUS
    <3> QED BY <2>1, <3>1 DEF PlanTurning
  <2>3. \A S \in SUBSET (1..k) : S # {} => S \ {Max(S)} \in SUBSET (1..(k - 1))
    <3> SUFFICES ASSUME NEW S \in SUBSET (1..k), S # {}, NEW i \in S \ {Max(S)} PROVE i \in 1..(k - 1)
      OBVIOUS
    <3>1. k \in Nat
      OBVIOUS
    <3>2. Max(S) \in S /\ i <= Max(S)
      BY <3>1, GreatestExists
    <3>3. i \in 1..k /\ Max(S) \in 1..k /\ i # Max(S)
      BY <3>2
    <3> HIDE DEF Max
    <3> QED BY <3>1, <3>2, <3>3
  <2>4. PlanTurning(fold, catalog, h, base, list, 1..k)
    <3>1. \A S \in SUBSET (1..k) : S # {} => h[S \ {Max(S)}] = g[S \ {Max(S)}]
      BY <2>2, <2>3
    <3>2. \A S \in SUBSET (1..k) :
             h[S] = IF S = {} THEN base ELSE PlanTurn(fold, catalog, h[S \ {Max(S)}], list[Max(S)])
      BY <3>1
    <3> HIDE DEF h
    <3>3. h = [S \in SUBSET (1..k) |-> h[S]]
      BY DEF h
    <3> QED BY <3>2, <3>3 DEF PlanTurning
  <2> QED BY <2>4
<1> HIDE DEF T
<1>3. N \in T
  BY <1>1, <1>2, Climb
<1> QED BY <1>3 DEF T

\* A fold is the end of a run.
LEMMA PlanTurnIsRun ==
  ASSUME NEW fold, NEW catalog, NEW base, NEW list, Len(list) \in Nat, DOMAIN list = 1..Len(list)
  PROVE  \E h : PlanTurns(fold, catalog, h, base, list) /\ PlanTurned(fold, catalog, base, list) = h[Len(list)]
<1> DEFINE N == Len(list)
           g == CHOOSE g : PlanTurning(fold, catalog, g, base, list, 1..N)
<1>0. N \in Nat /\ DOMAIN list = 1..N
  OBVIOUS
<1>1. PlanTurning(fold, catalog, g, base, list, 1..N)
  BY PlanTurningExists
<1>2. PlanTurned(fold, catalog, base, list) = g[1..N]
  BY DEF PlanTurned, FoldLeft, MapThenFoldSet, PlanTurning
<1> HIDE DEF g, N
<1> DEFINE h == [k \in 0..N |-> g[1..k]]
<1>3. h[0] = base
  <2>1. 1..0 = {}
    OBVIOUS
  <2> QED BY <1>0, <1>1, <2>1 DEF PlanTurning
<1>4. ASSUME NEW k \in 1..N PROVE h[k] = PlanTurn(fold, catalog, h[k - 1], list[k])
  <2>0. k \in Nat /\ k \in 1..k /\ k >= 1
    BY <1>0
  <2>1. Max(1..k) = k
    <3>1. 1..k \in SUBSET (1..k) /\ 1..k # {}
      BY <2>0
    <3>2. Max(1..k) \in 1..k /\ \A y \in 1..k : y <= Max(1..k)
      BY <2>0, <3>1, GreatestExists
    <3> QED BY <2>0, <3>2
  <2>2. (1..k) \ {k} = 1..(k - 1)
    BY <2>0
  <2>3. 1..k # {} /\ 1..k \in SUBSET (1..N)
    BY <1>0, <2>0
  <2>4. g[1..k] = PlanTurn(fold, catalog, g[(1..k) \ {Max(1..k)}], list[Max(1..k)])
    BY <1>1, <2>3 DEF PlanTurning
  <2> QED BY <1>0, <2>0, <2>1, <2>2, <2>4
<1>7. h[N] = g[1..N]
  BY <1>0 DEF h
<1> HIDE DEF h
<1>5. PlanTurns(fold, catalog, h, base, list)
  BY <1>3, <1>4 DEF PlanTurns, N
<1> QED BY <1>2, <1>5, <1>7 DEF N

-----------------------------------------------------------------------------
(* The TIDAL plan: matches.                                                *)

\* A match of a track is a song of the catalogue, and one good enough to be linked
\* has the track's link, or its whole title and one of its artists.
Evident(song, track) == song.tidal = track.id \/ (song.title = track.title /\ SharesArtist(track, song))
MatchesOf(track, catalog) ==
    {m \in {Found(catalog[i], score, artist) : i \in DOMAIN catalog, score \in Int, artist \in BOOLEAN} :
        m.score >= AutoLinkThreshold /\ m.artist => Evident(m.song, track)}

\* The lesser of two numbers, whatever their order.
LEMMA LeastOf ==
  ASSUME NEW a \in Int, NEW b \in Int PROVE Min({a, b}) \in {a, b} /\ Min({a, b}) <= a /\ Min({a, b}) <= b
<1>1. \E x \in {a, b} : \A y \in {a, b} : x <= y
  <2>1. CASE a <= b
    BY <2>1
  <2>2. CASE b <= a
    BY <2>2
  <2> QED BY <2>1, <2>2
<1>2. Min({a, b}) \in {a, b} /\ \A y \in {a, b} : Min({a, b}) <= y
  BY <1>1, Zenon DEF Min
<1> QED BY <1>2

\* A score is a number, and nine tenths are out of reach of a part of a title.
LEMMA ScoreIs ==
  ASSUME NEW track, NEW song
  PROVE  /\ Score(track, song) \in Int
         /\ Score(track, song) >= AutoLinkThreshold => track.title = song.title
<1> DEFINE sum == TitleScore(track, song) + ArtistScore(track, song) + YearScore(track, song)
<1>1. TitleScore(track, song) \in {80, 90} /\ (TitleScore(track, song) = 90 => track.title = song.title)
  BY DEF TitleScore
<1>2. ArtistScore(track, song) \in {5, -20, 0}
  BY DEF ArtistScore
<1>3. YearScore(track, song) \in {4, 0}
  BY DEF YearScore
<1>4. sum \in Int /\ (sum >= 90 => track.title = song.title)
  BY <1>1, <1>2, <1>3
<1> HIDE DEF sum
<1>5. Min({99, sum}) \in {99, sum} /\ Min({99, sum}) <= sum
  BY <1>4, LeastOf
<1>6. Score(track, song) = Min({99, sum})
  BY DEF Score, sum
<1> QED BY <1>4, <1>5, <1>6 DEF AutoLinkThreshold

\* A song of the catalogue that is found with evidence, or short of the threshold.
LEMMA FoundIs ==
  ASSUME NEW track, NEW catalog, NEW i \in DOMAIN catalog, NEW score \in Int, NEW artist \in BOOLEAN,
         score >= AutoLinkThreshold /\ artist => Evident(catalog[i], track)
  PROVE  Found(catalog[i], score, artist) \in MatchesOf(track, catalog)
<1> DEFINE m == Found(catalog[i], score, artist)
<1>1. m.song = catalog[i] /\ m.score = score /\ m.artist = artist
  BY DEF Found
<1>2. m \in {Found(catalog[j], s, a) : j \in DOMAIN catalog, s \in Int, a \in BOOLEAN}
  OBVIOUS
<1> HIDE DEF m
<1>3. m.score >= AutoLinkThreshold /\ m.artist => Evident(m.song, track)
  BY <1>1
<1>4. m \in MatchesOf(track, catalog)
  BY <1>2, <1>3 DEF MatchesOf
<1> QED BY <1>4 DEF m

\* What is found are matches.
LEMMA FoundAre ==
  ASSUME NEW track, NEW catalog, Len(catalog) \in Nat, DOMAIN catalog = 1..Len(catalog)
  PROVE  FindAllMatches(track, catalog) \in Seq(MatchesOf(track, catalog))
<1> DEFINE M == MatchesOf(track, catalog)
           linked == LinkedSong(track, catalog)
           fits(i) == /\ i # linked /\ catalog[i].title # "" /\ Alike(track, catalog[i])
                      /\ Score(track, catalog[i]) >= MinConfidence
           at(i) == IF fits(i)
                    THEN <<Found(catalog[i], Score(track, catalog[i]), SharesArtist(track, catalog[i]))>>
                    ELSE << >>
           first == IF linked = 0 THEN << >> ELSE <<Found(catalog[linked], 100, TRUE)>>
           lists == [i \in DOMAIN catalog |-> at(i)]
<1>1. first \in Seq(M)
  <2>1. CASE linked # 0
    <3> DEFINE L == {i \in DOMAIN catalog : catalog[i].tidal = track.id}
    <3>1. linked \in L
      <4>1. \A i \in L : i \in 1..Len(catalog)
        OBVIOUS
      <4>2. linked = Max({0} \cup L)
        BY DEF LinkedSong
      <4>3. L # {}
        <5> SUFFICES ASSUME L = {} PROVE linked = 0
          BY <2>1
        <5>1. linked = Max({0})
          BY <4>2
        <5>2. Max({0}) = 0
          <6>1. \E x \in {0} : \A y \in {0} : x >= y
            OBVIOUS
          <6> QED BY <6>1 DEF Max
        <5> QED BY <5>1, <5>2
      <4> HIDE DEF linked, L
      <4>4. Max(L) \in L /\ \A y \in L : y <= Max(L)
        BY <4>1, <4>3, GreatestExists
      <4>5. Max(L) \in {0} \cup L /\ \A y \in {0} \cup L : Max(L) >= y
        BY <4>1, <4>4
      <4>6. Max({0} \cup L) \in {0} \cup L
        <5>1. \E x \in {0} \cup L : \A y \in {0} \cup L : x >= y
          BY <4>5
        <5> QED BY <5>1, Zenon DEF Max
      <4> QED BY <2>1, <4>2, <4>6
    <3>2. linked \in DOMAIN catalog /\ catalog[linked].tidal = track.id
      BY <3>1
    <3> HIDE DEF linked
    <3>3. Found(catalog[linked], 100, TRUE) \in M
      <4>1. Evident(catalog[linked], track) /\ 100 \in Int /\ TRUE \in BOOLEAN
        BY <3>2 DEF Evident
      <4> QED BY <3>2, <4>1, FoundIs, Zenon
    <3>4. PICK m \in M : m = Found(catalog[linked], 100, TRUE)
      BY <3>3, Zenon
    <3>5. first = <<m>>
      BY <2>1, <3>4, Zenon
    <3> HIDE DEF M, first
    <3> QED BY <3>5
  <2>2. CASE linked = 0
    BY <2>2
  <2> QED BY <2>1, <2>2
<1>2. \A i \in DOMAIN catalog : at(i) \in Seq(M)
  <2> SUFFICES ASSUME NEW i \in DOMAIN catalog PROVE at(i) \in Seq(M)
    OBVIOUS
  <2>1. Score(track, catalog[i]) \in Int
        /\ (Score(track, catalog[i]) >= AutoLinkThreshold => track.title = catalog[i].title)
    BY ScoreIs
  <2>2. SharesArtist(track, catalog[i]) \in BOOLEAN
    BY DEF SharesArtist
  <2>3. Found(catalog[i], Score(track, catalog[i]), SharesArtist(track, catalog[i])) \in M
    BY <2>1, <2>2, FoundIs DEF Evident
  <2>4. at(i) = << >> \/ at(i) = <<Found(catalog[i], Score(track, catalog[i]), SharesArtist(track, catalog[i]))>>
    OBVIOUS
  <2>5. PICK m \in M : m = Found(catalog[i], Score(track, catalog[i]), SharesArtist(track, catalog[i]))
    BY <2>3, Zenon
  <2>6. at(i) = << >> \/ at(i) = <<m>>
    BY <2>4, <2>5, Zenon
  <2> HIDE DEF M, at
  <2>7. << >> \in Seq(M) /\ <<m>> \in Seq(M)
    OBVIOUS
  <2> QED BY <2>6, <2>7, Zenon
<1>3. FindAllMatches(track, catalog) = first \o FlattenSeq(lists)
  BY DEF FindAllMatches
<1> HIDE DEF first, at, M
<1>4. lists \in Seq(Seq(M)) /\ Len(lists) = Len(catalog)
  BY <1>2
<1> HIDE DEF lists
<1>5. FlattenSeq(lists) \in Seq(M)
  BY <1>4, FlatIsList
<1> QED BY <1>1, <1>3, <1>5, ConcatIs DEF M

\* The chosen match is one of them.
LEMMA ChosenIs ==
  ASSUME NEW M, NEW matches \in Seq(M), matches # << >>
  PROVE  CanonicalMatch(matches) \in M
<1> DEFINE rest == Tail(matches)
<1>1. rest \in Seq(M) /\ matches[1] \in M
  OBVIOUS
<1>2. CanonicalMatch(matches) = PlanTurned("best", << >>, matches[1], rest)
  BY DEF CanonicalMatch, PlanTurned, PlanTurn, Better, FoldLeft, MapThenFoldSet
<1> HIDE DEF rest
<1>3. Len(rest) \in Nat /\ DOMAIN rest = 1..Len(rest) /\ \A k \in 1..Len(rest) : rest[k] \in M
  BY <1>1
<1>4. PICK h : PlanTurns("best", << >>, h, matches[1], rest) /\ PlanTurned("best", << >>, matches[1], rest) = h[Len(rest)]
  BY <1>3, PlanTurnIsRun
<1> DEFINE T == {k \in 0..Len(rest) : h[k] \in M}
<1>5. 0 \in T
  BY <1>1, <1>3, <1>4 DEF PlanTurns
<1>6. ASSUME NEW k \in 1..Len(rest), k - 1 \in T PROVE k \in T
  <2>1. h[k] = PlanTurn("best", << >>, h[k - 1], rest[k]) /\ h[k - 1] \in M /\ rest[k] \in M
    BY <1>3, <1>4, <1>6 DEF PlanTurns
  <2>2. h[k] \in M
    BY <2>1 DEF PlanTurn, Better
  <2> QED BY <2>2
<1> HIDE DEF T
<1>7. \A k \in 0..Len(rest) : k \in T
  BY <1>3, <1>5, <1>6, Climb
<1>8. Len(rest) \in T
  BY <1>3, <1>7
<1> QED BY <1>2, <1>4, <1>8 DEF T

-----------------------------------------------------------------------------
(* The TIDAL plan: what is approved by itself.                             *)

\* A song and a favourite stand behind what is approved: the song has the
\* favourite's link, or the run has given it that link and they are alike.
Backed(p, claimed, tracks, catalog) ==
    \E i \in DOMAIN catalog, j \in DOMAIN tracks :
        /\ catalog[i].id = p.target /\ tracks[j].id = p.track
        /\ \/ catalog[i].tidal = p.track
           \/ catalog[i].tidal = "" /\ p.target \in DOMAIN claimed /\ claimed[p.target] = p.track
        /\ Evident(catalog[i], tracks[j])
PlanHolds(so, tracks, catalog) ==
    /\ so = [plans |-> so.plans, claimed |-> so.claimed]
    /\ \E S : so.plans \in Seq(S) /\ \A p \in S : p.auto => Backed(p, so.claimed, tracks, catalog)

\* A claim is never taken over.
LEMMA ClaimKeeps ==
  ASSUME NEW track, NEW best, NEW claimed
  PROVE  /\ \A x \in DOMAIN claimed : x \in DOMAIN Claim(track, best, claimed) /\ Claim(track, best, claimed)[x] = claimed[x]
         /\ best.song.tidal # track.id /\ AutoLinks(track, best, claimed) =>
              /\ best.song.id \in DOMAIN Claim(track, best, claimed)
              /\ Claim(track, best, claimed)[best.song.id] = track.id
<1> DEFINE new == [id \in DOMAIN claimed \cup {best.song.id} |-> IF id = best.song.id THEN track.id ELSE claimed[id]]
<1>1. /\ DOMAIN new = {best.song.id} \cup DOMAIN claimed /\ new[best.song.id] = track.id
      /\ \A x \in DOMAIN claimed : new[x] = IF x = best.song.id THEN track.id ELSE claimed[x]
  OBVIOUS
<1> HIDE DEF new
<1>2. CASE best.song.tidal # track.id /\ AutoLinks(track, best, claimed)
  <2>1. best.song.id \in DOMAIN claimed => claimed[best.song.id] = track.id
    BY <1>2 DEF AutoLinks, ClaimedByAnother
  <2>2. Claim(track, best, claimed) = new
    BY <1>2 DEF Claim, new
  <2> QED BY <1>1, <1>2, <2>1, <2>2
<1>3. CASE ~(best.song.tidal # track.id /\ AutoLinks(track, best, claimed))
  BY <1>3 DEF Claim
<1> QED BY <1>2, <1>3

\* What one track gives rise to: whatever is approved by itself is backed.
LEMMA PlansAre ==
  ASSUME NEW tracks, NEW catalog, NEW j \in DOMAIN tracks, NEW claimed,
         NEW matches \in Seq(MatchesOf(tracks[j], catalog)), matches # << >>
  PROVE  LET then == Claim(tracks[j], CanonicalMatch(matches), claimed)
         IN  \E S : /\ PlansOf(tracks[j], matches, claimed) \in Seq(S)
                    /\ \A p \in S : p.auto => Backed(p, then, tracks, catalog)
<1> DEFINE track == tracks[j]
           best  == CanonicalMatch(matches)
           then  == Claim(track, best, claimed)
           fields == Fillable(track, best.song)
           offer == [album |-> Clean(track.album), date |-> track.date, type |-> track.album.type]
           alink == AutoLinks(track, best, claimed)
           afill == AutoFills(track, best, then, fields)
           same  == {Proposal("duplicate", m.song.id, [dup |-> best.song.id], m.score, track, FALSE, FALSE) :
                       m \in MatchesOf(track, catalog)}
           link  == Proposal("link", best.song.id, [tidal |-> track.id], best.score, track,
                        alink, ~alink /\ best.score >= AutoLinkThreshold)
           fill  == Proposal("fill", best.song.id, [f \in fields |-> offer[f]], best.score, track,
                        afill, ~afill /\ best.score >= AutoLinkThreshold)
           name  == Proposal("album_name", best.song.id, [album |-> Clean(track.album)],
                        best.score, track, FALSE, FALSE)
           type(t) == Proposal("release_type", best.song.id, [type |-> t],
                        best.score, track, FALSE, FALSE)
           some  == type(IF track.album.type # "" THEN track.album.type ELSE best.song.album.type)
           credit == Proposal("credit", best.song.id, [credit |-> track.artists],
                    best.score, track, FALSE, FALSE)
           S == {p \in same \cup {link, fill, name, some, credit} : p.auto => Backed(p, then, tracks, catalog)}
<1>1. PICK i \in DOMAIN catalog :
        best.song = catalog[i] /\ (best.score >= AutoLinkThreshold /\ best.artist => Evident(catalog[i], track))
  <2>1. best \in MatchesOf(track, catalog)
    BY ChosenIs
  <2> HIDE DEF best, track
  <2> QED BY <2>1 DEF MatchesOf, Found
<1>2. /\ \A x \in DOMAIN claimed : x \in DOMAIN then /\ then[x] = claimed[x]
      /\ best.song.tidal # track.id /\ alink => best.song.id \in DOMAIN then /\ then[best.song.id] = track.id
  BY ClaimKeeps
<1> HIDE DEF best, then, track
<1>3. /\ link.auto = alink /\ link.target = best.song.id /\ link.track = track.id
      /\ fill.auto = afill /\ fill.target = best.song.id /\ fill.track = track.id
      /\ name.auto = FALSE /\ some.auto = FALSE /\ credit.auto = FALSE /\ \A p \in same : p.auto = FALSE
  BY DEF Proposal
<1>4. ASSUME NEW p, p.target = best.song.id, p.track = track.id, Evident(catalog[i], track),
             \/ catalog[i].tidal = track.id
             \/ catalog[i].tidal = "" /\ best.song.id \in DOMAIN then /\ then[best.song.id] = track.id
      PROVE  Backed(p, then, tracks, catalog)
  BY <1>1, <1>4 DEF Backed, track
<1> HIDE DEF link, fill, name, some, credit, same
<1>5. best.song.tidal # track.id => link \in S
  <2> SUFFICES ASSUME best.song.tidal # track.id, alink PROVE Backed(link, then, tracks, catalog)
    BY <1>3
  <2>1. best.song.tidal = "" /\ best.score >= AutoLinkThreshold /\ best.artist
    BY DEF AutoLinks
  <2> QED BY <1>1, <1>2, <1>3, <1>4, <2>1
<1>6. fill \in S
  <2> SUFFICES ASSUME afill PROVE Backed(fill, then, tracks, catalog)
    BY <1>3
  <2>1. /\ best.score >= AutoLinkThreshold /\ best.artist /\ best.song.tidal \in {"", track.id}
        /\ ~ClaimedByAnother(track, best.song, then)
    BY DEF AutoFills
  <2>2. CASE best.song.tidal = track.id
    BY <1>1, <1>3, <1>4, <2>1, <2>2
  <2>3. CASE best.song.tidal # track.id
    <3>1. best.song.tidal = ""
      BY <2>1, <2>3
    <3>2. alink
      BY <1>2, <2>1, <3>1 DEF AutoLinks, ClaimedByAnother
    <3> QED BY <1>1, <1>2, <1>3, <1>4, <2>1, <2>3, <3>1, <3>2
  <2> QED BY <2>2, <2>3
<1>7. name \in S /\ some \in S /\ credit \in S /\ \A p \in same : p \in S
  BY <1>3
<1>8. /\ Link(track, best, claimed) \in {<< >>, <<link>>}
      /\ best.song.tidal = track.id => Link(track, best, claimed) = << >>
      /\ Fill(track, best, then) \in {<< >>, <<fill>>}
      /\ AlbumName(track, best) \in {<< >>, <<name>>} /\ ReleaseType(track, best) \in {<< >>, <<some>>}
      /\ Credit(track, best) \in {<< >>, <<credit>>}
  BY DEF Link, Fill, AlbumName, ReleaseType, Credit, link, fill, name, some, credit
<1>9. Duplicates(track, matches, best) \in Seq(same)
  <2> DEFINE of(m) == Proposal("duplicate", m.song.id, [dup |-> best.song.id], m.score, track, FALSE, FALSE)
             at(m) == IF m.song.id # best.song.id /\ m.score = best.score THEN <<of(m)>> ELSE << >>
             lists == [k \in DOMAIN matches |-> at(matches[k])]
  <2>1. Duplicates(track, matches, best) = FlattenSeq(lists)
    BY DEF Duplicates
  <2>2. \A k \in 1..Len(matches) : matches[k] \in MatchesOf(track, catalog)
    BY DEF track
  <2>3. Len(matches) \in Nat /\ DOMAIN matches = 1..Len(matches)
    OBVIOUS
  <2>4. ASSUME NEW k \in 1..Len(matches) PROVE at(matches[k]) \in Seq(same)
    <3>1. of(matches[k]) \in same
      BY <2>2 DEF same
    <3>2. PICK p \in same : p = of(matches[k])
      BY <3>1, Zenon
    <3>3. at(matches[k]) = << >> \/ at(matches[k]) = <<p>>
      BY <3>2, Zenon
    <3>4. << >> \in Seq(same) /\ <<p>> \in Seq(same)
      OBVIOUS
    <3> QED BY <3>3, <3>4, Zenon
  <2> HIDE DEF at
  <2>5. lists \in Seq(Seq(same))
    BY <2>3, <2>4
  <2> HIDE DEF lists
  <2> QED BY <2>1, <2>5, FlatIsList
<1> HIDE DEF S
<1>10. << >> \in Seq(S) /\ \A p \in S : <<p>> \in Seq(S)
  OBVIOUS
<1>11. /\ Link(track, best, claimed) \in Seq(S) /\ Fill(track, best, then) \in Seq(S)
       /\ AlbumName(track, best) \in Seq(S) /\ ReleaseType(track, best) \in Seq(S) /\ Credit(track, best) \in Seq(S)
  BY <1>5, <1>6, <1>7, <1>8, <1>10, Zenon
<1>12. Duplicates(track, matches, best) \in Seq(S)
  <2>1. same \subseteq S
    BY <1>7
  <2> QED BY <1>9, <2>1
<1>13. \A u, v \in Seq(S) : u \o v \in Seq(S)
  BY ConcatIs
<1>14. PlansOf(track, matches, claimed) =
         Duplicates(track, matches, best) \o Link(track, best, claimed) \o Fill(track, best, then)
         \o AlbumName(track, best) \o ReleaseType(track, best) \o Credit(track, best)
  BY Zenon DEF PlansOf, best, then
<1>15. PlansOf(track, matches, claimed) \in Seq(S)
  <2> DEFINE two   == Duplicates(track, matches, best) \o Link(track, best, claimed)
             three == two \o Fill(track, best, then)
             four  == three \o AlbumName(track, best)
             five  == four \o ReleaseType(track, best)
  <2>1. two \in Seq(S)
    BY <1>11, <1>12, <1>13, Zenon
  <2> HIDE DEF two
  <2>2. three \in Seq(S)
    BY <1>11, <1>13, <2>1, Zenon
  <2> HIDE DEF three
  <2>3. four \in Seq(S)
    BY <1>11, <1>13, <2>2, Zenon
  <2> HIDE DEF four
  <2>4. five \in Seq(S)
    BY <1>11, <1>13, <2>3, Zenon
  <2> HIDE DEF five
  <2>5. five \o Credit(track, best) \in Seq(S)
    BY <1>11, <1>13, <2>4, Zenon
  <2> QED BY <1>14, <2>5, Zenon DEF two, three, four, five
<1>16. \A p \in S : p.auto => Backed(p, then, tracks, catalog)
  BY DEF S
<1> QED BY <1>15, <1>16 DEF then, best, track

\* A claim that is kept backs what it backed.
LEMMA BackedStays ==
  ASSUME NEW p, NEW claimed, NEW then, NEW tracks, NEW catalog, Backed(p, claimed, tracks, catalog),
         \A x \in DOMAIN claimed : x \in DOMAIN then /\ then[x] = claimed[x]
  PROVE  Backed(p, then, tracks, catalog)
BY Zenon DEF Backed

\* Each track keeps the plan backed.
LEMMA TrackKeeps ==
  ASSUME NEW tracks, NEW catalog, Len(catalog) \in Nat, DOMAIN catalog = 1..Len(catalog),
         NEW j \in DOMAIN tracks, NEW so, PlanHolds(so, tracks, catalog)
  PROVE  PlanHolds(ReconcileOne(so, tracks[j], catalog), tracks, catalog)
<1> DEFINE track   == tracks[j]
           matches == FindAllMatches(track, catalog)
           best    == CanonicalMatch(matches)
           then    == Claim(track, best, so.claimed)
           new     == ReconcileOne(so, track, catalog)
<1>1. PICK S : so.plans \in Seq(S) /\ \A p \in S : p.auto => Backed(p, so.claimed, tracks, catalog)
  BY DEF PlanHolds
<1>2. so = [plans |-> so.plans, claimed |-> so.claimed]
  BY DEF PlanHolds
<1>3. CASE track.title = ""
  BY <1>3 DEF ReconcileOne
<1>4. CASE track.title # "" /\ matches = << >>
  <2> DEFINE T == S \cup {Addition(track)}
  <2>1. new = [plans |-> Append(so.plans, Addition(track)), claimed |-> so.claimed]
    BY <1>2, <1>4 DEF ReconcileOne
  <2>2. \A p \in T : p.auto => Backed(p, so.claimed, tracks, catalog)
    BY <1>1 DEF Addition, Proposal
  <2>3. PICK p \in T : p = Addition(track)
    OBVIOUS
  <2>4. S \subseteq T
    OBVIOUS
  <2> HIDE DEF T
  <2>5. Append(so.plans, p) \in Seq(T)
    BY <1>1, <2>4
  <2>6. new.plans \in Seq(T) /\ new.claimed = so.claimed /\ new = [plans |-> new.plans, claimed |-> new.claimed]
    BY <2>1, <2>3, <2>5
  <2> HIDE DEF new
  <2> QED BY <2>2, <2>6 DEF PlanHolds, new
<1>5. CASE track.title # "" /\ matches # << >>
  <2>1. new = [plans |-> so.plans \o PlansOf(track, matches, so.claimed), claimed |-> then]
    BY <1>5 DEF ReconcileOne
  <2>2. matches \in Seq(MatchesOf(track, catalog))
    BY FoundAre
  <2>3. PICK R : /\ PlansOf(track, matches, so.claimed) \in Seq(R)
                 /\ \A p \in R : p.auto => Backed(p, then, tracks, catalog)
    <3> HIDE DEF matches
    <3> QED BY <1>5, <2>2, PlansAre
  <2>4. \A x \in DOMAIN so.claimed : x \in DOMAIN then /\ then[x] = so.claimed[x]
    <3> HIDE DEF best
    <3> QED BY ClaimKeeps
  <2> HIDE DEF then, track, matches
  <2> DEFINE T == S \cup R
  <2>5. \A p \in T : p.auto => Backed(p, then, tracks, catalog)
    BY <1>1, <2>3, <2>4, BackedStays
  <2>6. so.plans \in Seq(T) /\ PlansOf(track, matches, so.claimed) \in Seq(T)
    <3>1. S \subseteq T /\ R \subseteq T
      OBVIOUS
    <3> HIDE DEF T
    <3>2. so.plans \in Seq(T)
      BY <1>1, <3>1
    <3>3. PlansOf(track, matches, so.claimed) \in Seq(T)
      BY <2>3, <3>1
    <3> QED BY <3>2, <3>3
  <2> HIDE DEF T
  <2>7. so.plans \o PlansOf(track, matches, so.claimed) \in Seq(T)
    BY <2>6, ConcatIs
  <2>8. new.plans \in Seq(T) /\ new.claimed = then /\ new = [plans |-> new.plans, claimed |-> new.claimed]
    BY <2>1, <2>7
  <2> HIDE DEF new
  <2> QED BY <2>5, <2>8 DEF PlanHolds, new, track
<1> QED BY <1>3, <1>4, <1>5

\* The elements of a list.
LEMMA ElementsAre == ASSUME NEW S, NEW u \in Seq(S) PROVE \A i \in DOMAIN u : u[i] \in S
<1>1. DOMAIN u = 1..Len(u) /\ \A i \in 1..Len(u) : u[i] \in S
  OBVIOUS
<1> QED BY <1>1

\* The whole plan is backed.
LEMMA PlanIsBacked ==
  ASSUME NEW tracks, NEW catalog, Len(catalog) \in Nat, DOMAIN catalog = 1..Len(catalog),
         Len(tracks) \in Nat, DOMAIN tracks = 1..Len(tracks)
  PROVE  PlanHolds(PlanTurned("plan", catalog, [plans |-> << >>, claimed |-> << >>], tracks), tracks, catalog)
<1> DEFINE none == [plans |-> << >>, claimed |-> << >>]
           N    == Len(tracks)
<1>0. N \in Nat /\ DOMAIN tracks = 1..N
  OBVIOUS
<1>1. PICK h : PlanTurns("plan", catalog, h, none, tracks) /\ PlanTurned("plan", catalog, none, tracks) = h[N]
  <2> HIDE DEF none
  <2> QED BY PlanTurnIsRun
<1> DEFINE T == {k \in 0..N : PlanHolds(h[k], tracks, catalog)}
<1>2. 0 \in T
  <2>1. none.plans = << >> /\ none = [plans |-> none.plans, claimed |-> none.claimed]
    OBVIOUS
  <2>2. << >> \in Seq({})
    OBVIOUS
  <2>3. h[0] = none
    BY <1>1, Zenon DEF PlanTurns
  <2> HIDE DEF none
  <2>4. PlanHolds(none, tracks, catalog)
    <3>1. none.plans \in Seq({}) /\ \A p \in {} : p.auto => Backed(p, none.claimed, tracks, catalog)
      BY <2>1, <2>2, Zenon
    <3>2. \E S : none.plans \in Seq(S) /\ \A p \in S : p.auto => Backed(p, none.claimed, tracks, catalog)
      <4> WITNESS {}
      <4> QED BY <3>1
    <3> QED BY <2>1, <3>2 DEF PlanHolds
  <2> QED BY <1>0, <2>3, <2>4
<1> HIDE DEF none
<1>3. ASSUME NEW k \in 1..N, k - 1 \in T PROVE k \in T
  <2>1. h[k] = ReconcileOne(h[k - 1], tracks[k], catalog)
    BY <1>1, Zenon DEF PlanTurns, PlanTurn
  <2>2. PlanHolds(h[k - 1], tracks, catalog) /\ k \in DOMAIN tracks
    BY <1>0, <1>3
  <2>3. PlanHolds(h[k], tracks, catalog)
    BY <2>1, <2>2, TrackKeeps, Zenon
  <2> QED BY <1>0, <2>3
<1> HIDE DEF T
<1>4. \A k \in 0..N : k \in T
  BY <1>0, <1>2, <1>3, Climb
<1>5. N \in T
  BY <1>0, <1>4
<1>6. PlanHolds(h[N], tracks, catalog)
  BY <1>5 DEF T
<1> QED BY <1>1, <1>6 DEF none

\* For any favourites with ids and any catalogue whose songs have different ids, what
\* a run approves by itself is one link per song, never over another, with the whole
\* title and an artist as evidence (Reconcile, findAllMatches).
THEOREM ProposalsHold ==
  ASSUME Len(seen.tracks) \in Nat, DOMAIN seen.tracks = 1..Len(seen.tracks),
         Len(seen.catalog) \in Nat, DOMAIN seen.catalog = 1..Len(seen.catalog),
         \A j \in DOMAIN seen.tracks : seen.tracks[j].id # "",
         \A i, k \in DOMAIN seen.catalog : seen.catalog[i].id = seen.catalog[k].id => i = k
  PROVE  ProposalsAreSound
<1> DEFINE tracks  == seen.tracks
           catalog == seen.catalog
           end     == PlanTurned("plan", catalog, [plans |-> << >>, claimed |-> << >>], tracks)
<1>1. Reconcile(tracks, catalog) = end.plans
  BY DEF Reconcile, PlanTurned, PlanTurn, FoldLeft, MapThenFoldSet
<1>2. PlanHolds(end, tracks, catalog)
  BY PlanIsBacked
<1>3. PICK S : end.plans \in Seq(S) /\ \A p \in S : p.auto => Backed(p, end.claimed, tracks, catalog)
  BY <1>2 DEF PlanHolds
<1>4. \A p \in Proposed : p.auto => Backed(p, end.claimed, tracks, catalog)
  <2>1. Proposed = {end.plans[i] : i \in DOMAIN end.plans}
    BY <1>1 DEF Proposed, ToSet
  <2> HIDE DEF end
  <2>2. \A i \in DOMAIN end.plans : end.plans[i] \in S
    <3>1. end.plans \in Seq(S)
      BY <1>3
    <3>2. \A u \in Seq(S) : \A i \in DOMAIN u : u[i] \in S
      BY ElementsAre
    <3> QED BY <3>1, <3>2, Zenon
  <2> QED BY <1>3, <2>1, <2>2
<1> HIDE DEF end
<1>5. OneSourcePerSong
  <2>1. ASSUME NEW p \in Proposed, p.auto, NEW q \in Proposed, q.auto, p.target = q.target PROVE p.track = q.track
    <3>1. PICK i \in DOMAIN catalog, j \in DOMAIN tracks :
            /\ catalog[i].id = p.target /\ tracks[j].id = p.track
            /\ \/ catalog[i].tidal = p.track
               \/ catalog[i].tidal = "" /\ p.target \in DOMAIN end.claimed /\ end.claimed[p.target] = p.track
      BY <1>4, <2>1 DEF Backed
    <3>2. PICK k \in DOMAIN catalog, l \in DOMAIN tracks :
            /\ catalog[k].id = q.target /\ tracks[l].id = q.track
            /\ \/ catalog[k].tidal = q.track
               \/ catalog[k].tidal = "" /\ q.target \in DOMAIN end.claimed /\ end.claimed[q.target] = q.track
      BY <1>4, <2>1 DEF Backed
    <3>3. i = k /\ p.track # "" /\ q.track # ""
      BY <2>1, <3>1, <3>2
    <3> QED BY <2>1, <3>1, <3>2, <3>3
  <2>2. ASSUME NEW p \in Proposed, p.auto, NEW i \in DOMAIN catalog, catalog[i].id = p.target
        PROVE  catalog[i].tidal \in {"", p.track}
    BY <1>4, <2>2 DEF Backed
  <2> QED BY <2>1, <2>2 DEF OneSourcePerSong, OneSource
<1>6. AutoHasEvidence
  <2> SUFFICES ASSUME NEW p \in Proposed, p.auto
               PROVE  \E i \in DOMAIN catalog, j \in DOMAIN tracks :
                        /\ catalog[i].id = p.target /\ tracks[j].id = p.track
                        /\ \/ catalog[i].tidal = p.track
                           \/ catalog[i].title = tracks[j].title /\ SharesArtist(tracks[j], catalog[i])
    BY DEF AutoHasEvidence
  <2> QED BY <1>4 DEF Backed, Evident
<1> QED BY <1>5, <1>6 DEF ProposalsAreSound
=============================================================================
