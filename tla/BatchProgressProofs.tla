------------------------- MODULE BatchProgressProofs -------------------------
(***************************************************************************)
(* The stream of a batch tells one story and the tables say no more than   *)
(* it, for any batches, artists, passes side by side and mishaps.  When an *)
(* append is one transaction a batch that is done is closed in its stream  *)
(* as well; message by message it may not be (Partial).                    *)
(*                                                                         *)
(* The three writers read a row at one step and append or update it at a   *)
(* later one.  What they carry meanwhile stays good because a member once  *)
(* enrolled stays enrolled while a call works on it (CallsAreEnrolled,     *)
(* PassesAreEnrolled) and because a stream that has begun has the same     *)
(* members as its tables (RosterAgrees), so that an append finds them.     *)
(***************************************************************************)
EXTENDS BatchProgress, FiniteSetTheorems, TLAPS

-----------------------------------------------------------------------------
(* The inductive invariant.                                                *)

Enrolled(b, a) == member[b][a] # "none"
Roster(b)      == {a \in Artists : Enrolled(b, a)}

CallTypes ==
    /\ call.pc # "idle" => call.b \in Batches /\ call.a \in Artists
    /\ call \in [pc : {"idle", "append", "mark"}, a : Artists \cup {Free.a}, b : Batches \cup {0}]
    /\ pass \in [Passes -> [pc : {"idle", "flip", "log"}, todo : SUBSET (Batches \X Artists)]]
    /\ start \in [Batches -> [pc : {"new", "selected", "persisted", "logged", "started", "over"},
                              artists : SUBSET Artists]]

Ordered(l) ==
    /\ \A i \in DOMAIN l : (l[i].type = "BatchStarted") = (i = 1)
    /\ \A i, j \in DOMAIN l : i # j => l[i] # l[j]
    /\ \A i \in DOMAIN l : l[i].type = "BatchCompleted" => i = Len(l) /\ Members(l) = Finished(l)

\* A transaction that completes the last member closes the batch.
FullIsClosed(l) == (~Partial /\ l # << >> /\ Members(l) = Finished(l)) => IsClosed(l)

StreamsAreOrdered ==
    \A b \in Batches : /\ Ordered(log[b]) /\ FullIsClosed(log[b])
                       /\ log[b] # << >> => Members(log[b]) # {}

\* The cached aggregate is of a batch that has a stream.
CacheIsFresh == cached # 0 => log[cached] # << >>

\* Until its insert a batch has no rows, until its first append no stream.
StartsAreNew ==
    \A b \in Batches :
        /\ start[b].pc \in {"new", "selected", "persisted"} => log[b] = << >>
        /\ start[b].pc \in {"new", "selected", "persisted", "logged"} => row[b] = "none"
        /\ start[b].pc \in {"selected", "persisted", "logged"} => start[b].artists # {}
        /\ start[b].pc = "logged" => log[b] # << >> /\ Members(log[b]) = start[b].artists

\* The two tables agree with each other, and their batch with its stream.
RowsAgree ==
    \A b \in Batches :
        /\ (row[b] = "none") = (Roster(b) = {})
        /\ row[b] = "done" => \A a \in Artists : member[b][a] # "open"
RosterAgrees ==
    \A b \in Batches : (row[b] # "none" /\ log[b] # << >>) => Members(log[b]) = Roster(b)

\* A callback and a pass work on members, and mark the one the log has.
CallsAreEnrolled ==
    /\ call.pc # "idle" => Enrolled(call.b, call.a)
    /\ call.pc = "mark" => call.a \in Finished(log[call.b])
PassesAreEnrolled == \A p \in Passes : \A f \in pass[p].todo : Enrolled(f[1], f[2])

TableInv == RowsAgree /\ RosterAgrees /\ CallsAreEnrolled /\ PassesAreEnrolled /\ DoneIsLogged
IInv == TypeOK /\ CallTypes /\ StreamsAreOrdered /\ CacheIsFresh /\ StartsAreNew /\ TableInv
-----------------------------------------------------------------------------
(* Streams of facts.                                                       *)

\* SetToSeq lists a finite set, each element once.
LEMMA ListsOnce ==
  ASSUME NEW S, IsFiniteSet(S)
  PROVE  /\ Cardinality(S) \in Nat
         /\ \A k \in 1..Cardinality(S) : SetToSeq(S)[k] \in S
         /\ \A j, k \in 1..Cardinality(S) : SetToSeq(S)[j] = SetToSeq(S)[k] => j = k
         /\ \A x \in S : \E k \in 1..Cardinality(S) : SetToSeq(S)[k] = x
<1> DEFINE n == Cardinality(S)
           f == SetToSeq(S)
<1>1. n \in Nat /\ ExistsBijection(1..n, S)
  BY FS_CardinalityType
<1>2. PICK g \in [1..n -> S] : IsInjective(g)
  BY <1>1 DEF ExistsBijection, Bijection, Injection, IsInjective
<1>3. f \in [1..n -> S] /\ IsInjective(f)
  BY <1>2 DEF SetToSeq
<1> HIDE DEF f
<1>4. f \in Injection(1..n, S)
  BY <1>3 DEF Injection, IsInjective
<1>5. IsFiniteSet(1..n) /\ Cardinality(1..n) = n
  BY <1>1, FS_Interval
<1> HIDE DEF n
<1>6. f \in Surjection(1..n, S)
  BY <1>4, <1>5, FS_Injection DEF n
<1> QED BY <1>1, <1>3, <1>6 DEF IsInjective, Surjection, n, f

\* Who is in the facts of a type.
LEMMA OfFacts ==
  ASSUME NEW l, NEW type
  PROVE  \A x : x \in Of(l, type) <=> \E i \in DOMAIN l : l[i].type = type /\ x \in l[i].artists
BY DEF Of

LEMMA FactKinds ==
  /\ \A as : Started(as).type = "BatchStarted" /\ Started(as).artists = as
  /\ \A a : Completed(a).type = "BatchArtistCompleted" /\ Completed(a).artists = {a}
  /\ Closing.type = "BatchCompleted" /\ Closing.artists = {}
  /\ \A a, c : Completed(a) = Completed(c) => a = c
  /\ \A a \in Artists : Completed(a) \in Facts
  /\ \A as \in SUBSET Artists : Started(as) \in Facts
  /\ Closing \in Facts
  /\ \A f \in Facts : /\ f.artists \subseteq Artists
                      /\ f.type \in {"BatchStarted", "BatchArtistCompleted", "BatchCompleted"}
                      /\ f.type = "BatchArtistCompleted" => \E a \in Artists : f = Completed(a)
                      /\ f.type = "BatchCompleted" => f = Closing
<1>1. \A as : Started(as).type = "BatchStarted" /\ Started(as).artists = as
  BY DEF Started
<1>2. \A a : Completed(a).type = "BatchArtistCompleted" /\ Completed(a).artists = {a}
  BY DEF Completed
<1>3. Closing.type = "BatchCompleted" /\ Closing.artists = {}
  BY DEF Closing
<1>4. \A a, c : Completed(a) = Completed(c) => a = c
  <2> TAKE a, c
  <2> HAVE Completed(a) = Completed(c)
  <2>1. {a} = {c}
    BY <1>2
  <2> QED BY <2>1
<1> HIDE DEF Started, Completed, Closing
<1>5. /\ \A a \in Artists : Completed(a) \in Facts
      /\ \A as \in SUBSET Artists : Started(as) \in Facts
      /\ Closing \in Facts
  BY DEF Facts
<1>6. ASSUME NEW f \in Facts
      PROVE  /\ f.artists \subseteq Artists
             /\ f.type \in {"BatchStarted", "BatchArtistCompleted", "BatchCompleted"}
             /\ f.type = "BatchArtistCompleted" => \E a \in Artists : f = Completed(a)
             /\ f.type = "BatchCompleted" => f = Closing
  <2>1. CASE \E as \in SUBSET Artists : f = Started(as)
    BY <1>1, <2>1
  <2>2. CASE \E a \in Artists : f = Completed(a)
    BY <1>2, <2>2
  <2>3. CASE f = Closing
    BY <1>3, <2>3
  <2> QED BY <2>1, <2>2, <2>3 DEF Facts
<1> QED BY <1>1, <1>2, <1>3, <1>4, <1>5, <1>6

\* The new facts: a completion of each member that is newly done, then perhaps
\* the closing.
LEMMA NewFactsAre ==
  ASSUME NEW l, NEW as \in SUBSET Artists
  PROVE  LET new == NewlyDone(l, as)
             c   == Cardinality(new)
             out == NewFacts(l, as)
         IN  /\ out \in Seq(Facts) /\ c \in Nat
             /\ Len(out) = IF new # {} /\ Members(l) = Finished(l) \cup new /\ ~IsClosed(l) THEN c + 1 ELSE c
             /\ \A k \in 1..Len(out) : k <= c => \E a \in new : out[k] = Completed(a)
             /\ \A k \in 1..Len(out) : k > c => k = c + 1 /\ out[k] = Closing
             /\ \A j, k \in 1..Len(out) : out[j] = out[k] => j = k
             /\ \A a \in new : \E k \in 1..c : out[k] = Completed(a)
<1> DEFINE new == NewlyDone(l, as)
           c   == Cardinality(new)
           f   == [i \in 1..c |-> Completed(SetToSeq(new)[i])]
           end == Close(l, new)
           out == NewFacts(l, as)
<1>1. new \in SUBSET Artists /\ IsFiniteSet(new)
  BY BatchBounds, FS_Subset DEF NewlyDone
<1>2. /\ c \in Nat
      /\ \A k \in 1..c : SetToSeq(new)[k] \in new
      /\ \A j, k \in 1..c : SetToSeq(new)[j] = SetToSeq(new)[k] => j = k
      /\ \A x \in new : \E k \in 1..c : SetToSeq(new)[k] = x
  BY <1>1, ListsOnce
<1>3. CASE new = {}
  <2>1. c = 0 /\ out = << >>
    BY <1>3, FS_EmptySet DEF NewFacts
  <2> HIDE DEF new, c, out
  <2> QED BY <1>3, <2>1 DEF new, c, out
<1>4. CASE new # {}
  <2>1. out = f \o end
    BY <1>4 DEF NewFacts
  <2>2. /\ f \in Seq(Facts) /\ Len(f) = c
        /\ \A k \in 1..c : f[k] \in Facts /\ f[k] = Completed(SetToSeq(new)[k])
    <3>1. \A k \in 1..c : Completed(SetToSeq(new)[k]) \in Facts
      BY <1>1, <1>2, FactKinds
    <3> HIDE DEF new, c
    <3> QED BY <1>2, <3>1
  <2>3. end = IF Members(l) = Finished(l) \cup new /\ ~IsClosed(l) THEN <<Closing>> ELSE << >>
    BY DEF Close
  <2>4. end \in Seq(Facts) /\ Closing \in Facts
    <3>1. Closing \in Facts
      BY FactKinds
    <3> HIDE DEF end, new
    <3>2. <<Closing>> \in Seq(Facts) /\ << >> \in Seq(Facts)
      BY <3>1
    <3> QED BY <2>3, <3>1, <3>2
  <2>5. /\ out \in Seq(Facts) /\ Len(out) = c + Len(end)
        /\ \A k \in 1..c : out[k] = f[k]
        /\ \A k \in (c + 1)..Len(out) : out[k] = end[k - c]
    <3>1. ASSUME NEW F, NEW u \in Seq(F), NEW v \in Seq(F)
          PROVE  /\ u \o v \in Seq(F) /\ Len(u \o v) = Len(u) + Len(v)
                 /\ \A k \in 1..Len(u) : (u \o v)[k] = u[k]
                 /\ \A k \in (Len(u) + 1)..(Len(u) + Len(v)) : (u \o v)[k] = v[k - Len(u)]
      OBVIOUS
    <3> HIDE DEF f, end, c, out, new
    <3>2. /\ f \o end \in Seq(Facts) /\ Len(f \o end) = Len(f) + Len(end)
          /\ \A k \in 1..Len(f) : (f \o end)[k] = f[k]
          /\ \A k \in (Len(f) + 1)..(Len(f) + Len(end)) : (f \o end)[k] = end[k - Len(f)]
      BY <2>2, <2>4, <3>1
    <3> QED BY <2>1, <2>2, <3>2
  <2> HIDE DEF f, end, out, c, new
  <2>6. Len(end) = IF Members(l) = Finished(l) \cup new /\ ~IsClosed(l) THEN 1 ELSE 0
    BY <2>3
  <2>7. \A k \in 1..Len(out) : k <= c =>
           k \in 1..c /\ out[k] = Completed(SetToSeq(new)[k]) /\ SetToSeq(new)[k] \in new
    BY <1>2, <2>2, <2>5
  <2>8. \A k \in 1..Len(out) : k > c => k = c + 1 /\ out[k] = Closing
    BY <1>2, <2>3, <2>5, <2>6
  <2>9. \A j, k \in 1..Len(out) : out[j] = out[k] => j = k
    <3> SUFFICES ASSUME NEW j \in 1..Len(out), NEW k \in 1..Len(out), out[j] = out[k]
                 PROVE  j = k
      OBVIOUS
    <3>1. CASE j <= c /\ k <= c
      <4>1. SetToSeq(new)[j] = SetToSeq(new)[k] /\ j \in 1..c /\ k \in 1..c
        BY <2>7, <3>1, FactKinds
      <4> QED BY <1>2, <4>1
    <3>2. CASE j > c /\ k > c
      BY <2>8, <3>2
    <3>3. CASE (j <= c /\ k > c) \/ (j > c /\ k <= c)
      BY <2>7, <2>8, <3>3, FactKinds
    <3> QED BY <1>2, <3>1, <3>2, <3>3
  <2>10. \A a \in new : \E k \in 1..c : out[k] = Completed(a)
    <3> TAKE a \in new
    <3>1. PICK k \in 1..c : SetToSeq(new)[k] = a
      BY <1>2
    <3> QED BY <2>2, <2>5, <3>1
  <2>11. Len(out) = IF new # {} /\ Members(l) = Finished(l) \cup new /\ ~IsClosed(l) THEN c + 1 ELSE c
    BY <1>2, <1>4, <2>5, <2>6
  <2>12. \A k \in 1..Len(out) : k <= c => \E a \in new : out[k] = Completed(a)
    BY <2>7
  <2> QED BY <1>2, <2>5, <2>8, <2>9, <2>10, <2>11, <2>12 DEF new, c, out
<1> QED BY <1>3, <1>4

\* An index of two sequences joined is in the first or past it.
LEMMA SplitIndex ==
  ASSUME NEW x \in Nat, NEW y \in Nat, NEW i \in 1..(x + y)
  PROVE  i \in 1..x \/ \E k \in 1..y : i = x + k
<1>1. CASE i > x
  <2>1. i - x \in 1..y /\ i = x + (i - x)
    BY <1>1
  <2> QED BY <2>1
<1> QED BY <1>1

\* A stream and the first n of some more facts.
LEMMA Joined ==
  ASSUME NEW l \in Seq(Facts), NEW out \in Seq(Facts), NEW n \in 0..Len(out),
         NEW m, m = l \o SubSeq(out, 1, n)
  PROVE  /\ m \in Seq(Facts) /\ Len(m) = Len(l) + n /\ DOMAIN m = 1..(Len(l) + n)
         /\ \A i \in 1..Len(l) : m[i] = l[i]
         /\ \A k \in 1..n : m[Len(l) + k] = out[k]
<1>1. ASSUME NEW F, NEW u \in Seq(F), NEW v \in Seq(F), NEW k \in 0..Len(v)
      PROVE  LET x == u \o SubSeq(v, 1, k)
             IN  /\ x \in Seq(F) /\ Len(x) = Len(u) + k /\ DOMAIN x = 1..(Len(u) + k)
                 /\ \A i \in 1..Len(u) : x[i] = u[i]
                 /\ \A j \in 1..k : x[Len(u) + j] = v[j]
  <2> DEFINE w == SubSeq(v, 1, k)
             x == u \o w
  <2>1. w \in Seq(F) /\ Len(w) = k /\ \A j \in 1..k : w[j] = v[j]
    OBVIOUS
  <2>2. \A s, t \in Seq(F) : /\ s \o t \in Seq(F) /\ Len(s \o t) = Len(s) + Len(t)
                             /\ \A i \in 1..Len(s) : (s \o t)[i] = s[i]
                             /\ \A j \in 1..Len(t) : (s \o t)[Len(s) + j] = t[j]
    OBVIOUS
  <2> HIDE DEF w
  <2>3. x \in Seq(F) /\ Len(x) = Len(u) + Len(w)
    BY <2>1, <2>2
  <2>4. /\ \A i \in 1..Len(u) : x[i] = u[i]
        /\ \A j \in 1..Len(w) : x[Len(u) + j] = w[j]
    BY <2>1, <2>2
  <2> HIDE DEF x
  <2>5. /\ x \in Seq(F) /\ Len(x) = Len(u) + k /\ DOMAIN x = 1..(Len(u) + k)
        /\ \A i \in 1..Len(u) : x[i] = u[i]
        /\ \A j \in 1..k : x[Len(u) + j] = v[j]
    <3>1. DOMAIN x = 1..Len(x)
      BY <2>3
    <3> QED BY <2>1, <2>3, <2>4, <3>1
  <2> QED BY <2>5 DEF x, w
<1> QED BY <1>1

LEMMA OfJoined ==
  ASSUME NEW l \in Seq(Facts), NEW out \in Seq(Facts), NEW n \in 0..Len(out), NEW type
  PROVE  \A x : x \in Of(l \o SubSeq(out, 1, n), type) <=>
            x \in Of(l, type) \/ \E k \in 1..n : out[k].type = type /\ x \in out[k].artists
<1> DEFINE m == l \o SubSeq(out, 1, n)
<1>1. /\ DOMAIN m = 1..(Len(l) + n)
      /\ \A i \in 1..Len(l) : m[i] = l[i]
      /\ \A k \in 1..n : m[Len(l) + k] = out[k]
  BY Joined
<1>0. DOMAIN l = 1..Len(l) /\ Len(l) \in Nat /\ n \in Nat
  OBVIOUS
<1>2. /\ \A k \in 1..n : Len(l) + k \in 1..(Len(l) + n)
      /\ \A i \in 1..Len(l) : i \in 1..(Len(l) + n)
  BY <1>0
<1> HIDE DEF m
<1>6. \A i \in DOMAIN m : i \in 1..Len(l) \/ \E k \in 1..n : i = Len(l) + k
  <2>1. \A i \in 1..(Len(l) + n) : i \in 1..Len(l) \/ \E k \in 1..n : i = Len(l) + k
    BY <1>0, SplitIndex
  <2> QED BY <1>1, <2>1
<1> SUFFICES ASSUME NEW x
             PROVE  x \in Of(m, type) <=>
                      x \in Of(l, type) \/ \E k \in 1..n : out[k].type = type /\ x \in out[k].artists
  BY DEF m
<1>3. ASSUME x \in Of(m, type)
      PROVE  x \in Of(l, type) \/ \E k \in 1..n : out[k].type = type /\ x \in out[k].artists
  <2>1. PICK i \in DOMAIN m : m[i].type = type /\ x \in m[i].artists
    BY <1>3, OfFacts
  <2>2. CASE i \in 1..Len(l)
    BY <1>0, <1>1, <2>1, <2>2, OfFacts
  <2>3. CASE \E k \in 1..n : i = Len(l) + k
    BY <1>1, <2>1, <2>3
  <2> QED BY <1>6, <2>2, <2>3
<1>4. ASSUME x \in Of(l, type)
      PROVE  x \in Of(m, type)
  <2>1. PICK i \in DOMAIN l : l[i].type = type /\ x \in l[i].artists
    BY <1>4, OfFacts
  <2>2. i \in DOMAIN m /\ m[i] = l[i]
    BY <1>0, <1>1, <1>2
  <2> QED BY <2>1, <2>2, OfFacts
<1>5. ASSUME NEW k \in 1..n, out[k].type = type, x \in out[k].artists
      PROVE  x \in Of(m, type)
  <2>1. Len(l) + k \in DOMAIN m /\ m[Len(l) + k] = out[k]
    BY <1>1, <1>2
  <2> QED BY <1>5, <2>1, OfFacts
<1> QED BY <1>3, <1>4, <1>5

\* A stream that has begun keeps its members, and a closed one is complete.
LEMMA OrderedStreams ==
  ASSUME NEW l \in Seq(Facts), Ordered(l)
  PROVE  /\ l # << >> => l[1].type = "BatchStarted"
         /\ \A i \in DOMAIN l : i # 1 => l[i].type # "BatchStarted"
         /\ IsClosed(l) => Members(l) = Finished(l)
         /\ Members(l) \subseteq Artists /\ Finished(l) \subseteq Members(l)
<1>1. l # << >> => 1 \in DOMAIN l
  OBVIOUS
<1>2. IsClosed(l) => Members(l) = Finished(l)
  BY DEF Ordered, IsClosed
<1>3. \A i \in DOMAIN l : l[i] \in Facts
  <2>1. \A F : \A u \in Seq(F) : \A i \in DOMAIN u : u[i] \in F
    OBVIOUS
  <2> QED BY <2>1
<1>4. \A i \in DOMAIN l : l[i].artists \subseteq Artists
  BY <1>3, FactKinds
<1>5. Members(l) \subseteq Artists
  BY <1>4, OfFacts DEF Members
<1> QED BY <1>1, <1>2, <1>5 DEF Ordered, Finished

\* An append of new facts, whole or torn, keeps the stream one story.
LEMMA Appended ==
  ASSUME NEW l \in Seq(Facts), l # << >>, Ordered(l), FullIsClosed(l),
         NEW as \in SUBSET Artists, NEW n \in 0..Len(NewFacts(l, as)),
         Partial \/ n = 0 \/ n = Len(NewFacts(l, as))
  PROVE  LET m == l \o SubSeq(NewFacts(l, as), 1, n)
         IN  /\ m \in Seq(Facts) /\ m # << >> /\ Ordered(m) /\ FullIsClosed(m)
             /\ Members(m) = Members(l) /\ Finished(l) \subseteq Finished(m)
             /\ IsClosed(l) => IsClosed(m)
             /\ n = Len(NewFacts(l, as)) => as \cap Members(l) \subseteq Finished(m)
<1> DEFINE new == NewlyDone(l, as)
           c   == Cardinality(new)
           out == NewFacts(l, as)
           m   == l \o SubSeq(out, 1, n)
           whole == new # {} /\ Members(l) = Finished(l) \cup new /\ ~IsClosed(l)
<1>1. /\ out \in Seq(Facts) /\ c \in Nat /\ Len(out) = IF whole THEN c + 1 ELSE c
      /\ \A k \in 1..Len(out) : k <= c => \E a \in new : out[k] = Completed(a)
      /\ \A k \in 1..Len(out) : k > c => k = c + 1 /\ out[k] = Closing
      /\ \A j, k \in 1..Len(out) : out[j] = out[k] => j = k
      /\ \A a \in new : \E k \in 1..c : out[k] = Completed(a)
  BY NewFactsAre
<1>0. n \in 0..Len(out) /\ (Partial \/ n = 0 \/ n = Len(out))
  OBVIOUS
<1> HIDE DEF out, new, c, whole, m
<1>2. /\ m \in Seq(Facts) /\ Len(m) = Len(l) + n /\ DOMAIN m = 1..(Len(l) + n)
      /\ \A i \in 1..Len(l) : m[i] = l[i]
      /\ \A k \in 1..n : m[Len(l) + k] = out[k]
      /\ \A i \in DOMAIN m : i \in 1..Len(l) \/ \E k \in 1..n : i = Len(l) + k
  <2>1. m = l \o SubSeq(out, 1, n)
    BY DEF m
  <2>2. /\ m \in Seq(Facts) /\ Len(m) = Len(l) + n /\ DOMAIN m = 1..(Len(l) + n)
        /\ \A i \in 1..Len(l) : m[i] = l[i]
        /\ \A k \in 1..n : m[Len(l) + k] = out[k]
    BY <1>0, <1>1, <2>1, Joined
  <2>3. Len(l) \in Nat /\ n \in Nat
    BY <1>0
  <2>4. \A i \in 1..(Len(l) + n) : i \in 1..Len(l) \/ \E k \in 1..n : i = Len(l) + k
    BY <2>3, SplitIndex
  <2> QED BY <2>2, <2>4
<1>3. \A type, x : x \in Of(m, type) <=>
         x \in Of(l, type) \/ \E k \in 1..n : out[k].type = type /\ x \in out[k].artists
  BY <1>0, <1>1, OfJoined DEF m
<1>4. /\ Len(l) \in Nat /\ Len(l) # 0 /\ DOMAIN l = 1..Len(l) /\ n \in Nat /\ n <= Len(out) /\ Len(out) \in Nat
  <2>1. ASSUME NEW F, NEW u \in Seq(F)
        PROVE  Len(u) \in Nat /\ DOMAIN u = 1..Len(u) /\ (Len(u) = 0 => u = << >>)
    OBVIOUS
  <2>2. Len(l) \in Nat /\ DOMAIN l = 1..Len(l) /\ Len(l) # 0
    BY <2>1
  <2>3. Len(out) \in Nat
    BY <1>1, <2>1
  <2> QED BY <1>0, <2>2, <2>3
<1>5. /\ new \subseteq as \cap Members(l) /\ new \cap Finished(l) = {}
      /\ as \cap Members(l) \subseteq new \cup Finished(l)
  BY DEF NewlyDone, new
<1>7. \A k \in 1..n : /\ k \in 1..Len(out)
                      /\ k <= c => \E a \in new : out[k] = Completed(a)
                      /\ k > c => k = c + 1 /\ out[k] = Closing /\ whole /\ n = Len(out)
  BY <1>1, <1>4
<1>8. Members(m) = Members(l)
  <2>1. \A k \in 1..n : out[k].type # "BatchStarted"
    BY <1>1, <1>4, <1>7, FactKinds
  <2> QED BY <1>3, <2>1 DEF Members
<1>9. Finished(l) \subseteq Finished(m)
  BY <1>3, <1>8 DEF Finished
<1>10. \A k \in 1..n : k <= c => \E a \in new : out[k] = Completed(a) /\ a \in Finished(m)
  <2> SUFFICES ASSUME NEW k \in 1..n, k <= c
               PROVE  \E a \in new : out[k] = Completed(a) /\ a \in Finished(m)
    OBVIOUS
  <2>1. PICK a \in new : out[k] = Completed(a)
    BY <1>7
  <2>2. out[k].type = "BatchArtistCompleted" /\ a \in out[k].artists
    BY <2>1, FactKinds
  <2>3. a \in Of(m, "BatchArtistCompleted")
    BY <1>3, <2>2
  <2> QED BY <1>5, <1>8, <2>1, <2>3 DEF Finished
<1>11. Finished(m) \subseteq Finished(l) \cup new
  <2> SUFFICES ASSUME NEW x \in Finished(m), x \notin Finished(l)
               PROVE  x \in new
    OBVIOUS
  <2>1. PICK k \in 1..n : out[k].type = "BatchArtistCompleted" /\ x \in out[k].artists
    BY <1>3, <1>8 DEF Finished
  <2>2. k <= c
    BY <1>1, <1>4, <1>7, <2>1, FactKinds
  <2>3. PICK a \in new : out[k] = Completed(a)
    BY <1>7, <2>2
  <2> QED BY <2>1, <2>3, FactKinds
<1>12. n = Len(out) => new \subseteq Finished(m)
  <2> SUFFICES ASSUME n = Len(out), NEW a \in new
               PROVE  a \in Finished(m)
    OBVIOUS
  <2>1. PICK k \in 1..c : out[k] = Completed(a)
    BY <1>1
  <2>2. k \in 1..n /\ k <= c
    BY <1>1, <1>4, <2>1
  <2> QED BY <1>10, <2>1, <2>2, FactKinds
<1>13. IsClosed(l) => IsClosed(m)
  <2>1. \A i \in DOMAIN l : i \in DOMAIN m /\ m[i] = l[i]
    BY <1>2, <1>4
  <2> QED BY <2>1 DEF IsClosed
<1>14. IsClosed(l) => n = 0
  <2> SUFFICES ASSUME IsClosed(l)
               PROVE  n = 0
    OBVIOUS
  <2>1. new = {} /\ ~whole
    BY <1>5, OrderedStreams DEF whole
  <2>2. Len(out) = c /\ \A k \in 1..Len(out) : k > c
    BY <1>1, <2>1
  <2> QED BY <1>1, <1>4, <2>2
<1>15. (\E k \in 1..n : k > c) => Members(m) = Finished(m) /\ IsClosed(m)
  <2> SUFFICES ASSUME NEW k \in 1..n, k > c
               PROVE  Members(m) = Finished(m) /\ IsClosed(m)
    OBVIOUS
  <2>1. k = c + 1 /\ out[k] = Closing /\ whole /\ n = Len(out)
    BY <1>7
  <2>2. Members(m) \subseteq Finished(m)
    BY <1>8, <1>9, <1>12, <2>1 DEF whole
  <2>3. Len(l) + k \in DOMAIN m /\ m[Len(l) + k].type = "BatchCompleted"
    BY <1>2, <1>4, <2>1, FactKinds
  <2> QED BY <2>2, <2>3 DEF Finished, IsClosed
<1>16. Ordered(m)
  <2>1. ASSUME NEW i \in DOMAIN m
        PROVE  (m[i].type = "BatchStarted") = (i = 1)
    <3>1. CASE i \in 1..Len(l)
      BY <1>2, <1>4, <3>1 DEF Ordered
    <3>2. CASE \E k \in 1..n : i = Len(l) + k
      <4>1. PICK k \in 1..n : i = Len(l) + k
        BY <3>2
      <4>2. m[i] = out[k] /\ i # 1
        BY <1>2, <1>4, <4>1
      <4>3. m[i].type # "BatchStarted"
        BY <1>1, <1>4, <1>7, <4>2, FactKinds
      <4> QED BY <4>2, <4>3
    <3> QED BY <1>2, <3>1, <3>2
  <2>2. ASSUME NEW i \in 1..Len(l), NEW k \in 1..n
        PROVE  l[i] # out[k]
    <3>1. CASE k <= c
      <4>1. PICK a \in new : out[k] = Completed(a)
        BY <1>7, <3>1
      <4>2. l[i] = Completed(a) => a \in Finished(l)
        <5>1. l[i] = Completed(a) => l[i].type = "BatchArtistCompleted" /\ a \in l[i].artists
          BY FactKinds
        <5> QED BY <1>4, <1>5, <5>1, OfFacts DEF Finished
      <4> QED BY <1>5, <4>1, <4>2
    <3>2. CASE k > c
      <4>1. out[k] = Closing /\ ~IsClosed(l)
        BY <1>7, <3>2 DEF whole
      <4> QED BY <1>4, <4>1, FactKinds DEF IsClosed
    <3> QED BY <1>1, <3>1, <3>2
  <2>3. ASSUME NEW i \in DOMAIN m, NEW j \in DOMAIN m, m[i] = m[j]
        PROVE  i = j
    <3>1. CASE i \in 1..Len(l) /\ j \in 1..Len(l)
      BY <1>2, <1>4, <2>3, <3>1 DEF Ordered
    <3>2. CASE i \in 1..Len(l) /\ \E k \in 1..n : j = Len(l) + k
      BY <1>2, <2>2, <2>3, <3>2
    <3>3. CASE j \in 1..Len(l) /\ \E k \in 1..n : i = Len(l) + k
      <4>1. PICK k \in 1..n : i = Len(l) + k
        BY <3>3
      <4>2. m[i] = out[k] /\ m[j] = l[j]
        BY <1>2, <3>3, <4>1
      <4> QED BY <2>2, <2>3, <3>3, <4>2
    <3>4. CASE (\E k \in 1..n : i = Len(l) + k) /\ (\E k \in 1..n : j = Len(l) + k)
      <4>1. PICK k \in 1..n : i = Len(l) + k
        BY <3>4
      <4>2. PICK h \in 1..n : j = Len(l) + h
        BY <3>4
      <4>3. out[k] = out[h]
        BY <1>2, <2>3, <4>1, <4>2
      <4> QED BY <1>1, <1>7, <4>1, <4>2, <4>3
    <3> QED BY <1>2, <3>1, <3>2, <3>3, <3>4
  <2>4. ASSUME NEW i \in DOMAIN m, m[i].type = "BatchCompleted"
        PROVE  i = Len(m) /\ Members(m) = Finished(m)
    <3>1. CASE i \in 1..Len(l)
      <4>1. l[i].type = "BatchCompleted" /\ i \in DOMAIN l
        BY <1>2, <1>4, <2>4, <3>1
      <4>2. IsClosed(l) /\ i = Len(l) /\ Members(l) = Finished(l)
        BY <4>1 DEF Ordered, IsClosed
      <4>3. Len(m) = Len(l)
        BY <1>2, <1>4, <1>14, <4>2
      <4> QED BY <1>8, <1>9, <4>2, <4>3 DEF Finished
    <3>2. CASE \E k \in 1..n : i = Len(l) + k
      <4>1. PICK k \in 1..n : i = Len(l) + k
        BY <3>2
      <4>2. m[i] = out[k]
        BY <1>2, <4>1
      <4>3. k > c
        BY <1>1, <1>4, <1>7, <2>4, <4>2, FactKinds
      <4>4. k = c + 1 /\ whole /\ n = Len(out)
        BY <1>7, <4>3
      <4>5. i = Len(m)
        BY <1>1, <1>2, <4>1, <4>4
      <4> QED BY <1>15, <4>3, <4>5
    <3> QED BY <1>2, <3>1, <3>2
  <2> QED BY <2>1, <2>3, <2>4 DEF Ordered
<1>17. FullIsClosed(m)
  <2> SUFFICES ASSUME ~Partial, Members(m) = Finished(m)
               PROVE  IsClosed(m)
    BY DEF FullIsClosed
  <2>1. CASE n = 0 \/ new = {}
    <3>1. Members(l) = Finished(l)
      <4>1. CASE n = 0
        <5>1. 1..n = {}
          BY <4>1
        <5> QED BY <1>3, <1>8, <5>1 DEF Finished
      <4>2. CASE new = {}
        BY <1>8, <1>9, <1>11, <4>2
      <4> QED BY <2>1, <4>1, <4>2
    <3> QED BY <1>13, <3>1 DEF FullIsClosed
  <2>2. CASE n # 0 /\ new # {}
    <3>1. n = Len(out) /\ Members(l) \subseteq Finished(l) \cup new
      BY <1>0, <1>8, <1>11, <2>2
    <3>2. Members(l) = Finished(l) \cup new
      BY <1>5, <3>1 DEF Finished
    <3>3. CASE IsClosed(l)
      BY <1>13, <3>3
    <3>4. CASE ~IsClosed(l)
      <4>1. whole /\ Len(out) = c + 1
        BY <1>1, <2>2, <3>2, <3>4 DEF whole
      <4>2. c + 1 \in 1..n /\ c + 1 > c
        BY <1>1, <3>1, <4>1
      <4> QED BY <1>15, <4>2
    <3> QED BY <3>3, <3>4
  <2> QED BY <2>1, <2>2
<1>18. m # << >>
  BY <1>2, <1>4
<1>19. n = Len(out) => as \cap Members(l) \subseteq Finished(m)
  BY <1>5, <1>9, <1>12
<1> QED BY <1>2, <1>8, <1>9, <1>13, <1>16, <1>17, <1>18, <1>19 DEF m, out

-----------------------------------------------------------------------------
(* What an append may make of a stream.                                    *)

\* The stream l may follow l0 in a batch whose rows list R: it tells the same
\* story of the same members, further on.
Extends(l0, l, R) ==
    /\ l \in Seq(Facts) /\ Ordered(l) /\ FullIsClosed(l)
    /\ l = << >> => l0 = << >>
    /\ l # << >> => Members(l) = (IF l0 = << >> THEN R ELSE Members(l0))
    /\ Finished(l0) \subseteq Finished(l)
    /\ IsClosed(l0) => IsClosed(l)

\* A stream of one BatchStarted.
LEMMA FirstFact ==
  ASSUME NEW R \in SUBSET Artists, R # {}
  PROVE  LET l == <<Started(R)>>
         IN  /\ l \in Seq(Facts) /\ l # << >> /\ Ordered(l) /\ FullIsClosed(l)
             /\ Members(l) = R /\ Finished(l) = {}
<1> DEFINE l == <<Started(R)>>
<1>1. Started(R) \in Facts /\ Started(R).type = "BatchStarted" /\ Started(R).artists = R
  BY FactKinds
<1> HIDE DEF Started
<1>2. l \in Seq(Facts) /\ l # << >> /\ DOMAIN l = {1} /\ l[1] = Started(R)
  <2>1. \A F : \A x \in F : <<x>> \in Seq(F)
    OBVIOUS
  <2>2. DOMAIN <<Started(R)>> = {1}
    OBVIOUS
  <2> QED BY <1>1, <2>1, <2>2
<1> HIDE DEF l
<1>3. Members(l) = R
  <2>1. \A x : x \in Members(l) <=> x \in l[1].artists
    BY <1>1, <1>2, OfFacts DEF Members
  <2> QED BY <1>1, <1>2, <2>1
<1>4. Finished(l) = {}
  BY <1>1, <1>2, OfFacts DEF Finished
<1>5. Ordered(l) /\ FullIsClosed(l)
  BY <1>1, <1>2, <1>3, <1>4 DEF Ordered, FullIsClosed
<1> QED BY <1>2, <1>3, <1>4, <1>5 DEF l

\* No facts, no members.
LEMMA NoFacts ==
  /\ << >> \in Seq(Facts) /\ Ordered(<< >>) /\ FullIsClosed(<< >>)
  /\ Members(<< >>) = {} /\ Finished(<< >>) = {} /\ ~IsClosed(<< >>)
<1>1. DOMAIN << >> = {}
  OBVIOUS
<1>2. Members(<< >>) = {} /\ Finished(<< >>) = {}
  BY <1>1, OfFacts DEF Members, Finished
<1> QED BY <1>1, <1>2 DEF Ordered, FullIsClosed, IsClosed

LEMMA StaysPut ==
  ASSUME NEW l \in Seq(Facts), Ordered(l), FullIsClosed(l), NEW R
  PROVE  Extends(l, l, R)
BY DEF Extends

\* A stream that was not begun is seeded with the batch's rows.
LEMMA SeedExtends ==
  ASSUME NEW l0, NEW l, NEW R \in SUBSET Artists, R # {}, Extends(l0, l, R)
  PROVE  LET base == IF l = << >> THEN <<Started(R)>> ELSE l
         IN  base # << >> /\ Extends(l0, base, R)
<1>1. CASE l = << >>
  <2>1. l0 = << >>
    BY <1>1 DEF Extends
  <2>2. Finished(l0) = {} /\ ~IsClosed(l0)
    BY <2>1, NoFacts
  <2> QED BY <1>1, <2>1, <2>2, FirstFact DEF Extends
<1>2. CASE l # << >>
  BY <1>2
<1> QED BY <1>1, <1>2

\* New facts carry a stream further.
LEMMA FactsExtend ==
  ASSUME NEW l0, NEW l, NEW R \in SUBSET Artists, l # << >>, Extends(l0, l, R),
         NEW as \in SUBSET Artists, NEW n \in 0..Len(NewFacts(l, as)),
         Partial \/ n = 0 \/ n = Len(NewFacts(l, as))
  PROVE  LET m == l \o SubSeq(NewFacts(l, as), 1, n)
         IN  /\ m # << >> /\ Extends(l0, m, R)
             /\ n = Len(NewFacts(l, as)) => as \cap Members(l) \subseteq Finished(m)
<1> DEFINE m == l \o SubSeq(NewFacts(l, as), 1, n)
<1>1. l \in Seq(Facts) /\ Ordered(l) /\ FullIsClosed(l)
  BY DEF Extends
<1>2. /\ m \in Seq(Facts) /\ m # << >> /\ Ordered(m) /\ FullIsClosed(m)
      /\ Members(m) = Members(l) /\ Finished(l) \subseteq Finished(m)
      /\ IsClosed(l) => IsClosed(m)
      /\ n = Len(NewFacts(l, as)) => as \cap Members(l) \subseteq Finished(m)
  BY <1>1, Appended
<1> HIDE DEF m
<1>3. Extends(l0, m, R)
  BY <1>2 DEF Extends
<1> QED BY <1>2, <1>3 DEF m

\* All of the new facts, and what a failing append leaves of them.
LEMMA WholeOrTorn ==
  ASSUME NEW l0, NEW l, NEW R \in SUBSET Artists, l # << >>, Extends(l0, l, R),
         NEW as \in SUBSET Artists
  PROVE  /\ LET m == l \o NewFacts(l, as)
            IN  m # << >> /\ Extends(l0, m, R) /\ as \cap Members(l) \subseteq Finished(m)
         /\ \A m \in Torn(l, NewFacts(l, as)) : m # << >> /\ Extends(l0, m, R)
<1> DEFINE out == NewFacts(l, as)
<1>1. out \in Seq(Facts)
  BY NewFactsAre
<1>2. ASSUME NEW F, NEW u \in Seq(F)
      PROVE  SubSeq(u, 1, Len(u)) = u /\ Len(u) \in 0..Len(u) /\ 0 \in 0..Len(u)
  OBVIOUS
<1>3. SubSeq(out, 1, Len(out)) = out /\ Len(out) \in 0..Len(out) /\ 0 \in 0..Len(out)
  BY <1>1, <1>2
<1>4. /\ l \o SubSeq(out, 1, Len(out)) # << >> /\ Extends(l0, l \o SubSeq(out, 1, Len(out)), R)
      /\ as \cap Members(l) \subseteq Finished(l \o SubSeq(out, 1, Len(out)))
  <2>1. Len(out) \in 0..Len(out)
    BY <1>3
  <2>2. ASSUME NEW n \in 0..Len(out), n = Len(out)
        PROVE  /\ l \o SubSeq(out, 1, n) # << >> /\ Extends(l0, l \o SubSeq(out, 1, n), R)
               /\ as \cap Members(l) \subseteq Finished(l \o SubSeq(out, 1, n))
    BY <2>2, FactsExtend
  <2> QED BY <2>1, <2>2
<1>5. ASSUME NEW m \in Torn(l, out)
      PROVE  m # << >> /\ Extends(l0, m, R)
  <2>1. PICK n \in (IF Partial THEN 0..Len(out) ELSE {0}) : m = l \o SubSeq(out, 1, n)
    BY <1>5 DEF Torn
  <2>2. n \in 0..Len(out) /\ (Partial \/ n = 0)
    <3>1. CASE Partial
      BY <2>1, <3>1
    <3>2. CASE ~Partial
      <4>1. n = 0
        BY <2>1, <3>2
      <4> QED BY <1>3, <4>1
    <3> QED BY <3>1, <3>2
  <2> QED BY <2>1, <2>2, FactsExtend
<1> QED BY <1>3, <1>4, <1>5

\* Loading, seeding and appending carry the stream further; an append that
\* succeeds completes all it was asked to.
LEMMA ReloadExtends ==
  ASSUME NEW b \in Batches, NEW l, NEW as \in SUBSET Artists, NEW smooth,
         Roster(b) # {}, Extends(log[b], l, Roster(b)),
         as \subseteq (IF log[b] = << >> THEN Roster(b) ELSE Members(log[b])),
         NEW res \in Reloaded(b, l, as, smooth)
  PROVE  /\ Extends(log[b], res.log, Roster(b))
         /\ res.ok => res.log # << >> /\ as \subseteq Finished(res.log)
<1> DEFINE R == Roster(b)
           base == Seeded(b, l)
           new == NewFacts(base, as)
<1>1. base # << >> /\ Extends(log[b], base, R)
  <2>1. R \in SUBSET Artists
    BY DEF Roster
  <2>2. base = IF l = << >> THEN <<Started(R)>> ELSE l
    BY DEF Seeded, Roster, Enrolled
  <2> QED BY <2>1, <2>2, SeedExtends
<1>2. as \cap Members(base) = as
  BY <1>1 DEF Extends
<1> HIDE DEF base, R
<1>3. /\ base \o new # << >> /\ Extends(log[b], base \o new, R) /\ as \subseteq Finished(base \o new)
      /\ \A m \in Torn(base, new) : Extends(log[b], m, R)
  <2>1. R \in SUBSET Artists
    BY DEF R, Roster
  <2> QED BY <1>1, <1>2, <2>1, WholeOrTorn
<1> HIDE DEF new
<1>4. \/ res = Result(base \o new, TRUE, smooth)
      \/ res = Result(l, FALSE, FALSE)
      \/ \E m \in Torn(base, new) : res = Result(m, FALSE, FALSE)
  BY DEF Reloaded, base, new
<1>5. CASE res = Result(base \o new, TRUE, smooth)
  <2>1. res.log = base \o new
    BY <1>5 DEF Result
  <2> QED BY <1>3, <2>1 DEF R
<1>6. CASE res = Result(l, FALSE, FALSE)
  <2>1. res.log = l /\ res.ok = FALSE
    BY <1>6 DEF Result
  <2> QED BY <2>1
<1>7. CASE \E m \in Torn(base, new) : res = Result(m, FALSE, FALSE)
  <2>1. PICK m \in Torn(base, new) : res = Result(m, FALSE, FALSE)
    BY <1>7
  <2>2. res.log = m /\ res.ok = FALSE
    BY <2>1 DEF Result
  <2> QED BY <1>3, <2>2 DEF R
<1> QED BY <1>4, <1>5, <1>6, <1>7

LEMMA ResultsExtend ==
  ASSUME IInv, NEW b \in Batches, NEW as \in SUBSET Roster(b), as # {},
         NEW res \in AppendResults(b, as)
  PROVE  /\ Extends(log[b], res.log, Roster(b))
         /\ res.ok => res.log # << >> /\ as \subseteq Finished(res.log)
<1> DEFINE R == Roster(b)
           l0 == log[b]
           new == NewFacts(l0, as)
<1>1. R \in SUBSET Artists /\ R # {} /\ as \in SUBSET Artists /\ row[b] # "none"
  BY DEF Roster, IInv, TableInv, RowsAgree
<1>2. as \subseteq (IF l0 = << >> THEN R ELSE Members(l0))
  BY <1>1 DEF IInv, TableInv, RosterAgrees
<1>3. l0 \in Seq(Facts) /\ Ordered(l0) /\ FullIsClosed(l0)
  BY DEF IInv, TypeOK, StreamsAreOrdered
<1>4. Extends(l0, l0, R)
  BY <1>3, StaysPut
<1>5. CASE cached # b
  <2>1. res \in Reloaded(b, l0, as, TRUE)
    BY <1>5 DEF AppendResults
  <2> HIDE DEF Reloaded
  <2> QED BY <1>1, <1>2, <1>4, <2>1, ReloadExtends
<1>6. CASE cached = b
  <2>1. l0 # << >>
    BY <1>6, BatchBounds DEF IInv, CacheIsFresh
  <2>2. as \cap Members(l0) = as
    BY <1>2, <2>1
  <2> HIDE DEF l0, R
  <2>3. /\ l0 \o new # << >> /\ Extends(l0, l0 \o new, R) /\ as \subseteq Finished(l0 \o new)
        /\ \A m \in Torn(l0, new) : Extends(l0, m, R)
    BY <1>1, <1>4, <2>1, <2>2, WholeOrTorn
  <2>4. \/ new = << >> /\ res = Result(l0, TRUE, TRUE)
        \/ res = Result(l0 \o new, TRUE, TRUE)
        \/ \E torn \in Torn(l0, new) : res \in Reloaded(b, torn, as, FALSE)
    <3> HIDE DEF Torn, Reloaded, Result, NewFacts
    <3> QED BY <1>6 DEF AppendResults, l0
  <2>5. CASE new = << >> /\ res = Result(l0, TRUE, TRUE)
    <3>1. res.log = l0
      BY <2>5 DEF Result
    <3>2. l0 \o << >> = l0
      <4>1. \A F : \A u \in Seq(F) : u \o << >> = u
        OBVIOUS
      <4> QED BY <1>3, <4>1
    <3> QED BY <2>3, <2>5, <3>1, <3>2 DEF l0, R
  <2>6. CASE res = Result(l0 \o new, TRUE, TRUE)
    <3>1. res.log = l0 \o new
      BY <2>6 DEF Result
    <3> HIDE DEF new
    <3> QED BY <2>3, <3>1 DEF l0, R
  <2>7. CASE \E torn \in Torn(l0, new) : res \in Reloaded(b, torn, as, FALSE)
    <3>1. PICK torn \in Torn(l0, new) : res \in Reloaded(b, torn, as, FALSE)
      BY <2>7
    <3>2. Extends(l0, torn, R)
      BY <2>3, <3>1
    <3> HIDE DEF new, Reloaded, Torn
    <3> QED BY <1>1, <1>2, <3>1, <3>2, ReloadExtends DEF l0, R
  <2> QED BY <2>4, <2>5, <2>6, <2>7
<1> QED BY <1>5, <1>6

-----------------------------------------------------------------------------
(* Steps.                                                                  *)

LEMMA AppendKeeps ==
  ASSUME IInv, NEW b \in Batches, NEW as \in SUBSET Roster(b), as # {}, NEW ok \in BOOLEAN,
         AppendCompletions(b, as, ok), UNCHANGED <<tables, start>>
  PROVE  /\ log' \in [Batches -> Seq(Facts)] /\ cached' \in Batches \cup {0}
         /\ mishaps' \in 0..MaxMishaps
         /\ StreamsAreOrdered' /\ CacheIsFresh' /\ StartsAreNew' /\ RowsAgree' /\ RosterAgrees'
         /\ \A c \in Batches : Finished(log[c]) \subseteq Finished(log'[c])
         /\ ok => as \subseteq Finished(log'[b])
<1>1. PICK res \in AppendResults(b, as) :
        /\ res.ok = ok /\ (IF res.smooth THEN UNCHANGED mishaps ELSE Mishap)
        /\ log' = [log EXCEPT ![b] = res.log]
        /\ cached' = IF ok THEN b ELSE IF cached = b THEN 0 ELSE cached
  BY DEF AppendCompletions
<1>2. /\ Extends(log[b], res.log, Roster(b))
      /\ ok => res.log # << >> /\ as \subseteq Finished(res.log)
  BY <1>1, ResultsExtend
<1>3. row[b] # "none" /\ Roster(b) # {}
  BY DEF Roster, IInv, TableInv, RowsAgree
<1>4. log \in [Batches -> Seq(Facts)] /\ cached \in Batches \cup {0} /\ mishaps \in 0..MaxMishaps
  BY DEF IInv, TypeOK
<1>5. log'[b] = res.log /\ \A c \in Batches \ {b} : log'[c] = log[c]
  BY <1>1, <1>4
<1>6. log' \in [Batches -> Seq(Facts)] /\ cached' \in Batches \cup {0}
  BY <1>1, <1>2, <1>4 DEF Extends
<1>7. mishaps' \in 0..MaxMishaps
  BY <1>1, <1>4, BatchBounds DEF Mishap
<1>8. StreamsAreOrdered'
  <2> SUFFICES ASSUME NEW c \in Batches
               PROVE  /\ Ordered(log'[c]) /\ FullIsClosed(log'[c])
                      /\ log'[c] # << >> => Members(log'[c]) # {}
    BY DEF StreamsAreOrdered
  <2>1. CASE c = b
    BY <1>2, <1>3, <1>5, <2>1 DEF Extends, IInv, StreamsAreOrdered
  <2>2. CASE c # b
    BY <1>5, <2>2 DEF IInv, StreamsAreOrdered
  <2> QED BY <2>1, <2>2
<1>9. CacheIsFresh'
  BY <1>1, <1>2, <1>4, <1>5, <1>6, BatchBounds DEF CacheIsFresh, IInv
<1>10. StartsAreNew'
  <2> SUFFICES ASSUME NEW c \in Batches
               PROVE  /\ start[c].pc \in {"new", "selected", "persisted"} => log'[c] = << >>
                      /\ start[c].pc \in {"new", "selected", "persisted", "logged"} => row[c] = "none"
                      /\ start[c].pc \in {"selected", "persisted", "logged"} => start[c].artists # {}
                      /\ start[c].pc = "logged" => log'[c] # << >> /\ Members(log'[c]) = start[c].artists
    BY DEF StartsAreNew, tables
  <2>1. CASE c = b
    BY <1>3, <2>1 DEF IInv, StartsAreNew
  <2>2. CASE c # b
    BY <1>5, <2>2 DEF IInv, StartsAreNew
  <2> QED BY <2>1, <2>2
<1>11. RowsAgree'
  BY DEF RowsAgree, Roster, Enrolled, IInv, TableInv, tables
<1>12. RosterAgrees'
  <2>1. \A c \in Batches : Roster(c)' = Roster(c)
    BY DEF Roster, Enrolled, tables
  <2> SUFFICES ASSUME NEW c \in Batches, row[c] # "none", log'[c] # << >>
               PROVE  Members(log'[c]) = Roster(c)
    BY <2>1 DEF RosterAgrees, tables
  <2>2. CASE c = b
    BY <1>2, <1>3, <1>5, <2>2 DEF Extends, IInv, TableInv, RosterAgrees
  <2>3. CASE c # b
    BY <1>5, <2>3 DEF IInv, TableInv, RosterAgrees
  <2> QED BY <2>2, <2>3
<1>13. \A c \in Batches : Finished(log[c]) \subseteq Finished(log'[c])
  BY <1>2, <1>5 DEF Extends
<1> QED BY <1>2, <1>5, <1>6, <1>7, <1>8, <1>9, <1>10, <1>11, <1>12, <1>13

\* Steps that leave the streams and the tables alone.
LEMMA Kept ==
  ASSUME IInv, UNCHANGED <<tables, facts>>
  PROVE  StreamsAreOrdered' /\ CacheIsFresh' /\ RowsAgree' /\ RosterAgrees'
<1>1. row' = row /\ member' = member /\ log' = log /\ cached' = cached
  BY DEF tables, facts
<1>2. StreamsAreOrdered' /\ CacheIsFresh'
  BY <1>1 DEF IInv, StreamsAreOrdered, CacheIsFresh
<1>3. \A b \in Batches : Roster(b)' = Roster(b)
  BY <1>1 DEF Roster, Enrolled
<1>4. RowsAgree'
  BY <1>1, <1>3 DEF IInv, TableInv, RowsAgree
<1>5. RosterAgrees'
  BY <1>1, <1>3 DEF IInv, TableInv, RosterAgrees
<1> QED BY <1>2, <1>4, <1>5

\* Steps of the handler and of the scrape pipeline that change no more.
LEMMA Untouched ==
  ASSUME IInv, UNCHANGED <<tables, facts, call, pass, dropped>>,
         TypeOK', CallTypes', StartsAreNew'
  PROVE  IInv'
<1>1. row' = row /\ member' = member /\ log' = log /\ call' = call /\ pass' = pass /\ dropped' = dropped
  BY DEF tables, facts
<1>2. CallsAreEnrolled' /\ PassesAreEnrolled'
  BY <1>1 DEF IInv, TableInv, CallsAreEnrolled, PassesAreEnrolled, Enrolled
<1>3. DoneIsLogged'
  BY <1>1 DEF IInv, TableInv, DoneIsLogged, Excused, Owed
<1> QED BY <1>2, <1>3, Kept DEF IInv, TableInv

\* A start that ends owes nothing any more.
LEMMA StartEndsKeeps ==
  ASSUME IInv, NEW b \in Batches, StartEnds(b),
         row' = row, \A c \in Batches \ {b} : log'[c] = log[c]
  PROVE  /\ start' \in [Batches -> [pc : {"new", "selected", "persisted", "logged", "started", "over"},
                                    artists : SUBSET Artists]]
         /\ StartsAreNew'
<1>1. start \in [Batches -> [pc : {"new", "selected", "persisted", "logged", "started", "over"},
                             artists : SUBSET Artists]]
  BY DEF IInv, CallTypes
<1>2. Over \in [pc : {"new", "selected", "persisted", "logged", "started", "over"}, artists : SUBSET Artists]
      /\ Over.pc = "over"
  BY DEF Over
<1>3. start' = [start EXCEPT ![b] = Over]
  BY DEF StartEnds
<1> HIDE DEF Over
<1>4. start'[b] = Over /\ \A c \in Batches \ {b} : start'[c] = start[c]
  BY <1>1, <1>3
<1>5. StartsAreNew'
  <2> SUFFICES ASSUME NEW c \in Batches
               PROVE  /\ start'[c].pc \in {"new", "selected", "persisted"} => log'[c] = << >>
                      /\ start'[c].pc \in {"new", "selected", "persisted", "logged"} => row'[c] = "none"
                      /\ start'[c].pc \in {"selected", "persisted", "logged"} => start'[c].artists # {}
                      /\ start'[c].pc = "logged" => log'[c] # << >> /\ Members(log'[c]) = start'[c].artists
    BY DEF StartsAreNew
  <2>1. CASE c = b
    BY <1>2, <1>4, <2>1
  <2>2. CASE c # b
    BY <1>4, <2>2 DEF IInv, StartsAreNew
  <2> QED BY <2>1, <2>2
<1> QED BY <1>1, <1>2, <1>3, <1>5

LEMMA AbortTypes ==
  ASSUME IInv, NEW b \in Batches, Abort(b)
  PROVE  /\ status' \in [Artists -> {"idle", "pending"}] /\ jobs' \subseteq Batches \X Artists
         /\ updates' \subseteq Artists /\ mishaps' \in 0..MaxMishaps /\ StartEnds(b)
<1>1. start[b].artists \subseteq Artists
  BY DEF IInv, CallTypes
<1> QED BY <1>1, BatchBounds DEF Abort, Mishap, IInv, TypeOK

LEMMA SelectArtistsKeeps ==
  ASSUME IInv, NEW b \in Batches, SelectArtists(b)
  PROVE  IInv'
<1>1. PICK as \in SUBSET {a \in Artists : status[a] # "pending"} :
        as # {} /\ start' = [start EXCEPT ![b] = [pc |-> "selected", artists |-> as]]
  BY DEF SelectArtists
<1>2. start[b].pc = "new" /\ UNCHANGED <<world, tables, facts, call, pass, dropped, mishaps>>
  BY DEF SelectArtists, Starting
<1>3. TypeOK'
  BY <1>2 DEF IInv, TypeOK, world, tables, facts
<1>4. CallTypes'
  BY <1>1, <1>2 DEF IInv, CallTypes
<1>5. StartsAreNew'
  BY <1>1, <1>2 DEF IInv, CallTypes, StartsAreNew, tables, facts
<1> QED BY <1>2, <1>3, <1>4, <1>5, Untouched

LEMMA PersistKeeps ==
  ASSUME IInv, NEW b \in Batches, Persist(b)
  PROVE  IInv'
<1>1. /\ start[b].pc = "selected" /\ UNCHANGED <<tables, facts, call, pass, dropped>>
      /\ row' = row /\ member' = member /\ log' = log /\ cached' = cached
      /\ call' = call /\ pass' = pass
  BY DEF Persist, Starting, tables, facts
<1>2. CASE /\ status' = [a \in Artists |-> IF a \in start[b].artists THEN "pending" ELSE status[a]]
           /\ StartGoes(b, "persisted") /\ UNCHANGED <<jobs, updates, mishaps>>
  <2>1. TypeOK'
    BY <1>1, <1>2 DEF IInv, TypeOK
  <2>2. CallTypes'
    BY <1>1, <1>2 DEF IInv, CallTypes, StartGoes
  <2>3. StartsAreNew'
    BY <1>1, <1>2 DEF IInv, CallTypes, StartsAreNew, StartGoes
  <2> QED BY <1>1, <2>1, <2>2, <2>3, Untouched
<1>3. CASE (Mishap /\ StartEnds(b) /\ UNCHANGED world) \/ Abort(b)
  <2>1. /\ status' \in [Artists -> {"idle", "pending"}] /\ jobs' \subseteq Batches \X Artists
        /\ updates' \subseteq Artists /\ mishaps' \in 0..MaxMishaps /\ StartEnds(b)
    <3>1. CASE Mishap /\ StartEnds(b) /\ UNCHANGED world
      BY <3>1, BatchBounds DEF Mishap, world, IInv, TypeOK
    <3>2. CASE Abort(b)
      BY <3>2, AbortTypes
    <3> QED BY <1>3, <3>1, <3>2
  <2>2. TypeOK'
    BY <1>1, <2>1 DEF IInv, TypeOK
  <2>3. CallTypes' /\ StartsAreNew'
    BY <1>1, <2>1, StartEndsKeeps DEF IInv, CallTypes
  <2> QED BY <1>1, <2>2, <2>3, Untouched
<1> QED BY <1>2, <1>3 DEF Persist

LEMMA DispatchKeeps ==
  ASSUME IInv, NEW b \in Batches, Dispatch(b)
  PROVE  IInv'
<1>1. PICK sent \in SUBSET start[b].artists :
          /\ jobs' = jobs \cup ({b} \X sent)
          /\ status' = [a \in Artists |-> IF a \in start[b].artists \ sent THEN "idle" ELSE status[a]]
          /\ updates' = updates \cup (start[b].artists \ sent)
          /\ IF sent = start[b].artists THEN UNCHANGED mishaps ELSE Mishap
  BY DEF Dispatch
<1>2. /\ StartEnds(b) /\ UNCHANGED <<tables, facts, call, pass, dropped>>
      /\ row' = row /\ member' = member /\ log' = log /\ cached' = cached
      /\ call' = call /\ pass' = pass
  BY DEF Dispatch, tables, facts
<1>3. TypeOK'
  <2>1. start[b].artists \subseteq Artists
    BY DEF IInv, CallTypes
  <2>2. jobs' \subseteq Batches \X Artists
    BY <1>1, <2>1 DEF IInv, TypeOK
  <2>3. mishaps' \in 0..MaxMishaps
    BY <1>1, BatchBounds DEF IInv, TypeOK, Mishap
  <2>4. status' \in [Artists -> {"idle", "pending"}] /\ updates' \subseteq Artists
    BY <1>1, <2>1 DEF IInv, TypeOK
  <2> QED BY <1>2, <2>2, <2>3, <2>4 DEF IInv, TypeOK
<1>4. CallTypes' /\ StartsAreNew'
  BY <1>2, StartEndsKeeps DEF IInv, CallTypes
<1> QED BY <1>2, <1>3, <1>4, Untouched

LEMMA FinishKeeps ==
  ASSUME IInv, Finish \/ Swept
  PROVE  IInv'
<1>1. /\ UNCHANGED <<tables, facts, start, call, pass, dropped, mishaps>>
      /\ row' = row /\ member' = member /\ log' = log /\ cached' = cached
      /\ call' = call /\ pass' = pass /\ start' = start
  BY DEF Finish, Swept, tables, facts
<1>2. /\ status' \in [Artists -> {"idle", "pending"}] /\ jobs' \subseteq Batches \X Artists
      /\ updates' \subseteq Artists
  <2>1. CASE Finish
    <3>1. PICK job \in jobs :
            /\ jobs' = jobs \ {job} /\ status' = [status EXCEPT ![job[2]] = "idle"]
            /\ updates' \in {updates, updates \cup {job[2]}}
      BY <2>1 DEF Finish
    <3>2. job[2] \in Artists
      BY DEF IInv, TypeOK
    <3> QED BY <3>1, <3>2 DEF IInv, TypeOK
  <2>2. CASE Swept
    BY <2>2 DEF Swept, IInv, TypeOK
  <2> QED BY <2>1, <2>2
<1>3. TypeOK'
  BY <1>1, <1>2 DEF IInv, TypeOK
<1>4. CallTypes' /\ StartsAreNew'
  BY <1>1 DEF IInv, CallTypes, StartsAreNew
<1> QED BY <1>1, <1>3, <1>4, Untouched

LEMMA AppendStartedKeeps ==
  ASSUME IInv, NEW b \in Batches, AppendStarted(b)
  PROVE  IInv'
<1> DEFINE as == start[b].artists
           fact == <<Started(as)>>
<1>1. /\ start[b].pc = "persisted" /\ UNCHANGED <<tables, call, pass, dropped>>
      /\ row' = row /\ member' = member /\ call' = call /\ pass' = pass /\ dropped' = dropped
  BY DEF AppendStarted, Starting, tables
<1>2. /\ as \in SUBSET Artists /\ as # {} /\ log[b] = << >> /\ row[b] = "none" /\ Roster(b) = {}
      /\ log \in [Batches -> Seq(Facts)] /\ cached \in Batches \cup {0}
  BY <1>1 DEF IInv, TypeOK, CallTypes, StartsAreNew, TableInv, RowsAgree
<1>3. /\ fact \in Seq(Facts) /\ fact # << >> /\ Ordered(fact) /\ FullIsClosed(fact)
      /\ Members(fact) = as /\ Finished(fact) = {}
  BY <1>2, FirstFact
<1> HIDE DEF as, fact
<1>4. /\ log' \in [Batches -> Seq(Facts)] /\ log'[b] \in {<< >>, fact}
      /\ \A c \in Batches \ {b} : log'[c] = log[c]
      /\ status' \in [Artists -> {"idle", "pending"}] /\ jobs' \subseteq Batches \X Artists
      /\ updates' \subseteq Artists /\ mishaps' \in 0..MaxMishaps
      /\ \/ log'[b] = fact /\ cached' = b /\ StartGoes(b, "logged")
         \/ cached' = cached /\ StartEnds(b)
  <2>1. CASE /\ log' = [log EXCEPT ![b] = fact] /\ cached' = b
             /\ StartGoes(b, "logged") /\ UNCHANGED <<world, mishaps>>
    BY <1>2, <1>3, <2>1 DEF IInv, TypeOK, world
  <2>2. CASE /\ \E torn \in Torn(<< >>, fact) : log' = [log EXCEPT ![b] = torn]
             /\ Abort(b) /\ UNCHANGED cached
    <3>1. PICK torn \in Torn(<< >>, fact) : log' = [log EXCEPT ![b] = torn]
      BY <2>2
    <3>2. torn \in {<< >>, fact}
      <4>1. PICK n \in (IF Partial THEN 0..Len(fact) ELSE {0}) : torn = << >> \o SubSeq(fact, 1, n)
        BY <3>1 DEF Torn
      <4>2. n \in 0..1
        BY <4>1 DEF fact
      <4>3. ASSUME NEW F, NEW u \in Seq(F)
            PROVE  << >> \o SubSeq(u, 1, 0) = << >> /\ << >> \o SubSeq(u, 1, Len(u)) = u
        OBVIOUS
      <4>4. n = 0 \/ n = Len(fact)
        BY <4>2 DEF fact
      <4> QED BY <1>3, <4>1, <4>3, <4>4
    <3>3. log' \in [Batches -> Seq(Facts)] /\ log'[b] = torn /\ \A c \in Batches \ {b} : log'[c] = log[c]
      BY <1>2, <1>3, <3>1, <3>2, NoFacts
    <3> QED BY <2>2, <3>2, <3>3, AbortTypes
  <2> QED BY <2>1, <2>2 DEF AppendStarted, fact, as
<1>5. TypeOK'
  <2>1. cached' \in Batches \cup {0}
    BY <1>2, <1>4
  <2>2. /\ log' \in [Batches -> Seq(Facts)] /\ mishaps' \in 0..MaxMishaps
        /\ status' \in [Artists -> {"idle", "pending"}] /\ jobs' \subseteq Batches \X Artists
        /\ updates' \subseteq Artists
    BY <1>4
  <2>3. row' = row /\ member' = member /\ call' = call /\ pass' = pass
    BY <1>1
  <2>4. TypeOK
    BY DEF IInv
  <2> QED BY <2>1, <2>2, <2>3, <2>4 DEF TypeOK
<1>6. CallTypes' /\ StartsAreNew'
  <2>1. CASE log'[b] = fact /\ cached' = b /\ StartGoes(b, "logged")
    <3>1. CallTypes'
      BY <1>1, <2>1 DEF IInv, CallTypes, StartGoes
    <3>2. StartsAreNew'
      BY <1>1, <1>2, <1>3, <1>4, <2>1 DEF IInv, CallTypes, StartsAreNew, StartGoes, as
    <3> QED BY <3>1, <3>2
  <2>2. CASE cached' = cached /\ StartEnds(b)
    BY <1>1, <1>4, <2>2, StartEndsKeeps DEF IInv, CallTypes
  <2> QED BY <1>4, <2>1, <2>2
<1>7. StreamsAreOrdered'
  BY <1>2, <1>3, <1>4, NoFacts DEF IInv, StreamsAreOrdered
<1>8. CacheIsFresh'
  BY <1>2, <1>3, <1>4 DEF IInv, CacheIsFresh
<1>9. \A c \in Batches : Roster(c)' = Roster(c)
  BY <1>1 DEF Roster, Enrolled
<1>10. RowsAgree'
  BY <1>1, <1>9 DEF IInv, TableInv, RowsAgree
<1>11. RosterAgrees'
  BY <1>1, <1>2, <1>4, <1>9 DEF IInv, TableInv, RosterAgrees
<1>12. \A a \in Artists : ~Enrolled(b, a)
  BY <1>2 DEF Roster
<1>13. CallsAreEnrolled' /\ PassesAreEnrolled'
  <2>1. call.pc # "idle" => call.b \in Batches \ {b}
    BY <1>12 DEF IInv, CallTypes, TableInv, CallsAreEnrolled
  <2> QED BY <1>1, <1>4, <2>1 DEF IInv, TableInv, CallsAreEnrolled, PassesAreEnrolled, Enrolled
<1>14. DoneIsLogged'
  BY <1>1, <1>4, <1>12 DEF IInv, TableInv, DoneIsLogged, Excused, Owed, Enrolled
<1> QED BY <1>5, <1>6, <1>7, <1>8, <1>10, <1>11, <1>13, <1>14 DEF IInv, TableInv

LEMMA InsertBatchKeeps ==
  ASSUME IInv, NEW b \in Batches, InsertBatch(b)
  PROVE  IInv'
<1> DEFINE as == start[b].artists
<1>1. /\ start[b].pc = "logged" /\ UNCHANGED <<facts, call, pass, dropped>>
      /\ log' = log /\ cached' = cached /\ call' = call /\ pass' = pass /\ dropped' = dropped
  BY DEF InsertBatch, Starting, facts
<1>2. /\ as \in SUBSET Artists /\ as # {} /\ log[b] # << >> /\ Members(log[b]) = as
      /\ row[b] = "none" /\ Roster(b) = {}
  BY <1>1 DEF IInv, CallTypes, StartsAreNew, TableInv, RowsAgree
<1>3. CASE Abort(b) /\ UNCHANGED tables
  <2>1. row' = row /\ member' = member
    BY <1>3 DEF tables
  <2>2. TypeOK'
    BY <1>1, <1>3, <2>1, AbortTypes DEF IInv, TypeOK
  <2>3. CallTypes' /\ StartsAreNew'
    BY <1>1, <1>3, <2>1, AbortTypes, StartEndsKeeps DEF IInv, CallTypes
  <2> QED BY <1>1, <1>3, <2>2, <2>3, Untouched
<1>4. CASE \E old \in SUBSET {c \in Batches : row[c] = "done" /\ Unused(c)} :
             /\ row' = [c \in Batches |-> IF c = b THEN "open" ELSE IF c \in old THEN "none" ELSE row[c]]
             /\ member' = [c \in Batches |-> [a \in Artists |->
                   IF c = b THEN IF a \in as THEN "open" ELSE "none"
                   ELSE IF c \in old THEN "none" ELSE member[c][a]]]
             /\ StartGoes(b, "started") /\ UNCHANGED <<world, mishaps>>
  <2>1. PICK old \in SUBSET {c \in Batches : row[c] = "done" /\ Unused(c)} :
             /\ row' = [c \in Batches |-> IF c = b THEN "open" ELSE IF c \in old THEN "none" ELSE row[c]]
             /\ member' = [c \in Batches |-> [a \in Artists |->
                   IF c = b THEN IF a \in as THEN "open" ELSE "none"
                   ELSE IF c \in old THEN "none" ELSE member[c][a]]]
             /\ StartGoes(b, "started") /\ UNCHANGED <<world, mishaps>>
    BY <1>4
  <2>2. b \notin old /\ old \subseteq Batches /\ \A c \in old : Unused(c)
    BY <1>2, <2>1
  <2>3. /\ row'[b] = "open" /\ \A c \in old : row'[c] = "none"
        /\ \A c \in Batches : c # b /\ c \notin old => row'[c] = row[c]
    BY <2>1, <2>2
  <2>4. /\ \A a \in Artists : member'[b][a] = IF a \in as THEN "open" ELSE "none"
        /\ \A c \in old, a \in Artists : member'[c][a] = "none"
        /\ \A c \in Batches, a \in Artists : c # b /\ c \notin old => member'[c][a] = member[c][a]
    BY <2>1, <2>2
  <2>5. TypeOK'
    <3>1. row' \in [Batches -> {"none", "open", "done"}]
      BY <2>1 DEF IInv, TypeOK
    <3>2. member' \in [Batches -> [Artists -> {"none", "open", "done"}]]
      BY <2>1 DEF IInv, TypeOK
    <3>3. status' = status /\ jobs' = jobs /\ updates' = updates /\ mishaps' = mishaps
      BY <2>1 DEF world
    <3>4. TypeOK /\ log' = log /\ cached' = cached /\ call' = call /\ pass' = pass
      BY <1>1 DEF IInv
    <3> QED BY <3>1, <3>2, <3>3, <3>4 DEF TypeOK
  <2>6. CallTypes'
    BY <1>1, <2>1 DEF IInv, CallTypes, StartGoes
  <2>7. StartsAreNew'
    <3> SUFFICES ASSUME NEW c \in Batches
                 PROVE  /\ start'[c].pc \in {"new", "selected", "persisted"} => log'[c] = << >>
                        /\ start'[c].pc \in {"new", "selected", "persisted", "logged"} => row'[c] = "none"
                        /\ start'[c].pc \in {"selected", "persisted", "logged"} => start'[c].artists # {}
                        /\ start'[c].pc = "logged" => log'[c] # << >> /\ Members(log'[c]) = start'[c].artists
      BY DEF StartsAreNew
    <3>1. CASE c = b
      BY <2>1, <3>1 DEF IInv, CallTypes, StartGoes
    <3>2. CASE c # b
      <4>1. start'[c] = start[c]
        BY <2>1, <3>2 DEF IInv, CallTypes, StartGoes
      <4>2. row'[c] = "none" \/ row'[c] = row[c]
        BY <2>3, <3>2
      <4> QED BY <1>1, <4>1, <4>2 DEF IInv, StartsAreNew
    <3> QED BY <3>1, <3>2
  <2>8. StreamsAreOrdered' /\ CacheIsFresh'
    BY <1>1 DEF IInv, StreamsAreOrdered, CacheIsFresh
  <2>9. /\ Roster(b)' = as /\ \A c \in old : Roster(c)' = {}
        /\ \A c \in Batches : c # b /\ c \notin old => Roster(c)' = Roster(c)
    BY <1>2, <2>4 DEF Roster, Enrolled
  <2>10. RowsAgree'
    <3> SUFFICES ASSUME NEW c \in Batches
                 PROVE  /\ (row'[c] = "none") = (Roster(c)' = {})
                        /\ row'[c] = "done" => \A a \in Artists : member'[c][a] # "open"
      BY DEF RowsAgree
    <3>1. CASE c = b
      BY <1>2, <2>3, <2>9, <3>1
    <3>2. CASE c \in old
      BY <2>3, <2>9, <3>2
    <3>3. CASE c # b /\ c \notin old
      BY <2>3, <2>4, <2>9, <3>3 DEF IInv, TableInv, RowsAgree
    <3> QED BY <3>1, <3>2, <3>3
  <2>11. RosterAgrees'
    BY <1>1, <1>2, <2>3, <2>9 DEF IInv, TableInv, RosterAgrees
  <2>12. \A a \in Artists : ~Enrolled(b, a)
    BY <1>2 DEF Roster
  <2>13. CallsAreEnrolled'
    <3>1. call.pc # "idle" => call.b \in Batches /\ call.a \in Artists /\ call.b # b /\ call.b \notin old
      BY <2>2, <2>12 DEF IInv, CallTypes, TableInv, CallsAreEnrolled, Unused
    <3> QED BY <1>1, <2>4, <3>1 DEF IInv, TableInv, CallsAreEnrolled, Enrolled
  <2>14. PassesAreEnrolled'
    <3> SUFFICES ASSUME NEW p \in Passes, NEW f \in pass[p].todo
                 PROVE  Enrolled(f[1], f[2])'
      BY <1>1 DEF PassesAreEnrolled
    <3>1. f[1] \in Batches /\ f[2] \in Artists
      BY DEF IInv, CallTypes
    <3>2. f[1] # b /\ f[1] \notin old
      BY <2>2, <2>12, <3>1 DEF IInv, TableInv, PassesAreEnrolled, Unused
    <3> QED BY <2>4, <3>1, <3>2 DEF IInv, TableInv, PassesAreEnrolled, Enrolled
  <2>15. DoneIsLogged'
    <3> SUFFICES ASSUME NEW c \in Batches, NEW a \in Artists, member'[c][a] = "done"
                 PROVE  a \in Finished(log'[c]) \/ Excused(c, a)'
      BY DEF DoneIsLogged
    <3>1. member[c][a] = "done"
      BY <2>2, <2>4
    <3> QED BY <1>1, <3>1 DEF IInv, TableInv, DoneIsLogged, Excused, Owed
  <2> QED BY <2>5, <2>6, <2>7, <2>8, <2>10, <2>11, <2>13, <2>14, <2>15 DEF IInv, TableInv
<1> QED BY <1>3, <1>4 DEF InsertBatch

LEMMA ReceiveKeeps ==
  ASSUME IInv, NEW a \in Artists, Receive(a)
  PROVE  IInv'
<1>1. /\ call.pc = "idle" /\ updates' = updates \ {a}
      /\ UNCHANGED <<status, jobs, tables, facts, start, pass, dropped, mishaps>>
      /\ row' = row /\ member' = member /\ log' = log /\ cached' = cached
      /\ start' = start /\ pass' = pass /\ dropped' = dropped
  BY DEF Receive, tables, facts
<1>2. \/ call' = call
      \/ \E b \in Batches : member[b][a] = "open" /\ call' = [pc |-> "append", a |-> a, b |-> b]
  BY DEF Receive
<1>3. \/ call' = call
      \/ call'.pc = "append" /\ call'.a = a /\ call'.b \in Batches /\ member[call'.b][a] = "open"
  BY <1>2
<1>4. TypeOK'
  BY <1>1, <1>2, BatchBounds DEF IInv, TypeOK
<1>5. CallTypes' /\ StartsAreNew'
  <2>1. /\ call'.pc # "idle" => call'.b \in Batches /\ call'.a \in Artists
        /\ call' \in [pc : {"idle", "append", "mark"}, a : Artists \cup {Free.a}, b : Batches \cup {0}]
    BY <1>2 DEF IInv, CallTypes
  <2> QED BY <1>1, <2>1 DEF IInv, CallTypes, StartsAreNew
<1>6. CallsAreEnrolled' /\ PassesAreEnrolled'
  BY <1>1, <1>3 DEF IInv, TableInv, CallsAreEnrolled, PassesAreEnrolled, Enrolled
<1>7. DoneIsLogged'
  BY <1>1 DEF IInv, TableInv, DoneIsLogged, Excused, Owed
<1> QED BY <1>1, <1>4, <1>5, <1>6, <1>7, Kept DEF IInv, TableInv

LEMMA LogCompletionKeeps ==
  ASSUME IInv, LogCompletion
  PROVE  IInv'
<1>1. PICK ok \in BOOLEAN :
        /\ AppendCompletions(call.b, {call.a}, ok)
        /\ call' = IF ok THEN [call EXCEPT !.pc = "mark"] ELSE Free
  BY DEF LogCompletion
<1>2. /\ call.pc = "append" /\ UNCHANGED <<tables, start>>
      /\ status' = status /\ jobs' = jobs /\ updates' = updates
      /\ row' = row /\ member' = member /\ start' = start /\ pass' = pass /\ dropped' = dropped
  BY DEF LogCompletion, world, tables
<1>3. call.b \in Batches /\ call.a \in Artists /\ {call.a} \in SUBSET Roster(call.b)
  BY <1>2 DEF IInv, CallTypes, TableInv, CallsAreEnrolled, Roster
<1>4. /\ log' \in [Batches -> Seq(Facts)] /\ cached' \in Batches \cup {0}
      /\ mishaps' \in 0..MaxMishaps
      /\ StreamsAreOrdered' /\ CacheIsFresh' /\ StartsAreNew' /\ RowsAgree' /\ RosterAgrees'
      /\ \A c \in Batches : Finished(log[c]) \subseteq Finished(log'[c])
      /\ ok => {call.a} \subseteq Finished(log'[call.b])
  BY <1>1, <1>2, <1>3, AppendKeeps
<1>5. Free.pc = "idle" /\ Free.b = 0
      /\ Free \in [pc : {"idle", "append", "mark"}, a : Artists \cup {Free.a}, b : Batches \cup {0}]
  BY DEF Free
<1> HIDE DEF Free
<1>6. \/ ok /\ call'.pc = "mark" /\ call'.a = call.a /\ call'.b = call.b /\ call' = [call EXCEPT !.pc = "mark"]
      \/ call' = Free
  BY <1>1, <1>2 DEF IInv, CallTypes
<1>7. TypeOK'
  <2>1. call'.pc \in {"idle", "append", "mark"} /\ (call'.pc = "idle") = (call'.b = 0)
    BY <1>3, <1>5, <1>6, BatchBounds
  <2> QED BY <1>2, <1>4, <2>1 DEF IInv, TypeOK
<1>8. CallTypes'
  BY <1>2, <1>3, <1>5, <1>6 DEF IInv, CallTypes
<1>9. CallsAreEnrolled' /\ PassesAreEnrolled'
  BY <1>2, <1>4, <1>5, <1>6 DEF IInv, TableInv, CallsAreEnrolled, PassesAreEnrolled, Enrolled
<1>10. DoneIsLogged'
  BY <1>2, <1>4 DEF IInv, TableInv, DoneIsLogged, Excused, Owed
<1> QED BY <1>4, <1>7, <1>8, <1>9, <1>10 DEF IInv, TableInv

\* Members that are done leave the rosters as they are.
LEMMA DoneKeeps ==
  ASSUME IInv, NEW pairs, member' = Done(pairs), NEW B \in SUBSET Batches,
         row' = [b \in Batches |-> IF b \in B THEN Recompute(b) ELSE row[b]],
         \A b \in Batches \ B : \A a \in Artists : <<b, a>> \notin pairs \/ member[b][a] # "open",
         log' = log, start' = start
  PROVE  /\ row' \in [Batches -> {"none", "open", "done"}]
         /\ member' \in [Batches -> [Artists -> {"none", "open", "done"}]]
         /\ \A b \in Batches, a \in Artists :
              /\ Enrolled(b, a)' = Enrolled(b, a)
              /\ member'[b][a] = "done" => member[b][a] = "done" \/ <<b, a>> \in pairs
         /\ RowsAgree' /\ RosterAgrees' /\ StartsAreNew'
<1>1. row \in [Batches -> {"none", "open", "done"}]
      /\ member \in [Batches -> [Artists -> {"none", "open", "done"}]]
  BY DEF IInv, TypeOK
<1>2. \A b \in Batches, a \in Artists :
        member'[b][a] = IF <<b, a>> \in pairs /\ member[b][a] = "open" THEN "done" ELSE member[b][a]
  BY DEF Done
<1>3. \A b \in Batches : \/ row'[b] = row[b]
                         \/ row[b] = "open" /\ row'[b] = "done" /\ \A a \in Artists : member'[b][a] # "open"
  <2> SUFFICES ASSUME NEW b \in Batches
               PROVE  \/ row'[b] = row[b]
                      \/ row[b] = "open" /\ row'[b] = "done" /\ \A a \in Artists : member'[b][a] # "open"
    OBVIOUS
  <2>1. row'[b] = IF b \in B THEN Recompute(b) ELSE row[b]
    OBVIOUS
  <2> QED BY <2>1 DEF Recompute
<1>4. row' \in [Batches -> {"none", "open", "done"}]
  <2>1. DOMAIN row' = Batches /\ row' = [b \in Batches |-> row'[b]]
    OBVIOUS
  <2> QED BY <1>1, <1>3, <2>1
<1>5. member' \in [Batches -> [Artists -> {"none", "open", "done"}]]
  BY <1>1 DEF Done
<1>6. \A b \in Batches, a \in Artists : Enrolled(b, a)' = Enrolled(b, a)
  BY <1>2 DEF Enrolled
<1>7. \A b \in Batches : Roster(b)' = Roster(b)
  BY <1>6 DEF Roster
<1>8. RowsAgree'
  <2> SUFFICES ASSUME NEW b \in Batches
               PROVE  /\ (row'[b] = "none") = (Roster(b)' = {})
                      /\ row'[b] = "done" => \A a \in Artists : member'[b][a] # "open"
    BY DEF RowsAgree
  <2>1. (row[b] = "none") = (Roster(b) = {}) /\ (row[b] = "done" => \A a \in Artists : member[b][a] # "open")
    BY DEF IInv, TableInv, RowsAgree
  <2> QED BY <1>2, <1>3, <1>7, <2>1
<1>9. RosterAgrees'
  BY <1>3, <1>7 DEF IInv, TableInv, RosterAgrees
<1>10. StartsAreNew'
  BY <1>3 DEF IInv, StartsAreNew
<1> QED BY <1>2, <1>4, <1>5, <1>6, <1>8, <1>9, <1>10

LEMMA MarkMemberDoneKeeps ==
  ASSUME IInv, MarkMemberDone
  PROVE  IInv'
<1>1. /\ call.pc = "mark" /\ call' = Free
      /\ status' = status /\ jobs' = jobs /\ updates' = updates
      /\ log' = log /\ cached' = cached /\ UNCHANGED facts
      /\ start' = start /\ pass' = pass /\ dropped' = dropped
  BY DEF MarkMemberDone, world, facts
<1>2. Free.pc = "idle" /\ Free.b = 0
      /\ Free \in [pc : {"idle", "append", "mark"}, a : Artists \cup {Free.a}, b : Batches \cup {0}]
  BY DEF Free
<1> HIDE DEF Free
<1>3. call.b \in Batches /\ call.a \in Artists /\ call.a \in Finished(log[call.b])
  BY <1>1 DEF IInv, CallTypes, TableInv, CallsAreEnrolled
<1>4. /\ row' \in [Batches -> {"none", "open", "done"}]
      /\ member' \in [Batches -> [Artists -> {"none", "open", "done"}]]
      /\ mishaps' \in 0..MaxMishaps
      /\ \A b \in Batches, a \in Artists :
           /\ Enrolled(b, a)' = Enrolled(b, a)
           /\ member'[b][a] = "done" => member[b][a] = "done" \/ <<b, a>> = <<call.b, call.a>>
      /\ RowsAgree' /\ RosterAgrees' /\ StartsAreNew'
  <2>1. CASE Mishap /\ UNCHANGED tables
    <3>1. row' = row /\ member' = member
      BY <2>1 DEF tables
    <3>2. mishaps' \in 0..MaxMishaps
      BY <2>1, BatchBounds DEF Mishap, IInv, TypeOK
    <3>3. StartsAreNew' /\ \A b \in Batches, a \in Artists : Enrolled(b, a)' = Enrolled(b, a)
      BY <1>1, <3>1 DEF IInv, StartsAreNew, Enrolled
    <3> QED BY <1>1, <2>1, <3>1, <3>2, <3>3, Kept DEF IInv, TypeOK
  <2>2. CASE /\ member' = Done({<<call.b, call.a>>})
             /\ row' = [row EXCEPT ![call.b] = Recompute(call.b)] /\ UNCHANGED mishaps
    <3> DEFINE B     == {call.b}
               pairs == {<<call.b, call.a>>}
    <3>1. row' = [b \in Batches |-> IF b \in B THEN Recompute(b) ELSE row[b]]
      BY <1>3, <2>2 DEF IInv, TypeOK
    <3>2. /\ B \in SUBSET Batches /\ member' = Done(pairs)
          /\ \A b \in Batches \ B : \A a \in Artists : <<b, a>> \notin pairs \/ member[b][a] # "open"
      BY <1>3, <2>2
    <3>3. \A b, a : <<b, a>> \in pairs => <<b, a>> = <<call.b, call.a>>
      OBVIOUS
    <3>4. mishaps' \in 0..MaxMishaps
      BY <2>2 DEF IInv, TypeOK
    <3> HIDE DEF B, pairs
    <3>5. /\ row' \in [Batches -> {"none", "open", "done"}]
          /\ member' \in [Batches -> [Artists -> {"none", "open", "done"}]]
          /\ \A b \in Batches, a \in Artists :
               /\ Enrolled(b, a)' = Enrolled(b, a)
               /\ member'[b][a] = "done" => member[b][a] = "done" \/ <<b, a>> \in pairs
          /\ RowsAgree' /\ RosterAgrees' /\ StartsAreNew'
      BY <1>1, <3>1, <3>2, DoneKeeps
    <3> QED BY <3>3, <3>4, <3>5
  <2> QED BY <2>1, <2>2 DEF MarkMemberDone
<1>5. TypeOK'
  BY <1>1, <1>2, <1>4 DEF IInv, TypeOK
<1>6. CallTypes'
  BY <1>1, <1>2 DEF IInv, CallTypes
<1>7. StreamsAreOrdered' /\ CacheIsFresh'
  BY <1>1 DEF IInv, StreamsAreOrdered, CacheIsFresh
<1>8. CallsAreEnrolled'
  BY <1>1, <1>2 DEF CallsAreEnrolled
<1>9. PassesAreEnrolled'
  <2> SUFFICES ASSUME NEW p \in Passes, NEW f \in pass[p].todo
               PROVE  Enrolled(f[1], f[2])'
    BY <1>1 DEF PassesAreEnrolled
  <2>1. f[1] \in Batches /\ f[2] \in Artists /\ Enrolled(f[1], f[2])
    BY DEF IInv, CallTypes, TableInv, PassesAreEnrolled
  <2> QED BY <1>4, <2>1
<1>10. DoneIsLogged'
  BY <1>1, <1>3, <1>4 DEF IInv, TableInv, DoneIsLogged, Excused, Owed
<1> QED BY <1>4, <1>5, <1>6, <1>7, <1>8, <1>9, <1>10 DEF IInv, TableInv

LEMMA SelectMissedKeeps ==
  ASSUME IInv, NEW p \in Passes, SelectMissed(p)
  PROVE  IInv'
<1>1. /\ pass[p].pc = "idle" /\ Missed # {}
      /\ pass' = [pass EXCEPT ![p] = [pc |-> "flip", todo |-> Missed]]
      /\ UNCHANGED <<world, tables, facts, start, call, dropped, mishaps>>
      /\ status' = status /\ jobs' = jobs /\ updates' = updates /\ mishaps' = mishaps
      /\ row' = row /\ member' = member /\ log' = log /\ cached' = cached
      /\ start' = start /\ call' = call /\ dropped' = dropped
  BY DEF SelectMissed, world, tables, facts
<1>2. Missed \in SUBSET (Batches \X Artists) /\ \A f \in Missed : Enrolled(f[1], f[2])
  BY DEF Missed, Enrolled
<1> HIDE DEF Missed
<1>3. /\ pass'[p].pc = "flip" /\ pass'[p].todo = Missed
      /\ \A q \in Passes \ {p} : pass'[q] = pass[q]
  BY <1>1 DEF IInv, CallTypes
<1>4. TypeOK'
  <2>1. \A q \in Passes : (pass[q].pc = "idle") = (pass[q].todo = {})
    BY DEF IInv, TypeOK
  <2>2. \A q \in Passes : (pass'[q].pc = "idle") = (pass'[q].todo = {})
    BY <1>1, <1>3, <2>1
  <2> QED BY <1>1, <2>2 DEF IInv, TypeOK
<1>5. CallTypes' /\ StartsAreNew'
  BY <1>1, <1>2 DEF IInv, CallTypes, StartsAreNew
<1>6. CallsAreEnrolled'
  BY <1>1 DEF IInv, TableInv, CallsAreEnrolled, Enrolled
<1>7. PassesAreEnrolled'
  BY <1>1, <1>2, <1>3 DEF IInv, TableInv, PassesAreEnrolled, Enrolled
<1>8. \A b \in Batches, a \in Artists : Excused(b, a) => Excused(b, a)'
  BY <1>1, <1>3 DEF Excused, Owed
<1>9. DoneIsLogged'
  BY <1>1, <1>8 DEF IInv, TableInv, DoneIsLogged
<1> QED BY <1>1, <1>4, <1>5, <1>6, <1>7, <1>9, Kept DEF IInv, TableInv

LEMMA FlipMissedKeeps ==
  ASSUME IInv, NEW p \in Passes, FlipMissed(p)
  PROVE  IInv'
<1>1. /\ pass[p].pc = "flip"
      /\ UNCHANGED facts
      /\ status' = status /\ jobs' = jobs /\ updates' = updates
      /\ log' = log /\ cached' = cached
      /\ start' = start /\ call' = call /\ dropped' = dropped
  BY DEF FlipMissed, world, facts
<1>2. \A q \in Passes : pass[q].todo \in SUBSET (Batches \X Artists)
  BY DEF IInv, CallTypes
<1>3. CASE Mishap /\ pass' = [pass EXCEPT ![p] = Idle] /\ UNCHANGED tables
  <2>1. row' = row /\ member' = member
    BY <1>3 DEF tables
  <2>2. /\ pass'[p].pc = "idle" /\ pass'[p].todo = {}
        /\ Idle \in [pc : {"idle", "flip", "log"}, todo : SUBSET (Batches \X Artists)]
        /\ \A q \in Passes \ {p} : pass'[q] = pass[q]
    BY <1>3 DEF IInv, CallTypes, Idle
  <2>3. mishaps' \in 0..MaxMishaps
    BY <1>3, BatchBounds DEF Mishap, IInv, TypeOK
  <2>4. TypeOK'
    <3>1. \A q \in Passes : (pass[q].pc = "idle") = (pass[q].todo = {})
      BY DEF IInv, TypeOK
    <3>2. \A q \in Passes : (pass'[q].pc = "idle") = (pass'[q].todo = {})
      BY <2>2, <3>1
    <3> QED BY <1>1, <2>1, <2>3, <3>2 DEF IInv, TypeOK
  <2>5. CallTypes' /\ StartsAreNew'
    BY <1>1, <1>3, <2>1, <2>2 DEF IInv, CallTypes, StartsAreNew
  <2>6. CallsAreEnrolled' /\ PassesAreEnrolled'
    BY <1>1, <2>1, <2>2 DEF IInv, TableInv, CallsAreEnrolled, PassesAreEnrolled, Enrolled
  <2>7. \A b \in Batches, a \in Artists : Excused(b, a) => Excused(b, a)'
    BY <1>1, <2>2 DEF Excused, Owed
  <2>8. DoneIsLogged'
    BY <1>1, <2>1, <2>7 DEF IInv, TableInv, DoneIsLogged
  <2> QED BY <1>1, <1>3, <2>4, <2>5, <2>6, <2>8, Kept DEF IInv, TableInv
<1>4. CASE /\ member' = Done(pass[p].todo) /\ row' = [b \in Batches |-> Recompute(b)]
           /\ pass' = [pass EXCEPT ![p].pc = "log"] /\ UNCHANGED mishaps
  <2> DEFINE pairs == pass[p].todo
  <2>1. row' = [b \in Batches |-> IF b \in Batches THEN Recompute(b) ELSE row[b]]
    BY <1>4
  <2>2. /\ row' \in [Batches -> {"none", "open", "done"}]
        /\ member' \in [Batches -> [Artists -> {"none", "open", "done"}]]
        /\ \A b \in Batches, a \in Artists :
             /\ Enrolled(b, a)' = Enrolled(b, a)
             /\ member'[b][a] = "done" => member[b][a] = "done" \/ <<b, a>> \in pairs
        /\ RowsAgree' /\ RosterAgrees' /\ StartsAreNew'
    <3>1. \A b \in Batches \ Batches : \A a \in Artists : <<b, a>> \notin pairs \/ member[b][a] # "open"
      OBVIOUS
    <3>2. Batches \in SUBSET Batches /\ member' = Done(pairs)
      BY <1>4
    <3> HIDE DEF pairs
    <3> QED BY <1>1, <2>1, <3>1, <3>2, DoneKeeps
  <2>3. /\ pass'[p].pc = "log" /\ \A q \in Passes : pass'[q].todo = pass[q].todo
        /\ \A q \in Passes \ {p} : pass'[q] = pass[q]
    BY <1>4 DEF IInv, CallTypes
  <2>4. TypeOK'
    BY <1>1, <1>4, <2>2, <2>3 DEF IInv, TypeOK
  <2>5. CallTypes'
    BY <1>1, <1>4 DEF IInv, CallTypes
  <2>6. StreamsAreOrdered' /\ CacheIsFresh'
    BY <1>1 DEF IInv, StreamsAreOrdered, CacheIsFresh
  <2>7. CallsAreEnrolled'
    BY <1>1, <2>2 DEF IInv, CallTypes, TableInv, CallsAreEnrolled
  <2>8. PassesAreEnrolled'
    <3> SUFFICES ASSUME NEW q \in Passes, NEW f \in pass[q].todo
                 PROVE  Enrolled(f[1], f[2])'
      BY <2>3 DEF PassesAreEnrolled
    <3>1. f[1] \in Batches /\ f[2] \in Artists /\ Enrolled(f[1], f[2])
      BY <1>2 DEF IInv, TableInv, PassesAreEnrolled
    <3> QED BY <2>2, <3>1
  <2>9. \A b \in Batches, a \in Artists : Excused(b, a) => Excused(b, a)'
    BY <1>1, <2>3 DEF Excused, Owed
  <2>10. \A b \in Batches, a \in Artists : <<b, a>> \in pairs => Excused(b, a)'
    BY <2>3 DEF Excused, Owed
  <2>11. DoneIsLogged'
    BY <1>1, <2>2, <2>9, <2>10 DEF IInv, TableInv, DoneIsLogged
  <2> QED BY <2>2, <2>4, <2>5, <2>6, <2>7, <2>8, <2>11 DEF IInv, TableInv
<1> QED BY <1>3, <1>4 DEF FlipMissed

LEMMA LogMissedKeeps ==
  ASSUME IInv, NEW p \in Passes, LogMissed(p)
  PROVE  IInv'
<1>1. PICK b \in {f[1] : f \in pass[p].todo} : \E ok \in BOOLEAN :
        LET rest == {f \in pass[p].todo : f[1] # b}
        IN  /\ AppendCompletions(b, {f[2] : f \in pass[p].todo \ rest}, ok)
            /\ pass' = [pass EXCEPT ![p] = IF ok /\ rest # {} THEN [@ EXCEPT !.todo = rest] ELSE Idle]
            /\ dropped' = IF ok THEN dropped ELSE dropped \cup pass[p].todo
  BY DEF LogMissed
<1> DEFINE rest == {f \in pass[p].todo : f[1] # b}
           as   == {f[2] : f \in pass[p].todo \ rest}
<1>2. PICK ok \in BOOLEAN :
        /\ AppendCompletions(b, as, ok)
        /\ pass' = [pass EXCEPT ![p] = IF ok /\ rest # {} THEN [@ EXCEPT !.todo = rest] ELSE Idle]
        /\ dropped' = IF ok THEN dropped ELSE dropped \cup pass[p].todo
  BY <1>1
<1>3. /\ pass[p].pc = "log" /\ UNCHANGED <<tables, start>>
      /\ status' = status /\ jobs' = jobs /\ updates' = updates
      /\ row' = row /\ member' = member /\ start' = start /\ call' = call
  BY DEF LogMissed, world, tables
<1>4. \A q \in Passes : pass[q].todo \in SUBSET (Batches \X Artists)
  BY DEF IInv, CallTypes
<1>5. b \in Batches /\ as \in SUBSET Roster(b) /\ as # {}
  <2>1. PICK f \in pass[p].todo : f[1] = b
    OBVIOUS
  <2>2. b \in Batches /\ f[2] \in as
    BY <1>4, <2>1
  <2>3. ASSUME NEW g \in pass[p].todo, g[1] = b
        PROVE  g[2] \in Roster(b)
    BY <1>4, <2>3 DEF Roster, IInv, TableInv, PassesAreEnrolled
  <2> QED BY <2>2, <2>3
<1>6. \A c \in Batches, a \in Artists : <<c, a>> \in pass[p].todo => (<<c, a>> \in rest \/ (c = b /\ a \in as))
  <2> SUFFICES ASSUME NEW c \in Batches, NEW a \in Artists, <<c, a>> \in pass[p].todo, <<c, a>> \notin rest
               PROVE  c = b /\ a \in as
    OBVIOUS
  <2>1. <<c, a>>[1] = c /\ <<c, a>>[2] = a
    OBVIOUS
  <2> QED BY <2>1
<1>7. rest \in SUBSET pass[p].todo
  OBVIOUS
<1> HIDE DEF rest, as
<1>8. /\ log' \in [Batches -> Seq(Facts)] /\ cached' \in Batches \cup {0}
      /\ mishaps' \in 0..MaxMishaps
      /\ StreamsAreOrdered' /\ CacheIsFresh' /\ StartsAreNew' /\ RowsAgree' /\ RosterAgrees'
      /\ \A c \in Batches : Finished(log[c]) \subseteq Finished(log'[c])
      /\ ok => as \subseteq Finished(log'[b])
  BY <1>2, <1>3, <1>5, AppendKeeps
<1>9. Idle.pc = "idle" /\ Idle.todo = {}
      /\ Idle \in [pc : {"idle", "flip", "log"}, todo : SUBSET (Batches \X Artists)]
  BY DEF Idle
<1> HIDE DEF Idle
<1>10. /\ \A q \in Passes \ {p} : pass'[q] = pass[q]
       /\ \/ ok /\ rest # {} /\ pass'[p] = [pass[p] EXCEPT !.todo = rest]
          \/ (ok => rest = {}) /\ pass'[p] = Idle
  BY <1>2 DEF IInv, CallTypes
<1>11. \/ ok /\ rest # {} /\ pass'[p].pc = "log" /\ pass'[p].todo = rest
       \/ (ok => rest = {}) /\ pass'[p] = Idle
  BY <1>3, <1>10 DEF IInv, CallTypes
<1>12. pass' \in [Passes -> [pc : {"idle", "flip", "log"}, todo : SUBSET (Batches \X Artists)]]
  <2>1. [pass[p] EXCEPT !.todo = rest] \in [pc : {"idle", "flip", "log"}, todo : SUBSET (Batches \X Artists)]
    BY <1>4, <1>7 DEF IInv, CallTypes
  <2> QED BY <1>2, <1>9, <2>1 DEF IInv, CallTypes
<1>13. TypeOK'
  <2>1. \A q \in Passes : (pass[q].pc = "idle") = (pass[q].todo = {})
    BY DEF IInv, TypeOK
  <2>2. \A q \in Passes : (pass'[q].pc = "idle") = (pass'[q].todo = {})
    BY <1>9, <1>10, <1>11, <2>1
  <2> QED BY <1>3, <1>8, <2>2 DEF IInv, TypeOK
<1>14. CallTypes'
  BY <1>3, <1>12 DEF IInv, CallTypes
<1>15. CallsAreEnrolled'
  BY <1>3, <1>8 DEF IInv, CallTypes, TableInv, CallsAreEnrolled, Enrolled
<1>16. PassesAreEnrolled'
  BY <1>3, <1>7, <1>9, <1>10, <1>11 DEF IInv, TableInv, PassesAreEnrolled, Enrolled
<1>17. DoneIsLogged'
  <2> SUFFICES ASSUME NEW c \in Batches, NEW a \in Artists, member'[c][a] = "done",
                      a \notin Finished(log'[c])
               PROVE  Excused(c, a)'
    BY DEF DoneIsLogged
  <2>1. Excused(c, a)
    BY <1>3, <1>8 DEF IInv, TableInv, DoneIsLogged
  <2>2. CASE <<c, a>> \in dropped
    BY <1>2, <2>2 DEF Excused
  <2>3. CASE \E q \in Passes \ {p} : pass[q].pc = "log" /\ <<c, a>> \in pass[q].todo
    BY <1>10, <2>3 DEF Excused, Owed
  <2>4. CASE <<c, a>> \in pass[p].todo
    <3>1. CASE ok
      <4>1. <<c, a>> \in rest
        BY <1>6, <1>8, <2>4, <3>1
      <4>2. pass'[p].pc = "log" /\ <<c, a>> \in pass'[p].todo
        BY <1>11, <3>1, <4>1
      <4> QED BY <4>2 DEF Excused, Owed
    <3>2. CASE ~ok
      BY <1>2, <2>4, <3>2 DEF Excused
    <3> QED BY <3>1, <3>2
  <2> QED BY <2>1, <2>2, <2>3, <2>4 DEF Excused, Owed
<1> QED BY <1>8, <1>13, <1>14, <1>15, <1>16, <1>17 DEF IInv, TableInv

LEMMA CrashKeeps ==
  ASSUME IInv, Crash
  PROVE  IInv'
<1>1. /\ Mishap
      /\ start' = [b \in Batches |-> IF Starting(b, "new") THEN start[b] ELSE Over]
      /\ call' = Free /\ pass' = [p \in Passes |-> Idle] /\ cached' = 0 /\ updates' = {}
      /\ status' = status /\ jobs' = jobs /\ log' = log
  BY DEF Crash
<1>2. /\ Free.pc = "idle" /\ Free.b = 0
      /\ Free \in [pc : {"idle", "append", "mark"}, a : Artists \cup {Free.a}, b : Batches \cup {0}]
      /\ Idle.pc = "idle" /\ Idle.todo = {}
      /\ Idle \in [pc : {"idle", "flip", "log"}, todo : SUBSET (Batches \X Artists)]
      /\ Over \in [pc : {"new", "selected", "persisted", "logged", "started", "over"}, artists : SUBSET Artists]
      /\ Over.pc = "over"
  BY DEF Free, Idle, Over
<1> HIDE DEF Free, Idle, Over
<1>3. mishaps' \in 0..MaxMishaps
  BY <1>1, BatchBounds DEF Mishap, IInv, TypeOK
<1>4. CallTypes'
  BY <1>1, <1>2 DEF IInv, CallTypes
<1>5. StreamsAreOrdered' /\ CacheIsFresh'
  BY <1>1 DEF IInv, StreamsAreOrdered, CacheIsFresh
<1>6. CallsAreEnrolled' /\ PassesAreEnrolled'
  BY <1>1, <1>2 DEF CallsAreEnrolled, PassesAreEnrolled
<1>7. \A b \in Batches : \/ start[b].pc = "new" /\ start'[b] = start[b]
                         \/ start'[b].pc = "over"
  BY <1>1, <1>2 DEF Starting
<1>8. CASE /\ UNCHANGED tables
           /\ dropped' = dropped \cup UNION {pass[p].todo : p \in {q \in Passes : pass[q].pc = "log"}}
  <2>1. row' = row /\ member' = member
    BY <1>8 DEF tables
  <2>2. TypeOK'
    BY <1>1, <1>2, <1>3, <2>1, BatchBounds DEF IInv, TypeOK
  <2>3. StartsAreNew'
    BY <1>1, <1>7, <2>1 DEF IInv, StartsAreNew
  <2>4. \A b \in Batches : Roster(b)' = Roster(b)
    BY <2>1 DEF Roster, Enrolled
  <2>5. RowsAgree' /\ RosterAgrees'
    BY <1>1, <2>1, <2>4 DEF IInv, TableInv, RowsAgree, RosterAgrees
  <2>6. \A b \in Batches, a \in Artists : Excused(b, a) => Excused(b, a)'
    BY <1>8 DEF Excused, Owed
  <2>7. DoneIsLogged'
    BY <1>1, <2>1, <2>6 DEF IInv, TableInv, DoneIsLogged
  <2> QED BY <1>4, <1>5, <1>6, <2>2, <2>3, <2>5, <2>7 DEF IInv, TableInv
<1>9. CASE /\ member' = [b \in Batches |-> [a \in Artists |-> Folded(b, a)]]
           /\ row' = [b \in Batches |-> IF log[b] = << >> THEN "none"
                                        ELSE IF Members(log[b]) = Finished(log[b]) THEN "done" ELSE "open"]
           /\ dropped' = {}
  <2>1. \A b \in Batches, a \in Artists :
          member'[b][a] = IF a \notin Members(log[b]) THEN "none"
                          ELSE IF a \in Finished(log[b]) THEN "done" ELSE "open"
    BY <1>9 DEF Folded
  <2>2. \A b \in Batches :
          row'[b] = IF log[b] = << >> THEN "none"
                    ELSE IF Members(log[b]) = Finished(log[b]) THEN "done" ELSE "open"
    BY <1>9
  <2>3. TypeOK'
    <3>1. row' \in [Batches -> {"none", "open", "done"}]
      BY <1>9
    <3>2. member' \in [Batches -> [Artists -> {"none", "open", "done"}]]
      BY <1>9 DEF Folded
    <3> QED BY <1>1, <1>2, <1>3, <3>1, <3>2, BatchBounds DEF IInv, TypeOK
  <2>4. StartsAreNew'
    BY <1>1, <1>7, <2>2 DEF IInv, StartsAreNew
  <2>5. \A b \in Batches : /\ Members(log[b]) \subseteq Artists
                           /\ log[b] = << >> => Members(log[b]) = {}
                           /\ log[b] # << >> => Members(log[b]) # {}
    BY OrderedStreams, NoFacts DEF IInv, TypeOK, StreamsAreOrdered
  <2>6. \A b \in Batches : Roster(b)' = Members(log[b])
    BY <2>1, <2>5 DEF Roster, Enrolled
  <2>7. RowsAgree'
    <3> SUFFICES ASSUME NEW b \in Batches
                 PROVE  /\ (row'[b] = "none") = (Roster(b)' = {})
                        /\ row'[b] = "done" => \A a \in Artists : member'[b][a] # "open"
      BY DEF RowsAgree
    <3>1. (row'[b] = "none") = (Roster(b)' = {})
      BY <2>2, <2>5, <2>6
    <3>2. row'[b] = "done" => \A a \in Artists : member'[b][a] # "open"
      BY <2>1, <2>2
    <3> QED BY <3>1, <3>2
  <2>8. RosterAgrees'
    BY <1>1, <2>6 DEF RosterAgrees
  <2>9. DoneIsLogged'
    BY <1>1, <2>1 DEF DoneIsLogged
  <2> QED BY <1>4, <1>5, <1>6, <2>3, <2>4, <2>7, <2>8, <2>9 DEF IInv, TableInv
<1> QED BY <1>8, <1>9 DEF Crash

-----------------------------------------------------------------------------
(* The theorems.                                                           *)

LEMMA Initially == Init => IInv
<1> SUFFICES ASSUME Init
             PROVE  IInv
  OBVIOUS
<1>1. /\ Free.pc = "idle" /\ Free.b = 0
      /\ Free \in [pc : {"idle", "append", "mark"}, a : Artists \cup {Free.a}, b : Batches \cup {0}]
      /\ Idle.pc = "idle" /\ Idle.todo = {}
      /\ Idle \in [pc : {"idle", "flip", "log"}, todo : SUBSET (Batches \X Artists)]
  BY DEF Free, Idle
<1>2. /\ call = Free /\ pass = [p \in Passes |-> Idle] /\ cached = 0
      /\ \A b \in Batches : log[b] = << >>
      /\ row = [b \in Batches |-> IF b = 1 /\ Old # {} THEN "open" ELSE "none"]
      /\ member = [b \in Batches |-> [a \in Artists |-> IF b = 1 /\ a \in Old THEN "open" ELSE "none"]]
      /\ start = [b \in Batches |-> [pc |-> IF b = 1 /\ Old # {} THEN "over" ELSE "new", artists |-> {}]]
  BY DEF Init
<1> HIDE DEF Free, Idle
<1>3. TypeOK
  <2>1. << >> \in Seq(Facts)
    BY NoFacts
  <2>2. row \in [Batches -> {"none", "open", "done"}]
    BY <1>2
  <2>3. member \in [Batches -> [Artists -> {"none", "open", "done"}]]
    BY <1>2
  <2>4. jobs \subseteq Batches \X Artists /\ updates \subseteq Artists
    BY BatchBounds DEF Init
  <2>5. status \in [Artists -> {"idle", "pending"}] /\ log \in [Batches -> Seq(Facts)]
    BY <2>1 DEF Init
  <2>6. mishaps \in 0..MaxMishaps
    BY BatchBounds DEF Init
  <2> QED BY <1>1, <1>2, <2>2, <2>3, <2>4, <2>5, <2>6, BatchBounds DEF TypeOK
<1>4. CallTypes
  BY <1>1, <1>2 DEF CallTypes
<1>5. StreamsAreOrdered /\ CacheIsFresh
  BY <1>2, NoFacts DEF StreamsAreOrdered, CacheIsFresh
<1>6. StartsAreNew
  BY <1>2 DEF StartsAreNew
<1>7. RowsAgree
  <2> SUFFICES ASSUME NEW b \in Batches
               PROVE  (row[b] = "none") = (Roster(b) = {}) /\ row[b] # "done"
    BY DEF RowsAgree
  <2>1. CASE b = 1 /\ Old # {}
    BY <1>2, <2>1, BatchBounds DEF Roster, Enrolled
  <2>2. CASE ~(b = 1 /\ Old # {})
    <3>1. \A a \in Artists : member[b][a] = "none"
      BY <1>2, <2>2
    <3> QED BY <1>2, <2>2, <3>1 DEF Roster, Enrolled
  <2> QED BY <2>1, <2>2
<1>8. RosterAgrees /\ CallsAreEnrolled /\ PassesAreEnrolled
  BY <1>1, <1>2 DEF RosterAgrees, CallsAreEnrolled, PassesAreEnrolled
<1>9. DoneIsLogged
  BY <1>2 DEF DoneIsLogged
<1> QED BY <1>3, <1>4, <1>5, <1>6, <1>7, <1>8, <1>9 DEF IInv, TableInv

LEMMA Stutters == IInv /\ UNCHANGED vars => IInv'
<1> SUFFICES ASSUME IInv, UNCHANGED vars
             PROVE  IInv'
  OBVIOUS
<1>1. /\ UNCHANGED <<tables, facts, call, pass, dropped>>
      /\ status' = status /\ jobs' = jobs /\ updates' = updates /\ mishaps' = mishaps
      /\ row' = row /\ member' = member /\ log' = log /\ cached' = cached
      /\ start' = start /\ call' = call /\ pass' = pass
  BY DEF vars, world, tables, facts
<1>2. TypeOK'
  BY <1>1 DEF IInv, TypeOK
<1>3. CallTypes' /\ StartsAreNew'
  BY <1>1 DEF IInv, CallTypes, StartsAreNew
<1> QED BY <1>1, <1>2, <1>3, Untouched

LEMMA Inductive == IInv /\ [Next]_vars => IInv'
<1> SUFFICES ASSUME IInv, [Next]_vars
             PROVE  IInv'
  OBVIOUS
<1>1. CASE \E b \in Batches : SelectArtists(b) \/ StartStep(b)
  BY <1>1, SelectArtistsKeeps, PersistKeeps, AppendStartedKeeps, InsertBatchKeeps, DispatchKeeps
     DEF StartStep
<1>2. CASE CallStep
  BY <1>2, ReceiveKeeps, LogCompletionKeeps, MarkMemberDoneKeeps DEF CallStep
<1>3. CASE \E p \in Passes : PassStep(p)
  BY <1>3, SelectMissedKeeps, FlipMissedKeeps, LogMissedKeeps DEF PassStep
<1>4. CASE Finish \/ Swept
  BY <1>4, FinishKeeps
<1>5. CASE Crash
  BY <1>5, CrashKeeps
<1>6. CASE UNCHANGED vars
  BY <1>6, Stutters
<1> QED BY <1>1, <1>2, <1>3, <1>4, <1>5, <1>6 DEF Next

LEMMA Invariance == Spec => []IInv
BY Initially, Inductive, PTL DEF Spec

LEMMA StreamsAreWellFormed == IInv => LogWellFormed
BY DEF IInv, StreamsAreOrdered, Ordered, LogWellFormed

\* When no append is torn, a batch that is done and owes nothing is closed.
LEMMA DoneBatchIsClosed == IInv /\ ~Partial => DoneIsClosed
<1> SUFFICES ASSUME IInv, ~Partial, NEW b \in Batches, row[b] = "done",
                    \A a \in Artists : ~Excused(b, a)
             PROVE  IsClosed(log[b])
  BY DEF DoneIsClosed
<1>1. Roster(b) # {} /\ \A a \in Artists : member[b][a] # "open"
  BY DEF IInv, TableInv, RowsAgree
<1>2. \A a \in Artists : member[b][a] \in {"none", "open", "done"}
  BY DEF IInv, TypeOK
<1>3. Roster(b) \subseteq Finished(log[b])
  <2> SUFFICES ASSUME NEW a \in Artists, Enrolled(b, a)
               PROVE  a \in Finished(log[b])
    BY DEF Roster
  <2>1. member[b][a] = "done"
    BY <1>1, <1>2 DEF Enrolled
  <2> QED BY <2>1 DEF IInv, TableInv, DoneIsLogged
<1>4. log[b] # << >>
  BY <1>1, <1>3, NoFacts
<1>5. Members(log[b]) = Roster(b)
  BY <1>4 DEF IInv, TableInv, RosterAgrees
<1>6. Members(log[b]) = Finished(log[b])
  BY <1>3, <1>5 DEF Finished
<1> QED BY <1>4, <1>6 DEF IInv, StreamsAreOrdered, FullIsClosed

\* Whether appends are transactions or go message by message, a batch's stream
\* begins once, completes nobody twice and closes last, and what the tables call
\* done is in it or still owed to it (RecordCompletion, RecordClosed,
\* CompleteArtist, Reconcile, cmd/replay).
THEOREM StreamsTellOneStory == Spec => [](TypeOK /\ LogWellFormed /\ DoneIsLogged)
<1>1. IInv => TypeOK /\ LogWellFormed /\ DoneIsLogged
  BY StreamsAreWellFormed DEF IInv, TableInv
<1> QED BY <1>1, Invariance, PTL

\* With transactional appends a batch's stream is the record its tables are read
\* off, its closing included (appendCompletions closes what it completes).
THEOREM LogsAreSound ==
  ASSUME ~Partial
  PROVE  Spec => []LogIsSound
<1>1. IInv => LogIsSound
  BY StreamsAreWellFormed, DoneBatchIsClosed DEF IInv, TableInv, LogIsSound
<1> QED BY <1>1, Invariance, PTL

=============================================================================
