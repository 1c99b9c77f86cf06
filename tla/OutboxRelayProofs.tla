-------------------------- MODULE OutboxRelayProofs --------------------------
(***************************************************************************)
(* MirrorIsSound and FlipIsSound hold in every state of OutboxRelay, for   *)
(* any streams, bounds and batch size, with unencodable rows and a lost    *)
(* nats/ directory or without.                                             *)
(***************************************************************************)
EXTENDS OutboxRelay, FiniteSetTheorems, TLAPS

-----------------------------------------------------------------------------
(* The inductive invariant.                                                *)

\* A process that is down runs no pass.
DownIsIdle == mode = "down" => pc = "idle"
IdleIsClear == pc = "idle" => published = {} /\ frontier = 0

\* Rows of a stream carry rising versions, none beyond its own rowid.
RowsRise ==
    /\ \A i \in Rows : events[i].version <= i
    /\ \A i, j \in Rows :
         (i < j /\ events[i].stream = events[j].stream) => events[i].version < events[j].version

\* DOMAIN_EVENTS holds copies of rows, and native events numbered by place.
DomainIsKnown ==
    \A k \in DOMAIN domain :
        \/ domain[k].id \in Rows /\ domain[k] = Message(domain[k].id)
        \/ domain[k].id = MaxEvents + k

\* An ID inside the duplicate window is of a message that is stored.
WindowIsStored == \A i \in dedup : (i \in Rows /\ Mirrored(i)) \/ i > MaxEvents

\* What a pass will mark is stored, or can never be.
PassIsStored == \A i \in published : events[i].encodes => Mirrored(i)

\* As long as a pass has met no failure, the rows it passed are the oldest.
PassIsContiguous ==
    contiguous => \A i \in unpublished : i \in published \/ i \in todo \/ \A j \in todo : j < i

\* A frontier has no row below it that will stay in the outbox.
FrontierIsFirm ==
    /\ \A i \in unpublished : i <= frontier => i \in published
    /\ pc = "save" => \A i \in unpublished : frontier < i

\* The flip is made once everything is published, and for good.
MarkerIsFinal ==
    /\ mode = "sqlite" => ~marker
    /\ mode = "jetstream" => marker /\ Len(events) <= Len(domain)
    /\ marker => unpublished = {} /\ pc = "idle"
    /\ ~marker => \A k \in DOMAIN domain : domain[k].id <= MaxEvents

\* A native event is above whatever its stream had.
NativesRise ==
    \A k \in DOMAIN domain : domain[k].id > MaxEvents =>
        /\ \A i \in RowsOf(domain[k].stream) : events[i].version < domain[k].version
        /\ \A l \in ScopeOf(domain[k].stream) : l < k => domain[l].version < domain[k].version

\* The tip a native append builds on is above the whole of its stream.
IsTip(s, k) == k \in ScopeOf(s) /\ \A l \in ScopeOf(s) : l <= k
TipsLead ==
    (marker /\ Len(events) <= Len(domain)) =>
        \A s \in Streams :
            /\ RowsOf(s) # {} => ScopeOf(s) # {}
            /\ \A k \in DOMAIN domain : IsTip(s, k) =>
                 /\ \A i \in RowsOf(s) : events[i].version <= domain[k].version
                 /\ \A l \in ScopeOf(s) : domain[l].version <= domain[k].version

RelayInv == DownIsIdle /\ IdleIsClear /\ WindowIsStored /\ PassIsStored /\ PassIsContiguous
            /\ FrontierIsFirm /\ MarkedIsMirrored /\ CheckpointIsFrontier
LogInv   == RowsRise /\ DomainIsKnown /\ MarkerIsFinal /\ NativesRise /\ TipsLead
IInv     == TypeOK /\ RelayInv /\ LogInv
-----------------------------------------------------------------------------
(* Least and greatest elements.                                            *)

\* A set of naturals has a least element (rows come in rowid order).
LEMMA LeastExists ==
  ASSUME NEW T \in SUBSET Nat, T # {}
  PROVE  \E x \in T : \A y \in T : x <= y
<1>1. PICK x \in T : \A y \in T : <<y, x>> \notin OpToRel(<, Nat)
  BY WFMin, NatLessThanWellFounded, Zenon
<1>2. \A y \in T : ~(y < x)
  BY <1>1 DEF OpToRel
<1> QED BY <1>2

\* A bounded one also has a greatest (the latest message of a scope).
LEMMA GreatestExists ==
  ASSUME NEW n \in Nat, NEW T \in SUBSET (0..n), T # {}
  PROVE  \E x \in T : \A y \in T : y <= x
<1> DEFINE U == {u \in 0..n : \A y \in T : y <= u}
<1>1. n \in U /\ U \in SUBSET Nat
  OBVIOUS
<1>2. PICK u \in U : \A v \in U : u <= v
  BY <1>1, LeastExists
<1>3. CASE u \in T
  BY <1>2, <1>3
<1>4. CASE u \notin T
  <2>1. PICK y \in T : TRUE
    OBVIOUS
  <2>2. u > 0 /\ \A z \in T : z <= u - 1
    BY <1>2, <1>4, <2>1
  <2>3. u - 1 \in U
    BY <1>2, <2>2
  <2> QED BY <1>2, <2>3
<1> QED BY <1>3, <1>4

\* The row at hand is the oldest of the pass.
LEMMA RowIsLeast ==
  ASSUME TypeOK, todo # {}
  PROVE  Row \in todo /\ \A j \in todo : Row <= j
<1>1. todo \in SUBSET Nat
  BY DEF TypeOK, Rows
<1> QED BY <1>1, LeastExists DEF Row

\* The tip of a scope is its last message.
LEMMA TipIsLast ==
  ASSUME TypeOK, NEW s, ScopeOf(s) # {}
  PROVE  IsTip(s, ScopeTip(s))
<1>1. Len(domain) \in Nat /\ ScopeOf(s) \in SUBSET (0..Len(domain))
  BY DEF TypeOK, ScopeOf
<1> QED BY <1>1, GreatestExists DEF ScopeTip, IsTip

\* The parts of a row and of a message.
LEMMA RowTypes ==
  ASSUME TypeOK
  PROVE  /\ Len(events) \in 0..MaxEvents /\ Rows = 1..Len(events)
         /\ \A i \in Rows : /\ events[i].stream \in Streams /\ events[i].encodes \in BOOLEAN
                            /\ events[i].version \in Nat /\ events[i].version > 0
<1>1. Len(events) \in 0..MaxEvents /\ Rows = 1..Len(events)
  BY BoundsAssumption DEF TypeOK, Rows
<1>2. \A i \in Rows : events[i] \in EventRow
  BY <1>1 DEF TypeOK
<1> QED BY <1>1, <1>2, BoundsAssumption DEF EventRow

LEMMA MessageTypes ==
  ASSUME TypeOK
  PROVE  /\ Len(domain) \in Nat /\ DOMAIN domain = 1..Len(domain)
         /\ \A k \in DOMAIN domain : /\ domain[k].id \in Nat /\ domain[k].stream \in Streams
                                     /\ domain[k].version \in Nat
<1> DEFINE R == [id : Nat, stream : Streams, version : Nat]
<1>1. domain \in Seq(R)
  BY DEF TypeOK
<1>2. Len(domain) \in Nat /\ DOMAIN domain = 1..Len(domain) /\ \A k \in DOMAIN domain : domain[k] \in R
  <2> HIDE DEF R
  <2> QED BY <1>1
<1> QED BY <1>2

\* MAX(version), zero for a stream without rows.
LEMMA TableVersionIsMax ==
  ASSUME TypeOK, RowsRise, NEW s
  PROVE  /\ TableVersion(s) \in 0..Len(events)
         /\ \A i \in RowsOf(s) : events[i].version <= TableVersion(s) /\ events[i].version > 0
<1> DEFINE T == {0} \cup {events[i].version : i \in RowsOf(s)}
<1>1. Len(events) \in Nat /\ T \in SUBSET (0..Len(events))
  <2>1. \A i \in RowsOf(s) : events[i].version \in 0..Len(events)
    BY RowTypes DEF RowsRise, RowsOf
  <2> QED BY <2>1, RowTypes, BoundsAssumption
<1>2. PICK x \in T : \A y \in T : x >= y
  BY <1>1, GreatestExists
<1>3. TableVersion(s) \in T /\ \A y \in T : TableVersion(s) >= y
  BY <1>2 DEF TableVersion, Max
<1>4. \A i \in RowsOf(s) : events[i].version \in T /\ events[i].version > 0
  BY RowTypes DEF RowsOf
<1> QED BY <1>1, <1>3, <1>4

-----------------------------------------------------------------------------
(* What stays when the log does.                                           *)

\* Neither log moves and the flip is left alone.
LEMMA LogStays ==
  ASSUME LogInv, UNCHANGED <<events, domain, marker>>, unpublished' \subseteq unpublished,
         marker => pc' = "idle", mode' \in {mode, "down"}
  PROVE  LogInv'
<1>1. RowsRise'
  BY DEF LogInv, RowsRise, Rows
<1>2. DomainIsKnown'
  BY DEF LogInv, DomainIsKnown, Rows, Message
<1>3. MarkerIsFinal'
  BY DEF LogInv, MarkerIsFinal
<1>4. NativesRise'
  BY DEF LogInv, NativesRise, RowsOf, ScopeOf, Rows
<1>5. TipsLead'
  BY DEF LogInv, TipsLead, IsTip, RowsOf, ScopeOf, Rows
<1> QED BY <1>1, <1>2, <1>3, <1>4, <1>5 DEF LogInv

\* A message that is stored stays stored while its row stays and messages are
\* only added.
LEMMA MirroredStays ==
  ASSUME events' = events,
         \A k \in DOMAIN domain : k \in DOMAIN domain' /\ domain'[k] = domain[k]
  PROVE  \A i : Mirrored(i) => Mirrored(i)'
BY DEF Mirrored, Message

\* Only the pass moves, and the outbox only by what it published.
LEMMA MirrorStays ==
  ASSUME RelayInv, UNCHANGED <<events, domain, lost>>,
         dedup' \subseteq dedup, published' \subseteq published,
         unpublished \ published \subseteq unpublished', unpublished' \subseteq unpublished
  PROVE  WindowIsStored' /\ PassIsStored' /\ MarkedIsMirrored'
<1>1. \A i : Mirrored(i) => Mirrored(i)'
  BY MirroredStays
<1>2. WindowIsStored'
  BY <1>1 DEF RelayInv, WindowIsStored, Rows
<1>3. PassIsStored'
  BY <1>1 DEF RelayInv, PassIsStored
<1>4. MarkedIsMirrored'
  BY <1>1 DEF RelayInv, MarkedIsMirrored, PassIsStored, Rows
<1> QED BY <1>2, <1>3, <1>4

\* A pass that ends, or that is cut off, leaves a clear relay.
LEMMA PassEnds ==
  ASSUME IInv, IdleRelay, UNCHANGED <<events, domain, marker, lost, dedup>>,
         unpublished \ published \subseteq unpublished', unpublished' \subseteq unpublished,
         \A i \in unpublished' : i > checkpoint',
         mode' \in {mode, "down"}
  PROVE  RelayInv' /\ LogInv'
<1>1. WindowIsStored' /\ PassIsStored' /\ MarkedIsMirrored'
  BY MirrorStays DEF IInv, IdleRelay
<1>2. DownIsIdle' /\ IdleIsClear' /\ PassIsContiguous' /\ FrontierIsFirm' /\ CheckpointIsFrontier'
  <2>1. unpublished' \in SUBSET Nat /\ \A i \in unpublished' : i > 0
    BY DEF IInv, TypeOK, Rows
  <2> QED BY <2>1 DEF IdleRelay, DownIsIdle, IdleIsClear, PassIsContiguous, FrontierIsFirm,
                      CheckpointIsFrontier
<1>3. LogInv'
  BY LogStays DEF IInv, IdleRelay
<1> QED BY <1>1, <1>2, <1>3 DEF RelayInv

-----------------------------------------------------------------------------
(* Appends.                                                                *)

\* Rows appended in one transaction carry the next versions of their streams.
LEMMA AppendSQLiteInv == ASSUME IInv, AppendSQLite PROVE IInv'
<1> DEFINE Appended(n, batch) ==
         /\ Len(events) + n <= MaxEvents
         /\ events' = events \o [i \in 1..n |->
               [stream |-> batch[i][1], encodes |-> batch[i][2],
                version |-> TableVersion(batch[i][1])
                            + Cardinality({j \in 1..i : batch[j][1] = batch[i][1]})]]
         /\ unpublished' = unpublished \cup ((Len(events) + 1)..(Len(events) + n))
<1>a. PICK n \in 1..MaxBatch : \E batch \in [1..n -> Streams \X BOOLEAN] : Appended(n, batch)
  BY DEF AppendSQLite
<1>1. PICK batch \in [1..n -> Streams \X BOOLEAN] : Appended(n, batch)
  BY <1>a
<1> DEFINE Stream(i) == batch[i][1]
           C(i)      == {j \in 1..i : Stream(j) = Stream(i)}
           Nth(i)    == Cardinality(C(i))
           New(i)    == [stream |-> Stream(i), encodes |-> batch[i][2],
                         version |-> TableVersion(Stream(i)) + Nth(i)]
<1>2. n \in Nat /\ n > 0 /\ mode = "sqlite" /\ ~marker /\ TypeOK /\ RowsRise
  BY <1>1, BoundsAssumption DEF IInv, LogInv, MarkerIsFinal, AppendSQLite
<1>3. \A i \in 1..n : Stream(i) \in Streams /\ batch[i][2] \in BOOLEAN
  BY <1>1
<1>4. \A i \in 1..n : Nth(i) \in 1..i
  <2> TAKE i \in 1..n
  <2>1. IsFiniteSet(1..i) /\ Cardinality(1..i) = i
    BY <1>2, FS_Interval
  <2>2. C(i) \in SUBSET (1..i) /\ i \in C(i)
    OBVIOUS
  <2> HIDE DEF C
  <2>3. IsFiniteSet(C(i)) /\ Nth(i) <= i /\ Nth(i) \in Nat
    BY <2>1, <2>2, FS_Subset, FS_CardinalityType
  <2>4. Nth(i) # 0
    BY <2>2, <2>3, FS_EmptySet
  <2> QED BY <2>3, <2>4
<1>5. \A i, j \in 1..n : (i < j /\ Stream(i) = Stream(j)) => Nth(i) < Nth(j)
  <2> SUFFICES ASSUME NEW i \in 1..n, NEW j \in 1..n, i < j, Stream(i) = Stream(j)
               PROVE  Nth(i) < Nth(j)
    OBVIOUS
  <2>1. IsFiniteSet(1..j) /\ C(j) \in SUBSET (1..j)
    BY <1>2, FS_Interval
  <2>2. C(i) \in SUBSET C(j) /\ j \in C(j) /\ j \notin C(i)
    OBVIOUS
  <2>3. Nth(i) \in Nat /\ Nth(j) \in Nat
    BY <1>4
  <2> HIDE DEF C
  <2>4. IsFiniteSet(C(j))
    BY <2>1, FS_Subset
  <2>5. Nth(i) <= Nth(j) /\ Nth(i) # Nth(j)
    BY <2>2, <2>4, FS_Subset
  <2> QED BY <2>3, <2>5
<1> HIDE DEF C, Nth, Stream
<1>6. /\ Len(events) \in 0..MaxEvents /\ Rows = 1..Len(events)
      /\ \A i \in Rows : /\ events[i].stream \in Streams /\ events[i].encodes \in BOOLEAN
                         /\ events[i].version \in Nat /\ events[i].version > 0
  BY <1>2, RowTypes
<1>7. \A s : /\ TableVersion(s) \in 0..Len(events)
             /\ \A i \in RowsOf(s) : events[i].version <= TableVersion(s)
  BY <1>2, TableVersionIsMax
<1>8. \A i \in 1..n : /\ New(i) \in EventRow
                      /\ New(i).version <= Len(events) + i
                      /\ New(i).version = TableVersion(Stream(i)) + Nth(i)
                      /\ New(i).stream = Stream(i)
  BY <1>1, <1>2, <1>3, <1>4, <1>6, <1>7, BoundsAssumption DEF EventRow
<1>9. events' = events \o [i \in 1..n |-> New(i)]
  BY <1>1 DEF C, Nth, Stream
<1> HIDE DEF New
<1>10. /\ events' \in Seq(EventRow) /\ Len(events') = Len(events) + n
       /\ \A i \in Rows : events'[i] = events[i]
       /\ \A i \in 1..n : events'[Len(events) + i] = New(i)
  <2> HIDE DEF EventRow
  <2>1. events \in Seq(EventRow) /\ [i \in 1..n |-> New(i)] \in Seq(EventRow)
    BY <1>2, <1>8 DEF TypeOK
  <2> QED BY <1>2, <1>6, <1>9, <2>1
<1>11. /\ Rows' = 1..(Len(events) + n) /\ Rows \subseteq Rows'
       /\ \A i \in Rows' : i \in Rows \/ \E k \in 1..n : i = Len(events) + k
  <2>1. Rows' = 1..(Len(events) + n)
    BY <1>10 DEF Rows
  <2>2. \A i \in Rows' : i \in Rows \/ (i - Len(events) \in 1..n /\ i = Len(events) + (i - Len(events)))
    BY <1>2, <1>6, <2>1
  <2>3. Rows \subseteq Rows'
    BY <1>2, <1>6, <2>1
  <2> QED BY <2>1, <2>2, <2>3
<1>12. UNCHANGED <<domain, dedup, checkpoint, marker, lost, expiries, crashes, mode, stopping, pc, todo,
                   published, frontier, contiguous>>
  BY DEF AppendSQLite, nats, relay, process
<1>13. \A i \in Rows : Message(i)' = Message(i)
  BY <1>10 DEF Message
<1>14. \A i \in Rows : Mirrored(i) => Mirrored(i)'
  BY <1>12, <1>13 DEF Mirrored
<1>15. TypeOK'
  <2>1. unpublished' \subseteq Rows'
    BY <1>1, <1>2, <1>6, <1>11 DEF TypeOK
  <2>2. published' \subseteq Rows' /\ todo' \subseteq Rows'
    BY <1>2, <1>11, <1>12 DEF TypeOK
  <2>3. checkpoint' \in {0} \cup Rows' /\ frontier' \in {0} \cup Rows'
    BY <1>2, <1>11, <1>12 DEF TypeOK
  <2> QED BY <1>1, <1>2, <1>6, <1>10, <1>12, <2>1, <2>2, <2>3 DEF TypeOK
<1>16. RowsRise'
  <2>1. \A i \in Rows' : events'[i].version <= i
    <3> TAKE i \in Rows'
    <3>1. CASE i \in Rows
      BY <1>2, <1>10, <3>1 DEF RowsRise
    <3>2. CASE i \notin Rows
      <4>1. PICK a \in 1..n : i = Len(events) + a
        BY <1>11, <3>2
      <4> QED BY <1>8, <1>10, <4>1
    <3> QED BY <3>1, <3>2
  <2>2. ASSUME NEW i \in Rows', NEW j \in Rows', i < j, events'[i].stream = events'[j].stream
        PROVE  events'[i].version < events'[j].version
    <3>1. CASE j \in Rows
      <4>1. i \in Rows
        BY <1>2, <1>6, <1>11, <2>2, <3>1
      <4> QED BY <1>2, <1>10, <2>2, <3>1, <4>1 DEF RowsRise
    <3>2. CASE j \notin Rows
      <4>1. PICK b \in 1..n : j = Len(events) + b
        BY <1>11, <3>2
      <4>2. CASE i \in Rows
        <5>1. i \in RowsOf(Stream(b))
          BY <1>8, <1>10, <2>2, <4>1, <4>2 DEF RowsOf
        <5>2. events[i].version \in Nat /\ events[i].version <= TableVersion(Stream(b))
              /\ TableVersion(Stream(b)) \in Nat /\ Nth(b) \in Nat /\ Nth(b) > 0
          BY <1>4, <1>6, <1>7, <4>1, <4>2, <5>1
        <5>3. events'[i] = events[i] /\ events'[j].version = TableVersion(Stream(b)) + Nth(b)
          BY <1>8, <1>10, <4>1, <4>2
        <5> QED BY <5>2, <5>3
      <4>3. CASE i \notin Rows
        <5>1. PICK a \in 1..n : i = Len(events) + a
          BY <1>11, <4>3
        <5>2. a < b /\ Stream(a) = Stream(b)
          BY <1>2, <1>6, <1>8, <1>10, <2>2, <4>1, <5>1
        <5>3. /\ events'[i].version = TableVersion(Stream(a)) + Nth(a)
              /\ events'[j].version = TableVersion(Stream(b)) + Nth(b)
          BY <1>8, <1>10, <4>1, <5>1
        <5>4. Nth(a) \in Nat /\ Nth(b) \in Nat /\ Nth(a) < Nth(b) /\ TableVersion(Stream(b)) \in Nat
          BY <1>4, <1>5, <1>7, <4>1, <5>1, <5>2
        <5> QED BY <5>2, <5>3, <5>4
      <4> QED BY <4>2, <4>3
    <3> QED BY <3>1, <3>2
  <2> QED BY <2>1, <2>2 DEF RowsRise
<1>17. LogInv'
  <2>1. \A k \in DOMAIN domain : domain[k].id <= MaxEvents
    BY <1>2 DEF IInv, LogInv, MarkerIsFinal
  <2>2. DomainIsKnown'
    BY <1>11, <1>12, <1>13 DEF IInv, LogInv, DomainIsKnown
  <2>3. MarkerIsFinal'
    BY <1>2, <1>12, <2>1 DEF MarkerIsFinal
  <2>4. NativesRise' /\ TipsLead'
    BY <1>2, <1>12, <2>1, MessageTypes, BoundsAssumption DEF NativesRise, TipsLead
  <2> QED BY <1>16, <2>2, <2>3, <2>4 DEF LogInv
<1>18. RelayInv'
  <2>1. \A i \in Rows' : i \in Rows \/ i \in unpublished'
    BY <1>1, <1>2, <1>6, <1>11
  <2>2. \A i \in unpublished' : i \in unpublished \/ \A j \in Rows : j < i
    BY <1>1, <1>2, <1>6
  <2>3. DownIsIdle' /\ IdleIsClear'
    BY <1>12 DEF IInv, RelayInv, DownIsIdle, IdleIsClear
  <2>4. WindowIsStored'
    BY <1>11, <1>12, <1>14 DEF IInv, RelayInv, WindowIsStored
  <2>5. PassIsStored'
    BY <1>2, <1>10, <1>12, <1>14 DEF IInv, RelayInv, PassIsStored, TypeOK
  <2>6. PassIsContiguous'
    BY <1>2, <1>12, <2>2 DEF IInv, RelayInv, PassIsContiguous, TypeOK
  <2>7. FrontierIsFirm'
    BY <1>2, <1>6, <1>11, <1>12, <2>2, <1>1 DEF IInv, RelayInv, FrontierIsFirm, TypeOK
  <2>8. MarkedIsMirrored'
    BY <1>1, <1>10, <1>12, <1>14, <2>1 DEF IInv, RelayInv, MarkedIsMirrored
  <2>9. CheckpointIsFrontier'
    BY <1>1, <1>2, <1>6, <1>12, <2>2 DEF IInv, RelayInv, CheckpointIsFrontier, TypeOK
  <2> QED BY <2>3, <2>4, <2>5, <2>6, <2>7, <2>8, <2>9 DEF RelayInv
<1> QED BY <1>15, <1>17, <1>18 DEF IInv

\* A native append builds on the tip of its scope.
LEMMA AppendNativeInv == ASSUME IInv, AppendNative PROVE IInv'
<1> DEFINE id == MaxEvents + Len(domain) + 1
           at == Len(domain) + 1
<1>1. PICK s \in Streams :
        LET version == IF ScopeOf(s) = {} THEN 1 ELSE domain[ScopeTip(s)].version + 1
        IN  /\ domain' = Append(domain, [id |-> id, stream |-> s, version |-> version])
            /\ dedup' = dedup \cup {id}
  BY DEF AppendNative
<1> DEFINE version == IF ScopeOf(s) = {} THEN 1 ELSE domain[ScopeTip(s)].version + 1
           new     == [id |-> id, stream |-> s, version |-> version]
<1>2. /\ UNCHANGED <<events, unpublished, checkpoint, marker, expiries, lost, mode, stopping, crashes,
                     pc, todo, published, frontier, contiguous>>
      /\ mode = "jetstream" /\ TypeOK /\ LogInv /\ RelayInv
  BY DEF AppendNative, sqlite, relay, process, IInv
<1>3. marker /\ Len(events) <= Len(domain) /\ unpublished = {} /\ pc = "idle"
  BY <1>2 DEF LogInv, MarkerIsFinal
<1>4. /\ Len(domain) \in Nat /\ DOMAIN domain = 1..Len(domain)
      /\ \A k \in DOMAIN domain : /\ domain[k].id \in Nat /\ domain[k].stream \in Streams
                                  /\ domain[k].version \in Nat
  BY <1>2, MessageTypes
<1>5. /\ Len(events) \in 0..MaxEvents /\ Rows = 1..Len(events) /\ MaxEvents \in Nat
      /\ \A i \in Rows : events[i].version \in Nat /\ events[i].stream \in Streams
  BY <1>2, RowTypes, BoundsAssumption
<1>6. /\ version \in Nat
      /\ \A i \in RowsOf(s) : events[i].version < version
      /\ \A l \in ScopeOf(s) : domain[l].version < version
  <2>1. CASE ScopeOf(s) = {}
    <3>1. RowsOf(s) = {}
      BY <1>2, <1>3, <2>1 DEF LogInv, TipsLead
    <3> QED BY <2>1, <3>1
  <2>2. CASE ScopeOf(s) # {}
    <3>1. IsTip(s, ScopeTip(s)) /\ ScopeTip(s) \in DOMAIN domain
      BY <1>2, <2>2, TipIsLast DEF IsTip, ScopeOf
    <3>2. /\ \A i \in RowsOf(s) : events[i].version <= domain[ScopeTip(s)].version
          /\ \A l \in ScopeOf(s) : domain[l].version <= domain[ScopeTip(s)].version
      BY <1>2, <1>3, <3>1 DEF LogInv, TipsLead
    <3>3. /\ \A i \in RowsOf(s) : events[i].version \in Nat
          /\ \A l \in ScopeOf(s) : domain[l].version \in Nat
          /\ domain[ScopeTip(s)].version \in Nat
      BY <1>4, <1>5, <3>1 DEF RowsOf, ScopeOf
    <3> QED BY <2>2, <3>2, <3>3
  <2> QED BY <2>1, <2>2
<1>7. new \in [id : Nat, stream : Streams, version : Nat]
  BY <1>4, <1>5, <1>6
<1>8. /\ domain' \in Seq([id : Nat, stream : Streams, version : Nat])
      /\ Len(domain') = at /\ DOMAIN domain' = 1..at /\ domain'[at] = new
      /\ \A k \in DOMAIN domain : k \in DOMAIN domain' /\ domain'[k] = domain[k]
      /\ \A k \in DOMAIN domain' : k \in DOMAIN domain \/ k = at
  <2> DEFINE R == [id : Nat, stream : Streams, version : Nat]
  <2>1. domain \in Seq(R) /\ new \in R /\ domain' = Append(domain, new)
    BY <1>1, <1>2, <1>7 DEF TypeOK
  <2> HIDE DEF R, new
  <2>2. domain' \in Seq(R) /\ Len(domain') = at /\ domain'[at] = new
        /\ \A k \in 1..Len(domain) : domain'[k] = domain[k]
    BY <2>1
  <2>3. DOMAIN domain' = 1..at
    BY <2>2
  <2> QED BY <1>4, <2>2, <2>3 DEF R
<1>9. new.id = id /\ new.stream = s /\ new.version = version
  OBVIOUS
<1> HIDE DEF new, version
<1>10. \A i : Mirrored(i) => Mirrored(i)'
  BY <1>2, <1>8, MirroredStays
<1>11. \A t : /\ RowsOf(t)' = RowsOf(t)
              /\ ScopeOf(t)' = IF t = s THEN ScopeOf(t) \cup {at} ELSE ScopeOf(t)
  <2>1. \A t : RowsOf(t)' = RowsOf(t)
    BY <1>2 DEF RowsOf, Rows
  <2>2. \A t : ScopeOf(t)' = {k \in DOMAIN domain' : domain'[k].stream = t}
    BY DEF ScopeOf
  <2> QED BY <1>4, <1>8, <1>9, <2>1, <2>2 DEF ScopeOf
<1>12. TypeOK'
  <2>1. dedup' \subseteq Nat
    <3>1. dedup \subseteq Nat /\ id \in Nat
      BY <1>2, <1>4, <1>5 DEF TypeOK
    <3> QED BY <1>1, <3>1
  <2> QED BY <1>2, <1>8, <2>1 DEF TypeOK, Rows
<1>13. LogInv'
  <2>1. RowsRise'
    BY <1>2 DEF LogInv, RowsRise, Rows
  <2>2. DomainIsKnown'
    <3>1. id = MaxEvents + at
      BY <1>4, <1>5
    <3> QED BY <1>2, <1>8, <1>9, <3>1 DEF LogInv, DomainIsKnown, Message, Rows
  <2>3. MarkerIsFinal'
    BY <1>2, <1>3, <1>4, <1>5, <1>8 DEF LogInv, MarkerIsFinal
  <2>4. NativesRise'
    <3> SUFFICES ASSUME NEW k \in DOMAIN domain', domain'[k].id > MaxEvents, NEW t, t = domain'[k].stream
                 PROVE  /\ \A i \in RowsOf(t)' : events'[i].version < domain'[k].version
                        /\ \A l \in ScopeOf(t)' : l < k => domain'[l].version < domain'[k].version
      BY DEF NativesRise, RowsOf, ScopeOf
    <3>0. \A l \in ScopeOf(t) : l \in DOMAIN domain /\ l < at /\ domain'[l] = domain[l]
      BY <1>4, <1>8 DEF ScopeOf
    <3>1. CASE k \in DOMAIN domain
      <4>1. domain'[k] = domain[k] /\ k < at
        BY <1>4, <1>8, <3>1
      <4>2. \A l \in ScopeOf(t)' : l < k => l \in ScopeOf(t) /\ domain'[l] = domain[l]
        BY <1>4, <1>11, <3>0, <3>1
      <4>3. /\ \A i \in RowsOf(t) : events[i].version < domain[k].version
            /\ \A l \in ScopeOf(t) : l < k => domain[l].version < domain[k].version
        BY <1>2, <3>1, <4>1 DEF LogInv, NativesRise
      <4> QED BY <1>2, <1>11, <4>1, <4>2, <4>3
    <3>2. CASE k = at
      <4>1. t = s /\ domain'[k].version = version
        BY <1>8, <1>9, <3>2
      <4>2. \A l \in ScopeOf(t)' : l < k => l \in ScopeOf(t) /\ domain'[l] = domain[l]
        BY <1>4, <1>11, <3>0, <3>2
      <4> QED BY <1>2, <1>6, <1>11, <4>1, <4>2
    <3> QED BY <1>8, <3>1, <3>2
  <2>5. TipsLead'
    <3> SUFFICES ASSUME NEW t \in Streams
                 PROVE  /\ RowsOf(t)' # {} => ScopeOf(t)' # {}
                        /\ \A k \in DOMAIN domain' : IsTip(t, k)' =>
                             /\ \A i \in RowsOf(t)' : events'[i].version <= domain'[k].version
                             /\ \A l \in ScopeOf(t)' : domain'[l].version <= domain'[k].version
      BY DEF TipsLead
    <3>1. /\ RowsOf(t) # {} => ScopeOf(t) # {}
          /\ \A k \in DOMAIN domain : IsTip(t, k) =>
               /\ \A i \in RowsOf(t) : events[i].version <= domain[k].version
               /\ \A l \in ScopeOf(t) : domain[l].version <= domain[k].version
      BY <1>2, <1>3 DEF LogInv, TipsLead
    <3>2. CASE t # s
      <4>1. ScopeOf(t)' = ScopeOf(t) /\ \A l \in ScopeOf(t) : l \in DOMAIN domain /\ domain'[l] = domain[l]
        BY <1>8, <1>11, <3>2 DEF ScopeOf
      <4>2. \A k \in DOMAIN domain' : IsTip(t, k)' => k \in DOMAIN domain /\ domain'[k] = domain[k] /\ IsTip(t, k)
        BY <4>1 DEF IsTip
      <4> QED BY <1>2, <1>11, <3>1, <4>1, <4>2
    <3>3. CASE t = s
      <4>1. \A k : IsTip(t, k)' => k = at
        <5>1. ScopeOf(s) \subseteq 1..Len(domain) /\ ScopeOf(t)' = ScopeOf(s) \cup {at}
          BY <1>4, <1>11, <3>3 DEF ScopeOf
        <5> SUFFICES ASSUME NEW k, k \in ScopeOf(t)', \A l \in ScopeOf(t)' : l <= k
                     PROVE  k = at
          BY DEF IsTip
        <5>2. at <= k /\ (k \in 1..Len(domain) \/ k = at)
          BY <5>1
        <5> QED BY <1>4, <5>2
      <4>2. \A i \in RowsOf(t)' : events'[i].version <= version
        <5>1. \A i \in RowsOf(s) : events[i].version \in Nat /\ events[i].version < version
          BY <1>5, <1>6 DEF RowsOf
        <5> QED BY <1>2, <1>6, <1>11, <3>3, <5>1
      <4>3. \A l \in ScopeOf(t)' : domain'[l].version <= version
        <5> SUFFICES ASSUME NEW l \in ScopeOf(t)' PROVE domain'[l].version <= version
          OBVIOUS
        <5>1. l = at \/ l \in ScopeOf(s)
          BY <1>11, <3>3
        <5>2. CASE l = at
          BY <1>6, <1>8, <1>9, <5>2
        <5>3. CASE l \in ScopeOf(s)
          <6>1. l \in DOMAIN domain
            BY <5>3 DEF ScopeOf
          <6>2. domain'[l] = domain[l] /\ domain[l].version \in Nat
            BY <1>4, <1>8, <6>1
          <6>3. domain[l].version < version
            BY <1>6, <5>3
          <6> QED BY <1>6, <6>2, <6>3
        <5> QED BY <5>1, <5>2, <5>3
      <4> QED BY <1>8, <1>9, <1>11, <3>3, <4>1, <4>2, <4>3
    <3> QED BY <3>2, <3>3
  <2> QED BY <2>1, <2>2, <2>3, <2>4, <2>5 DEF LogInv
<1>14. RelayInv'
  <2>1. WindowIsStored'
    BY <1>1, <1>2, <1>4, <1>5, <1>10 DEF RelayInv, WindowIsStored, Rows
  <2>2. PassIsStored' /\ MarkedIsMirrored'
    BY <1>2, <1>10 DEF RelayInv, PassIsStored, MarkedIsMirrored, Rows
  <2>3. DownIsIdle' /\ IdleIsClear' /\ PassIsContiguous' /\ FrontierIsFirm' /\ CheckpointIsFrontier'
    BY <1>2 DEF RelayInv, DownIsIdle, IdleIsClear, PassIsContiguous, FrontierIsFirm, CheckpointIsFrontier
  <2> QED BY <2>1, <2>2, <2>3 DEF RelayInv
<1> QED BY <1>12, <1>13, <1>14 DEF IInv

-----------------------------------------------------------------------------
(* The relay's pass.                                                       *)

\* A pass starts on the oldest rows, and on one at least.
LEMMA LoadInv == ASSUME IInv, Load PROVE IInv'
<1> DEFINE Older(i) == {j \in unpublished : j < i}
<1>1. /\ UNCHANGED <<events, unpublished, domain, dedup, checkpoint, marker, lost, expiries, mode, stopping,
                     crashes>>
      /\ mode # "down" /\ pc = "idle" /\ unpublished # {} /\ TypeOK /\ RelayInv /\ LogInv
      /\ pc' = "publish" /\ published' = {} /\ frontier' = 0 /\ contiguous' = TRUE
      /\ todo' = {i \in unpublished : Cardinality(Older(i)) < BatchSize}
  BY DEF Load, sqlite, nats, process, IInv
<1>2. unpublished \in SUBSET (1..Len(events)) /\ unpublished \in SUBSET Nat /\ Len(events) \in Nat
  BY <1>1, RowTypes DEF TypeOK
<1>3. IsFiniteSet(unpublished)
  <2>1. IsFiniteSet(1..Len(events))
    BY <1>2, FS_Interval
  <2> QED BY <1>2, <2>1, FS_Subset, Zenon
<1>4. \A i \in unpublished : IsFiniteSet(Older(i)) /\ Cardinality(Older(i)) \in Nat
  <2> TAKE i \in unpublished
  <2>1. Older(i) \in SUBSET unpublished
    OBVIOUS
  <2> HIDE DEF Older
  <2> QED BY <1>3, <2>1, FS_Subset, FS_CardinalityType
<1>5. todo' # {}
  <2>1. PICK m \in unpublished : \A j \in unpublished : m <= j
    BY <1>1, <1>2, LeastExists
  <2>2. Older(m) = {}
    <3>1. \A j \in unpublished : j \in Nat /\ m <= j
      BY <1>2, <2>1
    <3>2. \A j \in unpublished : ~(j < m)
      BY <2>1, <3>1
    <3> QED BY <3>2
  <2> HIDE DEF Older
  <2>3. Cardinality(Older(m)) < BatchSize
    BY <2>2, FS_EmptySet, BatchSizeAssumption
  <2> QED BY <1>1, <2>1, <2>3
<1>6. ASSUME NEW i \in unpublished, i \notin todo', NEW t \in todo'
      PROVE  t < i
  <2> SUFFICES ASSUME ~(t < i)
               PROVE  FALSE
    OBVIOUS
  <2>1. t \in unpublished /\ i < t
    BY <1>1, <1>2, <1>6
  <2>2. Older(i) \in SUBSET Older(t)
    <3>1. i \in Nat /\ t \in Nat /\ \A j \in unpublished : j \in Nat
      BY <1>2, <1>6, <2>1
    <3>2. \A j \in unpublished : j < i => j < t
      BY <2>1, <3>1
    <3> QED BY <3>2
  <2> HIDE DEF Older
  <2>3. Cardinality(Older(i)) <= Cardinality(Older(t))
    BY <1>4, <2>1, <2>2, FS_Subset
  <2>4. Cardinality(Older(t)) < BatchSize
    BY <1>1, <1>6
  <2>5. Cardinality(Older(i)) < BatchSize
    BY <1>4, <1>6, <2>1, <2>3, <2>4, BatchSizeAssumption
  <2> QED BY <1>1, <1>6, <2>5
<1> HIDE DEF Older
<1>7. TypeOK'
  <2>1. todo' \subseteq Rows' /\ (pc' = "publish") = (todo' # {})
    BY <1>1, <1>2, <1>5 DEF TypeOK, Rows
  <2> QED BY <1>1, <2>1 DEF TypeOK, Rows
<1>8. ~marker
  BY <1>1 DEF LogInv, MarkerIsFinal
<1>9. LogInv'
  BY <1>1, <1>8, LogStays
<1>10. WindowIsStored' /\ PassIsStored' /\ MarkedIsMirrored'
  <2>1. published = {}
    BY <1>1 DEF RelayInv, IdleIsClear
  <2> QED BY <1>1, <2>1, MirrorStays
<1>11. DownIsIdle' /\ IdleIsClear' /\ PassIsContiguous' /\ FrontierIsFirm' /\ CheckpointIsFrontier'
  BY <1>1, <1>2, <1>6 DEF RelayInv, DownIsIdle, IdleIsClear, PassIsContiguous, FrontierIsFirm, CheckpointIsFrontier
<1> QED BY <1>7, <1>9, <1>10, <1>11 DEF IInv, RelayInv

\* What NextRow leaves: the younger rows, or the pass's mark.
LEMMA NextRowLeaves ==
  ASSUME IInv, pc = "publish", NextRow, UNCHANGED <<unpublished, checkpoint>>
  PROVE  /\ Row \in todo /\ Row \in Rows /\ Row \in Nat /\ ~marker /\ mode # "down"
         /\ todo' \subseteq Rows /\ pc' \in {"publish", "mark"} /\ (pc' = "publish") = (todo' # {})
         /\ contiguous => \A i \in unpublished : i = Row \/ i \in published \/ i \in todo' \/ \A j \in todo' : j < i
         /\ contiguous => \A i \in unpublished : i <= Row => i = Row \/ i \in published
         /\ CheckpointIsFrontier'
<1>1. TypeOK /\ todo # {} /\ todo \subseteq Rows /\ unpublished \subseteq Rows
  BY DEF IInv, TypeOK
<1>2. Row \in todo /\ \A j \in todo : Row <= j
  BY <1>1, RowIsLeast
<1>3. Rows \subseteq Nat
  BY <1>1, RowTypes
<1>4. todo' = todo \ {Row} /\ pc' = IF todo = {Row} THEN "mark" ELSE "publish"
  BY DEF NextRow
<1>5. todo' \subseteq Rows /\ pc' \in {"publish", "mark"} /\ (pc' = "publish") = (todo' # {})
  BY <1>1, <1>2, <1>4
<1>6. ~marker /\ mode # "down"
  BY DEF IInv, LogInv, MarkerIsFinal, RelayInv, DownIsIdle
<1>7. ASSUME contiguous, NEW i \in unpublished
      PROVE  i \in published \/ i \in todo \/ \A j \in todo : j < i
  BY <1>7 DEF IInv, RelayInv, PassIsContiguous
<1>8. ASSUME contiguous, NEW i \in unpublished, i <= Row
      PROVE  i = Row \/ i \in published
  <2>1. i \in Nat /\ Row \in Nat
    BY <1>1, <1>2, <1>3
  <2>2. CASE i \in todo
    BY <1>2, <1>8, <2>1, <2>2
  <2>3. CASE \A j \in todo : j < i
    BY <1>2, <1>8, <2>1, <2>3
  <2> QED BY <1>7, <1>8, <2>2, <2>3
<1>9. CheckpointIsFrontier'
  BY DEF IInv, RelayInv, CheckpointIsFrontier
<1> QED BY <1>1, <1>2, <1>3, <1>4, <1>5, <1>6, <1>7, <1>8, <1>9

\* DOMAIN_EVENTS stores the row at hand, or has it already.
LEMMA StoreMirrors ==
  ASSUME IInv, pc = "publish", NEW i \in Rows, events[i].encodes, Store(i), UNCHANGED <<events, marker>>
  PROVE  /\ domain' \in Seq([id : Nat, stream : Streams, version : Nat]) /\ dedup' \subseteq Nat
         /\ \A j : Mirrored(j) => Mirrored(j)'
         /\ Mirrored(i)'
         /\ WindowIsStored'
         /\ RowsRise' /\ DomainIsKnown' /\ NativesRise' /\ TipsLead'
         /\ \A k \in DOMAIN domain' : domain'[k].id <= MaxEvents
<1> DEFINE at == Len(domain) + 1
           R  == [id : Nat, stream : Streams, version : Nat]
<1>1. TypeOK /\ RelayInv /\ LogInv /\ ~marker
  BY DEF IInv, LogInv, MarkerIsFinal
<1>2. /\ Len(events) \in 0..MaxEvents /\ Rows = 1..Len(events) /\ MaxEvents \in Nat
      /\ events[i].version \in Nat /\ events[i].stream \in Streams
  BY <1>1, RowTypes, BoundsAssumption
<1>3. /\ domain \in Seq(R) /\ dedup \subseteq Nat
      /\ \A k \in DOMAIN domain : domain[k].id \in Nat /\ domain[k].id <= MaxEvents
  BY <1>1, MessageTypes DEF TypeOK, LogInv, MarkerIsFinal
<1>4. Message(i) \in R /\ Message(i).id = i
  BY <1>2 DEF Message
<1>5. RowsRise' /\ Rows' = Rows /\ \A j : Message(j)' = Message(j)
  BY <1>1 DEF LogInv, RowsRise, Rows, Message
<1>6. \A k \in DOMAIN domain : domain[k].id \in Rows /\ domain[k] = Message(domain[k].id)
  <2>1. \A k \in DOMAIN domain : k > 0
    BY <1>1, MessageTypes
  <2> QED BY <1>1, <1>2, <1>3, <2>1 DEF LogInv, DomainIsKnown
<1>7. CASE i \in dedup
  <2>1. domain' = domain /\ dedup' = dedup
    BY <1>7 DEF Store
  <2>2. Mirrored(i)
    BY <1>1, <1>2, <1>7 DEF RelayInv, WindowIsStored
  <2>3. \A j : Mirrored(j) => Mirrored(j)'
    BY <2>1, MirroredStays
  <2>4. WindowIsStored'
    BY <1>1, <1>5, <2>1, <2>3 DEF RelayInv, WindowIsStored
  <2>5. DomainIsKnown'
    BY <1>5, <1>6, <2>1 DEF DomainIsKnown
  <2>6. NativesRise' /\ TipsLead'
    BY <1>1, <1>2, <1>3, <2>1 DEF NativesRise, TipsLead
  <2> QED BY <1>1, <1>3, <1>5, <2>1, <2>2, <2>3, <2>4, <2>5, <2>6
<1>8. CASE i \notin dedup
  <2>1. domain' = Append(domain, Message(i)) /\ dedup' = dedup \cup {i}
    BY <1>8 DEF Store
  <2>2. /\ domain' \in Seq(R) /\ domain'[at] = Message(i) /\ at \in DOMAIN domain'
        /\ \A k \in DOMAIN domain : k \in DOMAIN domain' /\ domain'[k] = domain[k]
        /\ \A k \in DOMAIN domain' : k \in DOMAIN domain \/ k = at
    <3> HIDE DEF R
    <3>1. domain' \in Seq(R) /\ Len(domain') = at /\ Len(domain) \in Nat
      BY <1>3, <1>4, <2>1
    <3>2. DOMAIN domain' = 1..at /\ DOMAIN domain = 1..Len(domain)
      BY <1>3, <3>1
    <3>3. domain'[at] = Message(i) /\ \A k \in 1..Len(domain) : domain'[k] = domain[k]
      BY <1>3, <1>4, <2>1
    <3> QED BY <3>1, <3>2, <3>3
  <2>3. \A j : Mirrored(j) => Mirrored(j)'
    BY <2>2, MirroredStays
  <2>4. Mirrored(i)'
    BY <1>5, <2>2 DEF Mirrored
  <2>5. WindowIsStored'
    BY <1>1, <1>5, <2>1, <2>3, <2>4 DEF RelayInv, WindowIsStored
  <2>6. \A k \in DOMAIN domain' : domain'[k].id \in Rows /\ domain'[k] = Message(domain'[k].id)
    BY <1>4, <1>6, <2>2
  <2>7. DomainIsKnown'
    <3>1. \A k \in DOMAIN domain' : \E j \in Rows' : j = domain'[k].id /\ domain'[k] = Message(j)'
      BY <1>5, <2>6
    <3> QED BY <3>1 DEF DomainIsKnown, Message
  <2>8. \A k \in DOMAIN domain' : domain'[k].id \in Nat /\ domain'[k].id <= MaxEvents
    BY <1>2, <2>6
  <2>9. NativesRise' /\ TipsLead'
    BY <1>1, <1>2, <2>8 DEF NativesRise, TipsLead
  <2>10. dedup' \subseteq Nat
    BY <1>2, <1>3, <2>1
  <2> QED BY <1>5, <2>2, <2>3, <2>4, <2>5, <2>7, <2>8, <2>9, <2>10
<1> QED BY <1>7, <1>8

\* A row was published, or its publish failed with or without being stored.
LEMMA PublishRowInv == ASSUME IInv, PublishRow PROVE IInv'
<1>1. /\ UNCHANGED <<events, unpublished, checkpoint, marker, expiries, lost, mode, stopping, crashes>>
      /\ pc = "publish" /\ NextRow /\ TypeOK /\ RelayInv /\ LogInv
  BY DEF PublishRow, sqlite, nats, process, IInv
<1>2. PICK r \in Rows : r = Row
  BY <1>1, NextRowLeaves
<1>3. /\ events[r].encodes /\ Store(r) /\ contiguous' = contiguous
      /\ published' = published \cup {r} /\ frontier' = IF contiguous THEN r ELSE frontier
  BY <1>2 DEF PublishRow, nats
<1>4. /\ r \in todo /\ r \in Nat /\ ~marker /\ mode # "down"
      /\ todo' \subseteq Rows /\ pc' \in {"publish", "mark"} /\ (pc' = "publish") = (todo' # {})
      /\ contiguous => \A i \in unpublished : i = r \/ i \in published \/ i \in todo' \/ \A j \in todo' : j < i
      /\ contiguous => \A i \in unpublished : i <= r => i = r \/ i \in published
      /\ CheckpointIsFrontier'
  BY <1>1, <1>2, NextRowLeaves
<1>5. /\ domain' \in Seq([id : Nat, stream : Streams, version : Nat]) /\ dedup' \subseteq Nat
      /\ \A j : Mirrored(j) => Mirrored(j)'
      /\ Mirrored(r)'
      /\ WindowIsStored'
      /\ RowsRise' /\ DomainIsKnown' /\ NativesRise' /\ TipsLead'
      /\ \A k \in DOMAIN domain' : domain'[k].id <= MaxEvents
  BY <1>1, <1>2, <1>3, StoreMirrors
<1>6. TypeOK'
  <2>1. published' \subseteq Rows /\ frontier' \in {0} \cup Rows
    BY <1>1, <1>2, <1>3 DEF TypeOK
  <2> QED BY <1>1, <1>3, <1>4, <1>5, <2>1 DEF TypeOK, Rows
<1>7. LogInv'
  BY <1>1, <1>4, <1>5 DEF LogInv, MarkerIsFinal
<1>8. RelayInv'
  <2>1. DownIsIdle' /\ IdleIsClear'
    BY <1>1, <1>4 DEF DownIsIdle, IdleIsClear
  <2>2. PassIsStored'
    BY <1>1, <1>3, <1>5 DEF RelayInv, PassIsStored
  <2>3. PassIsContiguous'
    BY <1>1, <1>3, <1>4 DEF PassIsContiguous
  <2>4. FrontierIsFirm'
    BY <1>1, <1>3, <1>4 DEF RelayInv, FrontierIsFirm
  <2>5. MarkedIsMirrored'
    BY <1>1, <1>5 DEF RelayInv, MarkedIsMirrored, Rows
  <2> QED BY <1>4, <1>5, <2>1, <2>2, <2>3, <2>4, <2>5 DEF RelayInv
<1> QED BY <1>6, <1>7, <1>8 DEF IInv

\* A failed publish may have been stored, and is not marked.
LEMMA PublishFailsInv == ASSUME IInv, PublishFails PROVE IInv'
<1>1. /\ UNCHANGED <<events, unpublished, checkpoint, marker, expiries, lost, mode, stopping, crashes>>
      /\ pc = "publish" /\ NextRow /\ TypeOK /\ RelayInv /\ LogInv
  BY DEF PublishFails, sqlite, nats, process, IInv
<1>2. PICK r \in Rows : r = Row
  BY <1>1, NextRowLeaves
<1>3. /\ contiguous' = FALSE /\ UNCHANGED <<published, frontier>>
      /\ events[r].encodes /\ (Store(r) \/ UNCHANGED <<domain, dedup>>)
  BY <1>2 DEF PublishFails, nats
<1>4. /\ r \in todo /\ r \in Nat /\ ~marker /\ mode # "down"
      /\ todo' \subseteq Rows /\ pc' \in {"publish", "mark"} /\ (pc' = "publish") = (todo' # {})
      /\ contiguous => \A i \in unpublished : i = r \/ i \in published \/ i \in todo' \/ \A j \in todo' : j < i
      /\ contiguous => \A i \in unpublished : i <= r => i = r \/ i \in published
      /\ CheckpointIsFrontier'
  BY <1>1, <1>2, NextRowLeaves
<1>5. /\ domain' \in Seq([id : Nat, stream : Streams, version : Nat]) /\ dedup' \subseteq Nat
      /\ \A j : Mirrored(j) => Mirrored(j)'
      /\ WindowIsStored'
      /\ LogInv'
  <2>1. CASE Store(r)
    <3>1. /\ domain' \in Seq([id : Nat, stream : Streams, version : Nat]) /\ dedup' \subseteq Nat
          /\ \A j : Mirrored(j) => Mirrored(j)'
          /\ WindowIsStored'
          /\ RowsRise' /\ DomainIsKnown' /\ NativesRise' /\ TipsLead'
          /\ \A k \in DOMAIN domain' : domain'[k].id <= MaxEvents
      BY <1>1, <1>2, <1>3, <2>1, StoreMirrors
    <3>2. MarkerIsFinal'
      BY <1>1, <1>4, <3>1 DEF LogInv, MarkerIsFinal
    <3> QED BY <3>1, <3>2 DEF LogInv
  <2>2. CASE UNCHANGED <<domain, dedup>>
    <3>1. LogInv'
      BY <1>1, <1>4, <2>2, LogStays
    <3>2. \A j : Mirrored(j) => Mirrored(j)'
      BY <1>1, <2>2, MirroredStays
    <3>3. WindowIsStored'
      BY <1>1, <2>2, <3>2 DEF RelayInv, WindowIsStored, Rows
    <3> QED BY <1>1, <2>2, <3>1, <3>2, <3>3 DEF TypeOK
  <2> QED BY <1>3, <2>1, <2>2
<1>6. TypeOK'
  BY <1>1, <1>3, <1>4, <1>5 DEF TypeOK, Rows
<1>7. RelayInv'
  <2>1. DownIsIdle' /\ IdleIsClear'
    BY <1>1, <1>4 DEF DownIsIdle, IdleIsClear
  <2>2. PassIsStored'
    BY <1>1, <1>3, <1>5 DEF RelayInv, PassIsStored
  <2>3. PassIsContiguous' /\ FrontierIsFirm'
    BY <1>1, <1>3, <1>4 DEF RelayInv, PassIsContiguous, FrontierIsFirm
  <2>4. MarkedIsMirrored'
    BY <1>1, <1>5 DEF RelayInv, MarkedIsMirrored, Rows
  <2> QED BY <1>4, <1>5, <2>1, <2>2, <2>3, <2>4 DEF RelayInv
<1> QED BY <1>5, <1>6, <1>7 DEF IInv

\* A row that cannot be encoded is dropped: marked, never stored.
LEMMA DropRowInv == ASSUME IInv, DropRow PROVE IInv'
<1>1. /\ UNCHANGED <<events, unpublished, checkpoint, marker, expiries, lost, mode, stopping, crashes>>
      /\ pc = "publish" /\ NextRow /\ TypeOK /\ RelayInv /\ LogInv
  BY DEF DropRow, sqlite, nats, process, IInv
<1>2. PICK r \in Rows : r = Row
  BY <1>1, NextRowLeaves
<1>3. /\ ~events[r].encodes /\ contiguous' = FALSE
      /\ UNCHANGED <<domain, dedup, frontier>> /\ published' = published \cup {r}
  BY <1>2 DEF DropRow, nats
<1>4. /\ r \in todo /\ r \in Nat /\ ~marker /\ mode # "down"
      /\ todo' \subseteq Rows /\ pc' \in {"publish", "mark"} /\ (pc' = "publish") = (todo' # {})
      /\ contiguous => \A i \in unpublished : i = r \/ i \in published \/ i \in todo' \/ \A j \in todo' : j < i
      /\ contiguous => \A i \in unpublished : i <= r => i = r \/ i \in published
      /\ CheckpointIsFrontier'
  BY <1>1, <1>2, NextRowLeaves
<1>5. \A j : Mirrored(j) => Mirrored(j)'
  BY <1>1, <1>3, MirroredStays
<1>6. LogInv'
  BY <1>1, <1>3, <1>4, LogStays
<1>7. TypeOK'
  <2>1. published' \subseteq Rows
    BY <1>1, <1>2, <1>3 DEF TypeOK
  <2> QED BY <1>1, <1>3, <1>4, <2>1 DEF TypeOK, Rows
<1>8. RelayInv'
  <2>1. DownIsIdle' /\ IdleIsClear'
    BY <1>1, <1>4 DEF DownIsIdle, IdleIsClear
  <2>2. PassIsStored'
    BY <1>1, <1>3, <1>5 DEF RelayInv, PassIsStored
  <2>3. PassIsContiguous' /\ FrontierIsFirm'
    BY <1>1, <1>3, <1>4 DEF RelayInv, PassIsContiguous, FrontierIsFirm
  <2>4. MarkedIsMirrored' /\ WindowIsStored'
    BY <1>1, <1>3, <1>5 DEF RelayInv, MarkedIsMirrored, WindowIsStored, Rows
  <2> QED BY <1>4, <2>1, <2>2, <2>3, <2>4 DEF RelayInv
<1> QED BY <1>6, <1>7, <1>8 DEF IInv

\* The pass stops early.
LEMMA BreakInv == ASSUME IInv, Break PROVE IInv'
<1>1. /\ UNCHANGED <<events, unpublished, checkpoint, marker, domain, dedup, expiries, lost, mode, stopping, crashes,
                     published, frontier, contiguous>>
      /\ pc = "publish" /\ pc' = "mark" /\ todo' = {} /\ TypeOK /\ RelayInv /\ LogInv
  BY DEF Break, sqlite, nats, process, IInv
<1>2. ~marker /\ mode # "down"
  BY <1>1 DEF LogInv, MarkerIsFinal, RelayInv, DownIsIdle
<1>3. LogInv'
  BY <1>1, <1>2, LogStays
<1>4. TypeOK'
  BY <1>1 DEF TypeOK, Rows
<1>5. WindowIsStored' /\ PassIsStored' /\ MarkedIsMirrored'
  BY <1>1, MirrorStays
<1>6. DownIsIdle' /\ IdleIsClear' /\ PassIsContiguous' /\ FrontierIsFirm' /\ CheckpointIsFrontier'
  BY <1>1, <1>2 DEF RelayInv, DownIsIdle, IdleIsClear, PassIsContiguous, FrontierIsFirm, CheckpointIsFrontier
<1> QED BY <1>3, <1>4, <1>5, <1>6 DEF IInv, RelayInv

\* The outbox lets go of what the pass collected.
LEMMA MarkInv == ASSUME IInv, Mark PROVE IInv'
<1>1. /\ UNCHANGED <<events, checkpoint, marker, domain, dedup, expiries, lost, mode, stopping, crashes>>
      /\ pc = "mark" /\ unpublished' = unpublished \ published /\ EndOfMark /\ TypeOK /\ RelayInv /\ LogInv
  BY DEF Mark, nats, process, IInv
<1>2. ~marker /\ mode # "down"
  BY <1>1 DEF LogInv, MarkerIsFinal, RelayInv, DownIsIdle
<1>3. \A i \in unpublished' : i \in unpublished /\ i > checkpoint'
  BY <1>1 DEF RelayInv, CheckpointIsFrontier
<1>4. CASE frontier > 0
  <2>1. pc' = "save" /\ UNCHANGED <<todo, published, frontier, contiguous>>
    BY <1>1, <1>4 DEF EndOfMark
  <2>2. LogInv'
    BY <1>1, <1>2, <2>1, LogStays
  <2>3. TypeOK'
    BY <1>1, <2>1 DEF TypeOK, Rows
  <2>4. WindowIsStored' /\ PassIsStored' /\ MarkedIsMirrored'
    BY <1>1, <2>1, MirrorStays
  <2>5. FrontierIsFirm'
    <3>1. \A i \in unpublished : i \in Nat /\ frontier \in Nat
      BY <1>1, RowTypes DEF TypeOK
    <3>2. \A i \in unpublished' : ~(i <= frontier)
      BY <1>1, <1>3 DEF RelayInv, FrontierIsFirm
    <3> QED BY <1>3, <2>1, <3>1, <3>2 DEF FrontierIsFirm
  <2>6. DownIsIdle' /\ IdleIsClear' /\ PassIsContiguous' /\ CheckpointIsFrontier'
    BY <1>1, <1>2, <1>3, <2>1 DEF RelayInv, DownIsIdle, IdleIsClear, PassIsContiguous, CheckpointIsFrontier
  <2> QED BY <2>2, <2>3, <2>4, <2>5, <2>6 DEF IInv, RelayInv
<1>5. CASE ~(frontier > 0)
  <2>1. IdleRelay
    BY <1>1, <1>5 DEF EndOfMark
  <2>2. RelayInv' /\ LogInv'
    BY <1>1, <1>3, <2>1, PassEnds
  <2>3. TypeOK'
    BY <1>1, <2>1 DEF TypeOK, IdleRelay, Rows
  <2> QED BY <2>2, <2>3 DEF IInv
<1> QED BY <1>4, <1>5

\* A pass that ends without its mark or its checkpoint, or with the process.
LEMMA IdleInv ==
  ASSUME IInv, IdleRelay, UNCHANGED <<sqlite, nats>>, mode' \in {mode, "down"},
         stopping' \in BOOLEAN, crashes' \in 0..MaxCrashes
  PROVE  IInv'
<1>1. UNCHANGED <<events, unpublished, checkpoint, marker, domain, dedup, expiries, lost>>
  BY DEF sqlite, nats
<1>2. RelayInv' /\ LogInv'
  BY <1>1, PassEnds DEF IInv, RelayInv, CheckpointIsFrontier
<1>3. TypeOK'
  BY <1>1 DEF IInv, TypeOK, IdleRelay, Rows
<1> QED BY <1>2, <1>3 DEF IInv

LEMMA SaveCheckpointInv == ASSUME IInv, SaveCheckpoint PROVE IInv'
<1>1. /\ UNCHANGED <<events, unpublished, marker, domain, dedup, expiries, lost, mode, stopping, crashes>>
      /\ pc = "save" /\ checkpoint' = frontier /\ IdleRelay /\ TypeOK /\ RelayInv
  BY DEF SaveCheckpoint, nats, process, IInv
<1>2. \A i \in unpublished' : i > checkpoint'
  <2>1. \A i \in unpublished : i \in Nat /\ frontier \in Nat /\ frontier < i
    BY <1>1, RowTypes DEF TypeOK, RelayInv, FrontierIsFirm
  <2> QED BY <1>1, <2>1
<1>3. RelayInv' /\ LogInv'
  BY <1>1, <1>2, PassEnds
<1>4. TypeOK'
  BY <1>1 DEF TypeOK, IdleRelay, Rows
<1> QED BY <1>3, <1>4 DEF IInv

LEMMA RelayStepInv == ASSUME IInv, RelayStep PROVE IInv'
<1>1. stopping \in BOOLEAN /\ crashes \in 0..MaxCrashes
  BY DEF IInv, TypeOK
<1>2. CASE MarkFails
  BY <1>1, <1>2, IdleInv DEF MarkFails, process
<1>3. CASE SaveCheckpointFails
  BY <1>1, <1>3, IdleInv DEF SaveCheckpointFails, process
<1> QED BY <1>2, <1>3, LoadInv, DropRowInv, PublishRowInv, PublishFailsInv, BreakInv, MarkInv,
           SaveCheckpointInv DEF RelayStep

-----------------------------------------------------------------------------
(* Boot and the end of the process.                                        *)

\* The gate's tips are above everything their streams have.
LEMMA GateMatchesTips ==
  ASSUME IInv, ~marker, TipsMatch, NEW s
  PROVE  /\ s \in Streams => (RowsOf(s) # {} => ScopeOf(s) # {})
         /\ s \in Streams => \A k : IsTip(s, k) =>
              /\ \A i \in RowsOf(s) : events[i].version <= domain[k].version
              /\ \A l \in ScopeOf(s) : domain[l].version <= domain[k].version
<1> SUFFICES ASSUME s \in Streams
             PROVE  /\ RowsOf(s) # {} => ScopeOf(s) # {}
                    /\ \A k : IsTip(s, k) =>
                         /\ \A i \in RowsOf(s) : events[i].version <= domain[k].version
                         /\ \A l \in ScopeOf(s) : domain[l].version <= domain[k].version
  OBVIOUS
<1>1. TypeOK /\ RowsRise /\ DomainIsKnown /\ \A k \in DOMAIN domain : domain[k].id <= MaxEvents
  BY DEF IInv, LogInv, MarkerIsFinal
<1>2. /\ TableVersion(s) \in Nat
      /\ \A i \in RowsOf(s) : events[i].version <= TableVersion(s) /\ events[i].version > 0
  BY <1>1, TableVersionIsMax, RowTypes
<1>3. ASSUME NEW l \in ScopeOf(s)
      PROVE  \E i \in RowsOf(s) : domain[l].version = events[i].version
  <2>1. l \in DOMAIN domain /\ l \in Nat /\ l > 0 /\ domain[l].id \in Nat /\ domain[l].stream = s
    BY <1>1, <1>3, MessageTypes DEF ScopeOf
  <2>2. domain[l].id \in Rows /\ domain[l] = Message(domain[l].id)
    BY <1>1, <2>1, BoundsAssumption DEF DomainIsKnown
  <2> QED BY <2>1, <2>2 DEF Message, RowsOf
<1>4. ASSUME RowsOf(s) # {}
      PROVE  /\ ScopeOf(s) # {}
             /\ domain[ScopeTip(s)].version = TableVersion(s)
  <2>1. TableVersion(s) > 0
    <3>1. PICK i \in RowsOf(s) : TRUE
      BY <1>4
    <3>2. events[i].version \in Nat
      BY <1>1, RowTypes DEF RowsOf
    <3> QED BY <1>2, <3>1, <3>2
  <2>2. PICK i \in Rows : events[i].version = TableVersion(s) /\ domain[ScopeTip(s)] = Message(i)
    BY <2>1 DEF TipsMatch
  <2>3. ScopeOf(s) # {}
    BY <2>1 DEF TipsMatch
  <2> QED BY <2>2, <2>3 DEF Message
<1>5. ASSUME NEW k, IsTip(s, k)
      PROVE  k = ScopeTip(s) /\ RowsOf(s) # {}
  <2>1. k \in ScopeOf(s) /\ IsTip(s, ScopeTip(s))
    BY <1>1, <1>5, TipIsLast DEF IsTip
  <2>2. k \in Nat /\ ScopeTip(s) \in Nat
    BY <1>1, <2>1, MessageTypes DEF IsTip, ScopeOf
  <2>3. k <= ScopeTip(s) /\ ScopeTip(s) <= k
    BY <1>5, <2>1 DEF IsTip
  <2> QED BY <1>3, <2>1, <2>2, <2>3
<1> QED BY <1>2, <1>3, <1>4, <1>5

\* A boot starts no pass of its own.
LEMMA BootStays ==
  ASSUME IInv, UNCHANGED <<sqlite, nats, relay, stopping, crashes>>, mode = "down", mode' \in {"sqlite", "jetstream"},
         MarkerIsFinal'
  PROVE  IInv'
<1>1. UNCHANGED <<events, unpublished, checkpoint, marker, domain, dedup, expiries, lost, pc, todo, published,
                  frontier, contiguous, stopping, crashes>>
  BY DEF sqlite, nats, relay
<1>2. TypeOK'
  BY <1>1 DEF IInv, TypeOK, Rows
<1>3. RowsRise' /\ DomainIsKnown' /\ NativesRise' /\ TipsLead'
  BY <1>1 DEF IInv, LogInv, RowsRise, DomainIsKnown, NativesRise, TipsLead, IsTip, RowsOf, ScopeOf, Rows, Message
<1>4. RelayInv'
  BY <1>1, MirroredStays DEF IInv, RelayInv, DownIsIdle, IdleIsClear, WindowIsStored, PassIsStored,
     PassIsContiguous, FrontierIsFirm, MarkedIsMirrored, CheckpointIsFrontier, Rows
<1> QED BY <1>2, <1>3, <1>4 DEF IInv, LogInv

LEMMA BootSQLiteInv == ASSUME IInv, BootSQLite PROVE IInv'
<1>1. MarkerIsFinal'
  BY DEF BootSQLite, IInv, LogInv, MarkerIsFinal, sqlite, nats, relay
<1> QED BY <1>1, BootStays DEF BootSQLite

LEMMA BootJetStreamAgainInv == ASSUME IInv, BootJetStreamAgain PROVE IInv'
<1>1. MarkerIsFinal'
  <2>1. Len(events) \in Nat /\ Len(domain) \in Nat
    BY RowTypes, MessageTypes, BoundsAssumption DEF IInv
  <2> QED BY <2>1 DEF BootJetStreamAgain, IInv, LogInv, MarkerIsFinal, sqlite, nats, relay
<1> QED BY <1>1, BootStays DEF BootJetStreamAgain

\* The flip: the gate compared both logs.
LEMMA BootJetStreamFirstInv == ASSUME IInv, BootJetStreamFirst PROVE IInv'
<1>1. /\ UNCHANGED <<events, unpublished, checkpoint, domain, dedup, expiries, lost, pc, todo, published,
                     frontier, contiguous, stopping, crashes>>
      /\ mode = "down" /\ mode' = "jetstream" /\ ~marker /\ marker' = TRUE
      /\ unpublished = {} /\ Len(domain) = Len(events) /\ TipsMatch
  BY DEF BootJetStreamFirst, Parity, nats, relay
<1>2. TypeOK'
  BY <1>1 DEF IInv, TypeOK, Rows
<1>3. RowsRise' /\ DomainIsKnown' /\ NativesRise'
  BY <1>1 DEF IInv, LogInv, RowsRise, DomainIsKnown, NativesRise, RowsOf, ScopeOf, Rows, Message
<1>4. TipsLead'
  BY <1>1, GateMatchesTips DEF TipsLead, IsTip, RowsOf, ScopeOf, Rows
<1>5. MarkerIsFinal'
  <2>1. Len(events) \in Nat /\ Len(domain) \in Nat
    BY RowTypes, MessageTypes, BoundsAssumption DEF IInv
  <2> QED BY <1>1, <2>1 DEF IInv, RelayInv, DownIsIdle, MarkerIsFinal
<1>6. RelayInv'
  BY <1>1, MirroredStays DEF IInv, RelayInv, DownIsIdle, IdleIsClear, WindowIsStored, PassIsStored,
     PassIsContiguous, FrontierIsFirm, MarkedIsMirrored, CheckpointIsFrontier, Rows
<1> QED BY <1>2, <1>3, <1>4, <1>5, <1>6 DEF IInv, LogInv

\* A termination request moves nothing else.
LEMMA ShutdownInv == ASSUME IInv, Shutdown PROVE IInv'
<1>1. /\ UNCHANGED <<events, unpublished, checkpoint, marker, domain, dedup, expiries, lost, pc, todo, published,
                     frontier, contiguous, mode>>
      /\ crashes' = crashes + 1 /\ crashes < MaxCrashes /\ stopping' = TRUE
  BY DEF Shutdown, sqlite, nats, relay
<1>2. TypeOK'
  BY <1>1, BoundsAssumption DEF IInv, TypeOK, Rows
<1>3. LogInv'
  BY <1>1, LogStays DEF IInv, LogInv, MarkerIsFinal
<1>4. RelayInv'
  BY <1>1, MirroredStays DEF IInv, RelayInv, DownIsIdle, IdleIsClear, WindowIsStored, PassIsStored,
     PassIsContiguous, FrontierIsFirm, MarkedIsMirrored, CheckpointIsFrontier, Rows
<1> QED BY <1>2, <1>3, <1>4 DEF IInv

\* The process ends, by termination or by a crash, wherever the pass was.
LEMMA ExitInv == ASSUME IInv, Exit PROVE IInv'
BY IdleInv DEF Exit, IInv, TypeOK

LEMMA CrashInv == ASSUME IInv, Crash PROVE IInv'
<1>1. crashes' \in 0..MaxCrashes /\ stopping' \in BOOLEAN
  BY BoundsAssumption DEF Crash, IInv, TypeOK
<1> QED BY <1>1, IdleInv DEF Crash

\* A duplicate window closes.
LEMMA ExpireInv == ASSUME IInv, Expire PROVE IInv'
<1>1. /\ UNCHANGED <<events, unpublished, checkpoint, marker, domain, lost, pc, todo, published,
                     frontier, contiguous, mode, stopping, crashes>>
      /\ dedup' \subseteq dedup /\ expiries' = expiries + 1 /\ expiries < MaxExpiries
  BY DEF Expire, sqlite, relay, process
<1>2. TypeOK'
  BY <1>1, BoundsAssumption DEF IInv, TypeOK, Rows
<1>3. LogInv'
  BY <1>1, LogStays DEF IInv, LogInv, MarkerIsFinal
<1>4. WindowIsStored' /\ PassIsStored' /\ MarkedIsMirrored'
  BY <1>1, MirrorStays DEF IInv
<1>5. DownIsIdle' /\ IdleIsClear' /\ PassIsContiguous' /\ FrontierIsFirm' /\ CheckpointIsFrontier'
  BY <1>1 DEF IInv, RelayInv, DownIsIdle, IdleIsClear, PassIsContiguous, FrontierIsFirm, CheckpointIsFrontier
<1> QED BY <1>2, <1>3, <1>4, <1>5 DEF IInv, RelayInv

\* The nats/ directory is lost: nothing is mirrored, and nothing is in a window.
LEMMA LoseStoreInv == ASSUME IInv, LoseStore PROVE IInv'
<1>1. /\ UNCHANGED <<events, unpublished, checkpoint, marker, expiries, pc, todo, published,
                     frontier, contiguous, mode, stopping, crashes>>
      /\ mode = "down" /\ domain' = << >> /\ dedup' = {} /\ lost' = TRUE
  BY DEF LoseStore, sqlite, relay, process
<1>2. pc = "idle" /\ published = {}
  BY <1>1 DEF IInv, RelayInv, DownIsIdle, IdleIsClear
<1>3. TypeOK'
  BY <1>1 DEF IInv, TypeOK, Rows
<1>4. Len(domain') = 0 /\ DOMAIN domain' = {} /\ Len(events) \in Nat /\ Rows = 1..Len(events)
  BY <1>1, RowTypes, BoundsAssumption DEF IInv
<1>5. RowsRise' /\ DomainIsKnown' /\ NativesRise'
  BY <1>1, <1>4 DEF IInv, LogInv, RowsRise, DomainIsKnown, NativesRise, Rows
<1>6. TipsLead'
  <2>1. Len(events)' <= Len(domain)' => \A s : RowsOf(s)' = {}
    BY <1>1, <1>4 DEF RowsOf, Rows
  <2> QED BY <1>4, <2>1 DEF TipsLead
<1>7. MarkerIsFinal'
  BY <1>1, <1>4 DEF IInv, LogInv, MarkerIsFinal
<1>8. RelayInv'
  BY <1>1, <1>2 DEF IInv, RelayInv, DownIsIdle, IdleIsClear, WindowIsStored, PassIsStored,
     PassIsContiguous, FrontierIsFirm, MarkedIsMirrored, CheckpointIsFrontier
<1> QED BY <1>3, <1>5, <1>6, <1>7, <1>8 DEF IInv, LogInv

-----------------------------------------------------------------------------
(* The theorems.                                                           *)

LEMMA InitInv == ASSUME Init PROVE IInv
<1>1. Rows = {} /\ Len(events) = 0 /\ DOMAIN domain = {} /\ Len(domain) = 0
  BY DEF Init, Rows
<1>2. TypeOK
  <2>1. events \in Seq(EventRow) /\ domain \in Seq([id : Nat, stream : Streams, version : Nat])
    BY DEF Init
  <2>2. Len(events) <= MaxEvents /\ crashes \in 0..MaxCrashes /\ expiries \in 0..MaxExpiries
    BY <1>1, BoundsAssumption DEF Init
  <2>3. /\ unpublished = {} /\ published = {} /\ dedup = {} /\ todo = {} /\ pc = "idle" /\ mode = "down"
        /\ checkpoint = 0 /\ frontier = 0 /\ marker = FALSE /\ contiguous = TRUE /\ lost = FALSE /\ stopping = FALSE
    BY DEF Init
  <2> QED BY <2>1, <2>2, <2>3 DEF TypeOK
<1>3. RelayInv
  BY <1>1 DEF Init, RelayInv, DownIsIdle, IdleIsClear, WindowIsStored, PassIsStored,
     PassIsContiguous, FrontierIsFirm, MarkedIsMirrored, CheckpointIsFrontier
<1>4. LogInv
  BY <1>1 DEF Init, LogInv, RowsRise, DomainIsKnown, MarkerIsFinal, NativesRise, TipsLead
<1> QED BY <1>2, <1>3, <1>4 DEF IInv

LEMMA NextInv == ASSUME IInv, [Next]_vars PROVE IInv'
<1>1. CASE UNCHANGED vars
  <2>1. UNCHANGED <<events, unpublished, checkpoint, marker, domain, dedup, expiries, lost, pc, todo, published,
                    frontier, contiguous, mode, stopping, crashes>>
    BY <1>1 DEF vars, sqlite, nats, relay, process
  <2>2. TypeOK'
    BY <2>1 DEF IInv, TypeOK, Rows
  <2>3. LogInv'
    BY <2>1, LogStays DEF IInv, LogInv, MarkerIsFinal
  <2>4. RelayInv'
    BY <2>1, MirroredStays DEF IInv, RelayInv, DownIsIdle, IdleIsClear, WindowIsStored, PassIsStored,
       PassIsContiguous, FrontierIsFirm, MarkedIsMirrored, CheckpointIsFrontier, Rows
  <2> QED BY <2>2, <2>3, <2>4 DEF IInv
<1> QED BY <1>1, AppendSQLiteInv, AppendNativeInv, RelayStepInv, BootSQLiteInv, BootJetStreamFirstInv,
           BootJetStreamAgainInv, ShutdownInv, ExitInv, CrashInv, ExpireInv, LoseStoreInv DEF Next, Boot

LEMMA Invariance == Spec => []IInv
<1>1. Init => IInv
  BY InitInv
<1>2. IInv /\ [Next]_vars => IInv'
  BY NextInv
<1> QED BY <1>1, <1>2, PTL DEF Spec

\* Two messages of the history that share a version are one event.
LEMMA OneHistory == ASSUME IInv PROVE NoFork
<1> DEFINE history == Range(domain) \cup {Message(i) : i \in Rows}
           Native(m) == \E k \in DOMAIN domain : m = domain[k] /\ m.id > MaxEvents
           OfRow(m)  == \E i \in Rows : m = Message(i)
<1>1. TypeOK /\ RowsRise /\ DomainIsKnown /\ NativesRise
  BY DEF IInv, LogInv
<1>2. /\ MaxEvents \in Nat /\ Rows \subseteq Nat /\ DOMAIN domain \subseteq Nat
      /\ \A i \in Rows : events[i].version \in Nat
      /\ \A k \in DOMAIN domain : k > 0 /\ domain[k].version \in Nat
  BY <1>1, RowTypes, MessageTypes, BoundsAssumption
<1>3. \A m \in history : OfRow(m) \/ Native(m)
  <2> SUFFICES ASSUME NEW m \in history, ~OfRow(m)
               PROVE  Native(m)
    OBVIOUS
  <2>1. PICK k \in DOMAIN domain : m = domain[k]
    BY DEF Range
  <2>2. domain[k].id = MaxEvents + k
    BY <1>1, <2>1 DEF DomainIsKnown
  <2> QED BY <1>2, <2>1, <2>2
<1>4. ASSUME NEW m, NEW n, OfRow(m), OfRow(n), m.stream = n.stream, m.version = n.version
      PROVE  m.id = n.id
  <2>1. PICK i \in Rows : m = Message(i)
    BY <1>4
  <2>2. PICK j \in Rows : n = Message(j)
    BY <1>4
  <2>3. events[i].stream = events[j].stream /\ events[i].version = events[j].version
    BY <1>4, <2>1, <2>2 DEF Message
  <2>4. ~(i < j) /\ ~(j < i)
    BY <1>1, <1>2, <2>3 DEF RowsRise
  <2>5. i = j
    BY <1>2, <2>4
  <2> QED BY <2>1, <2>2, <2>5
<1>5. ASSUME NEW m, NEW n, OfRow(m), Native(n), m.stream = n.stream
      PROVE  m.version # n.version
  <2>1. PICK i \in Rows : m = Message(i)
    BY <1>5
  <2>2. PICK k \in DOMAIN domain : n = domain[k] /\ n.id > MaxEvents
    BY <1>5
  <2>3. i \in RowsOf(domain[k].stream) /\ m.version = events[i].version
    BY <1>5, <2>1, <2>2 DEF RowsOf, Message
  <2>4. events[i].version < domain[k].version
    BY <1>1, <2>2, <2>3 DEF NativesRise
  <2> QED BY <1>2, <2>2, <2>3, <2>4
<1>6. ASSUME NEW m, NEW n, Native(m), Native(n), m.stream = n.stream, m.version = n.version
      PROVE  m.id = n.id
  <2>1. PICK k \in DOMAIN domain : m = domain[k] /\ m.id > MaxEvents
    BY <1>6
  <2>2. PICK l \in DOMAIN domain : n = domain[l] /\ n.id > MaxEvents
    BY <1>6
  <2>3. l \in ScopeOf(domain[k].stream) /\ k \in ScopeOf(domain[l].stream)
    BY <1>6, <2>1, <2>2 DEF ScopeOf
  <2>4. (l < k => domain[l].version < domain[k].version) /\ (k < l => domain[k].version < domain[l].version)
    BY <1>1, <2>1, <2>2, <2>3 DEF NativesRise
  <2>5. k = l
    BY <1>2, <1>6, <2>1, <2>2, <2>4
  <2> QED BY <2>1, <2>2, <2>5
<1> HIDE DEF Native, OfRow
<1> QED BY <1>3, <1>4, <1>5, <1>6 DEF NoFork

\* Whatever pass failed, was cut off or met a closed duplicate window: a row
\* that has left the outbox is in DOMAIN_EVENTS if it can be encoded, and no
\* row at or below the checkpoint waits (RelayOnce, MarkPublished).
THEOREM MirrorSound == Spec => []MirrorIsSound
<1>1. IInv => MirrorIsSound
  BY DEF IInv, RelayInv, MirrorIsSound
<1> QED BY <1>1, Invariance, PTL

\* The flip forks no history and serves none with a gap: no aggregate version
\* is written twice, and a process on DOMAIN_EVENTS has every row there
\* (CheckJetStreamParity, the marker, the boot's refusals).
THEOREM FlipSound == Spec => []FlipIsSound
<1>1. IInv => FlipIsComplete
  BY DEF IInv, RelayInv, LogInv, MarkedIsMirrored, MarkerIsFinal, FlipIsComplete
<1>2. IInv => FlipIsSound
  BY <1>1, OneHistory DEF FlipIsSound
<1> QED BY <1>2, Invariance, PTL

=============================================================================
