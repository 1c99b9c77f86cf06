--------------------------- MODULE WorkerPoolProofs ---------------------------
(***************************************************************************)
(* The safety of WorkerPool for any messages, providers, slots, delivery   *)
(* limit and number of faults.                                             *)
(*                                                                         *)
(* NoSendAfterClose and ClosedIsEmpty are about the last step of a chain   *)
(* (refuse, announce, await, reject, close); the invariant says what each  *)
(* step of it has already secured: once somebody runs drainOnce nobody is  *)
(* accepted (Refused), and past dispatching.Wait nobody sends (Awaited),   *)
(* because the counter counts the callback in its select (Counted).        *)
(* HeartbeatsHaveHolders becomes inductive when it says where the holder   *)
(* stands: a goroutine that has not begun its fetch guards nothing.        *)
(***************************************************************************)
EXTENDS WorkerPool, FiniteSetTheorems, SequenceTheorems, TLAPS

\* A message that can be delivered has a delivery left.
ReadyIsDeliverable ==
    \A m \in Messages : server[m].state = "ready" => server[m].delivered < MaxDeliver

\* w.dispatching counts the callback in its select.
Counted == pending = IF callback.pc = "select" THEN 1 ELSE 0

\* What each call of drainOnce's function has secured.
Begun   == closer.by = "none" => closer.pc = "idle"
Refused == closer.pc # "idle" => ~accepting
Awaited == closer.pc \in {"reject", "done"} => callback.pc # "select"
Emptied == closer.pc = "done" => channel = <<>>
Closed  == workClosed => closer.pc = "done"

\* Where the holder of a beating copy stands.
Guarded(c) ==
    \/ callback.pc # "idle" /\ callback.copy = c
    \/ Contains(channel, c)
    \/ \E g \in Goroutines : goroutine[g].pc = "fetch" /\ goroutine[g].copy = c
BeatingGuarded == \A c \in beating : Guarded(c)

\* The type invariant, by the parts that change together.
ServerStates == [state : {"ready", "pending", "acked", "spent"}, delivered : 0..MaxDeliver]
BrokerOK ==
    /\ poison \in Poisons /\ faults \in 0..MaxFaults /\ lapses \in 0..MaxLapses
    /\ server \in [Messages -> ServerStates] /\ ReadyIsDeliverable
QueuesOK ==
    /\ buffer \in Seq(AllCopies) /\ channel \in Seq(AllCopies) /\ Len(channel) <= Total
    /\ beating \subseteq AllCopies
\* Who works has a copy in hand.
CallbackOK ==
    /\ callback \in [pc : {"idle", "start", "select"}, copy : AllCopies \cup {Nothing}, sees : BOOLEAN]
    /\ callback.pc # "idle" => callback.copy \in AllCopies
GoroutinesOK ==
    /\ goroutine \in [Goroutines -> [pc : {"idle", "check", "fetch", "exited"},
                                     copy : AllCopies \cup {Nothing}]]
    /\ \A g \in Goroutines : goroutine[g].pc \in {"check", "fetch"} => goroutine[g].copy \in AllCopies
    /\ cancelled \subseteq Providers
FlagsOK ==
    /\ up \in BOOLEAN /\ ctxDone \in BOOLEAN /\ accepting \in BOOLEAN /\ mutex \in BOOLEAN
    /\ draining \in BOOLEAN /\ deadClosed \in BOOLEAN /\ workClosed \in BOOLEAN
ClosingOK ==
    /\ closer \in [by : {"none", "watcher", "stop"},
                   pc : {"idle", "announce", "await", "reject", "done"}]
    /\ watcher \in {"groups", "end"} /\ stopper \in {"off", "once", "wait", "returned"}
Types == BrokerOK /\ QueuesOK /\ CallbackOK /\ GoroutinesOK /\ FlagsOK /\ ClosingOK
Chain == Counted /\ Begun /\ Refused /\ Awaited /\ Emptied /\ Closed
IInv  == Types /\ Chain /\ BeatingGuarded

-----------------------------------------------------------------------------
(* The broker's part.                                                      *)

\* The number of goroutines, which is the channel's capacity, is a number.
LEMMA TotalType == Total \in Nat
<1>1. IsFiniteSet(1..Slots)
  BY FS_Interval, PoolAssumption
<1>2. IsFiniteSet(Goroutines)
  BY <1>1, FS_Product, PoolAssumption DEF Goroutines
<1> QED
  BY <1>2, FS_CardinalityType DEF Total

\* A pending delivery that is let go leaves a well-formed message.
LEMMA ReleasedType ==
    ASSUME NEW s \in ServerStates
    PROVE  /\ Released(s) \in ServerStates
           /\ s.state = "ready" => Released(s) = s
           /\ Released(s).state = "ready" /\ s.state # "ready" => Released(s).delivered < MaxDeliver
  BY BoundsAssumption DEF Released, ServerStates

\* Changing one message's state into a well-formed one keeps the broker's part.
LEMMA ServerStep ==
    ASSUME BrokerOK, NEW m, NEW s,
           m \in Messages => s \in ServerStates /\ (s.state = "ready" => s.delivered < MaxDeliver),
           server' = [server EXCEPT ![m] = s]
    PROVE  server' \in [Messages -> ServerStates] /\ ReadyIsDeliverable'
  BY DEF BrokerOK, ReadyIsDeliverable

\* The same for a delivery that is let go (NAK, ack deadline).
LEMMA ReleaseStep ==
    ASSUME BrokerOK, NEW m, server' = [server EXCEPT ![m] = Released(@)]
    PROVE  server' \in [Messages -> ServerStates] /\ ReadyIsDeliverable'
<1>1. m \in Messages => server[m] \in ServerStates
  BY DEF BrokerOK
<1>2. m \in Messages =>
         /\ Released(server[m]) \in ServerStates
         /\ Released(server[m]).state = "ready" => Released(server[m]).delivered < MaxDeliver
  BY <1>1, ReleasedType DEF BrokerOK, ReadyIsDeliverable
<1> QED
  BY <1>2, ServerStep

\* A fault is counted up to its bound.
LEMMA FaultType == ASSUME BrokerOK, Fault PROVE faults' \in 0..MaxFaults
  BY BoundsAssumption DEF BrokerOK, Fault

\* A copy handed back, or not, when the answer is lost.
LEMMA NakKeepsBroker == ASSUME BrokerOK, NEW c, Nak(c) PROVE BrokerOK'
<1>1. CASE server' = [server EXCEPT ![c[1]] = Released(@)] /\ UNCHANGED <<poison, lapses, faults>>
  BY <1>1, ReleaseStep DEF BrokerOK
<1>2. CASE Fault /\ UNCHANGED <<poison, lapses, server>>
  BY <1>2, FaultType DEF BrokerOK, ReadyIsDeliverable
<1> QED
  BY <1>1, <1>2 DEF Nak

\* A copy acknowledged, or not.
LEMMA AckKeepsBroker == ASSUME BrokerOK, NEW c, Ack(c) PROVE BrokerOK'
<1>1. CASE server' = [server EXCEPT ![c[1]].state = "acked"] /\ UNCHANGED <<poison, lapses, faults>>
  <2> DEFINE s == [server[c[1]] EXCEPT !.state = "acked"]
  <2>1. c[1] \in Messages => s \in ServerStates /\ (s.state = "ready" => s.delivered < MaxDeliver)
    BY DEF BrokerOK, ServerStates
  <2>2. server' = [server EXCEPT ![c[1]] = s]
    BY <1>1
  <2> HIDE DEF s
  <2> QED
    BY <1>1, <2>1, <2>2, ServerStep DEF BrokerOK
<1>2. CASE Fault /\ UNCHANGED <<poison, lapses, server>>
  BY <1>2, FaultType DEF BrokerOK, ReadyIsDeliverable
<1> QED
  BY <1>1, <1>2 DEF Ack

-----------------------------------------------------------------------------
(* The types: one lemma for each process.                                  *)

\* A copy taken from the front of a queue of copies, and the rest.
LEMMA FrontOf ==
    ASSUME NEW q \in Seq(AllCopies), q # << >>
    PROVE  Head(q) \in AllCopies /\ Tail(q) \in Seq(AllCopies) /\ Len(Tail(q)) = Len(q) - 1
  BY HeadTailProperties

\* Deliver and AckWaitExpires.
LEMMA BrokerTypes == ASSUME Types, Broker PROVE Types'
<1>1. ASSUME NEW m \in Messages, Deliver(m) PROVE Types'
  <2> DEFINE s == [state |-> "pending", delivered |-> server[m].delivered + 1]
  <2>1. server[m].delivered \in 0..MaxDeliver /\ server[m].delivered < MaxDeliver
    BY <1>1 DEF Types, BrokerOK, ServerStates, ReadyIsDeliverable, Deliver
  <2>2. server[m].delivered + 1 \in 1..MaxDeliver
    BY <2>1, BoundsAssumption
  <2>3. s \in ServerStates /\ s.state = "pending"
    BY <2>2 DEF ServerStates
  <2>4. server' = [server EXCEPT ![m] = s]
    BY <1>1 DEF Deliver
  <2>5. BrokerOK'
    <3> HIDE DEF s
    <3> QED BY <1>1, <2>3, <2>4, ServerStep DEF Types, BrokerOK, Deliver
  <2>6. <<m, server[m].delivered + 1>> \in AllCopies
    BY <2>2 DEF AllCopies
  <2>7. buffer' \in Seq(AllCopies)
    BY <1>1, <2>6, AppendProperties DEF Types, QueuesOK, Deliver
  <2> QED
    BY <1>1, <2>5, <2>7
    DEF Types, QueuesOK, CallbackOK, GoroutinesOK, FlagsOK, ClosingOK, Deliver, flags, closing
<1>2. ASSUME NEW m \in Messages, AckWaitExpires(m) PROVE Types'
  <2>1. lapses' \in 0..MaxLapses
    BY <1>2, BoundsAssumption DEF Types, BrokerOK, AckWaitExpires
  <2>2. BrokerOK'
    BY <1>2, <2>1, ReleaseStep DEF Types, BrokerOK, AckWaitExpires
  <2> QED
    BY <1>2, <2>2
    DEF Types, QueuesOK, CallbackOK, GoroutinesOK, FlagsOK, ClosingOK, AckWaitExpires, flags, closing
<1> QED
  BY <1>1, <1>2 DEF Broker

\* dispatchToChannel.
LEMMA CallbackTypes == ASSUME Types, Callback PROVE Types'
<1>1. CASE OnMessage
  <2>1. Head(buffer) \in AllCopies /\ Tail(buffer) \in Seq(AllCopies)
    BY <1>1, FrontOf DEF Types, QueuesOK, OnMessage
  <2>2. CASE Head(buffer)[1] \in poison
    <3>1. \/ Ack(Head(buffer)) \/ Nak(Head(buffer))
          \/ /\ Fault /\ server' = [server EXCEPT ![Head(buffer)[1]] = Released(@)]
             /\ UNCHANGED <<poison, lapses>>
      BY <1>1, <2>2 DEF OnMessage
    <3>2. BrokerOK'
      BY <3>1, AckKeepsBroker, NakKeepsBroker, ReleaseStep, FaultType DEF Types, BrokerOK
    <3> QED
      BY <1>1, <2>1, <2>2, <3>2
      DEF Types, QueuesOK, CallbackOK, GoroutinesOK, FlagsOK, ClosingOK, OnMessage, flags, closing
  <2>3. CASE Head(buffer)[1] \notin poison
    <3>1. /\ callback' = [pc |-> "start", copy |-> Head(buffer), sees |-> FALSE]
          /\ beating' = beating \cup {Head(buffer)} /\ UNCHANGED broker
      BY <1>1, <2>3 DEF OnMessage
    <3>2. BrokerOK' /\ CallbackOK'
      BY <2>1, <3>1 DEF Types, BrokerOK, CallbackOK, broker, ReadyIsDeliverable
    <3>3. QueuesOK'
      BY <1>1, <2>1, <3>1 DEF Types, QueuesOK, OnMessage
    <3> QED
      BY <1>1, <3>2, <3>3 DEF Types, GoroutinesOK, FlagsOK, ClosingOK, OnMessage, flags, closing
  <2> QED BY <2>2, <2>3
<1>2. CASE StartDispatch
  <2>1. BrokerOK'
    BY <1>2, NakKeepsBroker DEF Types, BrokerOK, ReadyIsDeliverable, broker, StartDispatch
  <2>2. CallbackOK'
    <3>1. CASE accepting
      <4>1. callback' = [pc |-> "select", copy |-> callback.copy, sees |-> up]
        BY <1>2, <3>1 DEF Types, CallbackOK, StartDispatch
      <4>2. callback.copy \in AllCopies /\ up \in BOOLEAN
        BY <1>2 DEF Types, CallbackOK, FlagsOK, StartDispatch
      <4> QED
        BY <4>1, <4>2 DEF CallbackOK
    <3>2. CASE ~accepting
      <4>1. callback' = [pc |-> "idle", copy |-> Nothing, sees |-> FALSE]
        BY <1>2, <3>2 DEF StartDispatch, Return
      <4> QED
        BY <4>1 DEF CallbackOK
    <3> QED
      BY <3>1, <3>2
  <2> QED
    BY <1>2, <2>1, <2>2 DEF Types, QueuesOK, GoroutinesOK, FlagsOK, ClosingOK, StartDispatch, flags, closing
<1>3. CASE Send
  <2>1. callback.copy \in AllCopies
    BY <1>3 DEF Types, CallbackOK, Send
  <2>2. channel' \in Seq(AllCopies) /\ Len(channel') <= Total
    BY <1>3, <2>1, TotalType, AppendProperties DEF Types, QueuesOK, Send
  <2> QED
    BY <1>3, <2>2
    DEF Types, BrokerOK, ReadyIsDeliverable, QueuesOK, CallbackOK, GoroutinesOK, FlagsOK, ClosingOK,
        Send, Return, broker, flags, closing
<1>4. CASE GiveBack
  <2>1. BrokerOK'
    BY <1>4, NakKeepsBroker DEF Types, GiveBack
  <2> QED
    BY <1>4, <2>1
    DEF Types, QueuesOK, CallbackOK, GoroutinesOK, FlagsOK, ClosingOK, GiveBack, Return, flags, closing
<1> QED
  BY <1>1, <1>2, <1>3, <1>4 DEF Callback

\* providerLoop and handleMsg.
LEMMA GoroutineTypes == ASSUME Types, NEW g \in Goroutines, ProviderLoop(g) PROVE Types'
<1>1. CASE Take(g)
  <2>1. Head(channel) \in AllCopies /\ channel' \in Seq(AllCopies) /\ Len(channel') <= Total
    BY <1>1, FrontOf, TotalType DEF Types, QueuesOK, Take
  <2> QED
    BY <1>1, <2>1
    DEF Types, BrokerOK, ReadyIsDeliverable, QueuesOK, CallbackOK, GoroutinesOK, FlagsOK, ClosingOK,
        Take, Loop, broker, flags, closing
<1>2. CASE Skip(g)
  <2>1. BrokerOK'
    BY <1>2, AckKeepsBroker DEF Types, Skip
  <2> QED
    BY <1>2, <2>1
    DEF Types, QueuesOK, CallbackOK, GoroutinesOK, FlagsOK, ClosingOK, Skip, Loop, Resting, flags, closing
<1>3. CASE Park(g)
  <2>1. BrokerOK'
    BY <1>3, NakKeepsBroker DEF Types, Park
  <2>2. g[1] \in Providers
    BY DEF Goroutines
  <2> QED
    BY <1>3, <2>1, <2>2
    DEF Types, QueuesOK, CallbackOK, GoroutinesOK, FlagsOK, ClosingOK, Park, Loop, flags, closing
<1>4. CASE Fetch(g)
  <2>1. goroutine[g].copy \in AllCopies
    BY <1>4 DEF Types, GoroutinesOK, Fetch
  <2> QED
    BY <1>4, <2>1
    DEF Types, BrokerOK, ReadyIsDeliverable, QueuesOK, CallbackOK, GoroutinesOK, FlagsOK, ClosingOK,
        Fetch, Loop, broker, flags, closing
<1>5. CASE Finish(g)
  <2>1. BrokerOK'
    BY <1>5, AckKeepsBroker, NakKeepsBroker DEF Types, Finish
  <2>2. g[1] \in Providers
    BY DEF Goroutines
  <2>3. GoroutinesOK'
    BY <1>5, <2>2 DEF Types, GoroutinesOK, Finish, Loop, Resting
  <2> QED
    BY <1>5, <2>1, <2>3 DEF Types, QueuesOK, CallbackOK, FlagsOK, ClosingOK, Finish, flags, closing
<1>6. CASE Exit(g)
  BY <1>6
  DEF Types, BrokerOK, ReadyIsDeliverable, QueuesOK, CallbackOK, GoroutinesOK, FlagsOK, ClosingOK,
      Exit, Loop, broker, flags, closing
<1> QED
  BY <1>1, <1>2, <1>3, <1>4, <1>5, <1>6 DEF ProviderLoop

\* Start, Stop, and the function of drainOnce.
LEMMA CloserTypes == ASSUME Types, Launch \/ Stop \/ Closer PROVE Types'
<1> USE DEF Types, CallbackOK, GoroutinesOK, FlagsOK, ClosingOK
<1> DEFINE Kept == UNCHANGED <<broker, buffer, callback, channel, goroutine, beating, cancelled>>
<1>1. Kept => BrokerOK' /\ QueuesOK' /\ CallbackOK' /\ GoroutinesOK'
  BY DEF BrokerOK, ReadyIsDeliverable, QueuesOK, broker
<1>2. CASE Launch
  BY <1>1, <1>2 DEF Launch, closing
<1>3. CASE Stop
  BY <1>1, <1>3 DEF Stop
<1>4. ASSUME NEW by \in {"watcher", "stop"}, Refuse(by) PROVE Types'
  BY <1>1, <1>4 DEF Refuse
<1>5. CASE Announce
  BY <1>1, <1>5 DEF Announce, Then
<1>6. CASE Await
  BY <1>1, <1>6 DEF Await, Then, flags
<1>7. CASE Reject
  <2>1. BrokerOK'
    BY <1>7, NakKeepsBroker DEF Reject
  <2>2. QueuesOK'
    BY <1>7, FrontOf, TotalType DEF QueuesOK, Reject
  <2> QED
    BY <1>7, <2>1, <2>2 DEF Reject, flags, closing
<1>8. CASE Close
  BY <1>1, <1>8 DEF Close, Then
<1>9. CASE Leave
  BY <1>1, <1>9 DEF Leave, flags
<1>10. CASE StopReturns
  BY <1>1, <1>10 DEF StopReturns, flags
<1> QED
  BY <1>2, <1>3, <1>4, <1>5, <1>6, <1>7, <1>8, <1>9, <1>10 DEF Closer

-----------------------------------------------------------------------------
(* The chain of drainOnce's function, and the counter it waits for.         *)

\* Each step of drainOnce keeps what the earlier ones secured.
LEMMA ChainKept ==
    ASSUME Types, Chain, Next
    PROVE  Chain'
<1> USE DEF Chain, Counted, Begun, Refused, Awaited, Emptied, Closed
<1>1. CASE OnMessage
  <2>1. callback'.pc # "select" /\ callback.pc = "idle"
    BY <1>1 DEF OnMessage
  <2> QED
    BY <1>1, <2>1 DEF OnMessage, flags, closing
<1>2. CASE StartDispatch
  <2>1. CASE accepting
    <3>1. callback'.pc = "select"
      BY <1>2, <2>1 DEF Types, CallbackOK, StartDispatch
    <3>2. pending = 0 /\ pending' = 1
      BY <1>2, <2>1 DEF StartDispatch
    <3>3. closer.pc = "idle" /\ UNCHANGED <<closer, accepting, channel, workClosed>>
      BY <1>2, <2>1 DEF StartDispatch, flags, closing
    <3> QED
      BY <3>1, <3>2, <3>3
  <2>2. CASE ~accepting
    <3>1. callback'.pc = "idle" /\ callback.pc = "start" /\ pending' = pending
      BY <1>2, <2>2 DEF StartDispatch, Return
    <3> QED
      BY <1>2, <3>1 DEF StartDispatch, flags, closing
  <2> QED
    BY <2>1, <2>2
<1>3. CASE Send \/ GiveBack
  <2>1. callback.pc = "select" /\ callback'.pc = "idle" /\ pending' = 0
    BY <1>3 DEF Send, GiveBack, Return
  <2>2. closer.pc # "done" /\ UNCHANGED <<closer, accepting, workClosed>>
    BY <1>3, <2>1 DEF Send, GiveBack, flags, closing
  <2> QED
    BY <2>1, <2>2
<1>4. ASSUME NEW g \in Goroutines, ProviderLoop(g) PROVE Chain'
  <2>1. UNCHANGED <<callback, pending, closer, accepting, workClosed>>
    BY <1>4 DEF ProviderLoop, Take, Skip, Park, Fetch, Finish, Exit, flags, closing
  <2>2. channel = << >> => channel' = << >>
    BY <1>4 DEF ProviderLoop, Take, Skip, Park, Fetch, Finish, Exit
  <2> QED
    BY <2>1, <2>2
<1>5. CASE Launch \/ Stop
  BY <1>5 DEF Launch, Stop, closing
<1>6. ASSUME NEW by \in {"watcher", "stop"}, Refuse(by) PROVE Chain'
  BY <1>6 DEF Types, ClosingOK, Refuse
<1>7. CASE Announce
  BY <1>7 DEF Types, ClosingOK, Announce, Closing, Then
<1>8. CASE Await
  BY <1>8 DEF Types, ClosingOK, Await, Closing, Then, flags
<1>9. CASE Reject
  BY <1>9 DEF Reject, Closing, flags, closing
<1>10. CASE Close
  BY <1>10 DEF Types, ClosingOK, Close, Closing, Then
<1>11. CASE Leave \/ StopReturns
  BY <1>11 DEF Leave, StopReturns, flags
<1>12. CASE Broker
  BY <1>12 DEF Broker, Deliver, AckWaitExpires, flags, closing
<1> QED
  BY <1>1, <1>2, <1>3, <1>4, <1>5, <1>6, <1>7, <1>8, <1>9, <1>10, <1>11, <1>12
  DEF Next, Callback, Closer

-----------------------------------------------------------------------------
(* The heartbeats.                                                         *)

\* A copy sent into the channel is in it, with all that were there.
LEMMA ContainsAppend ==
    ASSUME NEW S, NEW q \in Seq(S), NEW x \in S, NEW c
    PROVE  Contains(q, c) \/ c = x => Contains(Append(q, x), c)
<1>1. /\ Append(q, x) \in Seq(S) /\ Len(Append(q, x)) = Len(q) + 1
      /\ \A i \in 1..Len(q) : Append(q, x)[i] = q[i]
      /\ Append(q, x)[Len(q) + 1] = x
  BY AppendProperties
<1>2. Len(q) \in Nat
  BY LenProperties
<1>3. CASE Contains(q, c)
  <2>1. PICK i \in 1..Len(q) : q[i] = c
    BY <1>3 DEF Contains
  <2>2. i \in 1..Len(Append(q, x)) /\ Append(q, x)[i] = c
    BY <1>1, <1>2, <2>1
  <2> QED
    BY <2>2 DEF Contains
<1>4. CASE c = x
  <2>1. Len(q) + 1 \in 1..Len(Append(q, x))
    BY <1>1, <1>2
  <2> QED
    BY <1>1, <1>4, <2>1 DEF Contains
<1> QED
  BY <1>3, <1>4

\* Taking the front copy leaves the others.
LEMMA ContainsTail ==
    ASSUME NEW S, NEW q \in Seq(S), q # << >>, NEW c, Contains(q, c), c # Head(q)
    PROVE  Contains(Tail(q), c)
<1>1. PICK i \in 1..Len(q) : q[i] = c
  BY DEF Contains
<1>2. Head(q) = q[1] /\ Len(q) \in Nat
  BY HeadTailProperties, LenProperties
<1>3. i # 1
  BY <1>1, <1>2
<1>4. i - 1 \in 1..Len(Tail(q)) /\ Tail(q)[i - 1] = q[i]
  BY <1>1, <1>2, <1>3, HeadTailProperties
<1> QED
  BY <1>1, <1>4 DEF Contains

\* A copy stays guarded when nobody lets go of it.
LEMMA SameGuards ==
    ASSUME NEW c, Guarded(c), channel' = channel, callback' = callback,
           \A g \in Goroutines : goroutine[g].pc = "fetch" => goroutine'[g] = goroutine[g]
    PROVE  Guarded(c)'
  BY DEF Guarded

\* dispatchToChannel starts, passes on or stops its heartbeat.
LEMMA CallbackGuards == ASSUME Types, BeatingGuarded, Callback PROVE BeatingGuarded'
<1> SUFFICES ASSUME NEW c \in beating' PROVE Guarded(c)'
  BY DEF BeatingGuarded
<1>1. CASE OnMessage
  <2>1. callback.pc = "idle" /\ UNCHANGED <<channel, goroutine>>
    BY <1>1 DEF OnMessage
  <2>2. CASE Head(buffer)[1] \in poison
    <3>1. c \in beating /\ callback' = callback
      BY <1>1, <2>2 DEF OnMessage
    <3> QED
      BY <2>1, <3>1, SameGuards DEF BeatingGuarded
  <2>3. CASE Head(buffer)[1] \notin poison
    <3>1. /\ callback' = [pc |-> "start", copy |-> Head(buffer), sees |-> FALSE]
          /\ beating' = beating \cup {Head(buffer)}
      BY <1>1, <2>3 DEF OnMessage
    <3>2. CASE c = Head(buffer)
      BY <3>1, <3>2 DEF Guarded
    <3>3. CASE c \in beating
      BY <2>1, <3>3 DEF BeatingGuarded, Guarded
    <3> QED
      BY <3>1, <3>2, <3>3
  <2> QED
    BY <2>2, <2>3
<1>2. CASE StartDispatch
  <2>1. UNCHANGED <<channel, goroutine>>
    BY <1>2 DEF StartDispatch
  <2>2. CASE accepting
    <3>1. c \in beating
      BY <1>2, <2>2 DEF StartDispatch, broker
    <3>2. callback'.pc = "select" /\ callback'.copy = callback.copy
      BY <1>2, <2>2 DEF Types, CallbackOK, StartDispatch
    <3> QED
      BY <2>1, <3>1, <3>2 DEF BeatingGuarded, Guarded
  <2>3. CASE ~accepting
    <3>1. c \in beating /\ c # callback.copy
      BY <1>2, <2>3 DEF StartDispatch
    <3> QED
      BY <2>1, <3>1 DEF BeatingGuarded, Guarded
  <2> QED
    BY <2>2, <2>3
<1>3. CASE Send
  <2>1. callback.copy \in AllCopies /\ channel \in Seq(AllCopies)
    BY <1>3 DEF Types, CallbackOK, QueuesOK, Send
  <2>2. c \in beating /\ channel' = Append(channel, callback.copy) /\ goroutine' = goroutine
    BY <1>3 DEF Send
  <2>3. Contains(channel, c) \/ c = callback.copy => Contains(channel', c)
    BY <2>1, <2>2, ContainsAppend
  <2>4. Contains(channel, c) \/ c = callback.copy \/
        \E g \in Goroutines : goroutine[g].pc = "fetch" /\ goroutine[g].copy = c
    BY <2>2 DEF BeatingGuarded, Guarded
  <2> QED
    BY <2>2, <2>3, <2>4 DEF Guarded
<1>4. CASE GiveBack
  <2>1. c \in beating /\ c # callback.copy /\ UNCHANGED <<channel, goroutine>>
    BY <1>4 DEF GiveBack
  <2> QED
    BY <2>1 DEF BeatingGuarded, Guarded
<1> QED
  BY <1>1, <1>2, <1>3, <1>4 DEF Callback

\* A goroutine stops the heartbeat of the channel, and its own on every exit.
LEMMA GoroutineGuards ==
    ASSUME Types, BeatingGuarded, NEW g \in Goroutines, ProviderLoop(g)
    PROVE  BeatingGuarded'
<1> SUFFICES ASSUME NEW c \in beating' PROVE Guarded(c)'
  BY DEF BeatingGuarded
<1>1. CASE Take(g)
  <2>1. /\ c \in beating /\ c # Head(channel) /\ channel # << >>
        /\ channel' = Tail(channel) /\ callback' = callback
    BY <1>1 DEF Take
  <2>2. \A h \in Goroutines : goroutine[h].pc = "fetch" => goroutine'[h] = goroutine[h]
    BY <1>1 DEF Types, GoroutinesOK, Take, Loop
  <2>3. Contains(channel, c) => Contains(channel', c)
    BY <2>1, ContainsTail DEF Types, QueuesOK
  <2> QED
    BY <2>1, <2>2, <2>3 DEF BeatingGuarded, Guarded
<1>2. CASE Skip(g) \/ Park(g) \/ Exit(g)
  <2>1. c \in beating /\ UNCHANGED <<channel, callback>>
    BY <1>2 DEF Skip, Park, Exit
  <2>2. \A h \in Goroutines : goroutine[h].pc = "fetch" => goroutine'[h] = goroutine[h]
    BY <1>2 DEF Types, GoroutinesOK, Skip, Park, Exit, Loop
  <2> QED
    BY <2>1, <2>2, SameGuards DEF BeatingGuarded
<1>3. CASE Fetch(g)
  <2>1. beating' = beating \cup {goroutine[g].copy} /\ UNCHANGED <<channel, callback>>
    BY <1>3 DEF Fetch
  <2>2. \A h \in Goroutines : goroutine[h].pc = "fetch" => goroutine'[h] = goroutine[h]
    BY <1>3 DEF Types, GoroutinesOK, Fetch, Loop
  <2>3. goroutine'[g].pc = "fetch" /\ goroutine'[g].copy = goroutine[g].copy
    BY <1>3 DEF Types, GoroutinesOK, Fetch, Loop
  <2>4. CASE c = goroutine[g].copy
    BY <2>3, <2>4 DEF Guarded
  <2>5. CASE c \in beating
    BY <2>1, <2>2, <2>5, SameGuards DEF BeatingGuarded
  <2> QED
    BY <2>1, <2>4, <2>5
<1>4. CASE Finish(g)
  <2>1. c \in beating /\ c # goroutine[g].copy /\ UNCHANGED <<channel, callback>>
    BY <1>4 DEF Finish
  <2>2. \A h \in Goroutines \ {g} : goroutine'[h] = goroutine[h]
    BY <1>4 DEF Types, GoroutinesOK, Finish, Loop
  <2> QED
    BY <2>1, <2>2 DEF BeatingGuarded, Guarded
<1> QED
  BY <1>1, <1>2, <1>3, <1>4 DEF ProviderLoop

\* rejectQueuedWork stops what it hands back.
LEMMA RejectGuards == ASSUME Types, BeatingGuarded, Reject PROVE BeatingGuarded'
<1> SUFFICES ASSUME NEW c \in beating' PROVE Guarded(c)'
  BY DEF BeatingGuarded
<1>1. /\ c \in beating /\ c # Head(channel) /\ channel # << >>
      /\ channel' = Tail(channel) /\ UNCHANGED <<callback, goroutine>>
  BY DEF Reject
<1>2. Contains(channel, c) => Contains(channel', c)
  BY <1>1, ContainsTail DEF Types, QueuesOK
<1> QED
  BY <1>1, <1>2 DEF BeatingGuarded, Guarded

-----------------------------------------------------------------------------
(* The inductive invariant.                                                *)

\* The first state satisfies it.
LEMMA InitIInv == Init => IInv
<1> SUFFICES ASSUME Init PROVE IInv
  OBVIOUS
<1>1. BrokerOK
  BY BoundsAssumption DEF Init, BrokerOK, ServerStates, ReadyIsDeliverable
<1>2. QueuesOK
  BY TotalType, EmptySeq DEF Init, QueuesOK
<1>3. CallbackOK /\ GoroutinesOK
  BY DEF Init, CallbackOK, GoroutinesOK, Resting
<1>4. FlagsOK /\ ClosingOK
  BY DEF Init, FlagsOK, ClosingOK
<1>5. Chain /\ BeatingGuarded
  BY DEF Init, Chain, Counted, Begun, Refused, Awaited, Emptied, Closed, BeatingGuarded
<1> QED
  BY <1>1, <1>2, <1>3, <1>4, <1>5 DEF IInv, Types

\* Every step keeps it.
LEMMA NextIInv == IInv /\ [Next]_vars => IInv'
<1> SUFFICES ASSUME IInv, [Next]_vars PROVE IInv'
  OBVIOUS
<1>1. CASE Next
  <2>1. Types'
    BY <1>1, BrokerTypes, CallbackTypes, GoroutineTypes, CloserTypes DEF IInv, Next
  <2>2. Chain'
    BY <1>1, ChainKept DEF IInv
  <2>3. BeatingGuarded'
    <3>1. CASE Callback
      BY <3>1, CallbackGuards DEF IInv
    <3>2. CASE \E g \in Goroutines : ProviderLoop(g)
      BY <3>2, GoroutineGuards DEF IInv
    <3>3. CASE Reject
      BY <3>3, RejectGuards DEF IInv
    <3>4. CASE Launch \/ Stop \/ (Closer /\ ~Reject) \/ Broker
      <4>1. UNCHANGED <<beating, channel, callback, goroutine>>
        BY <3>4 DEF Launch, Stop, Closer, Refuse, Announce, Await, Close, Leave, StopReturns,
                    Broker, Deliver, AckWaitExpires
      <4> QED
        BY <4>1 DEF IInv, BeatingGuarded, Guarded
    <3> QED
      BY <1>1, <3>1, <3>2, <3>3, <3>4 DEF Next
  <2> QED
    BY <2>1, <2>2, <2>3 DEF IInv
<1>2. CASE UNCHANGED vars
  <2>1. UNCHANGED <<poison, server, faults, lapses, buffer, callback, channel, goroutine, beating,
                    cancelled, up, ctxDone, accepting, mutex, draining, deadClosed, workClosed,
                    pending, closer, watcher, stopper>>
    BY <1>2 DEF vars, broker, flags, closing
  <2>2. Types'
    BY <2>1
    DEF IInv, Types, BrokerOK, ReadyIsDeliverable, QueuesOK, CallbackOK, GoroutinesOK, FlagsOK, ClosingOK
  <2>3. Chain' /\ BeatingGuarded'
    BY <2>1
    DEF IInv, Chain, Counted, Begun, Refused, Awaited, Emptied, Closed, BeatingGuarded, Guarded
  <2> QED
    BY <2>2, <2>3 DEF IInv
<1> QED
  BY <1>1, <1>2

\* So it always holds.
LEMMA Inductive == Spec => []IInv
  BY InitIInv, NextIInv, PTL DEF Spec

-----------------------------------------------------------------------------
(* What it shows.                                                          *)

\* The channel never exceeds the number of goroutines, no message more than
\* its deliveries, dispatching counts at most the one callback.
THEOREM TypeCorrect == Spec => []TypeOK
<1>1. IInv => TypeOK
  <2> SUFFICES ASSUME IInv PROVE TypeOK
    OBVIOUS
  <2>1. pending \in 0..1
    BY DEF IInv, Chain, Counted
  <2>2. flags \in BOOLEAN \X BOOLEAN \X BOOLEAN \X BOOLEAN \X BOOLEAN \X BOOLEAN \X BOOLEAN
    BY DEF IInv, Types, FlagsOK, flags
  <2> QED
    BY <2>1, <2>2
    DEF IInv, Types, BrokerOK, ServerStates, QueuesOK, CallbackOK, GoroutinesOK, ClosingOK, TypeOK
<1> QED
  BY <1>1, Inductive, PTL

\* No callback can send into the closed work channel (startDispatch's counter
\* under dispatchMu, dispatching.Wait before closeWork), whoever closes it.
THEOREM ClosedIsNotSentTo == Spec => []NoSendAfterClose
<1>1. IInv => NoSendAfterClose
  BY DEF IInv, Chain, Closed, Awaited, NoSendAfterClose
<1> QED
  BY <1>1, Inductive, PTL

\* Every copy that was in the channel at the close has been taken or handed
\* back (rejectQueuedWork).
THEOREM NothingLeftBehind == Spec => []ClosedIsEmpty
<1>1. IInv => ClosedIsEmpty
  BY DEF IInv, Chain, Closed, Emptied, ClosedIsEmpty
<1> QED
  BY <1>1, Inductive, PTL

\* Every running heartbeat guards a copy that somebody still holds.
THEOREM NoStrayHeartbeat == Spec => []HeartbeatsHaveHolders
<1>1. IInv => HeartbeatsHaveHolders
  <2> SUFFICES ASSUME IInv, NEW c \in beating PROVE Held(c)
    BY DEF HeartbeatsHaveHolders
  <2>1. Guarded(c)
    BY DEF IInv, BeatingGuarded
  <2>2. callback.copy = c => "callback" \in Holders(c)
    BY DEF Holders
  <2>3. \A g \in Goroutines : goroutine[g].copy = c => g \in Holders(c)
    BY DEF Holders
  <2> QED
    BY <2>1, <2>2, <2>3 DEF Guarded, Held
<1> QED
  BY <1>1, Inductive, PTL
=============================================================================
