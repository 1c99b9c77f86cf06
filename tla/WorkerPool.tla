------------------------------ MODULE WorkerPool ------------------------------
(***************************************************************************)
(* The scrape worker's dispatch and shutdown protocol (worker.go,          *)
(* dispatch.go, handleMsg of processing.go): one consumer callback sends   *)
(* messages into a bounded channel, provider goroutines take them out, and *)
(* two closers - Stop and the watcher of dead provider groups - refuse,    *)
(* drain and close under a sync.Once.  What a goroutine does to the stores *)
(* while it fetches is ScrapeWorker's subject.                             *)
(***************************************************************************)
EXTENDS Naturals, Sequences, SequencesExt, FiniteSets

CONSTANTS Messages,
          Poisons,    \* sets of messages whose body may not unmarshal
          Providers,  \* enabled provider slots
          Slots,      \* goroutines per provider
          MaxDeliver, \* the consumer's MaxDeliver
          MaxFaults,  \* bound: acks, NAKs and dead letters that fail
          MaxLapses   \* bound: ack deadlines missed by a copy somebody holds

ASSUME MessagesAssumption == Poisons \subseteq SUBSET Messages
ASSUME PoolAssumption == IsFiniteSet(Providers) /\ Providers # {} /\ Slots \in Nat \ {0}
ASSUME BoundsAssumption == MaxDeliver \in Nat \ {0} /\ MaxFaults \in Nat /\ MaxLapses \in Nat

VARIABLES
    poison,     \* the messages whose body does not unmarshal
    server,     \* each message's state in SCRAPE_REQUESTS and its deliveries
    buffer,     \* copies the consume context has fetched
    callback,   \* dispatchToChannel: next call, copy, and whether its select saw allGroupsDead
    channel,    \* w.work
    goroutine,  \* provider goroutines: next call and copy
    beating,    \* copies with an inProgressLoop whose handle is not stopped
    cancelled,  \* providers whose group context is cancelled
    up,         \* Start has spawned the pools and made allGroupsDead
    ctxDone,    \* w.ctx is cancelled
    accepting,  \* w.accepting
    mutex,      \* the watcher holds dispatchMu
    pending,    \* w.dispatching
    draining,   \* consume.Drain was called
    deadClosed, \* allGroupsDead is closed
    workClosed, \* w.work is closed
    closer,     \* drainOnce: who runs its function, and the next call there
    watcher, stopper, faults, lapses

broker   == <<poison, server, faults, lapses>>
flags    == <<up, ctxDone, accepting, mutex, draining, deadClosed, workClosed>>
closing  == <<closer, watcher, stopper>>
vars == <<broker, buffer, callback, channel, goroutine, beating, cancelled, flags, pending, closing>>

Goroutines == Providers \X (1..Slots)
Total      == Cardinality(Goroutines)   \* MaxAckPending, and the channel's capacity
Nothing    == <<>>
Resting    == [pc |-> "idle", copy |-> Nothing]

Init ==
    /\ poison \in Poisons
    /\ server = [m \in Messages |-> [state |-> "ready", delivered |-> 0]]
    /\ buffer = <<>> /\ channel = <<>> /\ beating = {} /\ cancelled = {}
    /\ callback = [pc |-> "idle", copy |-> Nothing, sees |-> FALSE]
    /\ goroutine = [g \in Goroutines |-> Resting]
    /\ up = FALSE /\ ctxDone = FALSE /\ accepting = TRUE /\ mutex = FALSE
    /\ draining = FALSE /\ deadClosed = FALSE /\ workClosed = FALSE
    /\ pending = 0 /\ closer = [by |-> "none", pc |-> "idle"]
    /\ watcher = "groups" /\ stopper = "off" /\ faults = 0 /\ lapses = 0

-----------------------------------------------------------------------------
(* The broker.                                                             *)

Holders(c) ==
    {x \in {"callback"} : callback.copy = c} \cup {g \in Goroutines : goroutine[g].copy = c}
Held(c)   == Holders(c) # {} \/ Contains(channel, c)
Copies(m) == {<<m, n>> : n \in 1..server[m].delivered}

Fault == faults < MaxFaults /\ faults' = faults + 1
Released(s) ==
    IF s.state # "pending" THEN s
    ELSE [s EXCEPT !.state = IF s.delivered < MaxDeliver THEN "ready" ELSE "spent"]
\* An answer that does not reach the broker is logged and forgotten.
Nak(c) ==
    /\ UNCHANGED <<poison, lapses>>
    /\ \/ server' = [server EXCEPT ![c[1]] = Released(@)] /\ UNCHANGED faults
       \/ Fault /\ UNCHANGED server
Ack(c) ==
    /\ UNCHANGED <<poison, lapses>>
    /\ \/ server' = [server EXCEPT ![c[1]].state = "acked"] /\ UNCHANGED faults
       \/ Fault /\ UNCHANGED server

\* A pull brings the next message, at most MaxAckPending of them unanswered.
Deliver(m) ==
    /\ ~draining /\ server[m].state = "ready"
    /\ Cardinality({o \in Messages : server[o].state = "pending"}) < Total
    /\ server' = [server EXCEPT ![m] = [state |-> "pending", delivered |-> @.delivered + 1]]
    /\ buffer' = Append(buffer, <<m, server[m].delivered + 1>>)
    /\ UNCHANGED <<poison, faults, lapses, callback, channel, goroutine, beating, cancelled, flags, pending, closing>>

\* The ack deadline: heartbeats hold it off, except for a bounded number of
\* gaps; a copy nobody holds has none.
AckWaitExpires(m) ==
    /\ server[m].state = "pending"
    /\ \/ /\ \A c \in Copies(m) : ~Held(c) /\ ~Contains(buffer, c) /\ c \notin beating
          /\ UNCHANGED lapses
       \/ lapses < MaxLapses /\ lapses' = lapses + 1
    /\ server' = [server EXCEPT ![m] = Released(@)]
    /\ UNCHANGED <<poison, faults, buffer, callback, channel, goroutine, beating, cancelled, flags, pending, closing>>

-----------------------------------------------------------------------------
(* dispatchToChannel.                                                      *)

\* The callback takes the next copy; a body that does not parse goes to the
\* dead letters under w.ctx and is terminated, or is handed back.
OnMessage ==
    /\ callback.pc = "idle" /\ buffer # <<>>
    /\ buffer' = Tail(buffer)
    /\ LET c == Head(buffer)
       IN  IF c[1] \in poison
           THEN /\ \/ ~ctxDone /\ Ack(c)
                   \/ ctxDone /\ Nak(c)
                   \/ /\ Fault /\ server' = [server EXCEPT ![c[1]] = Released(@)]
                      /\ UNCHANGED <<poison, lapses>>
                /\ UNCHANGED <<callback, beating>>
           ELSE /\ callback' = [pc |-> "start", copy |-> c, sees |-> FALSE]
                /\ beating' = beating \cup {c}
                /\ UNCHANGED broker
    /\ UNCHANGED <<channel, goroutine, cancelled, flags, pending, closing>>

Return == callback' = [pc |-> "idle", copy |-> Nothing, sees |-> FALSE]

\* startDispatch, whole under dispatchMu: count the send or hand the copy back.
StartDispatch ==
    /\ callback.pc = "start" /\ ~mutex
    /\ IF accepting
       THEN /\ callback' = [callback EXCEPT !.pc = "select", !.sees = up]
            /\ pending' = pending + 1 /\ UNCHANGED <<broker, beating>>
       ELSE /\ Return /\ Nak(callback.copy) /\ beating' = beating \ {callback.copy}
            /\ UNCHANGED pending
    /\ UNCHANGED <<buffer, channel, goroutine, cancelled, flags, closing>>

\* The three ways out of the select.  allGroupsDead is evaluated when the
\* select is entered: before Start has made it, that case never fires.
Send ==
    /\ callback.pc = "select" /\ Len(channel) < Total
    /\ channel' = Append(channel, callback.copy)
    /\ Return /\ pending' = pending - 1
    /\ UNCHANGED <<broker, buffer, goroutine, beating, cancelled, flags, closing>>

GiveBack ==
    /\ callback.pc = "select"
    /\ ctxDone \/ (deadClosed /\ callback.sees)
    /\ beating' = beating \ {callback.copy} /\ Nak(callback.copy)
    /\ Return /\ pending' = pending - 1
    /\ UNCHANGED <<buffer, channel, goroutine, cancelled, flags, closing>>

Callback == OnMessage \/ StartDispatch \/ Send \/ GiveBack
-----------------------------------------------------------------------------
(* providerLoop and handleMsg.                                             *)

GroupDone(g) == ctxDone \/ g[1] \in cancelled
Loop(g, to)  == goroutine' = [goroutine EXCEPT ![g] = to]

\* Mutant: the heartbeat of the channel goes on.
TakeBeating(g) ==
    /\ up /\ goroutine[g].pc = "idle" /\ channel # <<>>
    /\ channel' = Tail(channel) /\ Loop(g, [pc |-> "check", copy |-> Head(channel)])
    /\ UNCHANGED <<broker, beating, buffer, callback, cancelled, flags, pending, closing>>

\* A goroutine takes a copy, even when its context is already cancelled, and
\* stops the heartbeat of the channel.
Take(g) ==
    /\ up /\ goroutine[g].pc = "idle" /\ channel # <<>>
    /\ channel' = Tail(channel) /\ Loop(g, [pc |-> "check", copy |-> Head(channel)])
    /\ beating' = beating \ {Head(channel)}
    /\ UNCHANGED <<broker, buffer, callback, cancelled, flags, pending, closing>>

\* requestStreamVerdict: a request that is already decided is acknowledged.
Skip(g) ==
    /\ goroutine[g].pc = "check" /\ Ack(goroutine[g].copy) /\ Loop(g, Resting)
    /\ UNCHANGED <<buffer, callback, channel, beating, cancelled, flags, pending, closing>>

\* The preflight finds the provider unhealthy or its budget spent.
Park(g) ==
    /\ goroutine[g].pc = "check" /\ Nak(goroutine[g].copy)
    /\ Loop(g, [pc |-> "exited", copy |-> Nothing]) /\ cancelled' = cancelled \cup {g[1]}
    /\ UNCHANGED <<buffer, callback, channel, beating, flags, pending, closing>>

\* processRequest, under a heartbeat of its own.
Fetch(g) ==
    /\ goroutine[g].pc = "check" /\ Loop(g, [goroutine[g] EXCEPT !.pc = "fetch"])
    /\ beating' = beating \cup {goroutine[g].copy}
    /\ UNCHANGED <<broker, buffer, callback, channel, cancelled, flags, pending, closing>>

\* Mutant: the heartbeat is stopped on success only.
FinishBeating(g) ==
    /\ goroutine[g].pc = "fetch"
    /\ \/ /\ Ack(goroutine[g].copy) /\ Loop(g, Resting) /\ UNCHANGED cancelled
          /\ beating' = beating \ {goroutine[g].copy}
       \/ Nak(goroutine[g].copy) /\ Loop(g, Resting) /\ UNCHANGED <<cancelled, beating>>
    /\ UNCHANGED <<buffer, callback, channel, flags, pending, closing>>

\* Its end: done or given up, to be retried, or the quota is exhausted.  (The
\* sleep after a rate limit is a goroutine that does not take the next copy.)
Finish(g) ==
    /\ goroutine[g].pc = "fetch" /\ beating' = beating \ {goroutine[g].copy}
    /\ \/ Ack(goroutine[g].copy) /\ Loop(g, Resting) /\ UNCHANGED cancelled
       \/ Nak(goroutine[g].copy) /\ Loop(g, Resting) /\ UNCHANGED cancelled
       \/ /\ Nak(goroutine[g].copy) /\ Loop(g, [pc |-> "exited", copy |-> Nothing])
          /\ cancelled' = cancelled \cup {g[1]}
    /\ UNCHANGED <<buffer, callback, channel, flags, pending, closing>>

\* Between two messages: the group's context or the closed channel.
Exit(g) ==
    /\ up /\ goroutine[g].pc = "idle"
    /\ GroupDone(g) \/ (workClosed /\ channel = <<>>)
    /\ Loop(g, [pc |-> "exited", copy |-> Nothing])
    /\ UNCHANGED <<broker, buffer, callback, channel, beating, cancelled, flags, pending, closing>>

ProviderLoop(g) == Take(g) \/ Skip(g) \/ Park(g) \/ Fetch(g) \/ Finish(g) \/ Exit(g)
AllExited == \A g \in Goroutines : goroutine[g].pc = "exited"

-----------------------------------------------------------------------------
(* Start's second half, watchAllGroups and Stop.  Calls that nobody else    *)
(* can observe separately are one step.                                    *)

\* The consumer runs before the pools exist.
Launch ==
    /\ ~up /\ up' = TRUE
    /\ UNCHANGED <<broker, buffer, callback, channel, goroutine, beating, cancelled, pending, closing>>
    /\ UNCHANGED <<ctxDone, accepting, mutex, draining, deadClosed, workClosed>>

Stop ==
    /\ up /\ stopper = "off" /\ stopper' = "once" /\ ctxDone' = TRUE
    /\ UNCHANGED <<broker, buffer, callback, channel, goroutine, beating, cancelled, pending, closer, watcher>>
    /\ UNCHANGED <<up, accepting, mutex, draining, deadClosed, workClosed>>

\* drainOnce.Do: the first caller runs the function, the other waits for it.
\* The watcher comes when the dead channel of every group is closed; it keeps
\* dispatchMu to the end of the function, Stop lets it go at once.
Refuse(by) ==
    /\ closer.by = "none" /\ closer' = [by |-> by, pc |-> "announce"]
    /\ IF by = "watcher" THEN up /\ AllExited ELSE stopper = "once"
    /\ accepting' = FALSE /\ draining' = TRUE /\ mutex' = (by = "watcher")
    /\ UNCHANGED <<broker, buffer, callback, channel, goroutine, beating, cancelled, pending>>
    /\ UNCHANGED <<up, ctxDone, deadClosed, workClosed, watcher, stopper>>

Closing(pc) == closer.pc = pc
Then(pc)    == closer' = [closer EXCEPT !.pc = pc] /\ UNCHANGED <<watcher, stopper>>

\* Mutant: allGroupsDead stays open.
AnnounceNothing ==
    /\ Closing("announce") /\ Then("await")
    /\ UNCHANGED <<broker, buffer, callback, channel, goroutine, beating, cancelled, pending, flags>>

Announce ==
    /\ Closing("announce") /\ Then("await") /\ deadClosed' = TRUE
    /\ UNCHANGED <<broker, buffer, callback, channel, goroutine, beating, cancelled, pending>>
    /\ UNCHANGED <<up, ctxDone, accepting, mutex, draining, workClosed>>

\* Mutant: nobody waits for the sender.
AwaitNobody ==
    /\ Closing("await") /\ Then("reject")
    /\ UNCHANGED <<broker, buffer, callback, channel, goroutine, beating, cancelled, pending, flags>>

\* dispatching.Wait.
Await ==
    /\ Closing("await") /\ pending = 0 /\ Then("reject")
    /\ UNCHANGED <<broker, buffer, callback, channel, goroutine, beating, cancelled, pending, flags>>

\* rejectQueuedWork, one copy a step, beside goroutines that still take some.
Reject ==
    /\ Closing("reject") /\ channel # <<>> /\ channel' = Tail(channel)
    /\ beating' = beating \ {Head(channel)} /\ Nak(Head(channel))
    /\ UNCHANGED <<buffer, callback, goroutine, cancelled, pending, flags, closing>>

\* Mutant: the channel is closed over queued copies.
CloseUnrejected ==
    /\ Closing("reject")
    /\ Then("done") /\ workClosed' = TRUE /\ mutex' = FALSE
    /\ UNCHANGED <<broker, buffer, callback, channel, goroutine, beating, cancelled, pending>>
    /\ UNCHANGED <<up, ctxDone, accepting, draining, deadClosed>>

\* closeWork, and the watcher's deferred unlock.
Close ==
    /\ Closing("reject") /\ channel = <<>>
    /\ Then("done") /\ workClosed' = TRUE /\ mutex' = FALSE
    /\ UNCHANGED <<broker, buffer, callback, channel, goroutine, beating, cancelled, pending>>
    /\ UNCHANGED <<up, ctxDone, accepting, draining, deadClosed>>

\* Do returns to the caller that ran the function and to the one that waited.
Leave ==
    /\ Closing("done")
    /\ \/ up /\ AllExited /\ watcher = "groups" /\ watcher' = "end" /\ UNCHANGED stopper
       \/ stopper = "once" /\ stopper' = "wait" /\ UNCHANGED watcher
    /\ UNCHANGED <<broker, buffer, callback, channel, goroutine, beating, cancelled, flags, pending, closer>>

\* Stop returns when the goroutines are gone or after thirty seconds.
StopReturns ==
    /\ stopper = "wait" /\ stopper' = "returned"
    /\ UNCHANGED <<broker, buffer, callback, channel, goroutine, beating, cancelled, flags, pending, closer, watcher>>

Closer ==
    \/ (\E by \in {"watcher", "stop"} : Refuse(by))
    \/ Announce \/ Await \/ Reject \/ Close \/ Leave \/ StopReturns
Broker == \E m \in Messages : Deliver(m) \/ AckWaitExpires(m)

Next == Callback \/ (\E g \in Goroutines : ProviderLoop(g)) \/ Launch \/ Stop \/ Closer \/ Broker

Spec == Init /\ [][Next]_vars

\* Goroutines run, the broker delivers and its timers fire; nobody has to stop
\* the worker and nothing has to fail.
FairSpec ==
    /\ Spec
    /\ WF_vars(Callback) /\ \A g \in Goroutines : WF_vars(ProviderLoop(g))
    /\ WF_vars(Launch) /\ WF_vars(Closer)
    /\ WF_vars(Broker)
-----------------------------------------------------------------------------
AllCopies == Messages \X (1..MaxDeliver)

\* Types of the channel, the processes and the flags.
TypeOK ==
    /\ poison \in Poisons
    /\ server \in [Messages -> [state : {"ready", "pending", "acked", "spent"},
                                delivered : 0..MaxDeliver]]
    /\ buffer \in Seq(AllCopies) /\ channel \in Seq(AllCopies) /\ Len(channel) <= Total
    /\ callback \in [pc : {"idle", "start", "select"}, copy : AllCopies \cup {Nothing}, sees : BOOLEAN]
    /\ goroutine \in [Goroutines -> [pc : {"idle", "check", "fetch", "exited"},
                                     copy : AllCopies \cup {Nothing}]]
    /\ beating \subseteq AllCopies /\ cancelled \subseteq Providers
    /\ flags \in BOOLEAN \X BOOLEAN \X BOOLEAN \X BOOLEAN \X BOOLEAN \X BOOLEAN \X BOOLEAN
    /\ pending \in 0..1
    /\ closer \in [by : {"none", "watcher", "stop"},
                   pc : {"idle", "announce", "await", "reject", "done"}]
    /\ watcher \in {"groups", "end"} /\ stopper \in {"off", "once", "wait", "returned"}
    /\ faults \in 0..MaxFaults /\ lapses \in 0..MaxLapses

\* The channel is closed only when no callback can still send into it, which
\* would panic: startDispatch counts itself under dispatchMu, the closers wait.
NoSendAfterClose == workClosed => callback.pc # "select"

\* Once the channel is closed no copy is left in it unanswered
\* (rejectQueuedWork runs after the last send).
ClosedIsEmpty == workClosed => channel = <<>>

\* A heartbeat belongs to a copy that the callback, the channel or a goroutine
\* holds: an answered or abandoned message is not kept from redelivery
\* (progressHandle.Stop on every path).
HeartbeatsHaveHolders == \A c \in beating : Held(c)

\* After Stop, or once every provider group is gone, the channel is closed,
\* the callback returns and all goroutines exit, whoever runs drainOnce.
ShutDown == workClosed /\ AllExited /\ callback.pc = "idle" /\ buffer = <<>>
ShutsDown == (ctxDone \/ (up /\ AllExited)) ~> ShutDown

\* Unless the worker stops taking requests, each message is answered for good
\* or used up, also when an answer is lost: nothing keeps it in hand for ever.
EveryMessageEnds ==
    \A m \in Messages : <>(server[m].state \in {"acked", "spent"} \/ ~accepting)
=============================================================================
