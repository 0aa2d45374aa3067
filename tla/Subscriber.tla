----------------------------- MODULE Subscriber -----------------------------
(***************************************************************************)
(* The subscriber as a whole: user tasks calling subscribe_vals and        *)
(* durable_subscribe_val, the connection tasks, the publishers behind      *)
(* them, and the resubscribe task, all running against one registry.       *)
(***************************************************************************)
EXTENDS Durable

Init ==
    /\ subscribed = [p \in Paths |-> Vacant]
    /\ connections = {}
    /\ durable_dead = [p \in Paths |-> 0]
    /\ durable_alive = [p \in Paths |-> 0]
    /\ trigger = FALSE
    /\ retry = FALSE
    /\ batch = {}
    /\ dval = [d \in DVals |-> NoDVal]
    /\ dgen = [p \in Paths |-> 0]
    /\ holders = [v \in Vals |-> {}]
    /\ pc = [c \in Callers |-> "idle"]
    /\ st = [c \in Callers |-> [p \in Paths |-> NoSt]]
    /\ mbox = [c \in Callers |-> [p \in Paths |-> None]]
    /\ todo = [c \in Callers |-> {}]
    /\ cur = [c \in Callers |-> None]
    /\ deadline = [c \in Callers |-> FALSE]
    /\ twice = [c \in Callers |-> {}]
    /\ held = [c \in Callers |-> {}]
    /\ calls = [c \in Callers |-> 0]
    /\ conSt = [a \in Addrs |-> "none"]
    /\ inbox = [a \in Addrs |-> <<>>]
    /\ pending = [a \in Addrs |-> NoPending]
    /\ subs = [a \in Addrs |-> {}]
    /\ streamed = {}
    /\ idle = [a \in Addrs |-> 0]
    /\ msg_recvd = [a \in Addrs |-> FALSE]
    /\ toPub = [a \in Addrs |-> <<>>]
    /\ fromPub = [a \in Addrs |-> <<>>]
    /\ pubSubs = [a \in Addrs |-> {}]
    /\ nextId = [a \in Addrs |-> 1]
    /\ conBase = [a \in Addrs |-> 1]
    /\ panicked = FALSE

(* The steps of a subscribe_vals call, the resub task's included. *)
CallerStep(c) ==
    \/ \E B \in SUBSET Paths, d \in Timeouts : \E R \in Repeated(B) : SubscribeVals(c, B, R, d)
    \/ \E p \in Paths, d \in Timeouts : SubscribeVal(c, p, d)
    \/ ResolveFail(c)
    \/ \E pick \in [ToResolve(c) -> Addrs \cup {None}], order \in SetToSeqs(ToResolve(c)) :
          ResolveOk(c, pick, order)
    \/ \E p \in Paths : Await(c, p)
    \/ \E p \in Paths : VisitError(c, p)
    \/ \E p \in Paths : VisitWaiting(c, p)
    \/ \E p \in Paths : VisitSubscribing(c, p)
    \/ Return(c)
    \/ Cancel(c)
    \/ \E v \in Vals : DropVal(c, v)

(* The steps of the connection task of address a. *)
ConnectionStep(a) ==
    \/ Connected(a)
    \/ ConnectFail(a)
    \/ \E reply \in HelloReplies : HelloOk(a, reply) \/ HelloFail(a, reply)
    \/ \E order \in SetToSeqs(subs[a]) : ConError(a, order)
    \/ \E order \in SetToSeqs(subs[a]) : TickHung(a, order)
    \/ TickIdleExit(a)
    \/ \E T \in SUBSET PendingReqs(a) : Tick(a, T)
    \/ ConSubscribe(a)
    \/ ConStream(a) \/ ConStreamWaits(a) \/ ConStreamResumes(a)
    \/ RecvSubscribed(a)
    \/ RecvRejected(a)
    \/ RecvUnsubscribed(a)
    \/ Heartbeat(a)

(* The steps of the publisher at address a. *)
PublisherStep(a) ==
    \/ PubAccept(a)
    \/ PubReject(a)
    \/ PubUnsubscribe(a)
    \/ \E i \in Ids : PubUnpublish(a, i)

(* Durable handles and the resub task. *)
DurableStep ==
    \/ \E p \in Paths : DurableClone(p)
    \/ \E p \in Paths : DurableCreate(p)
    \/ \E d \in DVals : DropDVal(d)
    \/ \E d \in DVals, begin_with_last \in BOOLEAN : DValUpdates(d, begin_with_last)
    \/ \E d \in DVals, include_current \in BOOLEAN : DValStateUpdates(d, include_current)
    \/ \E d \in DVals : CloseStream(d) \/ \E i \in 1..MaxListeners : CloseListener(d, i)
    \/ \E by \in {"trigger", "retry"} : DoResubNothing(by)
    \/ \E by \in {"trigger", "retry"}, S \in SUBSET DVals : DoResubStart(by, S)
    \/ DoResubSubscribe
    \/ DoResubFinish

Next ==
    \/ \E c \in Callers : CallerStep(c)
    \/ \E a \in Addrs : ConnectionStep(a)
    \/ \E a \in Addrs : PublisherStep(a)
    \/ DurableStep

Spec == Init /\ [][Next]_vars

(* What the scheduler owes a running call: the resolver call ends, and a   *)
(* caller whose oneshot is filled, or that has nothing to wait for, is     *)
(* polled.                                                                 *)
Progress(c) ==
    \/ ResolveFail(c)
    \/ \E pick \in [ToResolve(c) -> Addrs \cup {None}], order \in SetToSeqs(ToResolve(c)) :
          ResolveOk(c, pick, order)
    \/ \E p \in Paths : VisitError(c, p) \/ VisitWaiting(c, p) \/ VisitSubscribing(c, p)
    \/ Return(c)

(* The periodic timer of a connection task fires (select_biased! polls it  *)
(* first), and by then the deadlines of the requests it holds have passed. *)
ExpiringTick(a) ==
    \/ \E order \in SetToSeqs(subs[a]) : TickHung(a, order)
    \/ TickIdleExit(a)
    \/ Tick(a, {r \in PendingReqs(a) : r.deadline})

(* The resub task is polled: it wakes when trigger_resub holds a message   *)
(* or its timer has fired, by when what the timer was set for is due, and  *)
(* goes through do_resub.                                                  *)
ResubStep ==
    \/ \E by \in {"trigger", "retry"} : DoResubNothing(by) \/ DoResubStart(by, LiveDead)
    \/ DoResubSubscribe
    \/ DoResubFinish

(* The subscriber under a fair scheduler: every task that can run is run,  *)
(* connect is bounded by time::timeout, commands are read, timers fire.    *)
(* Nothing is assumed of the publishers, not even that they answer the     *)
(* hello, and nothing of the users.                                        *)
FairSpec ==
    /\ Spec
    /\ \A c \in Callers : WF_vars(Progress(c))
    /\ WF_vars(ResubStep)
    /\ \A a \in Addrs :
          /\ WF_vars(Connected(a) \/ ConnectFail(a))
          /\ WF_vars(ConSubscribe(a) \/ ConStream(a) \/ ConStreamWaits(a))
          /\ WF_vars(ExpiringTick(a))

-----------------------------------------------------------------------------
SubStatus == {Vacant} \cup {Pending(W) : W \in SUBSET Callers}
                      \cup {Subscribed(v) : v \in Vals}
StSet     == {NoSt} \cup {St(t, None) : t \in {"Resolve", "Subscribing", "WaitingOther", "Error"}}
                    \cup {St("Subscribed", v) : v \in Vals}
ReqSet    == {SubscribeCmd(p, c, d) : p \in Paths, c \in Callers, d \in BOOLEAN}
ToConSet  == ReqSet \cup {StreamCmd(i, last, rx) : i \in Ids, last \in BOOLEAN, rx \in BOOLEAN}
ToSet_    == {ToSubscribe(p) : p \in Paths} \cup {ToUnsubscribe(i) : i \in Ids}
FromSet   == {FromSubscribed(p, i) : p \in Paths, i \in Ids}
                \cup {FromRejected(p) : p \in Paths}
                \cup {FromUnsubscribed(i) : i \in Ids}

(* The type invariant. *)
TypeOK ==
    /\ subscribed \in [Paths -> SubStatus]
    /\ connections \subseteq Addrs
    /\ durable_dead \in [Paths -> 0..MaxGen]
    /\ durable_alive \in [Paths -> 0..MaxGen]
    /\ trigger \in BOOLEAN /\ retry \in BOOLEAN /\ panicked \in BOOLEAN
    /\ batch \subseteq DVals
    /\ dval \in [DVals -> [user : BOOLEAN, sub : Vals \cup {None}, tries : 0..MaxTries,
                           streams : {"none", "open", "closed"}, made : 0..MaxStreams,
                           states : BoundedSeq({"quiet", "closed"} \cup DVStates, MaxListeners)]]
    /\ dgen \in [Paths -> 0..MaxGen]
    /\ holders \in [Vals -> SUBSET (Callers \cup DVals)]
    /\ pc \in [Callers -> {"idle", "start", "resolve", "wait"}]
    /\ st \in [Callers -> [Paths -> StSet]]
    /\ mbox \in [Callers -> [Paths -> {None, Err} \cup {Ok(v) : v \in Vals}]]
    /\ todo \in [Callers -> SUBSET Paths]
    /\ cur \in [Callers -> Paths \cup {None}]
    /\ deadline \in [Callers -> BOOLEAN]
    /\ twice \in [Callers -> SUBSET Paths]
    /\ held \in [Callers -> SUBSET Vals]
    /\ calls \in [Callers -> Nat]
    /\ \A c \in Users : calls[c] <= MaxCalls
    /\ calls[Resub] <= MaxResub
    /\ conSt \in [Addrs -> {"none", "connecting", "hello", "running", "sending", "failed"}]
    /\ \A a \in Addrs :
          /\ inbox[a] \in Seq(ToConSet)
          /\ toPub[a] \in Seq(ToSet_)
          /\ fromPub[a] \in Seq(FromSet)
    /\ pending \in [Addrs -> [Paths -> ReqSet \cup {None}]]
    /\ subs \in [Addrs -> SUBSET (Ids \X Paths)]
    /\ streamed \subseteq Vals
    /\ idle \in [Addrs -> 0..1]
    /\ msg_recvd \in [Addrs -> BOOLEAN]
    /\ pubSubs \in [Addrs -> SUBSET Ids]
    /\ nextId \in [Addrs -> 1..(MaxId + 1)]
    /\ conBase \in [Addrs -> 1..(MaxId + 1)]

-----------------------------------------------------------------------------
(* The requests for path p that some connection task owns. *)
Requests(p) ==
    {x \in UNION {{a} \X (PendingReqs(a) \cup InboxReqs(a)) : a \in Addrs} : x[2].path = p}

(* The callers that own path p: they claimed it in Init and have not yet   *)
(* removed or completed its Pending entry.                                 *)
Owners(p) ==
    {c \in Callers : /\ pc[c] \in {"resolve", "wait"}
                     /\ \/ st[c][p].tag \in {"Resolve", "Subscribing"}
                        \/ st[c][p].tag = "Error" /\ p \in todo[c]}

(* The Subs of path p whose Val somebody still holds. *)
LiveSubs(p) == {v \in Vals : <<v[2], p>> \in subs[v[1]] /\ Alive(v)}

(* Deduplication (subscribe_vals, Init): however many callers ask for a    *)
(* path at the same time, at most one subscribe request for it is in the   *)
(* hands of the connection tasks, and while there is one the registry      *)
(* entry of the path is Pending.                                           *)
SingleFlight ==
    \A p \in Paths :
        /\ Cardinality(Requests(p)) <= 1
        /\ Requests(p) # {} => subscribed[p].tag = "Pending"

(* A Pending entry always has exactly one owner that will complete or      *)
(* remove it, and no other entry has one: the Init, the Error and the      *)
(* Subscribing arms of subscribe_vals, run by concurrent callers, never    *)
(* leave a Pending entry behind.                                           *)
PendingHasOwner ==
    \A p \in Paths :
        Cardinality(Owners(p)) = IF subscribed[p].tag = "Pending" THEN 1 ELSE 0

(* A caller parked on the oneshot of another caller's subscription         *)
(* (St::WaitingOther) is in the waiter list of a Pending entry: whoever    *)
(* removes or completes the entry reaches it.                              *)
NoOrphanWaiter ==
    \A c \in Callers, p \in Paths :
        RxOpen(c, p, "WaitingOther") =>
            subscribed[p].tag = "Pending" /\ c \in subscribed[p].waiters

(* A caller parked on the oneshot of its own request (St::Subscribing) has *)
(* that request in the command channel or the pending map of a connection  *)
(* task that still runs: connect failure, timeout, refusal, replacement    *)
(* and cleanup all answer the requests they take away.                     *)
NoOrphanRequest ==
    \A c \in Callers, p \in Paths :
        RxOpen(c, p, "Subscribing") =>
            \E x \in Requests(p) : x[2].caller = c /\ ConOpen(x[1])

(* No unreachable!() and no unwrap() of subscribe_vals and do_resub is hit *)
(* in any interleaving of callers, connection tasks and the resub task.    *)
NoPanic == ~panicked

(* "The last reference going away unsubscribes": whatever the publisher    *)
(* counts as subscribed has a Sub whose Val is held, or its Subscribed     *)
(* message is still to be processed, or a To::Unsubscribe for it is on its *)
(* way (Drop for ValInner).                                                *)
NoLeakedSubscription ==
    \A a \in Addrs : \A i \in pubSubs[a] :
        \/ \E p \in Paths : <<i, p>> \in subs[a] /\ Alive(<<a, i>>)
        \/ \E p \in Paths : Contains(fromPub[a], FromSubscribed(p, i))
        \/ Contains(toPub[a], ToUnsubscribe(i))

(* A subscription that is granted when nobody is left to take it is given  *)
(* back: whatever the publisher counts as subscribed has a Sub in the      *)
(* connection task, or its Subscribed message is still to be processed, or *)
(* a To::Unsubscribe for it is on its way.  process_batch meets a          *)
(* Subscribed whose request timed out at a tick, or whose caller dropped   *)
(* the future, or that was replaced, after the publisher has counted it.   *)
GrantIsTracked ==
    \A a \in Addrs : \A i \in pubSubs[a] :
        \/ \E p \in Paths : <<i, p>> \in subs[a]
        \/ \E p \in Paths : Contains(fromPub[a], FromSubscribed(p, i))
        \/ Contains(toPub[a], ToUnsubscribe(i))

(* There is only ever one subscription for a path: a Sub whose Val is held *)
(* is the one the registry knows, as the Subscribed entry of its path or   *)
(* as the answer its owner is about to install.  fn unsubscribe, called    *)
(* for an older subscription of the path or by another connection, and the *)
(* Init and Error arms of concurrent callers never take that entry away.   *)
LiveSubIsRegistered ==
    \A p \in Paths : \A v \in LiveSubs(p) :
        \/ subscribed[p] = Subscribed(v)
        \/ /\ subscribed[p].tag = "Pending"
           /\ \E c \in Callers : st[c][p].tag = "Subscribing" /\ mbox[c][p] = Ok(v)

(* The registry hands out only subscriptions that exist: a Subscribed      *)
(* entry whose Val is held has its Sub in a running connection task.       *)
SubscribedIsCurrent ==
    \A p \in Paths :
        subscribed[p].tag = "Subscribed" /\ Alive(subscribed[p].val) =>
            subscribed[p].val \in LiveSubs(p)

(* The sender in `connections` belongs to a task that exists: a task that  *)
(* ends removes its entry.                                                 *)
ConnectionsAreOpen ==
    \A a \in connections : ConOpen(a)

(* A connection task is in hello_publisher, which no timer bounds. *)
HelloHolds == \E a \in Addrs : conSt[a] = "hello"

(* Caller c is parked on the oneshot of a request that another caller made *)
(* without a timeout: no tick will ever fail that request.                 *)
ParkedOnUntimed(c) ==
    \E p \in Paths : RxOpen(c, p, "WaitingOther") /\ \E o \in Owners(p) : ~deadline[o]

(* "In the case timeout is specified, subscribe_vals is guaranteed to      *)
(* complete no later than now + timeout" (documentation of                 *)
(* subscribe_vals), as it stands.                                          *)
TimedCallCompletes ==
    \A c \in Users : (pc[c] # "idle" /\ deadline[c]) ~> (pc[c] = "idle")

(* What the code keeps of that promise.  A call made with a timeout, for   *)
(* paths it names once, returns, with three exceptions: a publisher that   *)
(* never answers the hello (hello_publisher has no timeout and the tick    *)
(* does not run before it), a path another caller asked for without a      *)
(* timeout (the waiter inherits the owner's deadline, which is none), and  *)
(* a batch that names a path twice.  In every other schedule the resolve,  *)
(* the connect and every pending request are bounded by timers and every   *)
(* waiter is answered by its owner.                                        *)
TimedCallReturns ==
    \A c \in Users :
        \/ (pc[c] # "idle" /\ deadline[c]) ~> (pc[c] = "idle")
        \/ <>[]HelloHolds
        \/ <>[]ParkedOnUntimed(c)
        \/ <>(\E o \in Users : twice[o] # {})

(* A durable subscription is retried for as long as it is dead: a DVal     *)
(* that somebody holds and that is in durable_dead is handed to            *)
(* subscribe_vals again, by a trigger_resub message or by the timer        *)
(* update_retry sets at the end of do_resub, and the do_resub before it    *)
(* ends or is held in a hello.  (Until the bound on do_resub rounds is     *)
(* reached.)                                                               *)
DeadIsRetried ==
    \A d \in DVals :
        (d \in LiveDead) ~> (d \in batch \/ d \notin LiveDead \/ calls[Resub] = MaxResub)

(* do_resub ends, so that the resub task gets back to its select and to    *)
(* the other durable subscriptions (its subscribe_vals call is made with a *)
(* timeout of 10 + max_tries seconds), as one would expect of it.          *)
DoResubAlwaysEnds == (batch # {}) ~> (batch = {})

(* What the code keeps of that: do_resub ends unless a publisher never     *)
(* answers the hello of a connection its call waits for, or a user asked   *)
(* for one of its paths without a timeout and is never answered.  One such *)
(* publisher holds up every durable subscription.                          *)
DoResubEnds ==
    \/ (batch # {}) ~> (batch = {})
    \/ <>[]HelloHolds
    \/ <>[]ParkedOnUntimed(Resub)

-----------------------------------------------------------------------------
(* The weak pointer of map m for d's path points to d. *)
InMap(m, d) == m[d[1]] = d[2]

(* A DVal that somebody holds is never forgotten: it is in durable_dead or *)
(* in durable_alive, whatever order unsubscribe, do_resub and              *)
(* durable_subscribe_val run in.                                           *)
LiveDValRegistered ==
    \A d \in DVals : DLive(d) => InMap(durable_dead, d) \/ InMap(durable_alive, d)

(* No lost wake-up: while durable_dead holds a live DVal, the resub task   *)
(* is running, or has a trigger_resub message to read, or has its retry    *)
(* timer armed (update_retry at the end of do_resub against the triggers   *)
(* sent by unsubscribe and durable_subscribe_val).                         *)
NoLostWakeup ==
    LiveDead # {} => trigger \/ retry \/ pc[Resub] # "idle"

(* The state a DVal reports agrees with the map it is in: in durable_dead  *)
(* it has no Val, in durable_alive it has one.                             *)
DurableStateMatchesMap ==
    \A d \in DVals : DLive(d) =>
        /\ InMap(durable_dead, d) => dval[d].sub = None
        /\ InMap(durable_alive, d) /\ ~InMap(durable_dead, d) => dval[d].sub # None

(* "A durable path appears in exactly one of durable_alive or              *)
(* durable_dead."                                                          *)
DurableInOneMap ==
    \A p \in Paths : durable_dead[p] = 0 \/ durable_alive[p] = 0

(* A durable subscription that counts as alive is subscribed: the Val in   *)
(* its sub field has its Sub in a running connection task.  Otherwise      *)
(* nothing will ever resubscribe it.                                       *)
DurableAliveIsSubscribed ==
    \A d \in DVals :
        DLive(d) /\ InMap(durable_alive, d) /\ dval[d].sub # None =>
            dval[d].sub \in LiveSubs(d[1])

(* What a listener registered with DVal::state_updates heard last is the   *)
(* state DVal::state reports: do_resub and unsubscribe tell the listeners  *)
(* of every change they make to ds.sub, in whatever order they, the        *)
(* registration and the connection's cleanup run.                          *)
ListenerHearsState ==
    \A d \in DVals :
        DLive(d) => \A l \in ToSet(dval[d].states) \cap DVStates : l = State(dval[d])

(* "The stream will not end when the subscription dies ... and will start  *)
(* again if resubscription is successful" (DVal::updates): the channel     *)
(* registered on a DVal is in the streams of the Sub its Val stands for,   *)
(* or a ToCon::Stream that will put it there is in the command channel of  *)
(* that connection, whether the channel was registered before, during or   *)
(* after the do_resub that made the subscription.                          *)
StreamIsAttached ==
    \A d \in DVals :
        LET v == dval[d].sub
        IN  DLive(d) /\ dval[d].streams = "open" /\ v # None /\ <<v[2], d[1]>> \in subs[v[1]] =>
                v \in streamed \/ \E last \in BOOLEAN : Contains(inbox[v[1]], StreamCmd(v[2], last, TRUE))

=============================================================================
