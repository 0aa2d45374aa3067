------------------------------ MODULE Registry ------------------------------
(***************************************************************************)
(* The subscriber's registry (struct SubscriberInner, guarded by one       *)
(* mutex) and the subscribe_vals pipeline that every caller runs against   *)
(* it: Init/dedup, resolve, connect+subscribe, wait.  Each critical        *)
(* section of the code is one atomic action; the awaits between them are   *)
(* the points where other tasks interleave.                                *)
(*                                                                         *)
(* This module declares the state of the whole subscriber, because the     *)
(* registry, the connection tasks and the resubscribe task share it.       *)
(* Connection.tla and Durable.tla add the actions of those tasks and       *)
(* Subscriber.tla composes them.                                           *)
(***************************************************************************)
EXTENDS Naturals, FiniteSets, Sequences, SequencesExt

CONSTANTS
    Paths,        \* the paths anybody subscribes to
    Addrs,        \* the publishers' socket addresses
    Users,        \* user tasks that call subscribe_vals
    Resub,        \* the resubscribe task, the one internal caller
    None,         \* "no value": an absent Option, an empty oneshot
    Cancellable,  \* the users whose subscribe_vals future may be dropped
    MaxId,        \* bound: protocol ids a publisher hands out
    MaxCalls,     \* bound: subscribe_vals calls per user
    MaxTries,     \* bound: DValInner.tries saturates here
    MaxGen,       \* bound: DVal objects created per path
    MaxResub,     \* bound: do_resub rounds that call subscribe_vals
    Timeouts,     \* the timeouts users call with: TRUE is Some(d), FALSE is None
    Repeats,      \* the batches users pass may name a path twice
    Auth,         \* desired_auth: "Anonymous" or "Krb5"
    Streams,      \* users register streams and state listeners on their DVals
    MaxListeners, \* bound: listeners registered on a DVal at a time
    MaxStreams    \* bound: DVal::updates calls per DVal

Callers == Users \cup {Resub}
Ids     == 1..MaxId
Vals    == Addrs \X Ids            \* a ValInner: <<addr, id>>
DVals   == Paths \X (1..MaxGen)    \* a DValInner: <<path, generation>>

VARIABLES
    subscribed,     \* SubscriberInner.subscribed: path -> SubStatus
    connections,    \* SubscriberInner.connections: the addrs with a sender
    durable_dead,   \* path -> generation of the DVal the weak points to, 0 = no entry
    durable_alive,  \* the same for SubscriberInner.durable_alive
    trigger,        \* trigger_resub holds an unread message
    retry,          \* the resub task's retry timer is armed
    batch,          \* the DVals the running do_resub holds strong pointers to
    dval,           \* DVal -> [user, sub, tries, streams, made, states]
    dgen,           \* path -> number of DVals created for it
    holders,        \* Val -> who holds a strong pointer to it
    pc, st, mbox, todo, cur, deadline, twice, held, calls,  \* one subscribe_vals call per caller
    conSt, inbox, pending, subs, streamed, idle, msg_recvd,   \* one connection task per addr
    toPub, fromPub, pubSubs, nextId, conBase,          \* the wire and the publisher
    panicked        \* an unreachable!() or unwrap() of the code was hit

regVars  == <<subscribed, connections, durable_dead, durable_alive, trigger>>
durVars  == <<retry, batch, dval, dgen>>
callVars == <<pc, st, mbox, todo, cur, deadline, twice, held, calls>>
conVars  == <<conSt, inbox, pending, subs, streamed, idle, msg_recvd>>
pubVars  == <<toPub, fromPub, pubSubs, nextId, conBase>>
vars     == <<regVars, durVars, callVars, conVars, pubVars, holders, panicked>>

-----------------------------------------------------------------------------
(* enum SubStatus, with "Vacant" for a path that has no entry. *)
Vacant        == [tag |-> "Vacant", waiters |-> {}, val |-> None]
Pending(W)    == [tag |-> "Pending", waiters |-> W, val |-> None]
Subscribed(v) == [tag |-> "Subscribed", waiters |-> {}, val |-> v]

(* enum St, the caller's view of one path of its batch. *)
St(t, v) == [tag |-> t, val |-> v]
NoSt     == St("None", None)

(* What a oneshot carries: Err(_) or Ok(val).  An empty oneshot is None. *)
Err   == [val |-> None]
Ok(v) == [val |-> v]

(* ToCon, the commands of a connection task.  ToCon::Unsubscribe is not    *)
(* among them: its one sender is Drop for ValInner, which never sends it.  *)
SubscribeCmd(p, c, d) == [type |-> "Subscribe", path |-> p, caller |-> c, deadline |-> d]
StreamCmd(i, last, rx) ==        \* rx: the Sender tx still has its receiver
    [type |-> "Stream", id |-> i, last |-> last, rx |-> rx]

(* ValWeak::upgrade and DValWeak::upgrade succeed while a strong pointer is left. *)
Alive(v) == holders[v] # {}
DLive(d) == dval[d].user \/ d \in batch

(* The receiver of a connection's command channel exists. *)
ConOpen(a) == conSt[a] \in {"connecting", "hello", "running", "sending"}

(* ValInner.connection still reaches the task that created the Val. *)
ValOpen(v) == ConOpen(v[1]) /\ v[2] >= conBase[v[1]]

(* The oneshot receiver caller c keeps for path p, with nothing sent yet. *)
RxOpen(c, p, tag) ==
    /\ pc[c] \in {"resolve", "wait"}
    /\ st[c][p].tag = tag
    /\ mbox[c][p] = None

(* Faulty variant of Notify: the waiters are taken out of the entry and     *)
(* nothing is sent to them.                                                *)
NotifyNobody(mb, W, p, r) == mb

(* w.send(r) for every waiter of a Pending entry. *)
Notify(mb, W, p, r) ==
    [c \in Callers |->
        IF c \in W /\ RxOpen(c, p, "WaitingOther") THEN [mb[c] EXCEPT ![p] = r] ELSE mb[c]]

(* The pointers HV, pairs <<holder, Val>>, are dropped.  Drop for ValInner  *)
(* runs for every Val that loses its last one.  It calls connection.send   *)
(* with ToCon::Unsubscribe(id): on an UnboundedSender that is SinkExt's    *)
(* send, which builds a future and sends when the future is polled, and    *)
(* this one is dropped at once.  Nothing reaches the connection task.      *)
ReleaseAll(hold, HV) == [v \in Vals |-> hold[v] \ {h \in hold[v] : <<h, v>> \in HV}]

Release(hold, h, V) == ReleaseAll(hold, {h} \X V)

(* Faulty variant of Tell: the index moves on after a removal as well. *)
RECURSIVE TellSkips(_, _, _)
TellSkips(states, i, s) ==
    IF i > Len(states) THEN states
    ELSE TellSkips(IF states[i] = "closed" THEN RemoveAt(states, i)
                   ELSE ReplaceAt(states, i, s), i + 1, s)

(* The loop over ds.states from index i on: unbounded_send((sub_id, s)) to *)
(* each listener, s being what it has heard last from then on, and a       *)
(* listener whose receiver is gone is removed, the index staying where it  *)
(* is.                                                                     *)
RECURSIVE Tell(_, _, _)
Tell(states, i, s) ==
    IF i > Len(states) THEN states
    ELSE IF states[i] = "closed" THEN Tell(RemoveAt(states, i), i, s)
    ELSE Tell(ReplaceAt(states, i, s), i + 1, s)

SendState(states, s) == Tell(states, 1, s)

(* Faulty variant of Undurable: the DVal keeps its Val when it moves to     *)
(* durable_dead.                                                           *)
UndurableKeepsSub(r, p) ==
    LET g    == r.alive[p]
        live == g # 0 /\ DLive(<<p, g>>)
    IN  [r EXCEPT !.alive[p] = 0,
                  !.dead = IF live THEN [r.dead EXCEPT ![p] = g] ELSE r.dead,
                  !.trig = r.trig \/ live]

(* fn unsubscribe, first half: the entry of path p leaves durable_alive.   *)
(* If its DVal is still there, the DVal drops its Val, goes to             *)
(* durable_dead, and the resub task is triggered.  r carries the fields of *)
(* the registry that unsubscribe reads and writes, so that a connection's  *)
(* cleanup can apply it to one Sub after another.                          *)
Undurable(r, p) ==
    LET g    == r.alive[p]
        d    == <<p, g>>
        live == g # 0 /\ DLive(d)
    IN  [r EXCEPT !.alive[p] = 0,
                  !.dead = IF live THEN [r.dead EXCEPT ![p] = g] ELSE r.dead,
                  !.dv   = IF live THEN [r.dv EXCEPT ![d].sub = None,
                                                  ![d].states = SendState(@, "Unsubscribed")]
                         ELSE r.dv,
                  !.hold = IF live /\ r.dv[d].sub # None
                           THEN Release(r.hold, d, {r.dv[d].sub}) ELSE r.hold,
                  !.trig = r.trig \/ live]

(* Faulty variants of Forgets: Pending entries are removed as well; the    *)
(* entry is removed whatever subscription it belongs to.                   *)
ForgetsPending(e, hold, v) == e.tag # "Vacant"
ForgetsAnyId(e, hold, v)   == e.tag = "Subscribed"

(* fn unsubscribe, second half: the entry e of the path is removed if it   *)
(* is Subscribed and its Val is gone or is v, the one unsubscribed.        *)
Forgets(e, hold, v) == e.tag = "Subscribed" /\ (hold[e.val] = {} \/ e.val = v)

(* fn unsubscribe(subscriber, sub, id, addr), for the Sub of path p and    *)
(* the Val v = <<addr, id>>.                                               *)
Unsubscribe(r, p, v) ==
    LET u == Undurable(r, p)
    IN  IF Forgets(u.sub[p], u.hold, v) THEN [u EXCEPT !.sub[p] = Vacant] ELSE u

-----------------------------------------------------------------------------
(* subscribe_vals, Init: under the lock, every path of the batch is        *)
(* claimed (Resolve), joined (WaitingOther) or taken from the registry.    *)
InitEntry(c, e) ==
    CASE e.tag = "Vacant"     -> Pending({})
      [] e.tag = "Pending"    -> Pending(e.waiters \cup {c})
      [] e.tag = "Subscribed" -> IF Alive(e.val) THEN e ELSE Pending({})

(* Faulty variant of InitSt: a caller that finds a Pending entry resolves   *)
(* the path itself instead of waiting for the owner.                       *)
InitStNoJoin(e) ==
    IF e.tag = "Subscribed" /\ Alive(e.val) THEN St("Subscribed", e.val)
                                            ELSE St("Resolve", None)

InitSt(e) ==
    CASE e.tag = "Vacant"     -> St("Resolve", None)
      [] e.tag = "Pending"    -> St("WaitingOther", None)
      [] e.tag = "Subscribed" -> IF Alive(e.val) THEN St("Subscribed", e.val)
                                                 ELSE St("Resolve", None)

(* The batches a user may pass: R is the part of B that is named twice. *)
Repeated(B) == IF Repeats THEN SUBSET B ELSE {{}}

(* The loop over `paths` takes a path named twice twice: the second time   *)
(* it finds the entry the first time left, and its St replaces the first   *)
(* in the caller's map.                                                    *)
Begin(c, B, R, d) ==
    LET found(p) == IF p \in R THEN InitEntry(c, subscribed[p]) ELSE subscribed[p]
    IN  /\ subscribed' = [p \in Paths |->
                            IF p \in B THEN InitEntry(c, found(p)) ELSE subscribed[p]]
        /\ st' = [st EXCEPT ![c] = [p \in Paths |->
                            IF p \in B THEN InitSt(found(p)) ELSE NoSt]]
        /\ holders' = [v \in Vals |->
                            IF \E p \in B : subscribed[p] = Subscribed(v) /\ Alive(v)
                            THEN holders[v] \cup {c} ELSE holders[v]]
        /\ twice' = [twice EXCEPT ![c] = R]
        /\ pc' = [pc EXCEPT ![c] = "resolve"]
        /\ deadline' = [deadline EXCEPT ![c] = d]
        /\ mbox' = [mbox EXCEPT ![c] = [p \in Paths |-> None]]

(* A user task calls subscribe_vals(batch, timeout). *)
SubscribeVals(c, B, R, d) ==
    /\ c \in Users /\ pc[c] = "idle" /\ calls[c] < MaxCalls
    /\ B # {}
    /\ Begin(c, B, R, d)
    /\ calls' = [calls EXCEPT ![c] = @ + 1]
    /\ UNCHANGED <<connections, durable_dead, durable_alive, trigger, durVars,
                   todo, cur, held, conVars, pubVars, panicked>>

(* subscribe_val(path, timeout): a batch of one path, whose only result is *)
(* the one returned.                                                       *)
SubscribeVal(c, p, d) == SubscribeVals(c, {p}, {}, d)

ToResolve(c) == {p \in Paths : st[c][p].tag = "Resolve"}
Unsettled(s) == {p \in Paths : s[p].tag \notin {"None", "Subscribed"}}

(* The resolver call timed out or failed: every path it was asked for is   *)
(* an error.                                                               *)
ResolveFail(c) ==
    /\ pc[c] = "resolve"
    /\ LET s == [p \in Paths |-> IF p \in ToResolve(c) THEN St("Error", None) ELSE st[c][p]]
       IN  /\ st' = [st EXCEPT ![c] = s]
           /\ todo' = [todo EXCEPT ![c] = Unsettled(s)]
    /\ pc' = [pc EXCEPT ![c] = "wait"]
    /\ UNCHANGED <<regVars, durVars, mbox, cur, deadline, twice, held, calls,
                   conVars, pubVars, holders, panicked>>

(* The resolver answered.  pick[p] is the address chosen for p (None: no   *)
(* publisher), order the order the paths are walked in.  Under the lock    *)
(* the connection task is spawned if the address has no sender, and the    *)
(* request is sent; a send to a closed channel is an error for that path.  *)
ResolveOk(c, pick, order) ==
    /\ pc[c] = "resolve"
    /\ LET to    == ToResolve(c)
           spawn == {a \in Addrs \ connections : \E p \in to : pick[p] = a}
           open  == {a \in Addrs : a \in spawn \/ ConOpen(a)}
           reqs  == [i \in 1..Len(order) |-> SubscribeCmd(order[i], c, deadline[c])]
           s     == [p \in Paths |->
                       IF p \notin to THEN st[c][p]
                       ELSE IF pick[p] \in open THEN St("Subscribing", None)
                       ELSE St("Error", None)]
       IN  /\ connections' = connections \cup spawn
           /\ conSt' = [a \in Addrs |-> IF a \in spawn THEN "connecting" ELSE conSt[a]]
           /\ inbox' = [a \in open |->
                          inbox[a] \o SelectSeq(reqs, LAMBDA r : pick[r.path] = a)]
                       @@ inbox
           /\ st' = [st EXCEPT ![c] = s]
           /\ todo' = [todo EXCEPT ![c] = Unsettled(s)]
    /\ pc' = [pc EXCEPT ![c] = "wait"]
    /\ UNCHANGED <<subscribed, durable_dead, durable_alive, trigger, durVars,
                   mbox, cur, deadline, twice, held, calls, pending, subs, streamed, idle, msg_recvd,
                   pubVars, holders, panicked>>

(* Wait: the loop over the caller's local map.  cur[c] is the path whose   *)
(* oneshot the caller is parked on; it visits nothing else until that      *)
(* oneshot is filled.                                                      *)
MayVisit(c, p) ==
    /\ pc[c] = "wait"
    /\ p \in todo[c]
    /\ cur[c] \in {None, p}

Settle(c, p, s) ==
    /\ st' = [st EXCEPT ![c][p] = s]
    /\ mbox' = [mbox EXCEPT ![c][p] = None]
    /\ todo' = [todo EXCEPT ![c] = @ \ {p}]
    /\ cur' = [cur EXCEPT ![c] = None]

(* w.await on an empty oneshot: the caller parks. *)
Await(c, p) ==
    /\ MayVisit(c, p) /\ cur[c] = None
    /\ st[c][p].tag \in {"WaitingOther", "Subscribing"}
    /\ mbox[c][p] = None
    /\ cur' = [cur EXCEPT ![c] = p]
    /\ UNCHANGED <<regVars, durVars, pc, st, mbox, todo, deadline, twice, held, calls,
                   conVars, pubVars, holders, panicked>>

(* Faulty variant of Received: the Ok(Err(e)) arm is missing. *)
ReceivedUnchecked(r) == St("Subscribed", r.val)

(* What a caller makes of the result r its oneshot yields. *)
Received(r) == IF r = Err THEN St("Error", None) ELSE St("Subscribed", r.val)

(* Faulty variant of Completed: on an error the entry is left in place. *)
CompletedKeepsPending(r) == IF r = Err THEN Pending({}) ELSE Subscribed(r.val)

(* What the owner makes of its Pending entry when the answer r is there. *)
Completed(r) == IF r = Err THEN Vacant ELSE Subscribed(r.val)

(* St::Error: the owner takes its entry out and fails the waiters. *)
VisitError(c, p) ==
    /\ MayVisit(c, p)
    /\ st[c][p].tag = "Error"
    /\ subscribed' = [subscribed EXCEPT ![p] = Vacant]
    /\ mbox' = Notify(mbox, subscribed[p].waiters, p, Err)
    /\ panicked' = (panicked \/ subscribed[p].tag = "Subscribed")
    /\ todo' = [todo EXCEPT ![c] = @ \ {p}]
    /\ UNCHANGED <<connections, durable_dead, durable_alive, trigger, durVars,
                   pc, st, cur, deadline, twice, held, calls, conVars, pubVars, holders>>

(* St::WaitingOther: the waiter takes what the owner sent. *)
VisitWaiting(c, p) ==
    /\ MayVisit(c, p)
    /\ st[c][p].tag = "WaitingOther"
    /\ mbox[c][p] # None
    /\ Settle(c, p, Received(mbox[c][p]))
    /\ UNCHANGED <<regVars, durVars, pc, deadline, twice, held, calls,
                   conVars, pubVars, holders, panicked>>

(* St::Subscribing: the owner takes the connection's answer and, under the *)
(* lock, turns its Pending entry into Subscribed(weak) or removes it, and  *)
(* passes the outcome on to the waiters.                                   *)
VisitSubscribing(c, p) ==
    /\ MayVisit(c, p)
    /\ st[c][p].tag = "Subscribing"
    /\ mbox[c][p] # None
    /\ LET res == mbox[c][p]
           e   == subscribed[p]
           got == {w \in e.waiters : RxOpen(w, p, "WaitingOther")}
       IN  /\ subscribed' = [subscribed EXCEPT ![p] = Completed(res)]
           /\ st' = [st EXCEPT ![c][p] = Received(res)]
           /\ mbox' = [Notify(mbox, e.waiters, p, res) EXCEPT ![c][p] = None]
           /\ holders' = IF res = Err THEN holders
                         ELSE [holders EXCEPT ![res.val] = @ \cup got]
           /\ panicked' = (panicked \/ e.tag # "Pending")
    /\ todo' = [todo EXCEPT ![c] = @ \ {p}]
    /\ cur' = [cur EXCEPT ![c] = None]
    /\ UNCHANGED <<connections, durable_dead, durable_alive, trigger, durVars,
                   pc, deadline, twice, held, calls, conVars, pubVars>>

(* The Vals a caller's running call holds: in its local map and in its     *)
(* oneshots.                                                               *)
InHand(c) == {v \in Vals : \E p \in Paths : st[c][p].val = v \/ mbox[c][p] = Ok(v)}

Idle(c) ==
    /\ pc' = [pc EXCEPT ![c] = "idle"]
    /\ st' = [st EXCEPT ![c] = [p \in Paths |-> NoSt]]
    /\ mbox' = [mbox EXCEPT ![c] = [p \in Paths |-> None]]
    /\ todo' = [todo EXCEPT ![c] = {}]
    /\ cur' = [cur EXCEPT ![c] = None]
    /\ deadline' = [deadline EXCEPT ![c] = FALSE]
    /\ twice' = [twice EXCEPT ![c] = {}]

(* subscribe_vals returns: the user now owns the Vals of the result.  The  *)
(* result is built by pending.remove(&p).unwrap() for every element of     *)
(* `paths`, which finds nothing the second time a path comes.              *)
Return(c) ==
    /\ c \in Users /\ pc[c] = "wait" /\ todo[c] = {}
    /\ held' = [held EXCEPT ![c] = @ \cup InHand(c)]
    /\ panicked' = (panicked \/ twice[c] # {})
    /\ Idle(c)
    /\ UNCHANGED <<regVars, durVars, calls, conVars, pubVars, holders>>

(* The user drops the subscribe_vals future (a time::timeout around it     *)
(* fired): its local map and its oneshot receivers go, the registry is     *)
(* not touched.                                                            *)
Cancel(c) ==
    /\ c \in Cancellable /\ pc[c] \in {"resolve", "wait"}
    /\ holders' = Release(holders, c, InHand(c) \ held[c])
    /\ Idle(c)
    /\ UNCHANGED <<regVars, durVars, held, calls, conVars, pubVars, panicked>>

(* The user drops its last clone of a Val. *)
DropVal(c, v) ==
    /\ c \in Users /\ pc[c] = "idle" /\ v \in held[c]
    /\ held' = [held EXCEPT ![c] = @ \ {v}]
    /\ holders' = Release(holders, c, {v})
    /\ UNCHANGED <<regVars, durVars, pc, st, mbox, todo, cur, deadline, twice, calls,
                   conVars, pubVars, panicked>>

=============================================================================
