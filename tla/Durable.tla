------------------------------ MODULE Durable -------------------------------
(***************************************************************************)
(* Durable subscriptions: DVal handles and the resubscribe task that       *)
(* Subscriber::new starts (start_resub_task).  The task sleeps until       *)
(* trigger_resub carries a message or its retry timer fires, then runs     *)
(* do_resub: a snapshot of durable_dead under the lock, one subscribe_vals *)
(* call for the entries that are due, and under the lock again the         *)
(* bookkeeping of the results.                                             *)
(*                                                                         *)
(* Time is abstracted: a DVal whose tries is 0 has a next_try in the past  *)
(* and is always due; one that has failed is due whenever the model        *)
(* chooses.  The timeout of the call (10 + max_tries seconds) is the       *)
(* deadline flag of the call.                                              *)
(***************************************************************************)
EXTENDS Connection

NewDVal == [user |-> TRUE, sub |-> None, tries |-> 0,
            streams |-> "none", made |-> 0, states |-> <<>>]
NoDVal  == [NewDVal EXCEPT !.user = FALSE]

(* enum DVState, and DVal::state. *)
DVStates == {"Subscribed", "Unsubscribed"}
State(ds) == IF ds.sub = None THEN "Unsubscribed" ELSE "Subscribed"

(* retain(|c| !c.is_closed()), of the listeners and of the stream. *)
Open(states) == SelectSeq(states, LAMBDA l : l # "closed")
Retain(c)    == IF c = "closed" THEN "none" ELSE c

(* sub.0.connection.unbounded_send(ToCon::Stream {..}) for the stream of   *)
(* every DVal of D that has a Val in dv: the command reaches the task that *)
(* made the Val, if that task still runs.                                  *)
AttachTo(inb, dv, D, last) ==
    LET to(a) == {d \in D : dv[d].sub # None /\ dv[d].sub[1] = a /\ ValOpen(dv[d].sub)}
    IN  [a \in Addrs |->
           inb[a] \o SetToSeq({StreamCmd(dv[d].sub[2], last, TRUE) : d \in to(a)})]

(* Faulty variant of Attach: the streams go to the connection of the Val   *)
(* the DVal had before.                                                    *)
AttachToOld(inb, dv, D, last) == AttachTo(inb, dval, D, last)

Attach(inb, dv, D, last) == AttachTo(inb, dv, D, last)

(* DVal::updates(begin_with_last, tx): a closed channel leaves the streams *)
(* of the DVal, the user's joins them and, if the DVal is subscribed, is   *)
(* sent to the connection of its Val.  A DVal has one open channel at a    *)
(* time.                                                                   *)
DValUpdates(d, begin_with_last) ==
    /\ Streams
    /\ dval[d].user /\ dval[d].streams # "open" /\ dval[d].made < MaxStreams
    /\ dval' = [dval EXCEPT ![d].streams = "open", ![d].made = @ + 1]
    /\ inbox' = Attach(inbox, dval, {d}, begin_with_last)
    /\ UNCHANGED <<regVars, retry, batch, dgen, callVars, conSt, pending, subs, streamed,
                   idle, msg_recvd, pubVars, holders, panicked>>

(* DVal::state_updates(include_current, tx): the closed listeners go, the  *)
(* new one is told the current state first if it asks for it, and joins.   *)
DValStateUpdates(d, include_current) ==
    /\ Streams
    /\ dval[d].user /\ Len(Open(dval[d].states)) < MaxListeners
    /\ dval' = [dval EXCEPT ![d].states =
                   Append(Open(@), IF include_current THEN State(dval[d]) ELSE "quiet")]
    /\ UNCHANGED <<regVars, retry, batch, dgen, callVars, conVars, pubVars, holders, panicked>>

(* The user drops the receiver of listener i of a DVal. *)
CloseListener(d, i) ==
    /\ dval[d].user /\ i \in DOMAIN dval[d].states /\ dval[d].states[i] # "closed"
    /\ dval' = [dval EXCEPT ![d].states[i] = "closed"]
    /\ UNCHANGED <<regVars, retry, batch, dgen, callVars, conVars, pubVars, holders, panicked>>

(* The user drops the receiver of the stream of a DVal: the senders the    *)
(* DVal, the command channel and the Sub hold are closed from then on.     *)
CloseStream(d) ==
    /\ dval[d].user /\ dval[d].streams = "open"
    /\ dval' = [dval EXCEPT ![d].streams = "closed"]
    /\ inbox' = [a \in Addrs |->
                   [k \in DOMAIN inbox[a] |->
                      IF inbox[a][k].type = "Stream" /\ dval[d].sub = <<a, inbox[a][k].id>>
                      THEN [inbox[a][k] EXCEPT !.rx = FALSE] ELSE inbox[a][k]]]
    /\ streamed' = streamed \ {dval[d].sub}
    /\ UNCHANGED <<regVars, retry, batch, dgen, callVars, conSt, pending, subs, idle,
                   msg_recvd, pubVars, holders, panicked>>

(* Faulty variant of Registered: durable_dead is not looked at. *)
RegisteredAlive(p) == durable_alive[p]

(* The weak pointer durable_subscribe_val looks at: durable_dead first. *)
Registered(p) == IF durable_dead[p] # 0 THEN durable_dead[p] ELSE durable_alive[p]

(* ... and its upgrade succeeds. *)
Upgrades(p) == IF Registered(p) = 0 THEN FALSE ELSE DLive(<<p, Registered(p)>>)

(* durable_subscribe_val finds a DVal that is still alive and returns      *)
(* another pointer to it.                                                  *)
DurableClone(p) ==
    LET d == <<p, Registered(p)>>
    IN  /\ Upgrades(p)
        /\ ~dval[d].user
        /\ dval' = [dval EXCEPT ![d].user = TRUE]
        /\ UNCHANGED <<regVars, retry, batch, dgen, callVars, conVars, pubVars,
                       holders, panicked>>

(* durable_subscribe_val finds none: a new DVal goes into durable_dead and *)
(* the resub task is triggered.                                            *)
DurableCreate(p) ==
    /\ ~Upgrades(p)
    /\ dgen[p] < MaxGen
    /\ dgen' = [dgen EXCEPT ![p] = @ + 1]
    /\ dval' = [dval EXCEPT ![<<p, dgen[p] + 1>>] = NewDVal]
    /\ durable_dead' = [durable_dead EXCEPT ![p] = dgen[p] + 1]
    /\ trigger' = TRUE
    /\ UNCHANGED <<subscribed, connections, durable_alive, retry, batch, callVars,
                   conVars, pubVars, holders, panicked>>

(* The user drops its pointers to a DVal.  Unless do_resub holds one, the  *)
(* DValInner is dropped and with it the Val in its sub field.              *)
DropDVal(d) ==
    /\ dval[d].user
    /\ LET dies == d \notin batch
       IN  /\ dval' = [dval EXCEPT ![d] = IF dies THEN NoDVal ELSE [@ EXCEPT !.user = FALSE]]
           /\ holders' = ReleaseAll(holders, IF dies /\ dval[d].sub # None
                                             THEN {<<d, dval[d].sub>>} ELSE {})
    /\ UNCHANGED <<regVars, retry, batch, dgen, callVars, conVars, pubVars, panicked>>

-----------------------------------------------------------------------------
(* Faulty variant of UpdateRetry: the timer is never armed again. *)
UpdateRetryNever(dead, live) == FALSE

(* update_retry: the timer is armed iff durable_dead holds a live DVal. *)
UpdateRetry(dead, live) == \E p \in Paths : dead[p] # 0 /\ <<p, dead[p]>> \in live

LiveDead == {d \in DVals : durable_dead[d[1]] = d[2] /\ DLive(d)}

(* The resub task wakes, by a trigger_resub message or by its timer. *)
Wakes(by) ==
    /\ pc[Resub] = "idle"
    /\ \/ by = "trigger" /\ trigger /\ trigger' = FALSE
       \/ by = "retry" /\ retry /\ UNCHANGED trigger

(* do_resub, first half: entries whose DVal is gone are collected, those   *)
(* that are due, S, make the batch.                                        *)
Snapshot(S) ==
    /\ S \subseteq LiveDead
    /\ {d \in LiveDead : dval[d].tries = 0} \subseteq S
    /\ durable_dead' = [p \in Paths |->
                          IF <<p, durable_dead[p]>> \in LiveDead THEN durable_dead[p] ELSE 0]

(* Nothing is due: only the timer is set again. *)
DoResubNothing(by) ==
    /\ Wakes(by)
    /\ Snapshot({})
    /\ retry' = UpdateRetry(durable_dead', LiveDead)
    /\ UNCHANGED <<subscribed, connections, durable_alive, batch, dval, dgen, callVars,
                   conVars, pubVars, holders, panicked>>

(* Something is due: do_resub keeps pointers to the batch and goes on to   *)
(* call subscribe_vals.                                                    *)
DoResubStart(by, S) ==
    /\ Wakes(by)
    /\ S # {} /\ calls[Resub] < MaxResub
    /\ Snapshot(S)
    /\ batch' = S
    /\ pc' = [pc EXCEPT ![Resub] = "start"]
    /\ calls' = [calls EXCEPT ![Resub] = @ + 1]
    /\ UNCHANGED <<subscribed, connections, durable_alive, retry, dval, dgen,
                   st, mbox, todo, cur, deadline, twice, held,
                   conVars, pubVars, holders, panicked>>

(* subscribe_vals(batch.keys(), Some(timeout)), Init. *)
DoResubSubscribe ==
    /\ pc[Resub] = "start"
    /\ Begin(Resub, {d[1] : d \in batch}, {}, TRUE)
    /\ UNCHANGED <<connections, durable_dead, durable_alive, trigger, durVars,
                   todo, cur, held, calls, conVars, pubVars, panicked>>

(* do_resub, second half, under the lock: a failed path counts a try, a    *)
(* subscribed one resets tries, tells its listeners, sends its streams to  *)
(* the new connection, takes the Val into ds.sub and moves from            *)
(* durable_dead to durable_alive.  Then the timer is set and the batch is  *)
(* dropped, and with it every DVal that nobody else points to.             *)
DoResubFinish ==
    /\ pc[Resub] = "wait" /\ todo[Resub] = {}
    /\ LET res(d) == st[Resub][d[1]]
           ok     == {d \in batch : res(d).tag = "Subscribed"}
           dies   == {d \in batch : ~dval[d].user}
           dv1    == [d \in DVals |->
                        IF d \notin batch THEN dval[d]
                        ELSE IF d \in ok THEN [dval[d] EXCEPT !.tries = 0, !.sub = res(d).val,
                                                       !.states = SendState(@, "Subscribed"),
                                                       !.streams = Retain(@)]
                        ELSE [dval[d] EXCEPT !.tries = IF @ < MaxTries THEN @ + 1 ELSE @]]
           hold1  == [v \in Vals |-> holders[v] \cup {d \in ok : res(d).val = v}]
           gone   == ({Resub} \X InHand(Resub))
                        \cup {<<d, dval[d].sub>> : d \in {e \in ok : dval[e].sub # res(e).val}}
                        \cup {<<d, dv1[d].sub>> : d \in dies}
       IN  /\ dval' = [d \in DVals |-> IF d \in dies THEN NoDVal ELSE dv1[d]]
           /\ durable_dead' = [p \in Paths |->
                                 IF \E d \in ok : d[1] = p THEN 0 ELSE durable_dead[p]]
           /\ durable_alive' = [p \in Paths |->
                                 IF \E d \in ok : d[1] = p THEN durable_dead[p]
                                 ELSE durable_alive[p]]
           /\ panicked' = (panicked \/ \E d \in ok : durable_dead[d[1]] = 0)
           /\ retry' = UpdateRetry(durable_dead', {d \in DVals : DLive(d)})
           /\ holders' = ReleaseAll(hold1, gone)
           /\ inbox' = Attach(inbox, dv1, {d \in ok : dval[d].streams = "open"}, TRUE)
    /\ batch' = {}
    /\ Idle(Resub)
    /\ UNCHANGED <<subscribed, connections, trigger, dgen, held, calls,
                   conSt, pending, subs, streamed, idle, msg_recvd, pubVars>>

=============================================================================
