----------------------------- MODULE Connection -----------------------------
(***************************************************************************)
(* The connection task (async fn connection), one per publisher address,   *)
(* and the publisher at the other end of its socket.  Every arm of the     *)
(* task's select loop is an action; process_batch is taken one message at  *)
(* a time, because the registry lock is taken and released per message.    *)
(*                                                                         *)
(* queue_send and the try_flush that follows it are one append to toPub:   *)
(* a queued message that is never flushed is a message lost with the       *)
(* connection, which ConError already produces.                            *)
(*                                                                         *)
(* The publisher is not part of this repository.  Its actions follow the   *)
(* protocol description: it answers To::Subscribe with Subscribed(path,    *)
(* id) under an id it has not used before, or refuses; it answers          *)
(* To::Unsubscribe(id) of a subscribed id with Unsubscribed(id); it may    *)
(* unsubscribe a client by itself.                                         *)
(***************************************************************************)
EXTENDS Registry

(* protocol::publisher::v1::To and From, without the values they carry.    *)
(* NoSuchValue and Denied are one message, Rejected: the task treats them  *)
(* alike.                                                                  *)
ToSubscribe(p)      == [type |-> "Subscribe", path |-> p]
ToUnsubscribe(i)    == [type |-> "Unsubscribe", id |-> i]
FromSubscribed(p, i) == [type |-> "Subscribed", path |-> p, id |-> i]
FromRejected(p)     == [type |-> "Rejected", path |-> p]
FromUnsubscribed(i) == [type |-> "Unsubscribed", id |-> i]

Running(a) == conSt[a] = "running"

(* The requests a connection task owns: read into pending, or still in its *)
(* command channel.                                                        *)
PendingReqs(a) == {pending[a][p] : p \in Paths} \ {None}
InboxReqs(a)   == {m \in ToSet(inbox[a]) : m.type = "Subscribe"}

(* Faulty variant of Fail: the requests are taken away without an answer. *)
FailNobody(mb, R) == mb

(* req.finished.send(Err(_)), or req.finished dropped, for the requests R. *)
Fail(mb, R) ==
    [c \in Callers |-> [p \in Paths |->
        IF (\E r \in R : r.caller = c /\ r.path = p) /\ RxOpen(c, p, "Subscribing")
        THEN Err ELSE mb[c][p]]]

(* The locals of a task that is not running, as line 1028-1032 makes them. *)
NoPending == [p \in Paths |-> None]

-----------------------------------------------------------------------------
(* The task moves on in its setup, from connect to hello to the loop. *)
Setup(a, from, to) ==
    /\ conSt[a] = from
    /\ conSt' = [conSt EXCEPT ![a] = to]
    /\ UNCHANGED <<regVars, durVars, callVars, inbox, pending, subs, streamed, idle, msg_recvd,
                   pubVars, holders, panicked>>

(* The `?` of lines 1034-1035 returns from the task.  Its command receiver *)
(* is dropped with every request in it; the registry is not touched.       *)
GiveUp(a, from) ==
    /\ conSt[a] = from
    /\ conSt' = [conSt EXCEPT ![a] = "failed"]
    /\ mbox' = Fail(mbox, InboxReqs(a))
    /\ inbox' = [inbox EXCEPT ![a] = <<>>]
    /\ UNCHANGED <<regVars, durVars, pc, st, todo, cur, deadline, twice, held, calls,
                   pending, subs, streamed, idle, msg_recvd, pubVars, holders, panicked>>

(* TcpStream::connect returned a socket within PERIOD, or it did not. *)
Connected(a)   == Setup(a, "connecting", "hello")
ConnectFail(a) == GiveUp(a, "connecting")

(* What the hello exchange can bring: the peer's Hello, a Token that makes *)
(* ctx.step produce another, or an error of the socket, of the version     *)
(* exchange or of the security context.  The version the peer answers is   *)
(* read and not looked at.                                                 *)
HelloReplies == {"Anonymous", "Token", "TokenAgain", "ResolverAuthenticate", "Error"}

(* hello_publisher takes the reply: the peer answered in kind. *)
HelloAccepts(reply) ==
    \/ Auth = "Anonymous" /\ reply = "Anonymous"
    \/ Auth = "Krb5" /\ reply = "Token"

(* hello_publisher ends when the peer has answered: nothing bounds the    *)
(* receives it awaits, and the task stays in "hello" for as long as the    *)
(* peer says nothing.                                                      *)
HelloOk(a, reply)   == HelloAccepts(reply) /\ Setup(a, "hello", "running")
HelloFail(a, reply) == ~HelloAccepts(reply) /\ GiveUp(a, "hello")

(* The cleanup after the main loop: under the registry lock the sender is  *)
(* removed, every Sub is unsubscribed in the order the map yields them and *)
(* every pending request is failed.  Then the task ends: the socket closes *)
(* and the command receiver is dropped.                                    *)
Cleanup(a, order) ==
    LET reg == [sub |-> subscribed, alive |-> durable_alive, dead |-> durable_dead,
                dv |-> dval, hold |-> holders, trig |-> trigger]
        r   == FoldLeft(LAMBDA acc, s : Unsubscribe(acc, s[2], <<a, s[1]>>), reg, order)
    IN  /\ connections' = connections \ {a}
        /\ subscribed' = r.sub
        /\ durable_alive' = r.alive
        /\ durable_dead' = r.dead
        /\ dval' = r.dv
        /\ holders' = r.hold
        /\ trigger' = r.trig
        /\ inbox' = [inbox EXCEPT ![a] = <<>>]
        /\ mbox' = Fail(mbox, PendingReqs(a) \cup InboxReqs(a))
        /\ conSt' = [conSt EXCEPT ![a] = "none"]
        /\ pending' = [pending EXCEPT ![a] = NoPending]
        /\ subs' = [subs EXCEPT ![a] = {}]
        /\ streamed' = {v \in streamed : v[1] # a}
        /\ idle' = [idle EXCEPT ![a] = 0]
        /\ msg_recvd' = [msg_recvd EXCEPT ![a] = FALSE]
        /\ toPub' = [toPub EXCEPT ![a] = <<>>]
        /\ fromPub' = [fromPub EXCEPT ![a] = <<>>]
        /\ pubSubs' = [pubSubs EXCEPT ![a] = {}]
        /\ conBase' = [conBase EXCEPT ![a] = nextId[a]]
        /\ UNCHANGED <<retry, batch, dgen, pc, st, todo, cur, deadline, twice, held, calls,
                       nextId, panicked>>

(* The socket failed or reached EOF, a flush found it closed: break. *)
ConError(a, order) ==
    /\ Running(a)
    /\ Cleanup(a, order)

(* periodic, no message since the last tick: "hung publisher". *)
TickHung(a, order) ==
    /\ Running(a)
    /\ ~msg_recvd[a]
    /\ Cleanup(a, order)

(* periodic, nothing subscribed and nothing pending for the second tick in *)
(* a row: the task ends.                                                   *)
TickIdleExit(a) ==
    /\ Running(a)
    /\ msg_recvd[a]
    /\ subs[a] = {} /\ PendingReqs(a) = {}
    /\ idle[a] + 1 = 2
    /\ Cleanup(a, <<>>)

(* periodic, otherwise: the idle count moves, and the pending requests     *)
(* whose deadline has passed, T, are failed with "timed out".              *)
Tick(a, T) ==
    /\ Running(a)
    /\ msg_recvd[a]
    /\ msg_recvd' = [msg_recvd EXCEPT ![a] = FALSE]
    /\ LET quiet == subs[a] = {} /\ PendingReqs(a) = {}
       IN  /\ quiet => idle[a] + 1 < 2
           /\ idle' = [idle EXCEPT ![a] = IF quiet THEN @ + 1 ELSE 0]
    /\ T \subseteq {r \in PendingReqs(a) : r.deadline}
    /\ pending' = [pending EXCEPT ![a] =
                     [p \in Paths |-> IF pending[a][p] \in T THEN None ELSE pending[a][p]]]
    /\ mbox' = Fail(mbox, T)
    /\ UNCHANGED <<regVars, durVars, pc, st, todo, cur, deadline, twice, held, calls,
                   conSt, inbox, subs, streamed, pubVars, holders, panicked>>

(* from_sub yields ToCon::Subscribe: the request is remembered under its   *)
(* path, replacing one that was there, and To::Subscribe is sent.          *)
ConSubscribe(a) ==
    /\ Running(a)
    /\ inbox[a] # <<>> /\ Head(inbox[a]).type = "Subscribe"
    /\ LET req == Head(inbox[a])
       IN  /\ pending' = [pending EXCEPT ![a][req.path] = req]
           /\ mbox' = Fail(mbox, {pending[a][req.path]} \ {None, req})
           /\ toPub' = [toPub EXCEPT ![a] = Append(@, ToSubscribe(req.path))]
    /\ inbox' = [inbox EXCEPT ![a] = Tail(@)]
    /\ UNCHANGED <<regVars, durVars, pc, st, todo, cur, deadline, twice, held, calls,
                   conSt, subs, streamed, idle, msg_recvd, fromPub, pubSubs, nextId, conBase,
                   holders, panicked>>

(* from_sub yields ToCon::Stream, sent by DVal::updates or by do_resub:    *)
(* the channel joins the streams of the Sub, if the Sub is still there.    *)
(* With `last` the last value is sent to the channel first, and a send     *)
(* that fails because the receiver is gone ends the arm.  streamed names   *)
(* the Subs that hold a channel with a receiver: a closed one the Sub      *)
(* keeps until its next retain or failed send is left out.                 *)
StreamArm(a, from) ==
    /\ conSt[a] = from
    /\ inbox[a] # <<>> /\ Head(inbox[a]).type = "Stream"
    /\ LET m == Head(inbox[a])
       IN  streamed' = IF m.rx /\ \E s \in subs[a] : s[1] = m.id
                       THEN streamed \cup {<<a, m.id>>} ELSE streamed
    /\ inbox' = [inbox EXCEPT ![a] = Tail(@)]
    /\ conSt' = [conSt EXCEPT ![a] = "running"]
    /\ UNCHANGED <<regVars, durVars, callVars, pending, subs, idle, msg_recvd,
                   pubVars, holders, panicked>>

(* The arm runs through: nothing is sent, or the channel has room. *)
ConStream(a) == StreamArm(a, "running")

(* tx.send(b).await finds the user's channel full: the task waits in the   *)
(* send, and reads no command, no message and no timer while it does.      *)
ConStreamWaits(a) ==
    /\ Running(a)
    /\ inbox[a] # <<>> /\ Head(inbox[a]).type = "Stream"
    /\ LET m == Head(inbox[a])
       IN  m.last /\ m.rx /\ \E s \in subs[a] : s[1] = m.id
    /\ conSt' = [conSt EXCEPT ![a] = "sending"]
    /\ UNCHANGED <<regVars, durVars, callVars, inbox, pending, subs, streamed, idle, msg_recvd,
                   pubVars, holders, panicked>>

(* The user read from the channel or dropped its receiver: the send        *)
(* returns and the arm goes on.                                            *)
ConStreamResumes(a) == StreamArm(a, "sending")

-----------------------------------------------------------------------------
(* process_batch, one message of a batch. *)
Recv(a, type) ==
    /\ Running(a)
    /\ fromPub[a] # <<>> /\ Head(fromPub[a]).type = type
    /\ fromPub' = [fromPub EXCEPT ![a] = Tail(@)]
    /\ msg_recvd' = [msg_recvd EXCEPT ![a] = TRUE]

(* Faulty variant of GiveBack: the id is dropped and the publisher is not   *)
(* told.                                                                   *)
GiveBackNever(to, a, i) == to

(* con.queue_send(&To::Unsubscribe(id)) for an id nobody is there to take. *)
GiveBack(to, a, i) == [to EXCEPT ![a] = Append(@, ToUnsubscribe(i))]

(* From::Subscribed(p, id): the Val is built and sent to the request of p. *)
(* With no such request, or with its receiver gone, the id is given back;  *)
(* in the second case the Val that could not be delivered is dropped.      *)
RecvSubscribed(a) ==
    /\ Recv(a, "Subscribed")
    /\ LET m     == Head(fromPub[a])
           req   == pending[a][m.path]
           taken == req # None /\ RxOpen(req.caller, m.path, "Subscribing")
           v     == <<a, m.id>>
       IN  /\ pending' = [pending EXCEPT ![a][m.path] = None]
           /\ mbox' = IF taken THEN [mbox EXCEPT ![req.caller][m.path] = Ok(v)] ELSE mbox
           /\ holders' = IF taken THEN [holders EXCEPT ![v] = {req.caller}] ELSE holders
           /\ subs' = IF taken THEN [subs EXCEPT ![a] = @ \cup {<<m.id, m.path>>}] ELSE subs
           /\ toPub' = IF taken THEN toPub ELSE GiveBack(toPub, a, m.id)
    /\ UNCHANGED <<regVars, durVars, pc, st, todo, cur, deadline, twice, held, calls,
                   conSt, inbox, streamed, idle, pubSubs, nextId, conBase, panicked>>

(* From::NoSuchValue(p), From::Denied(p): the request of p, if any, fails. *)
RecvRejected(a) ==
    /\ Recv(a, "Rejected")
    /\ LET p == Head(fromPub[a]).path
       IN  /\ pending' = [pending EXCEPT ![a][p] = None]
           /\ mbox' = Fail(mbox, {pending[a][p]} \ {None})
    /\ UNCHANGED <<regVars, durVars, pc, st, todo, cur, deadline, twice, held, calls,
                   conSt, inbox, subs, streamed, idle, toPub, pubSubs, nextId, conBase,
                   holders, panicked>>

(* From::Unsubscribed(id): the Sub is removed and, under the lock, the     *)
(* registry unsubscribes it.  An id without a Sub is ignored.              *)
RecvUnsubscribed(a) ==
    /\ Recv(a, "Unsubscribed")
    /\ LET i    == Head(fromPub[a]).id
           mine == {s \in subs[a] : s[1] = i}
           reg  == [sub |-> subscribed, alive |-> durable_alive, dead |-> durable_dead,
                    dv |-> dval, hold |-> holders, trig |-> trigger]
           r    == FoldLeft(LAMBDA acc, s : Unsubscribe(acc, s[2], <<a, i>>),
                            reg, SetToSeq(mine))
       IN  /\ subs' = [subs EXCEPT ![a] = @ \ mine]
           /\ streamed' = streamed \ {<<a, i>>}
           /\ subscribed' = r.sub
           /\ durable_alive' = r.alive
           /\ durable_dead' = r.dead
           /\ dval' = r.dv
           /\ holders' = r.hold
           /\ trigger' = r.trig
    /\ UNCHANGED <<connections, retry, batch, dgen, callVars, conSt, inbox, pending, idle,
                   toPub, pubSubs, nextId, conBase, panicked>>

(* From::Heartbeat, sent by a publisher with nothing else to say: its only *)
(* effect is that the next tick finds msg_recvd set.                       *)
Heartbeat(a) ==
    /\ Running(a)
    /\ ~msg_recvd[a]
    /\ msg_recvd' = [msg_recvd EXCEPT ![a] = TRUE]
    /\ UNCHANGED <<regVars, durVars, callVars, conSt, inbox, pending, subs, streamed, idle,
                   pubVars, holders, panicked>>

-----------------------------------------------------------------------------
(* The publisher. *)
PubGets(a, type) ==
    /\ Running(a)
    /\ toPub[a] # <<>> /\ Head(toPub[a]).type = type
    /\ toPub' = [toPub EXCEPT ![a] = Tail(@)]

(* To::Subscribe is granted under a fresh id. *)
PubAccept(a) ==
    /\ PubGets(a, "Subscribe")
    /\ nextId[a] <= MaxId
    /\ fromPub' = [fromPub EXCEPT
                     ![a] = Append(@, FromSubscribed(Head(toPub[a]).path, nextId[a]))]
    /\ pubSubs' = [pubSubs EXCEPT ![a] = @ \cup {nextId[a]}]
    /\ nextId' = [nextId EXCEPT ![a] = @ + 1]
    /\ UNCHANGED <<regVars, durVars, callVars, conVars, conBase, holders, panicked>>

(* To::Subscribe is refused: no such value, or access denied. *)
PubReject(a) ==
    /\ PubGets(a, "Subscribe")
    /\ fromPub' = [fromPub EXCEPT ![a] = Append(@, FromRejected(Head(toPub[a]).path))]
    /\ UNCHANGED <<regVars, durVars, callVars, conVars, pubSubs, nextId, conBase,
                   holders, panicked>>

(* To::Unsubscribe(id): acknowledged if the client is subscribed to id. *)
PubUnsubscribe(a) ==
    /\ PubGets(a, "Unsubscribe")
    /\ LET i == Head(toPub[a]).id
       IN  /\ pubSubs' = [pubSubs EXCEPT ![a] = @ \ {i}]
           /\ fromPub' = IF i \in pubSubs[a]
                         THEN [fromPub EXCEPT ![a] = Append(@, FromUnsubscribed(i))]
                         ELSE fromPub
    /\ UNCHANGED <<regVars, durVars, callVars, conVars, nextId, conBase, holders, panicked>>

(* The publisher stops publishing the value behind id i. *)
PubUnpublish(a, i) ==
    /\ Running(a)
    /\ i \in pubSubs[a]
    /\ pubSubs' = [pubSubs EXCEPT ![a] = @ \ {i}]
    /\ fromPub' = [fromPub EXCEPT ![a] = Append(@, FromUnsubscribed(i))]
    /\ UNCHANGED <<regVars, durVars, callVars, conVars, toPub, nextId, conBase,
                   holders, panicked>>

=============================================================================
