------------------------------- MODULE FanOut -------------------------------
(***************************************************************************)
(* The fan-out of updates in subscriber.rs: a connection task takes the    *)
(* batches decode_task hands it and sends every Update to the user         *)
(* channels registered for its subscription, by the fast path for batches  *)
(* of updates only (process_updates_batch) or message by message           *)
(* (process_batch); users register channels (ToCon::Stream), ask for the   *)
(* last value (ToCon::Last), read, and drop their receivers; the vectors   *)
(* of the batches are recycled through the global pool BATCHES.            *)
(*                                                                         *)
(* A value is its number in the order the publisher published it, and a    *)
(* SubId stands for its subscription.  The task is sequential: it is at    *)
(* its select only when sends and todo are empty.  An item of a batch      *)
(* carries a mark the code does not have: whether the batch was sent for   *)
(* it, or the vector came from the pool with it.                           *)
(***************************************************************************)
EXTENDS Naturals, Sequences, SequencesExt, FiniteSets, TLC

CONSTANTS Subs, Chans,
          InitLive,     \* the subscriptions the connection holds at the start
          ChanCap,      \* capacity of a user channel
          MaxPool,      \* vectors BATCHES keeps (1000)
          MaxUpdates,   \* for each subscription, the values it is published
          Ends,         \* the subscriptions the publisher may end
          Wanted,       \* the streams users ask for: <<sub, chan, begin_with_last>>
          LastFor,      \* the subscriptions users call last() of
          Closers,      \* the channels whose receiver may be dropped
          None

VARIABLES running,
          live, last, streams,   \* subscriptions: ids, Sub.last, Sub.streams
          by_receiver,
          from_sub,              \* the commands of the users
          todo, sends,           \* rest of the batch in hand, sends it awaits
          to_pub,                \* ids with an Unsubscribe queued
          chan, open,            \* user channels and whether the receiver exists
          pool,                  \* BATCHES
          next, pub_subs,        \* publisher: next value, ids it serves
          asked, asking,         \* users: streams asked for, last() in progress
          start, delivered       \* history: first value due, batches received

conVars  == <<running, live, last, streams, by_receiver, todo, sends, to_pub>>
userVars == <<chan, open, asked, asking, start, delivered>>
vars == <<conVars, userVars, from_sub, pool, next, pub_subs>>

Update(s, v)       == [type |-> "Update", sub |-> s, val |-> v]
Unsubscribed(s)    == [type |-> "Unsubscribed", sub |-> s]
LastCmd(s)         == [type |-> "Last", sub |-> s]
(* Val::updates: the ToCon::Stream commands a user may send. *)
StreamCmds         == [sub : Subs, chan : Chans, last : BOOLEAN]
Heartbeat          == [type |-> "Heartbeat"]

(* only_updates of decode_task *)
OnlyUpdates(batch) == \A i \in DOMAIN batch : batch[i].type = "Update"
AtSelect == running /\ sends = <<>> /\ todo = <<>>

(* Batch::new: the vector pooled last, or a new one. *)
BatchNew(p) ==
    IF p = <<>> THEN [vec |-> <<>>, pool |-> p] ELSE [vec |-> Last(p), pool |-> Front(p)]

Item(s, v) == <<s, v, TRUE>>
Stale(vec) == [i \in DOMAIN vec |-> <<vec[i][1], vec[i][2], FALSE>>]

(* Faulty variant of BatchDrop: the pool has no limit. *)
BatchDropUnbounded(p, v) == Append(p, Stale(v))

(* Drop for Batch: the vector goes to the pool as it is, with the items    *)
(* nobody consumed, unless the pool is full.                               *)
BatchDrop(p, v) == IF Len(p) < MaxPool THEN Append(p, Stale(v)) ELSE p

(* A send the task awaits: alloc says that Batch::new is still to be       *)
(* called for it, reg names the subscription to register the channel for   *)
(* when the send succeeds.                                                 *)
Pending(c, items, alloc, reg) == [chan |-> c, vec |-> items, alloc |-> alloc, reg |-> reg]

(* The task goes on to its next await: the vector of the first send is     *)
(* taken from the pool before the send blocks.                             *)
Arm(q, p) ==
    IF q = <<>> \/ ~Head(q).alloc THEN [sends |-> q, pool |-> p]
    ELSE LET b == BatchNew(p)
         IN  [sends |-> <<Pending(Head(q).chan, b.vec \o Head(q).vec, FALSE, Head(q).reg)>>
                            \o Tail(q),
              pool |-> b.pool]

Await(q, p) == sends' = Arm(q, p).sends /\ pool' = Arm(q, p).pool

(* Faulty variant of Push: a second update replaces the first in by_chan. *)
PushReplaces(acc, c, item) ==
    LET b == BatchNew(acc.pool)
    IN  [acc EXCEPT !.by = (c :> Append(b.vec, item)) @@ @, !.pool = b.pool]

(* by_chan.entry(chan_id).or_insert_with(Batch::new).push(item) *)
Push(acc, c, item) ==
    IF c \in DOMAIN acc.by THEN [acc EXCEPT !.by[c] = Append(@, item)]
    ELSE LET b == BatchNew(acc.pool)
         IN  [acc EXCEPT !.by = @ @@ (c :> Append(b.vec, item)), !.pool = b.pool]

(* The first loop of process_updates_batch: every update of a known id is  *)
(* pushed to the batch of each channel of its streams and becomes last.    *)
Gather(batch) ==
    FoldLeft(LAMBDA acc, m :
                 IF m.sub \notin live THEN acc
                 ELSE [FoldLeft(LAMBDA a, c : Push(a, c, Item(m.sub, m.val)), acc, streams[m.sub])
                          EXCEPT !.last[m.sub] = m.val],
             [by |-> <<>>, pool |-> pool, last |-> last], batch)

(* Faulty variant of Retained: the open channels are the ones dropped. *)
RetainedClosed(ss) == SelectSeq(ss, LAMBDA c : ~open[c])

(* streams.retain(|c| !c.is_closed()) *)
Retained(ss) == SelectSeq(ss, LAMBDA c : open[c])

-----------------------------------------------------------------------------
Init ==
    /\ running = TRUE
    /\ live = InitLive /\ last = [s \in Subs |-> 0] /\ streams = [s \in Subs |-> <<>>]
    /\ by_receiver = {} /\ from_sub = <<>>
    /\ todo = <<>> /\ sends = <<>> /\ to_pub = {}
    /\ chan = [c \in Chans |-> <<>>] /\ open = [c \in Chans |-> TRUE]
    /\ pool = <<>>
    /\ next = [s \in Subs |-> 1] /\ pub_subs = Subs
    /\ asked = {} /\ asking = {}
    /\ start = [c \in Chans |-> [s \in Subs |-> None]]
    /\ delivered = [c \in Chans |-> <<>>]

(* One message of the publisher: the next value of a subscription it       *)
(* serves, or the end of one.                                              *)
PubMsgs(nx, ps) ==
    {[msg |-> Update(s, nx[s]), next |-> [nx EXCEPT ![s] = @ + 1], subs |-> ps] :
        s \in {t \in ps : nx[t] <= MaxUpdates[t]}}
    \cup {[msg |-> Unsubscribed(s), next |-> nx, subs |-> ps \ {s}] : s \in ps \cap Ends}

(* The batches decode_task may hand over next: one or two messages, or a   *)
(* Heartbeat and one message.                                              *)
Batches ==
    LET one == PubMsgs(next, pub_subs)
    IN  {[a EXCEPT !.msg = <<a.msg>>] : a \in one}
        \cup {[a EXCEPT !.msg = <<Heartbeat, a.msg>>] : a \in one}
        \cup UNION {{[b EXCEPT !.msg = <<a.msg, b.msg>>] : b \in PubMsgs(a.next, a.subs)} :
                       a \in one}

-----------------------------------------------------------------------------
(* A batch of updates only: process_updates_batch up to its first send.    *)
(* by_chan is drained in the order of the hash map.                        *)
TakeFast ==
    /\ AtSelect
    /\ \E bt \in Batches :
          /\ OnlyUpdates(bt.msg)
          /\ next' = bt.next /\ pub_subs' = bt.subs
          /\ LET g == Gather(bt.msg)
             IN  /\ last' = g.last
                 /\ pool' = g.pool
                 /\ \E order \in SetToSeqs(DOMAIN g.by) :
                       sends' = [i \in DOMAIN order |->
                                    Pending(order[i], g.by[order[i]], FALSE, None)]
    /\ UNCHANGED <<running, live, streams, by_receiver, todo, to_pub, userVars, from_sub>>

(* Any other batch goes to process_batch. *)
TakeSlow ==
    /\ AtSelect
    /\ \E bt \in Batches :
          /\ ~OnlyUpdates(bt.msg)
          /\ next' = bt.next /\ pub_subs' = bt.subs
          /\ todo' = bt.msg
    /\ UNCHANGED <<running, live, last, streams, by_receiver, sends, to_pub,
                   userVars, from_sub, pool>>

(* process_batch, one message: an Update is sent to every stream of its    *)
(* subscription in a batch of its own, and for an unknown id an            *)
(* Unsubscribe is queued; Unsubscribed removes the subscription; a         *)
(* Heartbeat does nothing.                                                 *)
SlowMsg ==
    /\ running /\ sends = <<>> /\ todo # <<>>
    /\ LET m == Head(todo)
       IN  \/ /\ m.type = "Update" /\ m.sub \in live
              /\ Await([i \in DOMAIN streams[m.sub] |->
                           Pending(streams[m.sub][i], <<Item(m.sub, m.val)>>, TRUE, None)],
                       pool)
              /\ last' = [last EXCEPT ![m.sub] = m.val]
              /\ UNCHANGED <<live, streams, to_pub>>
           \/ /\ m.type = "Update" /\ m.sub \notin live
              /\ to_pub' = to_pub \cup {m.sub}
              /\ UNCHANGED <<live, last, streams, sends, pool>>
           \/ /\ m.type = "Unsubscribed"
              /\ live' = live \ {m.sub}
              /\ streams' = [streams EXCEPT ![m.sub] = <<>>]
              /\ UNCHANGED <<last, sends, pool, to_pub>>
           \/ /\ m.type = "Heartbeat"
              /\ UNCHANGED <<live, last, streams, sends, pool, to_pub>>
    /\ todo' = Tail(todo)
    /\ UNCHANGED <<running, by_receiver, userVars, from_sub, next, pub_subs>>

(* c.send(batch).await returns: the channel had room, or its receiver is   *)
(* gone and the batch is dropped.  The stream of a ToCon::Stream is        *)
(* registered after its first batch was sent.                              *)
Send ==
    /\ sends # <<>>
    /\ LET s == Head(sends)
       IN  \/ /\ open[s.chan] /\ Len(chan[s.chan]) < ChanCap
              /\ chan' = [chan EXCEPT ![s.chan] = Append(@, s.vec)]
              /\ Await(Tail(sends), pool)
              /\ IF s.reg = None THEN UNCHANGED <<streams, by_receiver>>
                 ELSE /\ streams' = [streams EXCEPT ![s.reg] = Append(@, s.chan)]
                      /\ by_receiver' = by_receiver \cup {s.chan}
           \/ /\ ~open[s.chan]
              /\ Await(Tail(sends), BatchDrop(pool, s.vec))
              /\ UNCHANGED <<chan, streams, by_receiver>>
    /\ UNCHANGED <<running, live, last, todo, to_pub, open, asked, asking, start,
                   delivered, from_sub, next, pub_subs>>

(* ToCon::Stream: the closed streams of the subscription are forgotten,    *)
(* the last value is sent first if it was asked for, and the channel is    *)
(* registered.  For an unknown id nothing happens.  The time the command   *)
(* waits in from_sub is left out.                                          *)
HandleStream(m) ==
    /\ AtSelect /\ <<m.sub, m.chan, m.last>> \in Wanted \ asked
    /\ asked' = asked \cup {<<m.sub, m.chan, m.last>>}
    /\ LET kept == Retained(streams[m.sub])
           keys == by_receiver \ (ToSet(streams[m.sub]) \ ToSet(kept))
       IN  \/ /\ m.sub \notin live
              /\ UNCHANGED <<streams, by_receiver, sends, pool, start>>
           \/ /\ m.sub \in live /\ m.last
              /\ streams' = [streams EXCEPT ![m.sub] = kept]
              /\ by_receiver' = keys
              /\ Await(<<Pending(m.chan, <<Item(m.sub, last[m.sub])>>, TRUE, m.sub)>>, pool)
              /\ start' = [start EXCEPT ![m.chan][m.sub] = last[m.sub]]
           \/ /\ m.sub \in live /\ ~m.last
              /\ streams' = [streams EXCEPT ![m.sub] = Append(kept, m.chan)]
              /\ by_receiver' = keys \cup {m.chan}
              /\ start' = [start EXCEPT ![m.chan][m.sub] = last[m.sub] + 1]
              /\ UNCHANGED <<sends, pool>>
    /\ UNCHANGED <<running, live, last, todo, to_pub, chan, open, asking,
                   delivered, from_sub, next, pub_subs>>

(* ToCon::Last: the oneshot gets last, or is dropped for an unknown id. *)
HandleLast ==
    /\ AtSelect /\ from_sub # <<>> /\ Head(from_sub).type = "Last"
    /\ asking' = asking \ {Head(from_sub).sub}
    /\ from_sub' = Tail(from_sub)
    /\ UNCHANGED <<conVars, chan, open, asked, start, delivered, pool,
                   next, pub_subs>>

(* The task leaves its loop at the select (hung publisher, idle, EOF, the  *)
(* subscriber dropped): subscriptions, by_receiver and the queues go.      *)
Exit ==
    /\ AtSelect
    /\ running' = FALSE
    /\ live' = {} /\ streams' = [s \in Subs |-> <<>>] /\ by_receiver' = {}
    /\ todo' = <<>> /\ from_sub' = <<>>
    /\ asking' = {}
    /\ UNCHANGED <<last, sends, to_pub, chan, open, asked, start, delivered, pool,
                   next, pub_subs>>

-----------------------------------------------------------------------------
(* Val::last, up to its await. *)
AskLast(s) ==
    /\ running /\ s \in LastFor \ asking
    /\ asking' = asking \cup {s}
    /\ from_sub' = Append(from_sub, LastCmd(s))
    /\ UNCHANGED <<conVars, chan, open, asked, start, delivered, pool,
                   next, pub_subs>>

(* A user takes a batch from its channel, and consumes it or not before    *)
(* the batch is dropped.                                                   *)
Recv(c, consumed) ==
    /\ open[c] /\ chan[c] # <<>>
    /\ delivered' = [delivered EXCEPT ![c] = @ \o Head(chan[c])]
    /\ chan' = [chan EXCEPT ![c] = Tail(@)]
    /\ pool' = BatchDrop(pool, IF consumed THEN <<>> ELSE Head(chan[c]))
    /\ UNCHANGED <<conVars, open, asked, asking, start, from_sub, next, pub_subs>>

(* A user drops its receiver, and with it the batches still queued. *)
CloseChan(c) ==
    /\ open[c] /\ c \in Closers
    /\ open' = [open EXCEPT ![c] = FALSE]
    /\ chan' = [chan EXCEPT ![c] = <<>>]
    /\ pool' = FoldLeft(BatchDrop, pool, chan[c])
    /\ UNCHANGED <<conVars, asked, asking, start, delivered, from_sub,
                   next, pub_subs>>

Next ==
    \/ TakeFast \/ TakeSlow \/ SlowMsg \/ Send
    \/ \E m \in StreamCmds : HandleStream(m)
    \/ HandleLast
    \/ Exit
    \/ \E s \in Subs : AskLast(s)
    \/ \E c \in Chans, consumed \in BOOLEAN : Recv(c, consumed)
    \/ \E c \in Chans : CloseChan(c)

Spec == Init /\ [][Next]_vars

(* The task runs when it can.  Nothing is assumed of the users: whether a  *)
(* channel is read is theirs to decide.                                    *)
FairSpec == Spec /\ WF_vars(SlowMsg \/ Send \/ HandleLast)

-----------------------------------------------------------------------------
Values == 0..Max({MaxUpdates[s] : s \in Subs})

TypeOK ==
    /\ running \in BOOLEAN
    /\ live \subseteq Subs /\ to_pub \subseteq Subs /\ pub_subs \subseteq Subs
    /\ last \in [Subs -> Values]
    /\ \A s \in Subs : next[s] \in 1..(MaxUpdates[s] + 1)
    /\ \A s \in Subs : ToSet(streams[s]) \subseteq Chans
    /\ by_receiver \subseteq Chans
    /\ \A c \in Chans : Len(chan[c]) <= ChanCap
                          /\ ToSet(delivered[c]) \subseteq Subs \X Values \X BOOLEAN
    /\ open \in [Chans -> BOOLEAN]
    /\ Len(pool) <= MaxPool
    /\ asked \subseteq Wanted /\ asking \subseteq LastFor

(* What channel c was sent, and of it the values of subscription s that    *)
(* the batches were sent for.                                              *)
Sent(c) == delivered[c] \o FlattenSeq(chan[c])
Seen(c, s) ==
    LET got == SelectSeq(Sent(c), LAMBDA it : it[1] = s /\ it[3])
    IN  [i \in DOMAIN got |-> got[i][2]]

(* The values it is due: from the one its registration began with to last. *)
Due(c, s) ==
    IF start[c][s] = None THEN <<>>
    ELSE [i \in 1..((last[s] + 1) - start[c][s]) |-> start[c][s] + i - 1]

(* "Values will arrive in the order they are published.  No value will be  *)
(* omitted", of the items the task pushes: whatever the batches, the path  *)
(* they take (process_updates_batch or process_batch), the channels that   *)
(* are full or closed and the state of the vectors Batch::new pops, the    *)
(* items pushed for a channel are, of each subscription, the values from   *)
(* its registration on, in order and each once.  What a popped vector      *)
(* brings with it is the matter of BatchIsFresh.                           *)
StreamOrder == \A c \in Chans, s \in Subs : IsPrefix(Seen(c, s), Due(c, s))

(* A batch holds the updates it was sent for and nothing else.  Drop for   *)
(* Batch pools the vector with the items left in it and Batch::new pops    *)
(* it as it is, so this does not hold of the code.                         *)
BatchIsFresh == \A c \in Chans : \A i \in DOMAIN Sent(c) : Sent(c)[i][3]

(* When the task is back at its select, every open channel that was        *)
(* registered for a live subscription has been sent everything up to       *)
(* Sub.last: neither path of the fan-out, nor the retain of ToCon::Stream, *)
(* leaves a stream behind.                                                 *)
StreamIsCurrent ==
    sends = <<>> =>
        \A c \in Chans, s \in live :
            open[c] /\ start[c][s] # None => Seen(c, s) = Due(c, s)

(* Val::last returns.  The task awaits c.send(batch) of process_batch,     *)
(* process_updates_batch and ToCon::Stream with nothing else served, so a  *)
(* user that awaits last() before it reads a full channel waits for ever:  *)
(* this does not hold of the code.                                         *)
LastReturns == \A s \in Subs : (s \in asking) ~> (s \notin asking)

(* "If the subscription dies the stream will end": the task keeps a sender *)
(* of a channel only while a subscription streams into it.                 *)
StreamEnds ==
    \A c \in by_receiver : \E s \in live : c \in ToSet(streams[s])

=============================================================================
