# TLA+ models of netidx

This directory holds TLA+ models of the subscriber runtime of netidx
(`src/src/subscriber.rs`), of its framed channel (`src/src/channel.rs`), of
the resolver server (`src/src/resolver_server.rs`), of the client
configuration (`src/netidx/src/config.rs`) and of the expression printer
(`src/netidx-bscript/src/expr.rs`), the TLC configurations that check
them, and `PROJECT.json`, which lists the
components, the runs, the line ranges every definition is translated from,
the findings and the hazards.

## 1. The system

| Part | Source | What it is |
|---|---|---|
| Registry | `subscriber.rs` 271-295 | `SubscriberInner` behind one mutex: `subscribed` (path -> `Pending(waiters)` or `Subscribed(weak Val)`), `connections` (addr -> command sender), `durable_dead`, `durable_alive` (path -> weak DVal), `trigger_resub` |
| `subscribe_vals` | 474-683 | the pipeline every caller runs: Init (claim, join or reuse each path, under the lock), resolve (await), connect + send requests (under the lock), wait loop (await each oneshot, then complete or remove the entry under the lock) |
| Connection task | 1021-1161 | one per publisher address: connect and hello, then a `select_biased!` loop over the periodic tick, decoded batches and commands; a cleanup under the lock when the loop ends |
| `process_batch` | 909-971 | the publisher's replies: Subscribed, NoSuchValue, Denied, Unsubscribed, Heartbeat, Update |
| `unsubscribe` | 763-801 | moves a durable subscription from alive to dead, triggers the resub task, removes the registry entry of the subscription |
| Durable handles | 147-170, 200-265, 707-726 | `DVal`: shared record with `sub: Option<Val>`, `streams`, `states`, `tries`, `next_try`; `updates` and `state_updates` register a user's channel, which the user closes by dropping its receiver |
| Resubscribe task | 321-447 | woken by `trigger_resub` or a timer; `do_resub` snapshots `durable_dead`, calls `subscribe_vals`, records the results, re-arms the timer |
| Update fan-out | 113-140, 847-907, 917-946, 985-1019, 1072-1146 | `decode_task` marks a batch as updates-only or not; the task sends every Update to the bounded user channels registered for its subscription, awaiting each send; `ToCon::Stream`, `ToCon::Last`; the `BATCHES` pool of vectors |
| Framed channel | `channel.rs` | length-prefixed frames over a socket: `queue_send_raw`, `send_one_raw`, `flush` with partial vectored writes and `advance`, `fill_buffer`, `decode_from_buffer`, `receive_batch` |
| Resolver server | `resolver_server.rs` | `server_loop` with its connection counter, one `client_loop` per connection (hello with its security context, write-session take-over, batches, ttl tick), `handle_batch`, the `SecStore` of contexts by id |
| Configuration | `config.rs` | `Config::parse` validates a file; `load_default` looks for the first of four candidate files that exists and loads it |
| Expressions | `expr.rs` | the expression tree, `Display` and `pretty_print`, which breaks an application over lines when it does not fit a column limit |
| Recorder | `recorder.rs` | command-line glue around `Recorder::start` of another crate |

The subscriber's tasks (users, connection tasks, the resub task) share the
registry, take its lock for short sections and await between them, and talk
through unbounded channels and oneshots; the connection task talks to the
users through bounded channels and so waits for them. The channel sits
between two tasks and a socket that takes and gives bytes in any pieces. The
resolver server's tasks share the store, the security contexts and an atomic
counter. `load_default` shares the file system with other programs. The
expression printer is a pure function. What can go
wrong is listed, line by line, under `hazards` in `PROJECT.json`.

What each part must guarantee:

* registry: at most one subscribe request in flight per path; a `Pending`
  entry always has an owner that will complete or remove it; every waiter is
  answered; no `unreachable!()` or `unwrap()` is hit;
* connection task: every request it takes is answered (granted, refused,
  timed out, or failed with the connection); every subscription the publisher
  grants is held by the task or given back; a task that ends leaves nothing
  behind in the registry;
* durable subscriptions: a DVal somebody holds is always registered in
  `durable_dead` or `durable_alive`, in the state its map says; a dead one is
  always going to be retried; an alive one has a subscription that exists;
  the stream registered on a DVal follows it to every new subscription, and
  its listeners hear every change of state;
* fan-out: "Values will arrive in the order they are published. No value
  will be omitted" (documentation of `Val::updates`), per channel and
  subscription, from the registration on;
* channel: ordered, reliable transport of whole messages; a failure loses
  the messages sent last, never one in the middle;
* resolver server: at most `max_connections` client tasks; one session per
  write address; what is published belongs to a session whose ttl tick will
  remove it; a client that went silent is removed; a security context a
  client was given an id for can be used again under that id;
* configuration: what `parse` accepts is usable by a client; `load_default`
  "will load the first file that exists";
* expressions: the pretty text parses to the same expression as the flat
  one (`expr_pp_round_trip`), and the column limit is kept where the
  printer can keep it.

## 2. Modules

There are six models. The modules of the first extend one another, because
all tasks share the registry: `Registry` <- `Connection` <- `Durable` <-
`Subscriber` <- `MCSubscriber`. The others stand alone: `FanOut`
(`MCFanOut`), `Channel` with its abstract specification `Fifo`
(`MCChannel`), `ResolverServer` (`MCResolverServer`), `Expr` (`MCExpr`)
and `Config`, whose one constant is a number and which is checked as it
is.

| Module | Models | State and actions |
|---|---|---|
| `Registry` | the registry, `subscribe_vals`, `unsubscribe`, `Drop for ValInner` | declares all variables. `SubscribeVals` is Init (`SubscribeVal` is `subscribe_val`, the batch of one path); `ResolveFail`, `ResolveOk` the resolve outcome and the connect+subscribe section; `Await`, `VisitError`, `VisitWaiting`, `VisitSubscribing` the wait loop; `Return`; `Cancel` the drop of the future; `DropVal` the drop of a user's Val. `Unsubscribe` is an operator on the registry fields, applied by the connection once per Sub |
| `Connection` | `connection`, `process_batch`, the publisher | `Connected`, `ConnectFail`, `HelloOk`, `HelloFail`; `TickHung`, `TickIdleExit`, `Tick`; `ConSubscribe`, `ConStream`, `ConStreamWaits`, `ConStreamResumes`; `RecvSubscribed`, `RecvRejected`, `RecvUnsubscribed`, `Heartbeat`; `ConError`, all ending in `Cleanup`. `PubAccept`, `PubReject`, `PubUnsubscribe`, `PubUnpublish` are the publisher, written from the protocol description |
| `Durable` | `durable_subscribe_val`, `DVal`, resub task | `DurableClone`, `DurableCreate`, `DropDVal`, `DValUpdates`, `DValStateUpdates`, and the user's `CloseStream` and `CloseListener`; `DoResubNothing`, `DoResubStart`, `DoResubSubscribe`, `DoResubFinish`. Between Subscribe and Finish the resub task is the caller `Resub` of the `Registry` actions |
| `Subscriber` | the composition | `Init`, `Next`, `Spec`, the type invariant and the properties |
| `MCSubscriber` | model-checking instance | the symmetry set |
| `FanOut` | the fan-out of one connection task, its users, the `BATCHES` pool | `TakeFast` (a batch of updates only: `process_updates_batch` up to its first send), `TakeSlow` and `SlowMsg` (`process_batch`, one message per step), `Send` (one `c.send(batch).await` returning), `HandleStream`, `HandleLast`, `Exit`; the users: `AskLast`, `Recv`, `CloseChan` |
| `MCFanOut` | model-checking instance | the streams asked for and the values published |
| `Channel` | one direction of a channel, byte by byte | `QueueSendRaw`, `SendOneRaw`; `FlushBegin`, `WriteAll`, `WriteVectored`, `FlushTimeout`; `Close`; `FillBuffer`, `FillAtEof`, `FillFails`, `ReceiveBatch`; `Advance`, `Decode`, `Header`, `ReadLen` as operators |
| `Fifo` | what a channel promises | a queue of whole messages: `Send`, `Recv` of a batch, `Fail` losing a suffix |
| `MCChannel` | model-checking instance | the payloads |
| `ResolverServer` | `server_loop`, `client_loop`, `handle_batch`, `SecStore` | `Accept`, `Stop`; `HelloTimeout`, `HelloReadOnly`, `HelloWriteOnly`, `HelloReply` (with `Context`, the security context of the hello), `HelloFails`; `Batch`, `ReceiveErr`, `ReceiveEof`, `StopSeen`, `TickActive`, `TickExpired` |
| `MCResolverServer` | model-checking instance | the symmetry set |
| `Expr` | `ExprKind`, `Display`, `pretty_print` | `Display` and `Pretty` as recursive operators; `WriteFlat` (`to_string`) and `WritePretty` (`to_string_pretty`) write the text of the expression chosen at the start |
| `MCExpr` | model-checking instance | the tokens of the constants and function names |
| `Config` | `Config::parse`, `load`, `load_default` | `Parse` and `CheckServer` as operators; `LoadDefault`, `Look` (one `is_file`), `Load`; `Touch`, another program creating or removing a candidate |

### 2.1 Subscriber

How the state corresponds to the code:

* A `Val` is `<<addr, id>>`. Publishers hand out fresh ids (`nextId`), and
  `conBase[a]` is the first id of the current task of address `a`, so
  `ValOpen(v)` says whether `ValInner.connection` still reaches a task.
  `holders[v]` is the set of callers and DVals holding a strong pointer;
  `ValWeak::upgrade` succeeds iff it is not empty.
* A `DVal` is `<<path, generation>>`; `durable_dead[p]` and
  `durable_alive[p]` hold the generation the weak pointer of `p` points to,
  0 for no entry. `dval[d].user` says the user holds a pointer, `batch` is
  what the running `do_resub` holds.
* A call of `subscribe_vals` by caller `c` is `pc[c]`, its local map
  `st[c]`, and its oneshot receivers `mbox[c]` (`None`: nothing sent).
  `cur[c]` is the path whose oneshot the caller is parked on. The wait loop
  walks a `HashMap`, so every order is possible; the model fixes the order
  only when the caller parks.
* A connection task is `conSt[a]` with its locals `pending[a]`, `subs[a]`,
  `idle[a]`, `msg_recvd[a]`, its command channel `inbox[a]` and the two
  directions of the socket, `toPub[a]` and `fromPub[a]`.
* `dval[d].streams` is the channel in `ds.streams`: `"none"`, `"open"`, or
  `"closed"` once the user dropped its receiver and no `retain` has run
  yet; `dval[d].made` counts the calls of `DVal::updates`.
  `dval[d].states` is the vector `ds.states`, one element per listener:
  what it heard last (`"quiet"`: nothing yet), or `"closed"`. `SendState`
  is the loop of `do_resub` (396-407) and `unsubscribe` (769-781) over that
  vector, as the recursive operator `Tell`: a closed listener is removed
  and the index stays, an open one is told and the index moves on. `Open`
  and `Retain` are the `retain(|c| !c.is_closed())` of `state_updates`,
  `updates` and `do_resub`. `streamed` holds the Vals whose `Sub.streams`
  holds a channel of a DVal that has a receiver: `ToCon::Stream` carries
  whether the channel it names is still open (`rx`), `CloseStream` clears
  it in the commands that wait, and the connection task keeps only open
  channels. A DVal has one open channel at a time; what a registered
  channel is sent is the subject of `FanOut`.
* `twice[c]` are the paths the batch of caller `c` names twice.
* `conSt[a]` passes from `connecting` to `hello` to `running`: the connect
  is bounded by `time::timeout(PERIOD)`, the hello is not. `sending` is the
  task inside `tx.send(b).await` of the `ToCon::Stream` arm (line 1137),
  with the user's channel full: `ConStreamWaits` enters it, and the task
  reads no command, no message and no tick until `ConStreamResumes`, which
  is the user reading its channel or dropping the receiver. `do_resub`
  sends its streams with `last: true`, `DVal::updates` with what the user
  asked for.
* `panicked` records that an `unreachable!()` or `unwrap()` would have been
  hit; the model goes on so that the state can be inspected.

Abstractions:

* Data: values, tokens, resolver ids, error texts and SubIds are left out.
  `NoSuchValue` and `Denied` are one message, `Rejected`.
* Time: a tick may expire any set of pending requests that have a deadline;
  a DVal with `tries = 0` is always due, one that failed is due when the
  model chooses.
* `queue_send` and the `try_flush` after it are one append to `toPub`; a
  message that is queued and never flushed is a message lost with the
  connection, which `ConError` produces.
* A batch of replies is processed one message per step: `process_batch`
  takes the registry lock per message.
* `Drop for ValInner` sends nothing. Line 87 calls `connection.send(..)`;
  on a futures 0.3 sender with `futures::prelude` in scope that is
  `SinkExt::send`, whose future is dropped unpolled. `Release` therefore
  only takes the holder away, and the arm of `ToCon::Unsubscribe` (lines
  1115-1117), which no other code sends, has no action. The `To::Unsubscribe`
  the task does send is `GiveBack`: for a `Subscribed` nobody waits for
  (line 948) and for one whose oneshot receiver is gone (line 958).
* `Auth` is `desired_auth`; `HelloReplies` are the answers a peer may give
  to the hello, of which `HelloAccepts` are those `hello_publisher` takes.
  A peer may also never answer: no action is forced on it.
  `Repeats` lets a batch name a path twice. `Streams`
  lets users register streams and listeners on their DVals.
* The drop of a receiver or of a future is code of the user, not of this
  repository: `CloseStream` and `CloseListener` are written from what a
  dropped receiver does to its sender (`is_closed` is true, a send fails),
  `Cancel` from what the drop of the `subscribe_vals` future does to its
  locals.

### 2.2 FanOut

* `live`, `last[s]`, `streams[s]` are the task's `subscriptions` map: which
  ids it holds, `Sub.last` and `Sub.streams` (a sequence of channels; the
  SubId of an entry stands for the subscription). `by_receiver` is the set
  of channels the map of that name holds a sender of; a channel is its own
  `ChanId`.
* The task is sequential. `sends` are the sends it still has to make before
  it is back at its select: the drained `by_chan` of the fast path (in any
  order: it is a hash map), the streams of one Update on the slow path, or
  the first batch of a `ToCon::Stream` with `begin_with_last`. `todo` is the
  rest of the batch `process_batch` is working through. `Send` is enabled
  when the channel has room or its receiver is gone; otherwise the task
  waits, and nothing else of it is enabled.
* `chan[c]` is the queue of a user channel, `open[c]` whether its receiver
  exists. `pool` is `BATCHES`. A vector is taken from the pool when the
  code calls `Batch::new` (for the slow path: just before each send) and
  goes back when a batch is dropped: by `Recv`, by a send to a closed
  channel, or with the queue of a receiver that is dropped.
* `next`, `pub_subs` are the publisher: the next value of each subscription
  and the subscriptions it still serves. Values are numbered in publishing
  order, so that "in order, none omitted" can be stated. A batch arrives
  and is taken in one step; `decode_task` and its channel of ten batches
  add nothing the task can observe.
* `start[c][s]` (the first value channel `c` is due of subscription `s`)
  and `delivered[c]` (what the user took from `c`) are history variables for
  the properties.
* `Drop for Batch` pushes the vector to the pool with whatever it holds
  (line 858), and `Batch::new` pops it as it is: a vector is empty only if
  the user consumed the batch (`Recv` with `consumed`). An item carries a
  mark the code does not have: `Item` sets it for what the task pushes,
  `Stale` clears it in a vector that is pooled. The properties about order
  read the marked items; `BatchIsFresh`, that a batch holds no others, does
  not hold of the code (`FanOutPool.cfg`).
* Left out: the time a `ToCon::Stream` waits in `from_sub` (the command is
  taken in the step that sends it), the writes to the publisher (an
  Unsubscribe for an unknown id is recorded in `to_pub`), the periodic tick
  (its only effect here is that the task may leave, `Exit`). How the
  stream of a DVal gets to the task is in `Durable` and `Connection`.

### 2.3 Channel and Fifo

* A byte is a number below `Base` and a length prefix has `HdrLen` bytes:
  256 and 4 in the code, 2 and 2 in the runs, which keeps "a payload that
  reads like a header" and "a length the prefix cannot say" (`MaxLen` = 3)
  within reach. A message is its payload bytes.
* `outgoing` is the writer's `VecDeque` of buffers (header and payload of a
  message are two buffers, as `queue_send_raw` pushes them), `writing` the
  buffer the single-buffer branch of `flush` popped and `write_all` is still
  writing, `wpc` where the flush is. `wire` is the socket between the two
  ends, `closed` whether the peer has shut down or the connection was
  reset. `incoming` is the reader's buffer, `out` the batch the last
  `receive_batch` returned, `rerr` that a receive returned an error.
* `WriteVectored(n)` writes any `n` of the queued bytes that fit the socket
  and applies `advance`; `FillBuffer(n)` moves up to `MaxRead` bytes to the
  reader. `FillAtEof` is `fill_buffer` at the end of the stream: `read`
  returns 0, which the code takes for progress, so the step changes nothing.
* `FlushTimeout` is a flush given up at an await, after which the caller
  carries on: the timed-out outcome of the description's
  `flush_with_timeout`. `channel.rs` has no such function (the
  `WriteChannel` that `try_flush` of `subscriber.rs` calls it on is not in
  this repository), so the action is written from the description.
  `TimeoutDuring` names the awaits at which the flush may be given up. The
  run `channel` allows the vectored loop only, where `advance` has
  accounted for every byte that was written. In the single-buffer branch
  the buffer was popped before `write_all` wrote it, and a flush given up
  there loses its rest: `ChannelTorn.cfg` allows both awaits and shows
  `Refines` violated.

### 2.4 ResolverServer

* `connections` is the `AtomicUsize` of `server_loop`; `phase[c]` is where
  the task of connection `c` is: `none`, `hello` (awaiting the ClientHello),
  `reply` (clinfo updated, ServerHello not yet sent), `loop`, `spin` (in
  `receive` at the end of its stream, see the finding on `channel.rs`),
  `done`. `waddr[c]` is the task's `write_addr`, `clinfo[a]` the task whose
  `tx_stop` the store holds for address `a`, `stop[c]` and `sstop[c]` that
  a message waits in `rx_stop` and `server_stop`, `con[c]` that `con` is
  `Some`, `act[c]` the flag of the same name, `published` the store.
* Time: the interval of a task in its loop may fire at any moment. A task
  whose `act` is set is re-armed by the tick, one whose `act` is clear
  times out, as lines 299-319 do.
* `ctxts` are the ids `SecStoreInner.ctxts` holds a context for, `next`
  the id the next `create` gives, `ctx[c]` the id of the context of task
  `c` (`None` without one) and `accepted` the ids clients were given in a
  `ServerAuth::Accepted`. `Secure` says that the server has a `SecStore`
  (it has none with anonymous authentication). `Context` is the `match` on
  the `ClientAuth` of the hello: `Anonymous`, `Reuse(id)`, which asks
  `SecStore::get`, and `Token`, which calls `create_ctx`. Whether the
  stored context is still valid (`fresh`) and whether `create_ctx` returns
  a token (`tok`) are chosen by the model. `SecStore::save` and
  `SecStore::gc` have no caller and so no action.
* Left out: the replies (they change no state), the Kerberos contexts
  themselves (a step of `create_ctx` that fails ends the task where
  `HelloFails` does), and the store's data structure, which is not in this
  repository.

### 2.5 Expr

* A text is a sequence of tokens, and a token is what it says and the
  bytes it takes: `pretty_print` decides by `tmp.len() < limit` and reads
  nothing else of a text. Constants and function names are tokens the
  model gives (`1` of one byte, `"abc"` of five; `f`, `sum`); parentheses,
  commas, newlines and runs of blanks are tokens of their own.
* `Exprs(MaxDepth)` are the expressions the property tests of `expr.rs`
  draw, up to the bounds. The expression is chosen in `Init` and never
  changes (an `Expr` is immutable); the actions write it out.
* `Fits` is the test `tmp.len() < limit` and `ArgLines` the loop over the
  arguments with its separators; `Pretty` is built from the two.
* Left out: the ids of expressions (equality ignores them), `is_fn`, and
  Serialize/Deserialize, which go through `to_string` and the parser. The
  parser is not in this repository; `PrettyIsDisplay` states on the text
  what the round trip needs of the printer.

### 2.6 Config

* A server of a file is the kind of its address (`loopback`, `remote`, or
  `bad` for one `utils::check_addr` refuses) and its auth; a file content is
  whether it is the JSON of a `file::Config`, its servers in order and
  whether `tls_ca_certs` is set.
* `Order` are the candidates of `load_default` in the order it looks:
  the file `NETIDX_CFG` names, the one under `config_dir`, the one under
  `home_dir`, `/etc/netidx/client.json`. `defined` are those the environment
  names, `exists` those that are files now. `pc` and `at` say where the
  call is; `touched` records that another program created or removed a
  candidate since the call began.
* `Look` is one `is_file`; `Load` is `Config::load` of the candidate found,
  which fails with `Io` if the file has gone meanwhile and otherwise
  returns what `Parse` says of its content.

## 3. Runs

The safety runs check `Spec`; `returns`, `durable_retry`,
`channel` and `resolver` check `FairSpec`, because they include a liveness
property. `CHECK_DEADLOCK FALSE` in the runs of the subscriber, the
fan-out, the channel and the resolver server: a subscriber whose users have
made their calls and whose connections are gone has nothing left to do; a
channel whose caller has made its calls, and a server that was stopped,
likewise. `expr` and `config` check for deadlock: an expression can always
be written again and `load_default` be called again. `Users` is a symmetry
set in the safety runs of `MCSubscriber` (users are interchangeable;
`Resub` is not a user); runs with a liveness property use no symmetry.

Passing runs:

| Run | Configuration | Properties | States |
|---|---|---|---|
| `dedup` | 1 path, 1 address, 2 users x 2 calls with timeouts | `TypeOK`, `SingleFlight`, `PendingHasOwner`, `NoOrphanWaiter`, `NoOrphanRequest`, `NoPanic` | 349,719 |
| `twoaddrs` | 1 path at 2 addresses, Kerberos hello, 2 users x 1 call with or without a timeout, both cancellable at any await | `LiveSubIsRegistered`, `GrantIsTracked`, `SingleFlight`, `NoOrphanRequest` | 93,795 |
| `durable` | 1 path, up to 2 DVals, 3 `do_resub` rounds, `tries` up to 2 | `LiveDValRegistered`, `NoLostWakeup`, `DurableStateMatchesMap`, `NoPanic` | 194,537 |
| `durable_streams` | 1 path, 1 DVal, up to 2 calls of `updates` and up to 2 listeners at a time, registered and closed at any moment, 2 `do_resub` rounds, `tries` up to 1, `Streams = TRUE` | `ListenerHearsState`, `StreamIsAttached` | 454,032 |
| `returns` | `FairSpec`; 1 path, 2 users x 1 call, with or without a timeout, batches that may name the path twice | `TimedCallReturns` | 30,125 |
| `durable_retry` | `FairSpec`; 1 path, 1 DVal with a stream and a listener (`Streams = TRUE`), 2 `do_resub` rounds, `tries` up to 1, users make no calls of `subscribe_vals` | `DeadIsRetried`, `DoResubEnds` | 76,392 |
| `fanout` | `MCFanOut`; subscriptions `s1` (2 values), `s2` (1 value, may end), `s3` (unknown to the task); channels `a`, `b` of capacity 1; streams `s1`->`a` beginning with last, `s2`->`a`, `s1`->`b`; `a` may be dropped; `last()` of `s1`; users that consume a batch or drop it as it is; pool of 1 | `TypeOK`, `StreamOrder`, `StreamIsCurrent` | 2,706,758 |
| `channel` | `MCChannel`, `FairSpec`; four payloads (empty, one byte, one that reads as a header, one too long), 3 calls, socket of 3 bytes, reads of up to 2 | `TypeOK`, `Refines`, `FlushCompletes` | 5,549 |
| `resolver` | `MCResolverServer`, `FairSpec`; 3 clients, `max_connections` 2, 1 write address, 1 path, ttls 0, 1, 3 with `MAX_TTL` 2, a `SecStore` and 1 context | `TypeOK`, `ConnectionLimit`, `OneWriterPerAddr`, `DeadClientIsReaped` | 363,370 |
| `expr` | `MCExpr`; every expression of depth up to 2 with up to 2 arguments, limits 4, 9, 12, 20 | `TypeOK`, `PrettyIsDisplay`, `FlatLinesFit` | 3,288 |
| `config` | `Config`; files of up to 2 servers, every set of candidates, named or not, created and removed at any moment | `TypeOK`, `AcceptedIsSound`, `LoadsFirstExisting` | 25,590 |

What the properties of the runs outside the subscriber's safety runs say
(`GrantIsTracked`, of `twoaddrs`, is new with the faithful `Drop for
ValInner`: every id a publisher counts as subscribed is in the
subscriptions of the connection task, in a `Subscribed` on its way to it,
or named by a `To::Unsubscribe` on its way back; the cases are the
`Subscribed` that comes after its request timed out and the one whose
caller dropped the future):

* `DeadIsRetried`: a DVal that somebody holds and that is in
  `durable_dead` is handed to `subscribe_vals` again (until the bound on
  `do_resub` rounds is reached), whether it is woken by `trigger_resub` or
  by the timer.
* `DoResubEnds`: a `do_resub` that has called `subscribe_vals` returns,
  also while the connection task is held in a send to the user's channel,
  unless a connection stays in its hello for ever or the call waits on the
  request of a user's call without a timeout.
* `TimedCallReturns`: a call made with a timeout returns, unless one of
  three things happens, each of which the code allows (and for each a
  configuration shows the guarantee without exceptions violated): a connection stays in its hello for ever, the call stays
  parked on the request of a call without a timeout, or some batch names a
  path twice.
* `ListenerHearsState`: what every open listener registered with
  `state_updates` heard last is what `DVal::state` reports, whatever the
  order of its registration, `unsubscribe` and `do_resub`, and whichever
  listeners before it in the vector were closed: the loop that removes a
  closed listener must not step over the one that follows it.
* `StreamIsAttached`: the open channel registered with `DVal::updates` is
  in the streams of the subscription the DVal holds, or a `ToCon::Stream` for
  it waits in the command channel of that connection; also when it was
  registered while the DVal was dead or while `do_resub` was at work.
* `StreamOrder`: of the items the task pushes for a channel, those of each
  subscription are a prefix of the values from the registration on, in
  order and each once; whatever the batches, the path they take, the order
  `by_chan` is drained in, the channels that are full or closed, and
  whatever the vectors `Batch::new` pops already hold.
* `StreamIsCurrent`: when the task is back at its select, every open
  channel registered for a live subscription has been sent everything up to
  `Sub.last`.
* `Refines`: `Channel` implements `Fifo` (section 6).
* `FlushCompletes`: a flush that was started ends.
* `ConnectionLimit`, `OneWriterPerAddr`: at most `max_connections` tasks
  run; of the tasks that serve a write address at most one was not told to
  stop.
* `DeadClientIsReaped`: a task whose connection failed ends, after at most
  two ticks.
* `PrettyIsDisplay`: at every limit and nesting the pretty text differs
  from the flat one in blanks and line breaks only, which is what
  `expr_pp_round_trip` needs of the printer for a parser that skips blanks.
* `FlatLinesFit`: a line on which `pretty_print` wrote a whole application
  is at most as long as the limit: less than the limit by the printer's
  test, plus the separator that may follow an argument.
* `AcceptedIsSound`: a configuration `parse` returns has a server, no
  address `check_addr` refuses, local auth for servers on this machine
  only, tls only with certificates, and servers either all on this machine
  or all elsewhere; whatever the order of the servers in the file.
* `LoadsFirstExisting`: when nothing created or removed a candidate during
  the call, the file loaded is the first of the order that the environment
  names and that exists, and "no default config file was found" is said
  only when there is none.

Every property has a faulty variant of a modelled definition (defined just
before it in the module) under which TLC finds it violated; they are listed
under `mutants` in `PROJECT.json`.

The run that shows a disagreement between the code and what is said of it,
with one property and a finding in `PROJECT.json`:

| Run | Module, configuration | Property | What the trace shows |
|---|---|---|---|
| `stale_registry` | `MCSubscriber`, `StaleRegistry.cfg` | `SubscribedIsCurrent` | the connection dies between answering a request and the caller installing the answer: the registry ends with `Subscribed` for a subscription that is gone |

Further configurations are kept beside these. They are not among the listed
runs. `TwoPaths.cfg` passes: 2 paths, 2 users x 1 call, `NoOrphanWaiter`
and `NoPanic`, 172,641 states. Each of the others shows its property
violated, and its finding in `PROJECT.json` names it:

| Configuration | Module | Property | What the trace shows |
|---|---|---|---|
| `StaleConnection.cfg` | `MCSubscriber` | `ConnectionsAreOpen` | connect or hello fails, the task returns through `?` without its cleanup, and `connections[addr]` keeps a dead sender: the address is unusable from then on |
| `CancelOrphan.cfg` | `MCSubscriber` | `PendingHasOwner` | a `subscribe_vals` future dropped at an await leaves `Pending` entries that nobody completes |
| `DropLeak.cfg` | `MCSubscriber` | `NoLeakedSubscription` | the last Val of a subscription is dropped and the publisher is never told: `Drop for ValInner` sends nothing |
| `DurableStuck.cfg` | `MCSubscriber` | `DurableAliveIsSubscribed` | `do_resub` marks a DVal alive with a Val whose connection died while it waited |
| `DurableBothMaps.cfg` | `MCSubscriber` | `DurableInOneMap` | a path ends up in `durable_alive` (stale weak pointer) and in `durable_dead` (new DVal) |
| `TimedWaiter.cfg` | `MCSubscriber` | `TimedCallCompletes` | the guarantee without exceptions: a call with a timeout joins the `Pending` entry of one without, the publisher sends nothing but heartbeats, and the timed call never returns |
| `ResubBlocked.cfg` | `MCSubscriber` | `DoResubAlwaysEnds` | as `durable_retry`, but without its exceptions and with a user that calls `subscribe_vals` without a timeout: the call of `do_resub` joins the user's `Pending` entry, the publisher stays silent, and the resub task never leaves `do_resub` |
| `HelloSilent.cfg` | `MCSubscriber` | `TimedCallCompletes` | every call has a timeout; the peer of the address accepts the connection and never answers the hello: `hello_publisher` has no timer and the tick loop has not started, so no request expires and the timed call never returns |
| `RepeatedPath.cfg` | `MCSubscriber` | `TimedCallCompletes` | every call has a timeout and a batch may name a path twice: the second turn of the Init loop joins the `Pending` entry the first made, and the call waits for itself |
| `ChannelEof.cfg` | `MCChannel` | `ClosedIsReported` | the peer shuts down: `read` returns 0, `fill_buffer` returns `Ok`, and `receive` loops without returning or reporting that the peer is gone |
| `FanOutPool.cfg` | `MCFanOut` | `BatchIsFresh` | a batch dropped with its items returns to `BATCHES` as it is, and the next batch built from that vector carries the old items to its channel, ahead of the new value |
| `FanOutEnds.cfg` | `MCFanOut` | `StreamEnds` | a subscription ends and `by_receiver` still holds a sender of its channel: the stream does not end while the connection lives, against "if the subscription dies the stream will end" |
| `FanOutBlocked.cfg` | `MCFanOut` | `LastReturns` | under fairness of the task alone: channel `a` is full, the task waits in its send, and the user's `last()` is never answered, because the command is read only at the select |
| `ChannelTorn.cfg` | `MCChannel` | `Refines` | a flush is given up in the vectored loop after the header went out, the next flush pops the one buffer left and is given up inside `write_all`: the payload is lost, and the message queued next is read as its rest |
| `ResolverTimeout.cfg` | `MCResolverServer` | `StoppedBySuccessor` | a write session is replaced by a new hello and its tick expires before it has seen the stop: it removes the `clinfo` entry of its successor, stops it and unpublishes the address |
| `ResolverOwner.cfg` | `MCResolverServer` | `PublishedHasOwner` | a write client takes over the session of its address and fails before its loop starts: the old task is stopped without unpublishing, and what it published stays with no task to time it out |
| `ResolverReuse.cfg` | `MCResolverServer` | `AcceptedIsKept` | a client is given the id of its security context in `ServerAuth::Accepted`; nothing calls `SecStore::save`, so the store never holds the context and `ClientAuth::Reuse(id)` is refused |
| `ResolverSlots.cfg` | `MCResolverServer` | `SlotsAreReturned` | the counter is incremented for a connection that is turned away and never decremented for it: after `max_connections` rejections nobody is admitted |

## 4. Bounds

| Constant | Meaning | Why the values used are enough |
|---|---|---|
| `MaxCalls` | `subscribe_vals` calls per user | 2 lets a call meet a registry left behind by an earlier call of the same or the other user (dead weak pointer, live subscription, orphaned entry) |
| `MaxId` | ids a publisher hands out | 2 gives an old and a new subscription of the same path on one connection |
| `MaxGen` | DVals created per path | 2 gives a dropped DVal and its successor |
| `MaxResub` | `do_resub` rounds that call `subscribe_vals` | 3 covers first attempt, retry after failure, resubscribe after unsubscribe; `durable_streams` and `durable_retry` have 2 (attempt and retry or resubscription), which is what a listener and a stream must survive and what a retry needs |
| `MaxTries` | `tries` saturates here | the back-off value itself is abstracted; 2 separates "never failed" from "failed" (1 in `durable_streams`, whose properties do not read `tries`) |
| `Timeouts` | the timeouts users pass | `TRUE` makes requests expire at ticks, `FALSE` keeps them until answered; `twoaddrs` and `returns` have both |
| `Cancellable` | users whose future may be dropped | empty except in `twoaddrs` and `CancelOrphan.cfg` |
| `Auth` | `desired_auth` | both hellos are run (`twoaddrs` uses Kerberos) |
| `Repeats` | batches may name a path twice | `TRUE` in `returns` and `RepeatedPath.cfg`; `FALSE` in the safety runs, where a repeated path panics the call (finding of `RepeatedPath.cfg`) |
| `Streams` | streams and listeners are registered on DVals | `TRUE` in `durable_streams` and `durable_retry` |
| `MaxListeners` | open listeners in `ds.states` at a time | 2 in `durable_streams`: a closed listener followed by an open one is the case the removing loop can get wrong; 1 elsewhere |
| `MaxStreams` | calls of `DVal::updates` per DVal | 2 in `durable_streams`: a channel that was closed and its successor, registered before and after a resubscription; without the bound the commands in the channel of a connection grow for ever |

Two users are the least number that exercises deduplication; one address
suffices except where the question is about two connections (`twoaddrs`).

`FanOut`:

| Constant | Meaning | Why the values used are enough |
|---|---|---|
| `Subs`, `InitLive` | subscription ids, and the ones the task holds | `s1` and `s2` share channel `a`, so that one batch of the fast path carries two subscriptions; `s3` is an id the task does not know, which both paths must pass over |
| `MaxUpdates` | values published per subscription | 2 for `s1`: batches of one and of two updates, an update before and after a registration, a value sent on each path |
| `Ends` | subscriptions the publisher may end | `s2`: an Unsubscribed alone and in a batch with an update |
| `Wanted` | the streams users ask for | one with `begin_with_last`, one without, two channels for one subscription, two subscriptions for one channel |
| `Chans`, `ChanCap` | user channels and their capacity | capacity 1 makes the task wait after one batch, at every send |
| `Closers` | receivers that may be dropped | `a`: sends that fail, queued batches that are dropped, the retain of `ToCon::Stream` |
| `LastFor` | subscriptions `last()` is called of | one call at a time is enough for the task to be asked while it waits (`FanOutBlocked.cfg`) |
| `MaxPool` | vectors the pool keeps (1000) | 1 reaches the full pool and the reuse of a vector, empty and with items |

`Channel`:

| Constant | Meaning | Why the values used are enough |
|---|---|---|
| `Base`, `HdrLen` | values of a byte, bytes of a prefix | 2 and 2: lengths 0 to 3, and payloads that read as headers |
| `Msgs` | payloads | empty, one byte, the header of a one-byte message, and one longer than `MaxLen`, which must be refused |
| `MaxSend` | calls of `queue_send_raw` and `send_one_raw` | 3 messages are 6 buffers: partial writes end inside a buffer, at its end and across several |
| `WireCap`, `MaxRead` | socket buffer, most one read returns | 3 and 2: a frame of 4 bytes never crosses in one piece, a read may end inside a prefix |

`ResolverServer`:

| Constant | Meaning | Why the values used are enough |
|---|---|---|
| `Clients`, `MaxConnections` | connections, the limit | 3 against 2: the limit is reached, one client is turned away, slots are reused |
| `WAddrs`, `RPaths` | write addresses, paths | one address contested by three clients is the case the take-over is about |
| `Ttls`, `MaxTtl` | ttls asked for, `MAX_TTL` | 0 and 3 are refused (`ttl <= 0`, `ttl > MAX_TTL`), 1 is accepted |
| `Secure`, `MaxCtx` | the server has a `SecStore`; contexts `create` makes | with one context a client can ask for an id that was given, for one that was not, and a second `Token` hello finds the bound; `ResolverReuse.cfg` uses 2 |

`Expr`:

| Constant | Meaning | Why the values used are enough |
|---|---|---|
| `MaxDepth`, `MaxArgs` | nesting and arguments of an application | 2 and 2: an application broken over lines inside one that is broken, beside one that is not; no, one and two arguments, so a last argument and one that is not |
| `Values`, `Fnames` | tokens of constants and names | widths 1 and 5, 1 and 3: flat texts of many lengths around the limits |
| `Limits` | column limits | 4, 9, 12 and 20 fall below, between and on the widths of the texts, the indentation counted: a text as wide as the limit and one a byte shorter both occur |

`Config`:

| Constant | Meaning | Why the value used is enough |
|---|---|---|
| `MaxAddrs` | servers in a file | 2: a first server that passes before a second that does not, and a pair that is mixed |

## 5. Fairness and liveness

Fairness is asked of the tasks of this repository only: never of a
publisher, a resolver or a user. `FairSpec` of `Subscriber` is `Spec` with
weak fairness of

| Fair action | Code | Why the code justifies it |
|---|---|---|
| `Progress(c)`, for every caller | the body of `subscribe_vals` between its awaits | tokio polls a task whose awaited future is ready; the steps are enabled only when the resolver has answered or the visited oneshot is settled |
| `Connected(a) \/ ConnectFail(a)` | `TcpStream::connect` | the connect is wrapped in `time::timeout(PERIOD)` |
| `ConSubscribe(a) \/ ConStream(a) \/ ConStreamWaits(a)` | the `from_sub` arm of `select_biased!` | a queued command is read once the task is polled; whether the send of a stream's last value finds room is not chosen fairly |
| `ExpiringTick(a)` | the `periodic` arm | the interval fires every `PERIOD` and is polled first; a tick that fires expires every request whose deadline has passed |
| `ResubStep` | the resub task: its `select!` and `do_resub` | the task is polled when `trigger_resub` holds a message or its timer has fired; a timer set for the earliest `next_try` fires when that DVal is due |

No fairness is asked of `HelloOk` and `HelloFail`: `hello_publisher` awaits
`con.receive()` with no timeout and before the tick loop runs, so that it
ends depends on the peer alone. None is asked of `ConStreamResumes`
either, which depends on the user. After the hello the publisher may
answer, heartbeat for ever or close. `ExpiringTick` is the one place where
the abstraction of time shows: `Tick(a, E)` lets any subset `E` of the
requests with a deadline expire, and fairness is asked only of the tick
that expires all of them, i.e. deadlines do pass.

Under this fairness the guarantees the documentation gives without
conditions do not hold, and the properties of the passing runs name what
they depend on, in the form `goal \/ <>[]exception`:

* `TimedCallCompletes`, "the call completes no later than now + timeout",
  is violated in three ways (`HelloSilent.cfg`, `TimedWaiter.cfg`,
  `RepeatedPath.cfg`). `TimedCallReturns`, which `returns` checks with all
  three within reach, says that there is no fourth: a timed call returns
  unless a connection stays in its hello for ever (`HelloHolds`), the call
  stays parked on a path whose owner has no timeout (`ParkedOnUntimed`),
  or a batch names a path twice.
* `DoResubAlwaysEnds` is violated the same way (`ResubBlocked.cfg`);
  `DoResubEnds` names the hello and the untimed owner as its exceptions.
  In `durable_retry` users make no calls of `subscribe_vals`, so what the
  run exercises is the hello; the DVal has a stream, so the run includes
  the connection task held in a send while `do_resub` asks it to
  subscribe, where the timeout of the call is what ends it.

The second liveness question is whether a dead durable subscription is
retried. `NoLostWakeup` is its safety half (while a live DVal is dead the
task has a trigger or a timer); `DeadIsRetried` and `DoResubEnds` are the
rest. The bound `MaxResub` on the rounds of `do_resub` is part
of `DeadIsRetried`: it asks nothing once the bound is reached, nor while a
hello holds the `do_resub` before.

The other models:

| Module | Fair actions | Why the code justifies it |
|---|---|---|
| `FanOut` | `SlowMsg \/ Send \/ HandleLast` | the connection task is polled when what it awaits is ready: a send when the channel has room or is closed, the next message of the batch in hand, a command in `from_sub` when the task is at its select |
| `Channel` | `WriteAll \/ WriteVectored`, `FillBuffer`, `FillFails`, `ReceiveBatch` | the socket takes bytes while it has room and delivers what it holds; the reader is the task of this repository at the other end (`decode_task`, `client_loop`), which loops around `receive_batch`. Nothing is assumed of the caller of `flush`, nor of whether the connection ends |
| `ResolverServer` | `TickActive(c) \/ TickExpired(c) \/ StopSeen(c)` | the interval of a task in its loop fires, and a stop that was sent is seen at the next select. Nothing is assumed of the clients |

`Expr` and `Config` have safety properties only and ask for no fairness.

Batches are not taken fairly in `FanOut` (the publisher may be silent), nor
is `Exit`, nor are the reads of the users. The run `fanout` checks safety
only. `LastReturns` needs the task to get back to its select, which it
does after the sends of the batch in hand, each of which needs room in a
channel that only its user can make: under the fairness of the task alone
it is violated (`FanOutBlocked.cfg`).

## 6. Refinement

`Fifo` is the abstract specification of a channel: a queue of whole
messages, `Send`, `Recv` of a non-empty batch from the front, and `Fail`,
which loses a suffix of the queue. `Channel` implements it under the mapping

    queue <- Frames(incoming \o wire \o writing \o FlattenSeq(outgoing))
    out   <- out

where `Frames(bytes)` are the whole frames a byte sequence begins with,
read the way the wire format says (`HdrLen` bytes of length, big-endian,
then that many bytes). The run `channel` checks `F!Spec` as the property
`Refines`. Every step that moves bytes (partial writes, `advance`, reads)
is a stuttering step of `Fifo`; `QueueSendRaw` and `SendOneRaw` are `Send`, `ReceiveBatch` is
`Recv`, and the failure of the connection is `Fail`. The mutant of
`advance` that drops a partly written buffer whole breaks it, as does a
flush given up inside `write_all` (`ChannelTorn.cfg`).

## 7. Not modelled

| Part | Why |
|---|---|
| Kerberos contexts (`resolver_server.rs` 222-230), `SecStore::save`, `SecStore::gc` | the contexts are opaque values of a library: the model keeps their ids and the control around them. `save` and `gc` are never called, so there is nothing of them to translate; what follows from that is the finding of `ResolverReuse.cfg` |
| replies of the resolver server, the store's data structure | the replies change no state; the store is not in this repository and stands as a set of pairs |
| msgpack encoding of messages (`queue_send`, `receive`) | a typed message is its bytes; the framing is modelled byte by byte |
| several open channels of one DVal at a time | `ds.streams` is a vector; the model keeps one open channel and the calls of `updates` that replace a closed one. Two channels of one subscription are in `FanOut` |
| a resolver answer shorter than the question (`subscribe_vals` 556-560) | `ResolverRead` is not in this repository; the model's resolver answers every path it was asked for |
| `Channel::into_inner`, `Channel::receive` as a typed call | `into_inner` gives the socket away and ends the channel; decoding a typed message is the msgpack library |
| the tests of `expr.rs` (191-336) and of `resolver_server.rs` (402-452) | the first need the parser, the second a publisher and a resolver client that are not in this repository; what they state of the code is taken as properties where the code is modelled |
| the periodic tick against a task blocked in a send | `FanOut` has no time; in `Subscriber` a task in `sending` takes no tick, and what the first tick after the send finds is whatever `msg_recvd` was before it |
| the arm of `ToCon::Unsubscribe` (`subscriber.rs` 1115-1117) | nothing sends the command: its one sender, `Drop for ValInner`, builds a future and drops it |
| `flush_with_timeout` itself | not in this repository; `FlushTimeout` is what the description says of it |
| the parser of expressions, `Deserialize`, `FromStr` | `parser::parse_expr` is not in this repository, so the round trip the tests of `expr.rs` check cannot be run; what it needs of the printer is `PrettyIsDisplay` |
| `utils::check_addr` (`config.rs` 67) | not in this repository: an address it refuses is the kind `bad` |
| `recorder.rs` | `run()` checks its arguments, loads the configuration, creates a directory and hands everything to `Recorder::start` of another crate, then waits for ctrl-c: no state of its own and nothing concurrent in this file |

## 8. Plan

1. The stream of a DVal end to end: `Durable` and `FanOut` composed, so
   that "the stream starts again after a resubscription" is about the
   values the user receives and not only about the registration.
2. A resolver answer shorter than the question in `subscribe_vals`, once
   the resolver client is at hand.
3. `FanOut` refined to one abstract queue per channel and subscription.
4. `durable_retry` with calls of users, so that `ParkedOnUntimed(Resub)`
   is within reach of the passing run too: with one call the liveness
   check takes more than four minutes.
5. `durable` with streams and two generations of DVals, or with three
   `do_resub` rounds and two listeners (2.4 million states), which needs a
   smaller encoding of the connection task to stay within reach.

## 9. Running

    tlc -workers 2 -config Dedup.cfg MCSubscriber

and likewise `TwoAddrs`, `DurableResub`, `DurableStreams`, `Returns`,
`DurableRetry`, `StaleRegistry`, `TwoPaths` and the further configurations
of `MCSubscriber`; `FanOut`, `FanOutPool`, `FanOutEnds`, `FanOutBlocked`
with `MCFanOut`; `ChannelFifo`, `ChannelEof`, `ChannelTorn` with
`MCChannel`; `Resolver`, `ResolverOwner`, `ResolverReuse`, `ResolverSlots`,
`ResolverTimeout` with `MCResolverServer`; `Expr` with
`MCExpr`; `Config` with `Config`.
