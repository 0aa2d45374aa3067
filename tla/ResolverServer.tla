--------------------------- MODULE ResolverServer ----------------------------
(***************************************************************************)
(* The resolver server of resolver_server.rs: the accept loop with its     *)
(* connection counter, and one client_loop task per accepted connection:   *)
(* the hello, in which a write client takes over the session of its        *)
(* address, the batches it handles against the store, and the ttl tick     *)
(* that removes a silent client and what it published.                     *)
(*                                                                         *)
(* Time is abstracted: a tick may fire whenever the task is in its loop.   *)
(* Replies are left out but for the context id of ServerAuth::Accepted.    *)
(* A security context is its id in the SecStore; a Kerberos step that      *)
(* fails ends the task where HelloFails does.  The store (resolver_store)  *)
(* is a set of (path, address) pairs.                                      *)
(***************************************************************************)
EXTENDS Naturals, FiniteSets

CONSTANTS Clients,          \* connections, one client_loop task each
          WAddrs,           \* write addresses
          RPaths,           \* paths
          Ttls, MaxTtl,     \* the ttls a write client may ask for, MAX_TTL
          MaxConnections,   \* cfg.max_connections
          Secure,           \* cfg.auth is Krb5: the server has a SecStore
          MaxCtx,           \* bound: security contexts created
          None

VARIABLES connections,   \* the AtomicUsize of server_loop
          server,        \* "up" or "stopped"
          phase,         \* where each task is
          waddr,         \* write_addr of the task, None for a reader
          clinfo,        \* store.clinfo: address -> whose tx_stop it holds
          stop, sstop,   \* rx_stop and server_stop hold a message
          con, act,      \* con is Some, act
          published,     \* the store
          ctxts, next,   \* SecStoreInner: the ids of the contexts kept, the next id
          ctx,           \* the security context of the task, None without
          accepted       \* the ids sent in ServerAuth::Accepted to clients that have not timed out

secVars == <<ctxts, next, ctx, accepted>>
vars == <<connections, server, phase, waddr, clinfo, stop, sstop, con, act, published, secVars>>

Running == {c \in Clients : phase[c] \in {"hello", "reply", "loop", "spin"}}

Requests ==
    {[type |-> t] : t \in {"Heartbeat", "Resolve", "List", "Clear"}}
    \cup [type : {"Publish", "Unpublish"}, path : RPaths, absolute : BOOLEAN]

(* Faulty variant of Admits: one connection too many. *)
AdmitsOneMore(n) == n <= MaxConnections

(* fetch_add(1) < max_connections, on the value before the increment. *)
Admits(n) == n < MaxConnections

(* Faulty variant of Leave: the counter is decremented twice. *)
LeaveTwice(n) == n - 2

(* fetch_sub(1) when the task has ended. *)
Leave(n) == n - 1

(* The spawned task ends, whatever client_loop returned. *)
Exit(c) ==
    /\ phase' = [phase EXCEPT ![c] = "done"]
    /\ connections' = Leave(connections)

Init ==
    /\ connections = 0 /\ server = "up"
    /\ phase = [c \in Clients |-> "none"]
    /\ waddr = [c \in Clients |-> None]
    /\ clinfo = [a \in WAddrs |-> None]
    /\ stop = [c \in Clients |-> FALSE] /\ sstop = [c \in Clients |-> FALSE]
    /\ con = [c \in Clients |-> FALSE] /\ act = [c \in Clients |-> FALSE]
    /\ published = {}
    /\ ctxts = {} /\ next = 0 /\ accepted = {}
    /\ ctx = [c \in Clients |-> None]

-----------------------------------------------------------------------------
(* server_loop accepts a connection: the counter is incremented, and below *)
(* the limit a task is spawned; otherwise the connection is dropped.       *)
Accept(c) ==
    /\ server = "up" /\ phase[c] = "none"
    /\ connections' = connections + 1
    /\ phase' = [phase EXCEPT ![c] = IF Admits(connections) THEN "hello" ELSE "done"]
    /\ UNCHANGED <<server, waddr, clinfo, stop, sstop, con, act, published, secVars>>

(* The Server is dropped: every client task is sent a stop. *)
Stop ==
    /\ server = "up"
    /\ server' = "stopped"
    /\ sstop' = [c \in Clients |-> c \in Running]
    /\ UNCHANGED <<connections, phase, waddr, clinfo, stop, con, act, published, secVars>>

(* No hello within HELLO_TIMEOUT, or the read fails. *)
HelloTimeout(c) ==
    /\ phase[c] = "hello"
    /\ Exit(c)
    /\ UNCHANGED <<server, waddr, clinfo, stop, sstop, con, act, published, secVars>>

HelloReadOnly(c) ==
    /\ phase[c] = "hello"
    /\ phase' = [phase EXCEPT ![c] = "reply"]
    /\ UNCHANGED <<connections, server, waddr, clinfo, stop, sstop, con, act, published, secVars>>

(* Faulty variant of Replaced: the old task is not told to stop. *)
ReplacedSilently(st, old) == st

(* mem::replace(cl, Some(tx_stop)) and old_stop.send(()). *)
Replaced(st, old) == IF old = None THEN st ELSE [st EXCEPT ![old] = TRUE]

(* ClientHello::WriteOnly: an invalid ttl ends the task; otherwise the     *)
(* task puts its tx_stop into clinfo and stops the task that was there.    *)
HelloWriteOnly(c, a, ttl) ==
    /\ phase[c] = "hello"
    /\ \/ /\ ttl = 0 \/ ttl > MaxTtl
          /\ Exit(c)
          /\ UNCHANGED <<waddr, clinfo, stop>>
       \/ /\ ttl > 0 /\ ttl <= MaxTtl
          /\ clinfo' = [clinfo EXCEPT ![a] = c]
          /\ stop' = Replaced(stop, clinfo[a])
          /\ waddr' = [waddr EXCEPT ![c] = a]
          /\ phase' = [phase EXCEPT ![c] = "reply"]
          /\ UNCHANGED connections
    /\ UNCHANGED <<server, sstop, con, act, published, secVars>>

(* The ClientAuth of a hello. *)
Auths == {[type |-> "Anonymous"], [type |-> "Token"]} \cup [type : {"Reuse"}, id : 0..MaxCtx]

(* SecStoreInner::get: the context kept under the id, unless it has run    *)
(* out (ttl is 0).                                                         *)
Get(id, fresh) == id \in ctxts /\ fresh

(* SecStoreInner::delete. *)
Delete(id) == ctxts \ {id}

(* The security context of the hello.  With a SecStore, Reuse takes the    *)
(* context Get finds, and Token makes a new one under the next id, which   *)
(* ServerAuth::Accepted tells the client when step gave a token to send.   *)
(* Nothing puts the new context into the store.                            *)
Context(c, auth, fresh, tok) ==
    LET made == Secure /\ auth.type = "Token"
        id   == CASE ~Secure \/ auth.type = "Anonymous" -> None
                  [] auth.type = "Reuse"                 -> auth.id
                  [] auth.type = "Token"                 -> next
    IN  /\ Secure /\ auth.type = "Reuse" => Get(auth.id, fresh)
        /\ made => next < MaxCtx
        /\ ctx' = [ctx EXCEPT ![c] = id]
        /\ next' = IF made THEN next + 1 ELSE next
        /\ accepted' = IF made /\ tok THEN accepted \cup {id} ELSE accepted
        /\ UNCHANGED ctxts

(* The context is there, ServerHello is sent and the task enters its loop. *)
HelloReply(c, auth, fresh, tok) ==
    /\ phase[c] = "reply"
    /\ Context(c, auth, fresh, tok)
    /\ phase' = [phase EXCEPT ![c] = "loop"]
    /\ con' = [con EXCEPT ![c] = TRUE]
    /\ act' = [act EXCEPT ![c] = FALSE]
    /\ UNCHANGED <<connections, server, waddr, clinfo, stop, sstop, published>>

(* The security context is refused (an id Get does not find, a step that   *)
(* fails), or ServerHello is not sent within HELLO_TIMEOUT: the task       *)
(* returns the error.                                                      *)
HelloFails(c) ==
    /\ phase[c] = "reply"
    /\ Exit(c)
    /\ UNCHANGED <<server, waddr, clinfo, stop, sstop, con, act, published, secVars>>

-----------------------------------------------------------------------------
(* handle_batch for a write client: what the message does to the store. *)
Apply(st, a, m) ==
    CASE m.type = "Publish" /\ m.absolute -> st \cup {<<m.path, a>>}
      [] m.type = "Unpublish"             -> st \ {<<m.path, a>>}
      [] m.type = "Clear"                 -> {e \in st : e[2] # a}
      [] OTHER                            -> st

(* A batch arrives and is handled under the lock of the store, a reader's  *)
(* without changing it; then the replies are flushed.  If handle_batch or  *)
(* flush fails, con becomes None.                                          *)
Batch(c, m, sent) ==
    /\ phase[c] = "loop" /\ con[c]
    /\ act' = [act EXCEPT ![c] = TRUE]
    /\ published' = IF waddr[c] = None THEN published ELSE Apply(published, waddr[c], m)
    /\ con' = [con EXCEPT ![c] = sent]
    /\ UNCHANGED <<connections, server, phase, waddr, clinfo, stop, sstop, secVars>>

(* receive_batch returns an error. *)
ReceiveErr(c) ==
    /\ phase[c] = "loop" /\ con[c]
    /\ con' = [con EXCEPT ![c] = FALSE]
    /\ UNCHANGED <<connections, server, phase, waddr, clinfo, stop, sstop, act, published, secVars>>

(* The client has shut its connection down: read returns 0, and receive    *)
(* never returns (FillAtEof of module Channel), not to the timeout around  *)
(* the hello and not to the select of the loop.                            *)
ReceiveEof(c) ==
    /\ phase[c] = "hello" \/ (phase[c] = "loop" /\ con[c])
    /\ phase' = [phase EXCEPT ![c] = "spin"]
    /\ UNCHANGED <<connections, server, waddr, clinfo, stop, sstop, con, act, published, secVars>>

(* server_stop or rx_stop is ready: break Ok(()). *)
StopSeen(c) ==
    /\ phase[c] = "loop" /\ (sstop[c] \/ stop[c])
    /\ Exit(c)
    /\ UNCHANGED <<server, waddr, clinfo, stop, sstop, con, act, published, secVars>>

(* Faulty variant of Rearm: act stays set. *)
RearmKeeps(active, c) == active

(* The tick finds act set and clears it. *)
Rearm(active, c) == [active EXCEPT ![c] = FALSE]

TickActive(c) ==
    /\ phase[c] = "loop" /\ act[c]
    /\ act' = Rearm(act, c)
    /\ UNCHANGED <<connections, server, phase, waddr, clinfo, stop, sstop, con, published, secVars>>

(* The tick finds act clear: the client timed out.  Its security context   *)
(* is deleted from the SecStore; a write client removes the clinfo entry   *)
(* of its address, sends the stop that entry holds, unpublishes the        *)
(* address, and the task ends.                                             *)
TickExpired(c) ==
    /\ phase[c] = "loop" /\ ~act[c]
    /\ ctxts' = IF Secure /\ ctx[c] # None THEN Delete(ctx[c]) ELSE ctxts
    /\ accepted' = accepted \ {ctx[c]}
    /\ UNCHANGED <<next, ctx>>
    /\ LET a == waddr[c]
       IN  IF a = None THEN UNCHANGED <<clinfo, stop, published>>
           ELSE /\ clinfo' = [clinfo EXCEPT ![a] = None]
                /\ stop' = Replaced(stop, clinfo[a])
                /\ published' = {e \in published : e[2] # a}
    /\ Exit(c)
    /\ UNCHANGED <<server, waddr, sstop, con, act>>

Next ==
    \/ Stop
    \/ \E c \in Clients :
          \/ Accept(c)
          \/ HelloTimeout(c) \/ HelloReadOnly(c)
          \/ \E a \in WAddrs, ttl \in Ttls : HelloWriteOnly(c, a, ttl)
          \/ \E auth \in Auths, fresh, tok \in BOOLEAN : HelloReply(c, auth, fresh, tok)
          \/ HelloFails(c)
          \/ \E m \in Requests, sent \in BOOLEAN : Batch(c, m, sent)
          \/ ReceiveErr(c) \/ ReceiveEof(c)
          \/ StopSeen(c)
          \/ TickActive(c) \/ TickExpired(c)

Spec == Init /\ [][Next]_vars

(* The interval of a task in its loop fires, and a stop that was sent is   *)
(* seen.  Nothing is assumed of the clients.                               *)
FairSpec ==
    /\ Spec
    /\ \A c \in Clients : WF_vars(TickActive(c) \/ TickExpired(c) \/ StopSeen(c))

-----------------------------------------------------------------------------
TypeOK ==
    /\ connections \in 0..Cardinality(Clients)
    /\ server \in {"up", "stopped"}
    /\ phase \in [Clients -> {"none", "hello", "reply", "loop", "spin", "done"}]
    /\ waddr \in [Clients -> WAddrs \cup {None}]
    /\ clinfo \in [WAddrs -> Clients \cup {None}]
    /\ {stop, sstop, con, act} \subseteq [Clients -> BOOLEAN]
    /\ published \subseteq RPaths \X WAddrs
    /\ ctxts \subseteq 0..MaxCtx /\ accepted \subseteq 0..MaxCtx /\ next \in 0..MaxCtx
    /\ ctx \in [Clients -> 0..MaxCtx \cup {None}]

(* max_connections bounds the client tasks that run at once, whatever the  *)
(* order of accepts and task ends (fetch_add in server_loop, fetch_sub in  *)
(* the spawned task).                                                      *)
ConnectionLimit == Cardinality(Running) <= MaxConnections

(* A write address has one session at a time: of the tasks that serve an   *)
(* address, at most one has not been sent a stop, however new hellos and   *)
(* the timeouts of replaced tasks interleave.                              *)
OneWriterPerAddr ==
    \A a \in WAddrs :
        Cardinality({c \in Running : waddr[c] = a /\ ~stop[c] /\ ~sstop[c]}) <= 1

(* A client whose connection failed is gone after at most two ticks: the   *)
(* task ends, and with it the slot it holds.                               *)
DeadClientIsReaped ==
    \A c \in Clients : (phase[c] = "loop" /\ ~con[c]) ~> (phase[c] = "done")

(* While the server runs, what is published has a session that answers    *)
(* for it: clinfo names a task of the address that is still there and will *)
(* unpublish the address when its client goes silent.  (A task stuck in    *)
(* receive at the end of its stream counts as there; that it never times   *)
(* out is what ClosedIsReported of module Channel is about.)               *)
PublishedHasOwner ==
    \A a \in WAddrs :
        (server = "up" /\ \E p \in RPaths : <<p, a>> \in published)
            => clinfo[a] # None /\ clinfo[a] \in Running

(* A write session is ended by the publisher's next hello, by the server   *)
(* or by its own timeout: when a task that goes on is sent a stop, clinfo  *)
(* names its successor.  The tick of a task that was replaced (lines       *)
(* 306-315) removes whatever clinfo holds for the address and unpublishes  *)
(* it, the session of its successor included.                              *)
StoppedBySuccessor ==
    [][\A c \in Clients :
          ~stop[c] /\ stop'[c] /\ phase'[c] # "done" => clinfo'[waddr[c]] \notin {None, c}]_vars

(* The counter counts the client tasks: a connection is turned away only   *)
(* when max_connections tasks are running.                                 *)
SlotsAreReturned == connections = Cardinality(Running)

(* A context id the server has sent in ServerAuth::Accepted is one a later *)
(* ClientAuth::Reuse finds, until the client that holds it times out       *)
(* (create_ctx and SecStore::get in the hello of client_loop).             *)
AcceptedIsKept == accepted \subseteq ctxts

=============================================================================
