------------------------------ MODULE WsrpcPool ------------------------------
(***************************************************************************)
(* The pool of Mercury clients (mercury/wsrpc/pool.go), the life of its    *)
(* clients (client.go) and the caches that they share (cache_set.go).      *)
(* The module follows the connections of one client key to one server.     *)
(*                                                                         *)
(* A consumer checks a client out, uses it and closes it, which checks it  *)
(* in. A step of a consumer or of Close that takes a mutex waits while it  *)
(* is held. A connection object that left the map may still be in use.     *)
(***************************************************************************)
EXTENDS Common, Sequences

CONSTANTS
    Consumers,
    MaxConsecutiveRequestFailures,
    MaxClients                 \* how many clients are ever created

ASSUME PoolAssumption ==
    /\ "close" \notin Consumers /\ Absent \notin Consumers \cup {"close"}
    /\ MaxConsecutiveRequestFailures \in Nat

VARIABLE pool
(* pool.closed, .mu      the flag, and who holds the mutex (Absent: none)  *)
(*     .current          the connection in the map, 0 if none              *)
(*     .conns            [client, checkouts, mu] of every connection       *)
(*     .clients          [state, loop, reset, timeouts] of every client    *)
(*     .cache            the client of the server's memCache, 0 if none    *)
(*     .caching          whether the cacheSet is started                   *)
(*     .at, .conn        where each consumer and Close is, and in what     *)

Threads == Consumers \cup {"close"}

Conn(t) == pool.conns[pool.conn[t]]
ClientOf(t) == Conn(t).client
IsStarted(c) == c # 0 /\ pool.clients[c].state = "started"
ConnFree(t) == Conn(t).mu = Absent

-----------------------------------------------------------------------------
(* Checkout.                                                               *)

(* The lookup holds the mutex of the pool, the rest of Checkout does not.  *)
Checkout(t) ==
    /\ pool.at[t] = "idle" /\ pool.mu = Absent
    /\ ~ pool.closed /\ Len(pool.clients) < MaxClients
    /\ pool' = IF pool.current # 0
               THEN [pool EXCEPT !.at[t] = "checkout", !.conn[t] = pool.current]
               ELSE [pool EXCEPT !.at[t] = "checkout", !.conn[t] = Len(pool.conns) + 1,
                                 !.current = Len(pool.conns) + 1,
                                 !.conns = Append(@, [client |-> 0, checkouts |-> {}, mu |-> Absent])]

(* Start of a client: it dials, asks the cacheSet for the cache of its     *)
(* server, and spawns its loop. The cache that the first client of the     *)
(* server brought is kept, with that client. A client that fails to start  *)
(* stays in the connection.                                                *)
StartClient(t, dials) ==
    LET id == Len(pool.clients) + 1
        ok == dials /\ pool.caching
    IN [pool EXCEPT
          !.clients = Append(@, [state |-> IF ok THEN "started" ELSE "failed", loop |-> ok,
                                 reset |-> FALSE, timeouts |-> 0]),
          !.conns[pool.conn[t]] = [@ EXCEPT !.client = id, !.checkouts = IF ok THEN {t} ELSE {}],
          !.cache = IF ok /\ @ = 0 THEN id ELSE @,
          !.at[t] = IF ok THEN "holds" ELSE "idle"]

(* Mutant: every checkout starts a client of its own.                      *)
AlwaysStart(t) ==
    /\ pool.at[t] = "checkout" /\ ConnFree(t) /\ Len(pool.clients) < MaxClients
    /\ \E dials \in BOOLEAN : pool' = StartClient(t, dials)

EnsureStartedClient(t) ==
    /\ pool.at[t] = "checkout" /\ ConnFree(t) /\ Conn(t).checkouts = {}
    /\ Len(pool.clients) < MaxClients
    /\ \E dials \in BOOLEAN : pool' = StartClient(t, dials)

ShareClient(t) ==
    /\ pool.at[t] = "checkout" /\ ConnFree(t) /\ Conn(t).checkouts # {}
    /\ pool' = [pool EXCEPT !.conns[pool.conn[t]].checkouts = @ \cup {t}, !.at[t] = "holds"]

-----------------------------------------------------------------------------
(* Requests, and the reset of the transport after enough timeouts in a     *)
(* row. The count goes on after a reset and only another result clears it. *)

HandleTimeout(c, timedOut) ==
    LET n == pool.clients[c].timeouts
    IN IF timedOut
       THEN [pool EXCEPT
               !.clients[c].timeouts = Minimum({n + 1, MaxConsecutiveRequestFailures + 1}),
               !.clients[c].reset = @ \/ n + 1 = MaxConsecutiveRequestFailures]
       ELSE [pool EXCEPT !.clients[c].timeouts = 0]

Request(t) ==
    /\ pool.at[t] = "holds" /\ ConnFree(t) /\ IsStarted(ClientOf(t))
    /\ \E timedOut \in BOOLEAN : pool' = HandleTimeout(ClientOf(t), timedOut)

(* The loop takes a signal when it is ready. Dialling ends when it works   *)
(* or when the client is closed. Outside of the started state the call     *)
(* panics: the select may prefer the signal although Close has begun.      *)
ResetTransport(c) ==
    /\ pool.clients[c].loop /\ pool.clients[c].reset
    /\ pool' = [pool EXCEPT !.clients[c].reset = FALSE,
                            !.clients[c].loop = IsStarted(c),
                            !.clients[c].state = IF IsStarted(c) THEN @ ELSE "panic"]

LoopEnds(c) ==
    /\ pool.clients[c].loop /\ pool.clients[c].state = "stopping"
    /\ pool' = [pool EXCEPT !.clients[c].loop = FALSE]

-----------------------------------------------------------------------------
(* Close of a checked out client, and of the pool.                         *)

(* The mutex of the connection is held until the pool has removed it. A    *)
(* consumer whose checkout is gone, after the pool was closed, panics.     *)
Checkin(t) ==
    /\ pool.at[t] = "holds" /\ ConnFree(t)
    /\ LET rest == Conn(t).checkouts \ {t}
           k == pool.conn[t]
       IN pool' = IF t \notin Conn(t).checkouts THEN [pool EXCEPT !.at[t] = "panic"]
                  ELSE IF rest # {} THEN [pool EXCEPT !.conns[k].checkouts = rest, !.at[t] = "idle"]
                  ELSE [pool EXCEPT !.conns[k] = [@ EXCEPT !.checkouts = {}, !.mu = t],
                                    !.clients[ClientOf(t)].state = "stopping", !.at[t] = "closing"]

(* Close of the client returns when its loop has ended.                    *)
ClientClosed(t) ==
    /\ pool.at[t] = "closing" /\ ~ pool.clients[ClientOf(t)].loop
    /\ pool' = [pool EXCEPT !.clients[ClientOf(t)].state = "stopped",
                            !.conns[pool.conn[t]].client = 0, !.at[t] = "remove"]

(* The key is deleted, whatever connection it has by now.                  *)
RemoveConnection(t) ==
    /\ t \in Consumers /\ pool.at[t] = "remove" /\ pool.mu = Absent
    /\ pool' = [pool EXCEPT !.current = 0, !.conns[pool.conn[t]].mu = Absent, !.at[t] = "idle"]

ClosePool ==
    /\ pool.at["close"] = "idle" /\ pool.mu = Absent
    /\ pool' = [pool EXCEPT !.closed = TRUE, !.mu = "close", !.conn["close"] = pool.current,
                            !.at["close"] = IF pool.current = 0 THEN "caches" ELSE "force"]

(* The checkouts are dropped under the consumers that have them.           *)
ForceCloseAll ==
    /\ pool.at["close"] = "force" /\ ConnFree("close")
    /\ LET c == ClientOf("close")
           k == pool.conn["close"]
       IN pool' = IF IsStarted(c)
                  THEN [pool EXCEPT !.conns[k] = [@ EXCEPT !.checkouts = {}, !.mu = "close"],
                                    !.clients[c].state = "stopping", !.at["close"] = "closing"]
                  ELSE [pool EXCEPT !.conns[k] = [@ EXCEPT !.client = 0, !.checkouts = {}],
                                    !.at["close"] = "caches"]

ForceClosed ==
    /\ pool.at["close"] = "remove"
    /\ pool' = [pool EXCEPT !.conns[pool.conn["close"]].mu = Absent, !.at["close"] = "caches"]

CloseCaches ==
    /\ pool.at["close"] = "caches"
    /\ pool' = [pool EXCEPT !.caching = FALSE, !.cache = 0, !.mu = Absent, !.at["close"] = "closed"]

-----------------------------------------------------------------------------
PoolInit ==
    pool = [closed |-> FALSE, mu |-> Absent, current |-> 0, conns |-> <<>>, clients |-> <<>>,
            cache |-> 0, caching |-> TRUE, at |-> [t \in Threads |-> "idle"],
            conn |-> [t \in Threads |-> 0]]

PoolNext ==
    /\ pool # Absent
    /\ \/ \E t \in Consumers :
            \/ Checkout(t) \/ EnsureStartedClient(t) \/ ShareClient(t) \/ Request(t)
            \/ Checkin(t) \/ RemoveConnection(t)
       \/ \E t \in Threads : ClientClosed(t)
       \/ \E c \in DOMAIN pool.clients : ResetTransport(c) \/ LoopEnds(c)
       \/ ClosePool \/ ForceCloseAll \/ ForceClosed \/ CloseCaches

(* Consumers share a client without closing it under each other: a         *)
(* connection with checkouts whose mutex is free has a started client,     *)
(* also an object that a late Checkout found just before it was removed    *)
(* from the map. Every checkout is of a consumer that holds it, and no     *)
(* client is left running that nobody has checked out.                     *)
PoolSharesClients ==
    pool # Absent =>
      /\ \A k \in DOMAIN pool.conns :
           pool.conns[k].mu = Absent =>
             /\ pool.conns[k].checkouts # {} => IsStarted(pool.conns[k].client)
             /\ \A t \in pool.conns[k].checkouts : pool.at[t] = "holds" /\ pool.conn[t] = k
      /\ \A c \in DOMAIN pool.clients :
           IsStarted(c) => \E k \in DOMAIN pool.conns :
                           pool.conns[k].client = c /\ pool.conns[k].checkouts # {}
=============================================================================
