----------------------------- MODULE WsrpcCache -----------------------------
(***************************************************************************)
(* The cache of the latest report of one feed from one Mercury server      *)
(* (mercury/wsrpc/cache/cache.go): callers share one fetch, an expired     *)
(* entry is fetched again, a stale one is collected, Close ends all.       *)
(* A response is the times at which it was asked for and arrived.          *)
(***************************************************************************)
EXTENDS Common, FiniteSets, Sequences

CONSTANTS
    CacheCallers,
    LatestReportTTL, MaxStaleAge,
    MaxCacheTime, MaxEntries      \* the last time, and the entries ever made

Responses == [asked : Nat, got : Nat]

ASSUME CacheAssumption ==
    /\ LatestReportTTL \in Nat /\ MaxStaleAge \in Nat
    /\ Absent \notin Nat /\ Absent \notin Responses

VARIABLE memcache
(* memcache.now       the time                                             *)
(*         .started   whether the cache runs                               *)
(*         .entry     the cacheVal in the map, 0 if none                   *)
(*         .vals      every cacheVal: [val, err, expiresAt]                *)
(*         .fetching  which cacheVals have fetching set                    *)
(*         .queries   the start of the query in flight of each cacheVal    *)
(*         .callers   [at, val, arrived, result] of each caller            *)

Val(c) == memcache.vals[memcache.callers[c].val]
IsFetching(c) == memcache.callers[c].val \in memcache.fetching
AtStep(c, step) == memcache.callers[c].at = step
Unexpired(v) == memcache.now < v.expiresAt

Idles == [at |-> "idle", val |-> 0, arrived |-> 0, result |-> Absent]
Returned(m, c, result) == [m EXCEPT !.callers[c] = [@ EXCEPT !.at = "done", !.result = result]]
Errs(m, c) == [m EXCEPT !.callers[c] = Idles]

Enters(c, v) ==
    [at |-> "loaded", val |-> v, arrived |-> memcache.now, result |-> Absent]

(* LoadOrStore: a new entry is expired from the start.                     *)
LoadOrStore(c) ==
    /\ memcache.callers[c].at \in {"idle", "done"}
    /\ memcache.entry = 0 => Len(memcache.vals) < MaxEntries
    /\ memcache' = IF memcache.entry # 0
                   THEN [memcache EXCEPT !.callers[c] = Enters(c, memcache.entry)]
                   ELSE [memcache EXCEPT
                           !.callers[c] = Enters(c, Len(memcache.vals) + 1),
                           !.entry = Len(memcache.vals) + 1,
                           !.queries = Append(@, Absent),
                           !.vals = Append(@, [val |-> Absent, err |-> FALSE,
                                               expiresAt |-> memcache.now])]

Waits(c) == [memcache EXCEPT !.callers[c].at = "waiting"]

HotPath(c) ==
    /\ AtStep(c, "loaded")
    /\ memcache' = IF Unexpired(Val(c)) THEN Returned(memcache, c, Val(c).val)
                   ELSE IF IsFetching(c) THEN Waits(c)
                   ELSE [memcache EXCEPT !.callers[c].at = "miss"]

InitiateFetch(c) ==
    [memcache EXCEPT !.callers[c].at = "initiated",
                     !.fetching = @ \cup {memcache.callers[c].val}]

(* Mutant: what the hot path saw is not looked at again under the lock.    *)
ColdPathUnchecked(c) ==
    /\ AtStep(c, "miss")
    /\ memcache' = InitiateFetch(c)

(* Under the write lock everything is looked at again.                     *)
ColdPath(c) ==
    /\ AtStep(c, "miss")
    /\ memcache' = IF Unexpired(Val(c)) THEN Returned(memcache, c, Val(c).val)
                   ELSE IF IsFetching(c) THEN Waits(c)
                   ELSE InitiateFetch(c)

(* The channel of the fetch is closed: its waiters may read.               *)
Woken(m, v) ==
    [c \in CacheCallers |->
        IF m.callers[c].val = v /\ m.callers[c].at = "waiting"
        THEN [m.callers[c] EXCEPT !.at = "woken"] ELSE m.callers[c]]

(* An answer is fresh for the TTL from the time of its query.              *)
CompleteFetch(m, v) ==
    [m EXCEPT !.vals[v] = [val |-> [asked |-> m.queries[v], got |-> m.now], err |-> FALSE,
                           expiresAt |-> m.queries[v] + LatestReportTTL],
              !.fetching = @ \ {v}, !.queries[v] = Absent, !.callers = Woken(m, v)]

(* An error leaves the expiry as it is.                                    *)
AbandonFetch(m, v) ==
    [m EXCEPT !.vals[v] = [val |-> Absent, err |-> TRUE, expiresAt |-> m.vals[v].expiresAt],
              !.fetching = @ \ {v}, !.queries[v] = Absent, !.callers = Woken(m, v)]

(* The fetch goroutine is spawned only by a started cache.                 *)
SpawnFetch(c) ==
    /\ AtStep(c, "initiated")
    /\ LET v == memcache.callers[c].val IN
       memcache' = IF memcache.started
                   THEN [memcache EXCEPT !.callers[c].at = "waiting", !.queries[v] = memcache.now]
                   ELSE Errs(AbandonFetch(memcache, v), c)

(* One attempt of fetch. A failure is stored and tried again with a new    *)
(* query time; a stopped cache ends the loop with whatever it has.         *)
FetchAnswered(v) ==
    /\ memcache.queries[v] # Absent
    /\ memcache' = CompleteFetch(memcache, v)

FetchFails(v) ==
    /\ memcache.queries[v] # Absent
    /\ memcache' = IF memcache.started
                   THEN [memcache EXCEPT !.vals[v].err = TRUE, !.queries[v] = memcache.now]
                   ELSE AbandonFetch(memcache, v)

(* What is read by then may come from a later fetch.                       *)
WaitForResult(c) ==
    /\ AtStep(c, "woken")
    /\ memcache' = IF Val(c).err THEN Errs(memcache, c) ELSE Returned(memcache, c, Val(c).val)

(* The context of the caller ends, or the cache is closed.                 *)
GiveUp(c) ==
    /\ AtStep(c, "waiting") \/ AtStep(c, "woken")
    /\ memcache' = Errs(memcache, c)

(* The garbage collection of stale entries.                                *)
Cleanup ==
    /\ memcache.started /\ memcache.entry # 0 /\ memcache.entry \notin memcache.fetching
    /\ memcache.now > memcache.vals[memcache.entry].expiresAt + MaxStaleAge
    /\ memcache' = [memcache EXCEPT !.entry = 0]

CloseCache ==
    /\ memcache.started
    /\ memcache' = [memcache EXCEPT !.started = FALSE]

TimePasses ==
    /\ memcache.now < MaxCacheTime
    /\ memcache' = [memcache EXCEPT !.now = @ + 1]

-----------------------------------------------------------------------------
CacheInit ==
    memcache = [now |-> 0, started |-> TRUE, entry |-> 0, vals |-> <<>>, fetching |-> {},
                queries |-> <<>>,
                callers |-> [c \in CacheCallers |-> Idles]]

CacheNext ==
    /\ memcache # Absent
    /\ \/ \E c \in CacheCallers :
            \/ LoadOrStore(c) \/ HotPath(c) \/ ColdPath(c) \/ SpawnFetch(c)
            \/ WaitForResult(c) \/ GiveUp(c)
       \/ \E v \in DOMAIN memcache.vals : FetchAnswered(v) \/ FetchFails(v)
       \/ Cleanup \/ CloseCache \/ TimePasses

Spawning(v) == {c \in CacheCallers : AtStep(c, "initiated") /\ memcache.callers[c].val = v}

(* Whether somebody makes the fetch of v, and only one.                    *)
FetchedOnce(v) ==
    IF v \notin memcache.fetching THEN memcache.queries[v] = Absent /\ Spawning(v) = {}
    ELSE IF memcache.queries[v] # Absent THEN Spawning(v) = {}
    ELSE \E c \in CacheCallers : Spawning(v) = {c}

AnswersFresh(caller) ==
    /\ caller.result # Absent
    /\ \/ caller.result.asked + LatestReportTTL > caller.arrived
       \/ caller.result.got >= caller.arrived

(* Nobody waits for a fetch that nobody makes: an entry that is marked as  *)
(* fetching has exactly one query in flight or one caller about to spawn   *)
(* it, through failures, collection and Close. And an answer without error *)
(* is a report that the server was asked for less than the TTL before the  *)
(* caller came, or that arrived after that.                                *)
CacheIsSound ==
    memcache # Absent =>
      /\ \A v \in DOMAIN memcache.vals : FetchedOnce(v)
      /\ \A c \in CacheCallers : AtStep(c, "done") => AnswersFresh(memcache.callers[c])
=============================================================================
