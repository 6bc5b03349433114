---------------------------- MODULE MercuryProofs ----------------------------
(***************************************************************************)
(* Proofs about the Mercury transmitter, the pool of its clients and the   *)
(* cache of their reports, for any requests, consumers and callers, any    *)
(* sizes, lifetimes and number of restarts.                                *)
(***************************************************************************)
EXTENDS MercuryTransmit, WsrpcPool, WsrpcCache, TLAPS

-----------------------------------------------------------------------------
(* MercuryTransmit. Whatever is on its way to be deleted is settled.       *)

RelaySpec == RelayInit /\ [][RelayNext]_relay

Relays ==
    [table : SUBSET Requests, calls : [Requests -> {"new", "stored", "failed", "done"}],
     service : {"down", "up", "closing", "stopping"}, queue : SUBSET Requests,
     sending : Requests \cup {0}, toDelete : SUBSET Requests, deleting : Requests \cup {0},
     evicted : SUBSET Requests, flushing : SUBSET Requests, loops : SUBSET {"send", "delete"},
     settled : SUBSET Requests, restarts : Nat]

RelayInv ==
    /\ relay \in Relays
    /\ relay.toDelete \cup relay.evicted \cup relay.flushing \subseteq relay.settled
    /\ relay.deleting # 0 => relay.deleting \in relay.settled
    /\ \A r \in Requests \ relay.settled : KeepsUndelivered(r)

LEMMA RelayInvInit == RelayInit => RelayInv
  BY TransmitAssumption DEF RelayInit, RelayInv, Relays, KeepsUndelivered, Requests, Open

LEMMA NoRequestIsZero == 0 \notin Requests
  BY TransmitAssumption DEF Requests

LEMMA PushedStep ==
    ASSUME NEW m \in Relays, NEW r \in Requests, NEW next \in Pushed(m, r)
    PROVE  /\ next \in Relays
           /\ \E old \in SUBSET Requests :
                /\ next.queue = (m.queue \ old) \cup {r}
                /\ next.evicted = m.evicted \cup old /\ next.settled = m.settled \cup old
           /\ next.table = m.table /\ next.calls = m.calls /\ next.service = m.service
           /\ next.sending = m.sending /\ next.toDelete = m.toDelete
           /\ next.deleting = m.deleting /\ next.flushing = m.flushing
<1>1. ASSUME NEW old \in m.queue,
             next = [m EXCEPT !.queue = (@ \ {old}) \cup {r}, !.evicted = @ \cup {old},
                              !.settled = @ \cup {old}]
      PROVE  /\ next \in Relays
             /\ {old} \in SUBSET Requests /\ next.queue = (m.queue \ {old}) \cup {r}
             /\ next.evicted = m.evicted \cup {old} /\ next.settled = m.settled \cup {old}
             /\ next.table = m.table /\ next.calls = m.calls /\ next.service = m.service
             /\ next.sending = m.sending /\ next.toDelete = m.toDelete
             /\ next.deleting = m.deleting /\ next.flushing = m.flushing
  BY <1>1, Zenon DEF Relays
<1>2. ASSUME next = [m EXCEPT !.queue = @ \cup {r}]
      PROVE  /\ next \in Relays
             /\ {} \in SUBSET Requests /\ next.queue = (m.queue \ {}) \cup {r}
             /\ next.evicted = m.evicted \cup {} /\ next.settled = m.settled \cup {}
             /\ next.table = m.table /\ next.calls = m.calls /\ next.service = m.service
             /\ next.sending = m.sending /\ next.toDelete = m.toDelete
             /\ next.deleting = m.deleting /\ next.flushing = m.flushing
  BY <1>2, Zenon DEF Relays
<1>3. \/ next = [m EXCEPT !.queue = @ \cup {r}]
      \/ \E old \in m.queue : next = [m EXCEPT !.queue = (@ \ {old}) \cup {r},
                                      !.evicted = @ \cup {old}, !.settled = @ \cup {old}]
  BY Zenon DEF Pushed, Oldest
<1>. QED
  BY <1>1, <1>2, <1>3, Zenon

LEMMA TransmitKeepsInv ==
    ASSUME RelayInv, NEW r \in Requests, InsertTransmitRequest(r) \/ Push(r)
    PROVE  RelayInv'
<1>1. ASSUME InsertTransmitRequest(r) PROVE RelayInv'
  <2>1. PICK row \in BOOLEAN, ok \in BOOLEAN :
          /\ relay.calls[r] = "new" /\ (ok => row)
          /\ relay' = [relay EXCEPT !.table = IF row THEN @ \cup {r} ELSE @,
                                    !.calls[r] = IF ok THEN "stored" ELSE "failed"]
    BY <1>1, Zenon DEF InsertTransmitRequest
  <2>2. relay' \in Relays
    BY <2>1, Zenon DEF RelayInv, Relays
  <2>3. /\ relay'.table = (IF row THEN relay.table \cup {r} ELSE relay.table)
        /\ relay'.calls[r] = (IF ok THEN "stored" ELSE "failed")
        /\ \A q \in Requests : q # r => relay'.calls[q] = relay.calls[q]
        /\ relay'.toDelete = relay.toDelete /\ relay'.evicted = relay.evicted
        /\ relay'.flushing = relay.flushing /\ relay'.deleting = relay.deleting
        /\ relay'.settled = relay.settled /\ relay'.queue = relay.queue
        /\ relay'.sending = relay.sending /\ relay'.service = relay.service
    BY <2>1, Zenon DEF RelayInv, Relays
  <2>. QED
    BY <2>1, <2>2, <2>3 DEF RelayInv, KeepsUndelivered, Open
<1>2. ASSUME Push(r) PROVE RelayInv'
  <2>. DEFINE ended == [relay EXCEPT !.calls[r] = "done"]
  <2>1. relay.calls[r] = "stored" /\ IF Open THEN relay' \in Pushed(ended, r) ELSE relay' = ended
    BY <1>2, Zenon DEF Push
  <2>2. ended \in Relays
    BY Zenon DEF RelayInv, Relays
  <2>3. CASE relay' = ended /\ ~Open
    BY <2>1, <2>2, <2>3, SMTT(30) DEF RelayInv, Relays, KeepsUndelivered, Open
  <2>4. CASE relay' \in Pushed(ended, r) /\ Open
    <3>. HIDE DEF ended
    <3>1. relay' \in Relays
      BY <2>2, <2>4, PushedStep, Zenon
    <3>2. PICK old \in SUBSET Requests :
            /\ relay'.queue = (ended.queue \ old) \cup {r}
            /\ relay'.evicted = ended.evicted \cup old /\ relay'.settled = ended.settled \cup old
      BY <2>2, <2>4, PushedStep
    <3>3. /\ relay'.table = ended.table /\ relay'.calls = ended.calls /\ relay'.service = ended.service
          /\ relay'.sending = ended.sending /\ relay'.toDelete = ended.toDelete
          /\ relay'.deleting = ended.deleting /\ relay'.flushing = ended.flushing
      BY <2>2, <2>4, PushedStep, Zenon
    <3>. QED
      BY <2>1, <3>1, <3>2, <3>3, SMTT(30) DEF RelayInv, Relays, KeepsUndelivered, Open, ended
  <2>. QED
    BY <2>1, <2>3, <2>4, Zenon
<1>. QED
  BY <1>1, <1>2, Zenon

LEMMA SendKeepsInv ==
    ASSUME RelayInv, BlockingPop \/ SendTransmission
    PROVE  RelayInv'
<1>1. ASSUME BlockingPop PROVE RelayInv'
  <2>1. CASE \E r \in relay.queue : relay' = [relay EXCEPT !.queue = @ \ {r}, !.sending = r]
    <3>1. PICK r \in relay.queue : relay' = [relay EXCEPT !.queue = @ \ {r}, !.sending = r]
      BY <2>1, Zenon
    <3>2. relay.sending = 0
      BY <1>1, Zenon DEF BlockingPop
    <3>3. /\ relay' \in Relays /\ relay'.table = relay.table
          /\ relay'.calls = relay.calls /\ relay'.service = relay.service
          /\ relay'.queue = relay.queue \ {r} /\ relay'.sending = r
          /\ relay'.toDelete = relay.toDelete /\ relay'.deleting = relay.deleting
          /\ relay'.evicted = relay.evicted /\ relay'.flushing = relay.flushing
          /\ relay'.settled = relay.settled
      BY <3>1, Zenon DEF RelayInv, Relays
    <3>. QED
      BY <3>2, <3>3, NoRequestIsZero, Zenon DEF RelayInv, KeepsUndelivered, Open
  <2>2. CASE relay' = [relay EXCEPT !.loops = @ \ {"send"}]
    BY <2>2, Zenon DEF RelayInv, Relays, KeepsUndelivered, Open
  <2>. QED
    BY <1>1, <2>1, <2>2, Zenon DEF BlockingPop, Latest
<1>2. ASSUME SendTransmission PROVE RelayInv'
  <2>1. PICK received \in BOOLEAN, answered \in BOOLEAN :
          LET sent == [relay EXCEPT !.sending = 0,
                                    !.settled = IF received THEN @ \cup {relay.sending} ELSE @]
          IN /\ relay.sending # 0 /\ (answered => received)
             /\ IF Stopping THEN relay' = [sent EXCEPT !.loops = @ \ {"send"}]
                ELSE IF answered THEN Answered(sent) ELSE Requeue(sent)
    BY <1>2, Zenon DEF SendTransmission
  <2>. DEFINE sent == [relay EXCEPT !.sending = 0,
                                    !.settled = IF received THEN @ \cup {relay.sending} ELSE @]
  <2>2. /\ sent \in Relays /\ relay.sending \in Requests /\ sent.sending = 0
        /\ sent.settled = (IF received THEN relay.settled \cup {relay.sending} ELSE relay.settled)
        /\ sent.table = relay.table /\ sent.calls = relay.calls /\ sent.service = relay.service
        /\ sent.queue = relay.queue /\ sent.toDelete = relay.toDelete
        /\ sent.evicted = relay.evicted /\ sent.flushing = relay.flushing
        /\ sent.deleting = relay.deleting
    BY <2>1, Zenon DEF RelayInv, Relays
  <2>3. CASE ~Open /\ relay' = [sent EXCEPT !.loops = @ \ {"send"}]
    <3>. HIDE DEF sent
    <3>1. /\ relay' \in Relays /\ relay'.settled = sent.settled /\ relay'.table = sent.table
          /\ relay'.calls = sent.calls /\ relay'.service = sent.service
          /\ relay'.toDelete = sent.toDelete /\ relay'.evicted = sent.evicted
          /\ relay'.flushing = sent.flushing /\ relay'.deleting = sent.deleting
      BY <2>2, <2>3, Zenon DEF Relays
    <3>. QED
      BY <2>2, <2>3, <3>1, Zenon DEF RelayInv, KeepsUndelivered, Open
  <2>4. CASE answered /\ Answered(sent)
    <3>. HIDE DEF sent
    <3>1. \/ relay' = sent
          \/ relay' = [sent EXCEPT !.toDelete = @ \cup {relay.sending}]
      BY <2>4, Zenon DEF Answered
    <3>2. /\ relay' \in Relays /\ relay'.settled = sent.settled /\ relay'.table = sent.table
          /\ relay'.calls = sent.calls /\ relay'.service = sent.service
          /\ relay'.toDelete \subseteq sent.toDelete \cup {relay.sending} /\ relay'.evicted = sent.evicted
          /\ relay'.flushing = sent.flushing /\ relay'.deleting = sent.deleting
          /\ relay'.queue = sent.queue
      <4>1. CASE relay' = sent
        BY <2>2, <4>1, Zenon
      <4>2. CASE relay' = [sent EXCEPT !.toDelete = @ \cup {relay.sending}]
        BY <2>2, <4>2 DEF Relays
      <4>. QED
        BY <3>1, <4>1, <4>2, Zenon
    <3>. QED
      BY <2>1, <2>2, <2>4, <3>2, Zenon DEF RelayInv, KeepsUndelivered, Open
  <2>5. CASE Open /\ relay' \in Pushed(sent, relay.sending)
    <3>. HIDE DEF sent
    <3>1. relay' \in Relays
      BY <2>2, <2>5, PushedStep, Zenon
    <3>2. PICK old \in SUBSET Requests :
            /\ relay'.queue = (sent.queue \ old) \cup {relay.sending}
            /\ relay'.evicted = sent.evicted \cup old /\ relay'.settled = sent.settled \cup old
      BY <2>2, <2>5, PushedStep
    <3>3. /\ relay'.table = sent.table /\ relay'.calls = sent.calls /\ relay'.service = sent.service
          /\ relay'.sending = sent.sending /\ relay'.toDelete = sent.toDelete
          /\ relay'.deleting = sent.deleting /\ relay'.flushing = sent.flushing
      BY <2>2, <2>5, PushedStep, Zenon
    <3>. QED
      BY <2>2, <3>1, <3>2, <3>3, Zenon DEF RelayInv, KeepsUndelivered, Open
  <2>. QED
    BY <2>1, <2>3, <2>4, <2>5, Zenon DEF Requeue, Open, Stopping
<1>. QED
  BY <1>1, <1>2, Zenon

LEMMA DeletesKeepInv ==
    ASSUME RelayInv, TakeDelete \/ DeleteSucceeds \/ DeleteLoopStops \/ ResetDeleteQueue
                       \/ FlushDeletes \/ PruneTransmitRequests
    PROVE  RelayInv'
<1>1. ASSUME NEW r \in relay.toDelete, relay' = [relay EXCEPT !.toDelete = @ \ {r}, !.deleting = r] PROVE RelayInv'
  <2>1. /\ relay' \in Relays /\ relay'.table = relay.table /\ relay'.calls = relay.calls
       /\ relay'.service = relay.service /\ relay'.queue = relay.queue
       /\ relay'.sending = relay.sending /\ relay'.toDelete = relay.toDelete \ {r}
       /\ relay'.deleting = r /\ relay'.evicted = relay.evicted
       /\ relay'.flushing = relay.flushing /\ relay'.settled = relay.settled
    BY <1>1, Zenon DEF RelayInv, Relays
  <2>. QED
    BY <1>1, <2>1, Zenon DEF RelayInv, KeepsUndelivered, Open
<1>2. ASSUME DeleteSucceeds PROVE RelayInv'
  <2>1. /\ relay' \in Relays /\ relay'.table = relay.table \ {relay.deleting}
       /\ relay'.calls = relay.calls /\ relay'.service = relay.service
       /\ relay'.queue = relay.queue /\ relay'.sending = relay.sending
       /\ relay'.toDelete = relay.toDelete /\ relay'.deleting = 0
       /\ relay'.evicted = relay.evicted /\ relay'.flushing = relay.flushing
       /\ relay'.settled = relay.settled
    BY <1>2, Zenon DEF DeleteSucceeds, RelayInv, Relays
  <2>. QED
    BY <1>2, <2>1, Zenon DEF DeleteSucceeds, RelayInv, KeepsUndelivered, Open
<1>3. ASSUME DeleteLoopStops PROVE RelayInv'
  <2>1. /\ relay' \in Relays /\ relay'.table = relay.table /\ relay'.calls = relay.calls
       /\ relay'.service = relay.service /\ relay'.queue = relay.queue
       /\ relay'.sending = relay.sending /\ relay'.toDelete = relay.toDelete
       /\ relay'.deleting = 0 /\ relay'.evicted = relay.evicted
       /\ relay'.flushing = relay.flushing /\ relay'.settled = relay.settled
    BY <1>3, Zenon DEF DeleteLoopStops, RelayInv, Relays
  <2>. QED
    BY <1>3, <2>1, Zenon DEF DeleteLoopStops, RelayInv, KeepsUndelivered, Open
<1>4. ASSUME ResetDeleteQueue PROVE RelayInv'
  <2>1. /\ relay' \in Relays /\ relay'.table = relay.table /\ relay'.calls = relay.calls
       /\ relay'.service = relay.service /\ relay'.queue = relay.queue
       /\ relay'.sending = relay.sending /\ relay'.toDelete = relay.toDelete
       /\ relay'.deleting = relay.deleting /\ relay'.evicted = {}
       /\ relay'.flushing = relay.evicted /\ relay'.settled = relay.settled
    BY <1>4, Zenon DEF ResetDeleteQueue, RelayInv, Relays
  <2>. QED
    BY <1>4, <2>1, Zenon DEF ResetDeleteQueue, RelayInv, KeepsUndelivered, Open
<1>5. ASSUME relay' = [relay EXCEPT !.table = @ \ relay.flushing, !.flushing = {}] PROVE RelayInv'
  <2>1. /\ relay' \in Relays /\ relay'.table = relay.table \ relay.flushing
       /\ relay'.calls = relay.calls /\ relay'.service = relay.service
       /\ relay'.queue = relay.queue /\ relay'.sending = relay.sending
       /\ relay'.toDelete = relay.toDelete /\ relay'.deleting = relay.deleting
       /\ relay'.evicted = relay.evicted /\ relay'.flushing = {}
       /\ relay'.settled = relay.settled
    BY <1>5, Zenon DEF RelayInv, Relays
  <2>. QED
    BY <1>5, <2>1, Zenon DEF RelayInv, KeepsUndelivered, Open
<1>6. ASSUME relay' = [relay EXCEPT !.evicted = @ \cup relay.flushing, !.flushing = {}] PROVE RelayInv'
  <2>1. /\ relay' \in Relays /\ relay'.table = relay.table /\ relay'.calls = relay.calls
       /\ relay'.service = relay.service /\ relay'.queue = relay.queue
       /\ relay'.sending = relay.sending /\ relay'.toDelete = relay.toDelete
       /\ relay'.deleting = relay.deleting
       /\ relay'.evicted = relay.evicted \cup relay.flushing /\ relay'.flushing = {}
       /\ relay'.settled = relay.settled
    BY <1>6, Zenon DEF RelayInv, Relays
  <2>. QED
    BY <1>6, <2>1, Zenon DEF RelayInv, KeepsUndelivered, Open
<1>7. ASSUME PruneTransmitRequests PROVE RelayInv'
  <2>. DEFINE kept == Kept(relay.table)
  <2>1. kept \subseteq relay.table
    BY Zenon DEF Kept
  <2>2. relay' = [relay EXCEPT !.table = kept, !.settled = @ \cup (relay.table \ kept)]
    BY <1>7, Zenon DEF PruneTransmitRequests
  <2>. HIDE DEF kept
  <2>3. /\ relay' \in Relays /\ relay'.table = kept /\ relay'.calls = relay.calls
        /\ relay'.service = relay.service /\ relay'.queue = relay.queue
        /\ relay'.sending = relay.sending /\ relay'.toDelete = relay.toDelete
        /\ relay'.deleting = relay.deleting /\ relay'.evicted = relay.evicted
        /\ relay'.flushing = relay.flushing
        /\ relay'.settled = relay.settled \cup (relay.table \ kept)
    BY <2>1, <2>2, Zenon DEF RelayInv, Relays
  <2>. QED
    BY <2>1, <2>3, Zenon DEF RelayInv, KeepsUndelivered, Open
<1>. QED
  BY <1>1, <1>2, <1>3, <1>4, <1>5, <1>6, <1>7, Zenon DEF TakeDelete, FlushDeletes

LEMMA LifeKeepsInv ==
    ASSUME RelayInv, StartRelay \/ CloseQueue \/ StopRelay \/ CloseReturns \/ CrashRelay
    PROVE  RelayInv'
<1>1. ASSUME StartRelay PROVE RelayInv'
  <2>1. relay.sending \in Requests \cup {0} /\ relay.restarts - 1 \in Nat
    BY <1>1 DEF StartRelay, RelayInv, Relays
  <2>2. /\ relay' \in Relays /\ relay'.table = relay.table /\ relay'.calls = relay.calls
        /\ relay'.service = "up" /\ relay'.queue = relay.table
        /\ relay'.sending = relay.sending /\ relay'.toDelete = relay.toDelete
        /\ relay'.deleting = relay.deleting /\ relay'.evicted = relay.evicted
        /\ relay'.flushing = relay.flushing /\ relay'.settled = relay.settled
    BY <1>1, <2>1, Zenon DEF StartRelay, RelayInv, Relays
  <2>. QED
    BY <2>2, Zenon DEF RelayInv, KeepsUndelivered, Open
<1>2. ASSUME NEW s \in {"closing", "stopping"}, relay' = [relay EXCEPT !.service = s] PROVE RelayInv'
  <2>1. /\ relay' \in Relays /\ relay'.table = relay.table /\ relay'.calls = relay.calls
       /\ relay'.service = s /\ relay'.queue = relay.queue
       /\ relay'.sending = relay.sending /\ relay'.toDelete = relay.toDelete
       /\ relay'.deleting = relay.deleting /\ relay'.evicted = relay.evicted
       /\ relay'.flushing = relay.flushing /\ relay'.settled = relay.settled
    BY <1>2, Zenon DEF RelayInv, Relays
  <2>. QED
    BY <1>2, <2>1, Zenon DEF RelayInv, KeepsUndelivered, Open
<1>3. ASSUME relay' = Downed PROVE RelayInv'
  <2>1. /\ relay' \in Relays /\ relay'.table = relay.table /\ relay'.service = "down"
        /\ relay'.toDelete = {} /\ relay'.evicted = {} /\ relay'.flushing = {}
        /\ relay'.deleting = 0 /\ relay'.settled = relay.settled
        /\ \A r \in Requests : relay'.calls[r] \in {"stored", "done"} =>
                                 relay.calls[r] \in {"stored", "done"}
    BY <1>3, Zenon DEF Downed, RelayInv, Relays
  <2>. QED
    BY <2>1, Zenon DEF RelayInv, KeepsUndelivered, Open
<1>. QED
  BY <1>1, <1>2, <1>3, Zenon DEF CloseQueue, StopRelay, CloseReturns, CrashRelay

(* Through failed sends, lost answers, evictions, failed deletes, closes   *)
(* and crashes, an undelivered request keeps its row and, in a running     *)
(* transmitter, its place (transmitter.go, queue.go, persistence_manager). *)
THEOREM RelayKeepsUndeliveredHolds == RelaySpec => []RelayKeepsUndelivered
<1>1. RelayInv /\ [RelayNext]_relay => RelayInv'
  <2>1. ASSUME RelayInv, UNCHANGED relay PROVE RelayInv'
    BY <2>1, Zenon DEF RelayInv, KeepsUndelivered, Open
  <2>. QED
    BY <2>1, TransmitKeepsInv, SendKeepsInv, DeletesKeepInv, LifeKeepsInv, Zenon DEF RelayNext
<1>2. RelayInv => RelayKeepsUndelivered
  BY Zenon DEF RelayInv, RelayKeepsUndelivered
<1>. QED
  BY <1>1, <1>2, RelayInvInit, PTL DEF RelaySpec

-----------------------------------------------------------------------------
(* WsrpcCache. An entry that has not expired holds the answer to a query   *)
(* less than the TTL ago and is not being fetched; a caller that was woken *)
(* finds an error or an answer that arrived after the caller did.          *)

CacheSpec == CacheInit /\ [][CacheNext]_memcache

Values == [val : Responses \cup {Absent}, err : BOOLEAN, expiresAt : Nat]

Callers ==
    [at : {"idle", "loaded", "miss", "initiated", "waiting", "woken", "done"},
     val : Nat, arrived : Nat, result : Responses \cup {Absent}]

Caches ==
    [now : Nat, started : BOOLEAN, entry : Nat, vals : Seq(Values), fetching : SUBSET Nat,
     queries : Seq(Nat \cup {Absent}), callers : [CacheCallers -> Callers]]

CacheType ==
    /\ memcache \in Caches
    /\ Len(memcache.queries) = Len(memcache.vals)
    /\ memcache.entry # 0 => memcache.entry \in DOMAIN memcache.vals
    /\ memcache.fetching \subseteq DOMAIN memcache.vals

ValueInv(v) ==
    /\ FetchedOnce(v)
    /\ Unexpired(memcache.vals[v]) =>
         /\ v \notin memcache.fetching /\ memcache.vals[v].val # Absent
         /\ memcache.vals[v].expiresAt = memcache.vals[v].val.asked + LatestReportTTL

CallerInv(c) ==
    /\ memcache.callers[c].arrived <= memcache.now
    /\ ~AtStep(c, "idle") => memcache.callers[c].val \in DOMAIN memcache.vals
    /\ AtStep(c, "woken") => \/ Val(c).err
                             \/ Val(c).val # Absent /\ Val(c).val.got >= memcache.callers[c].arrived
    /\ AtStep(c, "done") => AnswersFresh(memcache.callers[c])

CacheInv ==
    /\ CacheType
    /\ \A v \in DOMAIN memcache.vals : ValueInv(v)
    /\ \A c \in CacheCallers : CallerInv(c)

LEMMA CacheInvInit == CacheInit => CacheInv
<1>. SUFFICES ASSUME CacheInit PROVE CacheInv
  BY Zenon
<1>1. CacheType
  BY DEF CacheInit, CacheType, Caches, Callers, Idles
<1>2. \A c \in CacheCallers : CallerInv(c)
  BY DEF CacheInit, CallerInv, Idles, AtStep
<1>3. DOMAIN memcache.vals = {}
  BY DEF CacheInit
<1>. QED
  BY <1>1, <1>2, <1>3, Zenon DEF CacheInv

(* A step that moves one caller, who spawns no fetch before or after it.   *)
LEMMA CallerMoves ==
    ASSUME CacheInv, NEW c \in CacheCallers, NEW k \in Callers,
           memcache' = [memcache EXCEPT !.callers[c] = k],
           ~AtStep(c, "initiated"), k.at # "initiated", k.arrived <= memcache.now,
           k.at # "idle" => k.val \in DOMAIN memcache.vals,
           k.at = "woken" => AtStep(c, "woken") /\ k = memcache.callers[c],
           k.at = "done" => AnswersFresh(k)
    PROVE  CacheInv'
<1>1. /\ memcache'.now = memcache.now /\ memcache'.vals = memcache.vals
      /\ memcache'.entry = memcache.entry
      /\ memcache'.fetching = memcache.fetching /\ memcache'.queries = memcache.queries
      /\ memcache'.callers = [memcache.callers EXCEPT ![c] = k]
      /\ memcache' \in Caches
  BY Zenon DEF CacheInv, CacheType, Caches
<1>2. /\ memcache'.callers[c] = k
      /\ \A d \in CacheCallers : d # c => memcache'.callers[d] = memcache.callers[d]
  BY <1>1, Zenon DEF CacheInv, CacheType, Caches
<1>3. CacheType'
  BY <1>1, Zenon DEF CacheInv, CacheType
<1>4. ASSUME NEW v \in DOMAIN memcache.vals PROVE ValueInv(v)'
  <2>1. Spawning(v)' = Spawning(v)
    BY <1>2, Zenon DEF Spawning, AtStep
  <2>. QED
    BY <1>1, <2>1, Zenon DEF CacheInv, ValueInv, FetchedOnce, Unexpired
<1>5. ASSUME NEW d \in CacheCallers PROVE CallerInv(d)'
  BY <1>1, <1>2, SMTT(30) DEF CacheInv, CallerInv, AtStep, Val, AnswersFresh
<1>. QED
  BY <1>1, <1>3, <1>4, <1>5, Zenon DEF CacheInv

(* An answer that has not expired is fresh for whoever came by now.        *)
LEMMA UnexpiredIsFresh ==
    ASSUME CacheInv, NEW c \in CacheCallers, ~AtStep(c, "idle"), Unexpired(Val(c))
    PROVE  /\ Val(c).val \in Responses
           /\ Val(c).val.asked + LatestReportTTL > memcache.callers[c].arrived
<1>. DEFINE v == memcache.callers[c].val
<1>1. v \in DOMAIN memcache.vals /\ memcache.callers[c].arrived <= memcache.now
  BY Zenon DEF CacheInv, CallerInv
<1>2. ValueInv(v)
  BY <1>1, Zenon DEF CacheInv
<1>3. memcache.vals[v] \in Values /\ memcache.now \in Nat /\ memcache.callers[c] \in Callers
  BY <1>1 DEF CacheInv, CacheType, Caches
<1>. QED
  BY <1>1, <1>2, <1>3, CacheAssumption, SMTT(30) DEF ValueInv, Unexpired, Val, Values, Callers, Responses

(* On either path a caller returns what has not expired or moves on.       *)
LEMMA LookupKeepsInv ==
    ASSUME CacheInv, NEW c \in CacheCallers, AtStep(c, "loaded") \/ AtStep(c, "miss"),
           \/ Unexpired(Val(c)) /\ memcache' = Returned(memcache, c, Val(c).val)
           \/ \E step \in {"waiting", "miss"} : memcache' = [memcache EXCEPT !.callers[c].at = step]
    PROVE  CacheInv'
<1>. DEFINE caller == memcache.callers[c]
<1>1. /\ caller \in Callers /\ caller.arrived <= memcache.now
      /\ caller.val \in DOMAIN memcache.vals /\ ~AtStep(c, "initiated") /\ ~AtStep(c, "idle")
  BY Zenon DEF CacheInv, CacheType, Caches, CallerInv, AtStep
<1>2. ASSUME NEW step \in {"waiting", "miss"}, memcache' = [memcache EXCEPT !.callers[c].at = step]
      PROVE  CacheInv'
  <2>. DEFINE k == [caller EXCEPT !.at = step]
  <2>1. k \in Callers /\ k.at = step /\ k.arrived = caller.arrived /\ k.val = caller.val
    BY <1>1, <1>2, Zenon DEF Callers
  <2>2. memcache' = [memcache EXCEPT !.callers[c] = k]
    BY <1>2, Zenon
  <2>. HIDE DEF k, caller
  <2>. QED
    BY <1>1, <1>2, <2>1, <2>2, CallerMoves, Zenon
<1>3. ASSUME Unexpired(Val(c)), memcache' = Returned(memcache, c, Val(c).val)
      PROVE  CacheInv'
  <2>. DEFINE k == [caller EXCEPT !.at = "done", !.result = Val(c).val]
  <2>1. /\ Val(c).val \in Responses
        /\ Val(c).val.asked + LatestReportTTL > caller.arrived
    BY <1>1, <1>3, UnexpiredIsFresh, Zenon
  <2>2. /\ k \in Callers /\ k.at = "done" /\ k.arrived = caller.arrived /\ k.val = caller.val
        /\ k.result = Val(c).val
    BY <1>1, <2>1, Zenon DEF Callers
  <2>3. AnswersFresh(k)
    BY <2>1, <2>2, CacheAssumption, Zenon DEF AnswersFresh
  <2>4. memcache' = [memcache EXCEPT !.callers[c] = k]
    BY <1>3, Zenon DEF Returned
  <2>. HIDE DEF k, caller
  <2>. QED
    BY <1>1, <2>2, <2>3, <2>4, CallerMoves, Zenon
<1>. QED
  BY <1>2, <1>3, Zenon

LEMMA InitiateKeepsInv ==
    ASSUME CacheInv, NEW c \in CacheCallers, AtStep(c, "miss"), ~Unexpired(Val(c)), ~IsFetching(c),
           memcache' = InitiateFetch(c)
    PROVE  CacheInv'
<1>. DEFINE caller == memcache.callers[c]
            k == [caller EXCEPT !.at = "initiated"]
<1>1. /\ caller \in Callers /\ caller.arrived <= memcache.now
      /\ caller.val \in DOMAIN memcache.vals /\ caller.at = "miss" /\ caller.val \in Nat
  BY Zenon DEF CacheInv, CacheType, Caches, CallerInv, AtStep, Callers
<1>2. k \in Callers /\ k.at = "initiated" /\ k.arrived = caller.arrived /\ k.val = caller.val
  BY <1>1, Zenon DEF Callers
<1>3. memcache' = [memcache EXCEPT !.callers[c] = k, !.fetching = @ \cup {caller.val}]
  BY Zenon DEF InitiateFetch
<1>. HIDE DEF k
<1>4. /\ memcache'.now = memcache.now /\ memcache'.vals = memcache.vals
      /\ memcache'.entry = memcache.entry /\ memcache'.queries = memcache.queries
      /\ memcache'.fetching = memcache.fetching \cup {caller.val}
      /\ memcache'.callers = [memcache.callers EXCEPT ![c] = k]
      /\ memcache' \in Caches
  <2>. HIDE DEF caller
  <2>. DEFINE fetching == memcache.fetching \cup {caller.val}
  <2>1. fetching \in SUBSET Nat /\ memcache' = [memcache EXCEPT !.callers[c] = k, !.fetching = fetching]
    BY <1>1, <1>3, Zenon DEF CacheInv, CacheType, Caches
  <2>. HIDE DEF fetching
  <2>2. /\ memcache'.now = memcache.now /\ memcache'.vals = memcache.vals
        /\ memcache'.entry = memcache.entry /\ memcache'.queries = memcache.queries
        /\ memcache'.fetching = fetching
        /\ memcache'.callers = [memcache.callers EXCEPT ![c] = k]
    BY <2>1, Zenon DEF CacheInv, CacheType, Caches
  <2>3. [memcache.callers EXCEPT ![c] = k] \in [CacheCallers -> Callers]
    BY <1>2, Zenon DEF CacheInv, CacheType, Caches
  <2>4. memcache' \in Caches
    BY <2>1, <2>3, Zenon DEF CacheInv, CacheType, Caches
  <2>. QED
    BY <2>2, <2>4, Zenon DEF fetching
<1>5. /\ memcache'.callers[c] = k
      /\ \A d \in CacheCallers : d # c => memcache'.callers[d] = memcache.callers[d]
  BY <1>4, Zenon DEF CacheInv, CacheType, Caches
<1>6. CacheType'
  BY <1>1, <1>4, Zenon DEF CacheInv, CacheType
<1>7. ASSUME NEW v \in DOMAIN memcache.vals PROVE ValueInv(v)'
  <2>1. v # caller.val => Spawning(v)' = Spawning(v)
    BY <1>1, <1>2, <1>5, Zenon DEF Spawning, AtStep
  <2>2. v = caller.val => memcache.queries[v] = Absent /\ Spawning(v)' = {c}
    BY <1>2, <1>5 DEF CacheInv, ValueInv, FetchedOnce, IsFetching, Spawning, AtStep
  <2>3. FetchedOnce(v)'
    BY <1>4, <2>1, <2>2, Zenon DEF CacheInv, ValueInv, FetchedOnce
  <2>. QED
    BY <1>4, <2>3, Zenon DEF CacheInv, ValueInv, Unexpired, Val
<1>8. ASSUME NEW d \in CacheCallers PROVE CallerInv(d)'
  <2>1. CASE d = c
    BY <1>1, <1>2, <1>4, <1>5, <2>1, Zenon DEF CallerInv, AtStep
  <2>2. CASE d # c
    BY <1>4, <1>5, <2>2, ZenonT(60) DEF CacheInv, CallerInv, AtStep, Val, AnswersFresh
  <2>. QED
    BY <2>1, <2>2, Zenon
<1>. QED
  BY <1>4, <1>6, <1>7, <1>8, Zenon DEF CacheInv

LEMMA PathsKeepInv ==
    ASSUME CacheInv, NEW c \in CacheCallers, HotPath(c) \/ ColdPath(c)
    PROVE  CacheInv'
  BY LookupKeepsInv, InitiateKeepsInv, Zenon DEF HotPath, ColdPath, Waits

LEMMA ReturnsKeepInv ==
    ASSUME CacheInv, NEW c \in CacheCallers, WaitForResult(c) \/ GiveUp(c)
    PROVE  CacheInv'
<1>. DEFINE caller == memcache.callers[c]
<1>1. /\ caller \in Callers /\ caller.arrived <= memcache.now
      /\ caller.val \in DOMAIN memcache.vals /\ ~AtStep(c, "initiated")
  BY Zenon DEF WaitForResult, GiveUp, CacheInv, CacheType, Caches, CallerInv, AtStep
<1>2. ASSUME memcache' = Errs(memcache, c) PROVE CacheInv'
  <2>1. /\ Idles \in Callers /\ Idles.at = "idle" /\ Idles.arrived <= memcache.now
    BY DEF Idles, Callers, CacheInv, CacheType, Caches
  <2>2. memcache' = [memcache EXCEPT !.callers[c] = Idles]
    BY <1>2, Zenon DEF Errs
  <2>. QED
    BY <1>1, <2>1, <2>2, CallerMoves, Zenon
<1>3. ASSUME AtStep(c, "woken"), ~Val(c).err, memcache' = Returned(memcache, c, Val(c).val)
      PROVE  CacheInv'
  <2>. DEFINE k == [caller EXCEPT !.at = "done", !.result = Val(c).val]
  <2>1. Val(c).val \in Responses /\ Val(c).val.got >= caller.arrived
    <3>1. Val(c) \in Values
      BY <1>1 DEF Val, CacheInv, CacheType, Caches
    <3>. QED
      BY <1>3, <3>1, Zenon DEF CacheInv, CallerInv, Values
  <2>2. /\ k \in Callers /\ k.at = "done" /\ k.arrived = caller.arrived /\ k.val = caller.val
        /\ k.result = Val(c).val
    BY <1>1, <2>1, Zenon DEF Callers
  <2>3. AnswersFresh(k)
    BY <2>1, <2>2, CacheAssumption, Zenon DEF AnswersFresh
  <2>4. memcache' = [memcache EXCEPT !.callers[c] = k]
    BY <1>3, Zenon DEF Returned
  <2>. HIDE DEF k, caller
  <2>. QED
    BY <1>1, <2>2, <2>3, <2>4, CallerMoves, Zenon
<1>. QED
  BY <1>2, <1>3, Zenon DEF WaitForResult, GiveUp

LEMMA SeqUpdated ==
    ASSUME NEW S, NEW s \in Seq(S), NEW i \in DOMAIN s, NEW e \in S
    PROVE  /\ [s EXCEPT ![i] = e] \in Seq(S) /\ Len([s EXCEPT ![i] = e]) = Len(s)
           /\ DOMAIN [s EXCEPT ![i] = e] = DOMAIN s
  OBVIOUS

LEMMA SeqAppended ==
    ASSUME NEW S, NEW s \in Seq(S), NEW e \in S
    PROVE  /\ Append(s, e) \in Seq(S) /\ Len(Append(s, e)) = Len(s) + 1
           /\ DOMAIN Append(s, e) = DOMAIN s \cup {Len(s) + 1} /\ Len(s) + 1 \notin DOMAIN s
           /\ Append(s, e)[Len(s) + 1] = e /\ \A i \in DOMAIN s : Append(s, e)[i] = s[i]
  OBVIOUS

Ended(v, x, callers) ==
    [memcache EXCEPT !.vals[v] = x, !.fetching = @ \ {v}, !.queries[v] = Absent,
                     !.callers = callers]

Wakes(v, caller, d) ==
    \/ caller = Idles /\ memcache.callers[d].val = v
    \/ caller = memcache.callers[d] /\ d \notin Spawning(v)
    \/ caller = [memcache.callers[d] EXCEPT !.at = "woken"]
         /\ AtStep(d, "waiting") /\ memcache.callers[d].val = v

(* A fetch of v ends with the value x, and its waiters wake up.            *)
LEMMA FetchEnds ==
    ASSUME CacheInv, NEW v \in DOMAIN memcache.vals, NEW x \in Values,
           NEW callers \in [CacheCallers -> Callers],
           memcache' = Ended(v, x, callers), \A d \in CacheCallers : Wakes(v, callers[d], d),
           x.err = TRUE \/ (x.val # Absent /\ x.val.got = memcache.now),
           Unexpired(x) => x.val # Absent /\ x.expiresAt = x.val.asked + LatestReportTTL
    PROVE  CacheInv'
<1>. DEFINE vals == [memcache.vals EXCEPT ![v] = x]
            queries == [memcache.queries EXCEPT ![v] = Absent]
            fetching == memcache.fetching \ {v}
<1>1. /\ memcache \in Caches /\ memcache.vals \in Seq(Values)
      /\ memcache.queries \in Seq(Nat \cup {Absent}) /\ DOMAIN memcache.queries = DOMAIN memcache.vals
  BY DEF CacheInv, CacheType, Caches
<1>2. /\ vals \in Seq(Values) /\ Len(vals) = Len(memcache.vals) /\ DOMAIN vals = DOMAIN memcache.vals
      /\ queries \in Seq(Nat \cup {Absent}) /\ Len(queries) = Len(memcache.queries)
  BY <1>1, SeqUpdated
<1>3. fetching \in SUBSET Nat
  BY <1>1, Zenon DEF Caches
<1>4. /\ vals[v] = x /\ queries[v] = Absent
      /\ \A w \in DOMAIN memcache.vals : w # v => vals[w] = memcache.vals[w] /\ queries[w] = memcache.queries[w]
  BY <1>1, Zenon
<1>5. memcache' = [memcache EXCEPT !.vals = vals, !.fetching = fetching, !.queries = queries,
                                   !.callers = callers]
  BY Zenon DEF Ended
<1>. HIDE DEF vals, queries, fetching
<1>6. /\ memcache' \in Caches /\ memcache'.vals = vals /\ memcache'.queries = queries
      /\ memcache'.fetching = fetching /\ memcache'.callers = callers
      /\ memcache'.now = memcache.now /\ memcache'.entry = memcache.entry
  BY <1>1, <1>2, <1>3, <1>5, Zenon DEF Caches
<1>7. CacheType'
  BY <1>2, <1>6, Zenon DEF CacheInv, CacheType, fetching
<1>8. /\ Spawning(v)' = {}
      /\ \A w \in DOMAIN memcache.vals : w # v => Spawning(w)' = Spawning(w)
  <2>1. ASSUME NEW d \in CacheCallers
        PROVE  /\ callers[d].at = "initiated" =>
                     callers[d] = memcache.callers[d] /\ memcache.callers[d].val # v
               /\ AtStep(d, "initiated") /\ memcache.callers[d].val # v =>
                     callers[d] = memcache.callers[d]
    <3>1. memcache.callers[d] \in Callers /\ Idles.at = "idle"
      BY <1>1, Zenon DEF Caches, Idles
    <3>. QED
      BY <3>1, Zenon DEF Callers, Spawning, AtStep, Wakes
  <2>. QED
    BY <1>6, <2>1 DEF Spawning, AtStep
<1>9. ASSUME NEW w \in DOMAIN memcache.vals PROVE ValueInv(w)'
  <2>1. CASE w = v
    BY <1>4, <1>6, <1>8, <2>1, Zenon DEF ValueInv, FetchedOnce, Unexpired, fetching
  <2>2. CASE w # v
    BY <1>4, <1>6, <1>8, <2>2 DEF CacheInv, ValueInv, FetchedOnce, Unexpired, fetching
  <2>. QED
    BY <2>1, <2>2, Zenon
<1>10. ASSUME NEW d \in CacheCallers PROVE CallerInv(d)'
  <2>1. CASE callers[d] = Idles
    BY <1>1, <1>6, <2>1 DEF CallerInv, AtStep, Idles, Caches
  <2>2. CASE callers[d] = memcache.callers[d]
    BY <1>1, <1>2, <1>4, <1>6, <2>2, SMTT(30) DEF CacheInv, CallerInv, AtStep, Val, AnswersFresh
  <2>3. CASE callers[d] = [memcache.callers[d] EXCEPT !.at = "woken"]
               /\ memcache.callers[d].val = v
    <3>1. /\ callers[d].at = "woken" /\ callers[d].val = v
          /\ callers[d].arrived = memcache.callers[d].arrived
      BY <1>1, <2>3 DEF Caches, Callers
    <3>. QED
      BY <1>1, <1>2, <1>4, <1>6, <3>1, SMTT(30) DEF CacheInv, CallerInv, AtStep, Val
  <2>. QED
    BY <2>1, <2>2, <2>3, Zenon DEF Wakes
<1>. QED
  BY <1>2, <1>6, <1>7, <1>9, <1>10, Zenon DEF CacheInv

(* Woken leaves the callers as they are, except for the waiters of v.      *)
LEMMA WokenCallers ==
    ASSUME CacheInv, NEW v
    PROVE  /\ Woken(memcache, v) \in [CacheCallers -> Callers]
           /\ \A d \in CacheCallers :
                \/ Woken(memcache, v)[d] = memcache.callers[d]
                \/ Woken(memcache, v)[d] = [memcache.callers[d] EXCEPT !.at = "woken"]
                     /\ AtStep(d, "waiting") /\ memcache.callers[d].val = v
<1>1. \A d \in CacheCallers : memcache.callers[d] \in Callers
  BY Zenon DEF CacheInv, CacheType, Caches
<1>2. \A d \in CacheCallers : [memcache.callers[d] EXCEPT !.at = "woken"] \in Callers
  BY <1>1, Zenon DEF Callers
<1>. QED
  BY <1>1, <1>2, Zenon DEF Woken, AtStep

LEMMA FetchKeepsInv ==
    ASSUME CacheInv, NEW v \in DOMAIN memcache.vals, memcache.queries[v] # Absent,
           \/ memcache' = CompleteFetch(memcache, v)
           \/ memcache' = AbandonFetch(memcache, v)
    PROVE  CacheInv'
<1>. DEFINE callers == Woken(memcache, v)
<1>1. /\ v \in memcache.fetching /\ Spawning(v) = {}
      /\ ~Unexpired(memcache.vals[v])
  BY Zenon DEF CacheInv, ValueInv, FetchedOnce
<1>2. /\ memcache.vals[v] \in Values /\ memcache.queries[v] \in Nat /\ memcache.now \in Nat
  BY DEF CacheInv, CacheType, Caches
<1>3. /\ callers \in [CacheCallers -> Callers]
      /\ \A d \in CacheCallers :
           \/ callers[d] = memcache.callers[d]
           \/ callers[d] = [memcache.callers[d] EXCEPT !.at = "woken"]
                /\ AtStep(d, "waiting") /\ memcache.callers[d].val = v
  BY WokenCallers, Zenon
<1>4. ASSUME NEW x \in Values, memcache' = Ended(v, x, callers),
             x.err = TRUE \/ (x.val # Absent /\ x.val.got = memcache.now),
             Unexpired(x) => x.val # Absent /\ x.expiresAt = x.val.asked + LatestReportTTL
      PROVE  CacheInv'
  <2>. HIDE DEF callers
  <2>1. \A d \in CacheCallers : Wakes(v, callers[d], d)
    BY <1>1, <1>3, Zenon DEF Wakes
  <2>. QED
    BY <1>3, <1>4, <2>1, FetchEnds, Zenon
<1>5. ASSUME memcache' = CompleteFetch(memcache, v) PROVE CacheInv'
  <2>. DEFINE x == [val |-> [asked |-> memcache.queries[v], got |-> memcache.now], err |-> FALSE,
                    expiresAt |-> memcache.queries[v] + LatestReportTTL]
  <2>1. /\ x \in Values /\ x.val # Absent /\ x.val.got = memcache.now
        /\ x.expiresAt = x.val.asked + LatestReportTTL
    BY <1>2, CacheAssumption DEF Values, Responses
  <2>2. memcache' = Ended(v, x, callers)
    BY <1>5, Zenon DEF CompleteFetch, Ended
  <2>. HIDE DEF x
  <2>. QED
    BY <1>4, <2>1, <2>2, Zenon
<1>6. ASSUME memcache' = AbandonFetch(memcache, v) PROVE CacheInv'
  <2>. DEFINE x == [val |-> Absent, err |-> TRUE, expiresAt |-> memcache.vals[v].expiresAt]
  <2>1. x \in Values /\ x.err = TRUE /\ ~Unexpired(x)
    BY <1>1, <1>2, Zenon DEF Values, Unexpired
  <2>2. memcache' = Ended(v, x, callers)
    BY <1>6, Zenon DEF AbandonFetch, Ended
  <2>. HIDE DEF x
  <2>3. x.err = TRUE \/ (x.val # Absent /\ x.val.got = memcache.now)
    BY <2>1, Zenon
  <2>4. Unexpired(x) => x.val # Absent /\ x.expiresAt = x.val.asked + LatestReportTTL
    BY <2>1, Zenon
  <2>. QED
    BY <1>4, <2>1, <2>2, <2>3, <2>4, Zenon
<1>. QED
  BY <1>5, <1>6, Zenon

LEMMA SpawnKeepsInv ==
    ASSUME CacheInv, NEW c \in CacheCallers, SpawnFetch(c)
    PROVE  CacheInv'
<1>. DEFINE v == memcache.callers[c].val
            caller == memcache.callers[c]
<1>1. /\ caller \in Callers /\ caller.at = "initiated" /\ caller.arrived <= memcache.now
      /\ v \in DOMAIN memcache.vals
  BY Zenon DEF SpawnFetch, CacheInv, CacheType, Caches, CallerInv, AtStep
<1>2. ValueInv(v) /\ memcache.vals[v] \in Values /\ memcache \in Caches
  BY <1>1 DEF CacheInv, CacheType, Caches
<1>3. /\ v \in memcache.fetching /\ Spawning(v) = {c} /\ memcache.queries[v] = Absent
      /\ ~Unexpired(memcache.vals[v])
  <2>1. c \in Spawning(v)
    BY <1>1, Zenon DEF Spawning, AtStep
  <2>. QED
    BY <1>2, <2>1, Zenon DEF ValueInv, FetchedOnce
<1>4. ASSUME ~memcache.started PROVE CacheInv'
  <2>. DEFINE woken == Woken(memcache, v)
              callers == [woken EXCEPT ![c] = Idles]
              x == [val |-> Absent, err |-> TRUE, expiresAt |-> memcache.vals[v].expiresAt]
  <2>1. memcache' = Errs(AbandonFetch(memcache, v), c)
    BY <1>4, Zenon DEF SpawnFetch
  <2>2. /\ woken \in [CacheCallers -> Callers]
        /\ \A d \in CacheCallers :
             \/ woken[d] = memcache.callers[d]
             \/ woken[d] = [memcache.callers[d] EXCEPT !.at = "woken"]
                  /\ AtStep(d, "waiting") /\ memcache.callers[d].val = v
    BY WokenCallers, Zenon
  <2>3. memcache' = Ended(v, x, callers)
    <3>. DEFINE a == AbandonFetch(memcache, v)
    <3>1. a = Ended(v, x, woken)
      BY Zenon DEF AbandonFetch, Ended
    <3>2. Ended(v, x, callers) = [Ended(v, x, woken) EXCEPT !.callers = callers] /\ a.callers = woken
      BY <1>2, <3>1, Zenon DEF Ended, Caches
    <3>. HIDE DEF a, x, woken
    <3>. QED
      BY <2>1, <3>1, <3>2, Zenon DEF Errs, a
  <2>. HIDE DEF woken
  <2>4. /\ callers \in [CacheCallers -> Callers] /\ callers[c] = Idles
        /\ \A d \in CacheCallers : d # c => callers[d] = woken[d]
    <3>1. Idles \in Callers
      BY Zenon DEF Idles, Callers
    <3>. QED
      BY <2>2, <3>1, Zenon
  <2>5. x \in Values /\ x.err = TRUE /\ ~Unexpired(x)
    BY <1>2, <1>3, Zenon DEF Values, Unexpired
  <2>. HIDE DEF callers, x
  <2>6. \A d \in CacheCallers : Wakes(v, callers[d], d)
    BY <1>3, <2>2, <2>4, Zenon DEF Wakes
  <2>. QED
    BY <1>1, <2>3, <2>4, <2>5, <2>6, FetchEnds, Zenon
<1>5. ASSUME memcache.started PROVE CacheInv'
  <2>. DEFINE k == [caller EXCEPT !.at = "waiting"]
              queries == [memcache.queries EXCEPT ![v] = memcache.now]
              callers == [memcache.callers EXCEPT ![c] = k]
  <2>1. memcache' = [memcache EXCEPT !.callers = callers, !.queries = queries]
    BY <1>5, Zenon DEF SpawnFetch
  <2>2. k \in Callers /\ k.at = "waiting" /\ k.val = v /\ k.arrived = caller.arrived
    BY <1>1, Zenon DEF Callers
  <2>3. /\ queries \in Seq(Nat \cup {Absent}) /\ Len(queries) = Len(memcache.queries)
        /\ queries[v] = memcache.now /\ memcache.now \in Nat
        /\ \A w \in DOMAIN memcache.vals : w # v => queries[w] = memcache.queries[w]
    <3>1. /\ memcache.queries \in Seq(Nat \cup {Absent}) /\ v \in DOMAIN memcache.queries
          /\ DOMAIN memcache.queries = DOMAIN memcache.vals /\ memcache.now \in Nat
      BY <1>1 DEF CacheInv, CacheType, Caches
    <3>. QED
      BY <3>1, SeqUpdated
  <2>. HIDE DEF k, queries
  <2>4. /\ callers \in [CacheCallers -> Callers] /\ callers[c] = k
        /\ \A d \in CacheCallers : d # c => callers[d] = memcache.callers[d]
    BY <1>2, <2>2, Zenon DEF Caches
  <2>. HIDE DEF callers
  <2>5. /\ memcache' \in Caches /\ memcache'.vals = memcache.vals /\ memcache'.queries = queries
        /\ memcache'.fetching = memcache.fetching /\ memcache'.callers = callers
        /\ memcache'.now = memcache.now /\ memcache'.entry = memcache.entry
    BY <1>2, <2>1, <2>3, <2>4, Zenon DEF Caches
  <2>6. CacheType'
    BY <2>3, <2>5, Zenon DEF CacheInv, CacheType
  <2>7. \A w \in DOMAIN memcache.vals : Spawning(w)' = IF w = v THEN {} ELSE Spawning(w)
    BY <1>3, <2>2, <2>4, <2>5 DEF Spawning, AtStep
  <2>8. ASSUME NEW w \in DOMAIN memcache.vals PROVE ValueInv(w)'
    <3>. HIDE DEF v, caller
    <3>1. CASE w = v
      <4>1. FetchedOnce(w)'
        BY <1>3, <2>3, <2>5, <2>7, <3>1, CacheAssumption, Zenon DEF FetchedOnce
      <4>. QED
        BY <1>3, <2>5, <3>1, <4>1, Zenon DEF ValueInv, Unexpired
    <3>2. CASE w # v
      BY <2>3, <2>5, <2>7, <3>2 DEF CacheInv, ValueInv, FetchedOnce, Unexpired
    <3>. QED
      BY <3>1, <3>2, Zenon
  <2>9. ASSUME NEW d \in CacheCallers PROVE CallerInv(d)'
    <3>1. CASE d = c
      BY <1>1, <2>2, <2>4, <2>5, <3>1, Zenon DEF CallerInv, AtStep
    <3>2. CASE d # c
      BY <2>4, <2>5, <3>2, Zenon DEF CacheInv, CallerInv, AtStep, Val, AnswersFresh
    <3>. QED
      BY <3>1, <3>2, Zenon
  <2>. QED
    BY <2>5, <2>6, <2>8, <2>9, Zenon DEF CacheInv
<1>. QED
  BY <1>4, <1>5, Zenon

LEMMA RetryKeepsInv ==
    ASSUME CacheInv, NEW v \in DOMAIN memcache.vals, FetchAnswered(v) \/ FetchFails(v)
    PROVE  CacheInv'
<1>1. memcache.queries[v] # Absent
  BY Zenon DEF FetchAnswered, FetchFails
<1>2. ASSUME memcache' = [memcache EXCEPT !.vals[v].err = TRUE, !.queries[v] = memcache.now]
      PROVE  CacheInv'
  <2>. DEFINE x == [memcache.vals[v] EXCEPT !.err = TRUE]
              vals == [memcache.vals EXCEPT ![v] = x]
              queries == [memcache.queries EXCEPT ![v] = memcache.now]
  <2>1. /\ memcache \in Caches /\ memcache.vals \in Seq(Values) /\ memcache.now \in Nat
        /\ memcache.queries \in Seq(Nat \cup {Absent})
        /\ DOMAIN memcache.queries = DOMAIN memcache.vals /\ memcache.vals[v] \in Values
    BY DEF CacheInv, CacheType, Caches
  <2>2. /\ x \in Values /\ x.err = TRUE /\ x.expiresAt = memcache.vals[v].expiresAt
        /\ x.val = memcache.vals[v].val
    BY <2>1, Zenon DEF Values
  <2>3. memcache' = [memcache EXCEPT !.vals = vals, !.queries = queries]
    BY <1>2, Zenon
  <2>. HIDE DEF x
  <2>4. /\ vals \in Seq(Values) /\ Len(vals) = Len(memcache.vals) /\ DOMAIN vals = DOMAIN memcache.vals
        /\ queries \in Seq(Nat \cup {Absent}) /\ Len(queries) = Len(memcache.queries)
    BY <2>1, <2>2, SeqUpdated
  <2>5. /\ vals[v] = x /\ queries[v] = memcache.now
        /\ \A w \in DOMAIN memcache.vals :
             w # v => vals[w] = memcache.vals[w] /\ queries[w] = memcache.queries[w]
    BY <2>1, Zenon
  <2>. HIDE DEF vals, queries
  <2>6. /\ memcache' \in Caches /\ memcache'.vals = vals /\ memcache'.queries = queries
        /\ memcache'.fetching = memcache.fetching /\ memcache'.callers = memcache.callers
        /\ memcache'.now = memcache.now /\ memcache'.entry = memcache.entry
    BY <2>1, <2>3, <2>4, Zenon DEF Caches
  <2>7. CacheType'
    BY <2>4, <2>6, Zenon DEF CacheInv, CacheType
  <2>8. ASSUME NEW w \in DOMAIN memcache.vals PROVE ValueInv(w)'
    <3>1. Spawning(w)' = Spawning(w)
      BY <2>6, Zenon DEF Spawning, AtStep
    <3>2. FetchedOnce(w)'
      BY <1>1, <2>1, <2>5, <2>6, <3>1, CacheAssumption DEF CacheInv, ValueInv, FetchedOnce
    <3>3. CASE w = v
      <4>1. ~Unexpired(memcache.vals[v])
        BY <1>1, Zenon DEF CacheInv, ValueInv, FetchedOnce
      <4>. QED
        BY <2>2, <2>5, <2>6, <3>2, <3>3, <4>1, Zenon DEF ValueInv, Unexpired
    <3>4. CASE w # v
      BY <2>5, <2>6, <3>2, <3>4, Zenon DEF CacheInv, ValueInv, Unexpired
    <3>. QED
      BY <3>3, <3>4, Zenon
  <2>9. ASSUME NEW d \in CacheCallers PROVE CallerInv(d)'
    <3>1. CASE memcache.callers[d].val = v
      BY <2>2, <2>4, <2>5, <2>6, <3>1, SMTT(30) DEF CacheInv, CallerInv, AtStep, Val, AnswersFresh
    <3>2. CASE memcache.callers[d].val # v
      BY <2>4, <2>5, <2>6, <3>2, SMTT(30) DEF CacheInv, CallerInv, AtStep, Val, AnswersFresh
    <3>. QED
      BY <3>1, <3>2, Zenon
  <2>. QED
    BY <2>4, <2>6, <2>7, <2>8, <2>9, Zenon DEF CacheInv
<1>. QED
  BY <1>1, <1>2, FetchKeepsInv, Zenon DEF FetchAnswered, FetchFails

LEMMA LoadKeepsInv ==
    ASSUME CacheInv, NEW c \in CacheCallers, LoadOrStore(c)
    PROVE  CacheInv'
<1>1. /\ memcache \in Caches /\ memcache.vals \in Seq(Values) /\ memcache.now \in Nat
      /\ memcache.queries \in Seq(Nat \cup {Absent}) /\ Len(memcache.queries) = Len(memcache.vals)
      /\ memcache.entry # 0 => memcache.entry \in DOMAIN memcache.vals
      /\ ~AtStep(c, "initiated") /\ memcache.entry \in Nat
  BY Zenon DEF CacheInv, CacheType, Caches, LoadOrStore, AtStep
<1>2. \A v \in Nat : /\ Enters(c, v) \in Callers /\ Enters(c, v).at = "loaded"
                     /\ Enters(c, v).arrived = memcache.now /\ Enters(c, v).val = v
  BY <1>1, Zenon DEF Enters, Callers
<1>3. ASSUME memcache.entry # 0 PROVE CacheInv'
  <2>1. memcache' = [memcache EXCEPT !.callers[c] = Enters(c, memcache.entry)]
    BY <1>3, Zenon DEF LoadOrStore
  <2>2. memcache.now <= memcache.now
    BY <1>1
  <2>. QED
    BY <1>1, <1>2, <1>3, <2>1, <2>2, CallerMoves, Zenon
<1>4. ASSUME memcache.entry = 0 PROVE CacheInv'
  <2>. DEFINE n == Len(memcache.vals) + 1
              x == [val |-> Absent, err |-> FALSE, expiresAt |-> memcache.now]
              vals == Append(memcache.vals, x)
              queries == Append(memcache.queries, Absent)
              k == Enters(c, n)
              callers == [memcache.callers EXCEPT ![c] = k]
  <2>1. memcache' = [memcache EXCEPT !.callers = callers, !.entry = n, !.queries = queries,
                                     !.vals = vals]
    BY <1>4, Zenon DEF LoadOrStore
  <2>2. x \in Values /\ x.expiresAt = memcache.now /\ Absent \in Nat \cup {Absent} /\ n \in Nat
    BY <1>1 DEF Values
  <2>. HIDE DEF x
  <2>3. /\ vals \in Seq(Values) /\ Len(vals) = n
        /\ DOMAIN vals = DOMAIN memcache.vals \cup {n} /\ n \notin DOMAIN memcache.vals
        /\ vals[n] = x /\ \A w \in DOMAIN memcache.vals : vals[w] = memcache.vals[w]
    BY <1>1, <2>2, SeqAppended
  <2>4. /\ queries \in Seq(Nat \cup {Absent}) /\ Len(queries) = n
        /\ queries[n] = Absent /\ \A w \in DOMAIN memcache.vals : queries[w] = memcache.queries[w]
    BY <1>1, <2>2, SeqAppended
  <2>5. k \in Callers /\ k.at = "loaded" /\ k.arrived = memcache.now /\ k.val = n
    BY <1>2, <2>2, Zenon
  <2>. HIDE DEF vals, queries, k, n
  <2>6. /\ callers \in [CacheCallers -> Callers] /\ callers[c] = k
        /\ \A d \in CacheCallers : d # c => callers[d] = memcache.callers[d]
    BY <1>1, <2>5, Zenon DEF Caches
  <2>. HIDE DEF callers
  <2>7. /\ memcache' \in Caches /\ memcache'.vals = vals /\ memcache'.queries = queries
        /\ memcache'.fetching = memcache.fetching /\ memcache'.callers = callers
        /\ memcache'.now = memcache.now /\ memcache'.entry = n
    BY <1>1, <2>1, <2>2, <2>3, <2>4, <2>6, Zenon DEF Caches
  <2>8. CacheType'
    BY <2>3, <2>4, <2>7, Zenon DEF CacheInv, CacheType
  <2>9. ASSUME NEW w \in DOMAIN memcache.vals PROVE ValueInv(w)'
    <3>1. Spawning(w)' = Spawning(w)
      BY <1>1, <2>5, <2>6, <2>7, Zenon DEF Spawning, AtStep
    <3>. QED
      BY <2>3, <2>4, <2>7, <3>1 DEF CacheInv, ValueInv, FetchedOnce, Unexpired
  <2>10. ASSUME NEW w, w = n PROVE ValueInv(w)'
    <3>1. Spawning(w)' = {}
      BY <2>3, <2>5, <2>6, <2>7, <2>10, SMTT(30) DEF CacheInv, CallerInv, Spawning, AtStep
    <3>2. w \notin memcache.fetching
      BY <2>3, <2>10, Zenon DEF CacheInv, CacheType
    <3>3. FetchedOnce(w)'
      BY <2>4, <2>7, <2>10, <3>1, <3>2, Zenon DEF FetchedOnce
    <3>. QED
      BY <1>1, <2>2, <2>3, <2>7, <2>10, <3>3 DEF ValueInv, Unexpired
  <2>11. ASSUME NEW d \in CacheCallers PROVE CallerInv(d)'
    <3>1. CASE d = c
      BY <1>1, <2>3, <2>5, <2>6, <2>7, <3>1 DEF CallerInv, AtStep
    <3>2. CASE d # c
      <4>1. memcache'.callers[d] = memcache.callers[d] /\ memcache'.now = memcache.now
        BY <2>6, <2>7, <3>2, Zenon
      <4>2. memcache.callers[d].val \in DOMAIN memcache.vals =>
              memcache.callers[d].val \in DOMAIN memcache'.vals /\ Val(d)' = Val(d)
        BY <2>3, <2>7, <4>1, Zenon DEF Val
      <4>. QED
        BY <4>1, <4>2, Zenon DEF CacheInv, CallerInv, AtStep, AnswersFresh
    <3>. QED
      BY <3>1, <3>2, Zenon
  <2>. QED
    BY <2>3, <2>7, <2>8, <2>9, <2>10, <2>11, Zenon DEF CacheInv
<1>. QED
  BY <1>3, <1>4, Zenon

LEMMA TimeKeepsInv ==
    ASSUME CacheInv, Cleanup \/ CloseCache \/ TimePasses \/ UNCHANGED memcache
    PROVE  CacheInv'
<1>1. memcache \in Caches /\ memcache.now \in Nat /\ memcache.vals \in Seq(Values)
  BY Zenon DEF CacheInv, CacheType, Caches
<1>2. /\ memcache' \in Caches /\ memcache'.vals = memcache.vals
      /\ memcache'.queries = memcache.queries /\ memcache'.fetching = memcache.fetching
      /\ memcache'.callers = memcache.callers /\ memcache'.entry \in {memcache.entry, 0}
      /\ memcache'.now \in {memcache.now, memcache.now + 1}
  <2>1. CASE Cleanup
    BY <1>1, <2>1, Zenon DEF Cleanup, Caches
  <2>2. CASE CloseCache
    BY <1>1, <2>2, Zenon DEF CloseCache, Caches
  <2>3. CASE TimePasses
    <3>. DEFINE t == memcache.now + 1
    <3>1. t \in Nat /\ memcache' = [memcache EXCEPT !.now = t]
      BY <1>1, <2>3 DEF TimePasses
    <3>. HIDE DEF t
    <3>2. /\ memcache' \in Caches /\ memcache'.now = t /\ memcache'.vals = memcache.vals
          /\ memcache'.queries = memcache.queries /\ memcache'.fetching = memcache.fetching
          /\ memcache'.callers = memcache.callers /\ memcache'.entry = memcache.entry
      BY <1>1, <3>1, Zenon DEF Caches
    <3>. QED
      BY <3>2, Zenon DEF t
  <2>4. CASE UNCHANGED memcache
    BY <1>1, <2>4, Zenon
  <2>. QED
    BY <2>1, <2>2, <2>3, <2>4, Zenon
<1>3. CacheType'
  BY <1>2, Zenon DEF CacheInv, CacheType
<1>4. ASSUME NEW v \in DOMAIN memcache.vals PROVE ValueInv(v)'
  <2>1. Spawning(v)' = Spawning(v)
    BY <1>2, Zenon DEF Spawning, AtStep
  <2>2. Unexpired(memcache.vals[v])' => Unexpired(memcache.vals[v])
    <3>1. memcache.vals[v].expiresAt \in Nat
      <4>1. memcache.vals[v] \in Values
        BY <1>1
      <4>. QED
        BY <4>1, Zenon DEF Values
    <3>. QED
      BY <1>1, <1>2, <3>1 DEF Unexpired
  <2>. QED
    BY <1>2, <2>1, <2>2, Zenon DEF CacheInv, ValueInv, FetchedOnce
<1>5. ASSUME NEW c \in CacheCallers PROVE CallerInv(c)'
  <2>1. memcache.callers[c].arrived \in Nat
    BY <1>1, Zenon DEF Caches, Callers
  <2>2. CallerInv(c)
    BY Zenon DEF CacheInv
  <2>. QED
    BY <1>1, <1>2, <2>1, <2>2, SMTT(30) DEF CallerInv, AtStep, Val, AnswersFresh
<1>. QED
  BY <1>2, <1>3, <1>4, <1>5, Zenon DEF CacheInv

(* Whatever the interleaving of callers, fetches, collection and Close, a  *)
(* fetch has one maker and an answer is fresh for its caller (cache.go).   *)
THEOREM CacheIsSoundHolds == CacheSpec => []CacheIsSound
<1>1. CacheInv /\ [CacheNext]_memcache => CacheInv'
  BY LoadKeepsInv, PathsKeepInv, SpawnKeepsInv, ReturnsKeepInv, RetryKeepsInv, TimeKeepsInv, Zenon
     DEF CacheNext
<1>2. CacheInv => CacheIsSound
  BY Zenon DEF CacheInv, CacheIsSound, ValueInv, CallerInv
<1>. QED
  BY <1>1, <1>2, CacheInvInit, PTL DEF CacheSpec

-----------------------------------------------------------------------------
(* WsrpcPool. A connection whose mutex is held has no checkouts, no two    *)
(* connections have the same client, and a thread that closes a client     *)
(* holds the mutex of its connection.                                      *)

PoolSpec == PoolInit /\ [][PoolNext]_pool

Conns == [client : Nat, checkouts : SUBSET Threads, mu : Threads \cup {Absent}]
Clients ==
    [state : {"started", "failed", "stopping", "stopped", "panic"}, loop : BOOLEAN,
     reset : BOOLEAN, timeouts : Nat]
Steps == {"idle", "checkout", "holds", "closing", "remove", "panic", "force", "caches", "closed"}

Pools ==
    [closed : BOOLEAN, mu : Threads \cup {Absent}, current : Nat, conns : Seq(Conns),
     clients : Seq(Clients), cache : Nat, caching : BOOLEAN, at : [Threads -> Steps],
     conn : [Threads -> Nat]]

ThreadInv(t) ==
    /\ pool.at[t] \in {"checkout", "holds", "closing", "remove", "force"} =>
         pool.conn[t] \in DOMAIN pool.conns
    /\ pool.at[t] \in {"closing", "remove"} => Conn(t).mu = t

ConnInv(k) ==
    /\ pool.conns[k].client <= Len(pool.clients)
    /\ pool.conns[k].mu # Absent => pool.conns[k].checkouts = {}
    /\ pool.conns[k].checkouts # {} => IsStarted(pool.conns[k].client)
    /\ \A t \in pool.conns[k].checkouts : pool.at[t] = "holds" /\ pool.conn[t] = k

ClientInv(c) ==
    IsStarted(c) => \E k \in DOMAIN pool.conns :
                      pool.conns[k].client = c /\ pool.conns[k].checkouts # {}

OwnClients ==
    \A j, k \in DOMAIN pool.conns :
        pool.conns[j].client = pool.conns[k].client /\ pool.conns[k].client # 0 => j = k

PoolInv ==
    /\ pool \in Pools
    /\ pool.current # 0 => pool.current \in DOMAIN pool.conns
    /\ \A t \in Threads : ThreadInv(t)
    /\ \A k \in DOMAIN pool.conns : ConnInv(k)
    /\ \A c \in DOMAIN pool.clients : ClientInv(c)
    /\ OwnClients

LEMMA PoolInvInit == PoolInit => PoolInv
<1>. SUFFICES ASSUME PoolInit PROVE PoolInv
  BY Zenon
<1>1. pool \in Pools /\ DOMAIN pool.conns = {} /\ DOMAIN pool.clients = {} /\ pool.current = 0
  BY DEF PoolInit, Pools, Steps
<1>2. \A t \in Threads : ThreadInv(t)
  BY Zenon DEF PoolInit, ThreadInv
<1>. QED
  BY <1>1, <1>2, Zenon DEF PoolInv, OwnClients

(* The step of thread t at its connection k: x is what becomes of the      *)
(* connection, clients of the clients, and s of the thread.                *)
Assigned(t, k, x, clients, s, current, cache) ==
    [pool EXCEPT !.conns = [pool.conns EXCEPT ![k] = x], !.clients = clients,
                 !.at = [pool.at EXCEPT ![t] = s], !.current = current, !.cache = cache]

Admits(t, k, x, clients, s) ==
    /\ pool.conn[t] = k /\ pool.conns[k].mu \in {Absent, t}
    /\ Len(pool.clients) <= Len(clients)
    /\ x.client \in {0, pool.conns[k].client, Len(pool.clients) + 1}
    /\ x.client <= Len(clients)
    /\ x.mu # Absent => x.checkouts = {}
    /\ s \in {"closing", "remove"} => x.mu = t
    /\ x.checkouts # {} => x.client # 0 /\ clients[x.client].state = "started"
    /\ x.checkouts \subseteq pool.conns[k].checkouts \cup {t}
    /\ t \in x.checkouts => s = "holds"
    /\ \A c \in DOMAIN clients :
         clients[c].state = "started" =>
           \/ c = x.client /\ x.checkouts # {}
           \/ /\ c # pool.conns[k].client /\ c \in DOMAIN pool.clients
              /\ pool.clients[c].state = "started"
    /\ \A c \in DOMAIN pool.clients :
         c # pool.conns[k].client /\ pool.clients[c].state = "started" =>
           clients[c].state = "started"

(* The fields that it assigns.                                             *)
LEMMA PoolAssigned ==
    ASSUME PoolInv, NEW t \in Threads, NEW k \in DOMAIN pool.conns, NEW x \in Conns,
           NEW clients \in Seq(Clients), NEW s \in Steps, NEW current \in Nat, NEW cache \in Nat,
           pool' = Assigned(t, k, x, clients, s, current, cache)
    PROVE  /\ pool' \in Pools /\ pool'.conns = [pool.conns EXCEPT ![k] = x]
           /\ pool'.clients = clients /\ pool'.at = [pool.at EXCEPT ![t] = s]
           /\ pool'.conn = pool.conn /\ pool'.current = current
<1>. DEFINE conns == [pool.conns EXCEPT ![k] = x]
            at == [pool.at EXCEPT ![t] = s]
<1>1. pool \in Pools /\ conns \in Seq(Conns) /\ at \in [Threads -> Steps]
  BY SeqUpdated, Zenon DEF PoolInv, Pools
<1>2. pool' = [pool EXCEPT !.conns = conns, !.clients = clients, !.at = at, !.current = current,
                           !.cache = cache]
  BY Zenon DEF Assigned
<1>. HIDE DEF conns, at
<1>3. /\ pool' \in Pools /\ pool'.conns = conns /\ pool'.clients = clients /\ pool'.at = at
      /\ pool'.conn = pool.conn /\ pool'.current = current
  BY <1>1, <1>2, Zenon DEF Pools
<1>. QED
  BY <1>3, Zenon DEF conns, at

LEMMA ConnStep ==
    ASSUME PoolInv, NEW t \in Threads, NEW k \in DOMAIN pool.conns, NEW x \in Conns,
           NEW clients \in Seq(Clients), NEW s \in Steps, NEW current \in {pool.current, 0},
           NEW cache \in Nat, pool' = Assigned(t, k, x, clients, s, current, cache),
           Admits(t, k, x, clients, s)
    PROVE  PoolInv'
<1>0. /\ pool' \in Pools /\ pool'.conns = [pool.conns EXCEPT ![k] = x]
      /\ pool'.clients = clients /\ pool'.at = [pool.at EXCEPT ![t] = s]
      /\ pool'.conn = pool.conn /\ pool'.current = current
  <2>1. current \in Nat
    BY DEF PoolInv, Pools
  <2>. QED
    BY <2>1, PoolAssigned, SMTT(30)
<1>. USE <1>0
<1>a. /\ pool.conn[t] = k /\ pool.conns[k].mu \in {Absent, t} /\ Len(pool.clients) <= Len(clients)
      /\ x.client \in {0, pool.conns[k].client, Len(pool.clients) + 1} /\ x.client <= Len(clients)
  BY Zenon DEF Admits
<1>b. /\ x.mu # Absent => x.checkouts = {}
      /\ s \in {"closing", "remove"} => x.mu = t
      /\ x.checkouts # {} => x.client # 0 /\ clients[x.client].state = "started"
      /\ x.checkouts \subseteq pool.conns[k].checkouts \cup {t}
      /\ t \in x.checkouts => s = "holds"
  BY Zenon DEF Admits
<1>c. \A c \in DOMAIN clients :
         clients[c].state = "started" =>
           \/ c = x.client /\ x.checkouts # {}
           \/ /\ c # pool.conns[k].client /\ c \in DOMAIN pool.clients
              /\ pool.clients[c].state = "started"
  BY Zenon DEF Admits
<1>d. \A c \in DOMAIN pool.clients :
         c # pool.conns[k].client /\ pool.clients[c].state = "started" =>
           clients[c].state = "started"
  BY Zenon DEF Admits
<1>1. /\ pool \in Pools /\ pool.conns \in Seq(Conns) /\ pool.clients \in Seq(Clients)
      /\ Len(pool.clients) \in Nat /\ pool.conns[k].client <= Len(pool.clients)
      /\ \A j \in DOMAIN pool.conns : ConnInv(j) /\ pool.conns[j] \in Conns
  BY SMTT(30) DEF PoolInv, Pools, ConnInv
<1>2. /\ DOMAIN pool'.conns = DOMAIN pool.conns /\ pool'.conns[k] = x
      /\ \A j \in DOMAIN pool.conns : j # k => pool'.conns[j] = pool.conns[j]
  BY <1>1, Zenon
<1>3. /\ pool'.at[t] = s /\ \A u \in Threads : u # t => pool'.at[u] = pool.at[u]
  BY <1>1, Zenon DEF Pools
<1>4. pool'.current # 0 => pool'.current \in DOMAIN pool'.conns
  BY <1>2, Zenon DEF PoolInv
<1>5. ASSUME NEW u \in Threads PROVE ThreadInv(u)'
  <2>1. CASE u = t
    BY <1>2, <1>3, <1>a, <1>b, <2>1, SMTT(30) DEF ThreadInv, Conn
  <2>2. CASE u # t
    <3>1. ThreadInv(u) /\ pool'.at[u] = pool.at[u] /\ pool'.conn[u] = pool.conn[u] /\ u # Absent
      BY <1>3, <2>2, PoolAssumption, Zenon DEF PoolInv, Threads
    <3>2. pool.at[u] \in {"closing", "remove"} => pool.conn[u] # k
      BY <1>a, <2>2, <3>1, Zenon DEF ThreadInv, Conn
    <3>. QED
      BY <1>2, <3>1, <3>2, SMTT(30) DEF ThreadInv, Conn
  <2>. QED
    BY <2>1, <2>2, Zenon
<1>6. ASSUME NEW j \in DOMAIN pool.conns PROVE ConnInv(j)'
  <2>1. CASE j = k
    <3>1. \A u \in x.checkouts : pool'.at[u] = "holds" /\ pool'.conn[u] = k
      BY <1>1, <1>3, <1>a, <1>b, SMTT(30) DEF ConnInv, Conns
    <3>. QED
      BY <1>2, <1>a, <1>b, <2>1, <3>1, SMTT(30) DEF ConnInv, IsStarted
  <2>2. CASE j # k
    <3>1. pool'.conns[j] = pool.conns[j] /\ ConnInv(j) /\ pool.conns[j] \in Conns
      BY <1>1, <1>2, <2>2, Zenon
    <3>2. pool.conns[j].client # 0 => pool.conns[j].client # pool.conns[k].client
      BY <2>2, Zenon DEF PoolInv, OwnClients
    <3>3. pool.conns[j].checkouts # {} => IsStarted(pool.conns[j].client)'
      <4>1. pool.conns[j].client # 0 => pool.conns[j].client \in DOMAIN pool.clients
        BY <1>1, <3>1, SMTT(30) DEF ConnInv, Conns
      <4>. QED
        BY <1>d, <3>1, <3>2, <4>1, SMTT(30) DEF ConnInv, IsStarted
    <3>4. \A u \in pool.conns[j].checkouts : pool'.at[u] = "holds" /\ pool'.conn[u] = j
      BY <1>3, <1>a, <2>2, <3>1, SMTT(30) DEF ConnInv, Conns
    <3>5. pool.conns[j].client <= Len(clients)
      BY <1>1, <1>a, <3>1, SMTT(30) DEF ConnInv, Conns
    <3>. QED
      BY <3>1, <3>3, <3>4, <3>5, Zenon DEF ConnInv
  <2>. QED
    BY <2>1, <2>2, Zenon
<1>7. ASSUME NEW c \in DOMAIN pool'.clients PROVE ClientInv(c)'
  <2>. SUFFICES ASSUME IsStarted(c)'
                PROVE  \E j \in DOMAIN pool'.conns :
                         pool'.conns[j].client = c /\ pool'.conns[j].checkouts # {}
    BY Zenon DEF ClientInv
  <2>1. CASE c = x.client /\ x.checkouts # {}
    BY <1>2, <2>1, Zenon
  <2>2. CASE c # pool.conns[k].client /\ c \in DOMAIN pool.clients /\ pool.clients[c].state = "started"
    <3>1. PICK j \in DOMAIN pool.conns : pool.conns[j].client = c /\ pool.conns[j].checkouts # {}
      BY <1>1, <2>2, Zenon DEF PoolInv, ClientInv, IsStarted
    <3>. QED
      BY <1>2, <2>2, <3>1, Zenon
  <2>. QED
    BY <1>c, <2>1, <2>2, Zenon DEF IsStarted
<1>8. OwnClients'
  <2>1. \A j \in DOMAIN pool.conns :
          pool.conns[j].client \in Nat /\ pool.conns[j].client # Len(pool.clients) + 1
    BY <1>1 DEF ConnInv, Conns
  <2>2. OwnClients
    BY Zenon DEF PoolInv
  <2>3. x.client \in {0, pool.conns[k].client, Len(pool.clients) + 1} /\ DOMAIN pool'.conns = DOMAIN pool.conns
    BY <1>2, <1>a, Zenon
  <2>. QED
    BY <1>2, <2>1, <2>2, <2>3, SMTT(30) DEF OwnClients
<1>. QED
  BY <1>2, <1>4, <1>5, <1>6, <1>7, <1>8, Zenon DEF PoolInv

LEMMA PoolTyped ==
    ASSUME PoolInv, NEW t \in Threads,
           pool.at[t] \in {"checkout", "holds", "closing", "remove", "force"}
    PROVE  /\ pool.conn[t] \in DOMAIN pool.conns /\ Conn(t) \in Conns
           /\ Conn(t) = pool.conns[pool.conn[t]] /\ ConnInv(pool.conn[t])
           /\ pool \in Pools /\ pool.conns \in Seq(Conns) /\ pool.clients \in Seq(Clients)
           /\ t # Absent /\ ThreadInv(t)
<1>1. pool.conn[t] \in DOMAIN pool.conns /\ ThreadInv(t)
  BY Zenon DEF PoolInv, ThreadInv
<1>2. pool \in Pools /\ pool.conns \in Seq(Conns) /\ pool.clients \in Seq(Clients)
  BY Zenon DEF PoolInv, Pools
<1>. QED
  BY <1>1, <1>2, PoolAssumption DEF Conn, PoolInv, Threads

LEMMA ShareKeepsInv ==
    ASSUME PoolInv, NEW t \in Consumers, ShareClient(t)
    PROVE  PoolInv'
<1>. DEFINE k == pool.conn[t]
            x == [pool.conns[k] EXCEPT !.checkouts = @ \cup {t}]
<1>1. t \in Threads /\ pool.at[t] = "checkout" /\ pool.conns[k].mu = Absent /\ pool.conns[k].checkouts # {}
  BY Zenon DEF ShareClient, ConnFree, Conn, Threads
<1>2. /\ k \in DOMAIN pool.conns /\ pool.conns[k] \in Conns /\ ConnInv(k)
      /\ pool \in Pools /\ pool.conns \in Seq(Conns) /\ pool.clients \in Seq(Clients)
  BY <1>1, PoolTyped, Zenon DEF Conn
<1>3. /\ x \in Conns /\ x.client = pool.conns[k].client /\ x.mu = Absent
      /\ x.checkouts = pool.conns[k].checkouts \cup {t}
  BY <1>1, <1>2, Zenon DEF Conns
<1>4. IsStarted(x.client) /\ x.client <= Len(pool.clients) /\ Len(pool.clients) \in Nat
  BY <1>1, <1>2, <1>3, SMTT(30) DEF ConnInv
<1>5. pool' = Assigned(t, k, x, pool.clients, "holds", pool.current, pool.cache)
  BY <1>2, Zenon DEF ShareClient, Pools, Assigned
<1>6. pool.cache \in Nat /\ "holds" \in Steps
  BY <1>2, Zenon DEF Pools, Steps
<1>. HIDE DEF x
<1>7. Admits(t, k, x, pool.clients, "holds")
  <2>1. pool.conn[t] = k
    BY Zenon
  <2>. HIDE DEF k
  <2>2. x.client # 0 /\ pool.clients[x.client].state = "started"
    BY <1>4, Zenon DEF IsStarted
  <2>. QED
    BY <1>1, <1>2, <1>3, <1>4, <2>1, <2>2, SMTT(30) DEF Admits
<1>. HIDE DEF k
<1>. QED
  BY <1>1, <1>2, <1>3, <1>5, <1>6, <1>7, ConnStep, Zenon

(* The client of a connection without checkouts does not run.              *)
LEMMA IdleClient ==
    ASSUME PoolInv, NEW k \in DOMAIN pool.conns, pool.conns[k].checkouts = {}
    PROVE  ~IsStarted(pool.conns[k].client)
<1>. DEFINE c == pool.conns[k].client
<1>. SUFFICES ASSUME IsStarted(c) PROVE FALSE
  BY Zenon
<1>1. c \in Nat /\ c <= Len(pool.clients) /\ c # 0 /\ pool.clients \in Seq(Clients)
  <2>1. pool.conns \in Seq(Conns) /\ pool.clients \in Seq(Clients) /\ ConnInv(k)
    BY Zenon DEF PoolInv, Pools
  <2>2. pool.conns[k] \in Conns
    BY <2>1
  <2>. QED
    BY <2>1, <2>2, Zenon DEF ConnInv, Conns, IsStarted
<1>2. c \in DOMAIN pool.clients
  BY <1>1
<1>3. \E j \in DOMAIN pool.conns : pool.conns[j].client = c /\ pool.conns[j].checkouts # {}
  BY <1>2, Zenon DEF PoolInv, ClientInv
<1>. QED
  BY <1>1, <1>3, Zenon DEF PoolInv, OwnClients

(* What becomes of the clients when client c gets another state.           *)
LEMMA ClientStops ==
    ASSUME PoolInv, NEW c, NEW state \in {"stopping", "stopped"}
    PROVE  LET clients == [pool.clients EXCEPT ![c].state = state]
           IN /\ clients \in Seq(Clients) /\ Len(clients) = Len(pool.clients)
              /\ DOMAIN clients = DOMAIN pool.clients
              /\ \A d \in DOMAIN pool.clients :
                   IF d = c THEN clients[d].state = state ELSE clients[d] = pool.clients[d]
<1>1. pool.clients \in Seq(Clients)
  BY Zenon DEF PoolInv, Pools
<1>2. CASE c \in DOMAIN pool.clients
  <2>. DEFINE x == [pool.clients[c] EXCEPT !.state = state]
  <2>1. x \in Clients /\ x.state = state
    <3>1. pool.clients[c] \in Clients
      BY <1>1, <1>2
    <3>. QED
      BY <3>1, Zenon DEF Clients
  <2>. HIDE DEF x
  <2>2. LET clients == [pool.clients EXCEPT ![c] = x]
        IN /\ clients \in Seq(Clients) /\ Len(clients) = Len(pool.clients)
           /\ DOMAIN clients = DOMAIN pool.clients
           /\ \A d \in DOMAIN pool.clients :
                IF d = c THEN clients[d].state = state ELSE clients[d] = pool.clients[d]
    BY <1>1, <1>2, <2>1, SeqUpdated
  <2>. QED
    BY <2>2, Zenon DEF x
<1>3. CASE c \notin DOMAIN pool.clients
  <2>1. [pool.clients EXCEPT ![c].state = state] = pool.clients
    BY <1>1, <1>3
  <2>. QED
    BY <1>1, <1>3, <2>1, Zenon
<1>. QED
  BY <1>2, <1>3, Zenon

(* The last checkout of a connection goes, or none is left there.          *)
LEMMA ClosingAdmitted ==
    ASSUME PoolInv, NEW t \in Threads, NEW k \in DOMAIN pool.conns, NEW x \in Conns,
           NEW clients \in Seq(Clients), NEW s \in Steps, pool.conn[t] = k,
           pool.conns[k].mu \in {Absent, t}, x.checkouts = {},
           x.client \in {0, pool.conns[k].client}, s \in {"closing", "remove"} => x.mu = t,
           Len(clients) = Len(pool.clients), DOMAIN clients = DOMAIN pool.clients,
           \A d \in DOMAIN pool.clients :
             IF d = pool.conns[k].client THEN clients[d].state # "started"
             ELSE clients[d] = pool.clients[d]
    PROVE  Admits(t, k, x, clients, s)
<1>1. pool.conns[k].client <= Len(pool.clients) /\ Len(pool.clients) \in Nat /\ 0 <= Len(pool.clients)
  BY SMTT(30) DEF PoolInv, ConnInv, Pools
<1>. QED
  BY <1>1 DEF Admits

LEMMA CheckinKeepsInv ==
    ASSUME PoolInv, NEW t \in Consumers, Checkin(t)
    PROVE  PoolInv'
<1>. DEFINE k == pool.conn[t]
            c == pool.conns[k].client
            rest == pool.conns[k].checkouts \ {t}
<1>1. t \in Threads /\ pool.at[t] = "holds" /\ pool.conns[k].mu = Absent
  BY Zenon DEF Checkin, ConnFree, Conn, Threads
<1>2. /\ k \in DOMAIN pool.conns /\ pool.conns[k] \in Conns /\ ConnInv(k)
      /\ pool \in Pools /\ pool.conns \in Seq(Conns) /\ pool.clients \in Seq(Clients)
  BY <1>1, PoolTyped, Zenon DEF Conn
<1>3. pool.cache \in Nat /\ {"idle", "closing", "panic"} \subseteq Steps /\ Len(pool.clients) \in Nat
  BY <1>2 DEF Pools, Steps
<1>4. ASSUME pool' = [pool EXCEPT !.at[t] = "panic"], t \notin pool.conns[k].checkouts PROVE PoolInv'
  <2>1. pool' = Assigned(t, k, pool.conns[k], pool.clients, "panic", pool.current, pool.cache)
    <3>1. [pool.conns EXCEPT ![k] = pool.conns[k]] = pool.conns
      BY <1>2
    <3>. QED
      BY <1>2, <1>4, <3>1, Zenon DEF Pools, Assigned
  <2>2. Admits(t, k, pool.conns[k], pool.clients, "panic")
    <3>1. pool.conn[t] = k
      BY Zenon
    <3>. HIDE DEF k
    <3>2. pool.conns[k].checkouts = {} => ~IsStarted(pool.conns[k].client)
      BY <1>2, IdleClient, Zenon
    <3>. QED
      BY <1>1, <1>2, <1>3, <1>4, <3>1, <3>2, SMTT(30) DEF Admits, ConnInv, IsStarted
  <2>. HIDE DEF k
  <2>. QED
    BY <1>1, <1>2, <1>3, <2>1, <2>2, ConnStep, Zenon
<1>5. ASSUME rest # {}, t \in pool.conns[k].checkouts,
             pool' = [pool EXCEPT !.conns[k].checkouts = rest, !.at[t] = "idle"]
      PROVE  PoolInv'
  <2>. DEFINE x == [pool.conns[k] EXCEPT !.checkouts = rest]
  <2>1. /\ x \in Conns /\ x.client = c /\ x.mu = Absent /\ x.checkouts = rest
    BY <1>1, <1>2, Zenon DEF Conns
  <2>2. pool' = Assigned(t, k, x, pool.clients, "idle", pool.current, pool.cache)
    BY <1>2, <1>5, Zenon DEF Pools, Assigned
  <2>. HIDE DEF x
  <2>3. Admits(t, k, x, pool.clients, "idle")
    <3>1. pool.conn[t] = k
      BY Zenon
    <3>. HIDE DEF k
    <3>. QED
      BY <1>1, <1>2, <1>3, <1>5, <2>1, <3>1 DEF Admits, ConnInv, IsStarted
  <2>. HIDE DEF k
  <2>. QED
    BY <1>1, <1>2, <1>3, <2>1, <2>2, <2>3, ConnStep, Zenon
<1>6. ASSUME pool' = [pool EXCEPT !.conns[k] = [@ EXCEPT !.checkouts = {}, !.mu = t],
                                  !.clients[c].state = "stopping", !.at[t] = "closing"]
      PROVE  PoolInv'
  <2>. DEFINE x == [pool.conns[k] EXCEPT !.checkouts = {}, !.mu = t]
              clients == [pool.clients EXCEPT ![c].state = "stopping"]
  <2>1. x \in Conns /\ x.client = c /\ x.mu = t /\ x.checkouts = {}
    BY <1>1, <1>2, Zenon DEF Conns
  <2>2. pool' = Assigned(t, k, x, clients, "closing", pool.current, pool.cache)
    BY <1>2, <1>6, Zenon DEF Pools, Assigned
  <2>3. /\ clients \in Seq(Clients) /\ Len(clients) = Len(pool.clients)
        /\ DOMAIN clients = DOMAIN pool.clients
        /\ \A d \in DOMAIN pool.clients :
             IF d = c THEN clients[d].state = "stopping" ELSE clients[d] = pool.clients[d]
    BY ClientStops, Zenon
  <2>4. pool.conn[t] = k
    BY Zenon
  <2>. HIDE DEF x, clients, k
  <2>5. Admits(t, k, x, clients, "closing")
    BY <1>1, <1>2, <1>3, <2>1, <2>3, <2>4, ClosingAdmitted, SMTT(30)
  <2>. QED
    BY <1>1, <1>2, <1>3, <2>1, <2>2, <2>3, <2>5, ConnStep, Zenon
<1>. QED
  BY <1>4, <1>5, <1>6, Zenon DEF Checkin, Conn, ClientOf

LEMMA ClosedKeepsInv ==
    ASSUME PoolInv, NEW t \in Threads, ClientClosed(t)
    PROVE  PoolInv'
<1>. DEFINE k == pool.conn[t]
            c == pool.conns[k].client
            x == [pool.conns[k] EXCEPT !.client = 0]
            clients == [pool.clients EXCEPT ![c].state = "stopped"]
<1>1. /\ k \in DOMAIN pool.conns /\ pool.conns[k] \in Conns /\ ConnInv(k)
      /\ pool \in Pools /\ pool.conns \in Seq(Conns) /\ pool.clients \in Seq(Clients)
      /\ pool.conns[k].mu = t /\ t # Absent
  BY PoolTyped, Zenon DEF ClientClosed, Conn, ThreadInv
<1>2. x \in Conns /\ x.client = 0 /\ x.mu = t /\ x.checkouts = {}
  BY <1>1, Zenon DEF Conns, ConnInv
<1>3. pool' = Assigned(t, k, x, clients, "remove", pool.current, pool.cache)
  BY <1>1, Zenon DEF ClientClosed, ClientOf, Conn, Pools, Assigned
<1>4. /\ clients \in Seq(Clients) /\ Len(clients) = Len(pool.clients)
      /\ DOMAIN clients = DOMAIN pool.clients
      /\ \A d \in DOMAIN pool.clients :
           IF d = c THEN clients[d].state = "stopped" ELSE clients[d] = pool.clients[d]
  BY ClientStops, Zenon
<1>5. pool.conn[t] = k /\ "remove" \in Steps /\ pool.cache \in Nat
  BY <1>1, Zenon DEF Steps, Pools
<1>. HIDE DEF x, clients, k
<1>6. Admits(t, k, x, clients, "remove")
  BY <1>1, <1>2, <1>4, <1>5, ClosingAdmitted, Zenon
<1>. QED
  BY <1>1, <1>2, <1>3, <1>4, <1>5, <1>6, ConnStep, Zenon

(* The thread gives its connection, which has no checkouts, back.          *)
LEMMA ReleaseKeepsInv ==
    ASSUME PoolInv, NEW t \in Threads, pool.at[t] \in {"remove", "force"},
           Conn(t).mu = Absent => pool.at[t] = "force" /\ ~IsStarted(Conn(t).client),
           NEW client \in {0, Conn(t).client}, NEW s \in {"idle", "caches"},
           NEW current \in {pool.current, 0}, Conn(t).mu \in {Absent, t},
           pool' = [pool EXCEPT !.conns[pool.conn[t]] = [client |-> client, checkouts |-> {}, mu |-> Absent],
                                !.current = current, !.at[t] = s]
    PROVE  PoolInv'
<1>. DEFINE k == pool.conn[t]
            x == [client |-> client, checkouts |-> {}, mu |-> Absent]
<1>1. /\ k \in DOMAIN pool.conns /\ pool.conns[k] \in Conns /\ ConnInv(k) /\ Conn(t) = pool.conns[k]
      /\ pool \in Pools /\ pool.conns \in Seq(Conns) /\ pool.clients \in Seq(Clients)
  BY PoolTyped, Zenon
<1>2. x \in Conns /\ x.client \in {0, pool.conns[k].client} /\ x.checkouts = {}
  BY <1>1 DEF Conns
<1>3. pool' = Assigned(t, k, x, pool.clients, s, current, pool.cache)
  BY <1>1, Zenon DEF Pools, Assigned
<1>4. pool.conn[t] = k /\ s \in Steps /\ pool.cache \in Nat /\ s \notin {"closing", "remove"}
  BY <1>1, Zenon DEF Steps, Pools
<1>5. pool.conns[k].checkouts = {}
  BY <1>1, Zenon DEF ConnInv
<1>6. ~IsStarted(pool.conns[k].client)
  BY <1>1, <1>5, IdleClient, Zenon
<1>. HIDE DEF x, k
<1>7. \A d \in DOMAIN pool.clients :
        IF d = pool.conns[k].client THEN pool.clients[d].state # "started"
        ELSE pool.clients[d] = pool.clients[d]
  BY <1>1, <1>6 DEF IsStarted
<1>8. Admits(t, k, x, pool.clients, s)
  BY <1>1, <1>2, <1>4, <1>7, ClosingAdmitted, Zenon
<1>. QED
  BY <1>1, <1>2, <1>3, <1>4, <1>8, ConnStep

LEMMA ConnReset ==
    ASSUME NEW x \in Conns
    PROVE  /\ [x EXCEPT !.client = 0, !.checkouts = {}]
                = [client |-> 0, checkouts |-> {}, mu |-> x.mu]
           /\ [x EXCEPT !.mu = Absent]
                = [client |-> x.client, checkouts |-> x.checkouts, mu |-> Absent]
<1>. DEFINE a == [x EXCEPT !.client = 0, !.checkouts = {}]
            b == [x EXCEPT !.mu = Absent]
<1>1. a \in Conns /\ a.client = 0 /\ a.checkouts = {} /\ a.mu = x.mu
  BY Zenon DEF Conns
<1>2. b \in Conns /\ b.client = x.client /\ b.checkouts = x.checkouts /\ b.mu = Absent
  BY Zenon DEF Conns
<1>3. \A y \in Conns : y = [client |-> y.client, checkouts |-> y.checkouts, mu |-> y.mu]
  BY DEF Conns
<1>. HIDE DEF a, b
<1>4. /\ a = [client |-> 0, checkouts |-> {}, mu |-> x.mu]
      /\ b = [client |-> x.client, checkouts |-> x.checkouts, mu |-> Absent]
  BY <1>1, <1>2, <1>3, Zenon
<1>. QED
  BY <1>4, Zenon DEF a, b

LEMMA RemovalKeepsInv ==
    ASSUME PoolInv, NEW t \in Threads, pool.at[t] = "remove", NEW s \in {"idle", "caches"},
           NEW current \in {pool.current, 0},
           pool' = [pool EXCEPT !.current = current, !.conns[pool.conn[t]].mu = Absent, !.at[t] = s]
    PROVE  PoolInv'
<1>. DEFINE k == pool.conn[t]
            x == [client |-> Conn(t).client, checkouts |-> {}, mu |-> Absent]
<1>1. /\ k \in DOMAIN pool.conns /\ pool.conns[k] \in Conns /\ ConnInv(k) /\ Conn(t) = pool.conns[k]
      /\ pool \in Pools /\ pool.conns \in Seq(Conns) /\ Conn(t).mu = t /\ t # Absent
  BY PoolTyped, Zenon DEF ThreadInv
<1>2. [pool.conns[k] EXCEPT !.mu = Absent] = x
  <2>1. pool.conns[k].checkouts = {}
    BY <1>1, Zenon DEF ConnInv
  <2>. QED
    BY <1>1, <2>1, ConnReset, Zenon
<1>3. pool' = [pool EXCEPT !.conns[k] = x, !.current = current, !.at[t] = s]
  BY <1>1, <1>2, Zenon DEF Pools
<1>4. Conn(t).client \in {0, Conn(t).client}
  BY Zenon
<1>. QED
  BY <1>1, <1>3, <1>4, ReleaseKeepsInv, Zenon

LEMMA CloseKeepsInv ==
    ASSUME PoolInv, \/ \E t \in Consumers : RemoveConnection(t)
                    \/ ForceCloseAll \/ ForceClosed
    PROVE  PoolInv'
<1>1. ASSUME NEW t \in Consumers, RemoveConnection(t) PROVE PoolInv'
  BY <1>1, RemovalKeepsInv, Zenon DEF RemoveConnection, Threads
<1>2. ASSUME ForceClosed PROVE PoolInv'
  <2>1. pool \in Pools /\ "close" \in Threads
    BY Zenon DEF PoolInv, Threads
  <2>2. pool' = [pool EXCEPT !.current = pool.current, !.conns[pool.conn["close"]].mu = Absent,
                             !.at["close"] = "caches"]
    BY <1>2, <2>1, Zenon DEF ForceClosed, Pools
  <2>. QED
    BY <1>2, <2>1, <2>2, RemovalKeepsInv, Zenon DEF ForceClosed
<1>3. ASSUME ForceCloseAll PROVE PoolInv'
  <2>. DEFINE k == pool.conn["close"]
              c == pool.conns[k].client
  <2>1. "close" \in Threads /\ pool.at["close"] = "force" /\ pool.conns[k].mu = Absent
    BY <1>3, Zenon DEF ForceCloseAll, Threads, ConnFree, Conn
  <2>2. /\ k \in DOMAIN pool.conns /\ pool.conns[k] \in Conns /\ ConnInv(k)
        /\ pool \in Pools /\ pool.conns \in Seq(Conns) /\ pool.clients \in Seq(Clients)
    BY <2>1, PoolTyped, Zenon DEF Conn
  <2>3. CASE /\ ~IsStarted(c)
             /\ pool' = [pool EXCEPT !.conns[k] = [@ EXCEPT !.client = 0, !.checkouts = {}],
                                     !.at["close"] = "caches"]
    <3>1. [pool.conns[k] EXCEPT !.client = 0, !.checkouts = {}]
            = [client |-> 0, checkouts |-> {}, mu |-> Absent]
      BY <2>1, <2>2, ConnReset, Zenon
    <3>2. pool' = [pool EXCEPT !.conns[k] = [client |-> 0, checkouts |-> {}, mu |-> Absent],
                               !.current = pool.current, !.at["close"] = "caches"]
      BY <2>2, <2>3, <3>1, Zenon DEF Pools
    <3>. QED
      BY <2>1, <2>2, <2>3, <3>2, ReleaseKeepsInv, Zenon DEF Conn
  <2>4. CASE pool' = [pool EXCEPT !.conns[k] = [@ EXCEPT !.checkouts = {}, !.mu = "close"],
                                  !.clients[c].state = "stopping", !.at["close"] = "closing"]
    <3>. DEFINE x == [pool.conns[k] EXCEPT !.checkouts = {}, !.mu = "close"]
                clients == [pool.clients EXCEPT ![c].state = "stopping"]
    <3>1. x \in Conns /\ x.client = c /\ x.mu = "close" /\ x.checkouts = {}
      BY <2>1, <2>2, Zenon DEF Conns
    <3>2. pool' = Assigned("close", k, x, clients, "closing", pool.current, pool.cache)
      BY <2>2, <2>4, Zenon DEF Pools, Assigned
    <3>3. /\ clients \in Seq(Clients) /\ Len(clients) = Len(pool.clients)
          /\ DOMAIN clients = DOMAIN pool.clients
          /\ \A d \in DOMAIN pool.clients :
               IF d = c THEN clients[d].state = "stopping" ELSE clients[d] = pool.clients[d]
      BY ClientStops, Zenon
    <3>4. pool.conn["close"] = k /\ "closing" \in Steps /\ pool.cache \in Nat
      BY <2>2, Zenon DEF Steps, Pools
    <3>. HIDE DEF x, clients, k
    <3>5. Admits("close", k, x, clients, "closing")
      BY <2>1, <2>2, <3>1, <3>3, <3>4, ClosingAdmitted, Zenon
    <3>. QED
      BY <2>1, <2>2, <3>1, <3>2, <3>3, <3>4, <3>5, ConnStep, Zenon
  <2>. QED
    BY <1>3, <2>3, <2>4, Zenon DEF ForceCloseAll, ClientOf, Conn
<1>. QED
  BY <1>1, <1>2, <1>3, Zenon

LEMMA StartKeepsInv ==
    ASSUME PoolInv, NEW t \in Consumers, EnsureStartedClient(t)
    PROVE  PoolInv'
<1>. DEFINE k == pool.conn[t]
            id == Len(pool.clients) + 1
<1>1. /\ t \in Threads /\ pool.at[t] = "checkout" /\ pool.conns[k].mu = Absent
      /\ pool.conns[k].checkouts = {}
  BY Zenon DEF EnsureStartedClient, ConnFree, Conn, Threads
<1>2. /\ k \in DOMAIN pool.conns /\ pool.conns[k] \in Conns /\ ConnInv(k)
      /\ pool \in Pools /\ pool.conns \in Seq(Conns) /\ pool.clients \in Seq(Clients)
  BY <1>1, PoolTyped, Zenon DEF Conn
<1>3. PICK ok \in BOOLEAN :
        pool' = [pool EXCEPT
          !.clients = Append(@, [state |-> IF ok THEN "started" ELSE "failed", loop |-> ok,
                                 reset |-> FALSE, timeouts |-> 0]),
          !.conns[k] = [@ EXCEPT !.client = id, !.checkouts = IF ok THEN {t} ELSE {}],
          !.cache = IF ok /\ @ = 0 THEN id ELSE @,
          !.at[t] = IF ok THEN "holds" ELSE "idle"]
  BY <1>2, Zenon DEF EnsureStartedClient, StartClient, Pools
<1>. DEFINE y == [state |-> IF ok THEN "started" ELSE "failed", loop |-> ok, reset |-> FALSE,
                  timeouts |-> 0]
            clients == Append(pool.clients, y)
            x == [pool.conns[k] EXCEPT !.client = id, !.checkouts = IF ok THEN {t} ELSE {}]
            s == IF ok THEN "holds" ELSE "idle"
            cache == IF ok /\ pool.cache = 0 THEN id ELSE pool.cache
<1>4. y \in Clients /\ y.state = (IF ok THEN "started" ELSE "failed")
  BY Zenon DEF Clients
<1>5. id \in Nat /\ Len(pool.clients) \in Nat
  BY <1>2
<1>6. cache \in Nat /\ s \in Steps /\ s \notin {"closing", "remove"}
  BY <1>2, <1>5, Zenon DEF Pools, Steps
<1>7. x \in Conns /\ x.client = id /\ x.mu = Absent /\ x.checkouts = (IF ok THEN {t} ELSE {})
  BY <1>1, <1>2, <1>5, Zenon DEF Conns
<1>8. pool' = Assigned(t, k, x, clients, s, pool.current, cache)
  BY <1>2, <1>3, ZenonT(60) DEF Pools, Assigned
<1>. HIDE DEF y
<1>9. /\ clients \in Seq(Clients) /\ Len(clients) = id /\ clients[id] = y
      /\ DOMAIN clients = DOMAIN pool.clients \cup {id}
      /\ \A d \in DOMAIN pool.clients : clients[d] = pool.clients[d]
  BY <1>2, <1>4, SeqAppended
<1>10. ~IsStarted(pool.conns[k].client) /\ pool.conn[t] = k
  BY <1>1, <1>2, IdleClient, Zenon
<1>. HIDE DEF x, clients, k, id, cache
<1>11. Admits(t, k, x, clients, s)
  <2>1. Len(pool.clients) <= id /\ id # 0 /\ id \notin DOMAIN pool.clients /\ id <= id
        /\ id = Len(pool.clients) + 1
    BY <1>2, <1>5 DEF id
  <2>2. \A c \in DOMAIN pool.clients : c = pool.conns[k].client => pool.clients[c].state # "started"
    BY <1>2, <1>10 DEF IsStarted
  <2>3. x.checkouts # {} => clients[x.client].state = "started"
    BY <1>4, <1>7, <1>9, Zenon
  <2>4. \A c \in DOMAIN clients :
         clients[c].state = "started" =>
           \/ c = x.client /\ x.checkouts # {}
           \/ /\ c # pool.conns[k].client /\ c \in DOMAIN pool.clients
              /\ pool.clients[c].state = "started"
    BY <1>4, <1>7, <1>9, <2>2, Zenon
  <2>. QED
    BY <1>1, <1>6, <1>7, <1>9, <1>10, <2>1, <2>3, <2>4, Zenon DEF Admits
<1>. HIDE DEF s
<1>. QED
  BY <1>1, <1>2, <1>6, <1>7, <1>8, <1>9, <1>11, ConnStep, Zenon

(* A step that leaves the connections, may add an empty one, and starts    *)
(* and stops no client.                                                    *)
LEMMA RestKept ==
    ASSUME PoolInv, pool' \in Pools,
           pool'.current # 0 => pool'.current \in DOMAIN pool'.conns,
           DOMAIN pool.conns \subseteq DOMAIN pool'.conns,
           \A j \in DOMAIN pool.conns : pool'.conns[j] = pool.conns[j],
           \A j \in DOMAIN pool'.conns \ DOMAIN pool.conns :
             pool'.conns[j].client = 0 /\ pool'.conns[j].checkouts = {},
           Len(pool'.clients) = Len(pool.clients), DOMAIN pool'.clients = DOMAIN pool.clients,
           \A c \in DOMAIN pool.clients :
             pool'.clients[c].state = "started" <=> pool.clients[c].state = "started",
           \A u \in Threads : \/ pool'.at[u] = pool.at[u] /\ pool'.conn[u] = pool.conn[u]
                              \/ pool.at[u] # "holds" /\ ThreadInv(u)'
    PROVE  PoolInv'
<1>1. /\ pool \in Pools /\ pool.conns \in Seq(Conns) /\ pool.clients \in Seq(Clients)
      /\ Len(pool.clients) \in Nat
      /\ \A j \in DOMAIN pool.conns : ConnInv(j) /\ pool.conns[j] \in Conns
  <2>1. pool \in Pools /\ \A j \in DOMAIN pool.conns : ConnInv(j)
    BY Zenon DEF PoolInv
  <2>2. pool.conns \in Seq(Conns) /\ pool.clients \in Seq(Clients)
    BY <2>1, Zenon DEF Pools
  <2>. QED
    BY <2>1, <2>2, SMTT(30)
<1>2. ASSUME NEW u \in Threads PROVE ThreadInv(u)'
  <2>1. CASE pool'.at[u] = pool.at[u] /\ pool'.conn[u] = pool.conn[u]
    <3>1. ThreadInv(u)
      BY Zenon DEF PoolInv
    <3>. QED
      BY <2>1, <3>1, Zenon DEF ThreadInv, Conn
  <2>. QED
    BY <2>1, Zenon
<1>3. ASSUME NEW j \in DOMAIN pool'.conns PROVE ConnInv(j)'
  <2>1. CASE j \in DOMAIN pool.conns
    <3>1. ConnInv(j) /\ pool'.conns[j] = pool.conns[j] /\ pool.conns[j] \in Conns
      BY <1>1, <2>1
    <3>2. pool.conns[j].client # 0 => pool.conns[j].client \in DOMAIN pool.clients
      BY <1>1, <3>1, SMTT(30) DEF ConnInv, Conns
    <3>3. pool.conns[j].checkouts # {} => IsStarted(pool.conns[j].client)'
      BY <3>1, <3>2, Zenon DEF ConnInv, IsStarted
    <3>4. \A u \in pool.conns[j].checkouts : pool'.at[u] = "holds" /\ pool'.conn[u] = j
      BY <3>1, Zenon DEF ConnInv, Conns
    <3>. QED
      BY <3>1, <3>3, <3>4, Zenon DEF ConnInv
  <2>2. CASE j \notin DOMAIN pool.conns
    BY <1>1, <2>2 DEF ConnInv
  <2>. QED
    BY <2>1, <2>2, Zenon
<1>4. ASSUME NEW c \in DOMAIN pool'.clients PROVE ClientInv(c)'
  <2>. SUFFICES ASSUME IsStarted(c)'
                PROVE  \E j \in DOMAIN pool'.conns :
                         pool'.conns[j].client = c /\ pool'.conns[j].checkouts # {}
    BY Zenon DEF ClientInv
  <2>1. PICK j \in DOMAIN pool.conns : pool.conns[j].client = c /\ pool.conns[j].checkouts # {}
    BY Zenon DEF PoolInv, ClientInv, IsStarted
  <2>. QED
    BY <2>1
<1>5. OwnClients'
  BY DEF PoolInv, OwnClients
<1>. QED
  BY <1>2, <1>3, <1>4, <1>5, Zenon DEF PoolInv

LEMMA CheckoutKeepsInv ==
    ASSUME PoolInv, NEW t \in Consumers, Checkout(t)
    PROVE  PoolInv'
<1>. DEFINE k == IF pool.current # 0 THEN pool.current ELSE Len(pool.conns) + 1
            conns == IF pool.current # 0 THEN pool.conns
                     ELSE Append(pool.conns, [client |-> 0, checkouts |-> {}, mu |-> Absent])
            at == [pool.at EXCEPT ![t] = "checkout"]
            conn == [pool.conn EXCEPT ![t] = k]
<1>1. /\ pool \in Pools /\ pool.conns \in Seq(Conns) /\ pool.current \in Nat
      /\ pool.at \in [Threads -> Steps] /\ pool.conn \in [Threads -> Nat]
      /\ t \in Threads /\ pool.at[t] = "idle" /\ pool.clients \in Seq(Clients)
  BY Zenon DEF PoolInv, Pools, Checkout, Threads
<1>2. pool' = [pool EXCEPT !.at = at, !.conn = conn, !.current = k, !.conns = conns]
  <2>1. CASE pool.current # 0
    BY <1>1, <2>1, Zenon DEF Checkout, Pools
  <2>2. CASE pool.current = 0
    BY <1>1, <2>2, Zenon DEF Checkout, Pools
  <2>. QED
    BY <2>1, <2>2, Zenon
<1>3. /\ k \in Nat /\ k \in DOMAIN conns /\ DOMAIN pool.conns \subseteq DOMAIN conns
      /\ \A j \in DOMAIN pool.conns : conns[j] = pool.conns[j]
      /\ \A j \in DOMAIN conns \ DOMAIN pool.conns : conns[j].client = 0 /\ conns[j].checkouts = {}
      /\ conns \in Seq(Conns)
  <2>1. CASE pool.current # 0
    BY <1>1, <2>1, Zenon DEF PoolInv
  <2>2. CASE pool.current = 0
    <3>1. [client |-> 0, checkouts |-> {}, mu |-> Absent] \in Conns
      BY Zenon DEF Conns
    <3>. QED
      BY <1>1, <2>2, <3>1, SeqAppended, SMTT(30)
  <2>. QED
    BY <2>1, <2>2, Zenon
<1>4. at \in [Threads -> Steps] /\ conn \in [Threads -> Nat]
  BY <1>1, <1>3, Zenon DEF Steps
<1>5. \A u \in Threads : IF u = t THEN at[u] = "checkout" /\ conn[u] = k
                         ELSE at[u] = pool.at[u] /\ conn[u] = pool.conn[u]
  BY <1>1, Zenon
<1>. HIDE DEF k, conns, at, conn
<1>6. /\ pool' \in Pools /\ pool'.at = at /\ pool'.conn = conn /\ pool'.current = k
      /\ pool'.conns = conns /\ pool'.clients = pool.clients
  BY <1>1, <1>2, <1>3, <1>4, Zenon DEF Pools
<1>7. ThreadInv(t)'
  BY <1>1, <1>3, <1>5, <1>6, Zenon DEF ThreadInv
<1>. QED
  BY <1>1, <1>3, <1>5, <1>6, <1>7, RestKept, Zenon

LEMMA CloseStepKeepsInv ==
    ASSUME PoolInv, ClosePool \/ CloseCaches
    PROVE  PoolInv'
<1>1. /\ pool \in Pools /\ pool.current \in Nat /\ "close" \in Threads
      /\ pool.at \in [Threads -> Steps] /\ pool.conn \in [Threads -> Nat]
  BY Zenon DEF PoolInv, Pools, Threads
<1>2. CASE ClosePool
  <2>. DEFINE s == IF pool.current = 0 THEN "caches" ELSE "force"
              at == [pool.at EXCEPT !["close"] = s]
              conn == [pool.conn EXCEPT !["close"] = pool.current]
  <2>1. pool' = [pool EXCEPT !.closed = TRUE, !.mu = "close", !.conn = conn, !.at = at]
    BY <1>1, <1>2, Zenon DEF ClosePool, Pools
  <2>2. at \in [Threads -> Steps] /\ conn \in [Threads -> Nat]
    BY <1>1, Zenon DEF Steps
  <2>3. \A u \in Threads : IF u = "close" THEN at[u] = s /\ conn[u] = pool.current
                           ELSE at[u] = pool.at[u] /\ conn[u] = pool.conn[u]
    BY <1>1, Zenon
  <2>. HIDE DEF at, conn
  <2>4. /\ pool' \in Pools /\ pool'.at = at /\ pool'.conn = conn /\ pool'.current = pool.current
        /\ pool'.conns = pool.conns /\ pool'.clients = pool.clients
    BY <1>1, <2>1, <2>2, Zenon DEF Pools
  <2>5. ThreadInv("close")' /\ pool.at["close"] # "holds"
    BY <1>1, <1>2, <2>3, <2>4 DEF ThreadInv, PoolInv, ClosePool
  <2>. QED
    BY <1>1, <2>3, <2>4, <2>5, RestKept, Zenon DEF PoolInv
<1>3. CASE CloseCaches
  <2>. DEFINE at == [pool.at EXCEPT !["close"] = "closed"]
  <2>1. pool' = [pool EXCEPT !.caching = FALSE, !.cache = 0, !.mu = Absent, !.at = at]
    BY <1>1, <1>3, Zenon DEF CloseCaches, Pools
  <2>2. at \in [Threads -> Steps]
    BY <1>1, Zenon DEF Steps
  <2>3. \A u \in Threads : at[u] = IF u = "close" THEN "closed" ELSE pool.at[u]
    BY <1>1, Zenon
  <2>. HIDE DEF at
  <2>4. /\ pool' \in Pools /\ pool'.at = at /\ pool'.conn = pool.conn
        /\ pool'.current = pool.current
        /\ pool'.conns = pool.conns /\ pool'.clients = pool.clients
    BY <1>1, <2>1, <2>2, Zenon DEF Pools
  <2>5. ThreadInv("close")' /\ pool.at["close"] # "holds"
    BY <1>1, <1>3, <2>3, <2>4 DEF ThreadInv, CloseCaches
  <2>. QED
    BY <1>1, <2>3, <2>4, <2>5, RestKept, Zenon DEF PoolInv
<1>. QED
  BY <1>2, <1>3, Zenon

(* A step of one client that neither starts nor stops it.                  *)
LEMMA ClientStep ==
    ASSUME PoolInv, NEW c \in DOMAIN pool.clients, NEW y \in Clients,
           y.state = "started" <=> pool.clients[c].state = "started",
           pool' = [pool EXCEPT !.clients[c] = y]
    PROVE  PoolInv'
<1>. DEFINE clients == [pool.clients EXCEPT ![c] = y]
<1>1. pool \in Pools /\ pool.clients \in Seq(Clients)
  BY Zenon DEF PoolInv, Pools
<1>2. /\ clients \in Seq(Clients) /\ Len(clients) = Len(pool.clients)
      /\ DOMAIN clients = DOMAIN pool.clients
      /\ \A d \in DOMAIN pool.clients :
           clients[d].state = "started" <=> pool.clients[d].state = "started"
  BY <1>1, SeqUpdated
<1>3. pool' = [pool EXCEPT !.clients = clients]
  BY <1>1, Zenon DEF Pools
<1>. HIDE DEF clients
<1>4. /\ pool' \in Pools /\ pool'.at = pool.at /\ pool'.conn = pool.conn
      /\ pool'.current = pool.current /\ pool'.conns = pool.conns /\ pool'.clients = clients
  BY <1>1, <1>2, <1>3, Zenon DEF Pools
<1>. QED
  BY <1>2, <1>4, RestKept, Zenon DEF PoolInv

LEMMA RequestKeepsInv ==
    ASSUME PoolInv, NEW t \in Consumers, Request(t)
    PROVE  PoolInv'
<1>. DEFINE c == ClientOf(t)
            n == pool.clients[c].timeouts
            m == Minimum({n + 1, MaxConsecutiveRequestFailures + 1})
<1>1. t \in Threads /\ pool.at[t] = "holds" /\ IsStarted(c)
  BY Zenon DEF Request, Threads
<1>2. /\ Conn(t) \in Conns /\ ConnInv(pool.conn[t]) /\ Conn(t) = pool.conns[pool.conn[t]]
      /\ pool \in Pools /\ pool.clients \in Seq(Clients)
  BY <1>1, PoolTyped, Zenon
<1>3. c \in DOMAIN pool.clients
  <2>1. c \in Nat /\ c <= Len(pool.clients)
    BY <1>2, Zenon DEF ClientOf, Conns, ConnInv
  <2>2. c # 0
    BY <1>1, Zenon DEF IsStarted
  <2>. HIDE DEF c
  <2>. QED
    BY <1>2, <2>1, <2>2
<1>. HIDE DEF c
<1>4. pool.clients[c] \in Clients /\ n \in Nat
  <2>1. pool.clients[c] \in Clients
    BY <1>2, <1>3
  <2>. QED
    BY <2>1, Zenon DEF Clients
<1>. HIDE DEF n
<1>5. m \in Nat
  BY <1>4, PoolAssumption DEF Minimum
<1>. USE DEF c, n
<1>6. PICK timedOut \in BOOLEAN : pool' = HandleTimeout(c, timedOut)
  BY Zenon DEF Request
<1>. DEFINE y == IF timedOut
                 THEN [pool.clients[c] EXCEPT !.timeouts = m,
                         !.reset = @ \/ n + 1 = MaxConsecutiveRequestFailures]
                 ELSE [pool.clients[c] EXCEPT !.timeouts = 0]
<1>. HIDE DEF m
<1>7. y \in Clients /\ y.state = pool.clients[c].state
  BY <1>4, <1>5, Zenon DEF Clients
<1>8. pool' = [pool EXCEPT !.clients[c] = y]
  BY <1>2, <1>3, <1>6, Zenon DEF HandleTimeout, Pools, m
<1>. HIDE DEF y, c
<1>. QED
  BY <1>3, <1>7, <1>8, ClientStep, Zenon

LEMMA LoopKeepsInv ==
    ASSUME PoolInv, NEW c \in DOMAIN pool.clients, ResetTransport(c) \/ LoopEnds(c)
    PROVE  PoolInv'
<1>1. pool \in Pools /\ pool.clients \in Seq(Clients) /\ pool.clients[c] \in Clients /\ c # 0
  BY DEF PoolInv, Pools
<1>2. CASE LoopEnds(c)
  <2>. DEFINE y == [pool.clients[c] EXCEPT !.loop = FALSE]
  <2>1. y \in Clients /\ y.state = pool.clients[c].state
    BY <1>1, Zenon DEF Clients
  <2>2. pool' = [pool EXCEPT !.clients[c] = y]
    BY <1>1, <1>2, Zenon DEF LoopEnds, Pools
  <2>. HIDE DEF y
  <2>. QED
    BY <2>1, <2>2, ClientStep, Zenon
<1>3. CASE ResetTransport(c)
  <2>. DEFINE b == pool.clients[c].state = "started"
              y == [pool.clients[c] EXCEPT !.reset = FALSE, !.loop = b,
                                           !.state = IF b THEN @ ELSE "panic"]
  <2>1. y \in Clients /\ (y.state = "started" <=> pool.clients[c].state = "started")
    BY <1>1, Zenon DEF Clients
  <2>2. pool' = [pool EXCEPT !.clients[c] = y]
    <3>1. IsStarted(c) = b
      BY <1>1, Zenon DEF IsStarted
    <3>2. pool' = [pool EXCEPT !.clients[c].reset = FALSE, !.clients[c].loop = b,
                               !.clients[c].state = IF b THEN @ ELSE "panic"]
      BY <1>3, <3>1, Zenon DEF ResetTransport
    <3>. QED
      BY <1>1, <3>2, Zenon DEF Pools
  <2>. HIDE DEF y
  <2>. QED
    BY <2>1, <2>2, ClientStep, Zenon
<1>. QED
  BY <1>2, <1>3, Zenon

LEMMA PoolStep == PoolInv /\ [PoolNext]_pool => PoolInv'
<1>. SUFFICES ASSUME PoolInv, [PoolNext]_pool PROVE PoolInv'
  BY Zenon
<1>1. CASE UNCHANGED pool
  BY <1>1, SMTT(30) DEF PoolInv, ThreadInv, ConnInv, ClientInv, OwnClients, Conn, IsStarted
<1>2. ASSUME NEW t \in Consumers,
             \/ Checkout(t) \/ EnsureStartedClient(t) \/ ShareClient(t) \/ Request(t)
             \/ Checkin(t) \/ RemoveConnection(t)
      PROVE  PoolInv'
  BY <1>2, CheckoutKeepsInv, StartKeepsInv, ShareKeepsInv, RequestKeepsInv, CheckinKeepsInv,
     CloseKeepsInv
<1>3. ASSUME NEW t \in Threads, ClientClosed(t) PROVE PoolInv'
  BY <1>3, ClosedKeepsInv, Zenon
<1>4. ASSUME NEW c \in DOMAIN pool.clients, ResetTransport(c) \/ LoopEnds(c) PROVE PoolInv'
  BY <1>4, LoopKeepsInv, Zenon
<1>5. CASE ClosePool \/ ForceCloseAll \/ ForceClosed \/ CloseCaches
  BY <1>5, CloseKeepsInv, CloseStepKeepsInv, Zenon
<1>. QED
  BY <1>1, <1>2, <1>3, <1>4, <1>5, Zenon DEF PoolNext

(* Consumers share a wsrpc client without closing it under each other:     *)
(* whatever checkouts, checkins, failed dials, transport resets and the    *)
(* close of the pool interleave, a connection with checkouts has a started *)
(* client, each of its checkouts is of a consumer that holds it, and no    *)
(* client runs that nobody has checked out (pool.go, connection.checkout   *)
(* and checkin). For any number of consumers, connections and clients.     *)
THEOREM PoolSharesClientsHolds == PoolSpec => []PoolSharesClients
<1>1. PoolInv => PoolSharesClients
  BY Zenon DEF PoolInv, ConnInv, ClientInv, PoolSharesClients
<1>. QED
  BY <1>1, PoolInvInit, PoolStep, PTL DEF PoolSpec

=============================================================================
