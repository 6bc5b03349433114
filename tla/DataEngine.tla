----------------------------- MODULE DataEngine -----------------------------
(***************************************************************************)
(* The data engine transmitter (llo/transmitter/dataengine): what happens  *)
(* to a report between Transmit() and the servers it is for.               *)
(*                                                                         *)
(*   Transmit -> commitCh -> commit loop -> table row and transmit queue   *)
(*            -> transmit loop -> server -> delete queue -> flush loop     *)
(*                                                                         *)
(* Each step of a goroutine that takes a lock, waits or talks to the       *)
(* database or to a server is an action. The process can crash anywhere,   *)
(* and Close() stops the goroutines in the order of the code.              *)
(***************************************************************************)
EXTENDS Naturals, Sequences, FiniteSets

CONSTANTS
    Servers,              \* server URLs
    Reports,              \* the reports that the oracle hands over
    SeqNr,                \* SeqNr[r]: the round of report r
    Format,               \* Format[r]: "packable", "capability" or "unknown"
    TransmitConcurrency,  \* transmit loops per server
    TransmitQueueMaxSize, \* the configured size of the queue; 0 is "unlimited"
    DefaultMaxTransmitQueueSize,
    CommitChSize,         \* capacity of commitCh: bound for 1000 per server
    BatchSize,            \* buff: a tenth of that capacity
    DeleteQueueMaxSize,   \* bound for 1,000,000
    DeleteBatchSize,      \* bound for 1,000
    MaxStops,             \* bound: how often the process stops or crashes
    None                  \* the nil transmission

ASSUME DataEngineAssumption ==
    /\ IsFiniteSet(Servers) /\ IsFiniteSet(Reports)
    /\ SeqNr \in [Reports -> Nat]
    /\ Format \in [Reports -> {"packable", "capability", "unknown"}]
    /\ TransmitConcurrency \in Nat \ {0} /\ TransmitQueueMaxSize \in Nat
    /\ DefaultMaxTransmitQueueSize \in Nat \ {0}
    /\ BatchSize \in 1 .. CommitChSize
    /\ DeleteQueueMaxSize \in Nat \ {0} /\ DeleteBatchSize \in Nat \ {0}
    /\ MaxStops \in Nat

(* A transmission is one report for one server; its hash identifies it.    *)
Transmission == [server : Servers, report : Reports]

ASSUME NoneAssumption == None \notin Transmission

seqNr(t) == SeqNr[t.report]
format(t) == Format[t.report]
For(s, T) == {t \in T : t.server = s}

Loops == 1 .. Cardinality(Servers)
Workers == Servers \X (1 .. TransmitConcurrency)

VARIABLES
    phase,        \* of the process: see Phases
    commitCh,     \* transmissions that Transmit() accepted
    loop,         \* loop[l]: where commit loop l is
    batch,        \* batch[l]: its transmissions
    queue,        \* queue[s]: the heap of server s
    worker,       \* worker[w]: where transmit loop w is, and with what
    deleteQueue,  \* deleteQueue[s]: hashes to delete, oldest first
    flusher,      \* flusher[s]: where the flush loop is, and its hashes
    pruner,       \* pruner[s]: where the prune loop is, and its threshold
    rows,         \* the table llo_mercury_transmit_queue
    received,     \* what the servers have received
    stops,        \* how often the process has stopped
    accepted,     \* history: the reports handed to Transmit()
    excused,      \* history: evicted, pruned, or not meant for the servers
    orphaned      \* history: rows that no goroutine is responsible for

memory == <<commitCh, loop, batch, queue, worker, deleteQueue, flusher, pruner>>
vars == <<phase, memory, rows, received, stops, accepted, excused, orphaned>>

Phases == {"down", "up", "queuesClosed", "stopping", "closing"}

TypeOK ==
    /\ phase \in Phases
    /\ commitCh \in Seq(Transmission) /\ Len(commitCh) <= CommitChSize
    /\ loop \in [Loops -> {"select", "insert", "push", "exited"}]
    /\ batch \in [Loops -> Seq(Transmission)]
    /\ queue \in [Servers -> SUBSET Transmission]
    /\ worker \in [Workers -> [pc : {"idle", "waiting", "sending", "backoff", "exited"},
                               t : Transmission \cup {None}]]
    /\ deleteQueue \in [Servers -> Seq(Transmission)]
    /\ flusher \in [Servers -> [pc : {"idle", "deleting", "final", "exited"},
                                hashes : Seq(Transmission)]]
    /\ pruner \in [Servers -> [pc : {"idle", "pruning", "exited", "failed"}, oldest : Nat, last : BOOLEAN]]
    /\ rows \subseteq Transmission /\ received \subseteq Transmission
    /\ stops \in 0 .. MaxStops /\ accepted \subseteq Reports
    /\ excused \subseteq Transmission /\ orphaned \subseteq Transmission

Elements(s) == {s[i] : i \in 1 .. Len(s)}

(* stopCh is closed: contexts made from it are cancelled.                  *)
Stopped == phase \in {"stopping", "closing"}

(* The queues are closed.                                                  *)
Closed == phase # "up"

(* The persistence managers' stop channels are closed.                     *)
PmStopped == phase = "closing"

-----------------------------------------------------------------------------
(* orm.go: the table. All rows here belong to one DON.                     *)

(* Row cap of the persistence manager: it takes 0 for the default.         *)
MaxRows == IF TransmitQueueMaxSize = 0 THEN DefaultMaxTransmitQueueSize
                                       ELSE TransmitQueueMaxSize

(* The sets of the n transmissions of T with the highest sequence numbers. *)
Newest(T, n) ==
    {K \in SUBSET T :
        /\ Cardinality(K) = (IF Cardinality(T) < n THEN Cardinality(T) ELSE n)
        /\ \A k \in K, o \in T \ K : seqNr(k) >= seqNr(o)}

(* Insert, ON CONFLICT DO NOTHING.                                         *)
Insert(T) == rows' = rows \cup T

(* Delete by hash.                                                         *)
Delete(T) == rows' = rows \ T

(* What Get can load for server s: its newest rows, of those not too old.  *)
Get(s) == UNION {Newest(For(s, rows) \ old, MaxRows) : old \in SUBSET For(s, rows)}

(* Prune, first statement: the sequence number after the MaxRows newest.   *)
OldestKept(s) ==
    IF Cardinality(For(s, rows)) <= MaxRows THEN {}
    ELSE {seqNr(t) : t \in {u \in For(s, rows) :
            \E K \in Newest(For(s, rows), MaxRows) :
                u \notin K /\ \A v \in For(s, rows) \ K : seqNr(v) <= seqNr(u)}}

(* Prune, the deletes: everything older than oldest, then all rows but the *)
(* MaxRows newest; rows that another delete has locked are skipped.        *)
Pruned(s, oldest, locked) ==
    LET older == {t \in For(s, rows) : seqNr(t) < oldest} \ locked
    IN {(For(s, rows) \ K) \ locked : K \in Newest(For(s, rows) \ older, MaxRows)}

-----------------------------------------------------------------------------
(* persistence_manager.go: the delete queue.                               *)

(* How many of the oldest hashes are dropped when the queue is too long.   *)
Excess(hashes) == IF Len(hashes) <= DeleteQueueMaxSize THEN 0
                  ELSE Len(hashes) - DeleteQueueMaxSize

(* addToDeleteQueue, called by AsyncDelete with one hash.                  *)
AddToDeleteQueue(s, hashes) ==
    LET all == deleteQueue[s] \o hashes
    IN /\ deleteQueue' = [deleteQueue EXCEPT ![s] = SubSeq(all, Excess(all) + 1, Len(all))]
       /\ orphaned' = orphaned \cup Elements(SubSeq(all, 1, Excess(all)))

-----------------------------------------------------------------------------
(* queue.go: the transmit queue, a heap with the latest round first.       *)

(* What pop can return: the latest round.                                  *)
Latest(Q) == {t \in Q : \A u \in Q : seqNr(u) <= seqNr(t)}

Overflow(Q) == IF TransmitQueueMaxSize = 0 \/ Cardinality(Q) < TransmitQueueMaxSize THEN 0
               ELSE Cardinality(Q) - TransmitQueueMaxSize + 1

(* PopMax until there is room: the oldest rounds, in the order of removal. *)
Evictions(Q) ==
    {e \in [1 .. Overflow(Q) -> Q] :
        /\ \A i, j \in DOMAIN e : i < j => e[i] # e[j] /\ seqNr(e[i]) <= seqNr(e[j])
        /\ \A i \in DOMAIN e : \A u \in Q \ Elements(e) : seqNr(e[i]) <= seqNr(u)}

(* cond.Signal: one of the transmit loops that wait, if any, runs on.      *)
Signalled(ws, s) ==
    LET waiting == {w \in Workers : w[1] = s /\ ws[w].pc = "waiting"}
    IN IF waiting = {} THEN {ws} ELSE {[ws EXCEPT ![w].pc = "idle"] : w \in waiting}

(* Mutant: what is evicted is not deleted.                                  *)
NoDeletePush(t, ws) ==
    \E e \in Evictions(queue[t.server]) :
        /\ queue' = [queue EXCEPT ![t.server] = (@ \ Elements(e)) \cup {t}]
        /\ UNCHANGED <<deleteQueue, orphaned>>
        /\ excused' = excused \cup Elements(e)
        /\ worker' \in Signalled(ws, t.server)

(* Mutant: nobody is woken.                                                 *)
SilentPush(t, ws) ==
    \E e \in Evictions(queue[t.server]) :
        /\ queue' = [queue EXCEPT ![t.server] = (@ \ Elements(e)) \cup {t}]
        /\ AddToDeleteQueue(t.server, e)
        /\ excused' = excused \cup Elements(e)
        /\ worker' = ws

(* Push on an open queue: evict the oldest, insert, signal. ws is the      *)
(* state of the transmit loops at that point.                              *)
Push(t, ws) ==
    \E e \in Evictions(queue[t.server]) :
        /\ queue' = [queue EXCEPT ![t.server] = (@ \ Elements(e)) \cup {t}]
        /\ AddToDeleteQueue(t.server, e)
        /\ excused' = excused \cup Elements(e)
        /\ worker' \in Signalled(ws, t.server)

-----------------------------------------------------------------------------
(* transmitter.go: Transmit and the commit loops.                          *)

(* Transmit: one transmission per server goes into commitCh; for servers   *)
(* not in S the caller's context ended first. Refused unless started.      *)
Transmit(r, S) ==
    /\ phase = "up" /\ r \notin accepted
    /\ Len(commitCh) + Cardinality(S) <= CommitChSize
    /\ \E order \in [1 .. Cardinality(S) -> S] :
        /\ Elements(order) = S
        /\ commitCh' = commitCh \o [i \in DOMAIN order |-> [server |-> order[i], report |-> r]]
    /\ accepted' = accepted \cup {r}
    /\ UNCHANGED <<phase, loop, batch, queue, worker, deleteQueue, flusher, pruner,
                   rows, received, stops, excused, orphaned>>

(* A loop calls transmit with the transmissions b and then starts a new    *)
(* batch; with a cancelled context transmit does nothing.                  *)
Commit(l, b) ==
    /\ loop' = [loop EXCEPT ![l] = IF Stopped THEN "select" ELSE "insert"]
    /\ batch' = [batch EXCEPT ![l] = IF Stopped THEN <<>> ELSE b]

(* The select of a commit loop: a transmission arrives. A full batch is    *)
(* committed at once.                                                      *)
ReceiveTransmission(l) ==
    LET b == Append(batch[l], Head(commitCh))
    IN /\ phase # "down" /\ loop[l] = "select" /\ commitCh # <<>>
       /\ commitCh' = Tail(commitCh)
       /\ IF Len(b) >= BatchSize THEN Commit(l, b)
          ELSE batch' = [batch EXCEPT ![l] = b] /\ UNCHANGED loop
       /\ UNCHANGED <<phase, queue, worker, deleteQueue, flusher, pruner,
                      rows, received, stops, accepted, excused, orphaned>>

(* The ticker: what has arrived is committed.                              *)
CommitTick(l) ==
    /\ phase # "down" /\ loop[l] = "select" /\ batch[l] # <<>>
    /\ Commit(l, batch[l])
    /\ UNCHANGED <<phase, commitCh, queue, worker, deleteQueue, flusher, pruner,
                   rows, received, stops, accepted, excused, orphaned>>

(* The insert of transmit. One that fails may have inserted, and the       *)
(* context may have been cancelled meanwhile.                              *)
InsertBatch(l) ==
    /\ loop[l] = "insert"
    /\ \/ /\ Insert(Elements(batch[l]))
          /\ loop' = [loop EXCEPT ![l] = "push"]
          /\ UNCHANGED <<batch, orphaned>>
       \/ /\ loop' = [loop EXCEPT ![l] = "select"]
          /\ batch' = [batch EXCEPT ![l] = <<>>]
          /\ \/ UNCHANGED <<rows, orphaned>>
             \/ /\ Insert(Elements(batch[l]))
                /\ orphaned' = orphaned \cup Elements(batch[l])
    /\ UNCHANGED <<phase, commitCh, queue, worker, deleteQueue, flusher, pruner,
                   received, stops, accepted, excused>>

(* transmit after the insert: one push. A closed queue ends the loop over  *)
(* the transmissions, whose rows stay.                                     *)
PushNext(l) ==
    /\ loop[l] = "push"
    /\ batch' = [batch EXCEPT ![l] = IF Closed THEN <<>> ELSE Tail(@)]
    /\ loop' = [loop EXCEPT ![l] = IF batch'[l] = <<>> THEN "select" ELSE @]
    /\ IF Closed THEN UNCHANGED <<queue, deleteQueue, orphaned, excused, worker>>
                 ELSE Push(Head(batch[l]), worker)
    /\ UNCHANGED <<phase, commitCh, flusher, pruner, rows, received, stops, accepted>>

(* The select sees the cancelled context. Only a full batch would still be *)
(* committed, and a full batch is never kept (ReceiveTransmission).        *)
StopLoop(l) ==
    /\ loop[l] = "select" /\ Stopped /\ Len(batch[l]) < BatchSize
    /\ loop' = [loop EXCEPT ![l] = "exited"]
    /\ batch' = [batch EXCEPT ![l] = <<>>]
    /\ UNCHANGED <<phase, commitCh, queue, worker, deleteQueue, flusher, pruner,
                   rows, received, stops, accepted, excused, orphaned>>

-----------------------------------------------------------------------------
(* server.go: a transmit loop.                                             *)

(* BlockingPop: nil when closed; wait when empty; else the latest round.   *)
(* A capability trigger is not for the servers and is deleted.             *)
BlockingPop(w) ==
    /\ phase # "down" /\ worker[w].pc = "idle"
    /\ \/ /\ Closed
          /\ worker' = [worker EXCEPT ![w].pc = "exited"]
          /\ UNCHANGED <<queue, deleteQueue, orphaned, excused>>
       \/ /\ ~Closed /\ queue[w[1]] = {}
          /\ worker' = [worker EXCEPT ![w].pc = "waiting"]
          /\ UNCHANGED <<queue, deleteQueue, orphaned, excused>>
       \/ /\ ~Closed
          /\ \E t \in Latest(queue[w[1]]) :
                /\ queue' = [queue EXCEPT ![w[1]] = @ \ {t}]
                /\ IF format(t) = "capability"
                   THEN /\ AddToDeleteQueue(w[1], <<t>>)
                        /\ excused' = excused \cup {t}
                        /\ UNCHANGED worker
                   ELSE /\ worker' = [worker EXCEPT ![w] = [pc |-> "sending", t |-> t]]
                        /\ UNCHANGED <<deleteQueue, orphaned, excused>>
    /\ UNCHANGED <<phase, commitCh, loop, batch, flusher, pruner, rows, received, stops, accepted>>

(* The server gets the request; it could be packed.                        *)
ServerReceives(w) ==
    /\ worker[w].pc = "sending" /\ format(worker[w].t) = "packable"
    /\ received' = received \cup {worker[w].t}
    /\ UNCHANGED <<phase, memory, rows, stops, accepted, excused, orphaned>>

(* A response, be it success, duplicate or error: the server has confirmed *)
(* that it received the report, so it is deleted. ctx.Err is checked first.*)
Answered(w) ==
    LET t == worker[w].t
    IN /\ worker[w].pc = "sending" /\ t \in received /\ ~Stopped
       /\ AddToDeleteQueue(w[1], <<t>>)
       /\ worker' = [worker EXCEPT ![w] = [pc |-> "idle", t |-> None]]
       /\ UNCHANGED <<phase, commitCh, loop, batch, queue, flusher, pruner,
                      rows, received, stops, accepted, excused>>

(* Mutant: a failed transmission is given up.                               *)
ForgetfulFailed(w) ==
    LET t == worker[w].t
    IN /\ worker[w].pc = "sending" /\ ~Stopped
       /\ AddToDeleteQueue(w[1], <<t>>)
       /\ worker' = [worker EXCEPT ![w] = [pc |-> "backoff", t |-> None]]
       /\ UNCHANGED <<phase, commitCh, loop, batch, queue, flusher, pruner, rows, received,
                      stops, accepted, excused>>

(* No response, for a network error, a timeout or a format that cannot be  *)
(* packed: back into the queue, then wait. A closed queue ends the loop.   *)
Failed(w) ==
    LET t == worker[w].t
    IN /\ worker[w].pc = "sending" /\ ~Stopped
       /\ IF Closed
          THEN /\ worker' = [worker EXCEPT ![w] = [pc |-> "exited", t |-> None]]
               /\ UNCHANGED <<queue, deleteQueue, orphaned, excused>>
          ELSE Push(t, [worker EXCEPT ![w] = [pc |-> "backoff", t |-> None]])
       /\ UNCHANGED <<phase, commitCh, loop, batch, flusher, pruner, rows, received,
                      stops, accepted>>

(* The call returns after the context was cancelled: the loop ends.        *)
SendCancelled(w) ==
    /\ worker[w].pc = "sending" /\ Stopped
    /\ worker' = [worker EXCEPT ![w] = [pc |-> "exited", t |-> None]]
    /\ UNCHANGED <<phase, commitCh, loop, batch, queue, deleteQueue, flusher, pruner,
                   rows, received, stops, accepted, excused, orphaned>>

(* The wait after a failure ends, by time or by stopCh.                    *)
Backoff(w) ==
    /\ worker[w].pc = "backoff"
    /\ \/ worker' = [worker EXCEPT ![w].pc = "idle"]
       \/ Stopped /\ worker' = [worker EXCEPT ![w].pc = "exited"]
    /\ UNCHANGED <<phase, commitCh, loop, batch, queue, deleteQueue, flusher, pruner,
                   rows, received, stops, accepted, excused, orphaned>>

-----------------------------------------------------------------------------
(* persistence_manager.go: the flush and prune loops.                      *)

(* resetDeleteQueue on a tick: the flush loop takes all hashes.            *)
FlushTick(s) ==
    /\ phase # "down" /\ flusher[s].pc = "idle" /\ deleteQueue[s] # <<>>
    /\ flusher' = [flusher EXCEPT ![s] = [pc |-> "deleting", hashes |-> deleteQueue[s]]]
    /\ deleteQueue' = [deleteQueue EXCEPT ![s] = <<>>]
    /\ UNCHANGED <<phase, commitCh, loop, batch, queue, worker, pruner,
                   rows, received, stops, accepted, excused, orphaned>>

(* deleteTransmissions: one batch.                                         *)
DeleteBatch(s) ==
    LET f == flusher[s]
        n == IF Len(f.hashes) < DeleteBatchSize THEN Len(f.hashes) ELSE DeleteBatchSize
        rest == SubSeq(f.hashes, n + 1, Len(f.hashes))
    IN /\ f.pc \in {"deleting", "final"}
       /\ Delete(Elements(SubSeq(f.hashes, 1, n)))
       /\ flusher' = [flusher EXCEPT ![s] =
            [pc |-> IF rest # <<>> THEN f.pc
                    ELSE IF f.pc = "final" THEN "exited" ELSE "idle",
             hashes |-> rest]]
       /\ UNCHANGED <<phase, commitCh, loop, batch, queue, worker, deleteQueue, pruner,
                      received, stops, accepted, excused, orphaned>>

(* deleteTransmissions gives up: a delete failed and its context is done,  *)
(* cancelled by Close or, for the final effort, out of time. What is left  *)
(* goes back into the delete queue.                                        *)
DeleteGivesUp(s) ==
    LET f == flusher[s]
    IN /\ f.pc \in {"deleting", "final"} /\ PmStopped
       /\ AddToDeleteQueue(s, f.hashes)
       /\ flusher' = [flusher EXCEPT ![s] =
            [pc |-> IF f.pc = "final" THEN "exited" ELSE "idle", hashes |-> <<>>]]
       /\ UNCHANGED <<phase, commitCh, loop, batch, queue, worker, pruner,
                      rows, received, stops, accepted, excused>>

(* The flush loop sees stopCh: a final effort on what is queued.           *)
FlushStop(s) ==
    /\ flusher[s].pc = "idle" /\ PmStopped
    /\ flusher' = [flusher EXCEPT ![s] =
        [pc |-> IF deleteQueue[s] = <<>> THEN "exited" ELSE "final", hashes |-> deleteQueue[s]]]
    /\ deleteQueue' = [deleteQueue EXCEPT ![s] = <<>>]
    /\ UNCHANGED <<phase, commitCh, loop, batch, queue, worker, pruner,
                   rows, received, stops, accepted, excused, orphaned>>

(* The prune loop, on a tick or, at the end, for the last time: look for   *)
(* the oldest round to keep. Without one there is nothing to do.           *)
PruneLook(s) ==
    /\ phase # "down" /\ pruner[s].pc = "idle"
    /\ IF OldestKept(s) = {}
       THEN /\ PmStopped
            /\ pruner' = [pruner EXCEPT ![s].pc = "exited"]
       ELSE \E o \in OldestKept(s) :
                pruner' = [pruner EXCEPT ![s] = [pc |-> "pruning", oldest |-> o, last |-> PmStopped]]
    /\ UNCHANGED <<phase, commitCh, loop, batch, queue, worker, deleteQueue, flusher,
                   rows, received, stops, accepted, excused, orphaned>>

(* Rows may have come and gone since. The flush loop can hold the locks of *)
(* the rows that it is deleting.                                           *)
PruneDelete(s) ==
    /\ pruner[s].pc = "pruning"
    /\ \E locked \in {{}, Elements(flusher[s].hashes)} :
       \E old \in Pruned(s, pruner[s].oldest, locked) :
        /\ Delete(old)
        /\ excused' = excused \cup old
    /\ pruner' = [pruner EXCEPT ![s] =
        [pc |-> IF @.last THEN "exited" ELSE "idle", oldest |-> 0, last |-> FALSE]]
    /\ UNCHANGED <<phase, commitCh, loop, batch, queue, worker, deleteQueue, flusher,
                   received, stops, accepted, orphaned>>

(* A database error, possibly after some of the deletes.                   *)
PruneFails(s) ==
    /\ pruner[s].pc = "pruning"
    /\ \E old \in SUBSET {t \in For(s, rows) : seqNr(t) < pruner[s].oldest} :
        /\ Delete(old)
        /\ excused' = excused \cup old
    /\ pruner' = [pruner EXCEPT ![s] =
        [pc |-> IF @.last THEN "failed" ELSE "idle", oldest |-> 0, last |-> FALSE]]
    /\ UNCHANGED <<phase, commitCh, loop, batch, queue, worker, deleteQueue, flusher,
                   received, stops, accepted, orphaned>>

-----------------------------------------------------------------------------
(* transmitter.go: the life cycle.                                         *)

(* newTransmitter: all goroutines at their start, nothing in memory.       *)
Fresh ==
    [loop        |-> [l \in Loops |-> "select"],
     batch       |-> [l \in Loops |-> <<>>],
     queue       |-> [s \in Servers |-> {}],
     worker      |-> [w \in Workers |-> [pc |-> "idle", t |-> None]],
     deleteQueue |-> [s \in Servers |-> <<>>],
     flusher     |-> [s \in Servers |-> [pc |-> "idle", hashes |-> <<>>]],
     pruner      |-> [s \in Servers |-> [pc |-> "idle", oldest |-> 0, last |-> FALSE]]]

(* queue.Init: refuses more than the queue can hold.                       *)
InitQueue(loaded) == Cardinality(loaded) <= TransmitQueueMaxSize

(* Start: every server's queue is filled from the table. When a load or an *)
(* Init fails the process stays down.                                      *)
Start ==
    /\ phase = "down"
    /\ \E loaded \in [Servers -> SUBSET rows] :
        /\ \A s \in Servers : loaded[s] \in Get(s) /\ InitQueue(loaded[s])
        /\ queue' = loaded
        /\ orphaned' = rows \ UNION {loaded[s] : s \in Servers}
    /\ phase' = "up"
    /\ UNCHANGED <<commitCh, loop, batch, worker, deleteQueue, flusher, pruner,
                   rows, received, stops, accepted, excused>>

(* Mutant: waiting loops are not woken.                                     *)
QuietCloseQueues ==
    /\ phase = "up" /\ stops < MaxStops
    /\ phase' = "queuesClosed"
    /\ UNCHANGED <<memory, rows, received, stops, accepted, excused, orphaned>>

(* Close, first part: close the queues and wake every waiting loop.        *)
CloseQueues ==
    /\ phase = "up" /\ stops < MaxStops
    /\ phase' = "queuesClosed"
    /\ worker' = [w \in Workers |->
        IF worker[w].pc = "waiting" THEN [worker[w] EXCEPT !.pc = "idle"] ELSE worker[w]]
    /\ UNCHANGED <<commitCh, loop, batch, queue, deleteQueue, flusher, pruner,
                   rows, received, stops, accepted, excused, orphaned>>

(* Then close stopCh ...                                                   *)
CloseStopCh ==
    /\ phase = "queuesClosed"
    /\ phase' = "stopping"
    /\ UNCHANGED <<memory, rows, received, stops, accepted, excused, orphaned>>

(* Mutant: Close does not wait for the loops.                               *)
NoWait == TRUE

(* ... wait for the commit and transmit loops ...                          *)
LoopsDone == (\A l \in Loops : loop[l] = "exited") /\ (\A w \in Workers : worker[w].pc = "exited")

(* ... and close the persistence managers, which clean up what is left.    *)
ClosePersistence ==
    /\ phase = "stopping" /\ LoopsDone
    /\ phase' = "closing"
    /\ UNCHANGED <<memory, rows, received, stops, accepted, excused, orphaned>>

PersistenceDone ==
    \A s \in Servers : flusher[s].pc = "exited" /\ pruner[s].pc \in {"exited", "failed"}

(* The process ends, regularly or by a crash; only the table survives.     *)
Down ==
    /\ \/ phase = "closing" /\ PersistenceDone
       \/ phase # "down" /\ stops < MaxStops
    /\ phase' = "down"
    /\ stops' = IF stops < MaxStops THEN stops + 1 ELSE stops
    /\ commitCh' = <<>> /\ loop' = Fresh.loop /\ batch' = Fresh.batch
    /\ queue' = Fresh.queue /\ worker' = Fresh.worker /\ deleteQueue' = Fresh.deleteQueue
    /\ flusher' = Fresh.flusher /\ pruner' = Fresh.pruner
    /\ UNCHANGED <<rows, received, accepted, excused, orphaned>>

Init ==
    /\ phase = "down" /\ commitCh = <<>>
    /\ loop = Fresh.loop /\ batch = Fresh.batch /\ queue = Fresh.queue
    /\ worker = Fresh.worker /\ deleteQueue = Fresh.deleteQueue
    /\ flusher = Fresh.flusher /\ pruner = Fresh.pruner
    /\ rows = {} /\ received = {} /\ stops = 0
    /\ accepted = {} /\ excused = {} /\ orphaned = {}

Next ==
    \/ \E r \in Reports, S \in SUBSET Servers : Transmit(r, S)
    \/ \E l \in Loops : \/ ReceiveTransmission(l) \/ CommitTick(l) \/ InsertBatch(l)
                        \/ PushNext(l) \/ StopLoop(l)
    \/ \E w \in Workers : \/ BlockingPop(w) \/ ServerReceives(w) \/ Answered(w)
                          \/ Failed(w) \/ SendCancelled(w) \/ Backoff(w)
    \/ \E s \in Servers : \/ FlushTick(s) \/ DeleteBatch(s) \/ DeleteGivesUp(s) \/ FlushStop(s)
                          \/ PruneLook(s) \/ PruneDelete(s) \/ PruneFails(s)
    \/ Start \/ CloseQueues \/ CloseStopCh \/ ClosePersistence \/ Down

(* Goroutines that can run do. A server that is asked again and again      *)
(* receives and answers one day, an operator restarts the process, and     *)
(* Close goes on as soon as what it waits for has happened.                *)
Fairness ==
    /\ WF_vars(Start \/ CloseStopCh \/ ClosePersistence \/ (phase = "closing" /\ Down))
    /\ \A l \in Loops : WF_vars(CommitTick(l) \/ InsertBatch(l) \/ PushNext(l) \/ StopLoop(l))
    /\ \A w \in Workers :
        /\ WF_vars(BlockingPop(w) \/ Backoff(w) \/ Failed(w) \/ Answered(w) \/ SendCancelled(w))
        /\ SF_vars(ServerReceives(w)) /\ SF_vars(Answered(w))
    /\ \A s \in Servers : /\ WF_vars(FlushStop(s) \/ DeleteBatch(s) \/ DeleteGivesUp(s))
                          /\ WF_vars(PruneLook(s) \/ PruneDelete(s) \/ PruneFails(s))

Spec == Init /\ [][Next]_vars /\ Fairness

-----------------------------------------------------------------------------
(* Properties.                                                             *)

InFlight == {worker[w].t : w \in {v \in Workers : worker[v].pc = "sending"}}
Pushing == UNION {Elements(batch[l]) : l \in {k \in Loops : loop[k] = "push"}}
ToDelete == UNION {Elements(deleteQueue[s]) \cup Elements(flusher[s].hashes) : s \in Servers}

(* While the transmitter runs, every row of the table is somebody's to     *)
(* deal with: it is queued, about to be pushed, being sent, or waits for   *)
(* its deletion (queue.go:109-120 hands evicted ones over, server.go:265   *)
(* sent ones). The exceptions are rows that an insert left although it     *)
(* failed, rows that Start did not load, and hashes that did not fit into  *)
(* the delete queue. So the table does not fill up with forgotten rows.    *)
RowsAccountedFor ==
    phase = "up" => rows \subseteq (UNION {queue[s] : s \in Servers})
                                   \cup Pushing \cup InFlight \cup ToDelete \cup orphaned

(* After a Close() whose last pruning worked, the table has at most the    *)
(* configured number of rows for each server, besides those in the delete  *)
(* queue, whatever the commit loops inserted while the transmitter was     *)
(* closing: transmitter.go:298-302 relies on the persistence manager.      *)
CloseTruncates ==
    \A s \in Servers :
        pruner[s].pc = "exited" => Cardinality(For(s, rows) \ (ToDelete \cup orphaned)) <= MaxRows

(* Close() returns: no loop is left waiting for a queue that will not be   *)
(* filled any more, and nobody waits for a server that does not answer.    *)
CloseReturns == (phase = "queuesClosed") ~> (phase = "down")

(* A report that was stored reaches its server in the end, over crashes    *)
(* and restarts, failed calls and other reports: unless it was evicted,    *)
(* pruned or orphaned, or a report that can never be packed is in front of *)
(* it for ever.                                                            *)
Deliverable ==
    {t \in Transmission : /\ format(t) = "packable"
                          /\ \A r \in Reports : Format[r] = "unknown" => SeqNr[r] < seqNr(t)}

StoredIsDelivered ==
    \A t \in Deliverable : (t \in rows) ~> (t \in received \cup excused \cup orphaned)

(* The at-least-once contract of Delivery: a row goes only when the server *)
(* has its report, or the report was given up.                             *)
Contract == INSTANCE Delivery WITH kept <- rows

DeliversAtLeastOnce == Contract!Spec
=============================================================================
