--------------------------- MODULE MercuryTransmit ---------------------------
(***************************************************************************)
(* The Mercury transmitter of one feed (mercury/transmitter.go), its queue *)
(* (queue.go), persistence manager (persistence_manager.go) and tables     *)
(* (orm.go). The servers of a transmitter share only the insert, which is  *)
(* one statement for all of them: the module follows one server.           *)
(*                                                                         *)
(* A request is its position among the requests in the order of epoch and  *)
(* round; payloads and signatures are left out.                            *)
(***************************************************************************)
EXTENDS Common, FiniteSets, Sequences

CONSTANTS
    ReportCtx,              \* the epoch and round of every request, in their order
    MercuryQueueMaxSize,    \* TransmitQueueMaxSize: of the queue, the channel and the table
    MaxMercuryRestarts

ASSUME TransmitAssumption ==
    ReportCtx \in Seq(Nat \X Nat) /\ MercuryQueueMaxSize \in Nat /\ MaxMercuryRestarts \in Nat

Requests == DOMAIN ReportCtx

VARIABLE relay
(* relay.table    the rows of mercury_transmit_requests                    *)
(*      .calls    how far the call of Transmit for each request is         *)
(*      .service  "down", "up", "closing", "stopping"                      *)
(*      .queue    the priority queue, .sending what was popped, 0 if none  *)
(*      .toDelete the channel deleteQueue, .deleting what its loop holds   *)
(*      .evicted  deleteQueue of the persistence manager,                  *)
(*                .flushing the part of it being deleted                   *)
(*      .loops    the server's goroutines that run                         *)
(*      .settled  what the server has, or was evicted or pruned            *)
(*      .restarts how often the node may still come up again               *)

-----------------------------------------------------------------------------
(* The order of the queue. Less asks for a greater epoch and a greater     *)
(* round, so many requests are not ordered. Which of them Pop and PopMax   *)
(* give depends on the layout of the heap: any one.                        *)

Less(r, s) == ReportCtx[r][1] > ReportCtx[s][1] /\ ReportCtx[r][2] > ReportCtx[s][2]

Latest(q) == {r \in q : ~ \E s \in q : Less(s, r)}
Oldest(q) == {r \in q : ~ \E s \in q : Less(r, s)}

(* The states after a push into an open queue. The length is compared with *)
(* the maximum for equality: a queue that was loaded longer is not cut.    *)
Pushed(m, r) ==
    IF Cardinality(m.queue) = MercuryQueueMaxSize
    THEN {[m EXCEPT !.queue = (@ \ {old}) \cup {r}, !.evicted = @ \cup {old},
                    !.settled = @ \cup {old}] : old \in Oldest(m.queue)}
    ELSE {[m EXCEPT !.queue = @ \cup {r}]}

-----------------------------------------------------------------------------
(* Transmit: one insert, then a push.                                      *)

(* Two statements run side by side and each may fail: an error of either   *)
(* ends the call. The table of the second, feed_latest_reports, is read by *)
(* nothing and left out.                                                   *)
InsertTransmitRequest(r) ==
    \E row, feed \in BOOLEAN :
      /\ relay.service # "down" /\ relay.calls[r] = "new"
      /\ relay' = [relay EXCEPT
           !.table = IF row THEN @ \cup {r} ELSE @,
           !.calls[r] = IF row /\ feed THEN "stored" ELSE "failed"]

Open == relay.service = "up"

Push(r) ==
    /\ relay.service # "down" /\ relay.calls[r] = "stored"
    /\ LET ended == [relay EXCEPT !.calls[r] = "done"]
       IN IF Open THEN relay' \in Pushed(ended, r) ELSE relay' = ended

-----------------------------------------------------------------------------
(* runQueueLoop.                                                           *)

BlockingPop ==
    /\ "send" \in relay.loops /\ relay.sending = 0
    /\ IF Open
       THEN \E r \in Latest(relay.queue) :
              relay' = [relay EXCEPT !.queue = @ \ {r}, !.sending = r]
       ELSE relay' = [relay EXCEPT !.loops = @ \ {"send"}]

Stopping == relay.service = "stopping"

(* Mutant: a failed send is not queued again.                              *)
ForgetFailed(sent) ==
    relay' = [sent EXCEPT !.loops = IF Open THEN @ ELSE @ \ {"send"}]

(* A failed send goes back into the queue, unless that is closed.          *)
Requeue(sent) ==
    IF Open THEN relay' \in Pushed(sent, relay.sending)
    ELSE relay' = [sent EXCEPT !.loops = @ \ {"send"}]

(* What the server answered needs no retry, also when it answered with an  *)
(* error. A full delete channel drops the request: its row stays.          *)
Answered(sent) ==
    relay' = IF Cardinality(relay.toDelete) < MercuryQueueMaxSize
             THEN [sent EXCEPT !.toDelete = @ \cup {relay.sending}] ELSE sent

(* A send may fail although the server has the report. After a stop the    *)
(* loop ends and leaves the request to the next start.                     *)
SendTransmission ==
    \E received, answered \in BOOLEAN :
      LET sent == [relay EXCEPT !.sending = 0,
                                !.settled = IF received THEN @ \cup {relay.sending} ELSE @]
      IN /\ relay.sending # 0 /\ (answered => received)
         /\ IF Stopping THEN relay' = [sent EXCEPT !.loops = @ \ {"send"}]
            ELSE IF answered THEN Answered(sent) ELSE Requeue(sent)

-----------------------------------------------------------------------------
(* Deletion: runDeleteQueueLoop, and the loops of the persistence manager. *)

TakeDelete ==
    /\ "delete" \in relay.loops /\ relay.deleting = 0
    /\ \E r \in relay.toDelete :
         relay' = [relay EXCEPT !.toDelete = @ \ {r}, !.deleting = r]

(* Deleting is tried again until it works.                                 *)
DeleteSucceeds ==
    /\ "delete" \in relay.loops /\ relay.deleting # 0
    /\ relay' = [relay EXCEPT !.table = @ \ {relay.deleting}, !.deleting = 0]

DeleteLoopStops ==
    /\ Stopping /\ "delete" \in relay.loops
    /\ relay' = [relay EXCEPT !.loops = @ \ {"delete"}, !.deleting = 0]

ResetDeleteQueue ==
    /\ relay.service # "down" /\ relay.flushing = {} /\ relay.evicted # {}
    /\ relay' = [relay EXCEPT !.flushing = relay.evicted, !.evicted = {}]

FlushDeletes ==
    /\ relay.flushing # {}
    /\ \E ok \in BOOLEAN :
         relay' = IF ok THEN [relay EXCEPT !.table = @ \ relay.flushing, !.flushing = {}]
                  ELSE [relay EXCEPT !.evicted = @ \cup relay.flushing, !.flushing = {}]

(* The newest MercuryQueueMaxSize rows stay.                               *)
Kept(rows) == {r \in rows : Cardinality({s \in rows : s >= r}) <= MercuryQueueMaxSize}

PruneTransmitRequests ==
    /\ relay.service # "down" /\ relay.table # Kept(relay.table)
    /\ relay' = [relay EXCEPT !.table = Kept(@), !.settled = @ \cup (relay.table \ Kept(relay.table))]

-----------------------------------------------------------------------------
(* Start, Close and a crash.                                               *)

(* The queue gets every row of the table, however many there are.          *)
StartRelay ==
    /\ relay.service = "down" /\ relay.restarts > 0
    /\ relay' = [relay EXCEPT !.service = "up", !.queue = relay.table,
                              !.loops = {"send", "delete"}, !.restarts = @ - 1]

(* Close closes the queue, then the stop channel, then waits for both      *)
(* goroutines and for the persistence manager, which ends between flushes. *)
CloseQueue == Open /\ relay' = [relay EXCEPT !.service = "closing"]

StopRelay == relay.service = "closing" /\ relay' = [relay EXCEPT !.service = "stopping"]

(* What is in memory only is gone; a call of Transmit in progress too.     *)
Downed ==
    [relay EXCEPT !.service = "down", !.queue = {}, !.sending = 0, !.toDelete = {}, !.deleting = 0,
                  !.evicted = {}, !.flushing = {}, !.loops = {},
                  !.calls = [r \in Requests |-> IF @[r] = "stored" THEN "done" ELSE @[r]]]

CloseReturns == Stopping /\ relay.loops = {} /\ relay.flushing = {} /\ relay' = Downed

CrashRelay == relay.service # "down" /\ relay.restarts > 0 /\ relay' = Downed

-----------------------------------------------------------------------------
RelayInit ==
    relay = [table |-> {}, calls |-> [r \in Requests |-> "new"], service |-> "up",
             queue |-> {}, sending |-> 0, toDelete |-> {}, deleting |-> 0, evicted |-> {},
             flushing |-> {}, loops |-> {"send", "delete"}, settled |-> {},
             restarts |-> MaxMercuryRestarts]

RelayNext ==
    /\ relay # Absent
    /\ \/ \E r \in Requests : InsertTransmitRequest(r) \/ Push(r)
       \/ BlockingPop \/ SendTransmission
       \/ TakeDelete \/ DeleteSucceeds \/ DeleteLoopStops
       \/ ResetDeleteQueue \/ FlushDeletes \/ PruneTransmitRequests
       \/ StartRelay \/ CloseQueue \/ StopRelay \/ CloseReturns \/ CrashRelay

KeepsUndelivered(r) ==
    /\ relay.calls[r] \in {"stored", "done"} => r \in relay.table
    /\ (Open /\ r \in relay.table) =>
          r \in relay.queue \cup {relay.sending} \/ relay.calls[r] \in {"stored", "failed"}

(* The relay loses no request by itself. One that Transmit stored keeps    *)
(* its row until the server has it or the bound of the queue or of the     *)
(* table pushed it out, through failed sends, deletes and flushes, closes  *)
(* and crashes. And in a running transmitter no row is forgotten: it waits *)
(* in the queue, is being sent, or will be pushed by its call, unless the  *)
(* server has it or it was pushed out.                                     *)
RelayKeepsUndelivered ==
    relay # Absent => \A r \in Requests \ relay.settled : KeepsUndelivered(r)
=============================================================================
