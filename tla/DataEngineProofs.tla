--------------------------- MODULE DataEngineProofs ---------------------------
(***************************************************************************)
(* The data engine transmitter keeps its at-least-once contract, for any   *)
(* numbers of servers, reports and loops, any sizes of queues, and any     *)
(* number of crashes: DataEngine implements Delivery. No row is left that  *)
(* nobody has in hand, and a clean close leaves no more rows than the      *)
(* limit.                                                                  *)
(***************************************************************************)
EXTENDS DataEngine, FiniteSetTheorems, SequenceTheorems, TLAPS

-----------------------------------------------------------------------------
(* Sequences and their elements.                                           *)

LEMMA SeqOfElements ==
    ASSUME NEW T, NEW s \in Seq(T), NEW X, Elements(s) \subseteq X
    PROVE  s \in Seq(X)
<1>1. s \in [1 .. Len(s) -> X] /\ Len(s) \in Nat
  BY LenProperties, Zenon DEF Elements
<1> QED BY <1>1, SeqDef

LEMMA ElementsOfSeq ==
    ASSUME NEW T, NEW s \in Seq(T)
    PROVE  Elements(s) \subseteq T
BY ElementOfSeq, Zenon DEF Elements

LEMMA SubSeqType ==
    ASSUME NEW T, NEW s \in Seq(T), NEW m \in Nat \ {0}, NEW n \in Nat, n <= Len(s)
    PROVE  SubSeq(s, m, n) \in Seq(T)
<1>1. \A i \in m .. n : s[i] \in T
  BY ElementOfSeq, LenProperties
<1> QED BY <1>1, SubSeqProperties

LEMMA FiniteTransmission == IsFiniteSet(Transmission)
<1> DEFINE P == Servers \X Reports
           f == [p \in P |-> [server |-> p[1], report |-> p[2]]]
<1>1. IsFiniteSet(P)
  BY DataEngineAssumption, FS_Product, Zenon
<1>2. f \in [P -> Transmission]
  BY Zenon DEF Transmission
<1>3. ASSUME NEW t \in Transmission PROVE \E p \in P : f[p] = t
  <2>1. <<t.server, t.report>> \in P /\ t = [server |-> t.server, report |-> t.report]
    BY Zenon DEF Transmission
  <2> QED BY <2>1, Zenon
<1>4. f \in Surjection(P, Transmission)
  BY <1>2, <1>3, Zenon DEF Surjection
<1> QED BY <1>1, <1>4, FS_Surjection, Zenon

-----------------------------------------------------------------------------
(* The inductive invariant. What may be deleted has been received or given *)
(* up; what is on its way was stored before, and is kept until then.       *)

Settled == received \cup excused
Known == rows \cup Settled

WorkerPc == {"idle", "waiting", "sending", "backoff", "exited"}
WorkersHold(ws, T) ==
    /\ ws \in [Workers -> [pc : WorkerPc, t : T \cup {None}]]
    /\ \A w \in Workers : ws[w].pc = "sending" => ws[w].t \in T

TableInv == rows \subseteq Transmission /\ received \subseteq Transmission /\ excused \subseteq Transmission

CommitInv(T) ==
    /\ commitCh \in Seq(Transmission)
    /\ loop \in [Loops -> {"select", "insert", "push", "exited"}]
    /\ batch \in [Loops -> Seq(Transmission)]
    /\ \A l \in Loops : loop[l] \in {"insert", "push"} => batch[l] # <<>>
    /\ \A l \in Loops : loop[l] = "push" => batch[l] \in Seq(T)

QueueInv(T) == queue \in [Servers -> SUBSET T]

DeleteInv(T) ==
    /\ deleteQueue \in [Servers -> Seq(T)]
    /\ flusher \in [Servers -> [pc : {"idle", "deleting", "final", "exited"}, hashes : Seq(T)]]

DeliveryInv ==
    /\ TableInv /\ CommitInv(Known) /\ QueueInv(Known) /\ WorkersHold(worker, Known)
    /\ DeleteInv(Settled)

(* The invariant is about sets that only grow: a step keeps the part that  *)
(* is about variables it does not change.                                  *)
Grows == Known \subseteq Known' /\ Settled \subseteq Settled'

LEMMA CommitFrame ==
    ASSUME DeliveryInv, Grows, UNCHANGED <<commitCh, loop, batch>>
    PROVE  CommitInv(Known)'
BY SeqMonotonic, Zenon DEF CommitInv, DeliveryInv, Grows

LEMMA QueueFrame ==
    ASSUME DeliveryInv, Grows, UNCHANGED queue
    PROVE  QueueInv(Known)'
BY Zenon DEF QueueInv, DeliveryInv, Grows

LEMMA WorkersFrame ==
    ASSUME DeliveryInv, Grows, UNCHANGED worker
    PROVE  WorkersHold(worker, Known)'
BY Zenon DEF WorkersHold, DeliveryInv, Grows

LEMMA DeleteFrame ==
    ASSUME DeliveryInv, Grows, UNCHANGED <<deleteQueue, flusher>>
    PROVE  DeleteInv(Settled)'
<1>1. ASSUME NEW s \in Servers
      PROVE  deleteQueue[s] \in Seq(Settled') /\ flusher[s].hashes \in Seq(Settled')
  BY SeqMonotonic, Zenon DEF DeleteInv, DeliveryInv, Grows
<1> QED BY <1>1, Zenon DEF DeleteInv, DeliveryInv

LEMMA SettledGrows ==
    ASSUME UNCHANGED rows, UNCHANGED received, excused \subseteq excused'
    PROVE  Grows
BY Zenon DEF Grows, Known, Settled

(* addToDeleteQueue: the queue keeps a part of what it had and got.        *)
LEMMA DeleteQueueType ==
    ASSUME DeliveryInv, Grows, NEW s \in Servers, NEW hashes \in Seq(Settled'),
           AddToDeleteQueue(s, hashes)
    PROVE  deleteQueue' \in [Servers -> Seq(Settled')]
<1> DEFINE all == deleteQueue[s] \o hashes
           kept == SubSeq(all, Excess(all) + 1, Len(all))
<1>1. \A u \in Servers : deleteQueue[u] \in Seq(Settled')
  BY SeqMonotonic, Zenon DEF DeleteInv, DeliveryInv, Grows
<1>2. all \in Seq(Settled') /\ Len(all) \in Nat
  BY <1>1, ConcatProperties, LenProperties, Zenon
<1> HIDE DEF all
<1>3. Excess(all) + 1 \in Nat \ {0}
  BY <1>2, DataEngineAssumption DEF Excess
<1>4. kept \in Seq(Settled')
  BY <1>2, <1>3, SubSeqType
<1>5. deleteQueue' = [deleteQueue EXCEPT ![s] = kept]
  BY Zenon DEF AddToDeleteQueue, all
<1> HIDE DEF kept
<1> QED BY <1>1, <1>4, <1>5, Zenon DEF DeleteInv, DeliveryInv

LEMMA EvictionType ==
    ASSUME NEW Q \in SUBSET Transmission, NEW e \in Evictions(Q)
    PROVE  e \in Seq(Q) /\ Elements(e) \subseteq Q
<1>1. Cardinality(Q) \in Nat
  BY FiniteTransmission, FS_Subset, FS_CardinalityType, Zenon
<1>2. Overflow(Q) \in Nat
  BY <1>1, DataEngineAssumption DEF Overflow
<1>3. e \in [1 .. Overflow(Q) -> Q]
  BY Zenon DEF Evictions
<1>4. e \in Seq(Q)
  BY <1>2, <1>3, SeqDef
<1> QED BY <1>4, ElementsOfSeq, Zenon

(* Signal moves a waiting loop.                                            *)
LEMMA SignalledHold ==
    ASSUME NEW T, NEW ws, WorkersHold(ws, T), NEW s, NEW after \in Signalled(ws, s)
    PROVE  WorkersHold(after, T)
BY DEF Signalled, WorkersHold, WorkerPc

LEMMA PushKeepsInv ==
    ASSUME DeliveryInv, NEW t \in Known, NEW ws, WorkersHold(ws, Known),
           Push(t, ws), UNCHANGED <<rows, received>>
    PROVE  /\ Grows /\ excused \subseteq excused' /\ TableInv'
           /\ QueueInv(Known)' /\ WorkersHold(worker, Known)'
           /\ deleteQueue' \in [Servers -> Seq(Settled')]
<1>1. t \in Transmission /\ t.server \in Servers
  BY Zenon DEF DeliveryInv, TableInv, Known, Settled, Transmission
<1> DEFINE Q == queue[t.server]
<1>2. Q \in SUBSET Known /\ Q \in SUBSET Transmission
  BY <1>1, Zenon DEF DeliveryInv, QueueInv, TableInv, Known, Settled
<1>3. PICK e \in Evictions(Q) :
        /\ queue' = [queue EXCEPT ![t.server] = (@ \ Elements(e)) \cup {t}]
        /\ AddToDeleteQueue(t.server, e)
        /\ excused' = excused \cup Elements(e)
        /\ worker' \in Signalled(ws, t.server)
  BY Zenon DEF Push
<1>4. e \in Seq(Q) /\ Elements(e) \subseteq Q
  BY <1>2, <1>3, EvictionType, Zenon
<1>5. Grows /\ excused \subseteq excused'
  BY <1>3, SettledGrows, Zenon
<1>6. TableInv'
  BY <1>2, <1>3, <1>4, Zenon DEF TableInv, DeliveryInv
<1>7. QueueInv(Known)'
  BY <1>3, <1>5, Zenon DEF QueueInv, DeliveryInv, Grows
<1>8. WorkersHold(worker', Known)
  BY <1>3, SignalledHold, Zenon
<1>9. WorkersHold(worker, Known)'
  BY <1>5, <1>8, Zenon DEF WorkersHold, Grows
<1>10. e \in Seq(Settled')
  BY <1>3, <1>4, SeqOfElements, Zenon DEF Settled
<1>11. deleteQueue' \in [Servers -> Seq(Settled')]
  BY <1>1, <1>3, <1>5, <1>10, DeleteQueueType, Zenon
<1> QED BY <1>5, <1>6, <1>7, <1>9, <1>11, Zenon

-----------------------------------------------------------------------------
(* Every step keeps the invariant, and is a step of Delivery or none.      *)

Simulates == [Contract!Next]_<<rows, received, excused>>

LEMMA StillGrows ==
    ASSUME UNCHANGED <<rows, received, excused>>
    PROVE  Grows /\ Simulates
BY Zenon DEF Grows, Known, Settled, Simulates

LEMMA GivingUp ==
    ASSUME UNCHANGED <<rows, received>>, excused \subseteq excused'
    PROVE  Grows /\ Simulates
<1>1. Contract!GiveUp
  BY Zenon DEF Contract!GiveUp
<1> QED BY <1>1, SettledGrows, Zenon DEF Simulates, Contract!Next

LEMMA TransmitStep ==
    ASSUME DeliveryInv, NEW r \in Reports, NEW S \in SUBSET Servers, Transmit(r, S)
    PROVE  DeliveryInv' /\ Simulates
<1>1. Grows /\ Simulates
  BY StillGrows, Zenon DEF Transmit
<1>2. PICK order \in [1 .. Cardinality(S) -> S] :
        commitCh' = commitCh \o [i \in DOMAIN order |-> [server |-> order[i], report |-> r]]
  BY Zenon DEF Transmit
<1> DEFINE ts == [i \in DOMAIN order |-> [server |-> order[i], report |-> r]]
<1>3. Cardinality(S) \in Nat
  BY DataEngineAssumption, FS_Subset, FS_CardinalityType, Zenon
<1>4. ts \in [1 .. Cardinality(S) -> Transmission]
  BY Zenon DEF Transmission
<1>5. ts \in Seq(Transmission)
  BY <1>3, <1>4, SeqDef
<1>6. commitCh' \in Seq(Transmission)
  BY <1>2, <1>5, ConcatProperties, Zenon DEF DeliveryInv, CommitInv
<1>7. CommitInv(Known)'
  BY <1>1, <1>6, SeqMonotonic, Zenon DEF Transmit, DeliveryInv, CommitInv, Grows
<1>8. TableInv'
  BY Zenon DEF Transmit, DeliveryInv, TableInv
<1> QED BY <1>1, <1>7, <1>8, QueueFrame, WorkersFrame, DeleteFrame, Zenon DEF Transmit, DeliveryInv

LEMMA LoopChange ==
    ASSUME DeliveryInv, Grows, NEW l \in Loops, NEW pc \in {"select", "insert", "exited"},
           NEW b \in Seq(Transmission), pc = "insert" => b # <<>>,
           commitCh' \in Seq(Transmission),
           loop' = [loop EXCEPT ![l] = pc], batch' = [batch EXCEPT ![l] = b]
    PROVE  CommitInv(Known)'
<1>1. CommitInv(Known) /\ \A k \in Loops : loop[k] = "push" => batch[k] \in Seq(Known')
  BY SeqMonotonic, Zenon DEF DeliveryInv, CommitInv, Grows
<1>2. loop' \in [Loops -> {"select", "insert", "push", "exited"}] /\ batch' \in [Loops -> Seq(Transmission)]
  BY <1>1, Zenon DEF CommitInv
<1>3. ASSUME NEW k \in Loops
      PROVE  /\ loop'[k] \in {"insert", "push"} => batch'[k] # <<>>
             /\ loop'[k] = "push" => batch'[k] \in Seq(Known')
  <2>1. CASE k = l
    BY <1>1, <2>1, Zenon DEF CommitInv
  <2>2. CASE k # l
    BY <1>1, <2>2, Zenon DEF CommitInv
  <2> QED BY <2>1, <2>2, Zenon
<1> QED BY <1>2, <1>3, Zenon DEF CommitInv

(* The commit loops before they insert.                                    *)
LEMMA CommitStep ==
    ASSUME DeliveryInv, NEW l \in Loops, ReceiveTransmission(l) \/ CommitTick(l) \/ StopLoop(l)
    PROVE  DeliveryInv' /\ Simulates
<1> USE DEF ReceiveTransmission, CommitTick, StopLoop
<1>1. Grows /\ Simulates
  BY StillGrows, Zenon
<1>2. TableInv' /\ QueueInv(Known)' /\ WorkersHold(worker, Known)' /\ DeleteInv(Settled)'
  BY <1>1, QueueFrame, WorkersFrame, DeleteFrame, Zenon DEF DeliveryInv, TableInv
<1>3. CommitInv(Known)
  BY Zenon DEF DeliveryInv
<1>4. CASE ReceiveTransmission(l)
  <2> DEFINE b == Append(batch[l], Head(commitCh))
  <2>1. Head(commitCh) \in Transmission /\ Tail(commitCh) \in Seq(Transmission)
    BY <1>3, <1>4, HeadTailProperties, Zenon DEF CommitInv
  <2>2. b \in Seq(Transmission) /\ b # <<>>
    BY <1>3, <2>1, AppendProperties DEF CommitInv
  <2> HIDE DEF b
  <2>3. commitCh' \in Seq(Transmission)
    BY <1>4, <2>1, Zenon
  <2>4. \/ loop' = [loop EXCEPT ![l] = "insert"] /\ batch' = [batch EXCEPT ![l] = b]
        \/ loop' = [loop EXCEPT ![l] = "select"] /\ batch' = [batch EXCEPT ![l] = <<>>]
        \/ loop' = [loop EXCEPT ![l] = "select"] /\ batch' = [batch EXCEPT ![l] = b]
    BY <1>3, <1>4, Zenon DEF Commit, CommitInv, b
  <2>5. CommitInv(Known)'
    BY <1>1, <2>2, <2>3, <2>4, EmptySeq, LoopChange, Zenon
  <2> QED BY <1>1, <1>2, <2>5, Zenon DEF DeliveryInv
<1>5. CASE CommitTick(l)
  <2>1. \/ loop' = [loop EXCEPT ![l] = "insert"] /\ batch' = [batch EXCEPT ![l] = batch[l]]
        \/ loop' = [loop EXCEPT ![l] = "select"] /\ batch' = [batch EXCEPT ![l] = <<>>]
    BY <1>5, Zenon DEF Commit
  <2>2. CommitInv(Known)'
    BY <1>1, <1>3, <1>5, <2>1, EmptySeq, LoopChange, Zenon DEF CommitInv
  <2> QED BY <1>1, <1>2, <2>2, Zenon DEF DeliveryInv
<1>6. CASE StopLoop(l)
  <2>1. CommitInv(Known)'
    BY <1>1, <1>3, <1>6, EmptySeq, LoopChange, Zenon DEF CommitInv
  <2> QED BY <1>1, <1>2, <2>1, Zenon DEF DeliveryInv
<1> QED BY <1>4, <1>5, <1>6, Zenon

(* The batch is stored before any of it can be sent.                       *)
LEMMA InsertStep ==
    ASSUME DeliveryInv, NEW l \in Loops, InsertBatch(l)
    PROVE  DeliveryInv' /\ Simulates
<1> USE DEF InsertBatch, Insert
<1>1. batch[l] \in Seq(Transmission) /\ batch[l] # <<>>
  BY Zenon DEF DeliveryInv, CommitInv
<1>2. Elements(batch[l]) \subseteq Transmission
  BY <1>1, ElementsOfSeq, Zenon
<1>3. rows \subseteq rows' /\ rows' \subseteq Transmission
  BY <1>2, Zenon DEF DeliveryInv, TableInv
<1>4. Grows /\ Simulates
  <2>1. Contract!Keep
    BY <1>3, Zenon DEF Contract!Keep
  <2> QED BY <1>3, <2>1, Zenon DEF Grows, Known, Settled, Simulates, Contract!Next
<1>5. CommitInv(Known)'
  <2>1. CommitInv(Known) /\ \A k \in Loops : loop[k] = "push" => batch[k] \in Seq(Known')
    BY <1>4, SeqMonotonic, Zenon DEF DeliveryInv, CommitInv, Grows
  <2>2. CASE loop' = [loop EXCEPT ![l] = "select"] /\ batch' = [batch EXCEPT ![l] = <<>>]
    BY <1>4, <2>1, <2>2, EmptySeq, LoopChange, Zenon DEF CommitInv
  <2>3. CASE rows' = rows \cup Elements(batch[l]) /\ loop' = [loop EXCEPT ![l] = "push"] /\ UNCHANGED batch
    <3>1. batch[l] \in Seq(Known')
      BY <1>1, <2>3, SeqOfElements, Zenon DEF Known
    <3> QED BY <1>1, <2>1, <2>3, <3>1, Zenon DEF CommitInv
  <2> QED BY <2>2, <2>3, Zenon
<1>6. TableInv'
  BY <1>3, Zenon DEF DeliveryInv, TableInv
<1> QED BY <1>4, <1>5, <1>6, QueueFrame, WorkersFrame, DeleteFrame, Zenon DEF DeliveryInv

LEMMA PushStep ==
    ASSUME DeliveryInv, NEW l \in Loops, PushNext(l)
    PROVE  DeliveryInv' /\ Simulates
<1>1. batch[l] \in Seq(Known) /\ batch[l] # <<>> /\ batch[l] \in Seq(Transmission)
  BY Zenon DEF DeliveryInv, CommitInv, PushNext
<1>2. /\ Head(batch[l]) \in Known /\ Tail(batch[l]) \in Seq(Known)
      /\ Tail(batch[l]) \in Seq(Transmission)
  BY <1>1, HeadTailProperties, Zenon
<1> DEFINE b == IF Closed THEN <<>> ELSE Tail(batch[l])
<1>3. b \in Seq(Known) /\ b \in Seq(Transmission)
  BY <1>2, EmptySeq, Zenon
<1>4. /\ batch' = [batch EXCEPT ![l] = b]
      /\ loop' = [loop EXCEPT ![l] = IF b = <<>> THEN "select" ELSE "push"]
  BY Zenon DEF PushNext, DeliveryInv, CommitInv
<1> HIDE DEF b
<1>5. /\ Grows /\ Simulates /\ TableInv' /\ QueueInv(Known)' /\ WorkersHold(worker, Known)'
      /\ deleteQueue' \in [Servers -> Seq(Settled')]
  <2>1. CASE Closed
    <3>1. UNCHANGED <<rows, received, excused, queue, worker, deleteQueue, flusher>>
      BY <2>1, Zenon DEF PushNext
    <3> QED BY <3>1, StillGrows, QueueFrame, WorkersFrame, DeleteFrame, Zenon
            DEF DeliveryInv, TableInv, DeleteInv
  <2>2. CASE ~ Closed
    <3>1. Push(Head(batch[l]), worker) /\ UNCHANGED <<rows, received>> /\ WorkersHold(worker, Known)
      BY <2>2, Zenon DEF PushNext, DeliveryInv
    <3> QED BY <1>2, <3>1, PushKeepsInv, GivingUp, Zenon
  <2> QED BY <2>1, <2>2, Zenon
<1>6. CommitInv(Known)'
  <2>1. CASE b = <<>>
    BY <1>3, <1>4, <1>5, <2>1, LoopChange, Zenon DEF PushNext, DeliveryInv, CommitInv
  <2>2. CASE b # <<>>
    <3>1. b \in Seq(Known') /\ \A k \in Loops : loop[k] = "push" => batch[k] \in Seq(Known')
      BY <1>3, <1>5, SeqMonotonic, Zenon DEF DeliveryInv, CommitInv, Grows
    <3> QED BY <1>3, <1>4, <2>2, <3>1 DEF PushNext, DeliveryInv, CommitInv
  <2> QED BY <2>1, <2>2, Zenon
<1>7. DeleteInv(Settled)'
  <2>1. \A s \in Servers : flusher[s].hashes \in Seq(Settled')
    BY <1>5, SeqMonotonic, Zenon DEF DeliveryInv, DeleteInv, Grows
  <2> QED BY <1>5, <2>1, Zenon DEF PushNext, DeliveryInv, DeleteInv
<1> QED BY <1>5, <1>6, <1>7, Zenon DEF DeliveryInv

(* Of the flush loops only the delete queue changes.                       *)
LEMMA FlusherFrame ==
    ASSUME DeliveryInv, Grows, UNCHANGED flusher, deleteQueue' \in [Servers -> Seq(Settled')]
    PROVE  DeleteInv(Settled)'
<1>1. \A s \in Servers : flusher[s].hashes \in Seq(Settled')
  BY SeqMonotonic, Zenon DEF DeliveryInv, DeleteInv, Grows
<1> QED BY <1>1, Zenon DEF DeliveryInv, DeleteInv

LEMMA SingletonSeq ==
    ASSUME NEW T, NEW t \in T
    PROVE  <<t>> \in Seq(T)
OBVIOUS

LEMMA PopStep ==
    ASSUME DeliveryInv, NEW w \in Workers, BlockingPop(w)
    PROVE  DeliveryInv' /\ Simulates
<1> DEFINE s == w[1]
<1>1. s \in Servers /\ UNCHANGED <<rows, received, commitCh, loop, batch, flusher>>
  BY Zenon DEF BlockingPop, Workers
<1>2. CASE UNCHANGED <<queue, deleteQueue, excused>> /\
           \E pc \in {"exited", "waiting"} : worker' = [worker EXCEPT ![w].pc = pc]
  <2>1. Grows /\ Simulates
    BY <1>1, <1>2, StillGrows, Zenon
  <2>2. PICK pc \in {"exited", "waiting"} : worker' = [worker EXCEPT ![w].pc = pc]
    BY <1>2, Zenon
  <2>3. WorkersHold(worker, Known)'
    BY <2>1, <2>2, Zenon DEF DeliveryInv, WorkersHold, WorkerPc, Grows
  <2> QED BY <1>1, <1>2, <2>1, <2>3, CommitFrame, QueueFrame, DeleteFrame, Zenon DEF DeliveryInv, TableInv
<1>3. ASSUME NEW t \in Latest(queue[s]), queue' = [queue EXCEPT ![s] = @ \ {t}],
             format(t) = "capability", AddToDeleteQueue(s, <<t>>),
             excused' = excused \cup {t}, UNCHANGED worker
      PROVE  DeliveryInv' /\ Simulates
  <2>1. Grows /\ Simulates
    BY <1>1, <1>3, GivingUp, Zenon
  <2>2. t \in Known /\ t \in Settled' /\ t \in Transmission
    BY <1>1, <1>3, Zenon DEF Latest, DeliveryInv, QueueInv, TableInv, Known, Settled
  <2>3. QueueInv(Known)'
    BY <1>1, <1>3, <2>1, Zenon DEF DeliveryInv, QueueInv, Grows
  <2>4. deleteQueue' \in [Servers -> Seq(Settled')]
    BY <1>1, <1>3, <2>1, <2>2, SingletonSeq, DeleteQueueType, Zenon
  <2>5. TableInv'
    BY <1>1, <1>3, <2>2, Zenon DEF DeliveryInv, TableInv
  <2> QED BY <1>1, <1>3, <2>1, <2>3, <2>4, <2>5, CommitFrame, WorkersFrame, FlusherFrame, Zenon DEF DeliveryInv
<1>4. ASSUME NEW t \in Latest(queue[s]), queue' = [queue EXCEPT ![s] = @ \ {t}],
             worker' = [worker EXCEPT ![w] = [pc |-> "sending", t |-> t]],
             UNCHANGED <<deleteQueue, excused>>
      PROVE  DeliveryInv' /\ Simulates
  <2>1. Grows /\ Simulates
    BY <1>1, <1>4, StillGrows, Zenon
  <2>2. t \in Known
    BY <1>1, <1>4, Zenon DEF Latest, DeliveryInv, QueueInv
  <2>3. QueueInv(Known)'
    BY <1>1, <1>4, <2>1, Zenon DEF DeliveryInv, QueueInv, Grows
  <2>4. WorkersHold(worker, Known)'
    BY <1>4, <2>1, <2>2, Zenon DEF DeliveryInv, WorkersHold, WorkerPc, Grows
  <2> QED BY <1>1, <1>4, <2>1, <2>3, <2>4, CommitFrame, DeleteFrame, Zenon DEF DeliveryInv, TableInv
<1> QED BY <1>2, <1>3, <1>4, Zenon DEF BlockingPop

(* Only what is stored or given up is received for the first time.         *)
LEMMA ReceiveStep ==
    ASSUME DeliveryInv, NEW w \in Workers, ServerReceives(w)
    PROVE  DeliveryInv' /\ Simulates
<1> DEFINE t == worker[w].t
<1>1. t \in Known /\ t \in Transmission
  BY Zenon DEF ServerReceives, DeliveryInv, WorkersHold, TableInv, Known, Settled
<1>2. received' = received \cup {t} /\ UNCHANGED <<memory, rows, excused>>
  BY Zenon DEF ServerReceives
<1>3. Simulates
  <2>1. CASE t \in received
    BY <1>2, <2>1, Zenon DEF Simulates
  <2>2. CASE t \notin received
    <3>1. Contract!Receive
      BY <1>1, <1>2, <2>2, Zenon DEF Contract!Receive, Known, Settled
    <3> QED BY <3>1, Zenon DEF Simulates, Contract!Next
  <2> QED BY <2>1, <2>2, Zenon
<1>4. Grows /\ TableInv'
  BY <1>1, <1>2, Zenon DEF Grows, Known, Settled, DeliveryInv, TableInv
<1> QED BY <1>2, <1>3, <1>4, CommitFrame, QueueFrame, WorkersFrame, DeleteFrame, Zenon DEF DeliveryInv, memory

LEMMA AnsweredStep ==
    ASSUME DeliveryInv, NEW w \in Workers, Answered(w)
    PROVE  DeliveryInv' /\ Simulates
<1>1. w[1] \in Servers /\ Grows /\ Simulates
  BY StillGrows, Zenon DEF Answered, Workers
<1>2. <<worker[w].t>> \in Seq(Settled')
  BY SingletonSeq, Zenon DEF Answered, Settled
<1>3. deleteQueue' \in [Servers -> Seq(Settled')]
  BY <1>1, <1>2, DeleteQueueType, Zenon DEF Answered
<1>4. WorkersHold(worker, Known)'
  BY <1>1, Zenon DEF Answered, DeliveryInv, WorkersHold, WorkerPc, Grows
<1> QED BY <1>1, <1>3, <1>4, CommitFrame, QueueFrame, FlusherFrame, Zenon DEF Answered, DeliveryInv, TableInv

LEMMA FailedStep ==
    ASSUME DeliveryInv, NEW w \in Workers, Failed(w)
    PROVE  DeliveryInv' /\ Simulates
<1>1. UNCHANGED <<rows, received, commitCh, loop, batch, flusher>>
  BY Zenon DEF Failed
<1>2. CASE Closed
  <2>1. UNCHANGED <<queue, deleteQueue, excused>> /\ worker' = [worker EXCEPT ![w] = [pc |-> "exited", t |-> None]]
    BY <1>2, Zenon DEF Failed
  <2>2. Grows /\ Simulates
    BY <1>1, <2>1, StillGrows, Zenon
  <2>3. WorkersHold(worker, Known)'
    BY <2>1, <2>2, Zenon DEF DeliveryInv, WorkersHold, WorkerPc, Grows
  <2> QED BY <1>1, <2>1, <2>2, <2>3, CommitFrame, QueueFrame, DeleteFrame, Zenon DEF DeliveryInv, TableInv
<1>3. CASE ~ Closed
  <2> DEFINE ws == [worker EXCEPT ![w] = [pc |-> "backoff", t |-> None]]
  <2>1. worker[w].t \in Known /\ WorkersHold(ws, Known)
    BY Zenon DEF Failed, DeliveryInv, WorkersHold, WorkerPc
  <2>2. Push(worker[w].t, ws)
    BY <1>3, Zenon DEF Failed
  <2> HIDE DEF ws
  <2>3. /\ Grows /\ excused \subseteq excused' /\ TableInv' /\ QueueInv(Known)'
        /\ WorkersHold(worker, Known)' /\ deleteQueue' \in [Servers -> Seq(Settled')]
    BY <1>1, <2>1, <2>2, PushKeepsInv, Zenon
  <2> QED BY <1>1, <2>3, GivingUp, CommitFrame, FlusherFrame, Zenon DEF DeliveryInv
<1> QED BY <1>2, <1>3, Zenon

LEMMA WorkerEndStep ==
    ASSUME DeliveryInv, NEW w \in Workers, SendCancelled(w) \/ Backoff(w)
    PROVE  DeliveryInv' /\ Simulates
<1>1. UNCHANGED <<rows, received, excused, commitCh, loop, batch, queue, deleteQueue, flusher>>
  BY Zenon DEF SendCancelled, Backoff
<1>2. Grows /\ Simulates
  BY <1>1, StillGrows, Zenon
<1>3. WorkersHold(worker, Known)'
  BY <1>2 DEF SendCancelled, Backoff, DeliveryInv, WorkersHold, WorkerPc, Grows
<1> QED BY <1>1, <1>2, <1>3, CommitFrame, QueueFrame, DeleteFrame, Zenon DEF DeliveryInv, TableInv

(* The flush loop takes the delete queue.                                  *)
LEMMA FlushStep ==
    ASSUME DeliveryInv, NEW s \in Servers, FlushTick(s) \/ FlushStop(s)
    PROVE  DeliveryInv' /\ Simulates
<1>1. UNCHANGED <<rows, received, excused, commitCh, loop, batch, queue, worker>>
  BY Zenon DEF FlushTick, FlushStop
<1>2. Grows /\ Simulates /\ Settled' = Settled
  BY <1>1, StillGrows, Zenon DEF Settled
<1>3. DeleteInv(Settled)'
  <2>1. PICK pc \in {"deleting", "final", "exited"} :
          flusher' = [flusher EXCEPT ![s] = [pc |-> pc, hashes |-> deleteQueue[s]]]
    BY Zenon DEF FlushTick, FlushStop
  <2>2. deleteQueue' = [deleteQueue EXCEPT ![s] = <<>>]
    BY Zenon DEF FlushTick, FlushStop
  <2>3. deleteQueue' \in [Servers -> Seq(Settled)]
    BY <2>2, EmptySeq, Zenon DEF DeliveryInv, DeleteInv
  <2>4. [pc |-> pc, hashes |-> deleteQueue[s]]
           \in [pc : {"idle", "deleting", "final", "exited"}, hashes : Seq(Settled)]
    BY Zenon DEF DeliveryInv, DeleteInv
  <2> QED BY <1>2, <2>1, <2>3, <2>4, Zenon DEF DeliveryInv, DeleteInv
<1> QED BY <1>1, <1>2, <1>3, CommitFrame, QueueFrame, WorkersFrame, Zenon DEF DeliveryInv, TableInv

(* Only what was received or given up is deleted.                          *)
LEMMA DeleteStep ==
    ASSUME DeliveryInv, NEW s \in Servers, DeleteBatch(s)
    PROVE  DeliveryInv' /\ Simulates
<1> DEFINE hashes == flusher[s].hashes
           n == IF Len(hashes) < DeleteBatchSize THEN Len(hashes) ELSE DeleteBatchSize
           gone == SubSeq(hashes, 1, n)
           rest == SubSeq(hashes, n + 1, Len(hashes))
<1>1. hashes \in Seq(Settled) /\ Len(hashes) \in Nat
  BY LenProperties, Zenon DEF DeliveryInv, DeleteInv
<1>2. n \in Nat /\ n <= Len(hashes)
  BY <1>1, DataEngineAssumption
<1>3. gone \in Seq(Settled) /\ rest \in Seq(Settled)
  BY <1>1, <1>2, SubSeqType
<1>4. rows' = rows \ Elements(gone)
  BY Zenon DEF DeleteBatch, Delete
<1>5. PICK pc \in {"idle", "deleting", "final", "exited"} :
        flusher' = [flusher EXCEPT ![s] = [pc |-> pc, hashes |-> rest]]
  BY Zenon DEF DeleteBatch
<1>6. UNCHANGED <<received, excused, commitCh, loop, batch, queue, worker, deleteQueue>>
  BY Zenon DEF DeleteBatch
<1> HIDE DEF n, gone, rest
<1>7. Elements(gone) \subseteq Settled
  BY <1>3, ElementsOfSeq, Zenon
<1>8. Grows /\ Settled' = Settled /\ Simulates
  <2>1. Contract!Forget
    BY <1>4, <1>6, <1>7, Zenon DEF Contract!Forget, Settled
  <2> QED BY <1>4, <1>6, <1>7, <2>1, Zenon DEF Grows, Known, Settled, Simulates, Contract!Next
<1>9. DeleteInv(Settled)'
  <2>1. [pc |-> pc, hashes |-> rest]
           \in [pc : {"idle", "deleting", "final", "exited"}, hashes : Seq(Settled)]
    BY <1>3, Zenon
  <2> QED BY <1>5, <1>6, <1>8, <2>1, Zenon DEF DeliveryInv, DeleteInv
<1>10. TableInv'
  BY <1>4, <1>6, Zenon DEF DeliveryInv, TableInv
<1> QED BY <1>6, <1>8, <1>9, <1>10, CommitFrame, QueueFrame, WorkersFrame, Zenon DEF DeliveryInv

LEMMA DeleteGivesUpStep ==
    ASSUME DeliveryInv, NEW s \in Servers, DeleteGivesUp(s)
    PROVE  DeliveryInv' /\ Simulates
<1>1. UNCHANGED <<rows, received, excused, commitCh, loop, batch, queue, worker>>
  BY Zenon DEF DeleteGivesUp
<1>2. Grows /\ Simulates /\ Settled' = Settled
  BY <1>1, StillGrows, Zenon DEF Settled
<1>3. deleteQueue' \in [Servers -> Seq(Settled')]
  <2>1. flusher[s].hashes \in Seq(Settled')
    BY <1>2, Zenon DEF DeliveryInv, DeleteInv
  <2> QED BY <1>2, <2>1, DeleteQueueType, Zenon DEF DeleteGivesUp
<1>4. PICK pc \in {"idle", "exited"} : flusher' = [flusher EXCEPT ![s] = [pc |-> pc, hashes |-> <<>>]]
  BY Zenon DEF DeleteGivesUp
<1>5. DeleteInv(Settled)'
  BY <1>2, <1>3, <1>4, EmptySeq, Zenon DEF DeliveryInv, DeleteInv
<1> QED BY <1>1, <1>2, <1>5, CommitFrame, QueueFrame, WorkersFrame, Zenon DEF DeliveryInv, TableInv

LEMMA PruneStep ==
    ASSUME DeliveryInv, NEW s \in Servers, PruneLook(s) \/ PruneDelete(s) \/ PruneFails(s)
    PROVE  DeliveryInv' /\ Simulates
<1>1. UNCHANGED <<received, commitCh, loop, batch, queue, worker, deleteQueue, flusher>>
  BY Zenon DEF PruneLook, PruneDelete, PruneFails
<1>2. \/ UNCHANGED <<rows, excused>>
      \/ \E old \in SUBSET rows : rows' = rows \ old /\ excused' = excused \cup old
  <2>1. CASE PruneLook(s)
    BY <2>1, Zenon DEF PruneLook
  <2>2. CASE PruneDelete(s)
    <3>1. \A oldest, locked : \A old \in Pruned(s, oldest, locked) : old \subseteq rows
      BY Zenon DEF Pruned, For
    <3> QED BY <2>2, <3>1, Zenon DEF PruneDelete, Delete
  <2>3. CASE PruneFails(s)
    BY <2>3, Zenon DEF PruneFails, Delete, For
  <2> QED BY <2>1, <2>2, <2>3, Zenon
<1>3. Grows /\ Simulates /\ TableInv'
  <2>1. CASE UNCHANGED <<rows, excused>>
    BY <1>1, <2>1, StillGrows, Zenon DEF DeliveryInv, TableInv
  <2>2. CASE \E old \in SUBSET rows : rows' = rows \ old /\ excused' = excused \cup old
    <3>1. Contract!GiveUp
      BY <1>1, <2>2, Zenon DEF Contract!GiveUp
    <3> QED BY <1>1, <2>2, <3>1, Zenon DEF Grows, Known, Settled, Simulates, Contract!Next, DeliveryInv, TableInv
  <2> QED BY <1>2, <2>1, <2>2, Zenon
<1> QED BY <1>1, <1>3, CommitFrame, QueueFrame, WorkersFrame, DeleteFrame, Zenon DEF DeliveryInv

(* A transmitter that was just made, or that went down.                    *)
LEMMA FreshInv ==
    ASSUME NEW S, NEW T
    PROVE  /\ Fresh.loop \in [Loops -> {"select", "insert", "push", "exited"}]
           /\ \A l \in Loops : Fresh.loop[l] = "select"
           /\ <<>> \in Seq(Transmission) /\ Fresh.batch \in [Loops -> Seq(Transmission)]
           /\ Fresh.queue \in [Servers -> SUBSET S] /\ WorkersHold(Fresh.worker, S)
           /\ Fresh.deleteQueue \in [Servers -> Seq(T)]
           /\ Fresh.flusher \in [Servers -> [pc : {"idle", "deleting", "final", "exited"}, hashes : Seq(T)]]
BY EmptySeq, Zenon DEF Fresh, WorkersHold, WorkerPc

LEMMA LifeStep ==
    ASSUME DeliveryInv, Start \/ CloseQueues \/ CloseStopCh \/ ClosePersistence \/ Down
    PROVE  DeliveryInv' /\ Simulates
<1>1. UNCHANGED <<rows, received, excused>>
  BY Zenon DEF Start, CloseQueues, CloseStopCh, ClosePersistence, Down
<1>2. Grows /\ Simulates /\ TableInv' /\ Known' = Known /\ Settled' = Settled
  BY <1>1, StillGrows, Zenon DEF DeliveryInv, TableInv, Known, Settled
<1>3. CASE Start
  <2>1. QueueInv(Known)'
    BY <1>2, <1>3, Zenon DEF Start, QueueInv, Known
  <2> QED BY <1>2, <1>3, <2>1, CommitFrame, WorkersFrame, DeleteFrame, Zenon DEF Start, DeliveryInv
<1>4. CASE CloseQueues
  <2>1. WorkersHold(worker, Known)'
    BY <1>2, <1>4, Zenon DEF CloseQueues, DeliveryInv, WorkersHold, WorkerPc
  <2> QED BY <1>2, <1>4, <2>1, CommitFrame, QueueFrame, DeleteFrame, Zenon DEF CloseQueues, DeliveryInv
<1>5. CASE CloseStopCh \/ ClosePersistence
  BY <1>2, <1>5, CommitFrame, QueueFrame, WorkersFrame, DeleteFrame, Zenon
     DEF CloseStopCh, ClosePersistence, memory, DeliveryInv
<1>6. CASE Down
  <2>1. CommitInv(Known)'
    BY <1>6, FreshInv, Zenon DEF Down, CommitInv
  <2> QED BY <1>2, <1>6, <2>1, FreshInv, Zenon DEF Down, DeliveryInv, QueueInv, DeleteInv
<1> QED BY <1>3, <1>4, <1>5, <1>6, Zenon

LEMMA EveryStep ==
    ASSUME DeliveryInv, [Next]_vars
    PROVE  DeliveryInv' /\ Simulates
<1>1. CASE UNCHANGED vars
  BY <1>1, StillGrows, CommitFrame, QueueFrame, WorkersFrame, DeleteFrame, Zenon DEF vars, memory, DeliveryInv, TableInv
<1>2. CASE Next
  BY SMTT(30), <1>2, TransmitStep, CommitStep, InsertStep, PushStep, PopStep, ReceiveStep, AnsweredStep, FailedStep,
     WorkerEndStep, FlushStep, DeleteStep, DeleteGivesUpStep, PruneStep, LifeStep DEF Next
<1> QED BY <1>1, <1>2, Zenon

LEMMA InitialInv == Init => DeliveryInv
<1> SUFFICES ASSUME Init PROVE DeliveryInv
  BY Zenon
<1>1. CommitInv(Known)
  BY FreshInv, Zenon DEF Init, CommitInv
<1> QED BY <1>1, FreshInv, Zenon DEF Init, DeliveryInv, QueueInv, DeleteInv, TableInv

(* The transmitter implements its contract: a row of the table goes only   *)
(* when the server has the report or the report was given up, and nothing  *)
(* is sent that was not stored, whatever crashes, fails or is closed       *)
(* between the insert and the delete (transmitter.go, server.go,           *)
(* persistence_manager.go).                                                *)
THEOREM DeliversAtLeastOnceHolds == Spec => DeliversAtLeastOnce
<1>1. Init => Contract!Init
  BY Zenon DEF Init, Contract!Init
<1>2. DeliveryInv /\ [Next]_vars => DeliveryInv' /\ [Contract!Next]_<<rows, received, excused>>
  BY EveryStep, Zenon DEF Simulates
<1> QED BY <1>1, <1>2, InitialInv, PTL DEF Spec, DeliversAtLeastOnce, Contract!Spec

-----------------------------------------------------------------------------
(* No row is forgotten while the transmitter runs. Elements of sequences,  *)
(* and what addToDeleteQueue does with them.                               *)

LEMMA PartedElements ==
    ASSUME NEW T, NEW s \in Seq(T), NEW n \in Nat, n <= Len(s)
    PROVE  Elements(s) \subseteq Elements(SubSeq(s, 1, n)) \cup Elements(SubSeq(s, n + 1, Len(s)))
<1> DEFINE a == SubSeq(s, 1, n)
           b == SubSeq(s, n + 1, Len(s))
<1>1. Len(s) \in Nat /\ \A i \in 1 .. Len(s) : s[i] \in T
  BY LenProperties, ElementOfSeq, Zenon
<1>2. Len(a) = n /\ \A i \in 1 .. n : a[i] = s[i]
  BY <1>1, SubSeqProperties
<1>3. Len(b) = Len(s) - n /\ \A i \in 1 .. Len(s) - n : b[i] = s[n + i]
  <2>1. /\ Len(b) = IF n + 1 <= Len(s) THEN Len(s) - (n + 1) + 1 ELSE 0
        /\ \A i \in 1 .. Len(s) - (n + 1) + 1 : b[i] = s[n + 1 + i - 1]
    BY <1>1, SubSeqProperties, SMTT(30)
  <2> QED BY <1>1, <2>1
<1> HIDE DEF a, b
<1>4. ASSUME NEW i \in 1 .. Len(s) PROVE s[i] \in Elements(a) \cup Elements(b)
  <2>1. CASE i <= n
    BY <1>1, <1>2, <2>1 DEF Elements
  <2>2. CASE ~ (i <= n)
    <3>1. i - n \in 1 .. Len(b) /\ s[i] = b[i - n]
      BY <1>1, <1>3, <2>2
    <3> QED BY <3>1, Zenon DEF Elements
  <2> QED BY <2>1, <2>2, Zenon
<1> QED BY <1>4, Zenon DEF Elements, a, b

LEMMA JoinedElements ==
    ASSUME NEW T, NEW s \in Seq(T), NEW u \in Seq(T)
    PROVE  Elements(s) \cup Elements(u) \subseteq Elements(s \o u)
<1> DEFINE c == s \o u
<1>1. Len(s) \in Nat /\ Len(u) \in Nat
  BY LenProperties, Zenon
<1>2. /\ Len(c) = Len(s) + Len(u)
      /\ \A i \in 1 .. Len(s) + Len(u) : c[i] = IF i <= Len(s) THEN s[i] ELSE u[i - Len(s)]
  BY ConcatProperties, Zenon
<1> HIDE DEF c
<1>3. \A i \in 1 .. Len(s) : s[i] = c[i] /\ i \in 1 .. Len(c)
  BY <1>1, <1>2
<1>4. \A i \in 1 .. Len(u) : u[i] = c[Len(s) + i] /\ Len(s) + i \in 1 .. Len(c)
  BY <1>1, <1>2
<1> QED BY <1>3, <1>4, Zenon DEF Elements, c

LEMMA HandedOver ==
    ASSUME DeliveryInv, NEW s \in Servers, NEW hashes \in Seq(Transmission),
           AddToDeleteQueue(s, hashes)
    PROVE  /\ orphaned \subseteq orphaned'
           /\ Elements(hashes) \subseteq Elements(deleteQueue'[s]) \cup orphaned'
           /\ \A u \in Servers : Elements(deleteQueue[u]) \subseteq Elements(deleteQueue'[u]) \cup orphaned'
<1> DEFINE all == deleteQueue[s] \o hashes
           n == Excess(all)
<1>1. deleteQueue[s] \in Seq(Transmission) /\ deleteQueue \in [Servers -> Seq(Settled)]
  BY SeqMonotonic DEF DeliveryInv, TableInv, DeleteInv, Settled
<1>2. all \in Seq(Transmission) /\ Len(all) \in Nat
  BY <1>1, ConcatProperties, LenProperties, Zenon
<1>3. Elements(deleteQueue[s]) \cup Elements(hashes) \subseteq Elements(all)
  BY <1>1, JoinedElements, Zenon
<1>4. /\ deleteQueue' = [deleteQueue EXCEPT ![s] = SubSeq(all, n + 1, Len(all))]
      /\ orphaned' = orphaned \cup Elements(SubSeq(all, 1, n))
  BY Zenon DEF AddToDeleteQueue
<1> HIDE DEF all
<1>5. n \in Nat /\ n <= Len(all)
  BY <1>2, DataEngineAssumption DEF Excess
<1> HIDE DEF n
<1>6. Elements(all) \subseteq Elements(SubSeq(all, 1, n)) \cup Elements(SubSeq(all, n + 1, Len(all)))
  BY <1>2, <1>5, PartedElements, Zenon
<1>7. /\ deleteQueue'[s] = SubSeq(all, n + 1, Len(all))
      /\ \A u \in Servers \ {s} : deleteQueue'[u] = deleteQueue[u]
  BY <1>1, <1>4, Zenon
<1>8. Elements(all) \subseteq Elements(deleteQueue'[s]) \cup orphaned'
  BY <1>4, <1>6, <1>7, Zenon
<1> QED BY <1>3, <1>4, <1>7, <1>8, Zenon

(* Who is responsible for the row of t.                                    *)
InQueue(t) == \E s \in Servers : t \in queue[s]
InPush(t) == \E l \in Loops : loop[l] = "push" /\ t \in Elements(batch[l])
InSend(t) == \E w \in Workers : worker[w].pc = "sending" /\ worker[w].t = t
InDelete(t) == \E s \in Servers : t \in Elements(deleteQueue[s]) \cup Elements(flusher[s].hashes)
Owed(t) == InQueue(t) \/ InPush(t) \/ InSend(t) \/ InDelete(t) \/ t \in orphaned

AllOwed == \A t \in rows : Owed(t)

(* An idle flush loop has no hashes that it could overwrite.               *)
FlushersIdle == \A s \in Servers : flusher[s].pc = "idle" => flusher[s].hashes = <<>>

LEMMA AllOwedIsAccountedFor == (phase = "up" => AllOwed) => RowsAccountedFor
<1>1. \A t : InQueue(t) => t \in UNION {queue[s] : s \in Servers}
  BY Zenon DEF InQueue
<1>2. \A t : InPush(t) => t \in Pushing
  BY Zenon DEF InPush, Pushing
<1>3. \A t : InSend(t) => t \in InFlight
  BY Zenon DEF InSend, InFlight
<1>4. \A t : InDelete(t) => t \in ToDelete
  BY Zenon DEF InDelete, ToDelete
<1>5. ASSUME AllOwed, NEW t \in rows
      PROVE  t \in (UNION {queue[s] : s \in Servers}) \cup Pushing \cup InFlight \cup ToDelete \cup orphaned
  <2>1. Owed(t)
    BY <1>5, Zenon DEF AllOwed
  <2> QED BY <1>1, <1>2, <1>3, <1>4, <2>1, Zenon DEF Owed
<1> QED BY <1>5, Zenon DEF RowsAccountedFor

LEMMA SignalledKeep ==
    ASSUME NEW T, NEW ws, WorkersHold(ws, T), NEW s, NEW after \in Signalled(ws, s),
           NEW w \in Workers, ws[w].pc = "sending"
    PROVE  after[w] = ws[w]
BY Zenon DEF Signalled, WorkersHold

LEMMA PushKeepsOwed ==
    ASSUME DeliveryInv, NEW t \in Known, NEW ws, WorkersHold(ws, Known), Push(t, ws),
           UNCHANGED flusher
    PROVE  /\ orphaned \subseteq orphaned' /\ InQueue(t)'
           /\ \A u : InQueue(u) \/ InDelete(u) => Owed(u)'
           /\ \A w \in Workers : ws[w].pc = "sending" => worker'[w] = ws[w]
<1>1. t \in Transmission /\ t.server \in Servers
  BY Zenon DEF DeliveryInv, TableInv, Known, Settled, Transmission
<1> DEFINE Q == queue[t.server]
<1>2. Q \in SUBSET Transmission /\ queue \in [Servers -> SUBSET Known]
  BY <1>1, Zenon DEF DeliveryInv, QueueInv, TableInv, Known, Settled
<1>3. PICK e \in Evictions(Q) :
        /\ queue' = [queue EXCEPT ![t.server] = (@ \ Elements(e)) \cup {t}]
        /\ AddToDeleteQueue(t.server, e)
        /\ worker' \in Signalled(ws, t.server)
  BY Zenon DEF Push
<1>4. e \in Seq(Transmission)
  BY <1>2, <1>3, EvictionType, SeqMonotonic, Zenon
<1>5. /\ orphaned \subseteq orphaned'
      /\ Elements(e) \subseteq Elements(deleteQueue'[t.server]) \cup orphaned'
      /\ \A u \in Servers : Elements(deleteQueue[u]) \subseteq Elements(deleteQueue'[u]) \cup orphaned'
  BY <1>1, <1>3, <1>4, HandedOver, Zenon
<1>6. \A s \in Servers : queue'[s] = IF s = t.server THEN (queue[s] \ Elements(e)) \cup {t} ELSE queue[s]
  BY <1>1, <1>2, <1>3, Zenon
<1>7. InQueue(t)'
  BY <1>1, <1>6, Zenon DEF InQueue
<1>8. ASSUME NEW u, InQueue(u) PROVE Owed(u)'
  <2>1. PICK s \in Servers : u \in queue[s]
    BY <1>8, Zenon DEF InQueue
  <2>2. CASE s = t.server /\ u \in Elements(e)
    BY <1>1, <1>5, <2>2, Zenon DEF Owed, InDelete
  <2>3. CASE ~ (s = t.server /\ u \in Elements(e))
    BY <1>6, <2>1, <2>3, Zenon DEF Owed, InQueue
  <2> QED BY <2>2, <2>3, Zenon
<1>9. ASSUME NEW u, InDelete(u) PROVE Owed(u)'
  BY <1>5, <1>9, Zenon DEF InDelete, Owed
<1>10. \A w \in Workers : ws[w].pc = "sending" => worker'[w] = ws[w]
  BY <1>3, SignalledKeep, Zenon
<1> QED BY <1>5, <1>7, <1>8, <1>9, <1>10, Zenon

(* What a step leaves alone stays with whom it was.                        *)
LEMMA OwedFrame ==
    ASSUME NEW t, Owed(t), orphaned \subseteq orphaned',
           InQueue(t) => Owed(t)', InPush(t) => Owed(t)', InSend(t) => Owed(t)', InDelete(t) => Owed(t)'
    PROVE  Owed(t)'
BY Zenon DEF Owed

LEMMA QueueOwed == ASSUME NEW t, InQueue(t), UNCHANGED queue PROVE Owed(t)'
BY Zenon DEF InQueue, Owed

LEMMA PushOwed == ASSUME NEW t, InPush(t), UNCHANGED <<loop, batch>> PROVE Owed(t)'
BY Zenon DEF InPush, Owed

LEMMA SendOwed ==
    ASSUME NEW t, InSend(t), \A w \in Workers : worker[w].pc = "sending" => worker'[w] = worker[w]
    PROVE  Owed(t)'
BY Zenon DEF InSend, Owed

LEMMA DeleteOwed == ASSUME NEW t, InDelete(t), UNCHANGED <<deleteQueue, flusher>> PROVE Owed(t)'
BY Zenon DEF InDelete, Owed

AccountInv == FlushersIdle /\ (phase = "up" => AllOwed)

LEMMA CommitKeepsOwed ==
    ASSUME DeliveryInv, AccountInv,
           \/ \E r \in Reports, S \in SUBSET Servers : Transmit(r, S)
           \/ \E l \in Loops : ReceiveTransmission(l) \/ CommitTick(l) \/ StopLoop(l)
    PROVE  AccountInv'
<1>1. UNCHANGED <<phase, queue, worker, deleteQueue, flusher, rows, orphaned>>
  BY Zenon DEF Transmit, ReceiveTransmission, CommitTick, StopLoop
<1>2. ASSUME NEW t, InPush(t) PROVE Owed(t)'
  <2>1. PICK l \in Loops : loop[l] = "push" /\ t \in Elements(batch[l])
    BY <1>2, Zenon DEF InPush
  <2>2. loop'[l] = "push" /\ batch'[l] = batch[l]
    <3>1. loop \in [Loops -> {"select", "insert", "push", "exited"}] /\ batch \in [Loops -> Seq(Transmission)]
      BY Zenon DEF DeliveryInv, CommitInv
    <3>2. \/ UNCHANGED <<loop, batch>>
          \/ \E k \in Loops : /\ loop[k] = "select"
                              /\ UNCHANGED loop \/ \E pc : loop' = [loop EXCEPT ![k] = pc]
                              /\ \E b : batch' = [batch EXCEPT ![k] = b]
      BY Zenon DEF Transmit, ReceiveTransmission, CommitTick, StopLoop, Commit
    <3> QED BY <2>1, <3>1, <3>2, Zenon
  <2> QED BY <2>1, <2>2, Zenon DEF Owed, InPush
<1>3. \A t : Owed(t) => Owed(t)'
  BY <1>1, <1>2, OwedFrame, QueueOwed, SendOwed, DeleteOwed, Zenon
<1> QED BY <1>1, <1>3, Zenon DEF AccountInv, FlushersIdle, AllOwed

LEMMA InsertKeepsOwed ==
    ASSUME DeliveryInv, AccountInv, NEW l \in Loops, InsertBatch(l)
    PROVE  AccountInv'
<1>1. UNCHANGED <<phase, queue, worker, deleteQueue, flusher>> /\ orphaned \subseteq orphaned'
  BY Zenon DEF InsertBatch
<1>2. /\ loop \in [Loops -> {"select", "insert", "push", "exited"}] /\ batch \in [Loops -> Seq(Transmission)]
      /\ loop[l] = "insert"
  BY Zenon DEF DeliveryInv, CommitInv, InsertBatch
<1>3. ASSUME NEW t, InPush(t) PROVE Owed(t)'
  <2>1. PICK k \in Loops : loop[k] = "push" /\ t \in Elements(batch[k])
    BY <1>3, Zenon DEF InPush
  <2>2. loop'[k] = "push" /\ batch'[k] = batch[k]
    BY <1>2, <2>1, Zenon DEF InsertBatch
  <2> QED BY <2>1, <2>2, Zenon DEF Owed, InPush
<1>4. \A t : Owed(t) => Owed(t)'
  BY <1>1, <1>3, OwedFrame, QueueOwed, SendOwed, DeleteOwed, Zenon
<1>5. ASSUME NEW t \in rows', t \notin rows PROVE Owed(t)'
  <2>1. t \in Elements(batch[l])
    BY <1>5, Zenon DEF InsertBatch, Insert
  <2>2. CASE orphaned' = orphaned \cup Elements(batch[l])
    BY <2>1, <2>2, Zenon DEF Owed
  <2>3. CASE loop' = [loop EXCEPT ![l] = "push"] /\ UNCHANGED batch
    BY <1>2, <2>1, <2>3, Zenon DEF Owed, InPush
  <2> QED BY <1>5, <2>2, <2>3, Zenon DEF InsertBatch
<1> QED BY <1>1, <1>4, <1>5, Zenon DEF AccountInv, FlushersIdle, AllOwed

LEMMA PushNextKeepsOwed ==
    ASSUME DeliveryInv, AccountInv, NEW l \in Loops, PushNext(l)
    PROVE  AccountInv'
<1>1. UNCHANGED <<phase, flusher, rows>> /\ FlushersIdle'
  BY Zenon DEF PushNext, AccountInv, FlushersIdle
<1> SUFFICES ASSUME phase = "up" PROVE AllOwed'
  BY <1>1, Zenon DEF AccountInv
<1>2. batch[l] \in Seq(Known) /\ batch[l] # <<>> /\ WorkersHold(worker, Known)
  BY Zenon DEF DeliveryInv, CommitInv, PushNext
<1> DEFINE h == Head(batch[l])
           b == Tail(batch[l])
<1>3. h \in Known /\ Elements(batch[l]) \subseteq {h} \cup Elements(b) /\ (b = <<>> => Elements(b) = {})
  <2>1. /\ Head(batch[l]) \in Known /\ Len(b) = Len(batch[l]) - 1 /\ Len(batch[l]) \in Nat
        /\ \A i \in 1 .. Len(b) : b[i] = batch[l][i + 1]
    BY <1>2, HeadTailProperties, LenProperties, Zenon
  <2>2. h = batch[l][1]
    BY <1>2
  <2>3. \A i \in 1 .. Len(batch[l]) : i # 1 => batch[l][i] = b[i - 1] /\ i - 1 \in 1 .. Len(b)
    BY <2>1
  <2>4. b = <<>> => Elements(b) = {}
    <3>1. Len(<<>>) = 0
      BY Zenon
    <3> HIDE DEF b
    <3> QED BY <3>1 DEF Elements
  <2> HIDE DEF b
  <2> QED BY <2>1, <2>2, <2>3, <2>4, Zenon DEF Elements
<1>4. Push(h, worker) /\ batch' = [batch EXCEPT ![l] = b] /\ loop[l] = "push"
      /\ loop' = [loop EXCEPT ![l] = IF batch'[l] = <<>> THEN "select" ELSE @]
  BY Zenon DEF PushNext, Closed
<1>5. /\ orphaned \subseteq orphaned' /\ \A u : u = h => InQueue(u)'
      /\ \A u : InQueue(u) \/ InDelete(u) => Owed(u)'
      /\ \A w \in Workers : worker[w].pc = "sending" => worker'[w] = worker[w]
  BY <1>1, <1>2, <1>3, <1>4, PushKeepsOwed, Zenon
<1> HIDE DEF b, h
<1>6. ASSUME NEW t, InPush(t) PROVE Owed(t)'
  <2>0. loop \in [Loops -> {"select", "insert", "push", "exited"}] /\ batch \in [Loops -> Seq(Transmission)]
    BY Zenon DEF DeliveryInv, CommitInv
  <2>1. PICK k \in Loops : loop[k] = "push" /\ t \in Elements(batch[k])
    BY <1>6, Zenon DEF InPush
  <2>2. CASE k = l
    <3>1. CASE t = h
      BY <1>5, <3>1, Zenon DEF Owed
    <3>2. CASE t \in Elements(b)
      <4>1. batch'[l] = b /\ loop'[l] = "push"
        BY <1>3, <1>4, <2>0, <3>2, Zenon
      <4> QED BY <3>2, <4>1, Zenon DEF Owed, InPush
    <3> QED BY <1>3, <2>1, <2>2, <3>1, <3>2, Zenon
  <2>3. CASE k # l
    <3>1. batch'[k] = batch[k] /\ loop'[k] = "push"
      BY <1>4, <2>0, <2>1, <2>3, Zenon
    <3> QED BY <2>1, <3>1, Zenon DEF Owed, InPush
  <2> QED BY <2>2, <2>3, Zenon
<1>7. \A t : Owed(t) => Owed(t)'
  BY <1>5, <1>6, OwedFrame, SendOwed, Zenon
<1> QED BY <1>1, <1>7, Zenon DEF AccountInv, AllOwed

LEMMA PopKeepsOwed ==
    ASSUME DeliveryInv, AccountInv, NEW w \in Workers, BlockingPop(w)
    PROVE  AccountInv'
<1>1. UNCHANGED <<phase, loop, batch, flusher, rows>> /\ FlushersIdle' /\ w[1] \in Servers
  BY Zenon DEF BlockingPop, AccountInv, FlushersIdle, Workers
<1> SUFFICES ASSUME phase = "up" PROVE AllOwed'
  BY <1>1, Zenon DEF AccountInv
<1>2. /\ worker[w].pc = "idle" /\ queue \in [Servers -> SUBSET Known] /\ ~Closed
      /\ worker \in [Workers -> [pc : WorkerPc, t : Known \cup {None}]]
  BY Zenon DEF BlockingPop, DeliveryInv, QueueInv, WorkersHold, Closed
<1>3. CASE UNCHANGED <<queue, deleteQueue, orphaned>> /\ worker' = [worker EXCEPT ![w].pc = "waiting"]
  <2>1. \A v \in Workers : worker[v].pc = "sending" => worker'[v] = worker[v]
    BY <1>2, <1>3, Zenon
  <2>2. \A t : Owed(t) => Owed(t)'
    BY <1>1, <1>3, <2>1, OwedFrame, QueueOwed, PushOwed, SendOwed, DeleteOwed, Zenon
  <2> QED BY <1>1, <2>2, Zenon DEF AccountInv, AllOwed
<1>4. ASSUME NEW t \in Latest(queue[w[1]]), queue' = [queue EXCEPT ![w[1]] = @ \ {t}],
             \/ AddToDeleteQueue(w[1], <<t>>) /\ UNCHANGED worker
             \/ /\ worker' = [worker EXCEPT ![w] = [pc |-> "sending", t |-> t]]
                /\ UNCHANGED <<deleteQueue, orphaned>>
      PROVE  AllOwed'
  <2>1. t \in Transmission /\ <<t>> \in Seq(Transmission) /\ Elements(<<t>>) = {t}
    <3>1. t \in Transmission
      BY <1>1, <1>2, <1>4, Zenon DEF Latest, Known, Settled, DeliveryInv, TableInv
    <3>2. Len(<<t>>) = 1 /\ <<t>>[1] = t
      BY Zenon
    <3> QED BY <3>1, <3>2, SingletonSeq DEF Elements
  <2>2. /\ orphaned \subseteq orphaned' /\ Owed(t)' /\ \A u : InDelete(u) => Owed(u)'
        /\ \A v \in Workers : worker[v].pc = "sending" => worker'[v] = worker[v]
    <3>1. CASE AddToDeleteQueue(w[1], <<t>>) /\ UNCHANGED worker
      <4>1. /\ orphaned \subseteq orphaned' /\ {t} \subseteq Elements(deleteQueue'[w[1]]) \cup orphaned'
            /\ \A s \in Servers : Elements(deleteQueue[s]) \subseteq Elements(deleteQueue'[s]) \cup orphaned'
        BY <1>1, <2>1, <3>1, HandedOver, Zenon
      <4>2. Owed(t)'
        BY <1>1, <4>1, Zenon DEF Owed, InDelete
      <4>3. \A u : InDelete(u) => Owed(u)'
        BY <1>1, <4>1, Zenon DEF Owed, InDelete
      <4> QED BY <3>1, <4>1, <4>2, <4>3, Zenon
    <3>2. CASE /\ worker' = [worker EXCEPT ![w] = [pc |-> "sending", t |-> t]]
               /\ UNCHANGED <<deleteQueue, orphaned>>
      <4>1. worker'[w] = [pc |-> "sending", t |-> t]
        BY <1>2, <3>2, Zenon
      <4>2. Owed(t)'
        BY <4>1, SMTT(30) DEF Owed, InSend
      <4>3. \A u : InDelete(u) => Owed(u)'
        BY <1>1, <3>2, DeleteOwed, Zenon
      <4>4. \A v \in Workers : worker[v].pc = "sending" => worker'[v] = worker[v]
        BY <1>2, <3>2, Zenon
      <4> QED BY <3>2, <4>2, <4>3, <4>4, Zenon
    <3> QED BY <1>4, <3>1, <3>2, Zenon
  <2>3. ASSUME NEW u, InQueue(u) PROVE Owed(u)'
    <3>1. PICK s \in Servers : u \in queue[s]
      BY <2>3, Zenon DEF InQueue
    <3>2. CASE u = t
      BY <2>2, <3>2, Zenon
    <3>3. CASE u # t
      <4>1. u \in queue'[s]
        BY <1>1, <1>2, <1>4, <3>1, <3>3, Zenon
      <4> QED BY <4>1, Zenon DEF InQueue, Owed
    <3> QED BY <3>2, <3>3, Zenon
  <2>4. \A u : Owed(u) => Owed(u)'
    BY <1>1, <2>2, <2>3, OwedFrame, PushOwed, SendOwed, Zenon
  <2> QED BY <1>1, <2>4, Zenon DEF AccountInv, AllOwed
<1> QED BY <1>2, <1>3, <1>4, Zenon DEF BlockingPop

LEMMA AnsweredKeepsOwed ==
    ASSUME DeliveryInv, AccountInv, NEW w \in Workers, Answered(w)
    PROVE  AccountInv'
<1> DEFINE x == worker[w].t
<1>1. UNCHANGED <<phase, loop, batch, queue, flusher, rows>> /\ FlushersIdle' /\ w[1] \in Servers
  BY Zenon DEF Answered, AccountInv, FlushersIdle, Workers
<1>2. /\ worker \in [Workers -> [pc : WorkerPc, t : Known \cup {None}]]
      /\ worker' = [worker EXCEPT ![w] = [pc |-> "idle", t |-> None]]
  BY Zenon DEF Answered, DeliveryInv, WorkersHold
<1>3. <<x>> \in Seq(Transmission) /\ Elements(<<x>>) = {x}
  <2>1. x \in Transmission
    BY Zenon DEF Answered, DeliveryInv, TableInv
  <2>2. Len(<<x>>) = 1 /\ <<x>>[1] = x
    BY Zenon
  <2> QED BY <2>1, <2>2, SingletonSeq DEF Elements
<1>4. /\ orphaned \subseteq orphaned' /\ Elements(<<x>>) \subseteq Elements(deleteQueue'[w[1]]) \cup orphaned'
      /\ \A s \in Servers : Elements(deleteQueue[s]) \subseteq Elements(deleteQueue'[s]) \cup orphaned'
  BY <1>1, <1>3, HandedOver, Zenon DEF Answered
<1>5. \A u : InDelete(u) => Owed(u)'
  BY <1>1, <1>4, Zenon DEF Owed, InDelete
<1>6. ASSUME NEW u, InSend(u) PROVE Owed(u)'
  <2>1. CASE u = x
    BY <1>1, <1>3, <1>4, <2>1, Zenon DEF Owed, InDelete
  <2>2. CASE u # x
    <3>1. PICK v \in Workers : worker[v].pc = "sending" /\ worker[v].t = u
      BY <1>6, Zenon DEF InSend
    <3>2. worker'[v] = worker[v]
      BY <1>2, <2>2, <3>1, Zenon
    <3> QED BY <3>1, <3>2, Zenon DEF InSend, Owed
  <2> QED BY <2>1, <2>2, Zenon
<1>7. \A u : Owed(u) => Owed(u)'
  BY <1>1, <1>4, <1>5, <1>6, OwedFrame, QueueOwed, PushOwed, Zenon
<1> QED BY <1>1, <1>7, Zenon DEF AccountInv, AllOwed

LEMMA FailedKeepsOwed ==
    ASSUME DeliveryInv, AccountInv, NEW w \in Workers, Failed(w)
    PROVE  AccountInv'
<1> DEFINE x == worker[w].t
           ws == [worker EXCEPT ![w] = [pc |-> "backoff", t |-> None]]
<1>1. UNCHANGED <<phase, loop, batch, flusher, rows>> /\ FlushersIdle'
  BY Zenon DEF Failed, AccountInv, FlushersIdle
<1> SUFFICES ASSUME phase = "up" PROVE AllOwed'
  BY <1>1, Zenon DEF AccountInv
<1>2. x \in Known /\ WorkersHold(ws, Known) /\ Push(x, ws)
      /\ worker \in [Workers -> [pc : WorkerPc, t : Known \cup {None}]]
  BY Zenon DEF Failed, Closed, DeliveryInv, WorkersHold, WorkerPc
<1>3. \A v \in Workers : v # w => ws[v] = worker[v]
  BY <1>2, Zenon
<1> HIDE DEF ws
<1>4. /\ orphaned \subseteq orphaned' /\ \A u : u = x => InQueue(u)'
      /\ \A u : InQueue(u) \/ InDelete(u) => Owed(u)'
      /\ \A v \in Workers : ws[v].pc = "sending" => worker'[v] = ws[v]
  BY <1>1, <1>2, PushKeepsOwed, Zenon
<1>5. ASSUME NEW u, InSend(u) PROVE Owed(u)'
  <2>1. CASE u = x
    BY <1>4, <2>1, Zenon DEF Owed
  <2>2. CASE u # x
    <3>1. PICK v \in Workers : worker[v].pc = "sending" /\ worker[v].t = u
      BY <1>5, Zenon DEF InSend
    <3>2. worker'[v] = worker[v]
      BY <1>3, <1>4, <2>2, <3>1, Zenon
    <3> QED BY <3>1, <3>2, Zenon DEF InSend, Owed
  <2> QED BY <2>1, <2>2, Zenon
<1>6. \A u : Owed(u) => Owed(u)'
  BY <1>1, <1>4, <1>5, OwedFrame, PushOwed, Zenon
<1> QED BY <1>1, <1>6, Zenon DEF AccountInv, AllOwed

LEMMA SenderKeepsOwed ==
    ASSUME DeliveryInv, AccountInv, NEW w \in Workers,
           ServerReceives(w) \/ SendCancelled(w) \/ Backoff(w)
    PROVE  AccountInv'
<1>1. UNCHANGED <<phase, loop, batch, queue, deleteQueue, flusher, rows, orphaned>> /\ FlushersIdle'
  BY Zenon DEF ServerReceives, SendCancelled, Backoff, memory, AccountInv, FlushersIdle
<1> SUFFICES ASSUME phase = "up" PROVE AllOwed'
  BY <1>1, Zenon DEF AccountInv
<1>2. \A v \in Workers : worker[v].pc = "sending" => worker'[v] = worker[v]
  <2>1. worker \in [Workers -> [pc : WorkerPc, t : Known \cup {None}]]
    BY Zenon DEF DeliveryInv, WorkersHold
  <2> QED BY <2>1, Zenon DEF ServerReceives, SendCancelled, Backoff, Stopped, memory
<1>3. \A u : Owed(u) => Owed(u)'
  BY <1>1, <1>2, OwedFrame, QueueOwed, PushOwed, SendOwed, DeleteOwed, Zenon
<1> QED BY <1>1, <1>3, Zenon DEF AccountInv, AllOwed

(* Nothing is lost when the flush loop takes the delete queue.             *)
LEMMA FlushTakesAll ==
    ASSUME DeliveryInv, FlushersIdle, NEW s \in Servers, flusher[s].pc = "idle",
           NEW pc \in {"deleting", "final", "exited"}, pc = "exited" => deleteQueue[s] = <<>>,
           flusher' = [flusher EXCEPT ![s] = [pc |-> pc, hashes |-> deleteQueue[s]]],
           deleteQueue' = [deleteQueue EXCEPT ![s] = <<>>]
    PROVE  FlushersIdle' /\ \A t : InDelete(t) => InDelete(t)'
<1>1. /\ deleteQueue \in [Servers -> Seq(Settled)]
      /\ flusher \in [Servers -> [pc : {"idle", "deleting", "final", "exited"}, hashes : Seq(Settled)]]
  BY Zenon DEF DeliveryInv, DeleteInv
<1>2. /\ flusher'[s] = [pc |-> pc, hashes |-> deleteQueue[s]]
      /\ \A u \in Servers : u # s => flusher'[u] = flusher[u] /\ deleteQueue'[u] = deleteQueue[u]
  BY <1>1, Zenon
<1>3. Elements(<<>>) = {} /\ flusher[s].hashes = <<>>
  <2>1. Len(<<>>) = 0
    BY Zenon
  <2> QED BY <2>1 DEF Elements, FlushersIdle
<1>4. FlushersIdle'
  BY <1>2 DEF FlushersIdle
<1>5. ASSUME NEW t, InDelete(t) PROVE InDelete(t)'
  <2>1. PICK u \in Servers : t \in Elements(deleteQueue[u]) \cup Elements(flusher[u].hashes)
    BY <1>5, Zenon DEF InDelete
  <2> QED BY <1>2, <1>3, <2>1 DEF InDelete
<1> QED BY <1>4, <1>5, Zenon

LEMMA DeletedBatch ==
    ASSUME DeliveryInv, FlushersIdle, NEW s \in Servers, DeleteBatch(s)
    PROVE  FlushersIdle' /\ rows' \subseteq rows /\ \A t : t \in rows' /\ InDelete(t) => InDelete(t)'
<1> DEFINE hashes == flusher[s].hashes
           n == IF Len(hashes) < DeleteBatchSize THEN Len(hashes) ELSE DeleteBatchSize
           gone == SubSeq(hashes, 1, n)
           rest == SubSeq(hashes, n + 1, Len(hashes))
<1>1. /\ flusher \in [Servers -> [pc : {"idle", "deleting", "final", "exited"}, hashes : Seq(Settled)]]
      /\ hashes \in Seq(Settled) /\ Len(hashes) \in Nat
  BY LenProperties, Zenon DEF DeliveryInv, DeleteInv
<1>2. n \in Nat /\ n <= Len(hashes)
  BY <1>1, DataEngineAssumption
<1>3. rows' = rows \ Elements(gone) /\ UNCHANGED deleteQueue
  BY Zenon DEF DeleteBatch, Delete
<1>4. PICK pc \in {"idle", "deleting", "final", "exited"} :
        /\ flusher' = [flusher EXCEPT ![s] = [pc |-> pc, hashes |-> rest]]
        /\ pc = "idle" => rest = <<>>
  BY <1>1, Zenon DEF DeleteBatch
<1> HIDE DEF n
<1>5. Elements(hashes) \subseteq Elements(gone) \cup Elements(rest)
  BY <1>1, <1>2, PartedElements, Zenon
<1> HIDE DEF gone, rest
<1>6. /\ flusher'[s].pc = pc /\ flusher'[s].hashes = rest
      /\ \A u \in Servers : u # s => flusher'[u] = flusher[u]
  BY <1>1, <1>4, Zenon
<1>7. FlushersIdle'
  BY <1>4, <1>6, Zenon DEF FlushersIdle
<1>8. ASSUME NEW t, t \in rows', InDelete(t) PROVE InDelete(t)'
  <2>1. PICK u \in Servers : t \in Elements(deleteQueue[u]) \cup Elements(flusher[u].hashes)
    BY <1>8, Zenon DEF InDelete
  <2> QED BY <1>3, <1>5, <1>6, <1>8, <2>1, Zenon DEF InDelete
<1> QED BY <1>3, <1>7, <1>8, Zenon

LEMMA GivingUpKeepsIdle ==
    ASSUME DeliveryInv, FlushersIdle, NEW s \in Servers, DeleteGivesUp(s)
    PROVE  /\ FlushersIdle' /\ orphaned \subseteq orphaned'
           /\ \A t : InDelete(t) => InDelete(t)' \/ t \in orphaned'
<1>1. /\ flusher \in [Servers -> [pc : {"idle", "deleting", "final", "exited"}, hashes : Seq(Settled)]]
      /\ flusher[s].hashes \in Seq(Transmission)
  BY SeqMonotonic, SMTT(30) DEF DeliveryInv, DeleteInv, TableInv, Settled
<1>2. PICK pc \in {"idle", "exited"} : flusher' = [flusher EXCEPT ![s] = [pc |-> pc, hashes |-> <<>>]]
  BY Zenon DEF DeleteGivesUp
<1>3. /\ flusher'[s].hashes = <<>> /\ \A u \in Servers : u # s => flusher'[u] = flusher[u]
  BY <1>1, <1>2, Zenon
<1>4. FlushersIdle'
  BY <1>3, Zenon DEF FlushersIdle
<1>5. /\ orphaned \subseteq orphaned'
      /\ Elements(flusher[s].hashes) \subseteq Elements(deleteQueue'[s]) \cup orphaned'
      /\ \A u \in Servers : Elements(deleteQueue[u]) \subseteq Elements(deleteQueue'[u]) \cup orphaned'
  BY <1>1, HandedOver, Zenon DEF DeleteGivesUp
<1>6. ASSUME NEW t, InDelete(t) PROVE InDelete(t)' \/ t \in orphaned'
  <2>1. PICK u \in Servers : t \in Elements(deleteQueue[u]) \cup Elements(flusher[u].hashes)
    BY <1>6, Zenon DEF InDelete
  <2> QED BY <1>3, <1>5, <2>1, Zenon DEF InDelete
<1> QED BY <1>4, <1>5, <1>6, Zenon

(* The flush and prune loops: rows go, what is left in the table and was   *)
(* in a delete queue is still there or is nobody's.                        *)
Persists(s) ==
    \/ FlushTick(s) \/ DeleteBatch(s) \/ DeleteGivesUp(s) \/ FlushStop(s)
    \/ PruneLook(s) \/ PruneDelete(s) \/ PruneFails(s)

LEMMA PersistenceShrinks ==
    ASSUME DeliveryInv, FlushersIdle, NEW s \in Servers, Persists(s)
    PROVE  /\ UNCHANGED <<phase, loop, batch, queue, worker>> /\ FlushersIdle'
           /\ orphaned \subseteq orphaned' /\ rows' \subseteq rows
           /\ \A t : t \in rows' /\ InDelete(t) => InDelete(t)' \/ t \in orphaned'
<1>1. UNCHANGED <<phase, loop, batch, queue, worker>>
  BY Zenon DEF Persists, FlushTick, DeleteBatch, DeleteGivesUp, FlushStop, PruneLook, PruneDelete, PruneFails
<1>2. CASE FlushTick(s) \/ FlushStop(s)
  <2>1. /\ flusher[s].pc = "idle" /\ deleteQueue' = [deleteQueue EXCEPT ![s] = <<>>]
        /\ UNCHANGED <<rows, orphaned>>
    BY <1>2, Zenon DEF FlushTick, FlushStop
  <2>2. PICK pc \in {"deleting", "final", "exited"} :
          /\ flusher' = [flusher EXCEPT ![s] = [pc |-> pc, hashes |-> deleteQueue[s]]]
          /\ pc = "exited" => deleteQueue[s] = <<>>
    BY <1>2, Zenon DEF FlushTick, FlushStop
  <2>3. FlushersIdle' /\ \A t : InDelete(t) => InDelete(t)'
    BY <2>1, <2>2, FlushTakesAll, Zenon
  <2> QED BY <1>1, <2>1, <2>3, Zenon
<1>3. CASE DeleteBatch(s)
  <2>1. UNCHANGED orphaned
    BY <1>3, Zenon DEF DeleteBatch
  <2> QED BY <1>1, <1>3, <2>1, DeletedBatch, Zenon
<1>4. CASE DeleteGivesUp(s)
  <2>1. UNCHANGED rows
    BY <1>4, Zenon DEF DeleteGivesUp
  <2> QED BY <1>1, <1>4, <2>1, GivingUpKeepsIdle, Zenon
<1>5. CASE PruneLook(s) \/ PruneDelete(s) \/ PruneFails(s)
  <2>1. rows' \subseteq rows /\ UNCHANGED <<deleteQueue, flusher, orphaned>>
    BY <1>5, Zenon DEF PruneLook, PruneDelete, PruneFails, Delete
  <2> QED BY <1>1, <2>1, Zenon DEF FlushersIdle, InDelete
<1> QED BY <1>2, <1>3, <1>4, <1>5, Zenon DEF Persists

LEMMA PersistenceKeepsOwed ==
    ASSUME DeliveryInv, AccountInv, NEW s \in Servers, Persists(s)
    PROVE  AccountInv'
<1>1. /\ UNCHANGED <<phase, loop, batch, queue, worker>> /\ FlushersIdle'
      /\ orphaned \subseteq orphaned' /\ rows' \subseteq rows
      /\ \A t : t \in rows' /\ InDelete(t) => Owed(t)'
  BY PersistenceShrinks, Zenon DEF AccountInv, Owed
<1>2. \A w \in Workers : worker[w].pc = "sending" => worker'[w] = worker[w]
  BY <1>1, Zenon
<1>3. \A t \in rows' : Owed(t) => Owed(t)'
  BY <1>1, <1>2, OwedFrame, QueueOwed, PushOwed, SendOwed, Zenon
<1> QED BY <1>1, <1>3, Zenon DEF AccountInv, AllOwed

LEMMA LifeKeepsOwed ==
    ASSUME DeliveryInv, AccountInv, Start \/ CloseQueues \/ CloseStopCh \/ ClosePersistence \/ Down
    PROVE  AccountInv'
<1>1. CASE Start
  <2>1. UNCHANGED <<rows, flusher>>
    BY <1>1, Zenon DEF Start
  <2>2. ASSUME NEW t \in rows PROVE Owed(t)'
    <3>1. PICK loaded \in [Servers -> SUBSET rows] :
            queue' = loaded /\ orphaned' = rows \ UNION {loaded[s] : s \in Servers}
      BY <1>1, Zenon DEF Start
    <3> QED BY <2>2, <3>1, Zenon DEF Owed, InQueue
  <2> QED BY <2>1, <2>2, Zenon DEF AccountInv, FlushersIdle, AllOwed
<1>2. CASE CloseQueues \/ CloseStopCh \/ ClosePersistence
  BY <1>2, Zenon DEF CloseQueues, CloseStopCh, ClosePersistence, memory, AccountInv, FlushersIdle
<1>3. CASE Down
  BY <1>3, Zenon DEF Down, Fresh, AccountInv, FlushersIdle
<1> QED BY <1>1, <1>2, <1>3, Zenon

LEMMA StepKeepsOwed ==
    ASSUME DeliveryInv, AccountInv, [Next]_vars
    PROVE  AccountInv'
<1>1. CASE UNCHANGED vars
  <2>1. UNCHANGED <<phase, loop, batch, queue, worker, deleteQueue, flusher, rows, orphaned>>
    BY <1>1, Zenon DEF vars, memory
  <2> QED BY <2>1, Zenon DEF AccountInv, FlushersIdle, AllOwed, Owed, InQueue, InPush, InSend, InDelete
<1>2. CASE Next
  BY SMTT(30), <1>2, CommitKeepsOwed, InsertKeepsOwed, PushNextKeepsOwed, PopKeepsOwed, SenderKeepsOwed,
     AnsweredKeepsOwed, FailedKeepsOwed, PersistenceKeepsOwed, LifeKeepsOwed DEF Next, Persists
<1> QED BY <1>1, <1>2, Zenon

LEMMA InitialAccount == Init => AccountInv
<1> SUFFICES ASSUME Init PROVE AccountInv
  BY Zenon
<1>1. phase = "down" /\ flusher = [s \in Servers |-> [pc |-> "idle", hashes |-> <<>>]]
  BY Zenon DEF Init, Fresh
<1> QED BY <1>1, Zenon DEF AccountInv, FlushersIdle

(* While the transmitter runs every row of the table is somebody's to deal *)
(* with: queued, about to be pushed, being sent or in a delete queue, or   *)
(* one of those known to be nobody's, whatever the commit, transmit, flush *)
(* and prune loops do at the same time (queue.go, server.go,               *)
(* persistence_manager.go). Any numbers of loops and sizes of queues.      *)
THEOREM RowsAccountedForHolds == Spec => []RowsAccountedFor
<1>1. Init => AccountInv
  BY InitialAccount, Zenon
<1>2. AccountInv => RowsAccountedFor
  BY AllOwedIsAccountedFor, Zenon DEF AccountInv
<1>3. DeliveryInv /\ AccountInv /\ [Next]_vars => (DeliveryInv /\ AccountInv)'
  BY EveryStep, StepKeepsOwed, Zenon
<1> QED BY <1>1, <1>2, <1>3, InitialInv, PTL DEF Spec

-----------------------------------------------------------------------------
(* The last pruning. The n newest of a set of transmissions exist: the     *)
(* smallest set with at least n of them that leaves no newer one out.      *)

LEMMA LeastSeqNr ==
    ASSUME NEW U \in SUBSET Transmission, U # {}
    PROVE  \E x \in U : \A y \in U : seqNr(x) <= seqNr(y)
<1> DEFINE S == {seqNr(t) : t \in U}
<1>1. S \subseteq Nat /\ S # {}
  BY DataEngineAssumption DEF seqNr, Transmission
<1>2. PICK m \in S : \A y \in S : ~ (<<y, m>> \in OpToRel(<, Nat))
  BY <1>1, NatLessThanWellFounded, WFMin, Zenon
<1>3. ASSUME NEW y \in S PROVE m <= y
  <2>1. <<y, m>> \in Nat \X Nat /\ ~ (<<y, m>> \in OpToRel(<, Nat))
    BY <1>1, <1>2, Zenon
  <2>2. ~ (y < m)
    BY <2>1, Zenon DEF OpToRel
  <2>3. m \in Nat /\ y \in Nat
    BY <1>1, Zenon
  <2> QED BY <2>2, <2>3
<1>4. PICK x \in U : seqNr(x) = m
  BY Zenon
<1> QED BY <1>3, <1>4, Zenon

LEMMA NewestExists ==
    ASSUME NEW T \in SUBSET Transmission, NEW n \in Nat
    PROVE  \E K : K \in Newest(T, n)
<1> DEFINE m == IF Cardinality(T) < n THEN Cardinality(T) ELSE n
           Above(U) == \A k \in U, o \in T \ U : seqNr(k) >= seqNr(o)
           B == {U \in SUBSET T : Cardinality(U) >= m /\ Above(U)}
<1>1. IsFiniteSet(T) /\ Cardinality(T) \in Nat
  BY FiniteTransmission, FS_Subset, FS_CardinalityType, Zenon
<1>2. m \in Nat /\ m <= Cardinality(T)
  BY <1>1
<1>3. \A k \in Transmission : seqNr(k) \in Nat
  BY DataEngineAssumption, Zenon DEF seqNr, Transmission
<1>4. T \in B
  BY <1>1, <1>2, Zenon
<1>5. IsWellFoundedOn(StrictSubsetOrdering(T), SUBSET T)
  BY <1>1, FS_StrictSubsetOrderingWellFounded, FS_FiniteSubsetsOfFinite, Zenon
<1>6. B \subseteq SUBSET T /\ B # {}
  BY <1>4, Zenon
<1> HIDE DEF B
<1>7. PICK U \in B : \A V \in B : ~ (<<V, U>> \in StrictSubsetOrdering(T))
  BY <1>5, <1>6, WFMin, Zenon
<1>8. U \in SUBSET T /\ Cardinality(U) >= m /\ Above(U)
  BY <1>7, Zenon DEF B
<1>9. IsFiniteSet(U) /\ Cardinality(U) \in Nat
  BY <1>1, <1>8, FS_Subset, FS_CardinalityType, Zenon
<1> HIDE DEF m
<1>10. ASSUME Cardinality(U) # m PROVE FALSE
  <2>1. Cardinality(U) > m /\ Cardinality(U) # 0
    BY <1>2, <1>8, <1>9, <1>10
  <2>2. U # {}
    BY <2>1, FS_EmptySet, Zenon
  <2>3. PICK x \in U : \A y \in U : seqNr(x) <= seqNr(y)
    BY <1>8, <2>2, LeastSeqNr, Zenon
  <2> DEFINE V == U \ {x}
  <2>4. Cardinality(V) = Cardinality(U) - 1
    BY <1>9, FS_RemoveElement, Zenon
  <2>5. Above(V)
    <3>1. ASSUME NEW k \in V, NEW o \in T \ V PROVE seqNr(k) >= seqNr(o)
      <4>1. seqNr(k) \in Nat /\ seqNr(x) \in Nat /\ k \in U /\ seqNr(x) <= seqNr(k)
        BY <1>3, <1>8, <2>3, Zenon
      <4>2. CASE o = x
        BY <4>1, <4>2, Zenon
      <4>3. CASE o # x
        <5>1. o \in T \ U
          BY <4>3, Zenon
        <5> QED BY <1>8, <4>1, <5>1, Zenon
      <4> QED BY <4>2, <4>3, Zenon
    <3> QED BY <3>1, Zenon
  <2>6. V \in SUBSET T /\ Cardinality(V) >= m
    BY <1>2, <1>8, <1>9, <2>1, <2>4
  <2>7. V \in B
    BY <2>5, <2>6, Zenon DEF B
  <2>8. <<V, U>> \in StrictSubsetOrdering(T)
    BY <1>8, <2>3, <2>6, Zenon DEF StrictSubsetOrdering
  <2> QED BY <1>7, <2>7, <2>8, Zenon
<1> QED BY <1>8, <1>10, Zenon DEF Newest, m

(* Prune finds nothing to do only where there is nothing to do.            *)
LEMMA NothingOlder ==
    ASSUME DeliveryInv, NEW s \in Servers, OldestKept(s) = {}
    PROVE  Cardinality(For(s, rows)) <= MaxRows
<1> DEFINE T == For(s, rows)
<1>1. T \in SUBSET Transmission /\ MaxRows \in Nat
  BY DataEngineAssumption, Zenon DEF For, DeliveryInv, TableInv, MaxRows
<1>2. IsFiniteSet(T) /\ Cardinality(T) \in Nat
  BY <1>1, FiniteTransmission, FS_Subset, FS_CardinalityType, Zenon
<1> SUFFICES ASSUME ~ (Cardinality(T) <= MaxRows) PROVE FALSE
  BY Zenon
<1> HIDE DEF T
<1>3. PICK K : K \in Newest(T, MaxRows)
  BY <1>1, NewestExists, Zenon
<1>4. K \subseteq T /\ Cardinality(K) = MaxRows
  BY <1>1, <1>2, <1>3 DEF Newest
<1>5. T \ K # {} /\ T \ K \in SUBSET Transmission /\ T \ K \in SUBSET T
  BY <1>1, <1>2, <1>4
<1>6. PICK L : L \in Newest(T \ K, 1)
  BY <1>5, NewestExists, Zenon
<1>7. IsFiniteSet(T \ K) /\ Cardinality(T \ K) \in Nat /\ Cardinality(T \ K) # 0
  BY <1>2, <1>5, FS_Subset, FS_CardinalityType, FS_EmptySet, Zenon
<1>8. /\ L \subseteq T \ K /\ Cardinality(L) = 1
      /\ \A k \in L, o \in (T \ K) \ L : seqNr(k) >= seqNr(o)
  BY <1>6, <1>7 DEF Newest
<1>9. IsFiniteSet(L)
  BY <1>7, <1>8, FS_Subset, Zenon
<1>10. PICK u : L = {u}
  BY <1>8, <1>9, FS_Singleton, Zenon
<1>11. u \in T \ K /\ \A v \in T \ K : seqNr(v) <= seqNr(u)
  <2>1. u \in T \ K /\ \A v \in T \ K : seqNr(v) \in Nat
    BY <1>5, <1>8, <1>10, DataEngineAssumption, Zenon DEF seqNr, Transmission
  <2> QED BY <1>8, <1>10, <2>1
<1>12. seqNr(u) \in OldestKept(s)
  BY <1>3, <1>11, Zenon DEF OldestKept, T
<1> QED BY <1>12, Zenon

(* The rows of server s that are left to the prune loop.                   *)
Unclaimed(s) == {t \in For(s, rows) : ~ InDelete(t) /\ t \notin orphaned}

PrunerInv(s) ==
    /\ pruner[s].pc = "exited" => phase = "closing" /\ Cardinality(Unclaimed(s)) <= MaxRows
    /\ pruner[s].last = TRUE => phase = "closing"

EndInv ==
    /\ pruner \in [Servers -> [pc : {"idle", "pruning", "exited", "failed"}, oldest : Nat, last : BOOLEAN]]
    /\ phase = "closing" => LoopsDone
    /\ \A s \in Servers : PrunerInv(s)

LEMMA UnclaimedBound ==
    ASSUME DeliveryInv, NEW s \in Servers, NEW T \in SUBSET Unclaimed(s)
    PROVE  /\ IsFiniteSet(T) /\ Cardinality(T) \in Nat /\ MaxRows \in Nat
           /\ Cardinality(Unclaimed(s)) <= MaxRows => Cardinality(T) <= MaxRows
<1>1. Unclaimed(s) \in SUBSET Transmission
  BY Zenon DEF Unclaimed, For, DeliveryInv, TableInv
<1>2. IsFiniteSet(Unclaimed(s))
  BY <1>1, FiniteTransmission, FS_Subset, Zenon
<1>3. /\ Cardinality(Unclaimed(s)) \in Nat /\ Cardinality(T) \in Nat /\ IsFiniteSet(T)
      /\ Cardinality(T) <= Cardinality(Unclaimed(s))
  BY <1>2, FS_Subset, FS_CardinalityType, Zenon
<1>4. MaxRows \in Nat
  BY DataEngineAssumption, Zenon DEF MaxRows
<1> QED BY <1>3, <1>4

LEMMA EndImpliesTruncated == DeliveryInv /\ EndInv => CloseTruncates
<1> SUFFICES ASSUME DeliveryInv, EndInv, NEW s \in Servers, pruner[s].pc = "exited"
             PROVE  Cardinality(For(s, rows) \ (ToDelete \cup orphaned)) <= MaxRows
  BY Zenon DEF CloseTruncates
<1>1. \A t : InDelete(t) => t \in ToDelete
  BY Zenon DEF InDelete, ToDelete
<1>2. For(s, rows) \ (ToDelete \cup orphaned) \in SUBSET Unclaimed(s)
  BY <1>1, Zenon DEF Unclaimed
<1>3. Cardinality(Unclaimed(s)) <= MaxRows
  BY Zenon DEF EndInv, PrunerInv
<1> QED BY <1>2, <1>3, UnclaimedBound, Zenon

(* Facts about sizes.                                                      *)
LEMMA CappedSize ==
    ASSUME NEW n \in Nat, NEW cap \in Nat, NEW k, k = IF n < cap THEN n ELSE cap
    PROVE  k <= cap
OBVIOUS

LEMMA SmallerSize ==
    ASSUME NEW a \in Nat, NEW b \in Nat, NEW cap \in Nat, a <= b, b <= cap
    PROVE  a <= cap
OBVIOUS

(* What the last pruning leaves.                                           *)
LEMMA PrunedIsEnough ==
    ASSUME DeliveryInv, NEW s \in Servers, PruneDelete(s)
    PROVE  Cardinality(Unclaimed(s)') <= MaxRows
<1> DEFINE T == For(s, rows)
<1>1. T \in SUBSET Transmission /\ MaxRows \in Nat /\ IsFiniteSet(T)
  <2>1. T \in SUBSET Transmission
    BY Zenon DEF For, DeliveryInv, TableInv
  <2> QED BY <2>1, DataEngineAssumption, FiniteTransmission, FS_Subset, Zenon DEF MaxRows
<1>2. PICK locked \in {{}, Elements(flusher[s].hashes)} :
        \E old \in Pruned(s, pruner[s].oldest, locked) : rows' = rows \ old
  BY Zenon DEF PruneDelete, Delete
<1>3. PICK old \in Pruned(s, pruner[s].oldest, locked) : rows' = rows \ old
  BY <1>2, Zenon
<1> DEFINE older == {t \in T : seqNr(t) < pruner[s].oldest} \ locked
<1>4. PICK K \in Newest(T \ older, MaxRows) : old = (T \ K) \ locked
  BY <1>3, Zenon DEF Pruned
<1>5. K \in SUBSET T /\ Cardinality(K) <= MaxRows /\ Cardinality(K) \in Nat /\ IsFiniteSet(K)
  <2>1. /\ K \in SUBSET T
        /\ Cardinality(K) = IF Cardinality(T \ older) < MaxRows THEN Cardinality(T \ older) ELSE MaxRows
    BY <1>4, Zenon DEF Newest
  <2>2. IsFiniteSet(K) /\ Cardinality(K) \in Nat
    BY <1>1, <2>1, FS_Subset, FS_CardinalityType, Zenon
  <2>3. Cardinality(T \ older) \in Nat
    BY <1>1, FS_Difference, FS_CardinalityType, Zenon
  <2> HIDE DEF T, older
  <2>4. Cardinality(K) <= MaxRows
    BY <1>1, <2>1, <2>3, CappedSize, Zenon
  <2> QED BY <2>1, <2>2, <2>4, Zenon
<1>6. Unclaimed(s)' \subseteq K
  <2>1. UNCHANGED <<flusher, deleteQueue, orphaned>>
    BY Zenon DEF PruneDelete
  <2>2. ASSUME NEW t \in Unclaimed(s)' PROVE t \in K
    <3>1. t \in rows' /\ t.server = s /\ ~ InDelete(t)'
      BY <2>2, Zenon DEF Unclaimed, For
    <3>2. t \in T /\ t \notin old
      BY <1>3, <3>1, Zenon DEF For
    <3>3. t \notin locked
      BY <1>2, <2>1, <3>1, Zenon DEF InDelete
    <3> QED BY <1>4, <3>2, <3>3, Zenon
  <2> QED BY <2>2, Zenon
<1>7. Cardinality(Unclaimed(s)') <= Cardinality(K) /\ Cardinality(Unclaimed(s)') \in Nat
  BY <1>5, <1>6, FS_Subset, FS_CardinalityType, Zenon
<1> HIDE DEF T
<1> QED BY <1>1, <1>5, <1>7, SmallerSize, Zenon

(* While the persistence managers close nothing new comes into the table.  *)
LEMMA UnclaimedShrinks ==
    ASSUME DeliveryInv, FlushersIdle, NEW u \in Servers, Persists(u), NEW s \in Servers,
           Cardinality(Unclaimed(s)) <= MaxRows
    PROVE  Cardinality(Unclaimed(s)') <= MaxRows
<1>1. Unclaimed(s)' \in SUBSET Unclaimed(s)
  <2>1. /\ orphaned \subseteq orphaned' /\ rows' \subseteq rows
        /\ \A t : t \in rows' /\ InDelete(t) => InDelete(t)' \/ t \in orphaned'
    BY PersistenceShrinks, Zenon
  <2> QED BY <2>1, Zenon DEF Unclaimed, For
<1> QED BY <1>1, UnclaimedBound, Zenon

LEMMA PruneStepEnds ==
    ASSUME DeliveryInv, FlushersIdle, EndInv, NEW s \in Servers, Persists(s)
    PROVE  EndInv'
<1>1. /\ UNCHANGED <<phase, loop, worker>>
      /\ pruner \in [Servers -> [pc : {"idle", "pruning", "exited", "failed"}, oldest : Nat, last : BOOLEAN]]
      /\ (phase = "closing" => LoopsDone)'
  BY PersistenceShrinks, Zenon DEF EndInv, LoopsDone
<1>2. ASSUME NEW p \in [pc : {"idle", "pruning", "exited", "failed"}, oldest : Nat, last : BOOLEAN],
             pruner' = [pruner EXCEPT ![s] = p],
             p.last = TRUE => phase = "closing",
             p.pc = "exited" => phase = "closing" /\ Cardinality(Unclaimed(s)') <= MaxRows
      PROVE  EndInv'
  <2>1. /\ pruner' \in [Servers -> [pc : {"idle", "pruning", "exited", "failed"}, oldest : Nat, last : BOOLEAN]]
        /\ pruner'[s] = p /\ \A u \in Servers : u # s => pruner'[u] = pruner[u]
    BY <1>1, <1>2, Zenon
  <2>2. ASSUME NEW u \in Servers PROVE PrunerInv(u)'
    <3>1. CASE u = s
      BY <1>1, <1>2, <2>1, <3>1, Zenon DEF PrunerInv
    <3>2. CASE u # s
      <4>1. PrunerInv(u) /\ pruner'[u] = pruner[u]
        BY <2>1, <3>2, Zenon DEF EndInv
      <4>2. Cardinality(Unclaimed(u)) <= MaxRows => Cardinality(Unclaimed(u)') <= MaxRows
        BY UnclaimedShrinks, Zenon
      <4> QED BY <1>1, <4>1, <4>2, Zenon DEF PrunerInv
    <3> QED BY <3>1, <3>2, Zenon
  <2> QED BY <1>1, <2>1, <2>2, Zenon DEF EndInv
<1>3. CASE UNCHANGED pruner
  <2>1. ASSUME NEW u \in Servers PROVE PrunerInv(u)'
    <3>1. PrunerInv(u)
      BY Zenon DEF EndInv
    <3>2. Cardinality(Unclaimed(u)) <= MaxRows => Cardinality(Unclaimed(u)') <= MaxRows
      BY UnclaimedShrinks, Zenon
    <3> QED BY <1>1, <1>3, <3>1, <3>2, Zenon DEF PrunerInv
  <2> QED BY <1>1, <1>3, <2>1, Zenon DEF EndInv
<1>4. CASE PruneLook(s)
  <2>1. UNCHANGED <<rows, deleteQueue, flusher, orphaned>> /\ pruner[s].pc = "idle"
    BY <1>4, Zenon DEF PruneLook
  <2>2. CASE OldestKept(s) = {} /\ PmStopped /\ pruner' = [pruner EXCEPT ![s].pc = "exited"]
    <3>1. Unclaimed(s)' \in SUBSET For(s, rows)
      BY <2>1, Zenon DEF Unclaimed, For
    <3>2. Cardinality(For(s, rows)) <= MaxRows
      BY <2>2, NothingOlder, Zenon
    <3>3. /\ Cardinality(For(s, rows)) \in Nat /\ Cardinality(Unclaimed(s)') \in Nat /\ MaxRows \in Nat
          /\ Cardinality(Unclaimed(s)') <= Cardinality(For(s, rows))
      <4>1. For(s, rows) \in SUBSET Transmission
        BY Zenon DEF For, DeliveryInv, TableInv
      <4> QED BY <3>1, <4>1, DataEngineAssumption, FiniteTransmission, FS_Subset, FS_CardinalityType, Zenon
              DEF MaxRows
    <3> DEFINE p == [pruner[s] EXCEPT !.pc = "exited"]
    <3>4. /\ p \in [pc : {"idle", "pruning", "exited", "failed"}, oldest : Nat, last : BOOLEAN]
          /\ pruner' = [pruner EXCEPT ![s] = p]
      BY <1>1, <2>2, Zenon
    <3>5. phase = "closing" /\ Cardinality(Unclaimed(s)') <= MaxRows
      BY <2>2, <3>2, <3>3 DEF PmStopped
    <3> HIDE DEF p
    <3> QED BY <1>2, <3>4, <3>5, Zenon
  <2>3. ASSUME NEW o \in OldestKept(s),
               pruner' = [pruner EXCEPT ![s] = [pc |-> "pruning", oldest |-> o, last |-> PmStopped]]
        PROVE  EndInv'
    <3>1. o \in Nat /\ PmStopped \in BOOLEAN /\ (PmStopped = TRUE => phase = "closing")
      BY <2>3, DataEngineAssumption, Zenon DEF OldestKept, For, DeliveryInv, TableInv, seqNr, Transmission, PmStopped
    <3> DEFINE p == [pc |-> "pruning", oldest |-> o, last |-> PmStopped]
    <3>2. /\ p \in [pc : {"idle", "pruning", "exited", "failed"}, oldest : Nat, last : BOOLEAN]
          /\ p.pc = "pruning" /\ p.last = PmStopped
      BY <3>1, Zenon
    <3>3. pruner' = [pruner EXCEPT ![s] = p]
      BY <2>3, Zenon
    <3> HIDE DEF p
    <3> QED BY <1>2, <3>1, <3>2, <3>3, Zenon
  <2> QED BY <1>4, <2>2, <2>3, Zenon DEF PruneLook
<1>5. CASE PruneDelete(s) \/ PruneFails(s)
  <2>1. PICK pc \in {"idle", "exited", "failed"} :
          /\ pruner' = [pruner EXCEPT ![s] = [pc |-> pc, oldest |-> 0, last |-> FALSE]]
          /\ pc = "exited" => pruner[s].last /\ PruneDelete(s)
    BY <1>1, <1>5, Zenon DEF PruneDelete, PruneFails
  <2> DEFINE p == [pc |-> pc, oldest |-> 0, last |-> FALSE]
  <2>2. /\ p \in [pc : {"idle", "pruning", "exited", "failed"}, oldest : Nat, last : BOOLEAN]
        /\ p.pc = pc /\ p.last = FALSE
    BY Zenon
  <2>3. pc = "exited" => phase = "closing" /\ Cardinality(Unclaimed(s)') <= MaxRows
    <3>1. PrunerInv(s) /\ pruner[s].last \in BOOLEAN
      BY <1>1, Zenon DEF EndInv
    <3> QED BY <2>1, <3>1, PrunedIsEnough, Zenon DEF PrunerInv
  <2> HIDE DEF p
  <2>4. pruner' = [pruner EXCEPT ![s] = p]
    BY <2>1, Zenon DEF p
  <2> QED BY <1>2, <2>2, <2>3, <2>4, Zenon
<1>6. CASE FlushTick(s) \/ DeleteBatch(s) \/ DeleteGivesUp(s) \/ FlushStop(s)
  BY <1>3, <1>6, Zenon DEF FlushTick, DeleteBatch, DeleteGivesUp, FlushStop
<1> QED BY <1>4, <1>5, <1>6, Zenon DEF Persists

(* The other steps do not happen then, or end the process.                 *)
LEMMA OtherStepEnds ==
    ASSUME EndInv,
           \/ \E r \in Reports, S \in SUBSET Servers : Transmit(r, S)
           \/ \E l \in Loops : \/ ReceiveTransmission(l) \/ CommitTick(l) \/ InsertBatch(l)
                               \/ PushNext(l) \/ StopLoop(l)
           \/ \E w \in Workers : \/ BlockingPop(w) \/ ServerReceives(w) \/ Answered(w)
                                 \/ Failed(w) \/ SendCancelled(w) \/ Backoff(w)
    PROVE  EndInv'
<1>1. UNCHANGED <<phase, pruner>>
  BY Zenon DEF Transmit, ReceiveTransmission, CommitTick, InsertBatch, PushNext, StopLoop, BlockingPop,
         ServerReceives, Answered, Failed, SendCancelled, Backoff, memory
<1>2. phase # "closing"
  <2> SUFFICES ASSUME phase = "closing" PROVE FALSE
    BY Zenon
  <2>1. (\A l \in Loops : loop[l] = "exited") /\ (\A w \in Workers : worker[w].pc = "exited")
    BY Zenon DEF EndInv, LoopsDone
  <2> QED BY <2>1, Zenon DEF Transmit, ReceiveTransmission, CommitTick, InsertBatch, PushNext, StopLoop,
                      BlockingPop, ServerReceives, Answered, Failed, SendCancelled, Backoff
<1> QED BY <1>1, <1>2, Zenon DEF EndInv, PrunerInv

LEMMA LifeStepEnds ==
    ASSUME EndInv, Start \/ CloseQueues \/ CloseStopCh \/ ClosePersistence \/ Down
    PROVE  EndInv'
<1>1. CASE Start \/ CloseQueues \/ CloseStopCh
  <2>1. UNCHANGED pruner /\ phase # "closing" /\ phase' # "closing"
    BY <1>1, Zenon DEF Start, CloseQueues, CloseStopCh, memory
  <2> QED BY <2>1, Zenon DEF EndInv, PrunerInv
<1>2. CASE ClosePersistence
  <2>1. UNCHANGED <<pruner, loop, worker>> /\ phase # "closing" /\ phase' = "closing" /\ LoopsDone
    BY <1>2, Zenon DEF ClosePersistence, memory
  <2> QED BY <2>1, Zenon DEF EndInv, PrunerInv, LoopsDone
<1>3. CASE Down
  <2>1. /\ phase' = "down"
        /\ pruner' = [s \in Servers |-> [pc |-> "idle", oldest |-> 0, last |-> FALSE]]
    BY <1>3, Zenon DEF Down, Fresh
  <2> QED BY <2>1, Zenon DEF EndInv, PrunerInv
<1> QED BY <1>1, <1>2, <1>3, Zenon

(* After a Close() whose last pruning worked the table holds at most the   *)
(* configured number of rows for each server, besides those whose deletion *)
(* is queued and those that are nobody's: no commit loop inserts behind    *)
(* the prune loop's back, the flush loop gives nothing back, and the look  *)
(* for the oldest row to keep misses none (persistence_manager.go, orm.go).*)
THEOREM CloseTruncatesHolds == Spec => []CloseTruncates
<1>1. Init => AccountInv /\ EndInv
  <2>1. ASSUME Init PROVE EndInv
    <3>1. phase = "down" /\ pruner = [s \in Servers |-> [pc |-> "idle", oldest |-> 0, last |-> FALSE]]
      BY <2>1, Zenon DEF Init, Fresh
    <3> QED BY <3>1, Zenon DEF EndInv, PrunerInv
  <2> QED BY <2>1, InitialAccount, Zenon
<1>2. DeliveryInv /\ AccountInv /\ EndInv /\ [Next]_vars => (DeliveryInv /\ AccountInv /\ EndInv)'
  <2> SUFFICES ASSUME DeliveryInv, AccountInv, EndInv, [Next]_vars
               PROVE  (DeliveryInv /\ AccountInv /\ EndInv)'
    BY Zenon
  <2>1. DeliveryInv' /\ AccountInv'
    BY EveryStep, StepKeepsOwed, Zenon
  <2>2. FlushersIdle
    BY Zenon DEF AccountInv
  <2>3. CASE UNCHANGED vars
    <3>1. UNCHANGED <<phase, pruner, loop, worker, rows, deleteQueue, flusher, orphaned>>
      BY <2>3, Zenon DEF vars, memory
    <3>2. EndInv'
      BY <3>1, Zenon DEF EndInv, PrunerInv, LoopsDone, Unclaimed, InDelete, For
    <3> QED BY <2>1, <3>2, Zenon
  <2>4. CASE Next
    <3>1. EndInv'
      BY <2>2, <2>4, PruneStepEnds, OtherStepEnds, LifeStepEnds, Zenon DEF Next, Persists
    <3> QED BY <2>1, <3>1, Zenon
  <2> QED BY <2>3, <2>4, Zenon
<1> QED BY <1>1, <1>2, InitialInv, EndImpliesTruncated, PTL DEF Spec
=============================================================================
