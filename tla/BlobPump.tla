------------------------------ MODULE BlobPump ------------------------------
(***************************************************************************)
(* The blob pump of one v31 node (llo/dev/v31/blobpump.go): a goroutine    *)
(* that gathers stream values, broadcasts them as a blob and parks the     *)
(* handle; Observation publishes its round and takes what is parked        *)
(* (plugin.go:192-211); the state transition judges how old the values are *)
(* (FreshnessV31).                                                         *)
(*                                                                         *)
(* Rounds go on for ever, so they are counted from the current one, which  *)
(* is round 0: a snapshot has an age, the rounds since its cycle started,  *)
(* and a ttl, the rounds until its blob expires. Both stop at a bound past *)
(* which nothing distinguishes their values.                               *)
(***************************************************************************)
EXTENDS FreshnessV31

CONSTANTS
    BlobFetchMarginRounds,
    BlobLifetimeRounds,      \* resolved by ResolveBlobLifetimeRounds
    BlobBroadcastAttempts,
    StallTime                \* how long a stalled round takes; other rounds take 1

ASSUME PumpAssumption ==
    /\ {BlobFetchMarginRounds, BlobLifetimeRounds, StallTime} \subseteq Nat
    /\ BlobBroadcastAttempts \in Nat \ {0}
    /\ BlobLifetimeRounds > BlobFetchMarginRounds
    /\ \A interval \in {1, DeltaRound} : StallTime > MaxStreamValueAgeRounds * interval

VARIABLE pump
(* pump.input     rounds since SetInput was last called, or Absent         *)
(*     .latest    the parked snapshot [age, ttl], or Absent                *)
(*     .referenced, .inFlight, .trigger                                    *)
(*     .cycle     the goroutine: [at, age, attempt, ttl]                   *)
(*     .take      Observation: idle, set, waiting, released, leaving, done *)
(*     .took      the snapshot that this round's Take returned, or Absent  *)
(*     .window    agreed timestamps, counted from the oldest of them       *)
(*     .settled   the data source and the blob transport work from now on  *)
(*     .closed    Close was called                                         *)

AgeBound == MaxStreamValueAgeRounds + 1

Older(n) == IF n >= AgeBound THEN AgeBound ELSE n + 1

Sooner(n) == IF n = 0 THEN 0 ELSE n - 1

Idle == [at |-> "idle", age |-> 0, attempt |-> 0, ttl |-> 0]

PumpInit ==
    pump = [input |-> Absent, latest |-> Absent, referenced |-> FALSE, inFlight |-> FALSE,
            trigger |-> FALSE, cycle |-> Idle, take |-> "idle", took |-> Absent,
            window |-> <<0>>, settled |-> FALSE, closed |-> FALSE]

-----------------------------------------------------------------------------
(* What a round may reference.                                             *)

IsFetchable(snap) == snap.ttl >= BlobFetchMarginRounds

IsWithinRoundAge(snap) == snap.age <= MaxStreamValueAgeRounds

IsUsable(snap) == snap # Absent /\ IsFetchable(snap) /\ IsWithinRoundAge(snap)

-----------------------------------------------------------------------------
(* Observation of the current round.                                       *)

SetInput ==
    /\ pump.take = "idle" /\ ~pump.closed
    /\ pump' = [pump EXCEPT !.input = 0, !.take = "set"]

NothingNew == pump.referenced \/ ~IsUsable(pump.latest)

(* Take finds nothing new while a cycle is in flight.                      *)
TakeWaits ==
    /\ pump.take = "set" /\ NothingNew /\ pump.inFlight
    /\ pump' = [pump EXCEPT !.take = "waiting"]

(* The wait ends because the cycle did, because it took too long or the    *)
(* round was cancelled, or because the pump is closing.                    *)
WaitEnds ==
    /\ pump.take = "waiting" /\ (~pump.settled \/ pump.closed)
    /\ pump' = [pump EXCEPT !.take = "released"]

(* take and the verdict of Take on what it returned.                       *)
Look ==
    /\ \/ pump.take = "set" /\ ~(NothingNew /\ pump.inFlight)
       \/ pump.take = "released"
    /\ pump' = [pump EXCEPT
         !.took = IF IsUsable(pump.latest) THEN pump.latest ELSE Absent,
         !.referenced = IF pump.latest = Absent THEN @ ELSE TRUE,
         !.take = "leaving"]

(* Mutant: only a round that took a snapshot asks for another.             *)
KickOnHit == pump.took # Absent

(* kick: always, and a full channel is left alone.                         *)
Kicks == TRUE

Kick ==
    /\ pump.take = "leaving"
    /\ pump' = [pump EXCEPT !.trigger = @ \/ Kicks, !.take = "done"]

-----------------------------------------------------------------------------
(* The goroutine.                                                          *)

ReceiveTrigger ==
    /\ pump.cycle.at = "idle" /\ pump.trigger
    /\ pump' = [pump EXCEPT !.trigger = FALSE, !.cycle.at = "woken"]

(* cycle copies the input under the mutex; without one it returns.         *)
ReadInput ==
    /\ pump.cycle.at = "woken"
    /\ pump' = [pump EXCEPT !.cycle = IF pump.input = Absent THEN Idle
                                      ELSE [Idle EXCEPT !.at = "read", !.age = pump.input]]

BeginCycle ==
    /\ pump.cycle.at = "read"
    /\ pump' = [pump EXCEPT !.inFlight = TRUE, !.cycle.at = "observe"]

(* broadcast: the expiration of an attempt counts from the latest round    *)
(* that Observation published.                                             *)
ExpirationTtl(age) ==
    BlobLifetimeRounds - (IF pump.input < age THEN pump.input ELSE age)

Attempt ==
    /\ pump.cycle.at \in {"observe", "retry"}
    /\ pump' = [pump EXCEPT !.cycle.at = "broadcast", !.cycle.attempt = @ + 1,
                            !.cycle.ttl = IF ExpirationTtl(pump.cycle.age) > 0
                                          THEN ExpirationTtl(pump.cycle.age) ELSE 0]

BroadcastFails ==
    /\ pump.cycle.at = "broadcast" /\ ~pump.settled /\ ~pump.closed
    /\ pump.cycle.attempt < BlobBroadcastAttempts
    /\ pump' = [pump EXCEPT !.cycle.at = "retry"]

(* endCycle clears inFlight and releases the Take that waits.              *)
Ended(p) ==
    [p EXCEPT !.cycle = Idle, !.inFlight = FALSE,
              !.take = IF p.take = "waiting" THEN "released" ELSE @]

(* An error, a timeout, a panic, no values, or the last failed attempt.    *)
CycleFails ==
    /\ pump.cycle.at \in {"observe", "broadcast", "retry"}
    /\ \/ pump.closed
       \/ /\ ~pump.settled
          /\ pump.cycle.at = "broadcast" => pump.cycle.attempt = BlobBroadcastAttempts
    /\ pump' = Ended(pump)

(* park, then endCycle in a critical section of its own.                   *)
Park ==
    /\ pump.cycle.at = "broadcast"
    /\ pump' = [pump EXCEPT !.latest = [age |-> pump.cycle.age, ttl |-> pump.cycle.ttl],
                            !.referenced = FALSE, !.cycle.at = "parked"]

EndCycle ==
    /\ pump.cycle.at = "parked"
    /\ pump' = Ended(pump)

Stop ==
    /\ pump.closed /\ pump.cycle.at \in {"idle", "woken"}
    /\ pump' = [pump EXCEPT !.cycle = [Idle EXCEPT !.at = "stopped"]]

-----------------------------------------------------------------------------
(* The environment.                                                        *)

(* Close cancels the context of the cycle.                                 *)
ClosePump ==
    /\ ~pump.closed
    /\ pump' = [pump EXCEPT !.closed = TRUE]

(* The intervals between the rounds of the window.                         *)
Intervals == [i \in 1 .. Len(pump.window) - 1 |-> pump.window[i + 1] - pump.window[i]]

Aged(snap) == [snap EXCEPT !.age = Older(@), !.ttl = Sooner(@)]

(* The next round, observed by this node or not, after interval. A node    *)
(* that has settled takes part in every round, and a round lasts longer    *)
(* than it takes to schedule a goroutine that is ready. A window has at    *)
(* most one stall, as SnapshotsInTime speaks of no more.                   *)
NextRound(interval) ==
    /\ ~pump.closed
    /\ interval = StallTime => \A i \in DOMAIN Intervals : Intervals[i] # StallTime
    /\ pump.take = "done" \/ (pump.take = "idle" /\ ~pump.settled)
    /\ pump.settled => /\ pump.cycle.at \notin {"woken", "read"}
                       /\ ~(pump.cycle.at = "idle" /\ pump.trigger)
    /\ pump' = [pump EXCEPT
         !.take = "idle", !.took = Absent,
         !.input = IF @ = Absent THEN Absent ELSE Older(@),
         !.latest = IF @ = Absent THEN Absent ELSE Aged(@),
         !.cycle = IF @.at \in {"idle", "woken", "stopped"} THEN @ ELSE Aged(@),
         !.window = LET w == AppendAgreedTimestamp(@, @[Len(@)] + interval)
                    IN [i \in DOMAIN w |-> w[i] - w[1]]]

Settle ==
    /\ ~pump.settled /\ ~pump.closed
    /\ pump' = [pump EXCEPT !.settled = TRUE]

PumpGoroutine ==
    \/ ReceiveTrigger \/ ReadInput \/ BeginCycle \/ Attempt \/ Park \/ EndCycle \/ Stop
    \/ CycleFails

ObservationSteps == SetInput \/ TakeWaits \/ Look \/ Kick

PumpNext ==
    /\ pump # Absent
    /\ \/ PumpGoroutine \/ ObservationSteps
       \/ WaitEnds \/ BroadcastFails \/ ClosePump \/ Settle
       \/ \E interval \in {1, StallTime} : NextRound(interval)

(* Goroutines that can run do, and rounds go on.                           *)
PumpFairness ==
    /\ WF_pump(pump # Absent /\ PumpGoroutine)
    /\ WF_pump(pump # Absent /\ ObservationSteps)
    /\ WF_pump(pump # Absent /\ WaitEnds)
    /\ WF_pump(pump # Absent /\ \E interval \in {1, StallTime} : NextRound(interval))

PumpSpec == PumpInit /\ [][PumpNext]_pump /\ PumpFairness

-----------------------------------------------------------------------------
(* The contribution of this round, and what the state transition makes of  *)
(* it.                                                                     *)

Contribution == [cycleStart |-> 0 - pump.took.age]

RoundTime == pump.window[Len(pump.window)]

Contributes == pump # Absent /\ pump.took # Absent

(* A snapshot that an honest pump offers is never stale by rounds, nor     *)
(* older than the window of agreed timestamps, so only time can make the   *)
(* state transition leave it out, however long its cycle took and however  *)
(* often its broadcast was tried.                                          *)
HonestWithinWindow ==
    Contributes =>
        /\ ~StaleByRounds(Contribution, 0)
        /\ ~StaleBeforeWindow(Contribution, 0, pump.window)

(* In a window of steady rounds with a stall, values gathered before the   *)
(* stall are not aggregated, not even by the fallback, and values gathered *)
(* after it are.                                                           *)
PreStallExcluded ==
    Contributes /\ Len(pump.window) = AgreedTimestampWindow =>
        LET stalls == {i \in DOMAIN Intervals : Intervals[i] = StallTime}
            before == \E i \in stalls : i >= Len(pump.window) - pump.took.age
            selected == SelectFreshContributions({Contribution}, 0, RoundTime, pump.window,
                            RoundIntervalEstimate(pump.window), 1)
        IN Cardinality(stalls) <= 1
             => (selected = {} <=> before)

(* SnapshotsInTime: rounds never make an honest snapshot stale, and a stall*)
(* does so exactly for what was gathered before it (blobpump.go:351-360,   *)
(* freshness.go:32-42, 71-73, 128-141, 174-196).                           *)
SnapshotsInTime == HonestWithinWindow /\ PreStallExcluded

(* PumpRecovers: once the data source works, a round without a snapshot is *)
(* followed by one with a snapshot: no miss, discard, failed cycle or      *)
(* missed wake-up stalls the pump for good (blobpump.go:258-262, 461-466). *)
PumpRecovers ==
    pump # Absent /\ pump.settled /\ pump.take = "leaving"
        ~> pump # Absent /\ (pump.closed \/ pump.took # Absent)
=============================================================================
