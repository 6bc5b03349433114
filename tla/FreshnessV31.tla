---------------------------- MODULE FreshnessV31 ----------------------------
(***************************************************************************)
(* Stream value freshness of v31 (llo/dev/v31/freshness.go): which of the  *)
(* round's contributions to a stream are aggregated, decided from data     *)
(* that every oracle has.                                                  *)
(*                                                                         *)
(* A contribution is a record with cycleStart, the round in which its      *)
(* sender's blob pump began to gather it. A window is the sequence of the  *)
(* agreed timestamps of the latest rounds, the current one last.           *)
(***************************************************************************)
EXTENDS Common

CONSTANTS
    SnapshotReuseRounds,   \* rounds that may reference one snapshot
    DeltaRound             \* MinRoundInterval, a floor of the estimated interval

ASSUME FreshnessAssumption == SnapshotReuseRounds \in Nat \ {0} /\ DeltaRound \in Nat

MaxStreamValueAgeRounds == SnapshotReuseRounds + 2

AgreedTimestampWindow == MaxStreamValueAgeRounds + 1

AppendAgreedTimestamp(prev, ts) ==
    LET all == Append(prev, ts)
        excess == Len(all) - AgreedTimestampWindow
    IN IF excess > 0 THEN SubSeq(all, excess + 1, Len(all)) ELSE all

(* Whether the window, whose last entry belongs to round seqNr, has one for *)
(* round at.                                                               *)
InWindow(window, seqNr, at) == at <= seqNr /\ seqNr - at < Len(window)

AgreedTimestampAt(window, seqNr, at) == window[Len(window) - (seqNr - at)]

(* Mutant: the mean of the intervals, which one stall inflates.            *)
MeanInterval(window) ==
    IF Len(window) < 2 THEN 0 ELSE (window[Len(window)] - window[1]) \div (Len(window) - 1)

(* The median of the nonzero intervals between the rounds of the window.   *)
MedianInterval(window) ==
    LET all == [i \in 1 .. Len(window) - 1 |-> window[i + 1] - window[i]]
        nonzero == {i \in DOMAIN all : all[i] > 0}
    IN IF nonzero = {} THEN 0 ELSE all[MedianIndex([i \in nonzero |-> all[i]])]

(* Zero while the cadence is unknown.                                      *)
RoundIntervalEstimate(window) ==
    LET median == MedianInterval(window)
    IN IF median = 0 \/ median > DeltaRound THEN median ELSE DeltaRound

-----------------------------------------------------------------------------
(* selectFreshContributions. The order of the tests is the code's: a       *)
(* contribution stale by rounds is not examined further.                   *)

StaleByRounds(c, seqNr) ==
    c.cycleStart > seqNr \/ seqNr - c.cycleStart > MaxStreamValueAgeRounds

StaleBeforeWindow(c, seqNr, window) ==
    ~StaleByRounds(c, seqNr) /\ ~InWindow(window, seqNr, c.cycleStart)

StaleByTime(c, seqNr, roundTs, window, interval) ==
    /\ ~StaleByRounds(c, seqNr) /\ InWindow(window, seqNr, c.cycleStart)
    /\ interval > 0
    /\ roundTs - AgreedTimestampAt(window, seqNr, c.cycleStart) > MaxStreamValueAgeRounds * interval

Fresh(c, seqNr, roundTs, window, interval) ==
    /\ ~StaleByRounds(c, seqNr)
    /\ ~StaleBeforeWindow(c, seqNr, window)
    /\ ~StaleByTime(c, seqNr, roundTs, window, interval)

(* The contributions that are aggregated: the fresh ones if they suffice,  *)
(* otherwise all that are not stale by time.                               *)
SelectFreshContributions(C, seqNr, roundTs, window, interval, minContributions) ==
    LET fresh == {c \in C : Fresh(c, seqNr, roundTs, window, interval)}
        fallback == {c \in C : ~StaleByTime(c, seqNr, roundTs, window, interval)}
    IN IF fresh = C \/ Cardinality(fresh) >= minContributions THEN fresh ELSE fallback
=============================================================================
