---------------------------- MODULE TransitionV31 ----------------------------
(***************************************************************************)
(* The state transition of the LLO v31 plugin as pure operators: one round *)
(* takes the key-value state of the previous round and what the round's    *)
(* observations add up to, and yields a precursor, from which Reports      *)
(* emits, and the next key-value state                                     *)
(* (llo/dev/v31/statetransition.go, reports.go, backfill.go).              *)
(*                                                                         *)
(* A key-value state is a record                                           *)
(*   stage     c/lifecycle                                                 *)
(*   defs      c/defs: the definitions that the next round observes        *)
(*   ts        the agreed observation timestamp                            *)
(*   va        ValidAfterNanoseconds                                       *)
(*   reported  reportedLastRound: the round's decision on reportability    *)
(* and a precursor has the fields stage, defs (the effective ones), ts, va *)
(* and reportable. Absent stands for "no entry" of a map.                  *)
(***************************************************************************)
EXTENDS Integers, FiniteSets

CONSTANTS
    Channels,            \* channel ids
    Absent,              \* "no entry" of a Go map
    MinReportInterval,   \* DefaultMinReportIntervalNanoseconds
    SecondNanos,         \* ticks in a second
    MaxConsensusClockLead,
    MaxUint64,           \* the largest uint64
    MaxTime,             \* bound: the largest median observation timestamp
    MaxChannels          \* MaxOutcomeChannelDefinitionsLength

Time == 0 .. MaxTime

(* What a definition and its decoded opts determine: the resolution of the *)
(* codec; for a backfill channel its target, its observation keys, and     *)
(* which of their rows cannot be built or encoded.                         *)
ChannelDefinition ==
    [format : {"json", "unpacked", "legacy", "backfill"}, tombstone : BOOLEAN,
     res : {"s", "ns"}, target : Nat, rows : SUBSET Nat, bad : SUBSET Nat]

Stages == {"staging", "production", "retired"}
Watermarks == [Channels -> Time \cup {Absent}]

KvState ==
    [stage : Stages, defs : [Channels -> ChannelDefinition \cup {Absent}], ts : Time,
     va : Watermarks, reported : SUBSET Channels]

PrecursorState ==
    [stage : Stages, defs : [Channels -> ChannelDefinition \cup {Absent}], ts : Time,
     va : Watermarks, reportable : SUBSET Channels]

ASSUME TransitionAssumption ==
    /\ Channels \subseteq Nat /\ IsFiniteSet(Channels)
    /\ Absent \notin Nat /\ Absent \notin ChannelDefinition
    /\ Absent \notin KvState /\ Absent \notin PrecursorState /\ Absent \notin Watermarks
    /\ MinReportInterval \in Nat /\ SecondNanos \in Nat \ {0}
    /\ MaxConsensusClockLead \in Nat /\ MaxChannels \in Nat
    /\ MaxTime \in Nat /\ MaxUint64 \in Nat /\ MaxTime < MaxUint64

Defined(defs) == {c \in Channels : defs[c] # Absent}

Empty == [c \in Channels |-> Absent]

-----------------------------------------------------------------------------
(* Time resolutions.                                                       *)

(* ReportTimeResolution: what the codec of a channel truncates to.         *)
ReportTimeResolution(d) ==
    IF d.format = "legacy" THEN "s" ELSE IF d.format = "unpacked" THEN d.res ELSE "ns"

(* TargetChannelTimeResolution: the unit of a backfill's keys.             *)
TargetChannelTimeResolution(d) ==
    IF d.format \in {"legacy", "unpacked"} THEN ReportTimeResolution(d) ELSE "s"

ResolutionNanos(res) == IF res = "s" THEN SecondNanos ELSE 1

ConvertTimestamp(t, res) == t \div ResolutionNanos(res)

(* Keys that cannot be expressed in nanoseconds are no observation.        *)
ObservationTimes(rows, res) ==
    {raw * ResolutionNanos(res) : raw \in {r \in rows : r <= MaxUint64 \div ResolutionNanos(res)}}

SaturatingAdd(a, b) == IF a + b > MaxUint64 THEN MaxUint64 ELSE a + b

TickOverlap(va, ts, res) == ConvertTimestamp(va, res) >= ConvertTimestamp(ts, res)

-----------------------------------------------------------------------------
(* Backfill.                                                               *)

(* Mutant: selects the observation at the watermark again.                 *)
FromWatermark(t, watermark) == t >= watermark

PastWatermark(t, watermark) == t > watermark

(* The observations that channel c could still emit: rows that cannot be   *)
(* emitted are passed over.                                                *)
BackfillCandidates(defs, va, ts, c) ==
    LET d == defs[c]
        target == defs[d.target]
        res == TargetChannelTimeResolution(target)
    IN IF \/ d = Absent \/ d.format # "backfill"
          \/ d.target \notin Defined(defs) \/ target.tombstone \/ va[c] = Absent
       THEN {}
       ELSE {t \in ObservationTimes(d.rows \ d.bad, res) : t < ts /\ PastWatermark(t, va[c])}

(* Mutant: the latest observation first.                                   *)
LatestOf(times) == {t \in times : \A u \in times : u <= t}

EarliestOf(times) == {t \in times : \A u \in times : t <= u}

(* selectBackfillCandidate: at most one observation time.                  *)
SelectBackfillCandidate(defs, va, ts, c) == EarliestOf(BackfillCandidates(defs, va, ts, c))

-----------------------------------------------------------------------------
(* Reportability. valued are the channels whose values are all present and *)
(* in the range that their format encodes; encodable are the formats that  *)
(* at least 2f+1 oracles advertise a codec for.                            *)

FormatIsEncodable(d, encodable) == d.format \in encodable

IntervalElapsed(va, ts) == ts >= SaturatingAdd(va, MinReportInterval) /\ ts > va

IsReportable(p, c, valued, encodable) ==
    LET d == p.defs[c]
    IN /\ p.stage # "retired"
       /\ d # Absent
       /\ ~d.tombstone
       /\ IF d.format = "backfill"
          THEN /\ p.stage = "production"
               /\ SelectBackfillCandidate(p.defs, p.va, p.ts, c) # {}
               /\ FormatIsEncodable(p.defs[d.target], encodable)
          ELSE /\ p.va[c] # Absent
               /\ IntervalElapsed(p.va[c], p.ts)
               /\ ~TickOverlap(p.va[c], p.ts, ReportTimeResolution(d))
               /\ FormatIsEncodable(d, encodable)
               /\ c \in valued

ReportableChannels(p, valued, encodable) ==
    {c \in Channels : IsReportable(p, c, valued, encodable)}

-----------------------------------------------------------------------------
(* StateTransition.                                                        *)

(* Round 1: an instance with a predecessor starts in staging.              *)
InitialState(hasPredecessor) ==
    [stage |-> IF hasPredecessor THEN "staging" ELSE "production",
     defs |-> Empty, ts |-> 0, va |-> Empty, reported |-> {}]

(* The previous round's timestamp is a floor.                              *)
AgreedObservationTimestamp(median, floor) == IF median < floor THEN floor ELSE median

Promotes(prev, in) == prev.stage = "staging" /\ in.report # Absent

NextStage(prev, in) ==
    LET stage == IF Promotes(prev, in) THEN "production" ELSE prev.stage
    IN IF stage = "production" /\ in.retire THEN "retired" ELSE stage

(* applyChannelVotes: removals first; then every channel with exactly one  *)
(* definition past the threshold, additions in ascending order up to the   *)
(* cap. A change that a whole-set budget does not allow does not count as  *)
(* passing here.                                                           *)
ApplyChannelVotes(defs, removed, passing) ==
    LET kept == [c \in Channels |-> IF c \in removed THEN Absent ELSE defs[c]]
        single == {c \in Channels : \E d \in passing[c] : passing[c] = {d}}
        added == single \ Defined(kept)
        room == {c \in added :
            Cardinality(Defined(kept)) + Cardinality({b \in added : b < c}) < MaxChannels}
    IN [c \in Channels |-> IF c \in (single \ added) \cup room
                           THEN CHOOSE d \in passing[c] : TRUE ELSE kept[c]]

(* The pending definitions: unchanged in a round that ends retired.        *)
NextDefinitions(prev, in) ==
    IF NextStage(prev, in) = "retired" THEN prev.defs
    ELSE ApplyChannelVotes(prev.defs, in.removed, in.passing)

AheadOfClock(t, now) == t > now + MaxConsensusClockLead

(* A watermark of the predecessor that leads by too much is capped.        *)
BoundPromotedValidAfter(va, ts) == IF AheadOfClock(va, ts) THEN ts ELSE va

(* Mutant: the decision is not persisted.                                  *)
ForgetsDecision(prev, c) == FALSE

(* Mutant: decides with this round's definitions whether the previous      *)
(* round reported.                                                         *)
DecidesAgain(prev, c) ==
    c \in ReportableChannels([stage |-> prev.stage, defs |-> prev.defs, ts |-> prev.ts,
                              va |-> prev.va], Channels, {"json", "unpacked", "legacy"})

PrevReportable(prev, c) == c \in prev.reported

(* The watermark that a channel with one keeps or advances to.             *)
CarriedWatermark(prev, c) ==
    LET d == prev.defs[c]
        next == SelectBackfillCandidate(prev.defs, prev.va, prev.ts, c)
    IN IF d = Absent THEN Absent
       ELSE IF d.format # "backfill"
            THEN IF PrevReportable(prev, c) THEN prev.ts ELSE prev.va[c]
            ELSE IF prev.stage = "production" /\ PrevReportable(prev, c) /\ next # {}
                 THEN CHOOSE t \in next : TRUE ELSE prev.va[c]

(* The first watermark of an effective channel.                            *)
NewWatermark(d, ts) == IF d.format = "backfill" THEN 0 ELSE ts

(* Promotion replaces all watermarks by the predecessor's.                 *)
KnownWatermarks(prev, in, ts) ==
    IF Promotes(prev, in)
    THEN [c \in Channels |-> IF in.report[c] = Absent THEN Absent
                             ELSE BoundPromotedValidAfter(in.report[c], ts)]
    ELSE [c \in Channels |-> IF prev.va[c] = Absent THEN Absent ELSE CarriedWatermark(prev, c)]

NextWatermarks(prev, in, ts) ==
    LET known == KnownWatermarks(prev, in, ts)
    IN [c \in Channels |->
            IF known[c] = Absent /\ prev.defs[c] # Absent
            THEN NewWatermark(prev.defs[c], ts) ELSE known[c]]

(* The precursor: everything runs on the effective definitions, those that *)
(* the previous round committed and that this round observed.              *)
Precursor(prev, in) ==
    LET ts == AgreedObservationTimestamp(in.ts, prev.ts)
        p == [stage |-> NextStage(prev, in), defs |-> prev.defs, ts |-> ts,
              va |-> NextWatermarks(prev, in, ts)]
    IN [stage |-> p.stage, defs |-> p.defs, ts |-> p.ts, va |-> p.va,
        reportable |-> ReportableChannels(p, in.values.valued, in.values.encodable)]

(* flushKV.                                                                *)
FlushKV(prev, in, p) ==
    [stage |-> p.stage, defs |-> NextDefinitions(prev, in), ts |-> p.ts, va |-> p.va,
     reported |-> p.reportable]

(* The range of the report that Reports emits for a reportable channel: a  *)
(* backfill report spans one tick of the target, ending at the             *)
(* observation.                                                            *)
ReportEnd(p, c) ==
    IF p.defs[c].format = "backfill"
    THEN CHOOSE t \in SelectBackfillCandidate(p.defs, p.va, p.ts, c) : TRUE
    ELSE p.ts

ReportStart(p, c) ==
    IF p.defs[c].format = "backfill"
    THEN LET tick == ResolutionNanos(TargetChannelTimeResolution(p.defs[p.defs[c].target]))
         IN IF ReportEnd(p, c) >= tick THEN ReportEnd(p, c) - tick ELSE 0
    ELSE p.va[c]
=============================================================================
