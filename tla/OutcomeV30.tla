----------------------------- MODULE OutcomeV30 -----------------------------
(***************************************************************************)
(* The state transition of the LLO v30 reporting plugin as pure operators: *)
(* one protocol round takes the previous outcome and the votes tallied     *)
(* from the observations, and yields the next outcome                      *)
(* (llo/v30/plugin_outcome.go), from which the reports of the round are    *)
(* derived (llo/v30/plugin_reports.go).                                    *)
(*                                                                         *)
(* An outcome is a record                                                  *)
(*   stage  the LifeCycleStage                                             *)
(*   ts     ObservationTimestampNanoseconds                                *)
(*   defs   ChannelDefinitions, Absent where the map has no entry          *)
(*   va     ValidAfterNanoseconds, Absent where the map has no entry       *)
(*   agg    the streams that have a non-nil aggregate                      *)
(*                                                                         *)
(* Times are nanosecond ticks; SecondNanos of them make a second.          *)
(***************************************************************************)
EXTENDS Integers, FiniteSets

CONSTANTS
    Channels,            \* channel ids
    Streams,             \* stream ids, each with one aggregator
    TimestampedStreams,  \* the streams whose values are TimestampedStreamValue
    CacheDefinitions,    \* CacheDefinitions[c]: what the ChannelDefinitionCache of an
                         \* oracle can hold for channel c over time
    Absent,              \* "no entry" of a Go map
    ProtocolVersion,     \* OffchainConfig.ProtocolVersion
    MinReportInterval,   \* DefaultMinReportIntervalNanoseconds
    SecondNanos,         \* ticks in a second (1e9 in the code)
    Word,                \* 2^64: uint64 addition is modulo Word
    MaxTime,             \* bound: the largest median observation timestamp
    MaxChannels          \* MaxOutcomeChannelDefinitionsLength

Time == 0 .. MaxTime

(* ReportFormatEVMPremiumLegacy, ReportFormatEVMABIEncodeUnpacked,         *)
(* ReportFormatJSON (standing for every other live format) and             *)
(* ReportFormatHistoryBackfill.                                            *)
Formats == {"legacy", "unpacked", "json", "backfill"}

(* The decoded opts of a channel: the time resolution of the codec, and    *)
(* for a backfill channel its target and its observation keys, in ticks of *)
(* the target's resolution.                                                *)
ChannelOpts == [res : {"s", "ns"}, target : Channels \cup {Absent}, rows : SUBSET Nat]

ChannelDefinition ==
    [format : Formats, tombstone : BOOLEAN, disableNil : BOOLEAN,
     streams : SUBSET Streams, opts : ChannelOpts]

Stages == {"none", "staging", "production", "retired"}

Watermarks == [Channels -> Time \cup {Absent}]

Definitions == UNION {CacheDefinitions[c] : c \in Channels}

OutcomeType ==
    [stage : Stages, ts : Time, defs : [Channels -> Definitions \cup {Absent}],
     va : Watermarks, agg : SUBSET Streams]

ASSUME ConstantsAssumption ==
    /\ Channels \subseteq Nat
    /\ IsFiniteSet(Channels)
    /\ TimestampedStreams \subseteq Streams
    /\ CacheDefinitions \in [Channels -> SUBSET ChannelDefinition]
    /\ Absent \notin Definitions
    /\ Absent \notin Nat
    /\ ProtocolVersion \in 0 .. 2
    /\ MinReportInterval \in Nat
    /\ ProtocolVersion = 0 => MinReportInterval = 0
    /\ SecondNanos \in Nat \ {0}
    /\ MaxTime \in Nat
    /\ MaxChannels \in Nat
    /\ Word \in Nat
    /\ MaxTime < Word

Defined(defs) == {c \in Channels : defs[c] # Absent}

NoWatermarks == [c \in Channels |-> Absent]

-----------------------------------------------------------------------------
(* The outcome codecs. Version 0 stores ValidAfterNanoseconds in whole     *)
(* seconds; the later versions keep the nanoseconds.                       *)

Seconds(t) == t \div SecondNanos

CodecTime(t) == IF ProtocolVersion = 0 THEN Seconds(t) * SecondNanos ELSE t

OutcomeCodec(o) ==
    [o EXCEPT !.va = [c \in Channels |->
                         IF o.va[c] = Absent THEN Absent ELSE CodecTime(o.va[c])]]

-----------------------------------------------------------------------------
(* The opts cache: decoded opts per channel. OptsOf is the cache of a node *)
(* that has followed every change of the definitions.                      *)

OptsOf(defs) == [c \in Channels |-> IF defs[c] = Absent THEN Absent ELSE defs[c].opts]

IsSecondsResolution(d, c, cache) ==
    \/ d.format = "legacy"
    \/ d.format = "unpacked" /\ cache[c] # Absent /\ cache[c].res = "s"

GetHistoryBackfillOpts(d, c, cache) == IF cache[c] # Absent THEN cache[c] ELSE d.opts

(* One tick of the target's keys in nanoseconds; read from the definition, *)
(* not from the cache.                                                     *)
ResolutionNanos(target) ==
    IF target.format = "unpacked" /\ target.opts.res = "ns" THEN 1 ELSE SecondNanos

-----------------------------------------------------------------------------
(* Which channels report, and what their report moves the watermark to.    *)

(* Mutant: selects the observation at the watermark again.                 *)
AtWatermark(t, watermark) == t >= watermark

PastWatermark(t, watermark) == t > watermark

(* The observation times of backfill channel c that outcome o could still  *)
(* emit: past the watermark, before the round, and not overflowing.        *)
BackfillCandidates(o, c, cache) ==
    LET opts == GetHistoryBackfillOpts(o.defs[c], c, cache) IN
    IF opts.target \in Channels /\ o.defs[opts.target] # Absent /\ o.va[c] # Absent
      THEN {t \in Time :
              /\ \E raw \in opts.rows : t = raw * ResolutionNanos(o.defs[opts.target])
              /\ t < o.ts
              /\ PastWatermark(t, o.va[c])}
      ELSE {}

HasCandidate(o, c, cache) ==
    \E t \in BackfillCandidates(o, c, cache) :
        \A u \in BackfillCandidates(o, c, cache) : t <= u

(* Mutant: takes the latest candidate instead of the earliest.             *)
SelectLatestCandidate(o, c, cache) ==
    CHOOSE t \in BackfillCandidates(o, c, cache) :
        \A u \in BackfillCandidates(o, c, cache) : t >= u

SelectBackfillCandidate(o, c, cache) ==
    CHOOSE t \in BackfillCandidates(o, c, cache) :
        \A u \in BackfillCandidates(o, c, cache) : t <= u

AddWord(a, b) == (a + b) % Word

(* Mutant: ignores the configured interval.                                *)
AnyIntervalElapsed(o, c) == o.ts >= o.va[c]

IntervalElapsed(o, c) == o.ts >= AddWord(o.va[c], MinReportInterval)

(* Mutant: a retired instance still counts as reporting.                   *)
EveryStageReports(o) == TRUE

StageReports(o) == o.stage # "retired"

IsReportable(o, c, cache) ==
    /\ StageReports(o)
    /\ o.defs[c] # Absent
    /\ ~o.defs[c].tombstone
    /\ IF o.defs[c].format = "backfill"
         THEN /\ o.stage = "production"
              /\ HasCandidate(o, c, cache)
         ELSE /\ o.defs[c].disableNil => o.defs[c].streams \subseteq o.agg
              /\ o.va[c] # Absent
              /\ ProtocolVersion > 0 => IntervalElapsed(o, c)
              /\ (ProtocolVersion = 0 \/ IsSecondsResolution(o.defs[c], c, cache))
                    => Seconds(o.va[c]) < Seconds(o.ts)

(* Reports() syncs a cache of its own to the outcome's definitions.        *)
ReportableChannels(o) == {c \in Channels : IsReportable(o, c, OptsOf(o.defs))}

(* The end of the time range that the report of a reportable channel       *)
(* covers.                                                                 *)
ReportEnd(o, c, cache) ==
    IF o.defs[c].format = "backfill" THEN SelectBackfillCandidate(o, c, cache) ELSE o.ts

-----------------------------------------------------------------------------
(* The next outcome. A round's input is a record                           *)
(*   ts       the median timestamp                                         *)
(*   report   the verified retirement report of the predecessor, or Absent *)
(*   retire   more than F oracles voted to retire                          *)
(*   removed  channels that more than F oracles voted to remove            *)
(*   updates  definitions with more than F votes, Absent where there is    *)
(*            none (of competing definitions the last in hash order)       *)
(*   fresh    streams whose aggregation succeeded this round               *)

InitialOutcome(hasPredecessor) ==
    [stage |-> IF hasPredecessor THEN "staging" ELSE "production",
     ts |-> 0, defs |-> [c \in Channels |-> Absent], va |-> NoWatermarks, agg |-> {}]

Promotes(prev, in) == prev.stage = "staging" /\ in.report # Absent

NextStage(prev, in) ==
    LET stage == IF Promotes(prev, in) THEN "production" ELSE prev.stage IN
    IF stage = "production" /\ in.retire THEN "retired" ELSE stage

(* New channels are admitted in ascending id order until the cap is met;   *)
(* replacements are always applied.                                        *)
ApplyUpdates(defs, updates) ==
    LET added == {c \in Channels : updates[c] # Absent /\ defs[c] = Absent}
        room(c) == Cardinality(Defined(defs)) + Cardinality({a \in added : a < c})
                     < MaxChannels
    IN  [c \in Channels |-> IF updates[c] # Absent /\ (c \in added => room(c))
                              THEN updates[c] ELSE defs[c]]

NextDefinitions(prev, in) ==
    IF NextStage(prev, in) = "retired"
      THEN prev.defs
      ELSE ApplyUpdates([c \in Channels |-> IF c \in in.removed THEN Absent ELSE prev.defs[c]],
                        in.updates)

Removed(prev, in) == IF NextStage(prev, in) = "retired" THEN {} ELSE in.removed

(* The watermark of a channel after the round of prev. The definitions are *)
(* those that this round's votes have already changed: the new outcome     *)
(* shares the definitions map of the previous one, unless that map was     *)
(* nil.                                                                    *)
SharedDefinitions(prev, defs) == IF Defined(prev.defs) = {} THEN prev.defs ELSE defs

(* Mutant: the watermark stays although the previous round reported.       *)
UnmovedWatermark(prev, defs, c, cache) == prev.va[c]

(* Mutant: the watermark moves although the previous round did not report. *)
MovedWatermark(prev, defs, c, cache) == IF prev.va[c] = Absent THEN Absent ELSE prev.ts

CarriedWatermark(prev, defs, c, cache) ==
    LET seen == [prev EXCEPT !.defs = SharedDefinitions(prev, defs)] IN
    IF prev.va[c] = Absent THEN Absent
    ELSE IF seen.defs[c] # Absent /\ seen.defs[c].format = "backfill"
      THEN IF prev.stage = "production" /\ HasCandidate(seen, c, cache)
             THEN SelectBackfillCandidate(seen, c, cache)
             ELSE prev.va[c]
      ELSE IF IsReportable(seen, c, cache) THEN prev.ts ELSE prev.va[c]

NewChannelWatermark(d, ts) == IF d.format = "backfill" THEN 0 ELSE ts

(* Mutant: promotion keeps the watermarks of the staging instance.         *)
NeverSeedsWatermarks(prev, in) == FALSE

(* A report with an empty map decodes to a nil map, which seeds nothing.   *)
SeedsWatermarks(prev, in) == Promotes(prev, in) /\ in.report # NoWatermarks

NextWatermarks(prev, in, defs, cache) ==
    LET base(c) == IF SeedsWatermarks(prev, in)
                     THEN in.report[c] ELSE CarriedWatermark(prev, defs, c, cache)
    IN  [c \in Channels |->
            IF c \in Removed(prev, in) THEN Absent
            ELSE IF base(c) = Absent /\ defs[c] # Absent
              THEN NewChannelWatermark(defs[c], in.ts)
              ELSE base(c)]

(* Streams of live channels, aggregated this round or carried forward.     *)
NextAggregates(prev, in, defs) ==
    LET live == {s \in Streams : \E c \in Defined(defs) :
                    /\ ~defs[c].tombstone
                    /\ defs[c].format # "backfill"
                    /\ s \in defs[c].streams}
    IN  live \cap (in.fresh \cup (prev.agg \cap TimestampedStreams))

(* The outcome of a round, as the next round decodes it, on a node whose   *)
(* opts cache holds cache once this round's votes are applied.             *)
NextOutcome(prev, in, cache) ==
    LET defs == NextDefinitions(prev, in) IN
    OutcomeCodec([stage |-> NextStage(prev, in), ts |-> in.ts, defs |-> defs,
                  va |-> NextWatermarks(prev, in, defs, cache),
                  agg |-> NextAggregates(prev, in, defs)])
=============================================================================
