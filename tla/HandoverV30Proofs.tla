-------------------------- MODULE HandoverV30Proofs --------------------------
(***************************************************************************)
(* Proofs about HandoverV30, for any number of instances, channels,        *)
(* streams and definitions, any protocol version and any interval.         *)
(***************************************************************************)
EXTENDS HandoverV30, TLAPS

-----------------------------------------------------------------------------
(* What the operators of OutcomeV30 return: facts on the outcome codec, on *)
(* reportability, and on the watermarks that a round hands to the next.    *)

(* The seconds field of the version 0 outcome codec is the floor of the    *)
(* time over a second.                                                     *)
LEMMA SecondsFloor ==
    ASSUME NEW t \in Nat
    PROVE  /\ Seconds(t) \in Nat
           /\ Seconds(t) * SecondNanos <= t
           /\ t < (Seconds(t) + 1) * SecondNanos
<1>1. SecondNanos \in Nat \ {0}
  BY ConstantsAssumption, Zenon
<1>2. /\ Seconds(t) \in Int
      /\ t = SecondNanos * Seconds(t) + (t % SecondNanos)
      /\ t % SecondNanos \in 0 .. (SecondNanos - 1)
  BY <1>1 DEF Seconds
<1>. QED
  BY <1>1, <1>2, Z3, Zenon

(* Multiplying by a second preserves the order.                            *)
LEMMA ScaleMonotone ==
    ASSUME NEW a \in Nat, NEW b \in Nat, a <= b
    PROVE  a * SecondNanos <= b * SecondNanos
  BY ConstantsAssumption

(* Truncation to seconds preserves the order.                              *)
LEMMA SecondsMonotone ==
    ASSUME NEW a \in Nat, NEW b \in Nat, a <= b
    PROVE  Seconds(a) <= Seconds(b)
<1>1. SecondNanos \in Nat \ {0}
  BY ConstantsAssumption, Zenon
<1>. SUFFICES ASSUME Seconds(b) + 1 <= Seconds(a) PROVE FALSE
  BY SecondsFloor
<1>2. (Seconds(b) + 1) * SecondNanos <= Seconds(a) * SecondNanos
  BY SecondsFloor, ScaleMonotone
<1>. QED
  BY <1>1, <1>2, SecondsFloor

(* Truncating twice is truncating once.                                    *)
LEMMA SecondsOfScaled ==
    ASSUME NEW n \in Nat
    PROVE  Seconds(n * SecondNanos) = n
<1>1. SecondNanos \in Nat \ {0}
  BY ConstantsAssumption, Zenon
<1>. DEFINE m == Seconds(n * SecondNanos)
<1>2. n * SecondNanos \in Nat
  BY <1>1
<1>3. /\ m \in Nat
      /\ m * SecondNanos <= n * SecondNanos
      /\ n * SecondNanos < (m + 1) * SecondNanos
  BY <1>2, SecondsFloor, Zenon
<1>. HIDE DEF m
<1>4. CASE n + 1 <= m
  <2>1. (n + 1) * SecondNanos <= m * SecondNanos
    BY <1>3, <1>4, ScaleMonotone
  <2>. QED  BY <1>1, <1>3, <2>1
<1>5. CASE m + 1 <= n
  <2>1. (m + 1) * SecondNanos <= n * SecondNanos
    BY <1>3, <1>5, ScaleMonotone
  <2>. QED  BY <1>1, <1>3, <2>1
<1>. QED
  BY <1>3, <1>4, <1>5 DEF m

(* The time that survives the outcome codec is a time, not later than the  *)
(* encoded one.                                                            *)
LEMMA CodecTimeBounds ==
    ASSUME NEW t \in Nat
    PROVE  CodecTime(t) \in Nat /\ CodecTime(t) <= t
<1>1. SecondNanos \in Nat \ {0}
  BY ConstantsAssumption, Zenon
<1>. QED
  BY <1>1, SecondsFloor DEF CodecTime

(* So it stays within the bound on times.                                  *)
LEMMA CodecTimeInTime ==
    ASSUME NEW t \in Time
    PROVE  CodecTime(t) \in Time
  BY CodecTimeBounds, ConstantsAssumption DEF Time

(* The codec preserves the order of times.                                 *)
LEMMA CodecTimeMonotone ==
    ASSUME NEW a \in Nat, NEW b \in Nat, a <= b
    PROVE  CodecTime(a) <= CodecTime(b)
<1>1. Seconds(a) * SecondNanos <= Seconds(b) * SecondNanos
  BY SecondsFloor, SecondsMonotone, ScaleMonotone, Zenon
<1>. QED
  BY <1>1, Zenon DEF CodecTime

(* A time that was decoded once is encoded without loss.                   *)
LEMMA CodecTimeIdempotent ==
    ASSUME NEW t \in Nat
    PROVE  CodecTime(CodecTime(t)) = CodecTime(t)
  BY SecondsFloor, SecondsOfScaled, Zenon DEF CodecTime

-----------------------------------------------------------------------------
(* The candidate that a backfill channel selects is past the watermark,    *)
(* before the round, and no later than any other candidate.                *)
LEMMA CandidateSelected ==
    ASSUME NEW o, NEW c, NEW cache, HasCandidate(o, c, cache)
    PROVE  /\ SelectBackfillCandidate(o, c, cache) \in BackfillCandidates(o, c, cache)
           /\ \A u \in BackfillCandidates(o, c, cache) :
                 SelectBackfillCandidate(o, c, cache) <= u
  BY Zenon DEF HasCandidate, SelectBackfillCandidate

(* A candidate lies between the watermark and the round's timestamp.       *)
LEMMA CandidateBounds ==
    ASSUME NEW o, NEW c, NEW cache, NEW t \in BackfillCandidates(o, c, cache)
    PROVE  t \in Time /\ t < o.ts /\ t > o.va[c] /\ o.va[c] # Absent
  BY Zenon DEF BackfillCandidates, PastWatermark

(* The times that occur in an outcome are natural numbers.                 *)
LEMMA TimeIsNat == Time \subseteq Nat
  BY ConstantsAssumption DEF Time

(* The timestamp and the watermarks of an outcome are times.               *)
LEMMA OutcomeTimes ==
    ASSUME NEW o \in OutcomeType, NEW c \in Channels
    PROVE  o.ts \in Time /\ o.va[c] \in Time \cup {Absent}
  BY Zenon DEF OutcomeType, Watermarks

(* The definitions of an outcome are well formed.                          *)
LEMMA DefinitionTyped ==
    ASSUME NEW o \in OutcomeType, NEW c \in Channels, o.defs[c] # Absent
    PROVE  o.defs[c] \in ChannelDefinition
<1>1. o.defs[c] \in Definitions
  BY Zenon DEF OutcomeType
<1>2. PICK b \in Channels : o.defs[c] \in CacheDefinitions[b]
  BY <1>1, Zenon DEF Definitions
<1>. QED
  BY <1>2, ConstantsAssumption, Zenon

(* A reportable channel has a watermark, and its report ends at a time.    *)
LEMMA ReportEndType ==
    ASSUME NEW o \in OutcomeType, NEW c \in Channels, NEW cache,
           IsReportable(o, c, cache)
    PROVE  /\ o.va[c] \in Time
           /\ ReportEnd(o, c, cache) \in Time
           /\ o.defs[c].format = "backfill" => ReportEnd(o, c, cache) > o.va[c]
<1>1. o.va[c] \in Time \cup {Absent} /\ o.ts \in Time
  BY Zenon DEF OutcomeType, Watermarks
<1>2. CASE o.defs[c].format = "backfill"
  <2>1. HasCandidate(o, c, cache)
    BY <1>2, Zenon DEF IsReportable
  <2>2. /\ SelectBackfillCandidate(o, c, cache) \in Time
        /\ SelectBackfillCandidate(o, c, cache) > o.va[c]
        /\ o.va[c] # Absent
    BY <2>1, CandidateSelected, CandidateBounds, Zenon
  <2>. QED
    BY <1>1, <1>2, <2>2, Zenon DEF ReportEnd
<1>3. CASE o.defs[c].format # "backfill"
  BY <1>1, <1>3, Zenon DEF IsReportable, ReportEnd
<1>. QED
  BY <1>2, <1>3, Zenon

(* The uint64 sum of a watermark and the interval does not wrap.           *)
NoWrap == MaxTime + MinReportInterval < Word

(* A live channel reports no earlier than the interval after its           *)
(* watermark; in version 0, in a later second.                             *)
LEMMA LiveReportWaits ==
    ASSUME NoWrap,
           NEW o \in OutcomeType, NEW c \in Channels, NEW cache,
           IsReportable(o, c, cache), o.defs[c].format # "backfill"
    PROVE  /\ ProtocolVersion > 0 => o.ts >= o.va[c] + MinReportInterval
           /\ ProtocolVersion = 0 => Seconds(o.va[c]) < Seconds(o.ts)
<1>1. o.va[c] \in Time
  BY ReportEndType, Zenon
<1>2. ASSUME ProtocolVersion > 0
      PROVE  o.ts >= (o.va[c] + MinReportInterval) % Word
  BY <1>2, Zenon DEF IsReportable, IntervalElapsed, AddWord
<1>3. o.va[c] + MinReportInterval \in 0 .. (Word - 1)
  BY <1>1, ConstantsAssumption DEF NoWrap, Time
<1>4. (o.va[c] + MinReportInterval) % Word = o.va[c] + MinReportInterval
  BY <1>3, ConstantsAssumption
<1>. QED
  BY <1>2, <1>4, Zenon DEF IsReportable

(* A report ends at or after the watermark: reporting never moves a        *)
(* watermark back, whatever the median timestamp does.                     *)
LEMMA ReportEndsAfterWatermark ==
    ASSUME NoWrap,
           NEW o \in OutcomeType, NEW c \in Channels, NEW cache,
           IsReportable(o, c, cache)
    PROVE  o.va[c] <= ReportEnd(o, c, cache)
<1>1. o.va[c] \in Nat /\ o.ts \in Nat /\ ReportEnd(o, c, cache) \in Nat
  BY ReportEndType, ConstantsAssumption DEF OutcomeType, Time
<1>2. CASE o.defs[c].format = "backfill"
  BY <1>1, <1>2, ReportEndType
<1>3. CASE o.defs[c].format # "backfill"
  <2>1. CASE ProtocolVersion > 0
    BY <1>1, <1>3, <2>1, LiveReportWaits, ConstantsAssumption DEF ReportEnd
  <2>2. CASE ProtocolVersion = 0
    <3>1. ~(o.ts <= o.va[c])
      BY <1>1, <1>3, <2>2, LiveReportWaits, SecondsMonotone, SecondsFloor
    <3>. QED
      BY <1>1, <1>3, <3>1 DEF ReportEnd
  <2>. QED
    BY <2>1, <2>2, ConstantsAssumption
<1>. QED
  BY <1>2, <1>3, Zenon

-----------------------------------------------------------------------------
(* What decides on a channel's report: the stage, the time, the            *)
(* aggregates, the channel's watermark, definition and cached opts, and    *)
(* its backfill target's definition.                                       *)
SameReport(o, p, c, oCache, pCache) ==
    /\ o.stage = p.stage
    /\ o.ts = p.ts
    /\ o.agg = p.agg
    /\ o.va[c] = p.va[c]
    /\ o.defs[c] = p.defs[c]
    /\ oCache[c] = pCache[c]
    /\ LET target == GetHistoryBackfillOpts(o.defs[c], c, oCache).target IN
       o.defs[c] # Absent /\ o.defs[c].format = "backfill" /\ target \in Channels
            => o.defs[target] = p.defs[target]

(* Outcomes that agree on these have the same backfill candidates ...      *)
LEMMA SameCandidates ==
    ASSUME NEW o, NEW p, NEW c, NEW oCache, NEW pCache,
           SameReport(o, p, c, oCache, pCache),
           o.defs[c] # Absent, o.defs[c].format = "backfill"
    PROVE  BackfillCandidates(o, c, oCache) = BackfillCandidates(p, c, pCache)
<1>. DEFINE opts == GetHistoryBackfillOpts(o.defs[c], c, oCache)
<1>1. opts = GetHistoryBackfillOpts(p.defs[c], c, pCache)
  BY Zenon DEF SameReport, GetHistoryBackfillOpts
<1>2. opts.target \in Channels => o.defs[opts.target] = p.defs[opts.target]
  BY Zenon DEF SameReport
<1>3. o.ts = p.ts /\ o.va[c] = p.va[c]
  BY Zenon DEF SameReport
<1>. HIDE DEF opts
<1>4. BackfillCandidates(o, c, oCache) =
        IF opts.target \in Channels /\ o.defs[opts.target] # Absent /\ o.va[c] # Absent
          THEN {t \in Time :
                  /\ \E raw \in opts.rows : t = raw * ResolutionNanos(o.defs[opts.target])
                  /\ t < o.ts
                  /\ PastWatermark(t, o.va[c])}
          ELSE {}
  BY Zenon DEF BackfillCandidates, opts
<1>5. BackfillCandidates(p, c, pCache) =
        IF opts.target \in Channels /\ p.defs[opts.target] # Absent /\ p.va[c] # Absent
          THEN {t \in Time :
                  /\ \E raw \in opts.rows : t = raw * ResolutionNanos(p.defs[opts.target])
                  /\ t < p.ts
                  /\ PastWatermark(t, p.va[c])}
          ELSE {}
  BY <1>1, Zenon DEF BackfillCandidates
<1>. QED
  BY <1>2, <1>3, <1>4, <1>5, Zenon

(* ... and the same verdict on the report and its end.                     *)
LEMMA SameReportability ==
    ASSUME NEW o, NEW p, NEW c, NEW oCache, NEW pCache,
           SameReport(o, p, c, oCache, pCache)
    PROVE  /\ IsReportable(o, c, oCache) <=> IsReportable(p, c, pCache)
           /\ o.defs[c] # Absent => ReportEnd(o, c, oCache) = ReportEnd(p, c, pCache)
<1>1. CASE o.defs[c] # Absent /\ o.defs[c].format = "backfill"
  <2>1. BackfillCandidates(o, c, oCache) = BackfillCandidates(p, c, pCache)
    BY <1>1, SameCandidates
  <2>2. /\ HasCandidate(o, c, oCache) <=> HasCandidate(p, c, pCache)
        /\ SelectBackfillCandidate(o, c, oCache) = SelectBackfillCandidate(p, c, pCache)
    BY <2>1, Zenon DEF HasCandidate, SelectBackfillCandidate
  <2>. QED
    BY <1>1, <2>2, Zenon DEF SameReport, IsReportable, ReportEnd, StageReports
<1>2. CASE o.defs[c] = Absent
  BY <1>2, Zenon DEF SameReport, IsReportable
<1>3. CASE o.defs[c] # Absent /\ o.defs[c].format # "backfill"
  BY <1>3 DEF SameReport, IsReportable, ReportEnd, StageReports, IntervalElapsed,
              IsSecondsResolution
<1>. QED
  BY <1>1, <1>2, <1>3, Zenon

-----------------------------------------------------------------------------
RoundInput ==
    [ts : Time, report : Watermarks \cup {Absent}, retire : BOOLEAN,
     removed : SUBSET Channels, updates : [Channels -> Definitions \cup {Absent}],
     fresh : SUBSET Streams]

(* A carried watermark is a time where there was one.                      *)
LEMMA CarriedWatermarkType ==
    ASSUME NEW prev \in OutcomeType, NEW defs, NEW c \in Channels, NEW cache
    PROVE  /\ CarriedWatermark(prev, defs, c, cache) \in Time \cup {Absent}
           /\ prev.va[c] # Absent => CarriedWatermark(prev, defs, c, cache) \in Time
<1>. DEFINE seen == [prev EXCEPT !.defs = SharedDefinitions(prev, defs)]
<1>1. prev.va[c] \in Time \cup {Absent} /\ prev.ts \in Time
  BY Zenon DEF OutcomeType, Watermarks
<1>2. HasCandidate(seen, c, cache) => SelectBackfillCandidate(seen, c, cache) \in Time
  BY CandidateSelected, CandidateBounds, Zenon
<1>3. Absent \notin Time
  BY ConstantsAssumption DEF Time
<1>. QED
  BY <1>1, <1>2, <1>3, Zenon DEF CarriedWatermark

(* The outcome before encoding has a watermark for every channel that it   *)
(* defines, unless the channel was voted out in the same round.            *)
LEMMA NextWatermarksType ==
    ASSUME NEW prev \in OutcomeType, NEW in \in RoundInput,
           NEW defs \in [Channels -> Definitions \cup {Absent}], NEW cache
    PROVE  /\ NextWatermarks(prev, in, defs, cache) \in Watermarks
           /\ \A c \in Channels :
                 defs[c] # Absent /\ c \notin Removed(prev, in)
                    => NextWatermarks(prev, in, defs, cache)[c] # Absent
<1>. DEFINE base(c) == IF SeedsWatermarks(prev, in)
                         THEN in.report[c] ELSE CarriedWatermark(prev, defs, c, cache)
<1>1. \A c \in Channels : base(c) \in Time \cup {Absent}
  <2>. SUFFICES ASSUME NEW c \in Channels PROVE base(c) \in Time \cup {Absent}
    BY Zenon
  <2>1. CASE SeedsWatermarks(prev, in)
    <3>1. in.report \in Watermarks
      BY <2>1, Zenon DEF SeedsWatermarks, Promotes, RoundInput
    <3>. QED  BY <2>1, <3>1, Zenon DEF Watermarks
  <2>2. CASE ~SeedsWatermarks(prev, in)
    BY <2>2, CarriedWatermarkType, Zenon
  <2>. QED  BY <2>1, <2>2, Zenon
<1>2. \A d : NewChannelWatermark(d, in.ts) \in Time
  BY ConstantsAssumption DEF NewChannelWatermark, RoundInput, Time
<1>3. Absent \notin Time
  BY ConstantsAssumption DEF Time
<1>4. NextWatermarks(prev, in, defs, cache) =
        [c \in Channels |->
            IF c \in Removed(prev, in) THEN Absent
            ELSE IF base(c) = Absent /\ defs[c] # Absent
              THEN NewChannelWatermark(defs[c], in.ts)
              ELSE base(c)]
  BY Zenon DEF NextWatermarks
<1>. HIDE DEF base
<1>. QED
  BY <1>1, <1>2, <1>3, <1>4, Zenon DEF Watermarks

(* A round keeps the definitions well formed.                              *)
LEMMA NextDefinitionsType ==
    ASSUME NEW prev \in OutcomeType, NEW in \in RoundInput
    PROVE  NextDefinitions(prev, in) \in [Channels -> Definitions \cup {Absent}]
<1>1. /\ prev.defs \in [Channels -> Definitions \cup {Absent}]
      /\ in.updates \in [Channels -> Definitions \cup {Absent}]
  BY Zenon DEF OutcomeType, RoundInput
<1>. QED
  BY <1>1, Zenon DEF NextDefinitions, ApplyUpdates

(* The fields of the next outcome.                                         *)
LEMMA NextOutcomeFields ==
    ASSUME NEW prev \in OutcomeType, NEW in \in RoundInput, NEW cache
    PROVE  LET next == NextOutcome(prev, in, cache)
               defs == NextDefinitions(prev, in)
               va == NextWatermarks(prev, in, defs, cache)
           IN  /\ next.stage = NextStage(prev, in)
               /\ next.ts = in.ts
               /\ next.defs = defs
               /\ next.agg = NextAggregates(prev, in, defs)
               /\ next.va = [c \in Channels |->
                               IF va[c] = Absent THEN Absent ELSE CodecTime(va[c])]
               /\ DOMAIN next = {"stage", "ts", "defs", "va", "agg"}
  BY Zenon DEF NextOutcome, OutcomeCodec

(* A round yields a well-formed outcome.                                   *)
LEMMA NextOutcomeType ==
    ASSUME NEW prev \in OutcomeType, NEW in \in RoundInput, NEW cache
    PROVE  NextOutcome(prev, in, cache) \in OutcomeType
<1>. DEFINE next == NextOutcome(prev, in, cache)
            defs == NextDefinitions(prev, in)
            va == NextWatermarks(prev, in, defs, cache)
<1>1. NextStage(prev, in) \in Stages
  BY Zenon DEF OutcomeType, NextStage, Stages
<1>2. in.ts \in Time
  BY Zenon DEF RoundInput
<1>3. defs \in [Channels -> Definitions \cup {Absent}]
  BY NextDefinitionsType, Zenon
<1>4. va \in Watermarks
  BY <1>3, NextWatermarksType, Zenon
<1>5. NextAggregates(prev, in, defs) \in SUBSET Streams
  BY Zenon DEF NextAggregates
<1>. HIDE DEF va, defs
<1>6. [c \in Channels |-> IF va[c] = Absent THEN Absent ELSE CodecTime(va[c])] \in Watermarks
  BY <1>4, CodecTimeInTime, Zenon DEF Watermarks
<1>7. next = [stage |-> NextStage(prev, in), ts |-> in.ts, defs |-> defs,
              va |-> [c \in Channels |-> IF va[c] = Absent THEN Absent ELSE CodecTime(va[c])],
              agg |-> NextAggregates(prev, in, defs)]
  BY DEF NextOutcome, OutcomeCodec, defs, va
<1>. QED
  BY <1>1, <1>2, <1>3, <1>5, <1>6, <1>7 DEF OutcomeType

(* The watermarks of an agreed outcome lose nothing in the codec.          *)
KeptByCodec(va) == \A c \in Channels : va[c] # Absent => CodecTime(va[c]) = va[c]

(* A round's watermarks have been through the codec.                       *)
LEMMA NextKeptByCodec ==
    ASSUME NEW prev \in OutcomeType, NEW in \in RoundInput, NEW cache
    PROVE  KeptByCodec(NextOutcome(prev, in, cache).va)
<1>. DEFINE va == NextWatermarks(prev, in, NextDefinitions(prev, in), cache)
<1>1. va \in Watermarks
  BY NextDefinitionsType, NextWatermarksType, Zenon
<1>2. NextOutcome(prev, in, cache).va =
        [c \in Channels |-> IF va[c] = Absent THEN Absent ELSE CodecTime(va[c])]
  BY NextOutcomeFields
<1>. HIDE DEF va
<1>3. \A c \in Channels : va[c] # Absent => va[c] \in Nat
  BY <1>1, ConstantsAssumption DEF Watermarks, Time
<1>. QED
  BY <1>2, <1>3, CodecTimeIdempotent, Zenon DEF KeptByCodec

(* Every channel that a retired outcome defines has a watermark.           *)
AllWatermarked(o) == \A c \in Channels : o.defs[c] # Absent => o.va[c] # Absent

(* A round that ends retired leaves none without.                          *)
LEMMA RetiredWatermarked ==
    ASSUME NEW prev \in OutcomeType, NEW in \in RoundInput, NEW cache,
           NextStage(prev, in) = "retired"
    PROVE  AllWatermarked(NextOutcome(prev, in, cache))
<1>. DEFINE next == NextOutcome(prev, in, cache)
            va == NextWatermarks(prev, in, NextDefinitions(prev, in), cache)
<1>1. Removed(prev, in) = {}
  BY Zenon DEF Removed
<1>2. NextDefinitions(prev, in) \in [Channels -> Definitions \cup {Absent}]
  BY NextDefinitionsType, Zenon
<1>3. va \in Watermarks /\ \A c \in Channels : NextDefinitions(prev, in)[c] # Absent => va[c] # Absent
  BY <1>1, <1>2, NextWatermarksType, Zenon
<1>4. /\ next.defs = NextDefinitions(prev, in)
      /\ next.va = [c \in Channels |-> IF va[c] = Absent THEN Absent ELSE CodecTime(va[c])]
  BY NextOutcomeFields
<1>. HIDE DEF va, next
<1>5. \A c \in Channels : va[c] # Absent => CodecTime(va[c]) # Absent
  BY <1>3, CodecTimeBounds, ConstantsAssumption DEF Watermarks, Time
<1>. QED
  BY <1>3, <1>4, <1>5, Zenon DEF AllWatermarked, next

(* A retired instance freezes: its rounds change nothing but the time and  *)
(* the aggregates.                                                         *)
LEMMA RetiredRound ==
    ASSUME NEW prev \in OutcomeType, NEW in \in RoundInput, NEW cache,
           prev.stage = "retired", AllWatermarked(prev), KeptByCodec(prev.va)
    PROVE  LET next == NextOutcome(prev, in, cache)
           IN  next.stage = "retired" /\ next.defs = prev.defs /\ next.va = prev.va
<1>. DEFINE defs == NextDefinitions(prev, in)
            va == NextWatermarks(prev, in, defs, cache)
            next == NextOutcome(prev, in, cache)
<1>1. ~Promotes(prev, in) /\ NextStage(prev, in) = "retired"
  BY Zenon DEF Promotes, NextStage
<1>2. defs = prev.defs /\ Removed(prev, in) = {} /\ ~SeedsWatermarks(prev, in)
  BY <1>1, Zenon DEF NextDefinitions, Removed, SeedsWatermarks
<1>3. \A c \in Channels : CarriedWatermark(prev, defs, c, cache) = prev.va[c]
  <2>. SUFFICES ASSUME NEW c \in Channels
                PROVE  CarriedWatermark(prev, defs, c, cache) = prev.va[c]
    BY Zenon
  <2>. DEFINE seen == [prev EXCEPT !.defs = SharedDefinitions(prev, defs)]
  <2>1. seen.stage = "retired"
    BY Zenon DEF OutcomeType
  <2>2. ~IsReportable(seen, c, cache)
    BY <2>1, Zenon DEF IsReportable, StageReports
  <2>. QED
    BY <2>2, Zenon DEF CarriedWatermark
<1>4. \A c \in Channels : va[c] = prev.va[c]
  BY <1>2, <1>3, Zenon DEF NextWatermarks, AllWatermarked
<1>5. /\ next.stage = NextStage(prev, in)
      /\ next.defs = defs
      /\ next.va = [c \in Channels |-> IF va[c] = Absent THEN Absent ELSE CodecTime(va[c])]
  BY NextOutcomeFields
<1>. HIDE DEF va
<1>6. next.va = [c \in Channels |-> prev.va[c]]
  BY <1>4, <1>5 DEF KeptByCodec
<1>. QED
  BY <1>1, <1>2, <1>5, <1>6, Zenon DEF OutcomeType, Watermarks

(* The votes of a round leave alone what decides on channel c's report.    *)
SameDefinition(prev, defs, c) ==
    /\ defs[c] = prev.defs[c]
    /\ defs[c] # Absent /\ defs[c].format = "backfill" =>
         /\ ~defs[c].tombstone
         /\ defs[c].opts.target \in Channels
              => defs[defs[c].opts.target] = prev.defs[defs[c].opts.target]

(* Where the report of outcome o leaves the watermark of c.                *)
WatermarkAfter(o, c) ==
    IF c \in ReportableChannels(o) THEN ReportEnd(o, c, OptsOf(o.defs)) ELSE o.va[c]

(* The watermark of an untouched channel follows the reports of the        *)
(* previous round.                                                         *)
LEMMA UntouchedWatermark ==
    ASSUME NEW prev \in OutcomeType, prev.stage = "production",
           NEW defs \in [Channels -> Definitions \cup {Absent}],
           NEW c \in Channels, prev.va[c] # Absent,
           SameDefinition(prev, defs, c)
    PROVE  CarriedWatermark(prev, defs, c, OptsOf(defs)) = WatermarkAfter(prev, c)
<1>. DEFINE shared == SharedDefinitions(prev, defs)
            seen == [prev EXCEPT !.defs = shared]
            target == prev.defs[c].opts.target
<1>1. /\ seen.stage = prev.stage /\ seen.ts = prev.ts /\ seen.agg = prev.agg
      /\ seen.va = prev.va /\ seen.defs = shared
  BY Zenon DEF OutcomeType
<1>2. shared[c] = prev.defs[c]
  BY Zenon DEF SharedDefinitions, SameDefinition
<1>3. OptsOf(defs)[c] = OptsOf(prev.defs)[c]
  BY Zenon DEF OptsOf, SameDefinition
<1>4. ASSUME prev.defs[c] # Absent, prev.defs[c].format = "backfill", target \in Channels
      PROVE  shared[target] = prev.defs[target]
  BY <1>4, Zenon DEF SharedDefinitions, SameDefinition
<1>5. ASSUME prev.defs[c] # Absent
      PROVE  GetHistoryBackfillOpts(prev.defs[c], c, OptsOf(defs)).target = target
  BY <1>3, <1>5, Zenon DEF OptsOf, GetHistoryBackfillOpts
<1>. HIDE DEF shared, seen, target
<1>6. SameReport(seen, prev, c, OptsOf(defs), OptsOf(prev.defs))
  BY <1>1, <1>2, <1>3, <1>4, <1>5, Zenon DEF SameReport
<1>7. /\ IsReportable(seen, c, OptsOf(defs)) <=> c \in ReportableChannels(prev)
      /\ prev.defs[c] # Absent
            => ReportEnd(seen, c, OptsOf(defs)) = ReportEnd(prev, c, OptsOf(prev.defs))
  BY <1>1, <1>2, <1>6, SameReportability DEF ReportableChannels
<1>8. CarriedWatermark(prev, defs, c, OptsOf(defs)) =
        IF shared[c] # Absent /\ shared[c].format = "backfill"
          THEN IF HasCandidate(seen, c, OptsOf(defs))
                 THEN SelectBackfillCandidate(seen, c, OptsOf(defs)) ELSE prev.va[c]
          ELSE IF IsReportable(seen, c, OptsOf(defs)) THEN prev.ts ELSE prev.va[c]
  BY <1>1, Zenon DEF CarriedWatermark, shared, seen
<1>9. CASE prev.defs[c] # Absent /\ prev.defs[c].format = "backfill"
  <2>1. ~prev.defs[c].tombstone
    BY <1>9, Zenon DEF SameDefinition
  <2>2. IsReportable(seen, c, OptsOf(defs)) <=> HasCandidate(seen, c, OptsOf(defs))
    BY <1>1, <1>2, <1>9, <2>1, Zenon DEF IsReportable, StageReports
  <2>3. ReportEnd(seen, c, OptsOf(defs)) = SelectBackfillCandidate(seen, c, OptsOf(defs))
    BY <1>1, <1>2, <1>9, Zenon DEF ReportEnd
  <2>. QED
    BY <1>2, <1>7, <1>8, <1>9, <2>2, <2>3, Zenon DEF WatermarkAfter
<1>10. CASE prev.defs[c] # Absent /\ prev.defs[c].format # "backfill"
  <2>1. ReportEnd(prev, c, OptsOf(prev.defs)) = prev.ts
    BY <1>10, Zenon DEF ReportEnd
  <2>. QED
    BY <1>2, <1>7, <1>8, <1>10, <2>1, Zenon DEF WatermarkAfter
<1>11. CASE prev.defs[c] = Absent
  <2>1. ~IsReportable(seen, c, OptsOf(defs))
    BY <1>1, <1>2, <1>11, Zenon DEF IsReportable
  <2>. QED
    BY <1>2, <1>7, <1>8, <1>11, <2>1, Zenon DEF WatermarkAfter
<1>. QED
  BY <1>9, <1>10, <1>11, Zenon

(* So does the watermark that the next round decodes.                      *)
LEMMA UntouchedRound ==
    ASSUME NEW prev \in OutcomeType, prev.stage = "production",
           NEW in \in RoundInput, NEW c \in Channels, prev.va[c] # Absent,
           SameDefinition(prev, NextDefinitions(prev, in), c)
    PROVE  LET next == NextOutcome(prev, in, OptsOf(NextDefinitions(prev, in)))
           IN  next.va[c] # Absent => next.va[c] = CodecTime(WatermarkAfter(prev, c))
<1>. DEFINE defs == NextDefinitions(prev, in)
            carried == CarriedWatermark(prev, defs, c, OptsOf(defs))
            va == NextWatermarks(prev, in, defs, OptsOf(defs))
            next == NextOutcome(prev, in, OptsOf(defs))
<1>1. defs \in [Channels -> Definitions \cup {Absent}]
  BY NextDefinitionsType, Zenon
<1>2. carried = WatermarkAfter(prev, c)
  BY <1>1, UntouchedWatermark, Zenon
<1>3. carried \in Time /\ Absent \notin Time
  BY CarriedWatermarkType, ConstantsAssumption DEF Time
<1>4. ~SeedsWatermarks(prev, in)
  BY Zenon DEF SeedsWatermarks, Promotes
<1>5. va[c] = Absent \/ va[c] = carried
  BY <1>3, <1>4, Zenon DEF NextWatermarks
<1>6. next.va = [b \in Channels |-> IF va[b] = Absent THEN Absent ELSE CodecTime(va[b])]
  BY NextOutcomeFields
<1>. HIDE DEF va, carried
<1>. QED
  BY <1>2, <1>5, <1>6, Zenon

(* Promotion takes the predecessor's watermarks.                           *)
LEMMA PromotionRound ==
    ASSUME NEW prev \in OutcomeType, NEW in \in RoundInput, NEW cache,
           SeedsWatermarks(prev, in), NEW c \in Channels, in.report[c] # Absent
    PROVE  LET next == NextOutcome(prev, in, cache)
           IN  next.va[c] # Absent => next.va[c] = CodecTime(in.report[c])
<1>. DEFINE va == NextWatermarks(prev, in, NextDefinitions(prev, in), cache)
<1>1. va[c] = Absent \/ va[c] = in.report[c]
  BY Zenon DEF NextWatermarks
<1>2. NextOutcome(prev, in, cache).va =
        [b \in Channels |-> IF va[b] = Absent THEN Absent ELSE CodecTime(va[b])]
  BY NextOutcomeFields, ZenonT(60)
<1>. HIDE DEF va
<1>. QED
  BY <1>1, <1>2, Zenon

-----------------------------------------------------------------------------
(* The line of instances.                                                  *)

(* The input of a round is well formed.                                    *)
LEMMA RoundInputsTyped ==
    ASSUME TypeOK, NEW i \in Instance, NEW in \in RoundInputs(i)
    PROVE  in \in RoundInput
<1>1. RetirementReports(i) \subseteq Watermarks
  BY InstancesAssumption DEF RetirementReports, TypeOK, Instance
<1>2. HonestRemovals(out[i]) \subseteq Channels
  BY Zenon DEF HonestRemovals, Defined
<1>3. HonestUpdates(out[i]) \subseteq [Channels -> Definitions \cup {Absent}]
  BY Zenon DEF HonestUpdates
<1>. QED
  BY <1>1, <1>2, <1>3, Zenon DEF RoundInputs, RoundInput

(* The outcome that every instance starts from is well formed.             *)
LEMMA InitialOutcomeTyped ==
    ASSUME NEW b \in BOOLEAN
    PROVE  /\ InitialOutcome(b) \in OutcomeType
           /\ [InitialOutcome(b) EXCEPT !.stage = "none"] \in OutcomeType
<1>1. 0 \in Time
  BY ConstantsAssumption DEF Time
<1>2. NoWatermarks \in Watermarks
  BY Zenon DEF NoWatermarks, Watermarks
<1>3. [c \in Channels |-> Absent] \in [Channels -> Definitions \cup {Absent}]
  BY Zenon
<1>. QED
  BY <1>1, <1>2, <1>3, Zenon DEF InitialOutcome, OutcomeType, Stages

(* A round changes the outcome of one instance.                            *)
LEMMA OutcomeStep ==
    ASSUME TypeOK, NEW i \in Instance, NEW in \in RoundInputs(i), Outcome(i, in)
    PROVE  LET next == NextOutcome(out[i], in, OptsOf(NextDefinitions(out[i], in)))
           IN  /\ in \in RoundInput
               /\ out[i] \in OutcomeType
               /\ next \in OutcomeType
               /\ out'[i] = next
               /\ out' \in [Instance -> OutcomeType]
               /\ \A j \in Instance : j # i => out'[j] = out[j]
<1>1. in \in RoundInput /\ out[i] \in OutcomeType
  BY RoundInputsTyped, Zenon DEF TypeOK
<1>2. NextOutcome(out[i], in, OptsOf(NextDefinitions(out[i], in))) \in OutcomeType
  BY <1>1, NextOutcomeType, Zenon
<1>. QED
  BY <1>1, <1>2, Zenon DEF Outcome, TypeOK

(* The stage after a round.                                                *)
LEMMA StageOfRound ==
    ASSUME TypeOK, NEW i \in Instance, NEW in \in RoundInputs(i), Outcome(i, in)
    PROVE  out'[i].stage = NextStage(out[i], in)
<1>. DEFINE cache == OptsOf(NextDefinitions(out[i], in))
<1>1. /\ in \in RoundInput
      /\ out[i] \in OutcomeType
      /\ out'[i] = NextOutcome(out[i], in, cache)
  BY OutcomeStep, Zenon
<1>. HIDE DEF cache
<1>2. NextOutcome(out[i], in, cache).stage = NextStage(out[i], in)
  BY <1>1, NextOutcomeFields, Zenon
<1>. QED
  BY <1>1, <1>2, Zenon

(* The definitions after a round.                                          *)
LEMMA DefinitionsOfRound ==
    ASSUME TypeOK, NEW i \in Instance, NEW in \in RoundInputs(i), Outcome(i, in)
    PROVE  out'[i].defs = NextDefinitions(out[i], in)
<1>. DEFINE cache == OptsOf(NextDefinitions(out[i], in))
<1>1. /\ in \in RoundInput
      /\ out[i] \in OutcomeType
      /\ out'[i] = NextOutcome(out[i], in, cache)
  BY OutcomeStep, Zenon
<1>. HIDE DEF cache
<1>2. NextOutcome(out[i], in, cache).defs = NextDefinitions(out[i], in)
  BY <1>1, NextOutcomeFields, Zenon
<1>. QED
  BY <1>1, <1>2, Zenon

(* TypeOK holds in every reachable state.                                  *)
THEOREM TypeCorrect == Spec => []TypeOK
<1>1. Init => TypeOK
  <2>. SUFFICES ASSUME Init PROVE TypeOK
    BY Zenon
  <2>1. out \in [Instance -> OutcomeType]
    BY InitialOutcomeTyped, Zenon DEF Init
  <2>. QED
    BY <2>1, Zenon DEF Init, TypeOK, NoWatermarks, Watermarks
<1>2. TypeOK /\ [Next]_vars => TypeOK'
  <2>. SUFFICES ASSUME TypeOK, [Next]_vars PROVE TypeOK'
    BY Zenon
  <2>1. ASSUME NEW i \in Instance, FirstRound(i) PROVE TypeOK'
    <3>1. InitialOutcome(i # 1) \in OutcomeType
      BY InitialOutcomeTyped, Zenon
    <3>. QED
      BY <2>1, <3>1, Zenon DEF FirstRound, TypeOK
  <2>2. ASSUME NEW i \in Instance, NEW in \in RoundInputs(i), Outcome(i, in) PROVE TypeOK'
    <3>1. out' \in [Instance -> OutcomeType]
      BY <2>2, OutcomeStep, Zenon
    <3>2. tip' \in Watermarks
      BY <2>2, Zenon DEF Outcome, TypeOK, Watermarks
    <3>3. /\ disturbed' \in [Channels -> BOOLEAN]
          /\ lost' \in [Channels -> BOOLEAN]
      BY <2>2, Zenon DEF Outcome, TypeOK
    <3>4. phase' \in [Instance -> {"outcome", "reports"}] /\ attested' = attested
      BY <2>2, Zenon DEF Outcome, TypeOK
    <3>. QED
      BY <3>1, <3>2, <3>3, <3>4, Zenon DEF TypeOK
  <2>3. ASSUME NEW i \in Instance, NEW failed \in SUBSET Channels, Reports(i, failed)
        PROVE  TypeOK'
    <3>1. out[i] \in OutcomeType /\ out[i].va \in Watermarks
      BY Zenon DEF TypeOK, OutcomeType
    <3>2. attested' \in [Instance -> SUBSET Watermarks]
      BY <2>3, <3>1, Zenon DEF Reports, TypeOK
    <3>3. \A c \in ReportableChannels(out[i]) : ReportEnd(out[i], c, OptsOf(out[i].defs)) \in Time
      BY <3>1, ReportEndType, Zenon DEF ReportableChannels
    <3>4. tip' \in Watermarks
      BY <2>3, <3>3, Zenon DEF Reports, TypeOK, Watermarks
    <3>5. /\ disturbed' \in [Channels -> BOOLEAN]
          /\ lost' \in [Channels -> BOOLEAN]
      BY <2>3, Zenon DEF Reports, TypeOK
    <3>6. phase' \in [Instance -> {"outcome", "reports"}] /\ out' = out
      BY <2>3, Zenon DEF Reports, TypeOK
    <3>. QED
      BY <3>2, <3>4, <3>5, <3>6, Zenon DEF TypeOK
  <2>4. CASE UNCHANGED vars
    BY <2>4, Zenon DEF vars, TypeOK
  <2>. QED
    BY <2>1, <2>2, <2>3, <2>4, Zenon DEF Next
<1>. QED
  BY <1>1, <1>2, PTL DEF Spec

-----------------------------------------------------------------------------
(* The handover. The inductive invariant adds to OneProducer and           *)
(* RetirementFrozen what they rest on: only a retired instance has signed  *)
(* anything, and what it signed can neither be completed nor truncated by  *)
(* a later round.                                                          *)
SignedRetired == \A i \in Instance : attested[i] # {} => out[i].stage = "retired"

WatermarksKept == \A i \in Instance : KeptByCodec(out[i].va)

RetiredComplete == \A i \in Instance : out[i].stage = "retired" => AllWatermarked(out[i])

HandoverInv ==
    OneProducer /\ RetirementFrozen /\ SignedRetired /\ WatermarksKept /\ RetiredComplete

(* How a round moves an instance through its life cycle: it leaves staging *)
(* only with a report that its predecessor signed.                         *)
LEMMA StageStep ==
    ASSUME TypeOK, SignedRetired,
           NEW i \in Instance, NEW in \in RoundInputs(i), Outcome(i, in)
    PROVE  /\ out[i].stage = "production" => out'[i].stage \in {"production", "retired"}
           /\ out[i].stage = "retired" => out'[i].stage = "retired"
           /\ out[i].stage = "staging" =>
                \/ out'[i].stage = "staging"
                \/ /\ out'[i].stage \in {"production", "retired"}
                   /\ Promotes(out[i], in)
                   /\ i - 1 \in Instance
                   /\ in.report \in attested[i - 1]
                   /\ out[i - 1].stage = "retired"
           /\ out[i].stage # "none"
<1>1. out'[i].stage = NextStage(out[i], in)
  BY StageOfRound, Zenon
<1>2. Promotes(out[i], in) => /\ i - 1 \in Instance
                              /\ in.report \in attested[i - 1]
                              /\ out[i - 1].stage = "retired"
  <2>. SUFFICES ASSUME Promotes(out[i], in)
                PROVE  /\ i - 1 \in Instance
                       /\ in.report \in attested[i - 1]
                       /\ out[i - 1].stage = "retired"
    BY Zenon
  <2>1. in.report \in RetirementReports(i)
    BY Zenon DEF Promotes, RoundInputs
  <2>2. i > 1 /\ in.report \in attested[i - 1]
    BY <2>1, Zenon DEF RetirementReports
  <2>. QED
    BY <2>2, InstancesAssumption DEF SignedRetired, Instance
<1>3. out[i].stage # "none"
  BY Zenon DEF Outcome
<1>. QED
  BY <1>1, <1>2, <1>3, Zenon DEF NextStage, Promotes

(* A round of a retired instance leaves its watermarks alone.              *)
LEMMA FrozenStep ==
    ASSUME TypeOK, WatermarksKept, RetiredComplete,
           NEW i \in Instance, NEW in \in RoundInputs(i), Outcome(i, in),
           out[i].stage = "retired"
    PROVE  out'[i].va = out[i].va
<1>1. AllWatermarked(out[i]) /\ KeptByCodec(out[i].va)
  BY Zenon DEF RetiredComplete, WatermarksKept
<1>. QED
  BY <1>1, OutcomeStep, RetiredRound

(* The invariant of the handover holds in every reachable state.           *)
LEMMA HandoverCorrect == Spec => []HandoverInv
<1>1. Init => HandoverInv
  <2>. SUFFICES ASSUME Init PROVE HandoverInv
    BY Zenon
  <2>1. \A i \in Instance : out[i].stage = "none" /\ out[i].va = NoWatermarks /\ attested[i] = {}
    BY Zenon DEF Init, InitialOutcome
  <2>. QED
    BY <2>1 DEF HandoverInv, OneProducer, RetirementFrozen, SignedRetired, WatermarksKept,
                RetiredComplete, KeptByCodec, NoWatermarks
<1>2. TypeOK /\ HandoverInv /\ [Next]_vars => HandoverInv'
  <2>. SUFFICES ASSUME TypeOK, HandoverInv, [Next]_vars PROVE HandoverInv'
    BY Zenon
  <2>. USE DEF HandoverInv
  <2>1. ASSUME NEW i \in Instance, FirstRound(i) PROVE HandoverInv'
    <3>1. /\ out[i].stage = "none"
          /\ out'[i] = InitialOutcome(i # 1)
          /\ \A j \in Instance : j # i => out'[j] = out[j]
          /\ attested' = attested
      BY <2>1, Zenon DEF FirstRound, TypeOK
    <3>2. /\ out'[i].stage = IF i = 1 THEN "production" ELSE "staging"
          /\ out'[i].va = NoWatermarks
      BY <3>1 DEF InitialOutcome
    <3>3. attested[i] = {}
      BY <3>1, Zenon DEF SignedRetired
    <3>4. OneProducer'
      BY <3>1, <3>2, InstancesAssumption DEF OneProducer, Instance
    <3>5. RetirementFrozen' /\ SignedRetired'
      BY <3>1, <3>3, Zenon DEF RetirementFrozen, SignedRetired
    <3>6. WatermarksKept' /\ RetiredComplete'
      BY <3>1, <3>2 DEF WatermarksKept, RetiredComplete, KeptByCodec, NoWatermarks
    <3>. QED
      BY <3>4, <3>5, <3>6, Zenon
  <2>2. ASSUME NEW i \in Instance, NEW in \in RoundInputs(i), Outcome(i, in)
        PROVE  HandoverInv'
    <3>. DEFINE cache == OptsOf(NextDefinitions(out[i], in))
    <3>1. /\ in \in RoundInput
          /\ out[i] \in OutcomeType
          /\ out'[i] = NextOutcome(out[i], in, cache)
          /\ \A j \in Instance : j # i => out'[j] = out[j]
          /\ attested' = attested
      BY <2>2, OutcomeStep, Zenon DEF Outcome
    <3>. HIDE DEF cache
    <3>2. OneProducer'
      <4>. SUFFICES ASSUME NEW a \in Instance, NEW b \in Instance, a < b,
                           out'[b].stage \in {"production", "retired"}
                    PROVE  out'[a].stage = "retired"
        BY Zenon DEF OneProducer
      <4>1. CASE b # i
        <5>1. out[a].stage = "retired"
          BY <3>1, <4>1, Zenon DEF OneProducer
        <5>. QED
          BY <2>2, <3>1, <5>1, StageStep, Zenon
      <4>2. CASE b = i
        <5>1. out'[a] = out[a]
          BY <3>1, <4>2 DEF Instance
        <5>2. CASE out[i].stage \in {"production", "retired"}
          BY <4>2, <5>1, <5>2, Zenon DEF OneProducer
        <5>3. CASE out[i].stage = "staging"
          <6>1. i - 1 \in Instance /\ out[i - 1].stage = "retired"
            BY <2>2, <4>2, <5>3, StageStep, Zenon
          <6>2. a = i - 1 \/ a < i - 1
            BY <4>2, InstancesAssumption DEF Instance
          <6>. QED
            BY <5>1, <6>1, <6>2, Zenon DEF OneProducer
        <5>. QED
          BY <2>2, <5>2, <5>3, StageStep, Zenon DEF TypeOK, OutcomeType, Stages
      <4>. QED
        BY <4>1, <4>2, Zenon
    <3>3. RetirementFrozen' /\ SignedRetired'
      <4>1. ASSUME attested[i] # {}
            PROVE  out'[i].stage = "retired" /\ out'[i].va = out[i].va
        BY <2>2, <4>1, StageStep, FrozenStep, Zenon DEF SignedRetired
      <4>. QED
        BY <3>1, <4>1, Zenon DEF RetirementFrozen, SignedRetired
    <3>4. WatermarksKept'
      <4>1. KeptByCodec(out'[i].va)
        BY <3>1, NextKeptByCodec, Zenon
      <4>. QED
        BY <3>1, <4>1, Zenon DEF WatermarksKept
    <3>5. RetiredComplete'
      <4>1. out'[i].stage = NextStage(out[i], in)
        BY <2>2, StageOfRound, Zenon
      <4>2. out'[i].stage = "retired" => AllWatermarked(out'[i])
        BY <3>1, <4>1, RetiredWatermarked, Zenon
      <4>. QED
        BY <3>1, <4>2, Zenon DEF RetiredComplete
    <3>. QED
      BY <3>2, <3>3, <3>4, <3>5, Zenon
  <2>3. ASSUME NEW i \in Instance, NEW failed \in SUBSET Channels, Reports(i, failed)
        PROVE  HandoverInv'
    <3>1. /\ out' = out
          /\ \A j \in Instance : j # i => attested'[j] = attested[j]
          /\ attested'[i] = IF out[i].stage = "retired"
                              THEN attested[i] \cup {out[i].va} ELSE attested[i]
      BY <2>3, Zenon DEF Reports, SignsRetirementReport, TypeOK
    <3>2. RetirementFrozen' /\ SignedRetired'
      BY <3>1 DEF RetirementFrozen, SignedRetired
    <3>. QED
      BY <3>1, <3>2, Zenon DEF OneProducer, WatermarksKept, RetiredComplete
  <2>4. CASE UNCHANGED vars
    BY <2>4 DEF vars, OneProducer, RetirementFrozen, SignedRetired, WatermarksKept,
                RetiredComplete
  <2>. QED
    BY <2>1, <2>2, <2>3, <2>4, Zenon DEF Next
<1>. QED
  BY <1>1, <1>2, TypeCorrect, PTL DEF Spec

(* OneProducer: production passes from an instance to the next one only    *)
(* when it has retired, for any number of instances.                       *)
THEOREM OneProducerHolds == Spec => []OneProducer
  BY HandoverCorrect, PTL DEF HandoverInv

(* RetirementFrozen: a retired instance signs one map of watermarks.       *)
THEOREM RetirementFrozenHolds == Spec => []RetirementFrozen
  BY HandoverCorrect, PTL DEF HandoverInv

-----------------------------------------------------------------------------
(* The chain of production reports. At most one instance leads: the last   *)
(* one that has left staging. The next report of a channel starts where    *)
(* the leader's watermark will be when its next round decodes it, and the  *)
(* invariant says that this is where the last report ended, through every  *)
(* phase of a round and every step of a handover.                          *)
Leads(i) ==
    /\ out[i].stage \in {"production", "retired"}
    /\ \A j \in Instance : j > i => out[j].stage \in {"none", "staging"}

NextStart(i, c) ==
    IF phase[i] = "outcome" /\ out[i].stage = "production"
      THEN CodecTime(WatermarkAfter(out[i], c)) ELSE out[i].va[c]

StartsAt(t, c) == t >= CodecTime(tip[c]) /\ (~lost[c] => t = CodecTime(tip[c]))

Chained(i) ==
    \A c \in Channels :
        tip[c] # Absent => /\ out[i].va[c] # Absent
                           /\ ~disturbed[c] => StartsAt(NextStart(i, c), c)

ChainInv ==
    /\ \A i \in Instance : Leads(i) => Chained(i)
    /\ out[1].stage = "none" => tip = NoWatermarks

(* An instance that is in production leads, and no other one does.         *)
LEMMA ProducerLeads ==
    ASSUME TypeOK, OneProducer, NEW i \in Instance, out[i].stage = "production"
    PROVE  Leads(i) /\ \A k \in Instance : k # i => ~Leads(k)
<1>1. Leads(i)
  BY Zenon DEF TypeOK, OutcomeType, Stages, OneProducer, Leads
<1>2. ASSUME NEW k \in Instance, k # i PROVE ~Leads(k)
  <2>1. k < i \/ i < k
    BY <1>2, InstancesAssumption DEF Instance
  <2>. QED
    BY <2>1, Zenon DEF Leads, OneProducer
<1>. QED
  BY <1>1, <1>2, Zenon

(* A round in production moves the watermark as its reports say.           *)
LEMMA ProductionRound ==
    ASSUME TypeOK, HandoverInv, ChainInv,
           NEW i \in Instance, NEW in \in RoundInputs(i), Outcome(i, in),
           out[i].stage = "production"
    PROVE  Chained(i)'
<1>. DEFINE defs == NextDefinitions(out[i], in)
<1>1. /\ in \in RoundInput
      /\ out[i] \in OutcomeType
      /\ out'[i] = NextOutcome(out[i], in, OptsOf(defs))
  BY OutcomeStep, Zenon
<1>2. out'[i].defs = defs
  BY DefinitionsOfRound, Zenon
<1>3. out'[i].stage \in {"production", "retired"}
  BY StageStep, Zenon DEF HandoverInv
<1>4. Chained(i)
  BY ProducerLeads, Zenon DEF HandoverInv, ChainInv
<1>5. phase[i] = "outcome" /\ phase'[i] = "reports"
  BY Zenon DEF Outcome, TypeOK
<1>. SUFFICES ASSUME NEW c \in Channels, tip'[c] # Absent
              PROVE  /\ out'[i].va[c] # Absent
                     /\ ~disturbed'[c] => StartsAt(NextStart(i, c), c)'
  BY Zenon DEF Chained
<1>6. out'[i].va[c] # Absent /\ tip'[c] = tip[c] /\ lost'[c] = lost[c]
  BY <1>3, Zenon DEF Outcome, TypeOK
<1>7. ASSUME ~disturbed'[c] PROVE StartsAt(NextStart(i, c), c)'
  <2>1. ~disturbed[c] /\ ~Disturbs(out[i], out'[i], c)
    BY <1>3, <1>7, Zenon DEF Outcome
  <2>2. SameDefinition(out[i], defs, c)
    BY <1>2, <2>1, Zenon DEF Disturbs, SameDefinition
  <2>3. out[i].va[c] # Absent /\ StartsAt(NextStart(i, c), c)
    BY <1>4, <1>6, <2>1, Zenon DEF Chained
  <2>4. out'[i].va[c] = CodecTime(WatermarkAfter(out[i], c))
    BY <1>1, <1>6, <2>2, <2>3, UntouchedRound, Zenon
  <2>5. NextStart(i, c)' = NextStart(i, c)
    BY <1>5, <2>4, Zenon DEF NextStart
  <2>. QED
    BY <1>6, <2>3, <2>5, Zenon DEF StartsAt
<1>. QED
  BY <1>6, <1>7, Zenon

(* A promotion takes the watermarks over from the leader, which retired.   *)
LEMMA PromotionStep ==
    ASSUME TypeOK, HandoverInv, ChainInv,
           NEW i \in Instance, NEW in \in RoundInputs(i), Outcome(i, in),
           out[i].stage = "staging", out'[i].stage # "staging"
    PROVE  Chained(i)'
<1>. DEFINE cache == OptsOf(NextDefinitions(out[i], in))
<1>1. /\ in \in RoundInput
      /\ out[i] \in OutcomeType
      /\ out'[i] = NextOutcome(out[i], in, cache)
  BY OutcomeStep, Zenon
<1>. HIDE DEF cache
<1>2. /\ out'[i].stage \in {"production", "retired"}
      /\ Promotes(out[i], in)
      /\ i - 1 \in Instance
      /\ in.report = out[i - 1].va
      /\ out[i - 1].stage = "retired"
  BY StageStep, Zenon DEF HandoverInv, RetirementFrozen
<1>3. Leads(i - 1)
  <2>. SUFFICES ASSUME NEW j \in Instance, j > i - 1
                PROVE  out[j].stage \in {"none", "staging"}
    BY <1>2, Zenon DEF Leads
  <2>1. j = i \/ i < j
    BY InstancesAssumption DEF Instance
  <2>. QED
    BY <2>1, Zenon DEF HandoverInv, OneProducer, TypeOK, OutcomeType, Stages
<1>4. \A c \in Channels : tip[c] # Absent =>
        /\ in.report[c] # Absent
        /\ CodecTime(in.report[c]) = in.report[c]
        /\ ~disturbed[c] => StartsAt(in.report[c], c)
  BY <1>2, <1>3 DEF ChainInv, Chained, NextStart, HandoverInv, WatermarksKept, KeptByCodec
<1>5. phase'[i] = "reports"
  BY Zenon DEF Outcome, TypeOK
<1>. SUFFICES ASSUME NEW c \in Channels, tip'[c] # Absent
              PROVE  /\ out'[i].va[c] # Absent
                     /\ ~disturbed'[c] => StartsAt(NextStart(i, c), c)'
  BY Zenon DEF Chained
<1>6. out'[i].va[c] # Absent /\ tip'[c] = tip[c] /\ lost'[c] = lost[c]
  BY <1>2, Zenon DEF Outcome, TypeOK
<1>7. SeedsWatermarks(out[i], in)
  BY <1>2, <1>4, <1>6, Zenon DEF SeedsWatermarks, NoWatermarks
<1>8. out'[i].va[c] = in.report[c]
  BY <1>1, <1>4, <1>6, <1>7, PromotionRound, SMTT(30)
<1>9. ASSUME ~disturbed'[c] PROVE StartsAt(NextStart(i, c), c)'
  <2>1. ~disturbed[c]
    BY <1>9, Zenon DEF Outcome
  <2>2. NextStart(i, c)' = in.report[c]
    BY <1>5, <1>8, Zenon DEF NextStart
  <2>. QED
    BY <1>4, <1>6, <2>1, <2>2, Zenon DEF StartsAt
<1>. QED
  BY <1>6, <1>9, Zenon

(* The rounds of an instance that is not in production and stays so move   *)
(* no report.                                                              *)
LEMMA QuietRound ==
    ASSUME TypeOK, HandoverInv, ChainInv,
           NEW i \in Instance, NEW in \in RoundInputs(i), Outcome(i, in),
           \/ out[i].stage = "retired"
           \/ out[i].stage = "staging" /\ out'[i].stage = "staging",
           NEW k \in Instance, Leads(k)'
    PROVE  Chained(k)'
<1>1. \A j \in Instance : j # i => out'[j] = out[j] /\ phase'[j] = phase[j]
  <2>1. \A j \in Instance : j # i => out'[j] = out[j]
    BY OutcomeStep, Zenon
  <2>2. phase' = [phase EXCEPT ![i] = "reports"]
    BY Zenon DEF Outcome
  <2>. QED
    BY <2>1, <2>2, Zenon DEF TypeOK
<1>2. out'[i].stage = out[i].stage
  BY StageStep, Zenon DEF HandoverInv
<1>3. Leads(k)
  BY <1>1, <1>2, Zenon DEF Leads
<1>4. \A c \in Channels : tip'[c] # Absent =>
        tip'[c] = tip[c] /\ disturbed'[c] = disturbed[c] /\ lost'[c] = lost[c]
  BY <1>2, Zenon DEF Outcome, TypeOK
<1>5. out'[k].va = out[k].va
  BY <1>1, <1>2, <1>3, FrozenStep, Zenon DEF HandoverInv, Leads
<1>6. \A c \in Channels : NextStart(k, c)' = NextStart(k, c)
  BY <1>1, <1>2, <1>3, <1>5, Zenon DEF NextStart, Leads
<1>. QED
  BY <1>3, <1>4, <1>5, <1>6, Zenon DEF ChainInv, Chained, StartsAt

(* The reports of the leader move the end of the chain with the watermark  *)
(* that its next round will decode.                                        *)
LEMMA ReportsStep ==
    ASSUME NoWrap, TypeOK, HandoverInv, ChainInv,
           NEW i \in Instance, NEW failed \in SUBSET Channels, Reports(i, failed),
           out[i].stage = "production"
    PROVE  Chained(i)'
<1>. DEFINE o == out[i]
            end(c) == ReportEnd(o, c, OptsOf(o.defs))
<1>1. /\ o \in OutcomeType /\ out' = out
      /\ phase[i] = "reports" /\ phase'[i] = "outcome"
  BY Zenon DEF Reports, TypeOK
<1>2. Chained(i)
  BY ProducerLeads, Zenon DEF HandoverInv, ChainInv
<1>. SUFFICES ASSUME NEW c \in Channels, tip'[c] # Absent
              PROVE  /\ o.va[c] # Absent
                     /\ ~disturbed'[c] => StartsAt(NextStart(i, c), c)'
  BY <1>1, Zenon DEF Chained
<1>3. NextStart(i, c)' = CodecTime(WatermarkAfter(o, c))
  BY <1>1, Zenon DEF NextStart
<1>4. CASE c \in ReportableChannels(o) \ failed
  <2>1. tip'[c] = end(c)
    BY <1>4, Zenon DEF Reports
  <2>2. WatermarkAfter(o, c) = end(c)
    BY <1>4, Zenon DEF WatermarkAfter
  <2>3. o.va[c] \in Time /\ end(c) \in Time
    BY <1>1, <1>4, ReportEndType, Zenon DEF ReportableChannels
  <2>4. CodecTime(end(c)) \in Nat
    BY <2>3, CodecTimeInTime, ConstantsAssumption DEF Time
  <2>5. o.va[c] # Absent
    BY <2>3, ConstantsAssumption DEF Time
  <2>6. StartsAt(NextStart(i, c), c)'
    BY <1>3, <2>1, <2>2, <2>4 DEF StartsAt
  <2>. QED
    BY <2>5, <2>6, Zenon
<1>5. CASE c \in failed
  <2>1. c \in ReportableChannels(o) /\ tip'[c] = tip[c] /\ disturbed'[c] = disturbed[c]
        /\ lost'[c]
    BY <1>5, Zenon DEF Reports, TypeOK
  <2>2. o.va[c] \in Time /\ end(c) \in Time /\ o.va[c] <= end(c)
    BY <1>1, <2>1, ReportEndType, ReportEndsAfterWatermark, Zenon DEF ReportableChannels
  <2>3. o.va[c] # Absent
    BY <2>2, ConstantsAssumption DEF Time
  <2>4. ASSUME ~disturbed'[c] PROVE StartsAt(NextStart(i, c), c)'
    <3>1. o.va[c] >= CodecTime(tip[c])
      BY <1>1, <1>2, <2>1, <2>4, Zenon DEF Chained, StartsAt, NextStart
    <3>2. tip[c] \in Time
      BY <2>1, Zenon DEF TypeOK, Watermarks
    <3>3. CodecTime(o.va[c]) = o.va[c]
      BY <2>3, Zenon DEF HandoverInv, WatermarksKept, KeptByCodec
    <3>4. CodecTime(o.va[c]) <= CodecTime(end(c))
      BY <2>2, CodecTimeMonotone, ConstantsAssumption DEF Time
    <3>5. CodecTime(tip[c]) \in Nat /\ CodecTime(end(c)) \in Nat /\ o.va[c] \in Nat
      BY <2>2, <3>2, CodecTimeInTime, ConstantsAssumption DEF Time
    <3>6. CodecTime(end(c)) >= CodecTime(tip[c])
      BY <3>1, <3>3, <3>4, <3>5
    <3>. QED
      BY <1>3, <2>1, <3>6, Zenon DEF StartsAt, WatermarkAfter
  <2>. QED
    BY <2>3, <2>4, Zenon
<1>6. CASE c \notin ReportableChannels(o)
  <2>1. tip'[c] = tip[c] /\ disturbed'[c] = disturbed[c] /\ lost'[c] = lost[c]
    BY <1>6, Zenon DEF Reports, TypeOK
  <2>2. o.va[c] # Absent /\ (~disturbed[c] => StartsAt(o.va[c], c))
    BY <1>1, <1>2, <2>1, Zenon DEF Chained, NextStart
  <2>3. CodecTime(WatermarkAfter(o, c)) = o.va[c]
    BY <1>6, <2>2, Zenon DEF HandoverInv, WatermarksKept, KeptByCodec, WatermarkAfter
  <2>. QED
    BY <1>3, <2>1, <2>2, <2>3, Zenon DEF StartsAt
<1>. QED
  BY <1>4, <1>5, <1>6, Zenon

(* The chain of production reports holds in every reachable state.         *)
LEMMA ChainCorrect == NoWrap => (Spec => []ChainInv)
<1>. SUFFICES ASSUME NoWrap PROVE Spec => []ChainInv
  BY Zenon
<1>1. Init => ChainInv
  <2>. SUFFICES ASSUME Init PROVE ChainInv
    BY Zenon
  <2>1. \A i \in Instance : out[i].stage = "none"
    BY Zenon DEF Init, InitialOutcome
  <2>. QED
    BY <2>1, Zenon DEF Init, ChainInv, Leads
<1>2. TypeOK /\ HandoverInv /\ HandoverInv' /\ TypeOK' /\ ChainInv /\ [Next]_vars => ChainInv'
  <2>. SUFFICES ASSUME TypeOK, HandoverInv, HandoverInv', TypeOK', ChainInv, [Next]_vars
                PROVE  ChainInv'
    BY Zenon
  <2>. USE DEF HandoverInv
  <2>0. 1 \in Instance
    BY InstancesAssumption DEF Instance
  <2>1. ASSUME NEW i \in Instance, FirstRound(i) PROVE ChainInv'
    <3>1. /\ out[i].stage = "none"
          /\ out'[i] = InitialOutcome(i # 1)
          /\ \A j \in Instance : j # i => out'[j] = out[j]
          /\ UNCHANGED <<phase, tip, disturbed, lost>>
      BY <2>1, Zenon DEF FirstRound, TypeOK
    <3>2. out'[i].stage = IF i = 1 THEN "production" ELSE "staging"
      BY <3>1 DEF InitialOutcome
    <3>3. CASE i = 1
      <4>1. tip' = NoWatermarks
        BY <3>1, <3>3, Zenon DEF ChainInv
      <4>. QED
        BY <3>2, <3>3, <4>1, Zenon DEF ChainInv, Chained, NoWatermarks
    <3>4. CASE i # 1
      <4>1. ASSUME NEW k \in Instance, Leads(k)' PROVE Chained(k)'
        <5>1. k # i
          BY <3>2, <3>4, <4>1, Zenon DEF Leads
        <5>2. Leads(k)
          BY <3>1, <4>1, <5>1, Zenon DEF Leads
        <5>3. out'[k] = out[k]
          BY <3>1, <5>1, Zenon
        <5>. QED
          BY <3>1, <5>2, <5>3, Zenon DEF ChainInv, Chained, NextStart, StartsAt
      <4>2. (out[1].stage = "none" => tip = NoWatermarks)'
        BY <2>0, <3>1, <3>4, Zenon DEF ChainInv
      <4>. QED
        BY <4>1, <4>2, Zenon DEF ChainInv
    <3>. QED
      BY <3>3, <3>4, Zenon
  <2>2. ASSUME NEW i \in Instance, NEW in \in RoundInputs(i), Outcome(i, in)
        PROVE  ChainInv'
    <3>1. ASSUME NEW k \in Instance, Leads(k)' PROVE Chained(k)'
      <4>1. CASE out[i].stage = "production"
        <5>1. k = i
          <6>1. out'[i].stage \in {"production", "retired"}
            BY <2>2, <4>1, StageStep, Zenon
          <6>2. \A j \in Instance : j > i => out'[j].stage \in {"none", "staging"}
            BY <2>2, <4>1, OutcomeStep, ProducerLeads, Zenon DEF Leads, Instance
          <6>3. k < i \/ k = i \/ k > i
            BY InstancesAssumption DEF Instance
          <6>. QED
            BY <3>1, <6>1, <6>2, <6>3, Zenon DEF Leads
        <5>. QED
          BY <2>2, <4>1, <5>1, ProductionRound, Zenon
      <4>2. CASE out[i].stage = "staging" /\ out'[i].stage # "staging"
        <5>1. out'[i].stage \in {"production", "retired"}
          BY <2>2, <4>2, StageStep, Zenon
        <5>2. \A j \in Instance : j > i => out'[j] = out[j]
          BY <2>2, OutcomeStep DEF Instance
        <5>3. k < i \/ k = i \/ k > i
          BY InstancesAssumption DEF Instance
        <5>4. k = i
          BY <3>1, <4>2, <5>1, <5>2, <5>3, Zenon DEF Leads, OneProducer
        <5>. QED
          BY <2>2, <4>2, <5>4, PromotionStep, Zenon
      <4>3. CASE out[i].stage = "retired" \/ (out[i].stage = "staging" /\ out'[i].stage = "staging")
        BY <2>2, <3>1, <4>3, QuietRound, Zenon
      <4>. QED
        BY <2>2, <4>1, <4>2, <4>3, StageStep, Zenon DEF TypeOK, OutcomeType, Stages
    <3>2. (out[1].stage = "none" => tip = NoWatermarks)'
      <4>. SUFFICES ASSUME out'[1].stage = "none" PROVE tip' = NoWatermarks
        BY Zenon
      <4>1. out[1].stage = "none"
        <5>1. i # 1
          <6>1. out[i].stage \in {"staging", "production", "retired"}
            BY <2>2, StageStep, ZenonT(60) DEF TypeOK, OutcomeType, Stages
          <6>2. out'[i].stage # "none"
            BY <2>2, <6>1, StageStep, Zenon
          <6>. QED
            BY <6>2, Zenon
        <5>. QED
          BY <2>0, <2>2, <5>1, OutcomeStep, Zenon
      <4>2. tip = NoWatermarks
        BY <4>1, Zenon DEF ChainInv
      <4>. QED
        BY <2>2, <4>2, Zenon DEF Outcome, NoWatermarks
    <3>. QED
      BY <3>1, <3>2, Zenon DEF ChainInv
  <2>3. ASSUME NEW i \in Instance, NEW failed \in SUBSET Channels, Reports(i, failed)
        PROVE  ChainInv'
    <3>1. out' = out /\ \A j \in Instance : j # i => phase'[j] = phase[j]
      BY <2>3, Zenon DEF Reports, TypeOK
    <3>2. CASE out[i].stage = "production"
      <4>1. ASSUME NEW k \in Instance, Leads(k)' PROVE Chained(k)'
        <5>1. Leads(k)
          BY <3>1, <4>1, Zenon DEF Leads
        <5>2. k = i
          BY <3>2, <5>1, ProducerLeads, Zenon
        <5>. QED
          BY <2>3, <3>2, <5>2, ReportsStep, Zenon
      <4>2. out[1].stage # "none"
        <5>1. i = 1 \/ 1 < i
          BY InstancesAssumption DEF Instance
        <5>. QED
          BY <2>0, <3>2, <5>1, Zenon DEF OneProducer
      <4>. QED
        BY <3>1, <4>1, <4>2, Zenon DEF ChainInv
    <3>3. CASE out[i].stage # "production"
      <4>1. tip' = tip /\ disturbed' = disturbed /\ lost' = lost
        BY <2>3, <3>3, Zenon DEF Reports, TypeOK, Watermarks
      <4>2. \A k \in Instance, c \in Channels : NextStart(k, c)' = NextStart(k, c)
        BY <3>1, <3>3, Zenon DEF NextStart
      <4>. QED
        BY <3>1, <4>1, <4>2, Zenon DEF ChainInv, Leads, Chained, StartsAt
    <3>. QED
      BY <3>2, <3>3, Zenon
  <2>4. CASE UNCHANGED vars
    BY <2>4, Zenon DEF vars, ChainInv, Leads, Chained, NextStart, StartsAt
  <2>. QED
    BY <2>1, <2>2, <2>3, <2>4, Zenon DEF Next
<1>. QED
  BY <1>1, <1>2, TypeCorrect, HandoverCorrect, PTL DEF Spec

-----------------------------------------------------------------------------
(* What the invariants say of a report that continues a chain.             *)
LEMMA ContinuedReport ==
    ASSUME TypeOK, HandoverInv, ChainInv, NEW i \in Instance, NEW c \in Continues(i)
    PROVE  /\ c \in Channels
           /\ out[i] \in OutcomeType
           /\ IsReportable(out[i], c, OptsOf(out[i].defs))
           /\ tip[c] \in Time
           /\ ~disturbed[c] => StartsAt(out[i].va[c], c)
<1>1. /\ c \in Channels
      /\ IsReportable(out[i], c, OptsOf(out[i].defs))
      /\ tip[c] # Absent /\ phase[i] = "reports" /\ out[i].stage = "production"
  BY Zenon DEF Continues, ReportableChannels
<1>2. Chained(i)
  BY <1>1, ProducerLeads, Zenon DEF HandoverInv, ChainInv
<1>. QED
  BY <1>1, <1>2, Zenon DEF Chained, NextStart, TypeOK, Watermarks

(* NoOverlap: whatever the timestamps, the redefinitions of other          *)
(* channels, the failures to encode and the number of handovers.           *)
THEOREM NoOverlapHolds == NoWrap => (Spec => []NoOverlap)
<1>1. TypeOK /\ HandoverInv /\ ChainInv => NoOverlap
  BY ContinuedReport, Zenon DEF NoOverlap, StartsAt
<1>. QED
  BY <1>1, TypeCorrect, HandoverCorrect, ChainCorrect, PTL

(* NoGap: the chain of production reports is gapless unless a report was   *)
(* lost.                                                                   *)
THEOREM NoGapHolds == NoWrap => (Spec => []NoGap)
<1>1. TypeOK /\ HandoverInv /\ ChainInv => NoGap
  BY ContinuedReport, Zenon DEF NoGap, StartsAt
<1>. QED
  BY <1>1, TypeCorrect, HandoverCorrect, ChainCorrect, PTL

(* ReportSpacing: in every protocol version, over any number of handovers. *)
THEOREM ReportSpacingHolds == NoWrap => (Spec => []ReportSpacing)
<1>. SUFFICES ASSUME NoWrap PROVE Spec => []ReportSpacing
  BY Zenon
<1>1. ASSUME TypeOK, HandoverInv, ChainInv,
             NEW i \in Instance, NEW c \in Continues(i),
             out[i].defs[c].format # "backfill", ~disturbed[c]
      PROVE  out[i].ts >= tip[c] + MinReportInterval
  <2>. DEFINE o == out[i]
  <2>1. /\ c \in Channels /\ o \in OutcomeType /\ IsReportable(o, c, OptsOf(o.defs))
        /\ tip[c] \in Time /\ o.va[c] >= CodecTime(tip[c])
    BY <1>1, ContinuedReport, Zenon DEF StartsAt
  <2>2. /\ ProtocolVersion > 0 => o.ts >= o.va[c] + MinReportInterval
        /\ ProtocolVersion = 0 => Seconds(o.va[c]) < Seconds(o.ts)
    BY <1>1, <2>1, LiveReportWaits, Zenon
  <2>3. o.ts \in Nat /\ tip[c] \in Nat /\ o.va[c] \in Nat /\ MinReportInterval \in Nat
    <3>1. o.ts \in Time
      BY <2>1, OutcomeTimes, Zenon
    <3>2. o.va[c] \in Time
      BY <2>1, ReportEndType, Zenon
    <3>3. MinReportInterval \in Nat
      BY ConstantsAssumption, Zenon
    <3>. QED
      BY <2>1, <3>1, <3>2, <3>3, TimeIsNat, Zenon
  <2>4. CASE ProtocolVersion > 0
    BY <2>1, <2>2, <2>3, <2>4, ConstantsAssumption DEF CodecTime
  <2>5. CASE ProtocolVersion = 0
    <3>1. MinReportInterval = 0 /\ CodecTime(tip[c]) = Seconds(tip[c]) * SecondNanos
      BY <2>5, ConstantsAssumption, Zenon DEF CodecTime
    <3>2. /\ Seconds(tip[c]) \in Nat /\ Seconds(o.va[c]) \in Nat /\ Seconds(o.ts) \in Nat
          /\ CodecTime(tip[c]) \in Nat
      BY <2>1, <2>3, SecondsFloor, CodecTimeInTime, ConstantsAssumption, SMTT(30) DEF Time
    <3>3. Seconds(CodecTime(tip[c])) = Seconds(tip[c])
      BY <3>1, <3>2, SecondsOfScaled, Zenon
    <3>4. Seconds(tip[c]) <= Seconds(o.va[c])
      BY <2>1, <2>3, <3>2, <3>3, SecondsMonotone, Zenon
    <3>5. ~(o.ts <= tip[c])
      BY <2>2, <2>3, <2>5, <3>2, <3>4, SecondsMonotone
    <3>. QED
      BY <2>3, <3>1, <3>5
  <2>. QED
    BY <2>4, <2>5, ConstantsAssumption
<1>2. TypeOK /\ HandoverInv /\ ChainInv => ReportSpacing
  BY <1>1, Zenon DEF ReportSpacing
<1>. QED
  BY <1>2, TypeCorrect, HandoverCorrect, ChainCorrect, PTL

(* BackfillAscends: where the codec keeps the nanoseconds. Version 0       *)
(* truncates the watermark, and emits an observation between two seconds   *)
(* again.                                                                  *)
THEOREM BackfillAscendsHolds ==
    NoWrap /\ ProtocolVersion > 0 => (Spec => []BackfillAscends)
<1>. SUFFICES ASSUME NoWrap, ProtocolVersion > 0 PROVE Spec => []BackfillAscends
  BY Zenon
<1>1. ASSUME TypeOK, HandoverInv, ChainInv,
             NEW i \in Instance, NEW c \in Continues(i),
             out[i].defs[c].format = "backfill", ~disturbed[c]
      PROVE  ReportEnd(out[i], c, OptsOf(out[i].defs)) > tip[c]
  <2>. DEFINE o == out[i]
              end == ReportEnd(o, c, OptsOf(o.defs))
  <2>1. /\ c \in Channels /\ o \in OutcomeType /\ IsReportable(o, c, OptsOf(o.defs))
        /\ tip[c] \in Time /\ o.va[c] >= CodecTime(tip[c])
    BY <1>1, ContinuedReport, Zenon DEF StartsAt
  <2>2. o.va[c] \in Time /\ end \in Time /\ end > o.va[c]
    BY <1>1, <2>1, ReportEndType, Zenon
  <2>3. CodecTime(tip[c]) = tip[c]
    BY ConstantsAssumption DEF CodecTime
  <2>. HIDE DEF end
  <2>4. end > tip[c]
    BY <2>1, <2>2, <2>3, ConstantsAssumption DEF Time
  <2>. QED
    BY <2>4, Zenon DEF end
<1>2. TypeOK /\ HandoverInv /\ ChainInv => BackfillAscends
  BY <1>1, Zenon DEF BackfillAscends
<1>. QED
  BY <1>2, TypeCorrect, HandoverCorrect, ChainCorrect, PTL

(* BackfillComplete: in every protocol version.                            *)
THEOREM BackfillCompleteHolds == NoWrap => (Spec => []BackfillComplete)
<1>. SUFFICES ASSUME NoWrap PROVE Spec => []BackfillComplete
  BY Zenon
<1>1. ASSUME TypeOK, HandoverInv, ChainInv,
             NEW i \in Instance, NEW c \in Continues(i),
             out[i].defs[c].format = "backfill", ~disturbed[c], ~lost[c],
             NEW raw \in out[i].defs[c].opts.rows,
             raw * ResolutionNanos(out[i].defs[out[i].defs[c].opts.target]) > tip[c]
      PROVE  raw * ResolutionNanos(out[i].defs[out[i].defs[c].opts.target])
               >= ReportEnd(out[i], c, OptsOf(out[i].defs))
  <2>. DEFINE o == out[i]
              d == o.defs[c]
              cache == OptsOf(o.defs)
              t == raw * ResolutionNanos(o.defs[d.opts.target])
              end == SelectBackfillCandidate(o, c, cache)
  <2>1. /\ c \in Channels /\ o \in OutcomeType /\ IsReportable(o, c, cache)
        /\ tip[c] \in Time /\ o.va[c] = CodecTime(tip[c])
    BY <1>1, ContinuedReport, Zenon DEF StartsAt
  <2>2. d # Absent /\ HasCandidate(o, c, cache) /\ ReportEnd(o, c, cache) = end
    BY <1>1, <2>1, Zenon DEF IsReportable, ReportEnd
  <2>3. GetHistoryBackfillOpts(d, c, cache) = d.opts
    BY <2>1, <2>2, Zenon DEF OptsOf, GetHistoryBackfillOpts
  <2>4. /\ end \in BackfillCandidates(o, c, cache)
        /\ \A u \in BackfillCandidates(o, c, cache) : end <= u
        /\ end \in Time /\ end < o.ts /\ o.va[c] # Absent
    BY <2>2, CandidateSelected, CandidateBounds, Zenon
  <2>5. d.opts.target \in Channels /\ o.defs[d.opts.target] # Absent
    BY <2>3, <2>4, Zenon DEF BackfillCandidates
  <2>6. t \in Nat
    <3>1. d \in ChannelDefinition
      BY <2>1, <2>2, DefinitionTyped, Zenon
    <3>2. raw \in Nat
      BY <1>1, <3>1, Zenon DEF ChannelDefinition, ChannelOpts
    <3>3. ResolutionNanos(o.defs[d.opts.target]) \in Nat
      BY ConstantsAssumption, Zenon DEF ResolutionNanos
    <3>. QED
      BY <3>2, <3>3, SMTT(30)
  <2>7. /\ o.ts \in Nat /\ end \in Nat /\ tip[c] \in Nat
        /\ CodecTime(tip[c]) \in Nat /\ CodecTime(tip[c]) <= tip[c]
    <3>1. o.ts \in Time
      BY <2>1, OutcomeTimes, Zenon
    <3>2. tip[c] \in Nat
      BY <2>1, TimeIsNat, Zenon
    <3>3. CodecTime(tip[c]) \in Nat /\ CodecTime(tip[c]) <= tip[c]
      BY <3>2, CodecTimeBounds, Zenon
    <3>. QED
      BY <2>4, <3>1, <3>2, <3>3, TimeIsNat, Zenon
  <2>8. t > tip[c]
    BY <1>1, Zenon
  <2>. HIDE DEF end, t, cache, d, o
  <2>9. t > o.va[c]
    BY <2>1, <2>6, <2>7, <2>8, SMTT(30)
  <2>10. ASSUME t < o.ts PROVE t >= end
    <3>1. t \in Time
      <4>1. o.ts \in 0 .. MaxTime /\ MaxTime \in Nat
        <5>1. o.ts \in Time
          BY <2>1, OutcomeTimes, Zenon
        <5>. QED
          BY <5>1, ConstantsAssumption, Zenon DEF Time
      <4>. QED
        BY <2>6, <2>10, <4>1, SMTT(30) DEF Time
    <3>2. t \in BackfillCandidates(o, c, cache)
      BY <1>1, <2>3, <2>4, <2>5, <2>9, <2>10, <3>1, Zenon
         DEF BackfillCandidates, PastWatermark, t, d, o
    <3>. QED
      BY <2>4, <2>6, <2>7, <3>2, Zenon
  <2>11. ASSUME ~(t < o.ts) PROVE t >= end
    BY <2>4, <2>6, <2>7, <2>11, SMTT(30)
  <2>12. t >= end
    BY <2>6, <2>7, <2>10, <2>11, Zenon
  <2>. QED
    BY <2>2, <2>12, Zenon DEF t, d, cache, o
<1>2. TypeOK /\ HandoverInv /\ ChainInv => BackfillComplete
  BY <1>1, Zenon DEF BackfillComplete
<1>. QED
  BY <1>2, TypeCorrect, HandoverCorrect, ChainCorrect, PTL
==============================================================================
