-------------------------- MODULE HandoverV31Rounds --------------------------
(***************************************************************************)
(* Proofs about HandoverV31, for any number of instances and channels, any *)
(* definitions that the sources hold, and any interval and resolution:     *)
(* what the rounds and the reports of an instance leave behind, and how    *)
(* production passes along the line of instances.                          *)
(***************************************************************************)
EXTENDS HandoverV31, TLAPS

TypeOK ==
    /\ scene \in Scenes
    /\ kv \in [Instance -> KvState \cup {Absent}]
    /\ precursor \in [Instance -> PrecursorState \cup {Absent}]
    /\ attested \in [Instance -> SUBSET Watermarks]
    /\ tip \in Watermarks
    /\ loose \subseteq Channels /\ crossed \subseteq Channels /\ redefined \subseteq Channels

(* The definitions are those of the sources.                               *)
FromSources(defs) == \A c \in Channels : defs[c] # Absent => defs[c] \in scene.sources[c]

(* What a committed round leaves in the key-value state: only a channel    *)
(* whose watermark lies in the past has reported, a retired instance has   *)
(* reported nothing and has a watermark for every channel.                 *)
StateInv(s) ==
    /\ \A c \in s.reported : s.va[c] # Absent /\ s.va[c] < s.ts
    /\ s.stage = "retired" =>
         s.reported = {} /\ \A c \in Channels : s.defs[c] # Absent => s.va[c] # Absent
    /\ FromSources(s.defs)

(* Reports sees the round that was committed last.                         *)
PrecursorInv(s, p) ==
    /\ s # Absent
    /\ p.stage = s.stage /\ p.ts = s.ts /\ p.va = s.va /\ p.reportable = s.reported
    /\ FromSources(p.defs)
    /\ \A c \in p.reportable :
         /\ p.defs[c] # Absent
         /\ p.defs[c].format = "backfill" =>
              SelectBackfillCandidate(p.defs, p.va, p.ts, c) # {}

RoundsInv ==
    \A i \in Instance : /\ kv[i] # Absent => StateInv(kv[i])
                        /\ precursor[i] # Absent => PrecursorInv(kv[i], precursor[i])

Started(i) == kv[i] # Absent /\ kv[i].stage # "staging"
Retired(i) == kv[i] # Absent /\ kv[i].stage = "retired"

(* Production is handed over from each instance to the next one.           *)
LineInv ==
    /\ \A i \in Instance : attested[i] # {} => Retired(i)
    /\ \A i, j \in Instance : i < j /\ Started(j) => Retired(i)
    /\ kv[1] # Absent => Started(1)
    /\ kv[1] = Absent => tip = Empty

(* Where the next live report of channel c starts, or after which time the *)
(* next backfill observation is looked for.                                *)
Advanced(s, c) ==
    IF s.defs[c] # Absent THEN CarriedWatermark(s, c)
    ELSE IF PrevReportable(s, c) THEN s.ts ELSE s.va[c]

-----------------------------------------------------------------------------
(* What the operators of a round return.                                   *)

LEMMA TimeIsNat == \A t \in Time : t \in Nat /\ t # Absent
  BY TransitionAssumption DEF Time

LEMMA TimeBelow == \A t \in Nat, u \in Time : t <= u => t \in Time
  BY TransitionAssumption DEF Time

(* The candidates of a backfill lie strictly between its watermark and the *)
(* round's timestamp.                                                      *)
LEMMA CandidateBounds ==
    ASSUME NEW defs \in [Channels -> ChannelDefinition \cup {Absent}], NEW va \in Watermarks,
           NEW ts \in Time, NEW c \in Channels,
           NEW t \in BackfillCandidates(defs, va, ts, c)
    PROVE  /\ defs[c] # Absent /\ defs[c].format = "backfill"
           /\ va[c] \in Time /\ t \in Time /\ t < ts /\ t > va[c]
<1>. DEFINE d == defs[c]
            res == TargetChannelTimeResolution(defs[d.target])
<1>1. /\ d # Absent /\ d.format = "backfill" /\ va[c] # Absent
      /\ t \in ObservationTimes(d.rows \ d.bad, res) /\ t < ts /\ t > va[c]
  BY Zenon DEF BackfillCandidates, PastWatermark
<1>2. va[c] \in Time
  BY <1>1, Zenon DEF Watermarks
<1>3. d.rows \subseteq Nat
  BY <1>1, Zenon DEF ChannelDefinition
<1>4. ResolutionNanos(res) \in Nat
  BY TransitionAssumption, Zenon DEF ResolutionNanos
<1>. HIDE DEF res, d
<1>5. PICK raw \in d.rows : t = raw * ResolutionNanos(res)
  BY <1>1, Zenon DEF ObservationTimes
<1>6. t \in Nat
  BY <1>3, <1>4, <1>5
<1>7. ts \in Nat /\ va[c] \in Nat
  BY <1>2, TimeIsNat, Zenon
<1>8. t \in Time
  BY <1>1, <1>6, <1>7, TimeBelow
<1>. QED
  BY <1>1, <1>2, <1>8, Zenon DEF d

(* The candidate that is selected is the earliest one.                     *)
LEMMA CandidateSelected ==
    ASSUME NEW defs, NEW va, NEW ts, NEW c,
           SelectBackfillCandidate(defs, va, ts, c) # {}
    PROVE  LET t == CHOOSE t \in SelectBackfillCandidate(defs, va, ts, c) : TRUE
           IN /\ t \in BackfillCandidates(defs, va, ts, c)
              /\ \A u \in BackfillCandidates(defs, va, ts, c) : t <= u
  BY Zenon DEF SelectBackfillCandidate, EarliestOf

(* The candidates depend on the definitions of the channel and its target. *)
LEMMA CandidateSources ==
    ASSUME NEW defs, NEW defs2, NEW va, NEW ts, NEW c, Sources(defs, c) = Sources(defs2, c)
    PROVE  SelectBackfillCandidate(defs, va, ts, c) = SelectBackfillCandidate(defs2, va, ts, c)
<1>1. defs[c] = defs2[c]
  BY Zenon DEF Sources
<1>2. ASSUME defs[c] # Absent, defs[c].target \in Channels
      PROVE  defs[defs[c].target] = defs2[defs[c].target]
  BY <1>1, <1>2, Zenon DEF Sources
<1>3. CASE defs[c] # Absent /\ defs[c].target \in Channels
  BY <1>1, <1>2, <1>3, Zenon DEF SelectBackfillCandidate, BackfillCandidates, Defined
<1>4. CASE ~(defs[c] # Absent /\ defs[c].target \in Channels)
  BY <1>1, <1>4, Zenon DEF SelectBackfillCandidate, BackfillCandidates, Defined
<1>. QED
  BY <1>3, <1>4, Zenon

(* A committed watermark never moves back as it advances.                  *)
LEMMA AdvancedBounds ==
    ASSUME NEW s \in KvState, NEW c \in Channels, s.va[c] # Absent,
           c \in s.reported => s.va[c] < s.ts
    PROVE  Advanced(s, c) \in Time /\ Advanced(s, c) >= s.va[c]
<1>1. /\ s.defs \in [Channels -> ChannelDefinition \cup {Absent}]
      /\ s.va \in Watermarks /\ s.ts \in Time /\ s.va[c] \in Time
  BY Zenon DEF KvState, Watermarks
<1>2. s.va[c] \in Nat /\ s.ts \in Nat
  BY <1>1, TimeIsNat, Zenon
<1>. DEFINE next == SelectBackfillCandidate(s.defs, s.va, s.ts, c)
            t == CHOOSE t \in next : TRUE
<1>3. ASSUME next # {} PROVE t \in Time /\ t >= s.va[c]
  <2>1. t \in Time /\ t > s.va[c]
    BY <1>1, <1>3, CandidateSelected, CandidateBounds, Zenon
  <2>. QED
    BY <1>2, <2>1, TimeIsNat
<1>. HIDE DEF t
<1>4. Advanced(s, c) = s.va[c] \/ (c \in s.reported /\ Advanced(s, c) = s.ts)
        \/ (next # {} /\ Advanced(s, c) = t)
  BY Zenon DEF Advanced, CarriedWatermark, PrevReportable, t
<1>. QED
  BY <1>1, <1>2, <1>3, <1>4

(* The votes on channels yield definitions that were there or that passed. *)
LEMMA VotesApplied ==
    ASSUME NEW defs \in [Channels -> ChannelDefinition \cup {Absent}], NEW removed, NEW passing,
           \A c \in Channels : passing[c] \subseteq ChannelDefinition
    PROVE  /\ ApplyChannelVotes(defs, removed, passing)
                \in [Channels -> ChannelDefinition \cup {Absent}]
           /\ \A c \in Channels : ApplyChannelVotes(defs, removed, passing)[c]
                                    \in {Absent, defs[c]} \cup passing[c]
<1>. DEFINE res == ApplyChannelVotes(defs, removed, passing)
<1>2. \A c \in Channels : \/ res[c] \in {Absent, defs[c]}
                          \/ passing[c] # {} /\ res[c] = CHOOSE d \in passing[c] : TRUE
  BY Zenon DEF ApplyChannelVotes
<1>3. \A c \in Channels : res[c] \in {Absent, defs[c]} \cup passing[c]
  BY <1>2, Zenon
<1>4. res = [c \in Channels |-> res[c]]
  BY Zenon DEF ApplyChannelVotes
<1>. HIDE DEF res
<1>5. \A c \in Channels : res[c] \in ChannelDefinition \cup {Absent}
  BY <1>3, Zenon
<1>. QED
  BY <1>3, <1>4, <1>5, Zenon DEF res

(* The input of a round. A report of the predecessor was attested by it.   *)
LEMMA InputTyped ==
    ASSUME TypeOK, NEW i \in Instance, kv[i] # Absent, NEW in \in RoundInputs(i)
    PROVE  /\ in.ts \in Time
           /\ in.report \in Watermarks \cup {Absent}
           /\ in.report # Absent =>
                i > 1 /\ i - 1 \in Instance /\ kv[i].stage = "staging" /\ in.report \in attested[i - 1]
           /\ \A c \in Channels : in.passing[c] \subseteq scene.sources[c]
           /\ scene.sources \in [Channels -> SUBSET ChannelDefinition]
<1>1. /\ in.ts \in {t \in 0 .. scene.maxTime : t + 1 >= kv[i].ts}
      /\ in.report \in {ResolveRetirement(R) : R \in RetirementReports(i)}
      /\ in.passing \in Updates(kv[i])
  BY Zenon DEF RoundInputs
<1>2. scene.maxTime \in Time /\ scene.sources \in [Channels -> SUBSET ChannelDefinition]
  BY HandoverAssumption, Zenon DEF TypeOK
<1>3. in.ts \in Time
  BY <1>1, <1>2, TransitionAssumption DEF Time
<1>4. ASSUME in.report # Absent
      PROVE  i > 1 /\ kv[i].stage = "staging" /\ in.report \in attested[i - 1]
  <2>1. PICK R \in RetirementReports(i) : in.report = ResolveRetirement(R)
    BY <1>1, Zenon
  <2>2. R # {} /\ in.report = CHOOSE r \in R : TRUE
    BY <1>4, <2>1, Zenon DEF ResolveRetirement
  <2>3. R # {}
    BY <2>2, Zenon
  <2>4. in.report \in R
    BY <2>2, <2>3, Zenon
  <2>5. i > 1 /\ kv[i].stage = "staging" /\ R \subseteq attested[i - 1]
    BY <2>1, <2>3, Zenon DEF RetirementReports
  <2>. QED
    BY <2>4, <2>5, Zenon
<1>5. i > 1 => i - 1 \in Instance
  BY HandoverAssumption DEF Instance
<1>6. in.report \in Watermarks \cup {Absent}
  BY <1>4, <1>5, Zenon DEF TypeOK
<1>7. \A c \in Channels : in.passing[c] \subseteq scene.sources[c]
  BY <1>1, Zenon DEF Updates
<1>. QED
  BY <1>2, <1>3, <1>4, <1>5, <1>6, <1>7, Zenon

(* The watermarks of a round.                                              *)
LEMMA WatermarksOfRound ==
    ASSUME NEW prev \in KvState, NEW in, in.report \in Watermarks \cup {Absent}, NEW ts \in Time,
           \A c \in prev.reported : prev.va[c] # Absent /\ prev.va[c] < prev.ts
    PROVE  LET va == NextWatermarks(prev, in, ts)
               New(c) == IF prev.defs[c] # Absent THEN NewWatermark(prev.defs[c], ts) ELSE Absent
           IN  /\ va \in Watermarks
               /\ \A c \in Channels :
                    /\ prev.defs[c] # Absent => va[c] # Absent
                    /\ Promotes(prev, in) =>
                         va[c] = IF in.report[c] # Absent
                                 THEN BoundPromotedValidAfter(in.report[c], ts) ELSE New(c)
                    /\ ~Promotes(prev, in) =>
                         va[c] = IF prev.va[c] # Absent /\ prev.defs[c] # Absent
                                 THEN Advanced(prev, c) ELSE New(c)
<1>. DEFINE va == NextWatermarks(prev, in, ts)
            known == KnownWatermarks(prev, in, ts)
            New(c) == IF prev.defs[c] # Absent THEN NewWatermark(prev.defs[c], ts) ELSE Absent
<1>0. 0 \in Time /\ Absent \notin Time
  BY TransitionAssumption DEF Time
<1>1. \A c \in Channels : prev.va[c] # Absent /\ prev.defs[c] # Absent => Advanced(prev, c) \in Time
  BY AdvancedBounds, Zenon
<1>2. \A c \in Channels : prev.defs[c] # Absent => NewWatermark(prev.defs[c], ts) \in Time
  BY <1>0, Zenon DEF NewWatermark
<1>3. ASSUME Promotes(prev, in), NEW c \in Channels
      PROVE  /\ known[c] = IF in.report[c] # Absent
                           THEN BoundPromotedValidAfter(in.report[c], ts) ELSE Absent
             /\ in.report[c] # Absent => BoundPromotedValidAfter(in.report[c], ts) \in Time
  <2>1. in.report \in Watermarks
    BY <1>3, Zenon DEF Promotes
  <2>2. in.report[c] # Absent => in.report[c] \in Time
    BY <2>1, Zenon DEF Watermarks
  <2>3. in.report[c] # Absent => BoundPromotedValidAfter(in.report[c], ts) \in Time
    BY <2>2, Zenon DEF BoundPromotedValidAfter
  <2>. QED
    BY <1>3, <2>3, Zenon DEF KnownWatermarks
<1>4. ASSUME ~Promotes(prev, in), NEW c \in Channels
      PROVE  known[c] = IF prev.va[c] # Absent /\ prev.defs[c] # Absent
                        THEN Advanced(prev, c) ELSE Absent
  <2>1. known[c] = IF prev.va[c] = Absent THEN Absent ELSE CarriedWatermark(prev, c)
    BY <1>4, Zenon DEF KnownWatermarks
  <2>2. prev.defs[c] = Absent => CarriedWatermark(prev, c) = Absent
    BY Zenon DEF CarriedWatermark
  <2>. QED
    BY <2>1, <2>2, Zenon DEF Advanced
<1>5. \A c \in Channels : va[c] = IF known[c] = Absent THEN New(c) ELSE known[c]
  <2>1. \A c \in Channels : va[c] = IF known[c] = Absent /\ prev.defs[c] # Absent
                                    THEN NewWatermark(prev.defs[c], ts) ELSE known[c]
    BY Zenon DEF NextWatermarks
  <2>. QED
    BY <2>1, Zenon
<1>6. va = [c \in Channels |-> va[c]]
  BY Zenon DEF NextWatermarks
<1>. HIDE DEF va, known
<1>7. \A c \in Channels :
         /\ va[c] \in Time \cup {Absent}
         /\ prev.defs[c] # Absent => va[c] # Absent
         /\ Promotes(prev, in) =>
              va[c] = IF in.report[c] # Absent
                      THEN BoundPromotedValidAfter(in.report[c], ts) ELSE New(c)
         /\ ~Promotes(prev, in) =>
              va[c] = IF prev.va[c] # Absent /\ prev.defs[c] # Absent
                      THEN Advanced(prev, c) ELSE New(c)
  <2>. TAKE c \in Channels
  <2>1. New(c) \in Time \cup {Absent} /\ (prev.defs[c] # Absent => New(c) # Absent)
    BY <1>0, <1>2, Zenon
  <2>. HIDE DEF New
  <2>2. CASE Promotes(prev, in)
    BY <1>0, <1>3, <1>5, <2>1, <2>2, Zenon
  <2>3. CASE ~Promotes(prev, in)
    BY <1>0, <1>1, <1>4, <1>5, <2>1, <2>3, Zenon
  <2>. QED
    BY <2>2, <2>3, Zenon
<1>8. va \in Watermarks
  BY <1>6, <1>7, Zenon DEF Watermarks
<1>. QED
  BY <1>7, <1>8, Zenon DEF va, New

(* The precursor of a round and the state that it commits.                 *)
LEMMA PrecursorOfRound ==
    ASSUME TypeOK, RoundsInv, NEW i \in Instance, kv[i] # Absent, NEW in \in RoundInputs(i)
    PROVE  LET prev == kv[i]
               p == Precursor(prev, in)
           IN  /\ p \in PrecursorState
               /\ p.stage = NextStage(prev, in) /\ p.defs = prev.defs
               /\ p.ts >= prev.ts /\ p.va = NextWatermarks(prev, in, p.ts)
               /\ \A c \in p.reportable :
                    /\ p.stage # "retired" /\ p.defs[c] # Absent
                    /\ p.va[c] # Absent /\ p.va[c] < p.ts
                    /\ p.defs[c].format = "backfill" =>
                         SelectBackfillCandidate(p.defs, p.va, p.ts, c) # {}
<1>. DEFINE prev == kv[i]
            ts == AgreedObservationTimestamp(in.ts, prev.ts)
            va == NextWatermarks(prev, in, ts)
            p == Precursor(prev, in)
            q == [stage |-> NextStage(prev, in), defs |-> prev.defs, ts |-> ts, va |-> va]
<1>1. /\ prev \in KvState /\ prev.stage \in Stages /\ prev.ts \in Time
      /\ prev.defs \in [Channels -> ChannelDefinition \cup {Absent}]
      /\ \A c \in prev.reported : prev.va[c] # Absent /\ prev.va[c] < prev.ts
  BY Zenon DEF TypeOK, KvState, RoundsInv, StateInv
<1>2. in.ts \in Time /\ in.report \in Watermarks \cup {Absent}
  BY InputTyped, Zenon
<1>3. ts \in Time /\ ts >= prev.ts
  BY <1>1, <1>2, TimeIsNat DEF AgreedObservationTimestamp
<1>4. va \in Watermarks
  BY <1>1, <1>2, <1>3, WatermarksOfRound, Zenon
<1>5. NextStage(prev, in) \in Stages
  BY <1>1, Zenon DEF NextStage, Stages
<1>. HIDE DEF ts, va, prev
<1>6. /\ p.stage = NextStage(prev, in) /\ p.defs = prev.defs /\ p.ts = ts /\ p.va = va
      /\ p.reportable = ReportableChannels(q, in.values.valued, in.values.encodable)
      /\ p = [stage |-> p.stage, defs |-> p.defs, ts |-> p.ts, va |-> p.va,
              reportable |-> p.reportable]
  BY Zenon DEF Precursor, ts, va
<1>7. p.reportable \subseteq Channels
  BY <1>6, Zenon DEF ReportableChannels
<1>8. p \in PrecursorState
  BY <1>1, <1>3, <1>4, <1>5, <1>6, <1>7, Zenon DEF PrecursorState
<1>9. ASSUME NEW c \in p.reportable
      PROVE  /\ p.stage # "retired" /\ p.defs[c] # Absent
             /\ p.va[c] # Absent /\ p.va[c] < p.ts
             /\ p.defs[c].format = "backfill" =>
                  SelectBackfillCandidate(p.defs, p.va, p.ts, c) # {}
  <2>1. c \in Channels /\ IsReportable(q, c, in.values.valued, in.values.encodable)
    BY <1>6, <1>9, Zenon DEF ReportableChannels
  <2>2. q.stage = p.stage /\ q.defs = p.defs /\ q.ts = p.ts /\ q.va = p.va
    BY <1>6, Zenon
  <2>. HIDE DEF q, p
  <2>3. /\ p.stage # "retired" /\ p.defs[c] # Absent
        /\ p.defs[c].format = "backfill" =>
             SelectBackfillCandidate(p.defs, p.va, p.ts, c) # {}
        /\ p.defs[c].format # "backfill" => p.va[c] # Absent /\ IntervalElapsed(p.va[c], p.ts)
    BY <2>1, <2>2, Zenon DEF IsReportable
  <2>4. CASE p.defs[c].format = "backfill"
    <3>1. PICK t \in BackfillCandidates(p.defs, p.va, p.ts, c) : TRUE
      BY <2>3, <2>4, CandidateSelected, Zenon
    <3>2. p.va[c] \in Time /\ t \in Time /\ t < p.ts /\ t > p.va[c]
      BY <1>1, <1>3, <1>4, <1>6, <2>1, <3>1, CandidateBounds, Zenon
    <3>3. p.va[c] < p.ts /\ p.va[c] # Absent
      BY <1>3, <1>6, <3>2, TimeIsNat
    <3>. QED
      BY <2>3, <2>4, <3>3, Zenon
  <2>5. CASE p.defs[c].format # "backfill"
    <3>1. p.va[c] \in Nat /\ p.ts \in Nat
      BY <1>3, <1>4, <1>6, <2>1, <2>3, <2>5, TimeIsNat, Zenon DEF Watermarks
    <3>2. p.va[c] < p.ts
      BY <2>3, <2>5, <3>1, Zenon DEF IntervalElapsed
    <3>. QED
      BY <2>3, <2>5, <3>2, Zenon
  <2>. QED
    BY <2>4, <2>5, Zenon
<1>. QED
  BY <1>3, <1>6, <1>8, <1>9, Zenon DEF prev, va

(* The definitions that a round commits come from the sources.             *)
LEMMA DefinitionsOfRound ==
    ASSUME TypeOK, RoundsInv, NEW i \in Instance, kv[i] # Absent, NEW in \in RoundInputs(i)
    PROVE  LET defs == NextDefinitions(kv[i], in)
           IN  /\ defs \in [Channels -> ChannelDefinition \cup {Absent}]
               /\ FromSources(defs)
               /\ NextStage(kv[i], in) = "retired" => defs = kv[i].defs
<1>1. kv[i].defs \in [Channels -> ChannelDefinition \cup {Absent}] /\ FromSources(kv[i].defs)
  BY Zenon DEF TypeOK, KvState, RoundsInv, StateInv
<1>2. \A c \in Channels : /\ in.passing[c] \subseteq scene.sources[c]
                          /\ in.passing[c] \subseteq ChannelDefinition
  BY InputTyped, Zenon
<1>. DEFINE applied == ApplyChannelVotes(kv[i].defs, in.removed, in.passing)
<1>3. /\ applied \in [Channels -> ChannelDefinition \cup {Absent}]
      /\ \A c \in Channels : applied[c] \in {Absent, kv[i].defs[c]} \cup in.passing[c]
  BY <1>1, <1>2, VotesApplied, Zenon
<1>. HIDE DEF applied
<1>4. FromSources(applied)
  BY <1>1, <1>2, <1>3, Zenon DEF FromSources
<1>5. NextDefinitions(kv[i], in) = IF NextStage(kv[i], in) = "retired" THEN kv[i].defs ELSE applied
  BY Zenon DEF NextDefinitions, applied
<1>. QED
  BY <1>1, <1>3, <1>4, <1>5, Zenon

(* What a round does to the instances.                                     *)
LEMMA RoundStep ==
    ASSUME TypeOK, RoundsInv, NEW i \in Instance, kv[i] # Absent,
           NEW in \in RoundInputs(i), StateTransition(i, in)
    PROVE  LET p == Precursor(kv[i], in)
           IN  /\ precursor[i] = Absent /\ precursor'[i] = p
               /\ p \in PrecursorState /\ p.defs = kv[i].defs /\ p.stage = NextStage(kv[i], in)
               /\ p.ts >= kv[i].ts /\ p.va = NextWatermarks(kv[i], in, p.ts)
               /\ kv'[i] \in KvState /\ kv'[i].defs = NextDefinitions(kv[i], in)
               /\ kv'[i].stage = p.stage /\ kv'[i].ts = p.ts /\ kv'[i].va = p.va
               /\ StateInv(kv[i])' /\ PrecursorInv(kv[i], precursor[i])'
               /\ kv' \in [Instance -> KvState \cup {Absent}]
               /\ precursor' \in [Instance -> PrecursorState \cup {Absent}]
               /\ \A j \in Instance : j # i => kv'[j] = kv[j] /\ precursor'[j] = precursor[j]
               /\ UNCHANGED <<scene, attested, tip>>
<1>. DEFINE prev == kv[i]
            p == Precursor(prev, in)
            next == FlushKV(prev, in, p)
            defs == NextDefinitions(prev, in)
<1>1. /\ precursor[i] = Absent
      /\ kv' = [kv EXCEPT ![i] = next]
      /\ precursor' = [precursor EXCEPT ![i] = p]
      /\ UNCHANGED <<scene, attested, tip>>
  BY Zenon DEF StateTransition
<1>2. /\ p \in PrecursorState
      /\ p.stage = NextStage(prev, in) /\ p.defs = prev.defs
      /\ p.ts >= prev.ts /\ p.va = NextWatermarks(prev, in, p.ts)
      /\ \A c \in p.reportable :
           /\ p.stage # "retired" /\ p.defs[c] # Absent
           /\ p.va[c] # Absent /\ p.va[c] < p.ts
           /\ p.defs[c].format = "backfill" =>
                SelectBackfillCandidate(p.defs, p.va, p.ts, c) # {}
  BY PrecursorOfRound, Zenon
<1>3. /\ defs \in [Channels -> ChannelDefinition \cup {Absent}]
      /\ FromSources(defs)
      /\ p.stage = "retired" => defs = prev.defs
  BY <1>2, DefinitionsOfRound, Zenon
<1>4. /\ prev \in KvState /\ FromSources(prev.defs)
      /\ \A c \in prev.reported : prev.va[c] # Absent /\ prev.va[c] < prev.ts
      /\ in.report \in Watermarks \cup {Absent}
  BY InputTyped, Zenon DEF TypeOK, RoundsInv, StateInv
<1>5. \A c \in Channels : prev.defs[c] # Absent => p.va[c] # Absent
  <2>1. p.ts \in Time
    BY <1>2, Zenon DEF PrecursorState
  <2>. HIDE DEF p, prev
  <2>. QED
    BY <1>2, <1>4, <2>1, WatermarksOfRound
<1>. HIDE DEF p, defs, prev
<1>6. /\ next = [stage |-> p.stage, defs |-> defs, ts |-> p.ts, va |-> p.va,
                 reported |-> p.reportable]
      /\ next.stage = p.stage /\ next.defs = defs /\ next.ts = p.ts /\ next.va = p.va
      /\ next.reported = p.reportable
  BY Zenon DEF FlushKV, defs
<1>7. next \in KvState
  BY <1>2, <1>3, <1>6, Zenon DEF PrecursorState, KvState
<1>. HIDE DEF next
<1>8. /\ kv'[i] = next /\ precursor'[i] = p
      /\ kv' \in [Instance -> KvState \cup {Absent}]
      /\ precursor' \in [Instance -> PrecursorState \cup {Absent}]
      /\ \A j \in Instance : j # i => kv'[j] = kv[j] /\ precursor'[j] = precursor[j]
  BY <1>1, <1>2, <1>7, Zenon DEF TypeOK
<1>9. StateInv(kv[i])'
  <2>1. \A c \in next.reported : next.va[c] # Absent /\ next.va[c] < next.ts
    BY <1>2, <1>6, Zenon
  <2>2. next.stage = "retired" =>
          next.reported = {} /\ \A c \in Channels : next.defs[c] # Absent => next.va[c] # Absent
    BY <1>2, <1>3, <1>5, <1>6, Zenon
  <2>3. \A c \in Channels : next.defs[c] # Absent => next.defs[c] \in scene'.sources[c]
    BY <1>1, <1>3, <1>6, Zenon DEF FromSources
  <2>. QED
    BY <1>8, <2>1, <2>2, <2>3, Zenon DEF StateInv, FromSources
<1>10. PrecursorInv(kv[i], precursor[i])'
  BY <1>1, <1>2, <1>4, <1>6, <1>7, <1>8, TransitionAssumption, Zenon DEF PrecursorInv, FromSources
<1>. QED
  BY <1>1, <1>2, <1>6, <1>7, <1>8, <1>9, <1>10, Zenon DEF p, prev, defs

(* What the start of an instance and its reports do to the instances.      *)
LEMMA FirstRoundStep ==
    ASSUME TypeOK, NEW i \in Instance, FirstRound(i)
    PROVE  /\ kv[i] = Absent /\ kv'[i] = InitialState(i # 1)
           /\ kv'[i] \in KvState /\ kv'[i] # Absent /\ StateInv(kv[i])'
           /\ kv' \in [Instance -> KvState \cup {Absent}]
           /\ \A j \in Instance : j # i => kv'[j] = kv[j]
           /\ UNCHANGED <<scene, precursor, attested, tip, loose, crossed, redefined>>
<1>1. 0 \in Time /\ Empty \in Watermarks
  BY TransitionAssumption DEF Time, Empty, Watermarks
<1>2. Empty \in [Channels -> ChannelDefinition \cup {Absent}]
  BY Zenon DEF Empty
<1>3. InitialState(i # 1) \in KvState
  BY <1>1, <1>2, Zenon DEF InitialState, KvState, Stages
<1>4. kv'[i] = InitialState(i # 1) /\ \A j \in Instance : j # i => kv'[j] = kv[j]
  BY Zenon DEF FirstRound, TypeOK
<1>5. kv' \in [Instance -> KvState \cup {Absent}]
  BY <1>3, Zenon DEF FirstRound, TypeOK
<1>6. StateInv(kv[i])'
  BY <1>4 DEF StateInv, InitialState, FromSources, Empty
<1>. QED
  BY <1>3, <1>4, <1>5, <1>6, TransitionAssumption, Zenon DEF FirstRound

LEMMA ReportsStep ==
    ASSUME TypeOK, RoundsInv, NEW i \in Instance, NEW failed \in SUBSET Channels, Reports(i, failed)
    PROVE  LET p == precursor[i]
           IN  /\ p \in PrecursorState /\ kv[i] \in KvState /\ kv[i] # Absent
               /\ StateInv(kv[i]) /\ PrecursorInv(kv[i], p)
               /\ precursor' \in [Instance -> PrecursorState \cup {Absent}]
               /\ precursor'[i] = Absent
               /\ attested'[i] = attested[i] \cup (IF p.stage = "retired" THEN {p.va} ELSE {})
               /\ \A j \in Instance :
                    j # i => precursor'[j] = precursor[j] /\ attested'[j] = attested[j]
               /\ UNCHANGED <<scene, kv>>
<1>1. /\ precursor[i] \in PrecursorState /\ precursor[i] # Absent
      /\ precursor' = [precursor EXCEPT ![i] = Absent]
      /\ UNCHANGED <<scene, kv>>
  BY Zenon DEF TypeOK, Reports
<1>2. StateInv(kv[i]) /\ PrecursorInv(kv[i], precursor[i])
  BY <1>1, Zenon DEF RoundsInv, PrecursorInv
<1>3. kv[i] # Absent /\ kv[i] \in KvState
  BY <1>2, Zenon DEF PrecursorInv, TypeOK
<1>4. attested' = [attested EXCEPT ![i] = IF SignsRetirementReport(precursor[i])
                                          THEN @ \cup {precursor[i].va} ELSE @]
  BY Zenon DEF Reports
<1>5. /\ attested'[i] = attested[i] \cup (IF precursor[i].stage = "retired" THEN {precursor[i].va} ELSE {})
      /\ \A j \in Instance : j # i => attested'[j] = attested[j]
  BY <1>4, Zenon DEF TypeOK, SignsRetirementReport
<1>6. /\ precursor' \in [Instance -> PrecursorState \cup {Absent}]
      /\ precursor'[i] = Absent
      /\ \A j \in Instance : j # i => precursor'[j] = precursor[j]
  BY <1>1, Zenon DEF TypeOK
<1>. QED
  BY <1>1, <1>2, <1>3, <1>5, <1>6, Zenon

(* A report ends past its channel's watermark.                             *)
LEMMA ReportEndBounds ==
    ASSUME NEW s \in KvState, NEW p \in PrecursorState, StateInv(s), PrecursorInv(s, p),
           NEW c \in p.reportable
    PROVE  /\ c \in Channels /\ p.va[c] \in Time /\ p.ts \in Time
           /\ ReportEnd(p, c) \in Time /\ ReportEnd(p, c) > p.va[c]
           /\ p.defs[c].format = "backfill" =>
                /\ ReportEnd(p, c) < p.ts
                /\ \A u \in BackfillCandidates(p.defs, p.va, p.ts, c) : ReportEnd(p, c) <= u
           /\ p.defs[c].format # "backfill" => ReportEnd(p, c) = p.ts
<1>1. /\ c \in Channels /\ p.ts \in Time /\ p.va \in Watermarks
      /\ p.defs \in [Channels -> ChannelDefinition \cup {Absent}]
  BY Zenon DEF PrecursorState
<1>2. p.va[c] # Absent /\ p.va[c] < p.ts
  BY Zenon DEF StateInv, PrecursorInv
<1>3. p.va[c] \in Time
  BY <1>1, <1>2, Zenon DEF Watermarks
<1>4. CASE p.defs[c].format = "backfill"
  <2>. DEFINE t == CHOOSE t \in SelectBackfillCandidate(p.defs, p.va, p.ts, c) : TRUE
  <2>1. SelectBackfillCandidate(p.defs, p.va, p.ts, c) # {}
    BY <1>4, Zenon DEF PrecursorInv
  <2>2. /\ t \in BackfillCandidates(p.defs, p.va, p.ts, c)
        /\ \A u \in BackfillCandidates(p.defs, p.va, p.ts, c) : t <= u
    BY <2>1, CandidateSelected, Zenon
  <2>3. ReportEnd(p, c) = t
    BY <1>4, Zenon DEF ReportEnd
  <2>. HIDE DEF t
  <2>4. t \in Time /\ t < p.ts /\ t > p.va[c]
    BY <1>1, <2>2, CandidateBounds, Zenon
  <2>. QED
    BY <1>1, <1>3, <1>4, <2>2, <2>3, <2>4, Zenon
<1>5. CASE p.defs[c].format # "backfill"
  <2>1. ReportEnd(p, c) = p.ts
    BY <1>5, Zenon DEF ReportEnd
  <2>2. p.ts > p.va[c]
    BY <1>1, <1>2, <1>3, TimeIsNat, Zenon
  <2>. QED
    BY <1>1, <1>3, <1>5, <2>1, <2>2, Zenon
<1>. QED
  BY <1>4, <1>5, Zenon

LEMMA RoundsFrame ==
    ASSUME RoundsInv, scene' = scene, NEW j \in Instance, kv'[j] = kv[j],
           precursor'[j] \in {precursor[j], Absent}
    PROVE  /\ kv'[j] # Absent => StateInv(kv[j])'
           /\ precursor'[j] # Absent => PrecursorInv(kv[j], precursor[j])'
<1>1. ASSUME kv'[j] # Absent PROVE StateInv(kv[j])'
  <2>1. StateInv(kv[j])
    BY <1>1, Zenon DEF RoundsInv
  <2>. QED
    BY <2>1, Zenon DEF StateInv, FromSources
<1>2. ASSUME precursor'[j] # Absent PROVE PrecursorInv(kv[j], precursor[j])'
  <2>1. PrecursorInv(kv[j], precursor[j]) /\ precursor'[j] = precursor[j]
    BY <1>2, Zenon DEF RoundsInv
  <2>. QED
    BY <2>1, Zenon DEF PrecursorInv, FromSources
<1>. QED
  BY <1>1, <1>2, Zenon

(* TypeOK and RoundsInv are kept by every step.                            *)
LEMMA RoundsStep ==
    ASSUME TypeOK, RoundsInv, [Next]_vars
    PROVE  TypeOK' /\ RoundsInv'
<1>1. ASSUME NEW i \in Instance, FirstRound(i) PROVE TypeOK' /\ RoundsInv'
  <2>1. /\ kv' \in [Instance -> KvState \cup {Absent}] /\ StateInv(kv[i])'
        /\ \A j \in Instance : j # i => kv'[j] = kv[j]
        /\ UNCHANGED <<scene, precursor, attested, tip, loose, crossed, redefined>>
        /\ kv[i] = Absent
    BY <1>1, FirstRoundStep, Zenon
  <2>2. TypeOK'
    BY <2>1, Zenon DEF TypeOK
  <2>3. precursor[i] = Absent
    BY <2>1, Zenon DEF RoundsInv, PrecursorInv
  <2>4. RoundsInv'
    <3>. SUFFICES ASSUME NEW j \in Instance
                  PROVE  /\ kv'[j] # Absent => StateInv(kv[j])'
                         /\ precursor'[j] # Absent => PrecursorInv(kv[j], precursor[j])'
      BY Zenon DEF RoundsInv
    <3>1. CASE j = i
      BY <2>1, <2>3, <3>1, Zenon
    <3>2. CASE j # i
      BY <2>1, <3>2, RoundsFrame, Zenon
    <3>. QED
      BY <3>1, <3>2, Zenon
  <2>. QED
    BY <2>2, <2>4, Zenon
<1>2. ASSUME NEW i \in Instance, kv[i] # Absent, NEW in \in RoundInputs(i), StateTransition(i, in)
      PROVE  TypeOK' /\ RoundsInv'
  <2>1. /\ StateInv(kv[i])' /\ PrecursorInv(kv[i], precursor[i])'
        /\ kv' \in [Instance -> KvState \cup {Absent}]
        /\ precursor' \in [Instance -> PrecursorState \cup {Absent}]
        /\ \A j \in Instance : j # i => kv'[j] = kv[j] /\ precursor'[j] = precursor[j]
        /\ UNCHANGED <<scene, attested, tip>>
    BY <1>2, RoundStep, Zenon
  <2>2. loose' \subseteq Channels /\ crossed' \subseteq Channels /\ redefined' \subseteq Channels
    <3>1. \A A \in SUBSET Channels, B \in SUBSET Channels : Told(A \cup B) \subseteq Channels
      BY Zenon DEF Told
    <3>. QED
      BY <1>2, <3>1, Zenon DEF StateTransition, TypeOK
  <2>3. TypeOK'
    BY <2>1, <2>2, Zenon DEF TypeOK
  <2>4. RoundsInv'
    <3>. SUFFICES ASSUME NEW j \in Instance
                  PROVE  /\ kv'[j] # Absent => StateInv(kv[j])'
                         /\ precursor'[j] # Absent => PrecursorInv(kv[j], precursor[j])'
      BY Zenon DEF RoundsInv
    <3>1. CASE j = i
      BY <2>1, <3>1, Zenon
    <3>2. CASE j # i
      BY <2>1, <3>2, RoundsFrame, Zenon
    <3>. QED
      BY <3>1, <3>2, Zenon
  <2>. QED
    BY <2>3, <2>4, Zenon
<1>3. ASSUME NEW i \in Instance, NEW failed \in SUBSET Channels, Reports(i, failed)
      PROVE  TypeOK' /\ RoundsInv'
  <2>. DEFINE p == precursor[i]
              emitted == p.reportable \ failed
  <2>1. /\ p \in PrecursorState /\ kv[i] \in KvState /\ StateInv(kv[i]) /\ PrecursorInv(kv[i], p)
        /\ precursor' \in [Instance -> PrecursorState \cup {Absent}] /\ precursor'[i] = Absent
        /\ attested'[i] = attested[i] \cup (IF p.stage = "retired" THEN {p.va} ELSE {})
        /\ \A j \in Instance : j # i => precursor'[j] = precursor[j] /\ attested'[j] = attested[j]
        /\ UNCHANGED <<scene, kv>>
    BY <1>3, ReportsStep, Zenon
  <2>2. RoundsInv'
    <3>1. \A j \in Instance : kv'[j] = kv[j] /\ precursor'[j] \in {precursor[j], Absent}
      BY <2>1, Zenon
    <3>. QED
      BY <2>1, <3>1, RoundsFrame, Zenon DEF RoundsInv
  <2>3. p.reportable \subseteq Channels /\ p.va \in Watermarks
    BY <2>1, Zenon DEF PrecursorState
  <2>4. attested' \in [Instance -> SUBSET Watermarks]
    BY <1>3, <2>3, Zenon DEF Reports, TypeOK
  <2>5. \A c \in emitted : ReportEnd(p, c) \in Time
    BY <2>1, ReportEndBounds, Zenon
  <2>6. tip' \in Watermarks
    <3>1. tip' = [c \in Channels |-> IF p.stage = "production" /\ c \in emitted
                                     THEN ReportEnd(p, c) ELSE tip[c]]
      BY <1>3, Zenon DEF Reports
    <3>. HIDE DEF p, emitted
    <3>. QED
      BY <2>5, <3>1, Zenon DEF TypeOK, Watermarks
  <2>7. loose' \subseteq Channels /\ crossed' \subseteq Channels /\ redefined' \subseteq Channels
    BY <1>3, <2>3, Zenon DEF Reports, TypeOK, Told
  <2>8. TypeOK'
    BY <2>1, <2>4, <2>6, <2>7, Zenon DEF TypeOK
  <2>. QED
    BY <2>2, <2>8, Zenon
<1>4. ASSUME UNCHANGED vars PROVE TypeOK' /\ RoundsInv'
  <2>1. TypeOK'
    BY <1>4, Zenon DEF vars, TypeOK
  <2>2. \A j \in Instance : kv'[j] = kv[j] /\ precursor'[j] \in {precursor[j], Absent}
    BY <1>4, Zenon DEF vars
  <2>3. RoundsInv'
    BY <1>4, <2>2, RoundsFrame, Zenon DEF RoundsInv, vars
  <2>. QED
    BY <2>1, <2>3, Zenon
<1>. QED
  BY <1>1, <1>2, <1>3, <1>4, Zenon DEF Next

LEMMA RoundsCorrect == Spec => [](TypeOK /\ RoundsInv)
<1>1. Init => TypeOK /\ RoundsInv
  <2>. SUFFICES ASSUME Init PROVE TypeOK /\ RoundsInv
    BY Zenon
  <2>1. TypeOK
    BY Zenon DEF Init, TypeOK, Empty, Watermarks
  <2>2. RoundsInv
    BY Zenon DEF Init, RoundsInv
  <2>. QED
    BY <2>1, <2>2, Zenon
<1>. QED
  BY <1>1, RoundsStep, PTL DEF Spec

-----------------------------------------------------------------------------
(* The line of instances.                                                  *)

(* A round leaves staging with the predecessor's report only, and never    *)
(* goes back.                                                              *)
LEMMA StageStep ==
    ASSUME TypeOK, RoundsInv, LineInv, NEW i \in Instance, kv[i] # Absent,
           NEW in \in RoundInputs(i), StateTransition(i, in)
    PROVE  /\ kv'[i] # Absent /\ (Started(i) => Started(i)') /\ (Retired(i) => Retired(i)')
           /\ Started(i)' =>
                \/ Started(i) /\ ~Promotes(kv[i], in)
                \/ /\ Promotes(kv[i], in) /\ kv[i].stage = "staging"
                   /\ i > 1 /\ i - 1 \in Instance /\ Retired(i - 1) /\ in.report \in attested[i - 1]
<1>1. kv'[i] \in KvState /\ kv'[i] # Absent /\ kv'[i].stage = NextStage(kv[i], in)
  BY RoundStep, TransitionAssumption, SMTT(30)
<1>2. Promotes(kv[i], in) =>
        kv[i].stage = "staging" /\ i > 1 /\ i - 1 \in Instance /\ in.report \in attested[i - 1]
  BY InputTyped, Zenon DEF Promotes
<1>3. Promotes(kv[i], in) => Retired(i - 1)
  BY <1>2, Zenon DEF LineInv
<1>4. /\ kv[i].stage # "staging" => NextStage(kv[i], in) # "staging"
      /\ kv[i].stage = "retired" => NextStage(kv[i], in) = "retired"
      /\ NextStage(kv[i], in) # "staging" => Promotes(kv[i], in) \/ kv[i].stage # "staging"
  BY Zenon DEF NextStage, Promotes
<1>. QED
  BY <1>1, <1>2, <1>3, <1>4, SMTT(30) DEF Started, Retired

LEMMA LineStep ==
    ASSUME TypeOK, RoundsInv, LineInv, [Next]_vars
    PROVE  LineInv'
<1>. USE HandoverAssumption DEF Instance
<1>1. ASSUME NEW i \in Instance, FirstRound(i) PROVE LineInv'
  <2>1. /\ kv[i] = Absent /\ kv'[i] = InitialState(i # 1) /\ kv'[i] # Absent
        /\ \A j \in Instance : j # i => kv'[j] = kv[j]
        /\ UNCHANGED <<scene, precursor, attested, tip, loose, crossed, redefined>>
    BY <1>1, FirstRoundStep, Zenon
  <2>2. kv'[i].stage = IF i # 1 THEN "staging" ELSE "production"
    BY <2>1, SMTT(30) DEF InitialState
  <2>. QED
    BY <2>1, <2>2 DEF LineInv, Started, Retired
<1>2. ASSUME NEW i \in Instance, kv[i] # Absent, NEW in \in RoundInputs(i), StateTransition(i, in)
      PROVE  LineInv'
  <2>1. /\ \A j \in Instance : j # i => kv'[j] = kv[j]
        /\ UNCHANGED <<scene, attested, tip>>
    BY <1>2, RoundStep, Zenon
  <2>2. /\ kv'[i] # Absent /\ (Started(i) => Started(i)') /\ (Retired(i) => Retired(i)')
        /\ Started(i)' => Started(i) \/ (i > 1 /\ i - 1 \in Instance /\ Retired(i - 1))
    BY <1>2, StageStep, Zenon
  <2>3. \A j \in Instance : j # i => (Started(j)' <=> Started(j)) /\ (Retired(j)' <=> Retired(j))
    BY <2>1, Zenon DEF Started, Retired
  <2>4. \A j \in Instance : Retired(j) => Started(j) /\ Retired(j)'
    BY <2>2, <2>3, Zenon DEF Retired, Started
  <2>5. ASSUME NEW j \in Instance, NEW k \in Instance, j < k, Started(k)' PROVE Retired(j)'
    <3>1. CASE k = i /\ ~Started(i)
      <4>1. i > 1 /\ i - 1 \in Instance /\ Retired(i - 1)
        BY <2>2, <2>5, <3>1, Zenon
      <4>2. Retired(j)
        BY <2>4, <2>5, <3>1, <4>1 DEF LineInv
      <4>. QED
        BY <2>4, <4>2, Zenon
    <3>2. CASE Started(k)
      BY <2>4, <2>5, <3>2, Zenon DEF LineInv
    <3>. QED
      BY <2>3, <2>5, <3>1, <3>2, Zenon
  <2>6. kv'[1] = Absent => kv[1] = Absent
    BY <2>1, <2>2
  <2>7. kv'[1] # Absent => Started(1)'
    BY <1>2, <2>1, <2>2, <2>3 DEF LineInv
  <2>8. \A j \in Instance : attested'[j] # {} => Retired(j)'
    BY <2>1, <2>4, Zenon DEF LineInv
  <2>. QED
    BY <2>1, <2>5, <2>6, <2>7, <2>8, Zenon DEF LineInv
<1>3. ASSUME NEW i \in Instance, NEW failed \in SUBSET Channels, Reports(i, failed) PROVE LineInv'
  <2>1. /\ PrecursorInv(kv[i], precursor[i]) /\ kv[i] # Absent /\ kv' = kv
        /\ attested'[i] = attested[i] \cup (IF precursor[i].stage = "retired" THEN {precursor[i].va} ELSE {})
        /\ \A j \in Instance : j # i => attested'[j] = attested[j]
    BY <1>3, ReportsStep, Zenon
  <2>2. \A j \in Instance : (Started(j)' <=> Started(j)) /\ (Retired(j)' <=> Retired(j))
    BY <2>1, Zenon DEF Started, Retired
  <2>3. attested'[i] # {} => Retired(i)'
    BY <2>1, <2>2, Zenon DEF LineInv, PrecursorInv, Retired
  <2>4. \A j \in Instance : attested'[j] # {} => Retired(j)'
    BY <2>1, <2>2, <2>3, Zenon DEF LineInv
  <2>5. kv[1] = Absent => tip' = tip
    <3>1. ASSUME kv[1] = Absent PROVE precursor[i].stage # "production"
      <4>1. 1 \in Instance /\ 1 <= i /\ ~Retired(1)
        BY <3>1, HandoverAssumption DEF Instance, Retired
      <4>2. ~Started(i)
        BY <2>1, <3>1, <4>1 DEF LineInv, Instance
      <4>. QED
        BY <2>1, <4>2, Zenon DEF PrecursorInv, Started
    <3>2. precursor[i].stage # "production" => tip' = [c \in Channels |-> tip[c]]
      BY <1>3, Zenon DEF Reports
    <3>. QED
      BY <3>1, <3>2, Zenon DEF TypeOK, Watermarks
  <2>. QED
    BY <2>1, <2>2, <2>4, <2>5 DEF LineInv
<1>4. ASSUME UNCHANGED vars PROVE LineInv'
  BY <1>4, Zenon DEF vars, LineInv, Started, Retired
<1>. QED
  BY <1>1, <1>2, <1>3, <1>4, Zenon DEF Next

LEMMA LineCorrect == Spec => []LineInv
<1>1. Init => LineInv
  BY HandoverAssumption DEF Init, LineInv, Started, Instance
<1>. QED
  BY <1>1, LineStep, RoundsCorrect, PTL DEF Spec

(* V31OneProducer: no instance leaves staging before every earlier one has *)
(* retired (StateTransition promotes on the predecessor's report only,     *)
(* which a retired instance signs).                                        *)
THEOREM V31OneProducerHolds == Spec => []V31OneProducer
<1>1. LineInv => V31OneProducer
  BY Zenon DEF LineInv, V31OneProducer, Started, Retired
<1>. QED
  BY <1>1, LineCorrect, PTL
=============================================================================
