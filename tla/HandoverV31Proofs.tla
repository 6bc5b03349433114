-------------------------- MODULE HandoverV31Proofs --------------------------
(***************************************************************************)
(* Proofs about HandoverV31, continued from HandoverV31Rounds: the reports *)
(* of a channel join up, within an instance and from one to the next.      *)
(***************************************************************************)
EXTENDS HandoverV31Rounds

(* Instance k is the last one that left staging.                           *)
Leads(k) == Started(k) /\ \A j \in Instance : j > k => ~Started(j)

NextStart(k, c) == IF precursor[k] # Absent THEN kv[k].va[c] ELSE Advanced(kv[k], c)

(* A report of channel c that starts at t joins up with the last one.      *)
Joins(t, c) ==
    KeepsItsKind(c) => /\ c \notin crossed => t >= tip[c]
                       /\ c \notin loose => t <= tip[c]

(* The watermark of instance k and the reports that it attested join up    *)
(* with the last production report of channel c.                           *)
LinkedNow(k, c) ==
    /\ c \notin redefined => kv[k].defs[c] # Absent
    /\ c \notin redefined \cup crossed => kv[k].va[c] # Absent
    /\ KeepsItsKind(c) /\ c \notin crossed /\ kv[k].va[c] = Absent
         /\ kv[k].stage = "production" => tip[c] <= kv[k].ts
    /\ kv[k].va[c] # Absent => Joins(NextStart(k, c), c)

Linked(k, c) ==
    /\ LinkedNow(k, c)
    /\ \A r \in attested[k] : r[c] # Absent => Joins(r[c], c)

Chained(k) == \A c \in Channels : tip[c] # Absent => Linked(k, c)

ChainInv == \A k \in Instance : Leads(k) => Chained(k)

-----------------------------------------------------------------------------
(* The production reports of a channel join up.                            *)

LEMMA LinkFrame ==
    ASSUME NEW k \in Instance, NEW c \in Channels, Linked(k, c),
           kv'[k] = kv[k], precursor'[k] = precursor[k], attested'[k] = attested[k],
           UNCHANGED <<scene, tip, loose, crossed, redefined>>
    PROVE  Linked(k, c)'
<1>1. NextStart(k, c)' = NextStart(k, c)
  BY DEF NextStart, Advanced, CarriedWatermark, PrevReportable
<1>2. \A t : Joins(t, c)' <=> Joins(t, c)
  BY Zenon DEF Joins, KeepsItsKind
<1>3. KeepsItsKind(c)' <=> KeepsItsKind(c)
  BY Zenon DEF KeepsItsKind
<1>. QED
  BY <1>1, <1>2, <1>3, Zenon DEF Linked, LinkedNow

LEMMA ChainFrame ==
    ASSUME NEW k \in Instance, Chained(k),
           kv'[k] = kv[k], precursor'[k] = precursor[k], attested'[k] = attested[k],
           UNCHANGED <<scene, tip, loose, crossed, redefined>>
    PROVE  Chained(k)'
  BY LinkFrame, Zenon DEF Chained

(* A retired instance moves no watermark.                                  *)
LEMMA AdvancedIdle ==
    ASSUME NEW s, NEW c, c \notin s.reported
    PROVE  Advanced(s, c) = s.va[c]
  BY Zenon DEF Advanced, CarriedWatermark, PrevReportable

(* The history that a round of the leading instance writes.                *)
LEMMA LeadingRound ==
    ASSUME TypeOK, RoundsInv, NEW i \in Instance, kv[i] # Absent, kv[i].stage = "production",
           NEW in \in RoundInputs(i), StateTransition(i, in), NEW c \in Channels, tip[c] # Absent
    PROVE  /\ ~Promotes(kv[i], in)
           /\ c \notin loose' => c \notin loose /\ kv[i].va[c] # Absent
           /\ c \notin crossed' =>
                /\ c \notin crossed
                /\ kv[i].va[c] # Absent /\ kv'[i].va[c] = Absent => ~(kv[i].va[c] > kv'[i].ts)
           /\ c \notin redefined' =>
                c \notin redefined /\ Sources(kv'[i].defs, c) = Sources(kv[i].defs, c)
<1>. DEFINE prev == kv[i]
            p == Precursor(prev, in)
<1>1. ~Promotes(prev, in)
  BY Zenon DEF Promotes
<1>2. p.stage \in {"production", "retired"}
  BY <1>1, RoundStep, Zenon DEF NextStage
<1>3. /\ loose' = Told(loose \cup {b \in Channels : prev.va[b] = Absent \/ p.va[b] = Absent})
      /\ crossed' = Told(crossed \cup {b \in Channels : prev.va[b] # Absent /\ p.va[b] = Absent
                                                          /\ prev.va[b] > p.ts})
      /\ redefined' = Told(redefined \cup {b \in Channels :
                             Sources(FlushKV(prev, in, p).defs, b) # Sources(prev.defs, b)})
  BY <1>1, <1>2, Zenon DEF StateTransition
<1>4. p.ts = kv'[i].ts /\ p.va = kv'[i].va
  BY RoundStep, Zenon
<1>5. FlushKV(prev, in, p).defs = kv'[i].defs
  BY RoundStep, Zenon DEF FlushKV
<1>. QED
  BY <1>1, <1>3, <1>4, <1>5, Zenon DEF Told

LEMMA ProductionRound ==
    ASSUME TypeOK, RoundsInv, LineInv, NEW i \in Instance, kv[i] # Absent,
           kv[i].stage = "production", Chained(i),
           NEW in \in RoundInputs(i), StateTransition(i, in)
    PROVE  Chained(i)'
<1>1. attested'[i] = {}
  BY RoundStep, Zenon DEF LineInv, Retired
<1>2. SUFFICES ASSUME NEW c \in Channels, tip[c] # Absent PROVE LinkedNow(i, c)'
  <2>1. tip' = tip
    BY RoundStep, Zenon
  <2>. QED
    BY <1>1, <1>2, <2>1, Zenon DEF Chained, Linked
<1>3. LinkedNow(i, c)
  BY <1>2, Zenon DEF Chained, Linked
<1>4. /\ ~Promotes(kv[i], in)
      /\ c \notin loose' => c \notin loose /\ kv[i].va[c] # Absent
      /\ c \notin crossed' =>
           /\ c \notin crossed
           /\ kv[i].va[c] # Absent /\ kv'[i].va[c] = Absent => ~(kv[i].va[c] > kv'[i].ts)
      /\ c \notin redefined' =>
           c \notin redefined /\ Sources(kv'[i].defs, c) = Sources(kv[i].defs, c)
  BY <1>2, LeadingRound, Zenon
<1>5. /\ tip' = tip /\ scene' = scene /\ precursor[i] = Absent /\ precursor'[i] # Absent
      /\ kv'[i] \in KvState /\ kv[i] \in KvState
      /\ kv'[i].ts >= kv[i].ts
      /\ in.report \in Watermarks \cup {Absent}
      /\ kv'[i].va = NextWatermarks(kv[i], in, kv'[i].ts)
      /\ StateInv(kv[i])
  BY RoundStep, InputTyped, TransitionAssumption DEF TypeOK, RoundsInv
<1>6. /\ kv'[i].ts \in Time /\ kv[i].ts \in Time /\ tip[c] \in Time
      /\ kv[i].va[c] # Absent => kv[i].va[c] \in Time
  BY <1>2, <1>5, Zenon DEF KvState, TypeOK, Watermarks
<1>7. /\ kv[i].defs[c] # Absent => kv'[i].va[c] # Absent
      /\ kv[i].va[c] # Absent /\ kv[i].defs[c] # Absent => kv'[i].va[c] = Advanced(kv[i], c)
      /\ kv[i].va[c] = Absent /\ kv[i].defs[c] # Absent =>
           kv'[i].va[c] = NewWatermark(kv[i].defs[c], kv'[i].ts)
      /\ kv[i].defs[c] = Absent => kv'[i].va[c] = Absent
  BY <1>4, <1>5, <1>6, WatermarksOfRound, SMTT(30) DEF StateInv
<1>8. NextStart(i, c) = Advanced(kv[i], c) /\ NextStart(i, c)' = kv'[i].va[c]
  BY <1>5, Zenon DEF NextStart
<1>9. KeepsItsKind(c)' => KeepsItsKind(c)
  BY <1>4, <1>5, Zenon DEF KeepsItsKind
<1>10. c \notin redefined' => kv'[i].defs[c] # Absent
  BY <1>3, <1>4, Zenon DEF LinkedNow, Sources
<1>11. c \notin redefined' \cup crossed' => kv'[i].va[c] # Absent
  BY <1>3, <1>4, <1>7, Zenon DEF LinkedNow
<1>12. ASSUME KeepsItsKind(c)', c \notin crossed', kv'[i].va[c] = Absent
       PROVE  tip[c] <= kv'[i].ts
  <2>1. CASE kv[i].va[c] = Absent
    <3>1. tip[c] <= kv[i].ts
      BY <1>3, <1>4, <1>9, <1>12, <2>1, Zenon DEF LinkedNow
    <3>. QED
      BY <1>5, <1>6, <3>1, TimeIsNat
  <2>2. CASE kv[i].va[c] # Absent
    <3>1. kv[i].defs[c] = Absent
      BY <1>7, <1>12, Zenon
    <3>2. Advanced(kv[i], c) \in {kv[i].ts, kv[i].va[c]}
      BY <3>1, Zenon DEF Advanced
    <3>3. Advanced(kv[i], c) >= tip[c]
      BY <1>3, <1>4, <1>8, <1>9, <1>12, <2>2, Zenon DEF LinkedNow, Joins
    <3>4. ~(kv[i].va[c] > kv'[i].ts)
      BY <1>4, <1>12, <2>2, Zenon
    <3>. QED
      BY <1>5, <1>6, <2>2, <3>2, <3>3, <3>4, TimeIsNat
  <2>. QED
    BY <2>1, <2>2, Zenon
<1>13. ASSUME kv'[i].va[c] # Absent, KeepsItsKind(c)', c \notin crossed'
       PROVE  kv'[i].va[c] >= tip[c]
  <2>1. CASE kv[i].va[c] # Absent
    BY <1>3, <1>4, <1>7, <1>8, <1>9, <1>13, <2>1, Zenon DEF LinkedNow, Joins
  <2>2. CASE kv[i].va[c] = Absent
    <3>1. c \in redefined /\ kv[i].defs[c] # Absent /\ tip[c] <= kv[i].ts
      BY <1>3, <1>4, <1>7, <1>9, <1>13, <2>2, Zenon DEF LinkedNow
    <3>2. kv[i].defs[c].format # "backfill"
      BY <1>5, <1>9, <1>13, <3>1, Zenon DEF KeepsItsKind, StateInv, FromSources
    <3>3. kv'[i].va[c] = kv'[i].ts
      BY <1>7, <2>2, <3>1, <3>2, Zenon DEF NewWatermark
    <3>. QED
      BY <1>5, <1>6, <3>1, <3>3, TimeIsNat
  <2>. QED
    BY <2>1, <2>2, Zenon
<1>14. ASSUME kv'[i].va[c] # Absent, KeepsItsKind(c)', c \notin loose'
       PROVE  kv'[i].va[c] <= tip[c]
  BY <1>3, <1>4, <1>7, <1>8, <1>9, <1>14, Zenon DEF LinkedNow, Joins
<1>. QED
  BY <1>5, <1>8, <1>10, <1>11, <1>12, <1>13, <1>14, Zenon DEF LinkedNow, Joins

(* The rounds of a retired instance leave its watermarks or drop them.     *)
LEMMA RetiredRound ==
    ASSUME TypeOK, RoundsInv, LineInv, NEW i \in Instance, Retired(i), Chained(i),
           NEW in \in RoundInputs(i), StateTransition(i, in),
           UNCHANGED <<loose, crossed, redefined>>
    PROVE  Chained(i)'
<1>1. /\ tip' = tip /\ scene' = scene /\ attested' = attested
      /\ precursor[i] = Absent /\ precursor'[i] # Absent
      /\ kv[i] \in KvState /\ StateInv(kv[i])
      /\ in.report \in Watermarks \cup {Absent} /\ kv'[i].ts \in Time
      /\ kv'[i].defs = NextDefinitions(kv[i], in)
      /\ kv'[i].va = NextWatermarks(kv[i], in, kv'[i].ts)
  BY RoundStep, InputTyped, TransitionAssumption, SMTT(30) DEF TypeOK, RoundsInv, Retired, KvState
<1>2. ~Promotes(kv[i], in) /\ NextStage(kv[i], in) = "retired"
  BY Zenon DEF Retired, Promotes, NextStage
<1>3. kv'[i].defs = kv[i].defs /\ kv'[i].stage = "retired"
  BY <1>1, <1>2, RoundStep, Zenon DEF NextDefinitions, Retired
<1>4. SUFFICES ASSUME NEW c \in Channels, tip[c] # Absent, Linked(i, c) PROVE Linked(i, c)'
  BY <1>1, Zenon DEF Chained
<1>5. Advanced(kv[i], c) = kv[i].va[c]
  BY <1>1, AdvancedIdle, Zenon DEF StateInv, Retired
<1>6. kv'[i].va[c] = IF kv[i].defs[c] # Absent THEN kv[i].va[c] ELSE Absent
  <2>1. kv[i].defs[c] # Absent => kv[i].va[c] # Absent
    BY <1>1, Zenon DEF StateInv, Retired
  <2>. QED
    BY <1>1, <1>2, <1>5, <2>1, WatermarksOfRound, SMTT(30) DEF StateInv
<1>7. NextStart(i, c) = kv[i].va[c] /\ NextStart(i, c)' = kv'[i].va[c]
  BY <1>1, <1>5, Zenon DEF NextStart
<1>8. \A t : Joins(t, c)' <=> Joins(t, c)
  BY <1>1, Zenon DEF Joins, KeepsItsKind
<1>9. kv[i].defs[c] # Absent => kv[i].va[c] # Absent
  BY <1>1, Zenon DEF StateInv, Retired
<1>10. LinkedNow(i, c)'
  BY <1>1, <1>3, <1>4, <1>6, <1>7, <1>8, <1>9, Zenon DEF Linked, LinkedNow
<1>. QED
  BY <1>1, <1>4, <1>8, <1>10, Zenon DEF Linked

(* The history that a promotion writes.                                    *)
LEMMA PromotionHistory ==
    ASSUME TypeOK, RoundsInv, LineInv, NEW i \in Instance, kv[i] # Absent,
           NEW in \in RoundInputs(i), StateTransition(i, in), Promotes(kv[i], in),
           NEW c \in Channels, tip[c] # Absent
    PROVE  /\ c \notin loose' => c \notin loose /\ in.report[c] # Absent
           /\ c \notin crossed' =>
                c \notin crossed /\ in.report[c] # Absent /\ ~(in.report[c] > kv'[i].va[c])
           /\ c \notin redefined' =>
                c \notin redefined /\ Sources(kv'[i].defs, c) = Sources(kv[i - 1].defs, c)
<1>. DEFINE prev == kv[i]
            p == Precursor(prev, in)
<1>1. prev.stage # "retired" /\ p.stage \in {"production", "retired"}
  BY RoundStep, Zenon DEF NextStage, Promotes
<1>2. /\ loose' = Told(loose \cup {b \in Channels : in.report[b] = Absent})
      /\ crossed' = Told(crossed \cup
                         {b \in Channels : in.report[b] = Absent \/ in.report[b] > p.va[b]})
      /\ redefined' = Told(redefined \cup {b \in Channels :
                             Sources(FlushKV(prev, in, p).defs, b) # Sources(kv[i - 1].defs, b)})
  BY <1>1, Zenon DEF StateTransition
<1>3. p.va = kv'[i].va
  BY RoundStep, Zenon
<1>4. FlushKV(prev, in, p).defs = kv'[i].defs
  BY RoundStep, Zenon DEF FlushKV
<1>. QED
  BY <1>2, <1>3, <1>4, Zenon DEF Told

(* A promotion goes on where the retired predecessor stopped.              *)
LEMMA PromotionRound ==
    ASSUME TypeOK, RoundsInv, LineInv, NEW i \in Instance, kv[i] # Absent,
           NEW in \in RoundInputs(i), StateTransition(i, in), Promotes(kv[i], in),
           Chained(i - 1)
    PROVE  Chained(i)'
<1>1. /\ i - 1 \in Instance /\ in.report \in attested[i - 1] /\ in.report \in Watermarks
      /\ kv[i].stage = "staging"
  BY InputTyped, Zenon DEF Promotes, TypeOK
<1>2. /\ tip' = tip /\ scene' = scene /\ attested' = attested
      /\ precursor[i] = Absent /\ precursor'[i] # Absent
      /\ kv[i] \in KvState /\ StateInv(kv[i]) /\ kv'[i].ts \in Time
      /\ kv'[i].va = NextWatermarks(kv[i], in, kv'[i].ts)
  BY RoundStep, TransitionAssumption DEF TypeOK, RoundsInv, KvState
<1>3. attested'[i] = {}
  BY <1>1, <1>2, Zenon DEF LineInv, Retired
<1>4. SUFFICES ASSUME NEW c \in Channels, tip[c] # Absent PROVE LinkedNow(i, c)'
  BY <1>2, <1>3, Zenon DEF Chained, Linked
<1>5. Linked(i - 1, c)
  BY <1>4, Zenon DEF Chained
<1>6. /\ c \notin loose' => c \notin loose /\ in.report[c] # Absent
      /\ c \notin crossed' =>
           c \notin crossed /\ in.report[c] # Absent /\ ~(in.report[c] > kv'[i].va[c])
      /\ c \notin redefined' =>
           c \notin redefined /\ Sources(kv'[i].defs, c) = Sources(kv[i - 1].defs, c)
  BY <1>4, PromotionHistory, Zenon
<1>7. in.report[c] # Absent =>
        /\ kv'[i].va[c] = BoundPromotedValidAfter(in.report[c], kv'[i].ts)
        /\ in.report[c] \in Time
  BY <1>1, <1>2, WatermarksOfRound, SMTT(30) DEF StateInv, Watermarks
<1>8. in.report[c] # Absent => kv'[i].va[c] \in Time /\ kv'[i].va[c] <= in.report[c]
  <2>. SUFFICES ASSUME in.report[c] # Absent
                PROVE  kv'[i].va[c] \in Time /\ kv'[i].va[c] <= in.report[c]
    BY Zenon
  <2>1. in.report[c] \in Nat /\ kv'[i].ts \in Nat
    BY <1>2, <1>7, TimeIsNat, Zenon
  <2>. QED
    BY <1>2, <1>7, <2>1, TransitionAssumption, SMTT(30) DEF BoundPromotedValidAfter, AheadOfClock
<1>9. in.report[c] # Absent => Joins(in.report[c], c)
  BY <1>1, <1>5, Zenon DEF Linked
<1>10. KeepsItsKind(c)' => KeepsItsKind(c)
  BY <1>2, <1>6, Zenon DEF KeepsItsKind
<1>11. tip[c] \in Time
  BY <1>4, Zenon DEF TypeOK, Watermarks
<1>12. c \notin redefined' => kv'[i].defs[c] # Absent
  BY <1>5, <1>6, Zenon DEF Linked, LinkedNow, Sources
<1>13. c \notin crossed' => kv'[i].va[c] # Absent
  BY <1>6, <1>8, TimeIsNat, Zenon
<1>14. ASSUME KeepsItsKind(c)', c \notin crossed' PROVE kv'[i].va[c] >= tip[c]
  BY <1>6, <1>7, <1>8, <1>9, <1>10, <1>11, <1>14, TimeIsNat DEF Joins
<1>15. ASSUME KeepsItsKind(c)', c \notin loose' PROVE kv'[i].va[c] <= tip[c]
  BY <1>6, <1>7, <1>8, <1>9, <1>10, <1>11, <1>15, TimeIsNat DEF Joins
<1>16. NextStart(i, c)' = kv'[i].va[c]
  BY <1>2, Zenon DEF NextStart
<1>. QED
  BY <1>2, <1>12, <1>13, <1>14, <1>15, <1>16, Zenon DEF LinkedNow, Joins

(* The history that the reports of the leading instance write.             *)
LEMMA ProductionReports ==
    ASSUME TypeOK, RoundsInv, LineInv, NEW i \in Instance, NEW failed \in SUBSET Channels,
           Reports(i, failed), kv[i].stage = "production", Chained(i)
    PROVE  Chained(i)'
<1>. DEFINE p == precursor[i]
            s == kv[i]
            emitted == p.reportable \ failed
<1>1. /\ p \in PrecursorState /\ s \in KvState /\ p # Absent
      /\ StateInv(s) /\ PrecursorInv(s, p)
      /\ precursor'[i] = Absent /\ attested'[i] = attested[i]
      /\ UNCHANGED <<scene, kv>>
  <2>1. p.stage = "production"
    BY ReportsStep, Zenon DEF PrecursorInv
  <2>. QED
    BY <2>1, ReportsStep, Zenon DEF Reports
<1>2. attested'[i] = {}
  BY <1>1, Zenon DEF LineInv, Retired
<1>3. p.stage = "production" /\ p.reportable = s.reported /\ p.va = s.va /\ p.ts = s.ts
  BY <1>1, Zenon DEF PrecursorInv
<1>4. /\ tip' = [c \in Channels |-> IF c \in emitted THEN ReportEnd(p, c) ELSE tip[c]]
      /\ loose' = (loose \ emitted) \cup Told(failed)
      /\ crossed' = crossed \ emitted
      /\ redefined' = (redefined \ emitted) \cup
                      {c \in emitted : Sources(s.defs, c) # Sources(p.defs, c)}
      /\ failed \subseteq p.reportable
  BY <1>3, Zenon DEF Reports
<1>5. /\ s.va \in Watermarks /\ s.ts \in Time /\ s.reported \subseteq Channels
      /\ s.defs \in [Channels -> ChannelDefinition \cup {Absent}]
      /\ tip \in Watermarks
  BY <1>1, Zenon DEF KvState, TypeOK
<1>6. \A c \in Channels : NextStart(i, c)' = Advanced(s, c)
  BY <1>1, SMTT(30) DEF NextStart, Advanced, CarriedWatermark, PrevReportable
<1>. HIDE DEF p, s, emitted
<1>7. ASSUME NEW c \in emitted PROVE LinkedNow(i, c)'
  <2>1. /\ c \in Channels /\ c \in p.reportable /\ p.va[c] \in Time /\ p.ts \in Time
        /\ ReportEnd(p, c) \in Time
        /\ p.defs[c].format # "backfill" => ReportEnd(p, c) = p.ts
    BY <1>1, <1>7, ReportEndBounds, Zenon DEF emitted
  <2>2. /\ tip'[c] = ReportEnd(p, c) /\ p.defs[c] # Absent
        /\ c \notin redefined' => Sources(s.defs, c) = Sources(p.defs, c)
    BY <1>1, <1>4, <1>7, <2>1, Zenon DEF PrecursorInv
  <2>3. c \notin redefined' => s.defs[c] = p.defs[c]
    BY <2>2, Zenon DEF Sources
  <2>4. kv'[i] = s /\ s.va[c] # Absent /\ c \in s.reported
    BY <1>1, <1>3, <2>1, TimeIsNat, Zenon DEF s
  <2>5. ASSUME KeepsItsKind(c)' PROVE Advanced(s, c) = tip'[c]
    <3>1. CASE p.defs[c].format # "backfill"
      <4>1. s.defs[c] # Absent => s.defs[c].format # "backfill"
        BY <1>1, <2>1, <2>3, <2>5, <3>1, Zenon DEF KeepsItsKind, StateInv, FromSources
      <4>2. Advanced(s, c) = s.ts
        BY <2>4, <4>1, Zenon DEF Advanced, CarriedWatermark, PrevReportable
      <4>. QED
        BY <1>3, <2>1, <2>2, <3>1, <4>2, Zenon
    <3>2. CASE p.defs[c].format = "backfill"
      <4>1. c \notin redefined'
        BY <1>1, <2>1, <2>2, <2>5, <3>2, Zenon DEF KeepsItsKind, PrecursorInv, FromSources
      <4>2. /\ s.defs[c] # Absent /\ s.defs[c].format = "backfill"
            /\ SelectBackfillCandidate(s.defs, s.va, s.ts, c)
                 = SelectBackfillCandidate(p.defs, p.va, p.ts, c)
        BY <1>3, <2>2, <2>3, <3>2, <4>1, CandidateSources, SMTT(30)
      <4>3. SelectBackfillCandidate(p.defs, p.va, p.ts, c) # {}
        BY <1>1, <2>1, <3>2, Zenon DEF PrecursorInv
      <4>4. s.stage = "production"
        BY Zenon DEF s
      <4>. QED
        BY <2>2, <2>4, <3>2, <4>2, <4>3, <4>4, Zenon
           DEF Advanced, CarriedWatermark, PrevReportable, ReportEnd
    <3>. QED
      BY <3>1, <3>2, Zenon
  <2>6. tip'[c] \in Nat
    BY <2>1, <2>2, TimeIsNat, Zenon
  <2>7. NextStart(i, c)' = Advanced(s, c)
    BY <1>6, <2>1, Zenon
  <2>8. Joins(NextStart(i, c), c)'
    BY <2>5, <2>6, <2>7 DEF Joins
  <2>. QED
    BY <2>2, <2>3, <2>4, <2>8, Zenon DEF LinkedNow
<1>8. ASSUME NEW c \in Channels, c \notin emitted, tip'[c] # Absent PROVE LinkedNow(i, c)'
  <2>1. /\ tip'[c] = tip[c] /\ tip[c] # Absent
        /\ c \in crossed' <=> c \in crossed
        /\ c \in redefined' <=> c \in redefined
        /\ c \notin loose' => c \notin loose /\ c \notin failed
    BY <1>4, <1>8, Zenon DEF Told
  <2>2. LinkedNow(i, c) /\ tip[c] \in Time
    BY <1>5, <1>8, <2>1, Zenon DEF Chained, Linked, Watermarks
  <2>3. KeepsItsKind(c)' <=> KeepsItsKind(c)
    BY <1>1, <2>1, Zenon DEF KeepsItsKind
  <2>4. NextStart(i, c) = s.va[c] /\ kv'[i] = s /\ kv[i] = s
    BY <1>1, Zenon DEF NextStart, p, s
  <2>5. ASSUME s.va[c] # Absent PROVE Joins(NextStart(i, c), c)'
    <3>1. Joins(s.va[c], c) /\ s.va[c] \in Time
      BY <1>5, <2>2, <2>4, <2>5, Zenon DEF LinkedNow, Watermarks
    <3>2. Advanced(s, c) \in Time /\ Advanced(s, c) >= s.va[c]
      BY <1>1, <2>5, AdvancedBounds, Zenon DEF StateInv
    <3>3. c \notin failed => Advanced(s, c) = s.va[c]
      BY <1>3, <1>8, AdvancedIdle, Zenon DEF emitted
    <3>4. NextStart(i, c)' = Advanced(s, c)
      BY <1>6, Zenon
    <3>5. ASSUME KeepsItsKind(c)', c \notin crossed' PROVE Advanced(s, c) >= tip'[c]
      BY <2>1, <2>2, <2>3, <3>1, <3>2, <3>5, TimeIsNat, SMTT(30) DEF Joins
    <3>6. ASSUME KeepsItsKind(c)', c \notin loose' PROVE Advanced(s, c) <= tip'[c]
      BY <2>1, <2>3, <3>1, <3>3, <3>6, Zenon DEF Joins
    <3>. QED
      BY <3>4, <3>5, <3>6, Zenon DEF Joins
  <2>. QED
    BY <2>1, <2>2, <2>3, <2>4, <2>5, Zenon DEF LinkedNow
<1>. QED
  BY <1>2, <1>7, <1>8, Zenon DEF Chained, Linked

(* A retired instance attests the watermarks that it stopped at.           *)
LEMMA RetiredReports ==
    ASSUME TypeOK, RoundsInv, NEW i \in Instance, NEW failed \in SUBSET Channels,
           Reports(i, failed), Retired(i), Chained(i),
           UNCHANGED <<tip, loose, crossed, redefined>>
    PROVE  Chained(i)'
<1>1. /\ kv[i] \in KvState /\ StateInv(kv[i]) /\ PrecursorInv(kv[i], precursor[i])
      /\ precursor[i] # Absent /\ precursor'[i] = Absent
      /\ attested'[i] = attested[i] \cup (IF precursor[i].stage = "retired" THEN {precursor[i].va} ELSE {})
      /\ UNCHANGED <<scene, kv>>
  BY ReportsStep, Zenon DEF Reports
<1>2. attested'[i] \subseteq attested[i] \cup {kv[i].va}
  BY <1>1, Zenon DEF PrecursorInv
<1>3. SUFFICES ASSUME NEW c \in Channels, tip[c] # Absent, Linked(i, c) PROVE Linked(i, c)'
  BY Zenon DEF Chained
<1>4. NextStart(i, c) = kv[i].va[c] /\ NextStart(i, c)' = kv[i].va[c]
  <2>1. Advanced(kv[i], c) = kv[i].va[c]
    BY <1>1, AdvancedIdle, Zenon DEF StateInv, Retired
  <2>2. NextStart(i, c)' = Advanced(kv[i], c)
    BY <1>1, SMTT(30) DEF NextStart, Advanced, CarriedWatermark, PrevReportable
  <2>3. NextStart(i, c) = kv[i].va[c]
    BY <1>1, Zenon DEF NextStart
  <2>. QED
    BY <2>1, <2>2, <2>3, Zenon
<1>5. \A t : Joins(t, c)' <=> Joins(t, c)
  BY <1>1, Zenon DEF Joins, KeepsItsKind
<1>6. KeepsItsKind(c)' <=> KeepsItsKind(c)
  BY <1>1, Zenon DEF KeepsItsKind
<1>7. LinkedNow(i, c)'
  BY <1>1, <1>3, <1>4, <1>5, <1>6, Zenon DEF Linked, LinkedNow
<1>8. ASSUME NEW r \in attested'[i], r[c] # Absent PROVE Joins(r[c], c)
  BY <1>2, <1>3, <1>4, <1>8, Zenon DEF Linked, LinkedNow
<1>. QED
  BY <1>5, <1>7, <1>8, Zenon DEF Linked

LEMMA ChainStep ==
    ASSUME TypeOK, RoundsInv, LineInv, ChainInv, [Next]_vars
    PROVE  ChainInv'
<1>1. ASSUME NEW i \in Instance, FirstRound(i), NEW k \in Instance, Leads(k)' PROVE Chained(k)'
  <2>1. /\ kv[i] = Absent /\ kv'[i] = InitialState(i # 1) /\ kv'[i] # Absent
        /\ \A j \in Instance : j # i => kv'[j] = kv[j]
        /\ UNCHANGED <<scene, precursor, attested, tip, loose, crossed, redefined>>
    BY <1>1, FirstRoundStep, Zenon
  <2>2. CASE i = 1
    BY <2>1, <2>2, Zenon DEF LineInv, Empty, Chained
  <2>3. CASE i # 1
    <3>1. ~Started(i)' /\ ~Started(i)
      BY <2>1, <2>3 DEF InitialState, Started
    <3>2. \A j \in Instance : Started(j)' <=> Started(j)
      BY <2>1, <3>1, Zenon DEF Started
    <3>3. k # i /\ Leads(k)
      BY <1>1, <3>1, <3>2, Zenon DEF Leads
    <3>. QED
      BY <2>1, <3>3, ChainFrame, Zenon DEF ChainInv
  <2>. QED
    BY <2>2, <2>3, Zenon
<1>2. ASSUME NEW i \in Instance, kv[i] # Absent, NEW in \in RoundInputs(i), StateTransition(i, in),
             NEW k \in Instance, Leads(k)'
      PROVE  Chained(k)'
  <2>1. /\ \A j \in Instance : j # i => kv'[j] = kv[j] /\ precursor'[j] = precursor[j]
        /\ UNCHANGED <<scene, attested, tip>>
        /\ kv[i] \in KvState /\ kv'[i].stage = Precursor(kv[i], in).stage
    BY <1>2, RoundStep, Zenon DEF TypeOK
  <2>2. /\ kv'[i] # Absent /\ (Started(i) => Started(i)') /\ (Retired(i) => Retired(i)')
        /\ Started(i)' =>
             \/ Started(i) /\ ~Promotes(kv[i], in)
             \/ /\ Promotes(kv[i], in) /\ kv[i].stage = "staging"
                /\ i > 1 /\ i - 1 \in Instance /\ Retired(i - 1) /\ in.report \in attested[i - 1]
    BY <1>2, StageStep, Zenon
  <2>3. \A j \in Instance : j # i => (Started(j)' <=> Started(j))
    BY <2>1, Zenon DEF Started
  <2>4. kv[i].stage \in Stages
    BY <2>1, Zenon DEF KvState
  <2>5. ASSUME Retired(i) \/ ~Started(i)' PROVE UNCHANGED <<loose, crossed, redefined>>
    <3>1. ~(/\ Precursor(kv[i], in).stage \in {"production", "retired"}
            /\ kv[i].stage # "retired")
      BY <2>1, <2>2, <2>5, Zenon DEF Retired, Started
    <3>. QED
      BY <1>2, <3>1, Zenon DEF StateTransition
  <2>6. CASE (Retired(i) \/ ~Started(i)') /\ k # i
    <3>1. Leads(k)
      BY <1>2, <2>2, <2>3, <2>6, Zenon DEF Leads, Retired, Started
    <3>. QED
      BY <2>1, <2>5, <2>6, <3>1, ChainFrame, Zenon DEF ChainInv
  <2>7. CASE Retired(i) /\ k = i
    <3>1. Leads(i)
      BY <1>2, <2>3, <2>7, Zenon DEF Leads, Retired, Started
    <3>. QED
      BY <1>2, <2>5, <2>7, <3>1, RetiredRound, Zenon DEF ChainInv
  <2>8. CASE Started(i) /\ ~Retired(i)
    <3>1. kv[i].stage = "production"
      BY <2>4, <2>8, Zenon DEF Stages, Started, Retired
    <3>2. Leads(i)
      BY <2>8, Zenon DEF LineInv, Leads, Instance
    <3>3. k = i
      BY <1>2, <2>2, <2>3, <2>8, <3>2 DEF Leads, Instance
    <3>. QED
      BY <1>2, <3>1, <3>2, <3>3, ProductionRound, Zenon DEF ChainInv
  <2>9. CASE Started(i)' /\ ~Started(i)
    <3>1. Promotes(kv[i], in) /\ i > 1 /\ i - 1 \in Instance /\ Retired(i - 1)
      BY <2>2, <2>9, Zenon
    <3>2. \A j \in Instance : j >= i => ~Started(j)
      BY <2>9 DEF LineInv, Retired, Started, Instance
    <3>3. Leads(i - 1)
      BY <3>1, <3>2 DEF Leads, Retired, Started, Instance
    <3>4. k = i
      BY <1>2, <2>3, <2>9, <3>2 DEF Leads, Instance
    <3>. QED
      BY <1>2, <3>1, <3>3, <3>4, PromotionRound, Zenon DEF ChainInv
  <2>10. k = i => Started(i)'
    BY <1>2, Zenon DEF Leads
  <2>. QED
    BY <2>6, <2>7, <2>8, <2>9, <2>10, Zenon
<1>3. ASSUME NEW i \in Instance, NEW failed \in SUBSET Channels, Reports(i, failed),
             NEW k \in Instance, Leads(k)'
      PROVE  Chained(k)'
  <2>1. /\ PrecursorInv(kv[i], precursor[i]) /\ kv[i] # Absent /\ UNCHANGED <<scene, kv>>
        /\ \A j \in Instance : j # i => precursor'[j] = precursor[j] /\ attested'[j] = attested[j]
    BY <1>3, ReportsStep, Zenon
  <2>2. Leads(k) /\ Chained(k) /\ Started(k)
    BY <1>3, <2>1, Zenon DEF Leads, Started, ChainInv
  <2>3. CASE kv[i].stage = "production"
    <3>1. Leads(i) /\ Started(i)
      BY <2>1, <2>3, Zenon DEF LineInv, Leads, Started, Retired, Instance
    <3>2. k = i
      BY <2>2, <3>1 DEF Leads, Instance
    <3>. QED
      BY <1>3, <2>2, <2>3, <3>2, ProductionReports, Zenon
  <2>4. CASE kv[i].stage # "production"
    <3>1. precursor[i].stage # "production"
      BY <2>1, <2>4, Zenon DEF PrecursorInv
    <3>2. tip' = tip /\ UNCHANGED <<loose, crossed, redefined>>
      <4>1. tip' = [c \in Channels |-> tip[c]] /\ UNCHANGED <<loose, crossed, redefined>>
        BY <1>3, <3>1, Zenon DEF Reports
      <4>. QED
        BY <4>1, Zenon DEF TypeOK, Watermarks
    <3>3. CASE k = i
      <4>1. Retired(i)
        BY <2>2, <2>4, <3>3, Zenon DEF TypeOK, KvState, Stages, Started, Retired
      <4>. QED
        BY <1>3, <2>2, <3>2, <3>3, <4>1, RetiredReports, Zenon
    <3>4. CASE k # i
      BY <2>1, <2>2, <3>2, <3>4, ChainFrame, Zenon
    <3>. QED
      BY <3>3, <3>4, Zenon
  <2>. QED
    BY <2>3, <2>4, Zenon
<1>4. ASSUME UNCHANGED vars, NEW k \in Instance, Leads(k)' PROVE Chained(k)'
  <2>1. Leads(k)
    BY <1>4, Zenon DEF vars, Leads, Started
  <2>. QED
    BY <1>4, <2>1, ChainFrame, Zenon DEF vars, ChainInv
<1>. QED
  BY <1>1, <1>2, <1>3, <1>4, Zenon DEF Next, ChainInv

LEMMA ChainCorrect == Spec => []ChainInv
<1>1. Init => ChainInv
  BY Zenon DEF Init, ChainInv, Leads, Started
<1>. QED
  BY <1>1, ChainStep, RoundsCorrect, LineCorrect, PTL DEF Spec

(* What the chain says of a channel that is about to be reported.          *)
LEMMA ContinuedReport ==
    ASSUME TypeOK, RoundsInv, LineInv, ChainInv, NEW i \in Instance, NEW c \in Continues(i)
    PROVE  /\ c \in Channels /\ c \in precursor[i].reportable /\ tip[c] \in Time
           /\ precursor[i] \in PrecursorState /\ kv[i] \in KvState
           /\ StateInv(kv[i]) /\ PrecursorInv(kv[i], precursor[i])
           /\ Joins(precursor[i].va[c], c)
<1>1. /\ precursor[i] # Absent /\ kv[i].stage = "production"
      /\ c \in precursor[i].reportable /\ tip[c] # Absent
  BY Zenon DEF Continues, Told
<1>2. precursor[i] \in PrecursorState /\ PrecursorInv(kv[i], precursor[i])
  BY <1>1, Zenon DEF TypeOK, RoundsInv
<1>3. kv[i] # Absent /\ kv[i] \in KvState /\ StateInv(kv[i])
  BY <1>2, Zenon DEF TypeOK, RoundsInv, PrecursorInv
<1>4. c \in Channels /\ precursor[i].va[c] # Absent /\ precursor[i].va = kv[i].va
  BY <1>1, <1>2, <1>3, ReportEndBounds, TimeIsNat, Zenon DEF PrecursorInv
<1>5. tip[c] \in Time
  BY <1>1, <1>4, Zenon DEF TypeOK, Watermarks
<1>6. Leads(i)
  BY <1>1, <1>3, Zenon DEF LineInv, Leads, Started, Retired, Instance
<1>7. Linked(i, c)
  BY <1>1, <1>4, <1>6, Zenon DEF ChainInv, Chained
<1>8. NextStart(i, c) = precursor[i].va[c]
  BY <1>1, <1>4, Zenon DEF NextStart
<1>. QED
  BY <1>1, <1>2, <1>3, <1>4, <1>5, <1>7, <1>8, Zenon DEF Linked, LinkedNow

(* V31NoOverlap: a live report starts at or after the end of the channel's *)
(* last one (StateTransition advances validAfter by the decision that the  *)
(* previous round persisted and holds the timestamp to a floor).           *)
THEOREM V31NoOverlapHolds == Spec => []V31NoOverlap
<1>1. ASSUME TypeOK, RoundsInv, LineInv, ChainInv PROVE V31NoOverlap
  <2>. SUFFICES ASSUME NEW i \in Instance, NEW c \in Live(i), KeepsItsKind(c), c \notin crossed
                PROVE  ReportStart(precursor[i], c) >= tip[c]
    BY Zenon DEF V31NoOverlap
  <2>1. c \in Continues(i) /\ precursor[i].defs[c].format # "backfill"
    BY Zenon DEF Live, Backfills
  <2>2. ReportStart(precursor[i], c) = precursor[i].va[c]
    BY <2>1, Zenon DEF ReportStart
  <2>. QED
    BY <1>1, <2>1, <2>2, ContinuedReport, Zenon DEF Joins
<1>. QED
  BY <1>1, RoundsCorrect, LineCorrect, ChainCorrect, PTL

(* V31NoGap: it starts at or before that end, unless a report was lost or  *)
(* the channel left the effective definitions (prevReportable is the       *)
(* decision that Reports acted on).                                        *)
THEOREM V31NoGapHolds == Spec => []V31NoGap
<1>1. ASSUME TypeOK, RoundsInv, LineInv, ChainInv PROVE V31NoGap
  <2>. SUFFICES ASSUME NEW i \in Instance, NEW c \in Live(i), KeepsItsKind(c), c \notin loose
                PROVE  ReportStart(precursor[i], c) <= tip[c]
    BY Zenon DEF V31NoGap
  <2>1. c \in Continues(i) /\ precursor[i].defs[c].format # "backfill"
    BY Zenon DEF Live, Backfills
  <2>2. ReportStart(precursor[i], c) = precursor[i].va[c]
    BY <2>1, Zenon DEF ReportStart
  <2>. QED
    BY <1>1, <2>1, <2>2, ContinuedReport, Zenon DEF Joins
<1>. QED
  BY <1>1, RoundsCorrect, LineCorrect, ChainCorrect, PTL

(* V31BackfillOrder: a backfill emits its observations in ascending order  *)
(* and passes over none that can be emitted (selectBackfillCandidate takes *)
(* the earliest one past the watermark, and StateTransition selects it     *)
(* again from the committed state).                                        *)
THEOREM V31BackfillOrderHolds == Spec => []V31BackfillOrder
<1>1. ASSUME TypeOK, RoundsInv, LineInv, ChainInv PROVE V31BackfillOrder
  <2>. SUFFICES ASSUME NEW i \in Instance, NEW c \in Backfills(i)
                PROVE  LET p == precursor[i]
                           d == p.defs[c]
                           times == ObservationTimes(d.rows \ d.bad,
                                      TargetChannelTimeResolution(p.defs[d.target]))
                       IN /\ c \notin redefined \cup crossed => ReportEnd(p, c) > tip[c]
                          /\ c \notin redefined \cup crossed \cup loose
                               => \A t \in times : t > tip[c] => t >= ReportEnd(p, c)
    BY Zenon DEF V31BackfillOrder
  <2>. DEFINE p == precursor[i]
              d == p.defs[c]
              res == TargetChannelTimeResolution(p.defs[d.target])
              times == ObservationTimes(d.rows \ d.bad, res)
              end == ReportEnd(p, c)
  <2>1. c \in Continues(i) /\ d.format = "backfill"
    BY Zenon DEF Backfills
  <2>2. /\ c \in Channels /\ c \in p.reportable /\ tip[c] \in Time
        /\ p \in PrecursorState /\ kv[i] \in KvState
        /\ StateInv(kv[i]) /\ PrecursorInv(kv[i], p)
        /\ Joins(p.va[c], c)
    BY <1>1, <2>1, ContinuedReport, Zenon
  <2>3. /\ p.va[c] \in Time /\ p.ts \in Time /\ end \in Time
        /\ end > p.va[c] /\ end < p.ts
        /\ \A u \in BackfillCandidates(p.defs, p.va, p.ts, c) : end <= u
    BY <2>1, <2>2, ReportEndBounds, Zenon
  <2>4. /\ p.va[c] \in Nat /\ p.ts \in Nat /\ end \in Nat /\ tip[c] \in Nat
    BY <2>2, <2>3, TimeIsNat, Zenon
  <2>5. SelectBackfillCandidate(p.defs, p.va, p.ts, c) # {} /\ d # Absent
    BY <2>1, <2>2, Zenon DEF PrecursorInv
  <2>6. PICK u : u \in BackfillCandidates(p.defs, p.va, p.ts, c)
    BY <2>5, CandidateSelected, Zenon
  <2>7. BackfillCandidates(p.defs, p.va, p.ts, c) =
          {t \in times : t < p.ts /\ PastWatermark(t, p.va[c])}
    BY <2>6, Zenon DEF BackfillCandidates
  <2>8. d.rows \subseteq Nat /\ ResolutionNanos(res) \in Nat
    BY <2>2, <2>5, TransitionAssumption, Zenon DEF PrecursorState, ChannelDefinition, ResolutionNanos
  <2>. HIDE DEF end, res
  <2>9. times \subseteq Nat
    BY <2>8 DEF ObservationTimes
  <2>. HIDE DEF times, d, p
  <2>10. c \notin redefined \cup crossed => end > tip[c]
    BY <2>2, <2>3, <2>4, SMTT(30) DEF Joins, KeepsItsKind
  <2>11. ASSUME c \notin redefined \cup crossed \cup loose, NEW t \in times, t > tip[c]
         PROVE  t >= end
    <3>1. p.va[c] <= tip[c] /\ t \in Nat
      BY <2>2, <2>9, <2>11, Zenon DEF Joins, KeepsItsKind
    <3>2. CASE t < p.ts
      <4>1. t \in BackfillCandidates(p.defs, p.va, p.ts, c)
        BY <2>4, <2>7, <2>11, <3>1, <3>2 DEF PastWatermark
      <4>. QED
        BY <2>3, <2>4, <3>1, <4>1, Zenon
    <3>3. CASE ~(t < p.ts)
      BY <2>3, <2>4, <3>1, <3>3, SMTT(30)
    <3>. QED
      BY <3>2, <3>3, Zenon
  <2>. QED
    BY <2>10, <2>11, Zenon DEF end, times, d, p, res
<1>. QED
  BY <1>1, RoundsCorrect, LineCorrect, ChainCorrect, PTL
=============================================================================
