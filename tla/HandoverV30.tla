----------------------------- MODULE HandoverV30 -----------------------------
(***************************************************************************)
(* A line of LLO v30 protocol instances, each the predecessor of the next  *)
(* one, that run side by side and hand production over: instance 1 starts  *)
(* in production, the others in staging; a retired instance signs          *)
(* retirement reports that carry its watermarks; a staging instance that   *)
(* verifies one seeds its watermarks from it and goes into production.     *)
(*                                                                         *)
(* Every instance alternates Outcome (the agreed state transition) and     *)
(* Reports (what is emitted for the agreed outcome). The tallied votes,    *)
(* the median timestamp and the verdict on an attested retirement report   *)
(* are inputs: they are any value that an honest majority can produce.     *)
(* The nodes that agree on an outcome have coherent opts caches            *)
(* (OptsCacheV30!CoherentUnlessMissed says which ones do).                 *)
(***************************************************************************)
EXTENDS OutcomeV30

CONSTANT Instances   \* the number of protocol instances

ASSUME InstancesAssumption == Instances \in Nat \ {0}

Instance == 1 .. Instances

VARIABLES
    out,        \* out[i]: the last agreed outcome of instance i
    phase,      \* phase[i]: what instance i does next with it
    attested,   \* attested[i]: the retirement reports that instance i signed
    \* History of the production reports of each channel, over all instances:
    tip,        \* the end of the last report's range
    disturbed,  \* the channel was redefined since its last report
    lost        \* a reportable round's report failed to encode since the last report

vars == <<out, phase, attested, tip, disturbed, lost>>

TypeOK ==
    /\ out \in [Instance -> OutcomeType]
    /\ phase \in [Instance -> {"outcome", "reports"}]
    /\ attested \in [Instance -> SUBSET Watermarks]
    /\ tip \in Watermarks
    /\ disturbed \in [Channels -> BOOLEAN]
    /\ lost \in [Channels -> BOOLEAN]

Init ==
    /\ out = [i \in Instance |-> [InitialOutcome(TRUE) EXCEPT !.stage = "none"]]
    /\ phase = [i \in Instance |-> "outcome"]
    /\ attested = [i \in Instance |-> {}]
    /\ tip = NoWatermarks
    /\ disturbed = [c \in Channels |-> FALSE]
    /\ lost = [c \in Channels |-> FALSE]

-----------------------------------------------------------------------------
(* Round 1 of an instance: the cornerstone outcome. It has no reports.     *)
FirstRound(i) ==
    /\ out[i].stage = "none"
    /\ out' = [out EXCEPT ![i] = InitialOutcome(i # 1)]
    /\ UNCHANGED <<phase, attested, tip, disturbed, lost>>

(* What an honest oracle votes for: to remove a channel that the previous  *)
(* outcome defines, to add or replace a definition that differs from it,   *)
(* and nothing at all once the instance has retired.                       *)
HonestRemovals(prev) == IF prev.stage = "retired" THEN {} ELSE Defined(prev.defs)

HonestUpdates(prev) ==
    {u \in [Channels -> Definitions \cup {Absent}] :
        \A c \in Channels :
            u[c] # Absent => /\ prev.stage # "retired"
                             /\ u[c] \in CacheDefinitions[c]
                             /\ u[c] # prev.defs[c]}

(* The attested retirement reports that an observation can carry.          *)
RetirementReports(i) ==
    IF i > 1 /\ out[i].stage = "staging" THEN attested[i - 1] ELSE {}

(* Does this round of a production instance change what decides whether c  *)
(* reported in the round before: its definition, or its backfill target's? *)
(* A tombstoned backfill channel counts too, as its watermark moves        *)
(* without reports.                                                        *)
Disturbs(prev, next, c) ==
    \/ prev.stage = "production" /\ next.defs[c] # prev.defs[c]
    \/ /\ next.defs[c] # Absent
       /\ next.defs[c].format = "backfill"
       /\ \/ next.defs[c].tombstone
          \/ LET target == next.defs[c].opts.target IN
             /\ prev.stage = "production"
             /\ target \in Channels
             /\ next.defs[target] # prev.defs[target]

(* A round from the second on. The history follows the instance that is in *)
(* production: it forgets a channel that loses its watermark.              *)
Outcome(i, in) ==
    LET prev == out[i]
        follow == out'[i].stage \in {"production", "retired"} /\ prev.stage # "retired"
    IN  /\ prev.stage # "none"
        /\ phase[i] = "outcome"
        /\ out' = [out EXCEPT ![i] =
                      NextOutcome(prev, in, OptsOf(NextDefinitions(prev, in)))]
        /\ phase' = [phase EXCEPT ![i] = "reports"]
        /\ tip' = [c \in Channels |->
                     IF follow /\ out'[i].va[c] = Absent THEN Absent ELSE tip[c]]
        /\ disturbed' = [c \in Channels |->
                           /\ tip'[c] # Absent
                           /\ disturbed[c] \/ (follow /\ Disturbs(prev, out'[i], c))]
        /\ lost' = [c \in Channels |-> tip'[c] # Absent /\ lost[c]]
        /\ UNCHANGED attested

(* The inputs of a round: the median timestamp is not monotone, and the    *)
(* verdict on the predecessor's retirement report is local to the nodes,   *)
(* so it may be missed in any round.                                       *)
RoundInputs(i) ==
    [ts : Time, report : RetirementReports(i) \cup {Absent},
     retire : {FALSE, out[i].stage # "retired"},
     removed : SUBSET HonestRemovals(out[i]), updates : HonestUpdates(out[i]),
     fresh : SUBSET Streams]

(* Mutant: an instance in production signs its watermarks too.             *)
SignsEarly(o) == o.stage # "staging"

SignsRetirementReport(o) == o.stage = "retired"

(* The reports of the agreed outcome. Encoding can fail for any channel,   *)
(* and its report is then skipped. A retired instance signs its watermarks *)
(* and reports nothing else.                                               *)
Reports(i, failed) ==
    LET o == out[i]
        reportable == ReportableChannels(o)
        counts == o.stage = "production"
    IN  /\ phase[i] = "reports"
        /\ failed \subseteq reportable
        /\ phase' = [phase EXCEPT ![i] = "outcome"]
        /\ attested' = [attested EXCEPT ![i] =
                          IF SignsRetirementReport(o) THEN @ \cup {o.va} ELSE @]
        /\ tip' = [c \in Channels |->
                     IF counts /\ c \in reportable \ failed
                       THEN ReportEnd(o, c, OptsOf(o.defs)) ELSE tip[c]]
        /\ disturbed' = [c \in Channels |->
                           disturbed[c] /\ ~(counts /\ c \in reportable \ failed)]
        /\ lost' = [c \in Channels |->
                      IF counts /\ c \in reportable
                        THEN c \in failed /\ tip[c] # Absent ELSE lost[c]]
        /\ UNCHANGED out

Next ==
    \E i \in Instance :
        \/ FirstRound(i)
        \/ \E in \in RoundInputs(i) : Outcome(i, in)
        \/ \E failed \in SUBSET Channels : Reports(i, failed)

Spec == Init /\ [][Next]_vars
-----------------------------------------------------------------------------
(* The production reports of a channel cover consecutive time ranges.      *)

(* The channels that instance i is about to report in production, and that *)
(* have an earlier production report, of this instance or of one before.   *)
Continues(i) ==
    {c \in Channels : /\ phase[i] = "reports"
                      /\ out[i].stage = "production"
                      /\ c \in ReportableChannels(out[i])
                      /\ tip[c] # Absent}

(* NoOverlap: a production report starts at or after the end of the        *)
(* channel's last production report (as the outcome codec keeps that       *)
(* time), also over a handover and also when reports in between failed to  *)
(* encode, unless the channel was redefined since that report              *)
(* (plugin_outcome.go:180-215, plugin_reports.go:147-160).                 *)
NoOverlap ==
    \A i \in Instance : \A c \in Continues(i) :
        ~disturbed[c] => out[i].va[c] >= CodecTime(tip[c])

(* NoGap: it starts exactly there when no report in between was lost to    *)
(* the codec: the handover by retirement report is gapless, as             *)
(* plugin_outcome.go:77-79 promises.                                       *)
NoGap ==
    \A i \in Instance : \A c \in Continues(i) :
        ~disturbed[c] /\ ~lost[c] => out[i].va[c] = CodecTime(tip[c])

(* ReportSpacing: consecutive live reports of a channel are at least       *)
(* MinReportInterval apart, over handovers and whatever the median         *)
(* timestamp does (plugin_outcome.go:554-563).                             *)
ReportSpacing ==
    \A i \in Instance : \A c \in Continues(i) :
        out[i].defs[c].format # "backfill" /\ ~disturbed[c]
            => out[i].ts >= tip[c] + MinReportInterval

(* BackfillAscends: a backfill channel emits its observations in ascending *)
(* order of time, hence each at most once, while its definition and its    *)
(* target's stay the same (codecs.go:68-89, plugin_outcome.go:184-202).    *)
BackfillAscends ==
    \A i \in Instance : \A c \in Continues(i) :
        out[i].defs[c].format = "backfill" /\ ~disturbed[c]
            => ReportEnd(out[i], c, OptsOf(out[i].defs)) > tip[c]

(* BackfillComplete: when nothing was lost to the codec, it passes over    *)
(* none of them: the next one emitted is the first after the last.         *)
BackfillComplete ==
    \A i \in Instance : \A c \in Continues(i) :
        LET d == out[i].defs[c] IN
        d.format = "backfill" /\ ~disturbed[c] /\ ~lost[c]
            => \A raw \in d.opts.rows :
                  LET t == raw * ResolutionNanos(out[i].defs[d.opts.target]) IN
                  t > tip[c] => t >= ReportEnd(out[i], c, OptsOf(out[i].defs))

(* OneProducer: no two instances are in production at the same time, and   *)
(* none leaves staging before every earlier instance has retired, so that  *)
(* a channel never has two chains of production reports                    *)
(* (plugin_outcome.go:73-88).                                              *)
OneProducer ==
    \A i, j \in Instance :
        i < j /\ out[j].stage \in {"production", "retired"} => out[i].stage = "retired"

(* RetirementFrozen: every retirement report that an instance signs        *)
(* carries the same watermarks, so it does not matter which of them the    *)
(* successor gets to verify (plugin_reports.go:50, plugin_outcome.go:105,  *)
(* 204).                                                                   *)
RetirementFrozen == \A i \in Instance : \A r \in attested[i] : r = out[i].va

-----------------------------------------------------------------------------
(* What the comments and tests of the repository say without the           *)
(* reservations above.                                                     *)

(* ReportsNeverOverlap: ValidAfterNanoseconds is set "such that reports    *)
(* never overlap" (plugin_outcome_test.go:587), redefined channels         *)
(* included.                                                               *)
ReportsNeverOverlap ==
    \A i \in Instance : \A c \in Continues(i) : out[i].va[c] >= CodecTime(tip[c])

(* RampUpLeavesNoGap: watermarks of channels that are not yet defined are  *)
(* kept so that no gap arises when an instance is promoted "while we're    *)
(* still ramping up the full set of channels" (plugin_outcome.go:230-236). *)
RampUpLeavesNoGap ==
    \A i \in Instance : \A c \in Continues(i) :
        ~lost[c] => out[i].va[c] <= CodecTime(tip[c])

(* BackfillWaitsForEncoding: "the watermark only advances on a report that *)
(* was actually emitted" (history_backfill.go:306-307): no observation is  *)
(* passed over because its report could not be encoded.                    *)
BackfillWaitsForEncoding ==
    \A i \in Instance : \A c \in Continues(i) :
        out[i].defs[c].format = "backfill" /\ ~disturbed[c]
            => out[i].va[c] = CodecTime(tip[c])
=============================================================================
