----------------------------- MODULE HandoverV31 -----------------------------
(***************************************************************************)
(* A line of LLO v31 protocol instances that run side by side and hand     *)
(* production over, as HandoverV30 has it for v30: every instance          *)
(* alternates StateTransition on its replicated key-value state and        *)
(* Reports on the precursor that it returned.                              *)
(*                                                                         *)
(* A scene says which instances take part and what the definition sources  *)
(* of the oracles can hold; it is fixed from the start.                    *)
(***************************************************************************)
EXTENDS TransitionV31

CONSTANTS
    Instances,   \* the number of protocol instances
    Scenes       \* records [instances, maxTime, sources]: how many instances take part,
                 \* the largest median timestamp, the definitions of each channel

ASSUME HandoverAssumption ==
    /\ Instances \in Nat \ {0}
    /\ \A s \in Scenes : /\ s.instances \in 1 .. Instances
                         /\ s.maxTime \in Time
                         /\ s.sources \in [Channels -> SUBSET ChannelDefinition]

Instance == 1 .. Instances

VARIABLES
    scene,      \* the scene
    kv,         \* kv[i]: the replicated state of instance i, Absent before round 1
    precursor,  \* precursor[i]: what Reports of instance i gets next, or Absent
    attested,   \* attested[i]: the watermarks of the retirement reports it signed
    \* History of the production reports of each channel, over all instances:
    tip,        \* the end of the last report's range
    loose,      \* since then a report was lost or the watermark was dropped
    crossed,    \* since then a promotion lowered or did not know the watermark
    redefined   \* since then the channel or its backfill target was redefined

vars == <<scene, kv, precursor, attested, tip, loose, crossed, redefined>>

Init ==
    /\ scene \in Scenes
    /\ kv = [i \in Instance |-> Absent]
    /\ precursor = [i \in Instance |-> Absent]
    /\ attested = [i \in Instance |-> {}]
    /\ tip = Empty
    /\ loose = {} /\ crossed = {} /\ redefined = {}

-----------------------------------------------------------------------------
(* Round 1. Its precursor has no reports.                                  *)
FirstRound(i) ==
    /\ i <= scene.instances /\ kv[i] = Absent
    /\ kv' = [kv EXCEPT ![i] = InitialState(i # 1)]
    /\ UNCHANGED <<scene, precursor, attested, tip, loose, crossed, redefined>>

(* voteOnChannels: an honest oracle votes to remove tombstones that are    *)
(* committed, and for definitions that differ from the committed ones.     *)
Removals(prev) == {c \in Defined(prev.defs) : prev.defs[c].tombstone}

Updates(prev) ==
    {u \in [Channels -> SUBSET UNION {scene.sources[c] : c \in Channels}] :
        \A c \in Channels : u[c] \subseteq scene.sources[c] \ {prev.defs[c]}}

(* resolvePredecessorRetirement: reports that disagree are all refused.    *)
ResolveRetirement(reports) ==
    IF \E r \in reports : reports = {r} THEN CHOOSE r \in reports : TRUE ELSE Absent

(* The attested reports that the observations of a round can carry.        *)
RetirementReports(i) ==
    IF i > 1 /\ kv[i].stage = "staging" THEN SUBSET attested[i - 1] ELSE {{}}

LiveFormats(prev) == {prev.defs[c].format : c \in Defined(prev.defs)} \ {"backfill"}

(* Values or codecs are missing for all channels or for none, and one      *)
(* median below the floor stands for all.                                  *)
RoundInputs(i) ==
    LET all == [valued |-> Defined(kv[i].defs), encodable |-> LiveFormats(kv[i])]
    IN [ts : {t \in 0 .. scene.maxTime : t + 1 >= kv[i].ts},
        report : {ResolveRetirement(R) : R \in RetirementReports(i)},
        retire : {FALSE, kv[i].stage # "retired"},
        removed : SUBSET Removals(kv[i]), passing : Updates(kv[i]),
        values : {all, [all EXCEPT !.valued = {}], [all EXCEPT !.encodable = {}]}]

(* The definitions that a backfill report of channel c depends on.         *)
Sources(defs, c) ==
    <<defs[c], IF defs[c] # Absent /\ defs[c].target \in Channels
               THEN defs[defs[c].target] ELSE Absent>>

(* The channels that have a production report already.                     *)
Told(C) == {c \in C : tip[c] # Absent}

(* A round from the second on. The history follows the instance that leads *)
(* the line.                                                               *)
StateTransition(i, in) ==
    LET prev == kv[i]
        p == Precursor(prev, in)
        next == FlushKV(prev, in, p)
        promoted == Promotes(prev, in)
        leads == p.stage \in {"production", "retired"} /\ prev.stage # "retired"
        dropped == {c \in Channels : IF promoted THEN in.report[c] = Absent
                                     ELSE prev.va[c] = Absent \/ p.va[c] = Absent}
        lowered == {c \in Channels :
                      IF promoted THEN in.report[c] = Absent \/ in.report[c] > p.va[c]
                      ELSE prev.va[c] # Absent /\ p.va[c] = Absent /\ prev.va[c] > p.ts}
        changed == {c \in Channels :
                      Sources(next.defs, c) # Sources(IF promoted THEN kv[i - 1].defs ELSE prev.defs, c)}
    IN  /\ prev # Absent /\ precursor[i] = Absent
        /\ kv' = [kv EXCEPT ![i] = next]
        /\ precursor' = [precursor EXCEPT ![i] = p]
        /\ loose' = IF leads THEN Told(loose \cup dropped) ELSE loose
        /\ crossed' = IF leads THEN Told(crossed \cup lowered) ELSE crossed
        /\ redefined' = IF leads THEN Told(redefined \cup changed) ELSE redefined
        /\ UNCHANGED <<scene, attested, tip>>

(* Mutant: an instance in production signs its watermarks too.             *)
SignsEarly(p) == p.stage # "staging"

SignsRetirementReport(p) == p.stage = "retired"

(* Reports: exactly the channels that the round decided on, less those     *)
(* whose encoding fails on the nodes.                                      *)
Reports(i, failed) ==
    LET p == precursor[i]
        emitted == p.reportable \ failed
        counts == p.stage = "production"
    IN  /\ p # Absent /\ failed \subseteq p.reportable
        /\ precursor' = [precursor EXCEPT ![i] = Absent]
        /\ attested' = [attested EXCEPT ![i] =
                          IF SignsRetirementReport(p) THEN @ \cup {p.va} ELSE @]
        /\ tip' = [c \in Channels |->
                     IF counts /\ c \in emitted THEN ReportEnd(p, c) ELSE tip[c]]
        /\ loose' = IF counts THEN (loose \ emitted) \cup Told(failed) ELSE loose
        /\ crossed' = IF counts THEN crossed \ emitted ELSE crossed
        /\ redefined' = IF counts
                        THEN (redefined \ emitted) \cup
                             {c \in emitted : Sources(kv[i].defs, c) # Sources(p.defs, c)}
                        ELSE redefined
        /\ UNCHANGED <<scene, kv>>

Next ==
    \E i \in Instance :
        \/ FirstRound(i)
        \/ kv[i] # Absent /\ \E in \in RoundInputs(i) : StateTransition(i, in)
        \/ \E failed \in SUBSET Channels : Reports(i, failed)

Spec == Init /\ [][Next]_vars
-----------------------------------------------------------------------------
(* The production reports of a channel, over all instances.                *)

(* The channels that instance i is about to report in production and that  *)
(* have an earlier production report.                                      *)
Continues(i) ==
    IF precursor[i] = Absent \/ kv[i].stage # "production" THEN {}
    ELSE Told(precursor[i].reportable)

Backfills(i) == {c \in Continues(i) : precursor[i].defs[c].format = "backfill"}
Live(i) == Continues(i) \ Backfills(i)

(* A watermark means two things, the end of a live report and the last     *)
(* observation of a backfill. Reports join up as long as a channel is not  *)
(* redefined from the one to the other.                                    *)
KeepsItsKind(c) ==
    c \notin redefined \/ \A d \in scene.sources[c] : d.format # "backfill"

(* V31NoOverlap: a live report starts at or after the end of the channel's *)
(* last one, even if the channel was removed, paused or redefined in       *)
(* between and whatever the clocks do; only a promotion that caps the      *)
(* predecessor's watermark, or has none, may go back, and a channel that   *)
(* turns into a backfill and back                                          *)
(* (statetransition.go:156-206, 881-889, 927-934).                         *)
V31NoOverlap ==
    \A i \in Instance : \A c \in Live(i) :
        KeepsItsKind(c) /\ c \notin crossed => ReportStart(precursor[i], c) >= tip[c]

(* V31NoGap: it starts exactly there, over handovers, pauses and changes   *)
(* of the definition, unless a report was lost to encoding or the channel  *)
(* left the effective definitions in between: the watermark moves by the   *)
(* decision that Reports acted on, not by one taken again                  *)
(* (statetransition.go:185-190, 862-864).                                  *)
V31NoGap ==
    \A i \in Instance : \A c \in Live(i) :
        KeepsItsKind(c) /\ c \notin loose => ReportStart(precursor[i], c) <= tip[c]

(* V31BackfillOrder: a backfill emits its observations in ascending order  *)
(* and passes over none that can be emitted, over handovers, while its     *)
(* definition and its target's stay the same and no report is lost         *)
(* (backfill.go:25-94, statetransition.go:165-183).                        *)
V31BackfillOrder ==
    \A i \in Instance : \A c \in Backfills(i) :
        LET p == precursor[i]
            d == p.defs[c]
            times == ObservationTimes(d.rows \ d.bad, TargetChannelTimeResolution(p.defs[d.target]))
        IN /\ c \notin redefined \cup crossed => ReportEnd(p, c) > tip[c]
           /\ c \notin redefined \cup crossed \cup loose
                => \A t \in times : t > tip[c] => t >= ReportEnd(p, c)

(* V31OneProducer: no instance leaves staging before every earlier one has *)
(* retired (statetransition.go:115-136).                                   *)
V31OneProducer ==
    \A i, j \in Instance :
        i < j /\ kv[j] # Absent /\ kv[j].stage # "staging" => kv[i].stage = "retired"

-----------------------------------------------------------------------------
(* What a comment says.                                                    *)

(* RetiredWatermarksAgree: "A retired predecessor freezes its watermarks,  *)
(* so every report it signs after retiring carries the same map"           *)
(* (statetransition.go:1001-1002).                                         *)
RetiredWatermarksAgree == \A i \in Instance : Cardinality(attested[i]) <= 1
=============================================================================
