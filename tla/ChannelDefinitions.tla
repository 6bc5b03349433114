------------------------- MODULE ChannelDefinitions -------------------------
(***************************************************************************)
(* The checks on a set of channel definitions                              *)
(* (llo/protocol/channel_definitions.go, channel_definitions_budget.go,    *)
(* channel_analysis_cache.go, calculated_streams.go): which channels are   *)
(* broken, which may be admitted, and the totals that no change may push   *)
(* past their limits.                                                      *)
(*                                                                         *)
(* A set of definitions is a function on channel identifiers. A definition *)
(* has a report format, a tombstone flag, a sequence of streams            *)
(* [id, aggregator] and decoded opts:                                      *)
(*   opts.size      length of the encoded opts                             *)
(*       .calc      stream identifiers of the declared expressions         *)
(*       .twap      calls of TWAP in them                                  *)
(*       .verifies  the codec's Verify accepts them                        *)
(*       .admits    its VerifyForAdmission and FeedID do                   *)
(*       .feed      the feed identifier, or Absent                         *)
(*       .backfill  [target, rows, values], or Absent                      *)
(***************************************************************************)
EXTENDS Common, FiniteSetsExt, Functions

CONSTANTS
    Codecs,                    \* the report formats that this build encodes
    MaxOutcomeChannelDefinitionsLength, MaxStreamsPerChannel, MaxChannelOptsBytes,
    MaxTotalStreamEntries, MaxTotalOptsBytes, MaxPersistedAggregates,
    MaxTotalCalculatedStreams, MaxTotalTWAPCalls, MaxObservationStreamValuesLength

ASSUME LimitsAssumption ==
    {MaxTotalStreamEntries, MaxTotalOptsBytes, MaxPersistedAggregates, MaxTotalCalculatedStreams,
     MaxTotalTWAPCalls, MaxObservationStreamValuesLength} \subseteq Nat

(* The types of a definition's parts.                                      *)
IsChannelDefinition(cd) ==
    /\ cd.tombstone \in BOOLEAN
    /\ cd.streams \in Seq([id : Nat, aggregator : STRING])
    /\ cd.opts.size \in Nat /\ cd.opts.twap \in Nat /\ cd.opts.calc \in Seq(Nat)

NoDefinitions == [c \in {} |-> Absent]

Live(defs) == {c \in DOMAIN defs : ~defs[c].tombstone}

-----------------------------------------------------------------------------
(* Facts about one definition, a function of it alone.                     *)

HasCalculatedStreams(cd) == cd.format = "expr"

(* The identifiers declared before the first zero, which is an error.      *)
CalculatedStreamIDs(cd) ==
    LET calc == cd.opts.calc
    IN IF ~HasCalculatedStreams(cd) THEN <<>>
       ELSE SubSeq(calc, 1, Minimum({i \in DOMAIN calc : calc[i] = 0} \cup {Len(calc) + 1}) - 1)

CalculatedErr(cd) ==
    HasCalculatedStreams(cd) /\ (cd.opts.calc = <<>> \/ 0 \in Elements(cd.opts.calc))

(* A format that this build lacks is not verified.                         *)
VerifyErr(cd) == cd.format \in Codecs /\ ~cd.opts.verifies
Verified(cd) == cd.format \in Codecs /\ cd.opts.verifies

AdmissionErr(cd) == Verified(cd) /\ ~cd.opts.admits
FeedIDs(cd) == IF Verified(cd) THEN {cd.opts.feed} \ {Absent} ELSE {}
TWAPCalls(cd) == IF Verified(cd) THEN cd.opts.twap ELSE 0

(* Calculated streams come last, and inline ones are dropped.              *)
EffectiveStreams(cd) ==
    IF ~HasCalculatedStreams(cd) THEN cd.streams
    ELSE SelectSeq(cd.streams, LAMBDA s : s.aggregator # "calculated")
         \o [i \in DOMAIN cd.opts.calc |-> [id |-> cd.opts.calc[i], aggregator |-> "calculated"]]

Observes(cd) == {s.id : s \in {t \in Elements(cd.streams) : t.aggregator # "calculated"}}

-----------------------------------------------------------------------------
(* Totals over a set. Tombstones count towards the stored sizes only.      *)

AggregatedPairsOf(cd) ==
    IF cd.tombstone \/ cd.format = "backfill" THEN {}
    ELSE {s \in Elements(cd.streams) : s.aggregator \notin {"zero", "calculated"}}

Declares(cd) == Elements(CalculatedStreamIDs(cd))

(* Claims on a stream beyond its first owner: the channels that observe it *)
(* are one owner, every expression that declares it another.               *)
ExcessClaims(defs, live, stream) ==
    LET times(c) == Cardinality({i \in DOMAIN CalculatedStreamIDs(defs[c]) :
                                    CalculatedStreamIDs(defs[c])[i] = stream})
    IN SumFunction([c \in live |-> times(c)])
       - (IF \E c \in live : stream \in Observes(defs[c]) THEN 0 ELSE 1)

TotalsOver(defs, live) ==
    [streamEntries |-> SumFunction([c \in DOMAIN defs |-> Len(defs[c].streams)]),
     optsBytes |-> SumFunction([c \in DOMAIN defs |-> defs[c].opts.size]),
     aggregatedPairs |-> Cardinality(UNION {AggregatedPairsOf(defs[c]) : c \in DOMAIN defs}),
     calculatedStreams |-> SumFunction([c \in live |-> Len(CalculatedStreamIDs(defs[c]))]),
     twapCalls |-> SumFunction([c \in live |-> TWAPCalls(defs[c])]),
     streamIDs |-> Cardinality(UNION {{s.id : s \in Elements(defs[c].streams)} : c \in live}),
     clashes |-> SumFunction([s \in UNION {Declares(defs[c]) : c \in live} |->
                                  ExcessClaims(defs, live, s)])]

Totals(defs) == TotalsOver(defs, Live(defs))

Limits ==
    [streamEntries |-> MaxTotalStreamEntries, optsBytes |-> MaxTotalOptsBytes,
     aggregatedPairs |-> MaxPersistedAggregates,
     calculatedStreams |-> MaxTotalCalculatedStreams, twapCalls |-> MaxTotalTWAPCalls,
     streamIDs |-> MaxObservationStreamValuesLength, clashes |-> 0]

(* Mutant: clashing claims are left to the admission of each oracle.       *)
GrowsInSize(after, before) ==
    \E t \in DOMAIN Limits \ {"clashes"} : after[t] > Limits[t] /\ after[t] > before[t]

Grows(after, before) == \E t \in DOMAIN Limits : after[t] > Limits[t] /\ after[t] > before[t]

(* A change that grows a total past its limit is refused; a total that is  *)
(* past it already may stay or shrink.                                     *)
Replace(defs, c, cd) ==
    LET next == Over([d \in {c} |-> cd], defs)
    IN IF Grows(Totals(next), Totals(defs)) THEN defs ELSE next

Exceeds(totals) == \E t \in DOMAIN Limits \ {"streamIDs", "clashes"} : totals[t] > Limits[t]
BudgetErr(defs) == Exceeds(Totals(defs))

-----------------------------------------------------------------------------
(* Backfill channels against their target.                                 *)

ValidateHistoryBackfillAgainstDefinitions(cd, defs) ==
    LET b == cd.opts.backfill
    IN /\ b # Absent
       /\ b.target \in DOMAIN defs
       /\ cd.streams = defs[b.target].streams
       /\ ~HasCalculatedStreams(defs[b.target])
       /\ b.rows

ValidateHistoryBackfillTarget(cd, defs) ==
    LET b == cd.opts.backfill
    IN b # Absent /\ (b.target \in DOMAIN defs => defs[b.target].format # "backfill")

ValidateHistoryBackfillValues(cd, defs) ==
    LET b == cd.opts.backfill
    IN b # Absent /\ (b.target \in DOMAIN defs => b.values)

-----------------------------------------------------------------------------
(* Findings. Baseline findings belong to channels; an admission finding is *)
(* the set of the channels that it implicates.                             *)

WholeSetErr(defs) == Cardinality(DOMAIN defs) > MaxOutcomeChannelDefinitionsLength

(* The checks that end the analysis of a channel.                          *)
BadStreams(cd) == cd.streams = <<>> \/ Len(cd.streams) > MaxStreamsPerChannel

Examined(defs) == {c \in Live(defs) : ~BadStreams(defs[c])}

ChannelErrs(defs) ==
    {c \in Live(defs) :
        \/ BadStreams(defs[c])
        \/ \E s \in Elements(defs[c].streams) : s.aggregator = "zero"
        \/ VerifyErr(defs[c])
        \/ /\ defs[c].format = "backfill"
           /\ ~ValidateHistoryBackfillAgainstDefinitions(defs[c], defs)}

(* Findings about one definition.                                          *)
OwnFinding(defs, c, cd) ==
    \/ cd.opts.size > MaxChannelOptsBytes
    \/ cd.tombstone /\ Len(cd.streams) > MaxStreamsPerChannel
    \/ /\ ~cd.tombstone /\ ~BadStreams(cd)
       /\ \/ \E s \in Elements(cd.streams) : s.aggregator = "unknown"
          \/ CalculatedErr(cd) \/ AdmissionErr(cd)
          \/ Len(CalculatedStreamIDs(cd)) # Cardinality(Declares(cd))
          \/ cd.format = "backfill" /\ ~ValidateHistoryBackfillValues(cd, defs)

(* The pairs of a channel and the first one that claims the same thing.    *)
ClaimedTwice(S, Claims(_)) ==
    (UNION {{{c, Minimum({d \in S : x \in Claims(d)})} : x \in Claims(c)} : c \in S})
      \ {{c} : c \in S}

(* A stream that one channel declares and another, or the same, observes.  *)
DeclaredAndObserved(defs, S) ==
    {{Minimum({c \in S : x \in Declares(defs[c])}), Minimum({c \in S : x \in Observes(defs[c])})} :
        x \in UNION {Declares(defs[c]) : c \in S} \cap UNION {Observes(defs[c]) : c \in S}}

BackfillTargets(cd) == IF cd.opts.backfill = Absent THEN {} ELSE {cd.opts.backfill.target}

BadTarget(defs, cd) == cd.format = "backfill" /\ ~ValidateHistoryBackfillTarget(cd, defs)

FindingsAmong(defs, S) ==
    {{c} : c \in {d \in DOMAIN defs : OwnFinding(defs, d, defs[d])}}
    \cup ClaimedTwice(S, LAMBDA c : Declares(defs[c]))
    \cup ClaimedTwice(S, LAMBDA c : FeedIDs(defs[c]))
    \cup DeclaredAndObserved(defs, S)
    \cup {{c} \cup BackfillTargets(defs[c]) : c \in {d \in S : BadTarget(defs, defs[d])}}

AdmissionFindings(defs) == FindingsAmong(defs, Examined(defs))

UniqueStreamIDs(defs) ==
    UNION {{s.id : s \in {t \in Elements(defs[c].streams) : t.aggregator # "zero"}} :
             c \in Examined(defs)}

TooManyStreams(defs) == Cardinality(UniqueStreamIDs(defs)) > MaxObservationStreamValuesLength

-----------------------------------------------------------------------------
(* Verdicts.                                                               *)

(* The definitions of desired that current does not hold identically.      *)
ChangedChannelIDs(current, desired) ==
    {c \in DOMAIN desired : c \in DOMAIN current => current[c] # desired[c]}

(* verifyChannelDefinitions: no error.                                     *)
VerifyChannelDefinitions(defs, admitting) ==
    /\ ~WholeSetErr(defs)
    /\ ChannelErrs(defs) = {}
    /\ admitting # {} => /\ \A finding \in AdmissionFindings(defs) : finding \cap admitting = {}
                         /\ ~BudgetErr(defs)
    /\ ~TooManyStreams(defs)

(* The channels of admitting that a finding implicates, and whether a      *)
(* finding implicates none.                                                *)
Implicated(defs, admitting) ==
    admitting \cap (ChannelErrs(defs) \cup UNION AdmissionFindings(defs))

Verdict(defs, admitting, ids) ==
    [ids |-> ids,
     err |-> admitting # {} /\ (BudgetErr(defs) \/ (ids = {} /\ TooManyStreams(defs)))]

InadmissibleChannelIDs(defs, admitting) ==
    IF WholeSetErr(defs) THEN [ids |-> {}, err |-> TRUE]
    ELSE Verdict(defs, admitting, Implicated(defs, admitting))

(* The lowest channels of minuend that subtrahend does not hold.           *)
SubtractChannelDefinitions(minuend, subtrahend, limit) ==
    LET difference == DOMAIN minuend \ DOMAIN subtrahend
    IN {c \in difference : Cardinality({d \in difference : d < c}) < limit}

(* Reverting the inadmissible channels can expose another finding, and     *)
(* then nothing is admissible.                                             *)
Reverted(committed, expected, ids) ==
    [c \in (DOMAIN expected \ ids) \cup (ids \cap DOMAIN committed) |->
        IF c \in ids THEN committed[c] ELSE expected[c]]

Clear(verdict) == ~verdict.err /\ verdict.ids = {}

Reverify(committed, reverted) ==
    IF Clear(InadmissibleChannelIDs(reverted, ChangedChannelIDs(committed, reverted)))
    THEN reverted ELSE Absent

Withhold(committed, expected, verdict) ==
    IF verdict.err THEN Absent
    ELSE IF verdict.ids = {} THEN expected
    ELSE Reverify(committed, Reverted(committed, expected, verdict.ids))

(* What may be voted for of expected, or Absent.                           *)
AdmissibleChannelDefinitions(committed, expected) ==
    Withhold(committed, expected,
             InadmissibleChannelIDs(expected, ChangedChannelIDs(committed, expected)))
=============================================================================
