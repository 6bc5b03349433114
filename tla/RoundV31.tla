------------------------------ MODULE RoundV31 ------------------------------
(***************************************************************************)
(* One v31 round as an agreement among N oracles, F of which may be faulty *)
(* (llo/dev/v31/plugin.go, observation.go, statetransition.go): every      *)
(* honest oracle observes its own caches, a faulty one sends anything that *)
(* ValidateObservation lets through, the leader picks a quorum, and the    *)
(* state transition tallies it. The other v31 modules have the results of  *)
(* this tally as inputs.                                                   *)
(*                                                                         *)
(* A behaviour looks at one subject of the votes (round.subject); what     *)
(* belongs to the others keeps still.                                      *)
(***************************************************************************)
EXTENDS ChannelDefinitions

CONSTANTS
    N, F,
    MaxObservationRemoveChannelIDsLength,
    MaxObservationUpdateChannelDefinitionsLength,
    MaxUpdateBytes,           \* maxObservationUpdateChannelDefinitionsBytes
    MaxPredecessorSigners,    \* MaxObservationPredecessorSignersLength
    Files,                    \* the files that the owner publishes, in order
    Formats,                  \* report formats that oracles may gain or lose
    PredecessorConfigs,       \* configs that an observation may name, [signers, f]
    Reports,                  \* retirement reports that exist, [signedBy, version, map]
    MaxSupportedProtocolVersion,
    MaxClock

ASSUME RoundAssumption ==
    /\ N \in Nat /\ F \in Nat /\ N > 3 * F
    /\ MaxClock \in Nat

(* A file defines finitely many channels.                                  *)
ASSUME FilesAssumption ==
    /\ Len(Files) \in Nat /\ DOMAIN Files = 1 .. Len(Files)
    /\ \A i \in DOMAIN Files :
         /\ IsFiniteSet(DOMAIN Files[i]) /\ DOMAIN Files[i] \subseteq Nat
         /\ \A c \in DOMAIN Files[i] : IsChannelDefinition(Files[i][c])

VARIABLE round
(* round.subject    channels, formats, handover or time                    *)
(*      .defs       the committed definitions                              *)
(*      .support    what each oracle last advertised                       *)
(*      .stage      the lifecycle stage                                    *)
(*      .promoted   the watermarks adopted by a promotion, or Absent       *)
(*      .time       the agreed timestamp                                   *)
(*      .static     whether the definitions come from the static cache     *)
(*      .local      the caches of each honest oracle                       *)
(*      .published  how many files the owner has published                 *)
(*      .retireFlag the onchain flag of this instance                      *)
(*      .turn       changes with every round                               *)

Oracles == 1 .. N
Faulty == N - F + 1 .. N
Honest == Oracles \ Faulty

(* quorumhelper.QuorumByzQuorum.                                           *)
ByzQuorum == (N + F) \div 2 + 1

HasObservationQuorum(oracles) == Cardinality(oracles) >= ByzQuorum

-----------------------------------------------------------------------------
(* What an honest oracle observes.                                         *)

(* The onchain cache merges what it fetched into the committed set, and    *)
(* drops a committed tombstone that the file omits. The static cache       *)
(* returns its file as it is.                                              *)
Definitions(file, committed) ==
    LET reaped == {c \in DOMAIN committed : committed[c].tombstone /\ c \notin DOMAIN Files[file]}
    IN IF round.static THEN (IF file = 0 THEN NoDefinitions ELSE Files[file])
       ELSE IF file = 0 THEN committed
       ELSE Over(Files[file], [c \in DOMAIN committed \ reaped |-> committed[c]])

(* Mutant: any committed channel may be voted out.                         *)
AnyCommitted(committed) == committed

Removable(committed) ==
    [c \in {d \in DOMAIN committed : committed[d].tombstone} |-> committed[c]]

(* Mutant: unchanged channels use up the places of an observation.         *)
FirstVotes(committed, expected) ==
    [c \in {d \in ChangedChannelIDs(committed, expected) :
               Cardinality({e \in DOMAIN expected : e <= d})
                   <= MaxObservationUpdateChannelDefinitionsLength} |-> expected[c]]

(* The changes in channel order, as many as fit.                           *)
ChannelUpdateVotes(committed, expected) ==
    LET changed == ChangedChannelIDs(committed, expected)
        upTo(c) == {d \in changed : d <= c}
        fits(c) == /\ Cardinality(upTo(c)) <= MaxObservationUpdateChannelDefinitionsLength
                   /\ MapThenSumSet(LAMBDA d : expected[d].opts.size, upTo(c)) <= MaxUpdateBytes
    IN [c \in {d \in changed : fits(d)} |-> expected[c]]

UpdateVotes(committed, admissible) ==
    IF admissible = Absent THEN NoDefinitions ELSE ChannelUpdateVotes(committed, admissible)

VoteOnChannels(committed, expected) ==
    [remove |-> SubtractChannelDefinitions(Removable(committed), expected,
                    MaxObservationRemoveChannelIDsLength),
     update |-> UpdateVotes(committed, AdmissibleChannelDefinitions(committed, expected))]

ValidatePredecessorConfig(config) ==
    /\ Cardinality(config.signers) <= MaxPredecessorSigners
    /\ config.f > 0 => config.f < Cardinality(config.signers)

(* Only with a report, and only a config that peers accept.                *)
VoteOnPredecessorConfig(local) ==
    IF local.report = Absent \/ local.config = Absent THEN Absent
    ELSE IF local.config.signers # {} /\ ValidatePredecessorConfig(local.config) THEN local.config
    ELSE Absent

SupportedReportFormats(local) == local.formats

Observed(local, stage, votes) ==
    [attested |-> IF stage = "staging" THEN local.report ELSE Absent,
     config |-> IF stage = "staging" THEN VoteOnPredecessorConfig(local) ELSE Absent,
     shouldRetire |-> stage # "retired" /\ local.shouldRetire,
     remove |-> votes.remove, update |-> votes.update,
     time |-> local.clock, formats |-> SupportedReportFormats(local)]

NoVotes == [remove |-> {}, update |-> NoDefinitions]

(* A retired instance votes for nothing.                                   *)
Observation(o) ==
    Observed(round.local[o], round.stage,
             IF round.stage = "retired" THEN NoVotes
             ELSE VoteOnChannels(round.defs, Definitions(round.local[o].file, round.defs)))

-----------------------------------------------------------------------------
(* Which observations count.                                               *)

(* The limits of observationFromProto and the checks without key-value     *)
(* state.                                                                  *)
ObservationFromProto(obs) ==
    /\ Cardinality(DOMAIN obs.update) <= MaxObservationUpdateChannelDefinitionsLength
    /\ MapThenSumSet(LAMBDA c : obs.update[c].opts.size, DOMAIN obs.update) <= MaxUpdateBytes
    /\ Cardinality(obs.remove) <= MaxObservationRemoveChannelIDsLength
    /\ IF obs.config = Absent THEN TRUE
       ELSE obs.attested # Absent /\ ValidatePredecessorConfig(obs.config)

(* The set that an observation advocates, if it votes for an update.       *)
Advocated(committed, obs) ==
    IF obs.update = NoDefinitions THEN NoDefinitions
    ELSE Over(obs.update, [c \in DOMAIN committed \ obs.remove |-> committed[c]])

ValidateObservation(committed, obs) ==
    /\ ObservationFromProto(obs)
    /\ VerifyChannelDefinitions(Advocated(committed, obs), {})

-----------------------------------------------------------------------------
(* The tally of a quorum's observations, a function on its oracles.        *)

Voters(obs, Votes(_)) == Cardinality({o \in DOMAIN obs : Votes(obs[o])})

Attested(obs) == {obs[o].attested : o \in DOMAIN obs} \ {Absent}
Configs(obs) == {obs[o].config : o \in DOMAIN obs} \ {Absent}
Removed(obs) == UNION {obs[o].remove : o \in DOMAIN obs}
Updated(obs) ==
    UNION {{<<c, obs[o].update[c]>> : c \in DOMAIN obs[o].update} : o \in DOMAIN obs}

(* The advertisement of an oracle that took part replaces its last one.    *)
MergeCodecSupport(persisted, obs) ==
    [o \in Oracles |-> IF o \in DOMAIN obs THEN obs[o].formats ELSE persisted[o]]

CountSupportByFormat(support, format) == Cardinality({o \in Oracles : format \in support[o]})

(* Mutant: f+1 advertisements are enough.                                  *)
OneHonestEncoder(support, format) == CountSupportByFormat(support, format) > F

FormatIsEncodable(support, format) == CountSupportByFormat(support, format) >= 2 * F + 1

RemovalsOf(obs) ==
    {c \in Removed(obs) : Voters(obs, LAMBDA ob : c \in ob.remove) > F}

PassingUpdates(obs) ==
    {u \in Updated(obs) :
        Voters(obs, LAMBDA ob : u[1] \in DOMAIN ob.update /\ ob.update[u[1]] = u[2]) > F}

(* Removals, then the updates in channel order. A channel for which two    *)
(* definitions pass keeps the one it has; so does one whose change would   *)
(* exceed the cap or grow a total past its limit.                          *)
Upsert(defs, c, cd) ==
    IF c \notin DOMAIN defs /\ Cardinality(DOMAIN defs) >= MaxOutcomeChannelDefinitionsLength
    THEN defs ELSE Replace(defs, c, cd)

Uncontested(passing) == {u \in passing : \A v \in passing : v[1] = u[1] => v = u}

ApplyChannelVotes(defs, removals, passing) ==
    LET last(updates) == CHOOSE u \in updates : \A v \in updates : v[1] <= u[1]
    IN MapThenFoldSet(LAMBDA u, ds : Upsert(ds, u[1], u[2]),
                      [c \in DOMAIN defs \ removals |-> defs[c]],
                      LAMBDA u : u, last, Uncontested(passing))

(* Mutant: as many votes as there are faulty oracles elect a config.       *)
FElect(obs) ==
    LET elected == {pc \in Configs(obs) : Voters(obs, LAMBDA ob : ob.config = pc) >= F}
    IN IF elected = {} THEN Absent ELSE CHOOSE pc \in elected : TRUE

(* Mutant: every oracle of a quorum has to vote for the config.            *)
AllElect(obs) ==
    LET elected == {pc \in Configs(obs) : Voters(obs, LAMBDA ob : ob.config = pc) > 2 * F}
    IN IF elected = {} THEN Absent ELSE CHOOSE pc \in elected : TRUE

(* The config with more than f votes. The hash order that breaks a tie is  *)
(* left open.                                                              *)
ElectPredecessorConfig(obs) ==
    LET elected == {pc \in Configs(obs) : Voters(obs, LAMBDA ob : ob.config = pc) > F}
    IN IF elected = {} THEN Absent ELSE CHOOSE pc \in elected : TRUE

(* A report has the keys that signed it; a key counts by its index in the  *)
(* config, once.                                                           *)
VerifyAttestedRetirementReport(config, report) ==
    Cardinality(report.signedBy \cap config.signers) > config.f

CheckCompatible(report) == report.version <= MaxSupportedProtocolVersion

Contents(agreed, reports) ==
    {[version |-> r.version, map |-> r.map] :
        r \in {q \in reports : VerifyAttestedRetirementReport(agreed, q) /\ CheckCompatible(q)}}

(* The watermarks of the valid reports, Absent when they disagree.         *)
Chosen(contents) ==
    IF Cardinality(contents) = 1 THEN (CHOOSE c \in contents : TRUE).map ELSE Absent

Resolve(agreed, obs) ==
    IF agreed = Absent THEN Absent ELSE Chosen(Contents(agreed, Attested(obs)))

ResolvePredecessorRetirement(stage, obs) ==
    IF stage # "staging" THEN Absent ELSE Resolve(ElectPredecessorConfig(obs), obs)

(* Mutant: the rank is one too high.                                       *)
UpperRank(obs) ==
    LET before(t) == Voters(obs, LAMBDA ob : ob.time < t)
        n == Cardinality(DOMAIN obs)
    IN Maximum({t \in {obs[o].time : o \in DOMAIN obs} : before(t) <= n \div 2 + 1})

(* Rank n/2 of the sorted timestamps, counted from zero.                   *)
MedianTimestamp(obs) ==
    LET before(t) == Voters(obs, LAMBDA ob : ob.time < t)
        n == Cardinality(DOMAIN obs)
    IN Maximum({t \in {obs[o].time : o \in DOMAIN obs} : before(t) <= n \div 2})

AgreedObservationTimestamp(median, prev) == Maximum({median, prev})

(* What the observations add up to.                                        *)
Tally(obs) ==
    [removals |-> RemovalsOf(obs), passing |-> PassingUpdates(obs),
     retirement |-> ResolvePredecessorRetirement(round.stage, obs),
     shouldRetire |-> Voters(obs, LAMBDA ob : ob.shouldRetire) > F,
     support |-> MergeCodecSupport(round.support, obs),
     median |-> MedianTimestamp(obs)]

-----------------------------------------------------------------------------
(* The round: the leader picks a quorum of valid observations.             *)

(* What a faulty oracle may send about the subject; the rest is as in an   *)
(* observation without votes.                                              *)
About(subject, values, otherwise) == IF round.subject = subject THEN values ELSE {otherwise}

FaultyObservations ==
    LET parts(file) == {[c \in S |-> file[c]] : S \in SUBSET DOMAIN file}
    IN [attested : About("handover", Reports \cup {Absent}, Absent),
        config : About("handover", PredecessorConfigs \cup {Absent}, Absent),
        shouldRetire : About("handover", {TRUE}, FALSE),
        remove : About("channels", {{}, DOMAIN round.defs}, {}),
        update : About("channels", UNION {parts(f) : f \in Elements(Files)}, NoDefinitions),
        time : About("time", {0, MaxClock + 1}, 0),
        formats : About("formats", SUBSET Formats, {})]

(* Retiring can follow promotion in the same round. A retired instance     *)
(* changes no definitions.                                                 *)
Promote(stage, adopted) == IF stage = "staging" /\ adopted # Absent THEN "production" ELSE stage

Retire(stage, voted) == IF stage = "production" /\ voted THEN "retired" ELSE stage

AfterTransition(tally, stage) ==
    [round EXCEPT
       !.stage = stage,
       !.promoted = IF tally.retirement # Absent THEN tally.retirement ELSE @,
       !.defs = IF stage = "retired" THEN @ ELSE ApplyChannelVotes(@, tally.removals, tally.passing),
       !.support = tally.support,
       !.time = AgreedObservationTimestamp(tally.median, @),
       !.turn = ~@]

Accepted(sent) == {ob \in sent : ValidateObservation(round.defs, ob)}

(* The honest oracles' own observations, as far as they are valid.         *)
AcceptedHonest ==
    {ao \in {[observer |-> o, observation |-> Observation(o)] : o \in Honest} :
        ValidateObservation(round.defs, ao.observation)}

(* What the leader may pick: a quorum, with any observations of its faulty *)
(* oracles.                                                                *)
AttributedObservations(faulty, honest) ==
    UNION {{[o \in Q |-> IF o \in Faulty THEN sent[o]
                         ELSE (CHOOSE ao \in honest : ao.observer = o).observation] :
               sent \in [Q \cap Faulty -> faulty]} :
           Q \in {S \in SUBSET (Faulty \cup {ao.observer : ao \in honest}) : HasObservationQuorum(S)}}

Tallies(attributed) == {Tally(obs) : obs \in attributed}

StateTransition ==
    \E faulty \in {Accepted(FaultyObservations)}, honest \in {AcceptedHonest} :
    \E tally \in Tallies(AttributedObservations(faulty, honest)) :
        round' = AfterTransition(tally, Retire(Promote(round.stage, tally.retirement), tally.shouldRetire))

-----------------------------------------------------------------------------
(* The surroundings: what the honest oracles' caches come to hold.         *)

(* The owner publishes the next file; a poll reads the latest one.         *)
Publish ==
    /\ round.subject = "channels" /\ round.published < Len(Files)
    /\ round' = [round EXCEPT !.published = @ + 1]

Fetch(o) ==
    /\ round.subject = "channels" /\ round.local[o].file < round.published
    /\ round' = [round EXCEPT !.local[o].file = round.published]

(* The oracle restarts with a build that has one codec more.               *)
Upgrade(o) ==
    /\ round.subject = "formats"
    /\ \E f \in Formats \ round.local[o].formats :
         round' = [round EXCEPT !.local[o].formats = @ \cup {f}]

Genuine == [signers |-> {"p1", "p2", "p3", "p4"}, f |-> 1]

(* The config poller stores the config, the predecessor's transmitter a    *)
(* report with enough signatures.                                          *)
StoreConfig(o) ==
    /\ round.subject = "handover" /\ round.local[o].config = Absent
    /\ round' = [round EXCEPT !.local[o].config = Genuine]

StoreReport(o) ==
    /\ round.subject = "handover" /\ round.local[o].report = Absent
    /\ \E r \in {q \in Reports : VerifyAttestedRetirementReport(Genuine, q)} :
         round' = [round EXCEPT !.local[o].report = r]

(* The flag of this instance is set onchain; each oracle reads it later.   *)
SetRetireFlag ==
    /\ round.subject = "handover" /\ ~round.retireFlag
    /\ round' = [round EXCEPT !.retireFlag = TRUE]

ReadRetireFlag(o) ==
    /\ round.retireFlag /\ ~round.local[o].shouldRetire
    /\ round' = [round EXCEPT !.local[o].shouldRetire = TRUE]

(* Honest clocks go at any pace, and back as well.                         *)
SetClock(o) ==
    /\ round.subject = "time"
    /\ \E t \in 0 .. MaxClock : round' = [round EXCEPT !.local[o].clock = t]

-----------------------------------------------------------------------------
RoundInit(subject, static) ==
    round = [subject |-> subject, static |-> static, defs |-> NoDefinitions, support |-> [o \in Oracles |-> {}],
             stage |-> IF subject = "handover" THEN "staging" ELSE "production",
             promoted |-> Absent, time |-> 0, turn |-> FALSE, published |-> 0, retireFlag |-> FALSE,
             local |-> [o \in Honest |-> [file |-> 0, report |-> Absent, config |-> Absent,
                                          shouldRetire |-> FALSE, clock |-> 0, formats |-> {}]]]

Subjects == {"channels", "handover", "formats", "time"}

RoundNext ==
    /\ round # Absent
    /\ \/ StateTransition \/ Publish \/ SetRetireFlag
       \/ \E o \in Honest :
            Fetch(o) \/ Upgrade(o) \/ StoreConfig(o) \/ StoreReport(o) \/ ReadRetireFlag(o) \/ SetClock(o)

RoundSpec ==
    /\ \E subject \in Subjects, static \in BOOLEAN : RoundInit(subject, static)
    /\ [][RoundNext]_round

(* Rounds go on, and every honest oracle polls. A round is always possible *)
(* as long as the honest oracles' observations are valid.                  *)
RoundFairness ==
    /\ \A turn \in BOOLEAN : []<>(round # Absent => round.turn = turn)
    /\ \A o \in Honest : WF_round(round # Absent /\ Fetch(o))

-----------------------------------------------------------------------------
(* A live channel stays committed: whatever the faulty oracles vote and    *)
(* however far the honest caches lag, only a channel that the oracles have *)
(* agreed to be a tombstone is ever removed (voteOnChannels,               *)
(* applyChannelVotes).                                                     *)
LiveNeverVanishes ==
    [][round # Absent => Live(round.defs) \subseteq DOMAIN round'.defs]_round

(* No stream gets its value from two places, and no total is past its      *)
(* limit, although every oracle admits definitions against its own desired *)
(* set and the votes for different files combine (ChannelDefinitionsBudget *)
(* in applyChannelVotes).                                                  *)
MergedSetWithinBudget ==
    round # Absent => \A t \in DOMAIN Limits : Totals(round.defs)[t] <= Limits[t]

(* The committed set comes to agree with the last file, and stays: every   *)
(* channel that it defines, tombstones included, and every tombstone that  *)
(* it omits reaped. The faulty oracles cannot keep the votes turning.      *)
AgreesWithFile ==
    LET file == Files[round.published]
    IN round.published > 0 =>
        /\ \A c \in DOMAIN file : c \in DOMAIN round.defs /\ round.defs[c] = file[c]
        /\ \A c \in DOMAIN round.defs \ DOMAIN file : ~round.defs[c].tombstone

ChannelsConverge == <>[](round # Absent /\ round.subject = "channels" => AgreesWithFile)

(* A promotion adopts the watermarks that the predecessor's honest oracles *)
(* signed, and an instance retires only if its flag is set onchain         *)
(* (electPredecessorConfig, resolvePredecessorRetirement, StateTransition).*)
LifecycleIsGenuine ==
    round # Absent =>
        /\ round.promoted \in {Absent} \cup
               {r.map : r \in {q \in Reports : VerifyAttestedRetirementReport(Genuine, q)}}
        /\ round.stage = "retired" => round.retireFlag

(* Once every honest oracle has the config and a report, the instance is   *)
(* promoted, whatever quorum the leaders pick and whatever the faulty      *)
(* oracles add.                                                            *)
HandoverCompletes ==
    (/\ round # Absent /\ round.subject = "handover"
     /\ \A o \in Honest : round.local[o].config # Absent /\ round.local[o].report # Absent)
        ~> (round # Absent /\ round.stage # "staging")

(* A format that counts as encodable can be encoded by f+1 honest oracles  *)
(* at least, so that its reports can be attested (mergeCodecSupport), as   *)
(* long as no oracle loses a codec.                                        *)
EncodersAlive ==
    round # Absent =>
        \A f \in Formats : FormatIsEncodable(round.support, f) =>
            Cardinality({o \in Honest : f \in round.local[o].formats}) > F

(* The agreed time never goes back, and goes forward only to a time that   *)
(* an honest clock has reached (agreedObservationTimestamp).               *)
TimeIsHonest ==
    [][round # Absent /\ round'.time # round.time =>
          /\ round'.time > round.time
          /\ \E o \in Honest : round.local[o].clock >= round'.time]_round

(* "the honest oracles alone always reach" the quorum (ObservationQuorum): *)
(* what they observe passes their own validation.                          *)
HonestReachQuorum ==
    HasObservationQuorum({o \in Honest : ValidateObservation(round.defs, Observation(o))})
=============================================================================
