--------------------------- MODULE MercuryPlugins ---------------------------
(***************************************************************************)
(* The single-feed Mercury plugins v1 to v4 (mercury/v1 .. v4): what an    *)
(* oracle observes, what a round makes of the observations, and how a new  *)
(* protocol instance finds where the last one ended by asking the servers. *)
(* v1 ranges over block numbers, the others over seconds.                  *)
(*                                                                         *)
(* Observe, parse and report are one step per round; what an oracle read   *)
(* from a server may be one report behind. Prices and fees are small       *)
(* integers, a value that is missing or could not be encoded is Absent.    *)
(***************************************************************************)
EXTENDS Common

CONSTANTS
    FeedF,               \* the oracles are 1 .. 3 * FeedF + 1, the last FeedF of them faulty
    MaxHead,             \* bound on the clock, and on the height of the chain
    MaxUint32,
    MaxInt192,
    ExpirationWindow,
    BaseUSDFee,
    PriceMin, PriceMax,  \* the onchain configuration
    MaxAllowedBlocks

ASSUME FeedAssumption ==
    /\ FeedF = 1      \* the rounds below are spelt out for one faulty oracle
    /\ {MaxHead, MaxUint32, MaxInt192, ExpirationWindow, BaseUSDFee,
        MaxAllowedBlocks} \subseteq Nat
    /\ PriceMin \in Int /\ PriceMax \in Int /\ PriceMin <= PriceMax

VARIABLE feed
(* feed.version   1 .. 4                                                   *)
(*     .varies    what the rounds vary: "range" or "prices"                *)
(*     .head      the block or the second that the world has reached       *)
(*     .report    the last report of the instance, Absent before its first *)
(*     .ends      the ends of all reports signed so far                    *)
(*     .servers   for each server, the end of the latest report it has now *)
(*                and of the one before; -1 for none                       *)
(*     .witness   what honest oracles saw in the last round                *)

FeedOracles == 1 .. 3 * FeedF + 1
Servers == {1, 2}

-----------------------------------------------------------------------------
(* Values and fees.                                                        *)

EncodeValueInt192(i) ==
    IF i # Absent /\ i \in -MaxInt192 - 1 .. MaxInt192 THEN i ELSE Absent

CalculateFee(price) ==
    IF price = 0 \/ BaseUSDFee = 0 THEN 0 ELSE BaseUSDFee \div price

MissingPrice == -1

(* The fee observed for a token price: the largest one when there is no    *)
(* price, nothing when the source failed or the fee does not fit.          *)
ObservedFee(price) ==
    IF price = Absent THEN Absent
    ELSE IF price <= MissingPrice THEN MaxInt192
    ELSE EncodeValueInt192(CalculateFee(price))

ValidatePrices(p) == p.bid <= p.mid /\ p.mid <= p.ask

(* All three prices are encoded, or the observation has none.              *)
EncodePrices(p) ==
    IF p # Absent /\ \A field \in {"bid", "mid", "ask"} : EncodeValueInt192(p[field]) # Absent
    THEN p ELSE Absent

-----------------------------------------------------------------------------
(* transmitter.latestReport asks all servers and takes the latest report   *)
(* of those that answer. It fails only when none does.                     *)

SortReportsLatestFirst(answers) == Maximum(answers)

LatestReport(answers) ==
    IF answers = {} THEN Absent ELSE SortReportsLatestFirst(answers)

(* What the data source can return for the end of the last report.         *)
LatestEnds ==
    LET Answers(s) == {{}, {feed.servers[s].now}, {feed.servers[s].before}}
    IN {LatestReport(a \cup b) : a \in Answers(1), b \in Answers(2)}

-----------------------------------------------------------------------------
(* The four Observation methods, from what the data source returned.       *)

ObservationV1(r, previous) ==
    [ts        |-> r.ts,
     prices    |-> EncodePrices(r.prices),
     finalized |-> IF \/ previous # Absent
                      \/ r.finalized = Absent
                      \/ r.current # Absent /\ r.current.num < r.finalized
                   THEN Absent ELSE r.finalized,
     link      |-> Absent, native |-> Absent, status |-> Absent,
     latest    |-> r.latest,
     current   |-> r.current]

ObservationV2(r) ==
    [ts        |-> r.ts,
     prices    |-> IF r.prices # Absent /\ EncodeValueInt192(r.prices.mid) # Absent
                   THEN r.prices ELSE Absent,
     finalized |-> r.finalized,
     link      |-> ObservedFee(r.link),
     native    |-> ObservedFee(r.native),
     status    |-> Absent, latest |-> <<>>, current |-> Absent]

ObservationV3(r) ==
    [ObservationV2(r) EXCEPT
        !.prices = IF EncodePrices(r.prices) # Absent /\ ValidatePrices(r.prices)
                   THEN r.prices ELSE Absent]

ObservationV4(r) == [ObservationV2(r) EXCEPT !.status = r.status]

FeedObservation(r) ==
    CASE feed.version = 1 -> ObservationV1(r, feed.report)
      [] feed.version = 2 -> ObservationV2(r)
      [] feed.version = 3 -> ObservationV3(r)
      [] feed.version = 4 -> ObservationV4(r)

-----------------------------------------------------------------------------
(* parseAttributedObservation: which observations are kept.                *)

Decodes(o) ==
    /\ EncodePrices(o.prices) = o.prices
    /\ \A fee \in {o.link, o.native} \ {Absent} : EncodeValueInt192(fee) = fee

ShortHash == -1      \* stands for a hash of the wrong length

WellFormed(block) == block.hash # ShortHash /\ block.num >= 0

ParseAttributedObservationV1(o) ==
    /\ Decodes(o)
    /\ Len(o.latest) <= MaxAllowedBlocks
    /\ \A i \in DOMAIN o.latest :
           /\ WellFormed(o.latest[i])
           /\ \A j \in DOMAIN o.latest \ {i} :
                  o.latest[i].num # o.latest[j].num /\ o.latest[i].hash # o.latest[j].hash
    /\ o.latest = <<>> /\ o.current # Absent => WellFormed(o.current)

ParseAttributedObservationV2(o) == Decodes(o)

ParseAttributedObservationV3(o) ==
    Decodes(o) /\ (o.prices # Absent => ValidatePrices(o.prices))

ParseAttributedObservationV4(o) == Decodes(o)

ParseAttributedObservations(aos) ==
    LET Keeps(o) ==
            CASE feed.version = 1 -> ParseAttributedObservationV1(o)
              [] feed.version = 2 -> ParseAttributedObservationV2(o)
              [] feed.version = 3 -> ParseAttributedObservationV3(o)
              [] feed.version = 4 -> ParseAttributedObservationV4(o)
    IN SelectSeq(aos, Keeps)

-----------------------------------------------------------------------------
(* The aggregate functions. A list is sorted and the element at half its   *)
(* length taken.                                                           *)

Middle(s) ==
    CHOOSE v \in Elements(s) :
        /\ Cardinality({i \in DOMAIN s : s[i] < v}) <= Len(s) \div 2
        /\ Cardinality({i \in DOMAIN s : s[i] <= v}) > Len(s) \div 2

(* The median of the valid values, if f + 1 oracles have one.              *)
MiddleOfValid(values) ==
    LET IsPresent(v) == v # Absent
        valid == SelectSeq(values, IsPresent)
    IN IF Len(valid) < FeedF + 1 THEN Absent ELSE Middle(valid)

PriceField(paos, field) ==
    [i \in DOMAIN paos |-> IF paos[i].prices = Absent THEN Absent ELSE paos[i].prices[field]]

GetConsensusTimestamp(paos) == Middle([i \in DOMAIN paos |-> paos[i].ts])

GetConsensusBenchmarkPrice(paos) == MiddleOfValid(PriceField(paos, "mid"))

GetConsensusBid(paos) == MiddleOfValid(PriceField(paos, "bid"))

GetConsensusAsk(paos) == MiddleOfValid(PriceField(paos, "ask"))

(* Without f + 1 valid fees the report is free.                            *)
FeeOrZero(fees) ==
    LET Charged(fee) == IF fee # Absent /\ fee >= 0 THEN fee ELSE Absent
        fee == MiddleOfValid([i \in DOMAIN fees |-> Charged(fees[i])])
    IN IF fee = Absent THEN 0 ELSE fee

GetConsensusLinkFee(paos) == FeeOrZero([i \in DOMAIN paos |-> paos[i].link])

GetConsensusNativeFee(paos) == FeeOrZero([i \in DOMAIN paos |-> paos[i].native])

EndVotes(paos, end) == Cardinality({i \in DOMAIN paos : paos[i].finalized = end})

EndsObserved(paos) == {paos[i].finalized : i \in DOMAIN paos} \ {Absent}

(* The highest timestamp with more than f votes.                           *)
GetConsensusMaxFinalizedTimestamp(paos) ==
    LET agreed == {end \in EndsObserved(paos) : EndVotes(paos, end) > FeedF /\ end > -2}
    IN IF agreed = {} THEN Absent ELSE Maximum(agreed)

(* The most common block number with at least f + 1 votes, the lower one   *)
(* in a tie.                                                               *)
GetConsensusMaxFinalizedBlockNum(paos) ==
    LET agreed == {end \in EndsObserved(paos) :
                      /\ EndVotes(paos, end) >= FeedF + 1
                      /\ \A other \in EndsObserved(paos) :
                             EndVotes(paos, other) <= EndVotes(paos, end)}
    IN IF agreed = {} THEN Absent ELSE Minimum(agreed)

(* The blocks of an observation; the current block of a node without       *)
(* LatestBlocks.                                                           *)
BlocksOf(o) ==
    IF o.latest # <<>> THEN Elements(o.latest)
    ELSE IF o.current # Absent THEN {o.current} ELSE {}

BlockVotes(paos, b) == Cardinality({i \in DOMAIN paos : b \in BlocksOf(paos[i])})

(* Mutant: any block that an oracle observed is taken.                     *)
HighestBlock(paos) ==
    LET seen == UNION {BlocksOf(paos[i]) : i \in DOMAIN paos}
    IN IF seen = {} THEN Absent ELSE CHOOSE b \in seen : \A c \in seen : c.num <= b.num

(* The block with the highest number on which f + 1 oracles agree, with    *)
(* the most votes at that number; Less breaks a tie.                       *)
GetConsensusLatestBlock(paos) ==
    LET seen   == UNION {BlocksOf(paos[i]) : i \in DOMAIN paos}
        agreed == {b \in seen : BlockVotes(paos, b) >= FeedF + 1}
        top    == {b \in agreed : \A c \in agreed : c.num <= b.num}
        usable == {b \in top : \A c \in top : BlockVotes(paos, c) <= BlockVotes(paos, b)}
    IN IF agreed = {} THEN Absent
       ELSE CHOOSE b \in usable : \A c \in usable : c.hash <= b.hash

(* The most common market status with at least f + 1 votes, the smaller    *)
(* one in a tie.                                                           *)
GetConsensusMarketStatus(paos) ==
    LET statuses == {paos[i].status : i \in DOMAIN paos} \ {Absent}
        Votes(s) == Cardinality({i \in DOMAIN paos : paos[i].status = s})
        common   == {s \in statuses : \A t \in statuses : Votes(t) <= Votes(s)}
    IN IF common = {} \/ Votes(Minimum(common)) < FeedF + 1 THEN Absent ELSE Minimum(common)

-----------------------------------------------------------------------------
(* buildReportFields. Absent when a part of it failed.                     *)

Fields(start, end, paos, bid, ask, status, hash) ==
    [from |-> start, to |-> end, mid |-> GetConsensusBenchmarkPrice(paos),
     bid |-> bid, ask |-> ask, link |-> GetConsensusLinkFee(paos),
     native |-> GetConsensusNativeFee(paos), status |-> status, hash |-> hash]

BuildReportFieldsV1(previous, paos) ==
    LET finalized == IF previous # Absent THEN previous.to
                     ELSE GetConsensusMaxFinalizedBlockNum(paos)
        block     == GetConsensusLatestBlock(paos)
    IN IF finalized = Absent \/ block = Absent \/ GetConsensusBenchmarkPrice(paos) = Absent
       THEN Absent
       ELSE Fields(finalized + 1, block.num, paos, GetConsensusBid(paos),
                   GetConsensusAsk(paos), Absent, block.hash)

(* The start of a range of seconds: after the previous report, in uint32;  *)
(* after the agreed end; at the end itself for a feed without a report.    *)
ValidFromTimestamp(previous, end, agreed) ==
    IF previous # Absent THEN (previous.to + 1) % (MaxUint32 + 1)
    ELSE IF agreed = Absent \/ agreed + 1 > MaxUint32 THEN Absent
    ELSE IF agreed < 0 THEN end
    ELSE agreed + 1

BuildReportFieldsV2(previous, paos) ==
    LET end   == GetConsensusTimestamp(paos)
        start == ValidFromTimestamp(previous, end, GetConsensusMaxFinalizedTimestamp(paos))
    IN IF \/ start = Absent
          \/ GetConsensusBenchmarkPrice(paos) = Absent
          \/ end + ExpirationWindow > MaxUint32
       THEN Absent
       ELSE Fields(start, end, paos, Absent, Absent, Absent, Absent)

BuildReportFieldsV3(previous, paos) ==
    LET rf == BuildReportFieldsV2(previous, paos)
    IN IF rf = Absent THEN Absent
       ELSE [rf EXCEPT !.bid = GetConsensusBid(paos), !.ask = GetConsensusAsk(paos)]

BuildReportFieldsV4(previous, paos) ==
    LET rf     == BuildReportFieldsV2(previous, paos)
        status == GetConsensusMarketStatus(paos)
    IN IF rf = Absent \/ status = Absent THEN Absent ELSE [rf EXCEPT !.status = status]

-----------------------------------------------------------------------------
(* validateReport and BuildReport.                                         *)

ValidateBetween(value, low, high) == value # Absent /\ low <= value /\ value <= high

ValidateFee(fee) == ValidateBetween(fee, 0, MaxInt192)

ValidateCurrentBlock(rf) ==
    rf.from >= 0 /\ rf.to >= 0 /\ rf.from <= rf.to /\ rf.hash # ShortHash

ValidateReportV1(rf) ==
    /\ \A price \in {rf.mid, rf.bid, rf.ask} : ValidateBetween(price, PriceMin, PriceMax)
    /\ ValidateCurrentBlock(rf)

ValidateReportV2(rf) ==
    /\ ValidateBetween(rf.mid, PriceMin, PriceMax)
    /\ ValidateFee(rf.link) /\ ValidateFee(rf.native)
    /\ rf.from <= rf.to

ValidateReportV3(rf) ==
    /\ ValidateReportV2(rf)
    /\ ValidateBetween(rf.bid, PriceMin, rf.mid)
    /\ ValidateBetween(rf.ask, rf.mid, PriceMax)

ValidateReportV4(rf) == ValidateReportV2(rf)

BuildReportV2(rf) == rf.mid # Absent /\ rf.link >= 0 /\ rf.native >= 0

BuildReportV3(rf) == BuildReportV2(rf) /\ rf.bid # Absent /\ rf.ask # Absent

BuildReportV4(rf) == BuildReportV2(rf)

(* Report: at least f + 1 observations, all fields, a range that is not    *)
(* empty, valid values.                                                    *)
ReportIf(valid, rf) == IF rf # Absent /\ rf.from <= rf.to /\ valid THEN rf ELSE Absent

ReportV1(previous, paos) ==
    LET rf == BuildReportFieldsV1(previous, paos)
    IN ReportIf(rf # Absent /\ ValidateReportV1(rf), rf)

ReportV2(previous, paos) ==
    LET rf == BuildReportFieldsV2(previous, paos)
    IN ReportIf(rf # Absent /\ ValidateReportV2(rf) /\ BuildReportV2(rf), rf)

ReportV3(previous, paos) ==
    LET rf == BuildReportFieldsV3(previous, paos)
    IN ReportIf(rf # Absent /\ ValidateReportV3(rf) /\ BuildReportV3(rf), rf)

ReportV4(previous, paos) ==
    LET rf == BuildReportFieldsV4(previous, paos)
    IN ReportIf(rf # Absent /\ ValidateReportV4(rf) /\ BuildReportV4(rf), rf)

FeedReport(previous, paos) ==
    CASE Len(paos) < FeedF + 1 -> Absent
      [] feed.version = 1 -> ReportV1(previous, paos)
      [] feed.version = 2 -> ReportV2(previous, paos)
      [] feed.version = 3 -> ReportV3(previous, paos)
      [] feed.version = 4 -> ReportV4(previous, paos)

-----------------------------------------------------------------------------
(* What the data sources of honest oracles return. A node sees the head of *)
(* the chain or the block before it, where two blocks may compete at the   *)
(* head; a clock may be a second slow.                                     *)

(* Block n of fork 0 or 1.                                                 *)
Block(n, fork) == [num |-> n, hash |-> 2 * n + fork]

(* What a node at block n of a fork observes: that block and its parent.   *)
Chain(n, fork) == IF n = 0 THEN <<Block(0, 0)>> ELSE <<Block(n, fork), Block(n - 1, 0)>>

PlainPrices == [bid |-> 1, mid |-> 1, ask |-> 1]

Reading(t, prices, finalized, token, status, latest) ==
    [ts |-> t, prices |-> prices, finalized |-> finalized, link |-> token, native |-> token,
     status |-> status, latest |-> latest, current |-> IF latest = <<>> THEN Absent ELSE latest[1]]

(* The readings of a round, listed. Where the last report ended is varied  *)
(* apart from the head, as Report treats the two apart.                    *)
RangeReadings(ends) ==
    LET IsRead(end)   == end \in ends
        read          == SelectSeq([i \in 1 .. MaxHead + 2 |-> i - 2], IsRead)
        last          == IF read = <<>> THEN Absent ELSE read[1]
        before        == Maximum({0, feed.head - 1})
        At(n, fork, end) ==
            IF feed.version = 1
            THEN Reading(0, PlainPrices, end, Absent, Absent, Chain(n, fork))
            ELSE Reading(n, PlainPrices, end, 1, 1, <<>>)
    IN [i \in DOMAIN read |-> At(feed.head, 0, read[i])]
       \o <<At(feed.head, 0, Absent), At(feed.head, 1, last), At(before, 0, last), At(before, 1, last)>>

PriceReadings ==
    LET latest == IF feed.version = 1 THEN Chain(0, 0) ELSE <<>>
        Priced(bid, mid, ask) ==
            Reading(0, [bid |-> bid, mid |-> mid, ask |-> ask], -1, 1, 1, latest)
    IN <<Priced(1, 2, 3), Priced(2, 2, 2), Priced(3, 2, 1),
         Reading(0, Absent, -1, Absent, 2, latest),
         Reading(0, PlainPrices, -1, -1, 2, latest),
         Reading(0, PlainPrices, -1, 0, Absent, latest)>>

(* A faulty oracle sends anything.                                         *)
FaultyFeedObservations ==
    LET base == [ts |-> 0, prices |-> PlainPrices, finalized |-> Absent, link |-> Absent,
                 native |-> Absent, status |-> 2, latest |-> Chain(0, 0), current |-> Absent]
        far  == MaxHead + 1
    IN IF feed.varies = "range"
       THEN {[base EXCEPT !.ts = t, !.finalized = t, !.latest = Chain(n, 1)] :
                 t \in {0, far}, n \in {feed.head, far}}
            \cup {[base EXCEPT !.latest = <<Block(far, 0), Block(far, 1)>>],
                  [base EXCEPT !.latest = <<>>, !.current = Block(far, 0)]}
       ELSE {[base EXCEPT !.prices = [bid |-> p[1], mid |-> p[2], ask |-> p[3]], !.link = p[1],
                          !.native = p[1]] :
                 p \in {<<0, 0, 9>>, <<9, 9, 9>>, <<9, 0, 0>>, <<-1, 2, 2>>}}

-----------------------------------------------------------------------------
FeedInit(version, varies) ==
    feed = [version |-> version, varies |-> varies, head |-> 0, report |-> Absent, ends |-> {},
            servers |-> [s \in Servers |-> [now |-> -1, before |-> -1]], witness |-> Absent]

(* What the honest observations attest to.                                 *)
Attests(seen) ==
    [blocks   |-> UNION {BlocksOf(seen[i]) : i \in DOMAIN seen},
     times    |-> {seen[i].ts : i \in DOMAIN seen},
     statuses |-> {seen[i].status : i \in DOMAIN seen},
     mids     |-> IF \E i \in DOMAIN seen : seen[i].prices = Absent THEN Absent
                  ELSE {seen[i].prices.mid : i \in DOMAIN seen}]

(* A round: a quorum of oracles observes and reports.                      *)
Conclude(seen, report) ==
    /\ report # Absent
    /\ feed' = [feed EXCEPT !.report = report, !.ends = @ \cup {report.to},
                            !.witness = Attests(seen)]

ReportOn(seen, lies) ==
    Conclude(seen, FeedReport(feed.report, ParseAttributedObservations(seen \o lies)))

(* Two or three honest oracles and at most one faulty one; all four only   *)
(* where the prices vary.                                                  *)
FeedRoundOf(observations, lies) ==
    \E i \in DOMAIN observations : \E j \in i .. Len(observations) :
        \/ \E lie \in lies : ReportOn(<<observations[i], observations[j]>>, <<lie>>)
        \/ \E k \in j .. Len(observations) :
              \E lie \in {<<>>} \cup IF feed.varies = "range" THEN {} ELSE {<<o>> : o \in lies} :
                  ReportOn(<<observations[i], observations[j], observations[k]>>, lie)

FeedRound ==
    LET readings == IF feed.varies = "range"
                    THEN RangeReadings(IF feed.report = Absent THEN LatestEnds ELSE {})
                    ELSE PriceReadings
    IN /\ feed.witness = Absent
       /\ FeedRoundOf([i \in DOMAIN readings |-> FeedObservation(readings[i])], FaultyFeedObservations)

(* The round is over, and what it was based on is forgotten.               *)
FeedRoundEnds ==
    feed.witness # Absent /\ feed' = [feed EXCEPT !.witness = Absent]

(* A server verifies the signatures of a report (verifier.Verify): f + 1   *)
(* of them, all from oracles of the configuration, no two from the same.   *)
Verify(signers) ==
    /\ Len(signers) = FeedF + 1
    /\ \A i \in DOMAIN signers : signers[i] \in FeedOracles
    /\ \A i, j \in DOMAIN signers : i # j => signers[i] # signers[j]

(* A server takes a report with its signatures: one that a quorum signed,  *)
(* in any order and any number of times, or one that faulty oracles made   *)
(* up.                                                                     *)
Serve(s) ==
    /\ feed.witness = Absent
    /\ \E delivery \in {[end |-> end, signers |-> [i \in 1 .. FeedF + 1 |-> i]] : end \in feed.ends}
                        \cup {[end |-> MaxHead + 1, signers |-> signers] :
                                  signers \in {<<4>>, <<4, 4>>, <<4, 5>>}} :
           /\ Verify(delivery.signers)
           /\ delivery.end > feed.servers[s].now
           /\ feed' = [feed EXCEPT !.servers[s] = [now |-> delivery.end, before |-> @.now]]

(* A new configuration: the next instance has no previous report.          *)
NewMercuryPlugin ==
    /\ feed.witness = Absent /\ feed.report # Absent
    /\ feed' = [feed EXCEPT !.report = Absent]

Advance ==
    /\ feed.witness = Absent /\ feed.head < MaxHead
    /\ feed' = [feed EXCEPT !.head = @ + 1]

(* Behaviours that vary the prices end after a round.                      *)
FeedNext ==
    /\ feed # Absent
    /\ \/ FeedRound
       \/ /\ feed.varies = "range"
          /\ \/ FeedRoundEnds
             \/ \E s \in Servers : Serve(s)
             \/ NewMercuryPlugin
             \/ Advance

-----------------------------------------------------------------------------
(* Where a report of this round may start: right after the last one, or,   *)
(* in a new instance, right after a report that a server has had; or where *)
(* it ends when a server has none.                                         *)
Anchored(report) ==
    LET had == UNION {{feed.servers[s].now, feed.servers[s].before} : s \in Servers}
    IN IF feed.report # Absent THEN report.from = feed.report.to + 1
       ELSE \/ report.from - 1 \in had
            \/ feed.version # 1 /\ -1 \in had /\ report.from = report.to

(* What a report says has been seen by an honest oracle or lies between    *)
(* what two of them saw.                                                   *)
Witnessed(report, witness) ==
    /\ IF feed.version = 1
       THEN [num |-> report.to, hash |-> report.hash] \in witness.blocks
       ELSE \E t, u \in witness.times : t <= report.to /\ report.to <= u
    /\ feed.version = 3 => report.bid <= report.mid /\ report.mid <= report.ask
    /\ feed.version = 4 => report.status \in witness.statuses
    /\ witness.mids # Absent =>
           \E p, q \in witness.mids : p <= report.mid /\ report.mid <= q

(* The reports of a feed continue each other within an instance, and the   *)
(* first one of an instance continues a report that a server had, whatever *)
(* one faulty oracle says, which server answers and how late reports reach *)
(* the servers. A report ends at a block or time that honest oracles saw,  *)
(* its market status is an honest one, its bid, mid and ask are in order   *)
(* in v3 and its price is within the honest ones if all of them had one    *)
(* (mercury/v1 .. v4 Report, latestReport, Verify).                        *)
FeedIsAnchored ==
    [][feed # Absent /\ feed'.report \notin {feed.report, Absent} =>
           Anchored(feed'.report) /\ Witnessed(feed'.report, feed'.witness)]_feed
=============================================================================
