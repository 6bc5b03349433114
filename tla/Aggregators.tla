----------------------------- MODULE Aggregators -----------------------------
(***************************************************************************)
(* Stream values and the functions that agree on one of them               *)
(* (llo/protocol/stream_value.go, aggregators.go), with the checks that an *)
(* observed value passes in v31, and the bounds that a set of              *)
(* contributions with at most f faulty ones keeps.                         *)
(*                                                                         *)
(* A decimal is a coefficient and an exponent, so that one number has      *)
(* several forms. A failed aggregation is Absent.                          *)
(***************************************************************************)
EXTENDS Common

CONSTANTS
    MaxDecimalExponent,
    MaxDecimalCoefficient,       \* the numbers of MaxDecimalCoefficientBits bits
    AggregationFaultTolerance

ASSUME AggregatorsAssumption ==
    /\ MaxDecimalExponent \in Nat /\ MaxDecimalCoefficient \in Nat
    /\ AggregationFaultTolerance \in Nat

VARIABLE contributions
(* contributions.aggregator   the aggregator of the pair                   *)
(*              .values       the value of each oracle, or Absent          *)
(*              .faulty       the faulty oracles, at most f                *)

-----------------------------------------------------------------------------
(* Values. The types are ordered as in the protobuf enumeration.           *)

Dec(c, e) == [coef |-> c, exp |-> e]

Decimal(d) == [type |-> 0, decimal |-> d]

Quote(bid, benchmark, ask) == [type |-> 1, bid |-> bid, benchmark |-> benchmark, ask |-> ask]

Timestamped(at, value) == [type |-> 2, at |-> at, value |-> value]

(* decimal.Cmp orders decimals as numbers.                                 *)
Number(d) == d.coef * 10 ^ (d.exp + MaxDecimalExponent)

IsValid(q) == Number(q.bid) <= Number(q.benchmark) /\ Number(q.benchmark) <= Number(q.ask)

CheckDecimalExponent(d) == d.exp \in -MaxDecimalExponent .. MaxDecimalExponent

CheckDecimalCoefficient(d) == d.coef \in -MaxDecimalCoefficient .. MaxDecimalCoefficient

Decimals(v) ==
    CASE v.type = 0 -> {v.decimal}
      [] v.type = 1 -> {v.bid, v.benchmark, v.ask}
      [] v.type = 2 -> IF v.value.type = 0 THEN {v.value.decimal} ELSE {}

(* UnmarshalObservedProtoStreamValue, and the shapes that v31 validates: a *)
(* timestamped value holds a decimal.                                      *)
UnmarshalProtoStreamValue(v) == \A d \in Decimals(v) : CheckDecimalExponent(d)

CheckObservedStreamValue(v) == \A d \in Decimals(v) : CheckDecimalCoefficient(d)

ValidStreamValue(v) ==
    /\ UnmarshalProtoStreamValue(v) /\ CheckObservedStreamValue(v)
    /\ v.type = 2 => v.value.type = 0

-----------------------------------------------------------------------------
(* The aggregators.                                                        *)

(* Mutant: as many as contain an honest one.                               *)
FPlusOne == AggregationFaultTolerance + 1

(* v31: 2f+1 contributions.                                                *)
MinContributions == 2 * AggregationFaultTolerance + 1

(* The largest bucket, and of equal ones that of the lowest type. No value *)
(* at all counts as decimals.                                              *)
MostCommonType(values) ==
    LET bucket(t) == Cardinality({i \in DOMAIN values : values[i].type = t})
        types == {v.type : v \in Elements(values)}
        largest == {t \in types : \A u \in types : bucket(u) <= bucket(t)}
    IN IF types = {} THEN 0 ELSE Minimum(largest)

(* Decimals and quotes together: a quote counts with its benchmark.        *)
MedianDecimal(values, min) ==
    LET usable == {i \in DOMAIN values : values[i].type \in {0, 1}}
        decimal(i) == IF values[i].type = 0 THEN values[i].decimal ELSE values[i].benchmark
    IN IF Cardinality(usable) < min THEN Absent
       ELSE Decimal(decimal(MedianIndex([i \in usable |-> Number(decimal(i))])))

(* v30 counts a skipped value with timestamp 0, v31 not at all.            *)
MedianTimestamped(values, min, countSkipped) ==
    LET stamped == {i \in DOMAIN values : values[i].type = 2}
        usable == {i \in stamped : values[i].value.type = 0}
        stamps == [i \in IF countSkipped THEN stamped ELSE usable |->
                      IF i \in usable THEN values[i].at ELSE 0]
        median == MedianDecimal([i \in usable |-> values[i].value], min)
    IN IF median = Absent THEN Absent ELSE Timestamped(stamps[MedianIndex(stamps)], median)

MedianAggregatorOf(values, min, countSkipped) ==
    IF MostCommonType(values) = 2 THEN MedianTimestamped(values, min, countSkipped)
    ELSE MedianDecimal(values, min)

MedianAggregatorV31(values, min) == MedianAggregatorOf(values, min, FALSE)

(* Trailing zeros of the coefficient are stripped as far as the exponent   *)
(* may grow.                                                               *)
CanonicalDecimal(d) ==
    LET strips == {0} \cup {k \in 1 .. MaxDecimalExponent - d.exp : d.coef % (10 ^ k) = 0}
    IN IF d.coef = 0 THEN Dec(0, 0)
       ELSE Dec(d.coef \div (10 ^ Maximum(strips)), d.exp + Maximum(strips))

CanonicalStreamValue(v) ==
    CASE v.type = 0 -> Decimal(CanonicalDecimal(v.decimal))
      [] v.type = 1 -> Quote(CanonicalDecimal(v.bid), CanonicalDecimal(v.benchmark),
                             CanonicalDecimal(v.ask))
      [] OTHER -> v

(* The form that votes: without the timestamp.                             *)
CanonicalModeValue(v) ==
    IF v.type = 2 THEN Timestamped(0, CanonicalStreamValue(v.value)) ELSE CanonicalStreamValue(v)

(* The value with the most votes in the largest bucket; which of several   *)
(* is decided by their encodings, the same on every oracle.                *)
ModeAggregator(values, min) ==
    LET bucket == {i \in DOMAIN values : values[i].type = MostCommonType(values)}
        forms == {CanonicalModeValue(values[i]) : i \in bucket}
        votes(form) == {i \in bucket : CanonicalModeValue(values[i]) = form}
        mode == CHOOSE form \in forms :
                    \A other \in forms : Cardinality(votes(other)) <= Cardinality(votes(form))
        stamps == [i \in votes(mode) |-> values[i].at]
    IN IF bucket = {} THEN Absent
       ELSE IF Cardinality(votes(mode)) < min THEN Absent
       ELSE IF mode.type = 2 THEN Timestamped(stamps[MedianIndex(stamps)], mode.value)
       ELSE mode

(* The three prices separately, of the quotes that are in order.           *)
QuoteAggregator(values, min) ==
    LET quotes == {i \in DOMAIN values : values[i].type = 1 /\ IsValid(values[i])}
        median(price) == values[MedianIndex([i \in quotes |-> Number(values[i][price])])][price]
    IN IF Cardinality(quotes) < min THEN Absent
       ELSE Quote(median("bid"), median("benchmark"), median("ask"))

GetAggregatorFuncV31(aggregator, values, min) ==
    CASE aggregator = "median" -> MedianAggregatorV31(values, min)
      [] aggregator = "mode" -> ModeAggregator(values, min)
      [] aggregator = "quote" -> QuoteAggregator(values, min)

-----------------------------------------------------------------------------
(* A set of contributions. An oracle without a value contributes nothing,  *)
(* and an observation with a value that is not valid is dropped as a       *)
(* whole.                                                                  *)
Contributors ==
    {o \in DOMAIN contributions.values :
        contributions.values[o] # Absent /\ ValidStreamValue(contributions.values[o])}

Aggregated ==
    GetAggregatorFuncV31(contributions.aggregator,
                         [o \in Contributors |-> contributions.values[o]], MinContributions)

(* x lies in the range of S.                                               *)
Within(x, S) == \E low, high \in S : low <= x /\ x <= high

Timeless(v) == IF v.type = 2 THEN [v EXCEPT !.at = 0] ELSE v

Prices(v) ==
    CASE v.type = 0 -> {Number(v.decimal)}
      [] v.type = 1 -> {Number(v.benchmark)}
      [] v.type = 2 -> {Number(v.value.decimal)}

(* AggregateIsHonest: what v31 agrees on lies between values that honest   *)
(* oracles contributed, in every part: the number, the timestamp, and bid, *)
(* benchmark and ask, which stay in order. Types may be mixed, and decimals*)
(* that are equal have several forms (aggregators.go:52-292,               *)
(* plugin.go:116-124).                                                     *)
AggregateIsHonest ==
    contributions # Absent /\ Aggregated # Absent =>
        LET honest == {contributions.values[o] : o \in Contributors \ contributions.faulty}
            result == Aggregated
            quotes == {v \in honest : v.type = 1}
            stamps == {v.at : v \in {u \in honest : u.type = 2}}
        IN CASE contributions.aggregator = "quote" ->
                  /\ IsValid(result)
                  /\ Within(Number(result.bid), {Number(q.bid) : q \in quotes})
                  /\ Within(Number(result.benchmark), {Number(q.benchmark) : q \in quotes})
                  /\ Within(Number(result.ask), {Number(q.ask) : q \in quotes})
             [] contributions.aggregator = "mode" ->
                  /\ \E v \in honest : CanonicalModeValue(v) = Timeless(result)
                  /\ result.type = 2 => Within(result.at, stamps)
             [] contributions.aggregator = "median" ->
                  /\ \A x \in Prices(result) : Within(x, UNION {Prices(v) : v \in honest})
                  /\ result.type = 2 => Within(result.at, stamps)
=============================================================================
