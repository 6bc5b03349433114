--------------------------- MODULE DecimalFunctions ---------------------------
(***************************************************************************)
(* The functions of the expression language (llo/protocol/calculated:      *)
(* calculated.go, decimalmath.go, series.go, functions_series.go,          *)
(* functions_ma.go, functions_twap.go): decimals with their exponents and  *)
(* roundings, history windows, and what each function refuses. Logarithms, *)
(* exponentials and powers other than integer ones and square roots are    *)
(* left out; roots are taken to be correctly rounded, which is what the    *)
(* guard digits of expDecimal and lnDecimal are for.                       *)
(*                                                                         *)
(* A value is a record whose kind is the Go type. Fail is an error.        *)
(***************************************************************************)
EXTENDS Aggregators

CONSTANTS
    Precision,                \* precision, 18 decimal places
    LegacyDivisionPrecision,  \* 16
    MaxPowExponent,
    NanosPerSecond,
    TwapMaxWindowSeconds

ASSUME FunctionsAssumption ==
    /\ Precision \in Nat /\ LegacyDivisionPrecision \in Nat /\ MaxPowExponent \in Nat
    /\ NanosPerSecond \in Nat \ {0} /\ TwapMaxWindowSeconds \in Nat \ {0}

DoublePrecision == 2 * Precision

Fail(why) == [kind |-> "error", why |-> why]
Num(d) == [kind |-> "decimal", d |-> d]
Whole(n) == [kind |-> "int", n |-> n]
Bool(b) == [kind |-> "bool", b |-> b]
Nil == [kind |-> "nil"]
Failed(v) == v.kind = "error"

(* Op of a value, unless it is an error.                                   *)
Then(v, Op(_)) == IF Failed(v) THEN v ELSE Op(v)

(* Op of some values, unless one is an error: then the first.              *)
AllOf(values, Op(_)) ==
    IF \E i \in DOMAIN values : Failed(values[i])
    THEN values[Minimum({i \in DOMAIN values : Failed(values[i])})] ELSE Op(values)

-----------------------------------------------------------------------------
(* The decimal library: exact sums and products, and quotients rounded     *)
(* half away from zero.                                                    *)

Magnitude(n) == IF n < 0 THEN -n ELSE n

Scaled(d, exp) == d.coef * 10 ^ (d.exp - exp)

DecAdd(x, y) ==
    LET exp == Minimum({x.exp, y.exp}) IN Dec(Scaled(x, exp) + Scaled(y, exp), exp)

DecNeg(x) == Dec(-x.coef, x.exp)
DecSub(x, y) == DecAdd(x, DecNeg(y))
DecMul(x, y) == Dec(x.coef * y.coef, x.exp + y.exp)
DecLess(x, y) == DecSub(x, y).coef < 0
DecEqual(x, y) == DecSub(x, y).coef = 0

RoundedQuotient(a, b) ==
    LET q == (2 * Magnitude(a) + Magnitude(b)) \div (2 * Magnitude(b))
    IN IF (a < 0) = (b < 0) THEN q ELSE -q

DecDivRound(x, y, places) ==
    LET shift == x.exp - y.exp + places
    IN Dec(IF shift >= 0 THEN RoundedQuotient(x.coef * 10 ^ shift, y.coef)
           ELSE RoundedQuotient(x.coef, y.coef * 10 ^ (-shift)), -places)

DecRound(d, places) ==
    IF d.exp = -places THEN d ELSE DecDivRound(d, Dec(1, 0), places)

(* Truncation to whole numbers, downwards and upwards.                     *)
DecFloor(d) == IF d.exp >= 0 THEN d ELSE Dec(d.coef \div 10 ^ (-d.exp), 0)
DecCeil(d) == DecNeg(DecFloor(DecNeg(d)))

IsInteger(d) == DecEqual(d, DecFloor(d))
IntPart(d) == Scaled(DecFloor(d), 0)

(* The number of decimal places that is nearest to the n-th root of x / y. *)
Root(x, y, n, places) ==
    LET exp == Minimum({x.exp, y.exp})
        a == Scaled(x, exp)
        b == Scaled(y, exp)
        below(r) == (2 * r - 1) ^ n * b <= 2 ^ n * 10 ^ (places * n) * a
    IN Dec(CHOOSE r \in 0 .. (a \div b + 1) * 10 ^ places : (r = 0 \/ below(r)) /\ ~below(r + 1), -places)

DecSum(s) ==
    LET sum[i \in 0 .. Len(s)] == IF i = 0 THEN Dec(0, 0) ELSE DecAdd(sum[i - 1], s[i])
    IN sum[Len(s)]

-----------------------------------------------------------------------------
(* decimalmath.go: what an operation accepts.                              *)

CheckOperand(d) ==
    /\ d.exp \in -4 * MaxDecimalExponent .. 4 * MaxDecimalExponent
    /\ Magnitude(d.coef) <= MaxDecimalCoefficient ^ 4

(* A string literal is bounded as an observed value is.                    *)
ConvertToDecimal(x) ==
    CASE x.kind = "decimal" -> x
      [] x.kind = "int" -> Num(Dec(x.n, 0))
      [] x.kind = "string" -> IF CheckDecimalExponent(x.d) THEN Num(x.d) ELSE Fail("literal")
      [] x.kind = "series" -> Fail("series as scalar")
      [] OTHER -> Fail("unsupported type")

ToDecimal(x) ==
    Then(ConvertToDecimal(x), LAMBDA v : IF CheckOperand(v.d) THEN v ELSE Fail("operand"))

DivRound(x, y, places) ==
    IF y.coef = 0 THEN Fail("division by zero") ELSE Num(DecDivRound(x, y, places))

DivRoundByInt(x, n, places) == IF n <= 0 THEN Fail("count") ELSE DivRound(x, Dec(n, 0), places)

(* A whole number between two bounds, compared before it is narrowed.      *)
DecimalToInt(d, minimum, maximum) ==
    IF IsInteger(d) /\ ~DecLess(d, Dec(minimum, 0)) /\ ~DecLess(Dec(maximum, 0), d)
    THEN Whole(IntPart(d)) ELSE Fail("range")

(* Integer powers are exact, and a negative one divides.                   *)
DecimalIntPow(base, n) ==
    LET power == Dec(base.coef ^ Magnitude(n), base.exp * Magnitude(n))
    IN IF n >= 0 THEN Num(power) ELSE DivRound(Dec(1, 0), power, DoublePrecision)

CheckPow(exponent) == ~DecLess(Dec(MaxPowExponent, 0), Dec(Magnitude(exponent.coef), exponent.exp))

SquareRoot(d) ==
    IF d.coef < 0 THEN Fail("negative") ELSE Num(Root(d, Dec(1, 0), 2, Precision))

-----------------------------------------------------------------------------
(* calculated.go: scalar functions. Both operands are converted first.     *)

Unary(x, Op(_)) == Then(ToDecimal(x), LAMBDA v : Op(v.d))

Binary(x, y, Op(_, _)) ==
    Then(ToDecimal(x), LAMBDA v : Then(ToDecimal(y), LAMBDA w : Op(v.d, w.d)))

EqualFn(x, y) == Binary(x, y, LAMBDA v, w : Bool(DecEqual(v, w)))
GreaterThanFn(x, y) == Binary(x, y, LAMBDA v, w : Bool(DecLess(w, v)))
GreaterThanOrEqualFn(x, y) == Binary(x, y, LAMBDA v, w : Bool(~DecLess(v, w)))
LessThanFn(x, y) == Binary(x, y, LAMBDA v, w : Bool(DecLess(v, w)))
LessThanOrEqualFn(x, y) == Binary(x, y, LAMBDA v, w : Bool(~DecLess(w, v)))
MulFn(x, y) == Binary(x, y, LAMBDA v, w : Num(DecMul(v, w)))
DivFn(x, y) == Binary(x, y, LAMBDA v, w : DivRound(v, w, LegacyDivisionPrecision))
AddFn(x, y) == Binary(x, y, LAMBDA v, w : Num(DecAdd(v, w)))
SubFn(x, y) == Binary(x, y, LAMBDA v, w : Num(DecSub(v, w)))
AbsFn(x) == Unary(x, LAMBDA v : Num(Dec(Magnitude(v.coef), v.exp)))
CeilFn(x) == Unary(x, LAMBDA v : Num(DecCeil(v)))
FloorFn(x) == Unary(x, LAMBDA v : Num(DecFloor(v)))
IsZeroFn(x) == Unary(x, LAMBDA v : Bool(v.coef = 0))
IsNegativeFn(x) == Unary(x, LAMBDA v : Bool(v.coef < 0))
IsPositiveFn(x) == Unary(x, LAMBDA v : Bool(v.coef > 0))
SqrtFn(x) == Unary(x, SquareRoot)

(* Fractional powers, which go through logarithms, are not modelled.       *)
PowFn(x, y) ==
    Binary(x, y, LAMBDA v, w :
        IF ~CheckPow(w) \/ (v.coef = 0 /\ w.coef <= 0) THEN Fail("power")
        ELSE IF v.coef = 0 THEN Num(Dec(0, 0))
        ELSE IF ~IsInteger(w) THEN Fail("fractional")
        ELSE Then(DecimalIntPow(v, IntPart(w)), LAMBDA power : Num(DecRound(power.d, Precision))))

CheckPrecision(n) == n \in -MaxDecimalExponent .. MaxDecimalExponent

RoundFn(x, places) ==
    IF ~CheckPrecision(places.n) THEN Fail("precision")
    ELSE Unary(x, LAMBDA v : Num(DecRound(v, places.n)))

-----------------------------------------------------------------------------
(* series.go: windows, oldest record first.                                *)

NewSeries(values, times) ==
    IF Len(values) # Len(times) \/ \E i \in 2 .. Len(times) : times[i] <= times[i - 1]
    THEN Fail("series") ELSE [kind |-> "series", values |-> values, times |-> times]

(* A field of a stored value. A quote has no bare value, a decimal nothing *)
(* else, and of a timestamped value the timestamp is the record's.         *)
RECURSIVE ProjectStreamValue(_, _)
ProjectStreamValue(v, field) ==
    CASE v = Absent -> Fail("nil value")
      [] v.type = 0 -> IF field = "" THEN Num(v.decimal) ELSE Fail("field")
      [] v.type = 1 -> (CASE field = "bid" -> Num(v.bid)
                          [] field = "ask" -> Num(v.ask)
                          [] field = "benchmark" -> Num(v.benchmark)
                          [] OTHER -> Fail("field"))
      [] v.type = 2 -> ProjectStreamValue(v.value, field)

SeriesFromRecords(records, field) ==
    AllOf([i \in DOMAIN records |-> ProjectStreamValue(records[i].value, field)],
          LAMBDA values : NewSeries([i \in DOMAIN values |-> values[i].d],
                                    [i \in DOMAIN values |-> records[i].at]))

(* The argument of a function that reads one window, at least of so many   *)
(* records.                                                                *)
OnWindow(x, atLeast, Op(_)) ==
    IF x.kind # "series" THEN Fail("not a window")
    ELSE IF Len(x.values) < atLeast THEN Fail("window") ELSE Op(x)

Window(x, Op(_)) == OnWindow(x, 1, Op)
ComparisonWindow(x, Op(_)) == OnWindow(x, 2, Op)

(* A sample count within the window.                                       *)
WindowSize(x, n, Op(_, _)) ==
    Window(x, LAMBDA s : Then(Unary(n, LAMBDA d : DecimalToInt(d, 1, Len(s.values))),
                              LAMBDA count : Op(s.values, count.n)))

(* One window or a list of scalars, not both.                              *)
ScalarsOrWindow(args, Op(_)) ==
    IF args = <<>> THEN Fail("arguments")
    ELSE IF args[1].kind = "series"
    THEN IF Len(args) > 1 THEN Fail("window and scalars") ELSE Window(args[1], LAMBDA s : Op(s.values))
    ELSE AllOf([i \in DOMAIN args |-> ToDecimal(args[i])],
               LAMBDA values : Op([i \in DOMAIN values |-> values[i].d]))

-----------------------------------------------------------------------------
(* functions_series.go and functions_ma.go.                                *)

Largest(s) == s[CHOOSE i \in DOMAIN s : \A j \in DOMAIN s : ~DecLess(s[i], s[j])]
Smallest(s) == s[CHOOSE i \in DOMAIN s : \A j \in DOMAIN s : ~DecLess(s[j], s[i])]

AvgFn(args) ==
    ScalarsOrWindow(args, LAMBDA s : DivRoundByInt(DecSum(s), Len(s), LegacyDivisionPrecision))
MaxFn(args) == ScalarsOrWindow(args, LAMBDA s : Num(Largest(s)))
MinFn(args) == ScalarsOrWindow(args, LAMBDA s : Num(Smallest(s)))
SumFn(args) == ScalarsOrWindow(args, LAMBDA s : Num(DecSum(s)))

CountFn(x) == Window(x, LAMBDA s : Num(Dec(Len(s.values), 0)))
FirstFn(x) == Window(x, LAMBDA s : Num(s.values[1]))
LastFn(x) == Window(x, LAMBDA s : Num(s.values[Len(s.values)]))

(* The middle of the sorted values, or the mean of the two middles.        *)
MiddleValue(sorted, middle) ==
    IF Len(sorted) % 2 = 1 THEN Num(sorted[middle + 1])
    ELSE DivRoundByInt(DecAdd(sorted[middle], sorted[middle + 1]), 2, Precision)

MedianFn(x) == Window(x, LAMBDA s : MiddleValue(SortSeq(s.values, DecLess), Len(s.values) \div 2))

(* Around the mean in double precision.                                    *)
SquaresAround(mean, values) ==
    LET square(d) == DecMul(d, d)
    IN DecSum([i \in DOMAIN values |-> square(DecSub(values[i], mean))])

VarianceFn(x) ==
    ComparisonWindow(x, LAMBDA s :
        DivRoundByInt(SquaresAround(DecDivRound(DecSum(s.values), Dec(Len(s.values), 0), DoublePrecision),
                                    s.values), Len(s.values), Precision))

StddevFn(x) == Then(VarianceFn(x), LAMBDA v : SquareRoot(v.d))

DeltaFn(x) ==
    ComparisonWindow(x, LAMBDA s : Num(DecSub(s.values[Len(s.values)], s.values[1])))

PctChangeFn(x) ==
    ComparisonWindow(x, LAMBDA s :
        DivRound(DecSub(s.values[Len(s.values)], s.values[1]), s.values[1], Precision))

SpreadFn(x) == ComparisonWindow(x, LAMBDA s : Num(DecSub(Largest(s.values), Smallest(s.values))))

LastValues(s, n) == SubSeq(s, Len(s) - n + 1, Len(s))

SMAFn(x, n) ==
    WindowSize(x, n, LAMBDA s, count : DivRoundByInt(DecSum(LastValues(s, count)), count, Precision))

(* The newest value weighs n, the oldest of the n weighs 1.                *)
WMAFn(x, n) ==
    WindowSize(x, n, LAMBDA s, count :
        LET considered == LastValues(s, count)
            weighted == [i \in 1 .. count |-> DecMul(considered[i], Dec(i, 0))]
        IN DivRoundByInt(DecSum(weighted), (count * (count + 1)) \div 2, Precision))

(* Seeded with the mean of the oldest values, and rounded in every step.   *)
Smoothed(s, count, alpha) ==
    LET ema[i \in count .. Len(s)] ==
            IF i = count THEN DecDivRound(DecSum(SubSeq(s, 1, count)), Dec(count, 0), Precision)
            ELSE DecRound(DecAdd(DecMul(s[i], alpha),
                                 DecMul(ema[i - 1], DecSub(Dec(1, 0), alpha))), Precision)
    IN ema[Len(s)]

EMAFn(x, n) ==
    WindowSize(x, n, LAMBDA s, count :
        Num(Smoothed(s, count, DecDivRound(Dec(2, 0), Dec(count + 1, 0), DoublePrecision))))

-----------------------------------------------------------------------------
(* functions_twap.go. A configuration is a function from keys to values.   *)

TwapKeys == {"window", "minSamples", "maxHeadGap", "maxInteriorGap", "maxTailGap"}

(* A whole number of seconds, at least one.                                *)
TwapWindowSeconds(raw) ==
    Unary(raw, LAMBDA d :
        IF ~IsInteger(d) THEN Fail("window")
        ELSE IF IntPart(d) % NanosPerSecond # 0 THEN Fail("window")
        ELSE DecimalToInt(Dec(IntPart(d) \div NanosPerSecond, 0), 1, TwapMaxWindowSeconds))

TwapConfigInt(raw, minimum) ==
    Unary(raw, LAMBDA d : DecimalToInt(d, minimum, TwapMaxWindowSeconds))

(* All keys, no other, and no tolerance that a window with enough samples  *)
(* cannot reach.                                                           *)
CheckedConfig(cfg) ==
    IF \E key \in TwapKeys : Failed(cfg[key]) THEN Fail("configuration")
    ELSE IF \/ cfg["window"].n < cfg["minSamples"].n
            \/ \E key \in {"maxHeadGap", "maxInteriorGap", "maxTailGap"} :
                  cfg[key].n > cfg["window"].n - cfg["minSamples"].n
    THEN Fail("configuration")
    ELSE [kind |-> "config", fields |-> [key \in TwapKeys |-> cfg[key].n]]

ParseTWAPConfig(raw) ==
    IF raw.kind # "map" THEN Fail("configuration")
    ELSE IF DOMAIN raw.fields # TwapKeys THEN Fail("keys")
    ELSE CheckedConfig([key \in TwapKeys |->
             IF key = "window" THEN TwapWindowSeconds(raw.fields[key])
             ELSE TwapConfigInt(raw.fields[key], IF key = "minSamples" THEN 1 ELSE 0)])

(* Of the records in one second the newest counts.                         *)
TwapObservations(s, start, anchor) ==
    LET second(i) == s.times[i] \div NanosPerSecond
        inside == {i \in DOMAIN s.times : start <= second(i) /\ second(i) < anchor}
        kept == {i \in inside : i + 1 \in inside => second(i + 1) # second(i)}
    IN SelectSeq([i \in DOMAIN s.times |-> [offset |-> second(i) - start, price |-> s.values[i],
                                            counts |-> i \in kept]], LAMBDA o : o.counts)

(* Samples, then the head, the longest interior and the tail gap.          *)
TwapGapStats(obs, n) ==
    LET m == Len(obs)
        gaps == {obs[i].offset - obs[i - 1].offset - 1 : i \in 2 .. m}
    IN IF m = 0 THEN [m |-> 0, head |-> 0, interior |-> 0, tail |-> 0]
       ELSE [m |-> m, head |-> obs[1].offset, interior |-> Maximum(gaps \cup {0}),
             tail |-> n - 1 - obs[m].offset]

TwapStepRatio(left, right, span) == Root(right, left, span, DoublePrecision)

(* The filled prices between two observations, in ratios.                  *)
Steps(price, ratio, span) ==
    LET at[k \in 0 .. span - 1] ==
            IF k = 0 THEN price ELSE DecRound(DecMul(at[k - 1], ratio), DoublePrecision)
    IN [k \in 1 .. span - 1 |-> at[k]]

TwapInterpolate(left, right) ==
    LET span == right.offset - left.offset
    IN Steps(left.price, TwapStepRatio(left.price, right.price, span), span)

(* Mutant: the tail is counted from the window's end.                      *)
LongTail(obs, n) == n - obs[Len(obs)].offset

TailCopies(obs, n) == n - 1 - obs[Len(obs)].offset

(* The first price fills the head and the last one the tail; the mean is   *)
(* over all seconds of the window.                                         *)
TwapFillThenAverage(obs, n) ==
    LET m == Len(obs)
        head == DecMul(obs[1].price, Dec(obs[1].offset, 0))
        tail == DecMul(obs[m].price, Dec(TailCopies(obs, n), 0))
        filled == [i \in 1 .. m - 1 |-> DecSum(TwapInterpolate(obs[i], obs[i + 1]))]
        observed == DecSum([i \in DOMAIN obs |-> obs[i].price])
    IN DivRoundByInt(DecAdd(DecAdd(head, tail), DecAdd(observed, DecSum(filled))), n, Precision)

Rejects(stats, cfg) ==
    \/ stats.m < Maximum({cfg["minSamples"], 1}) \/ stats.head > cfg["maxHeadGap"]
    \/ stats.interior > cfg["maxInteriorGap"] \/ stats.tail > cfg["maxTailGap"]

Averaged(obs, cfg) ==
    IF Rejects(TwapGapStats(obs, cfg["window"]), cfg) THEN Fail("rejected")
    ELSE TwapFillThenAverage(obs, cfg["window"])

Twap(s, cfg, anchor) ==
    LET start == anchor - cfg["window"]
        second(i) == s.times[i] \div NanosPerSecond
    IN IF \E i \in DOMAIN s.times :
            start <= second(i) /\ second(i) < anchor /\ s.values[i].coef <= 0
       THEN Fail("price") ELSE Averaged(TwapObservations(s, start, anchor), cfg)

(* Anchored at the timestamp of the round, not at the newest record.       *)
TwapFunc(anchorNanos, x, rawConfig) ==
    Window(x, LAMBDA s : Then(ParseTWAPConfig(rawConfig), LAMBDA cfg :
        Twap(s, cfg.fields, anchorNanos \div NanosPerSecond)))
=============================================================================
