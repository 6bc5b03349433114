------------------------------- MODULE MCParts -------------------------------
(***************************************************************************)
(* The instances of the parts that do not share state. In a behaviour one  *)
(* of them takes part, and the variables of the others are Absent.         *)
(***************************************************************************)
EXTENDS BlobPump, RoundV31, HistoryV31, CalculatedStreams,
        MercuryTransmit, WsrpcPool, WsrpcCache, MercuryPlugins

-----------------------------------------------------------------------------
(* Aggregators: three honest contributions and a faulty one.               *)

One == Dec(1, 0)
OneAgain == Dec(10, -1)
Two == Dec(2, 0)
Large == Dec(3, 1)

HonestValues(aggregator) ==
    {Absent} \cup
    CASE aggregator = "median" ->
           {Decimal(One), Decimal(Two), Quote(One, OneAgain, Two),
            Timestamped(1, Decimal(One)), Timestamped(2, Decimal(Two))}
      [] aggregator = "mode" ->
           {Decimal(One), Decimal(OneAgain), Quote(One, One, One),
            Timestamped(1, Decimal(One)), Timestamped(2, Decimal(OneAgain))}
      [] aggregator = "quote" ->
           {Decimal(One), Quote(One, OneAgain, Two), Quote(Two, Two, Two), Quote(Two, One, One)}

(* Also out of every bound and order.                                      *)
FaultyValues(aggregator) ==
    HonestValues(aggregator) \cup
    {Decimal(Large), Decimal(Dec(7, 2)), Decimal(Dec(99, 0)), Quote(Dec(-1, 0), Dec(-1, 0), Large),
     Timestamped(9, Decimal(One)), Timestamped(0, Decimal(Large)), Timestamped(0, Quote(One, One, One))}

AggregatorsInit ==
    \E a \in {"median", "mode", "quote"} :
    \E h \in [1 .. 3 -> HonestValues(a)], v \in FaultyValues(a) :
        contributions = [aggregator |-> a, values |-> h @@ (4 :> v), faulty |-> {4}]

-----------------------------------------------------------------------------
(* RoundV31: the versions of the channel definitions file, and what        *)
(* predecessors signed.                                                    *)

PlainOpts ==
    [size |-> 1, calc |-> <<>>, twap |-> 0, verifies |-> TRUE, admits |-> TRUE,
     feed |-> Absent, backfill |-> Absent]

Definition(format, ids, tombstone) ==
    [format |-> format, tombstone |-> tombstone, opts |-> PlainOpts,
     streams |-> [i \in DOMAIN ids |-> [id |-> ids[i], aggregator |-> "median"]]]

Expression == [Definition("expr", <<2>>, FALSE) EXCEPT !.opts.calc = <<9>>]

Backfill(target) ==
    [Definition("backfill", <<2>>, FALSE) EXCEPT
        !.opts.backfill = [target |-> target, rows |-> TRUE, values |-> TRUE]]

MCFiles ==
    << (1 :> Definition("json", <<1>>, FALSE)) @@ (3 :> Expression),
       (1 :> Definition("json", <<1>>, TRUE)) @@ (2 :> Definition("json", <<9>>, FALSE))
           @@ (3 :> Definition("json", <<2>>, FALSE)),
       (2 :> Definition("json", <<9>>, FALSE)) @@ (3 :> Definition("json", <<2>>, FALSE)) >>

(* Channel 2 backfills channel 3; two updates fit into an observation.     *)
CutFiles ==
    << (1 :> Definition("json", <<1>>, FALSE)) @@ (2 :> Backfill(3))
           @@ (3 :> Definition("json", <<2>>, FALSE)) >>

MCReports ==
    {[signedBy |-> {"p1", "p2", "p4"}, version |-> 1, map |-> "frozen"],
     [signedBy |-> {"p1", "p2", "p3"}, version |-> 1, map |-> "frozen"],
     [signedBy |-> {"p4", "x"}, version |-> 1, map |-> "forged"]}

MCConfigs == {Genuine, [signers |-> {"p4", "x"}, f |-> 1]}

RoundInits == RoundInit("channels", TRUE) \/ \E s \in Subjects : RoundInit(s, FALSE)

-----------------------------------------------------------------------------
(* CalculatedStreams: two instances that share an expression. One channel  *)
(* declares a stream that another one declares too, divides by zero in its *)
(* second expression, or reads a stream that it does not observe.          *)

Price(id) == Name(id, "")
Observe(id) == [id |-> id, aggregator |-> "median"]
Channel(streams, abi) == [format |-> "expr", tombstone |-> FALSE, streams |-> streams, abi |-> abi]
Declare(id, e) == [id |-> id, expr |-> e]

SumOfTwo == Call("Add", <<Price(1), Price(4)>>)
BidShare == Call("Div", <<Name(2, "bid"), Price(1)>>)
ByZero == Call("Div", <<Price(1), Call("Sub", <<Price(1), Price(1)>>)>>)
OffMean == Call("Sub", <<Price(1), Call("SMA", <<History(1, "", 2), Lit(2)>>)>>)
Weighted ==
    Call("TWAP", <<History(1, "", 2),
        Config(<< <<"window", Duration(4)>>, <<"minSamples", Lit(1)>>, <<"maxHeadGap", Lit(1)>>,
                  <<"maxInteriorGap", Lit(1)>>, <<"maxTailGap", Lit(1)>> >>)>>)

MCAggregates ==
    (<<1, "median">> :> Decimal(Dec(3, 0))) @@ (<<4, "median">> :> Decimal(Dec(5, 0)))
        @@ (<<2, "quote">> :> Quote(Two, Dec(3, 0), Dec(4, 0)))

MCRecords ==
    1 :> << [at |-> 1, value |-> Decimal(Two)], [at |-> 3, value |-> Decimal(Dec(4, 0))],
            [at |-> 5, value |-> Decimal(Dec(3, 0))] >>

Input(defs, records, append) ==
    [defs |-> defs, aggregates |-> MCAggregates, timestamp |-> 8, history |-> records, append |-> append]

Inputs(p) ==
    IF p = "v30"
    THEN {Input(1 :> Channel(<<Observe(1), Observe(4)>>, <<Declare(11, SumOfTwo)>>), Absent, TRUE)}
    ELSE {Input((1 :> Channel(<<Observe(1), [id |-> 2, aggregator |-> "quote"]>>,
                              <<Declare(11, BidShare), Declare(12, ByZero)>>))
                    @@ (2 :> Channel(<<Observe(1)>>, <<Declare(11, OffMean)>>)), MCRecords, FALSE),
          Input(3 :> Channel(<<Observe(1)>>, <<Declare(13, Weighted), Declare(14, SumOfTwo)>>),
                MCRecords, FALSE)}

(* Windows of up to three prices in a window of three seconds.             *)
TwapConfig(c) ==
    [kind |-> "map", fields |->
        ("window" :> Whole(3 * NanosPerSecond)) @@ ("minSamples" :> Whole(c[1]))
            @@ ("maxHeadGap" :> Whole(c[2])) @@ ("maxInteriorGap" :> Whole(c[3]))
            @@ ("maxTailGap" :> Whole(c[4]))]

Windows ==
    UNION {{[window |-> [kind |-> "series", values |-> v, times |-> t], config |-> TwapConfig(c),
             anchor |-> 7] :
               v \in [1 .. n -> {One, Dec(25, -1)}],
               t \in {x \in [1 .. n -> 0 .. 5] : \A j \in 2 .. n : x[j - 1] < x[j]},
               c \in {<<1, 2, 1, 2>>, <<2, 1, 0, 1>>, <<1, 1, 1, 0>>}} : n \in 1 .. 3}

-----------------------------------------------------------------------------
(* Mercury.                                                                *)

MCReportCtx == << <<1, 1>>, <<1, 2>>, <<2, 2>> >>

FeedInits == (\E v \in {1, 3} : FeedInit(v, "range")) \/ \E v \in 1 .. 4 : FeedInit(v, "prices")

-----------------------------------------------------------------------------
(* The sum of the parts.                                                   *)

streams == <<contributions, calc>>
v31 == <<pump, round, history>>
transmission == <<relay, pool, memcache>>

NoStreams == contributions = Absent /\ calc = Absent
NoV31 == pump = Absent /\ round = Absent /\ history = Absent
NoTransmission == relay = Absent /\ pool = Absent /\ memcache = Absent

Init ==
    \/ NoV31 /\ NoTransmission /\ feed = Absent
         /\ \/ AggregatorsInit /\ calc = Absent
            \/ (CalculationInit \/ SampleInit(Windows)) /\ contributions = Absent
    \/ NoStreams /\ NoTransmission /\ feed = Absent
         /\ \/ PumpInit /\ round = Absent /\ history = Absent
            \/ RoundInits /\ pump = Absent /\ history = Absent
            \/ HistoryInit /\ pump = Absent /\ round = Absent
    \/ NoStreams /\ NoV31 /\ feed = Absent
         /\ \/ RelayInit /\ pool = Absent /\ memcache = Absent
            \/ PoolInit /\ relay = Absent /\ memcache = Absent
            \/ CacheInit /\ relay = Absent /\ pool = Absent
    \/ NoStreams /\ NoV31 /\ NoTransmission /\ FeedInits

Next ==
    \/ CalculationNext(Inputs, {Price(1)}) /\ UNCHANGED <<contributions, v31, transmission, feed>>
    \/ PumpNext /\ UNCHANGED <<round, history, streams, transmission, feed>>
    \/ RoundNext /\ UNCHANGED <<pump, history, streams, transmission, feed>>
    \/ HistoryNext /\ UNCHANGED <<pump, round, streams, transmission, feed>>
    \/ RelayNext /\ UNCHANGED <<pool, memcache, streams, v31, feed>>
    \/ PoolNext /\ UNCHANGED <<relay, memcache, streams, v31, feed>>
    \/ CacheNext /\ UNCHANGED <<relay, pool, streams, v31, feed>>
    \/ FeedNext /\ UNCHANGED <<streams, v31, transmission>>

Spec ==
    Init /\ [][Next]_<<streams, v31, transmission, feed>> /\ PumpFairness /\ RoundFairness

(* Only the channels of CutFiles.                                          *)
CutSpec ==
    /\ RoundInit("channels", FALSE) /\ pump = Absent /\ history = Absent
    /\ NoStreams /\ NoTransmission /\ feed = Absent
    /\ [][RoundNext /\ UNCHANGED <<pump, history, streams, transmission, feed>>]_
           <<streams, v31, transmission, feed>>
=============================================================================
