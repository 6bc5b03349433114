----------------------------- MODULE Expressions -----------------------------
(***************************************************************************)
(* The expression language of calculated streams                           *)
(* (llo/protocol/calculated: history_ast.go, program.go, calculated.go):   *)
(* the static analysis that finds which windows an expression reads, the   *)
(* validation of a channel's expressions at admission, environments, and   *)
(* evaluation.                                                             *)
(*                                                                         *)
(* An expression is its syntax tree; its size limits and let bindings are  *)
(* left out. A node is an integer, a decimal in a string, a duration (a    *)
(* literal too), a name, a call, a map of configuration or a conditional.  *)
(* A name is <<stream, field, depth>>: depth 0 is a stream value, another  *)
(* one the identifier that a History call is rewritten to, and stream 0    *)
(* stands for names that are not those of streams.                         *)
(***************************************************************************)
EXTENDS DecimalFunctions

CONSTANTS
    MaxRecordsPerPair,         \* MaxHistoryRecordsPerPair
    MaxRecordsPerExpression,   \* MaxHistoryRecordsPerExpression
    MaxTWAPCallsPerExpression,
    MaxExpressionsPerChannel

ASSUME ExpressionsAssumption ==
    {MaxRecordsPerPair, MaxRecordsPerExpression, MaxTWAPCallsPerExpression,
     MaxExpressionsPerChannel} \subseteq Nat

Lit(n) == [op |-> "int", n |-> n]
Text(d) == [op |-> "string", d |-> d]
Duration(n) == [op |-> "duration", n |-> n]
Name(stream, field) == [op |-> "name", name |-> <<stream, field, 0>>]
Call(fn, args) == [op |-> "call", fn |-> fn, args |-> args]
Config(pairs) == [op |-> "map", pairs |-> pairs]
If(test, yes, no) == [op |-> "if", args |-> <<test, yes, no>>]
History(stream, field, depth) == Call("History", <<Name(stream, field), Lit(depth)>>)

ObservationsTimestampName == <<0, "observations_timestamp", 0>>
TwapName == <<0, "TWAP", 0>>

ScalarFunctions ==
    {"Equal", "GreaterThan", "GreaterThanOrEqual", "LessThan", "LessThanOrEqual", "Abs", "Mul",
     "Div", "Add", "Sub", "Pow", "Sqrt", "IsZero", "IsNegative", "IsPositive", "Round", "Ceil", "Floor"}

RangeAcceptingFunctions ==
    {"Avg", "Sum", "Min", "Max", "Count", "First", "Last", "Median", "Variance", "Stddev",
     "Delta", "PctChange", "Spread", "SMA", "WMA", "EMA", "TWAP"}

MinWindowDepth(fn) == IF fn \in {"Variance", "Stddev", "Delta", "PctChange", "Spread"} THEN 2 ELSE 1

-----------------------------------------------------------------------------
(* history_ast.go.                                                         *)

Children(e) ==
    CASE e.op \in {"call", "if"} -> e.args
      [] e.op = "map" -> [i \in DOMAIN e.pairs |-> e.pairs[i][2]]
      [] OTHER -> <<>>

RECURSIVE NodesOf(_)
NodesOf(s) ==
    IF s = <<>> THEN <<>>
    ELSE NodesOf(Children(Head(s))) \o <<Head(s)>> \o NodesOf(Tail(s))

(* ast.Walk: children first.                                               *)
Walk(e) == NodesOf(<<e>>)

IsHistory(e) == e.op = "call" /\ e.fn = "History"

(* rewrite refuses anything but a stream and a literal depth.              *)
IsRewritable(call) ==
    /\ Len(call.args) = 2
    /\ call.args[1].op = "name" /\ call.args[2].op = "int"
    /\ call.args[1].name[1] # 0 /\ call.args[1].name[2] # "timestamp"
    /\ call.args[2].n \in 1 .. MaxRecordsPerPair

HistoryRef(call) ==
    [stream |-> call.args[1].name[1], field |-> call.args[1].name[2], count |-> call.args[2].n]

EnvName(ref) == <<ref.stream, ref.field, ref.count>>

IsLiteral(e) == e.op \in {"int", "string", "duration"}

Literal(e) ==
    CASE e.op = "int" -> Whole(e.n)
      [] e.op = "duration" -> Whole(e.n)
      [] e.op = "string" -> [kind |-> "string", d |-> e.d]

FieldsOf(pairs, values) ==
    [kind |-> "map", fields |-> [k \in {pairs[i][1] : i \in DOMAIN pairs} |->
                                    values[CHOOSE i \in DOMAIN pairs : pairs[i][1] = k]]]

(* A configuration of literals is held to the rules of evaluation, and no  *)
(* minSamples may exceed the depth of the window.                          *)
CheckTWAP(call) ==
    /\ Len(call.args) = 2
    /\ IsHistory(call.args[1]) /\ call.args[2].op = "map" =>
         LET pairs == call.args[2].pairs
             values == [i \in DOMAIN pairs |-> Literal(pairs[i][2])]
         IN /\ \A i \in DOMAIN pairs : pairs[i][1] = "minSamples" /\ pairs[i][2].op = "int" =>
                  pairs[i][2].n \in 1 .. call.args[1].args[2].n
            /\ (\A i \in DOMAIN pairs : IsLiteral(pairs[i][2])) =>
                  ~Failed(ParseTWAPConfig(FieldsOf(pairs, values)))

CheckWindowDepth(call) ==
    call.args # <<>> /\ IsHistory(call.args[1]) => call.args[1].args[2].n >= MinWindowDepth(call.fn)

Visit(e) ==
    CASE e.op = "name" -> e.name[3] = 0
      [] e.op = "string" -> CheckDecimalExponent(e.d)
      [] e.op = "call" ->
           /\ IsHistory(e) => IsRewritable(e)
           /\ e.fn = "Round" /\ e.args[2].op = "int" => CheckPrecision(e.args[2].n)
           /\ e.fn = "TWAP" => CheckTWAP(e)
           /\ e.fn \in RangeAcceptingFunctions => CheckWindowDepth(e)
      [] OTHER -> TRUE

(* A window must be an argument of a function that takes one.              *)
InPosition(root, nodes) ==
    /\ ~IsHistory(root)
    /\ \A i \in DOMAIN nodes : \A j \in DOMAIN Children(nodes[i]) :
          IsHistory(Children(nodes[i])[j]) =>
              nodes[i].op = "call" /\ nodes[i].fn \in RangeAcceptingFunctions

NodeCount(nodes, Is(_)) == Cardinality({i \in DOMAIN nodes : Is(nodes[i])})

TotalDepth(nodes) ==
    LET sum[i \in 0 .. Len(nodes)] ==
            IF i = 0 THEN 0
            ELSE sum[i - 1] + (IF IsHistory(nodes[i]) THEN nodes[i].args[2].n ELSE 0)
    IN sum[Len(nodes)]

(* The identifiers of the source, functions included.                      *)
FreeNames(nodes) ==
    {n.name : n \in {m \in Elements(nodes) : m.op = "name"}}
        \cup {<<0, n.fn, 0>> : n \in {m \in Elements(nodes) : m.op = "call"}}

(* A function of the expression alone.                                     *)
Analysis(e, nodes, calls) ==
    IF /\ \A i \in DOMAIN nodes : Visit(nodes[i])
       /\ InPosition(e, nodes)
       /\ TotalDepth(nodes) <= MaxRecordsPerExpression
       /\ calls <= MaxTWAPCallsPerExpression
    THEN [ok |-> TRUE, refs |-> {HistoryRef(n) : n \in {m \in Elements(nodes) : IsHistory(m)}},
          twapCalls |-> calls, names |-> FreeNames(nodes)]
    ELSE [ok |-> FALSE, refs |-> {}, twapCalls |-> 0, names |-> {}]

AnalyzeHistoryExpression(e) ==
    Analysis(e, Walk(e), NodeCount(Walk(e), LAMBDA n : n.op = "call" /\ n.fn = "TWAP"))

-----------------------------------------------------------------------------
(* program.go: validation at admission. A channel is [format, tombstone,   *)
(* streams, abi]: its streams with their aggregators, and for each         *)
(* expression the stream it declares; abi is Absent if the opts do not     *)
(* decode.                                                                 *)

Plainly(cd) == SelectSeq(cd.streams, LAMBDA s : s.aggregator # "calculated")

(* A stream under two aggregators is ambiguous.                            *)
AggregatorByStream(cd) ==
    LET plain == Elements(Plainly(cd))
    IN IF \E s, t \in plain : s.id = t.id /\ s.aggregator # t.aggregator THEN Absent
       ELSE [id \in {s.id : s \in plain} |-> (CHOOSE s \in plain : s.id = id).aggregator]

(* Which fields the result of an aggregator can have.                      *)
AggregatorCarriesField(aggregator, field) ==
    CASE aggregator = "median" -> field \in {"", "timestamp"}
      [] aggregator = "quote" -> field \in {"bid", "ask", "benchmark"}
      [] OTHER -> TRUE

ChannelBindsName(name, aggregators) ==
    IF name[1] = 0
    THEN name = ObservationsTimestampName
         \/ name[2] \in ScalarFunctions \cup RangeAcceptingFunctions \cup {"History"}
    ELSE name[1] \in DOMAIN aggregators /\ AggregatorCarriesField(aggregators[name[1]], name[2])

ExpressionsOf(cd) ==
    IF cd.abi = Absent THEN Absent
    ELSE IF Len(cd.abi) > MaxExpressionsPerChannel \/ \E a \in Elements(cd.abi) : a.expr = Absent
    THEN Absent ELSE [i \in DOMAIN cd.abi |-> cd.abi[i].expr]

Admits(entry, aggregators) ==
    /\ entry.ok
    /\ \A name \in entry.names : ChannelBindsName(name, aggregators)
    /\ \A ref \in entry.refs : /\ ref.stream \in DOMAIN aggregators
                             /\ AggregatorCarriesField(aggregators[ref.stream], ref.field)

ValidateChannelExpressions(cd) ==
    /\ ExpressionsOf(cd) # Absent /\ AggregatorByStream(cd) # Absent
    /\ \A e \in Elements(ExpressionsOf(cd)) :
          Admits(AnalyzeHistoryExpression(e), AggregatorByStream(cd))

-----------------------------------------------------------------------------
(* calculated.go: environments. Of the functions only TWAP depends on the  *)
(* round: it is bound to the timestamp, and fails when it is not.          *)

DefaultEnv == TwapName :> Fail("unbound")

Bind(env, name, value) == (name :> value) @@ env

NewEnvIn(env, timestamp) ==
    Bind(Bind(env, ObservationsTimestampName, Whole(timestamp)), TwapName, Whole(timestamp))

(* A missing value is an error. A timestamped value binds two names.       *)
RECURSIVE SetStreamValue(_, _, _)
SetStreamValue(env, id, value) ==
    CASE value = Absent -> Absent
      [] value.type = 0 -> Bind(env, <<id, "", 0>>, Num(value.decimal))
      [] value.type = 1 -> Bind(Bind(Bind(env, <<id, "bid", 0>>, Num(value.bid)),
                                     <<id, "benchmark", 0>>, Num(value.benchmark)),
                                <<id, "ask", 0>>, Num(value.ask))
      [] value.type = 2 -> SetStreamValue(Bind(env, <<id, "timestamp", 0>>, Whole(value.at)),
                                          id, value.value)

(* The names that a compiled expression reads: windows in place of calls.  *)
RECURSIVE ReadsOf(_)
ReadsOf(s) ==
    IF s = <<>> THEN {}
    ELSE ReadsOf(Tail(s)) \cup
         (IF IsHistory(Head(s)) THEN {EnvName(HistoryRef(Head(s)))}
          ELSE IF Head(s).op = "name" THEN {Head(s).name} ELSE ReadsOf(Children(Head(s))))

Reads(e) == ReadsOf(<<e>>)

(* Compilation fails on a name that the environment does not have.         *)
Compiles(e, env) == Reads(e) \subseteq DOMAIN env

Apply(fn, x, env) ==
    CASE fn = "Equal" -> EqualFn(x[1], x[2])
      [] fn = "GreaterThan" -> GreaterThanFn(x[1], x[2])
      [] fn = "GreaterThanOrEqual" -> GreaterThanOrEqualFn(x[1], x[2])
      [] fn = "LessThan" -> LessThanFn(x[1], x[2])
      [] fn = "LessThanOrEqual" -> LessThanOrEqualFn(x[1], x[2])
      [] fn = "Abs" -> AbsFn(x[1]) [] fn = "Mul" -> MulFn(x[1], x[2])
      [] fn = "Div" -> DivFn(x[1], x[2]) [] fn = "Add" -> AddFn(x[1], x[2])
      [] fn = "Sub" -> SubFn(x[1], x[2]) [] fn = "Pow" -> PowFn(x[1], x[2])
      [] fn = "Sqrt" -> SqrtFn(x[1]) [] fn = "IsZero" -> IsZeroFn(x[1])
      [] fn = "IsNegative" -> IsNegativeFn(x[1]) [] fn = "IsPositive" -> IsPositiveFn(x[1])
      [] fn = "Round" -> RoundFn(x[1], x[2]) [] fn = "Ceil" -> CeilFn(x[1])
      [] fn = "Floor" -> FloorFn(x[1]) [] fn = "Avg" -> AvgFn(x)
      [] fn = "Sum" -> SumFn(x) [] fn = "Min" -> MinFn(x) [] fn = "Max" -> MaxFn(x)
      [] fn = "Count" -> CountFn(x[1]) [] fn = "First" -> FirstFn(x[1])
      [] fn = "Last" -> LastFn(x[1]) [] fn = "Median" -> MedianFn(x[1])
      [] fn = "Variance" -> VarianceFn(x[1]) [] fn = "Stddev" -> StddevFn(x[1])
      [] fn = "Delta" -> DeltaFn(x[1]) [] fn = "PctChange" -> PctChangeFn(x[1])
      [] fn = "Spread" -> SpreadFn(x[1]) [] fn = "SMA" -> SMAFn(x[1], x[2])
      [] fn = "WMA" -> WMAFn(x[1], x[2]) [] fn = "EMA" -> EMAFn(x[1], x[2])
      [] fn = "TWAP" -> IF Failed(env[TwapName]) THEN env[TwapName]
                        ELSE TwapFunc(env[TwapName].n, x[1], x[2])
      [] OTHER -> Fail("unknown name")

(* A compiled program looks names up in the environment it runs in; a name *)
(* that is not there is nil. Only the branch that is taken is evaluated.   *)
RECURSIVE Run(_, _)
Run(e, env) ==
    LET look(name) == IF name \in DOMAIN env THEN env[name] ELSE Nil
        children == [i \in DOMAIN Children(e) |-> Run(Children(e)[i], env)]
        take(test) == IF test.kind # "bool" THEN Fail("test") ELSE Run(e.args[IF test.b THEN 2 ELSE 3], env)
    IN CASE IsLiteral(e) -> Literal(e)
         [] e.op = "name" -> look(e.name)
         [] IsHistory(e) -> look(EnvName(HistoryRef(e)))
         [] e.op = "map" -> AllOf(children, LAMBDA s : FieldsOf(e.pairs, s))
         [] e.op = "if" -> Then(Run(e.args[1], env), take)
         [] OTHER -> AllOf(children, LAMBDA s : Apply(e.fn, s, env))

(* Only a decimal is a result.                                             *)
Result(v) == IF v.kind \in {"decimal", "error"} THEN v ELSE Fail("not a decimal")
=============================================================================
