-------------------------- MODULE CalculatedStreams --------------------------
(***************************************************************************)
(* How a process evaluates calculated streams (llo/protocol/calculated:    *)
(* calculated.go, program.go, expression_pins.go). The plugin instances of *)
(* the process share a cache of analysed and compiled expressions, in which*)
(* each pins those it evaluates, and a pool of environments. A round       *)
(* prepares its channels one by one, evaluates them on several workers and *)
(* applies the results in the order of the channels.                       *)
(*                                                                         *)
(* An input is what a round is given: [defs, aggregates, timestamp,        *)
(* history, append]. history maps a stream to its records, or is Absent in *)
(* v30, which has none; append is the v30 form, which also extends the     *)
(* channel definitions.                                                    *)
(***************************************************************************)
EXTENDS Expressions

CONSTANTS
    Plugins,
    MaxAnalysisCacheEntries,
    MaxEvaluationWorkers,
    MinParallelEvaluationWeight,
    MaxCalculationRounds          \* bound: rounds of all instances

ASSUME CalculatedAssumption ==
    /\ {MaxAnalysisCacheEntries, MaxEvaluationWorkers} \subseteq Nat \ {0}
    /\ {MinParallelEvaluationWeight, MaxCalculationRounds} \subseteq Nat

VARIABLE calc
(* calc.entries    the unpinned expressions, most recently used first      *)
(*     .pinned     holders of each pinned expression                       *)
(*     .compiled   the cached expressions that have a program              *)
(*     .envs       environments that were allocated, by number             *)
(*     .pool       those that are free                                     *)
(*     .plugin     for each instance: what it does, its held expressions,  *)
(*                 and of its round the input, the works and results, the  *)
(*                 workers, and the aggregates and definitions so far      *)
(*     .rounds     how many there were                                     *)
(*     .sample     a window for the functions alone, or Absent             *)

-----------------------------------------------------------------------------
(* program.go: the analysis cache, as a record [entries, pinned, compiled].*)

Cached(c, e) == e \in DOMAIN c.pinned \/ e \in Elements(c.entries)

Without(s, e) == SelectSeq(s, LAMBDA x : x # e)

(* insertLocked: to the front, and out with what is over the limit,        *)
(* programs included.                                                      *)
InsertLocked(c, e) ==
    LET all == <<e>> \o c.entries
        kept == SubSeq(all, 1, Minimum({Len(all), MaxAnalysisCacheEntries}))
    IN [c EXCEPT !.entries = kept,
                 !.compiled = @ \cap (Elements(kept) \cup DOMAIN c.pinned)]

LookupLocked(c, e) ==
    IF e \in DOMAIN c.pinned THEN c ELSE [c EXCEPT !.entries = <<e>> \o Without(@, e)]

(* get, and put if it is not there.                                        *)
Entry(c, e) == IF Cached(c, e) THEN LookupLocked(c, e) ELSE InsertLocked(c, e)

EntryAll(c, s) ==
    LET after[i \in 0 .. Len(s)] == IF i = 0 THEN c ELSE Entry(after[i - 1], s[i])
    IN after[Len(s)]

(* A no-op if the entry was evicted in between.                            *)
StoreProgram(c, e) ==
    IF Cached(c, e) THEN [LookupLocked(c, e) EXCEPT !.compiled = @ \cup {e}] ELSE c

(* pin under the lock: an entry is taken over with its program.            *)
PinOne(c, e) ==
    IF e \in DOMAIN c.pinned THEN [c EXCEPT !.pinned[e] = @ + 1]
    ELSE [c EXCEPT !.entries = Without(@, e), !.pinned = (e :> 1) @@ @]

(* Mutant: an expression is released by the first that lets go of it.      *)
UnpinForAll(c, e) ==
    IF e \notin DOMAIN c.pinned THEN c
    ELSE InsertLocked([c EXCEPT !.pinned = [x \in DOMAIN @ \ {e} |-> @[x]]], e)

UnpinOne(c, e) ==
    IF e \notin DOMAIN c.pinned THEN c
    ELSE IF c.pinned[e] > 1 THEN [c EXCEPT !.pinned[e] = @ - 1]
    ELSE InsertLocked([c EXCEPT !.pinned = [x \in DOMAIN @ \ {e} |-> @[x]]], e)

Pin(c, s) ==
    LET after[i \in 0 .. Len(s)] == IF i = 0 THEN c ELSE PinOne(after[i - 1], s[i])
    IN after[Len(s)]

Unpin(c, s) ==
    LET after[i \in 0 .. Len(s)] == IF i = 0 THEN c ELSE UnpinOne(after[i - 1], s[i])
    IN after[Len(s)]

(* A map is walked in any order.                                           *)
Orders(S) ==
    {s \in [1 .. Cardinality(S) -> S] : \A i, j \in DOMAIN s : s[i] = s[j] => i = j}

-----------------------------------------------------------------------------
(* The parts of one round.                                                 *)

IsCalculated(cd) == ~cd.tombstone /\ cd.format = "expr"

EvaluatedExpressions(defs) ==
    {a.expr : a \in UNION {Elements(defs[c].abi) :
        c \in {d \in DOMAIN defs : IsCalculated(defs[d]) /\ defs[d].abi # Absent}}} \ {Absent}

Following(S, from) == Minimum({c \in S : c > from} \cup {Maximum(S \cup {from}) + 1})

(* A reader of history: the newest records of a stream.                    *)
HistorySeries(history, ref) ==
    LET records == history[ref.stream]
    IN IF Len(records) < ref.count THEN Fail("insufficient history")
       ELSE SeriesFromRecords(LastValues(records, ref.count), ref.field)

(* The windows that one expression declares.                               *)
WindowsFor(entry, history, aggregators) ==
    IF ~entry.ok THEN Absent
    ELSE IF entry.refs = {} THEN <<>>
    ELSE IF history = Absent THEN Absent
    ELSE IF \E ref \in entry.refs : ref.stream \notin DOMAIN aggregators THEN Absent
    ELSE IF \E ref \in entry.refs : Failed(HistorySeries(history, ref)) THEN Absent
    ELSE [name \in {EnvName(ref) : ref \in entry.refs} |->
             HistorySeries(history, CHOOSE ref \in entry.refs : EnvName(ref) = name)]

ResolveHistory(e, history, aggregators) ==
    WindowsFor(AnalyzeHistoryExpression(e), history, aggregators)

(* The windows up to the first expression that cannot have its own.        *)
UpToAbsent(windows) ==
    SubSeq(windows, 1, Minimum({j \in DOMAIN windows : windows[j] = Absent} \cup {Len(windows) + 1}) - 1)

BindChannelHistory(abi, history, aggregators) ==
    UpToAbsent([j \in DOMAIN abi |-> IF abi[j].id = 0 \/ abi[j].expr = Absent THEN Absent
                                     ELSE ResolveHistory(abi[j].expr, history, aggregators)])

(* All values of a channel, or Absent.                                     *)
SetStreamValues(env, cd, aggregates) ==
    LET plain == Plainly(cd)
        value(s) == IF <<s.id, s.aggregator>> \in DOMAIN aggregates
                    THEN aggregates[<<s.id, s.aggregator>>] ELSE Absent
        after[i \in 0 .. Len(plain)] ==
            IF i = 0 THEN env
            ELSE IF after[i - 1] = Absent THEN Absent
            ELSE SetStreamValue(after[i - 1], plain[i].id, value(plain[i]))
    IN after[Len(plain)]

EvaluationWeight(works) ==
    LET longest == Maximum({0} \cup {Len(works[k].windows) : k \in DOMAIN works})
        one(expr, window) ==
            1 + Cardinality(UNION {{name} \X (1 .. Len(window[name].values)) : name \in DOMAIN window})
              + AnalyzeHistoryExpression(expr).twapCalls * TwapMaxWindowSeconds
        all[k \in 0 .. Len(works), j \in 0 .. longest] ==
            IF k = 0 THEN 0
            ELSE IF j = 0 THEN all[k - 1, longest]
            ELSE all[k, j - 1] + (IF j > Len(works[k].windows) THEN 0
                                  ELSE one(works[k].abi[j].expr, works[k].windows[j]))
    IN all[Len(works), longest]

(* The expressions that it looks up on the way.                            *)
Weighed(works) ==
    LET all[k \in 0 .. Len(works)] ==
            IF k = 0 THEN <<>>
            ELSE all[k - 1] \o [j \in DOMAIN works[k].windows |-> works[k].abi[j].expr]
    IN all[Len(works)]

(* A form of the value that decodes, if it has one.                        *)
StorableDecimal(d) ==
    IF ~CheckDecimalCoefficient(d) THEN Absent
    ELSE IF CheckDecimalExponent(d) THEN d
    ELSE LET c == CanonicalDecimal(d) IN IF CheckDecimalExponent(c) THEN c ELSE Absent

IsAggregated(aggregates, id) == \E key \in DOMAIN aggregates : key[1] = id

(* The values of a channel up to the first that clashes or is too large.   *)
ApplyValues(aggregates, abi, values) ==
    LET after[j \in 0 .. Len(values)] ==
            IF j = 0 THEN [aggregates |-> aggregates, ok |-> TRUE]
            ELSE LET before == after[j - 1]
                     d == StorableDecimal(values[j])
                 IN IF ~before.ok \/ IsAggregated(before.aggregates, abi[j].id) \/ d = Absent
                    THEN [before EXCEPT !.ok = FALSE]
                    ELSE [before EXCEPT !.aggregates =
                             (<<abi[j].id, "calculated">> :> Decimal(d)) @@ @]
    IN after[Len(values)].aggregates

(* v30: unless the last stream is already the last calculated one.         *)
AppendCalculated(cd) ==
    IF cd.streams[Len(cd.streams)].id = cd.abi[Len(cd.abi)].id THEN cd
    ELSE [cd EXCEPT !.streams = @ \o [j \in DOMAIN cd.abi |->
                                         [id |-> cd.abi[j].id, aggregator |-> "calculated"]]]

-----------------------------------------------------------------------------
(* The steps of an instance.                                               *)

IdlePlugin == [at |-> "idle", held |-> {}, added |-> {}, removed |-> {}, input |-> Absent, works |-> <<>>,
               results |-> <<>>, taken |-> 0, workers |-> <<>>, cursor |-> 0,
               aggregates |-> Absent, defs |-> Absent]

CalculationInit ==
    calc = [entries |-> <<>>, pinned |-> <<>>, compiled |-> {}, envs |-> <<>>, pool |-> {},
            sample |-> Absent, rounds |-> 0, plugin |-> [p \in Plugins |-> IdlePlugin]]

(* No instance, but a window for the functions to work on.                 *)
SampleInit(samples) ==
    \E sample \in samples :
        calc = [entries |-> <<>>, pinned |-> <<>>, compiled |-> {}, envs |-> <<>>, pool |-> {},
                sample |-> sample, rounds |-> 0, plugin |-> <<>>]

At(p, step) == calc.plugin[p].at = step

(* The caches of c and the changed instance.                               *)
Step(c, p, plugin) == calc' = [c EXCEPT !.plugin[p] = plugin]

(* ExpressionPins.Set before the evaluation: what the new definitions need *)
(* and the old ones did.                                                   *)
StartRound(p, input) ==
    LET me == calc.plugin[p]
        next == EvaluatedExpressions(input.defs)
    IN /\ At(p, "idle") \/ At(p, "done")
       /\ calc.rounds < MaxCalculationRounds
       /\ Step([calc EXCEPT !.rounds = @ + 1], p,
               [IdlePlugin EXCEPT !.at = IF next = me.held THEN "prepare" ELSE "analyze",
                                  !.held = me.held, !.added = next \ me.held,
                                  !.removed = me.held \ next, !.input = input,
                                  !.aggregates = input.aggregates, !.defs = input.defs])

(* pin looks the expressions up before it takes the lock.                  *)
AnalyzeAdded(p) ==
    /\ At(p, "analyze")
    /\ \E s \in Orders({e \in calc.plugin[p].added : Cached(calc, e)}) :
          Step(EntryAll(calc, s), p, [calc.plugin[p] EXCEPT !.at = "pin"])

PinAdded(p) ==
    /\ At(p, "pin")
    /\ \E s \in Orders(calc.plugin[p].added) :
          Step(Pin(calc, s), p, [calc.plugin[p] EXCEPT !.at = "unpin", !.held = @ \cup calc.plugin[p].added])

UnpinRemoved(p) ==
    /\ At(p, "unpin")
    /\ \E s \in Orders(calc.plugin[p].removed) :
          Step(Unpin(calc, s), p, [calc.plugin[p] EXCEPT !.at = "prepare",
                                                         !.held = @ \ calc.plugin[p].removed])

(* NewEnv takes a free environment, or makes one. (The pool may make one   *)
(* in any case, which is as good as a clean one.)                          *)
Obtainable == IF calc.pool = {} THEN {Cardinality(DOMAIN calc.envs) + 1} ELSE calc.pool

EnvContents(id) == IF id \in DOMAIN calc.envs THEN calc.envs[id] ELSE DefaultEnv

(* Mutant: what the last user bound stays.                                 *)
LeakyRelease(c, id, was) == [c EXCEPT !.envs = (id :> was) @@ @, !.pool = @ \cup {id}]

(* release: everything that is not a default is removed, every default     *)
(* restored, and the environment is free.                                  *)
Release(c, id, was) ==
    LET clean == DefaultEnv @@ [name \in DOMAIN was \cap DOMAIN DefaultEnv |-> was[name]]
    IN [c EXCEPT !.envs = (id :> clean) @@ @, !.pool = @ \cup {id}]

Calculated(defs) == {c \in DOMAIN defs : IsCalculated(defs[c])}

Prepared(p, me, cid, cd, id, env, windows) ==
    LET tried == SelectSeq(SubSeq(cd.abi, 1, Minimum({Len(windows) + 1, Len(cd.abi)})),
                           LAMBDA a : a.id # 0 /\ a.expr # Absent)
        work == [cid |-> cid, abi |-> cd.abi, env |-> id, windows |-> windows]
    IN Step(EntryAll([calc EXCEPT !.pool = @ \ {id}, !.envs = (id :> env) @@ @],
                     [j \in DOMAIN tried |-> tried[j].expr]),
            p, [me EXCEPT !.works = Append(@, work)])

PrepareIn(p, me, cid, cd, id, fresh, env, aggregators) ==
    IF env = Absent \/ cd.abi = Absent \/ cd.streams = <<>>
    THEN Step(Release([calc EXCEPT !.pool = @ \ {id}], id, fresh), p, me)
    ELSE Prepared(p, me, cid, cd, id, env, BindChannelHistory(cd.abi, me.input.history, aggregators))

(* One channel of prepareCalculatedStreams.                                *)
PrepareChannel(p) ==
    LET me == calc.plugin[p]
        cid == Following(Calculated(me.defs), me.cursor)
        cd == me.defs[cid]
        next == [me EXCEPT !.cursor = cid]
        fresh(id) == NewEnvIn(EnvContents(id), me.input.timestamp)
    IN /\ At(p, "prepare")
       /\ cid \in Calculated(me.defs)
       /\ IF AggregatorByStream(cd) = Absent THEN Step(calc, p, next)
          ELSE \E id \in Obtainable :
                  PrepareIn(p, next, cid, cd, id, fresh(id),
                            SetStreamValues(fresh(id), cd, me.input.aggregates), AggregatorByStream(cd))

Worker == [work |-> 0, expr |-> 1, values |-> <<>>, program |-> FALSE, at |-> "claim"]

(* All are prepared: workers are started if there is enough to do.         *)
StartWorkers(p) ==
    LET me == calc.plugin[p]
        weight == EvaluationWeight(me.works)
        weighed == EntryAll(calc, Weighed(me.works))
        workers == IF weight < MinParallelEvaluationWeight THEN 1
                   ELSE Minimum({Len(me.works), MaxEvaluationWorkers})
    IN /\ At(p, "prepare")
       /\ Following(Calculated(me.defs), me.cursor) \notin Calculated(me.defs)
       /\ Step(weighed, p, IF me.works = <<>> THEN [me EXCEPT !.at = "done"]
                           ELSE [me EXCEPT !.at = "evaluate", !.cursor = 1,
                                        !.results = [i \in DOMAIN me.works |-> <<>>],
                                        !.workers = [w \in 1 .. workers |-> Worker]])

(* A worker takes the next channel.                                        *)
Claim(p, w) ==
    LET me == calc.plugin[p]
    IN /\ At(p, "evaluate") /\ w \in DOMAIN me.workers
       /\ me.workers[w].at = "claim"
       /\ Step(calc, p, [me EXCEPT !.taken = @ + 1,
                           !.workers[w] = IF me.taken + 1 > Len(me.works) THEN [@ EXCEPT !.at = "end"]
                                          ELSE [Worker EXCEPT !.work = me.taken + 1, !.at = "look"]])

(* Its windows are bound and the program is looked up.                     *)
LookUpProgram(p, w) ==
    LET me == calc.plugin[p]
        it == me.workers[w]
        work == me.works[it.work]
        e == work.abi[it.expr].expr
        bound == [calc EXCEPT !.envs[work.env] = work.windows[it.expr] @@ @]
        ended == [me EXCEPT !.results[it.work] = it.values, !.workers[w].at = "claim"]
    IN /\ At(p, "evaluate") /\ w \in DOMAIN me.workers
       /\ it.at = "look"
       /\ IF it.expr > Len(work.windows) THEN Step(calc, p, ended)
          ELSE IF e \in calc.compiled
          THEN Step(LookupLocked(bound, e), p, [me EXCEPT !.workers[w].at = "run"])
          ELSE Step(bound, p, [me EXCEPT !.workers[w].at = "compile"])

(* Only successes are cached.                                              *)
CompileProgram(p, w) ==
    LET me == calc.plugin[p]
        it == me.workers[w]
        work == me.works[it.work]
        e == work.abi[it.expr].expr
    IN /\ At(p, "evaluate") /\ w \in DOMAIN me.workers
       /\ it.at = "compile"
       /\ IF Compiles(e, calc.envs[work.env])
          THEN Step(StoreProgram(calc, e), p, [me EXCEPT !.workers[w].at = "run"])
          ELSE Step(calc, p, [me EXCEPT !.results[it.work] = it.values, !.workers[w].at = "claim"])

(* The program runs; the first failure ends the channel.                   *)
RunProgram(p, w) ==
    LET me == calc.plugin[p]
        it == me.workers[w]
        work == me.works[it.work]
        after(result) ==
            IF Failed(result) THEN [me EXCEPT !.results[it.work] = it.values, !.workers[w].at = "claim"]
            ELSE [me EXCEPT !.workers[w] = [it EXCEPT !.at = "look", !.expr = @ + 1,
                                                      !.values = Append(@, result.d)]]
    IN /\ At(p, "evaluate") /\ w \in DOMAIN me.workers
       /\ it.at = "run"
       /\ Step(calc, p, after(Result(Run(work.abi[it.expr].expr, calc.envs[work.env]))))

(* One channel of applyCalculatedStreams, once all workers have ended.     *)
ApplyChannel(p) ==
    LET me == calc.plugin[p]
        work == me.works[me.cursor]
        last == me.cursor = Len(me.works)
    IN /\ At(p, "evaluate")
       /\ \A w \in DOMAIN me.workers : me.workers[w].at = "end"
       /\ Step(Release(calc, work.env, calc.envs[work.env]), p,
               [me EXCEPT !.aggregates = ApplyValues(@, work.abi, me.results[me.cursor]),
                          !.defs[work.cid] = IF me.input.append THEN AppendCalculated(@) ELSE @,
                          !.cursor = @ + 1, !.at = IF last THEN "done" ELSE @])

(* Admission and the validation of other oracles' votes analyse any        *)
(* expression.                                                             *)
AnalyzeOther(e) == calc' = Entry(calc, e)

ClosePlugin(p) ==
    /\ At(p, "idle") \/ At(p, "done")
    /\ \E s \in Orders(calc.plugin[p].held) :
          Step(Unpin(calc, s), p, [IdlePlugin EXCEPT !.at = "closed"])

CalculationNext(Inputs(_), others) ==
    /\ calc # Absent /\ calc.sample = Absent
    /\ \/ \E p \in Plugins :
            \/ \E input \in Inputs(p) : StartRound(p, input)
            \/ AnalyzeAdded(p)
            \/ PinAdded(p)
            \/ UnpinRemoved(p)
            \/ PrepareChannel(p)
            \/ StartWorkers(p)
            \/ ApplyChannel(p)
            \/ ClosePlugin(p)
            \/ \E w \in 1 .. MaxEvaluationWorkers :
                 Claim(p, w) \/ LookUpProgram(p, w) \/ CompileProgram(p, w) \/ RunProgram(p, w)
       \/ \E e \in others : AnalyzeOther(e)

-----------------------------------------------------------------------------
(* What a round should compute: every channel alone, in an environment of  *)
(* its own, with no cache.                                                 *)

ChannelEnv(input, cd) ==
    SetStreamValues(NewEnvIn(DefaultEnv, input.timestamp), cd, input.aggregates)

Unprepared(input, cd) ==
    \/ AggregatorByStream(cd) = Absent \/ ChannelEnv(input, cd) = Absent
    \/ cd.abi = Absent \/ cd.streams = <<>>

ChannelWindows(input, cd) == BindChannelHistory(cd.abi, input.history, AggregatorByStream(cd))

Expected(e, env) == IF Compiles(e, env) THEN Result(Run(e, env)) ELSE Fail("compile")

UpToFailed(values) ==
    [j \in 1 .. Minimum({j \in DOMAIN values : Failed(values[j])} \cup {Len(values) + 1}) - 1 |->
        values[j].d]

ExpectedValues(abi, windows, env) ==
    UpToFailed([j \in DOMAIN windows |-> Expected(abi[j].expr, windows[j] @@ env)])

ExpectedAggregates(input) ==
    LET top == Maximum({0} \cup DOMAIN input.defs)
        values(cd) == ExpectedValues(cd.abi, ChannelWindows(input, cd), ChannelEnv(input, cd))
        after[c \in 0 .. top] ==
            IF c = 0 THEN input.aggregates
            ELSE IF c \notin Calculated(input.defs) THEN after[c - 1]
            ELSE IF Unprepared(input, input.defs[c]) THEN after[c - 1]
            ELSE ApplyValues(after[c - 1], input.defs[c].abi, values(input.defs[c]))
    IN after[top]

(* A conditional that names something the channel does not bind in this    *)
(* round is not claimed for: see the README.                               *)
OpenConditional(e, env) ==
    (\E n \in Elements(Walk(e)) : n.op = "if") /\ ~Compiles(e, env)

ClaimedFor(input) ==
    \A c \in Calculated(input.defs) :
        \/ Unprepared(input, input.defs[c])
        \/ \A j \in DOMAIN ChannelWindows(input, input.defs[c]) :
              ~OpenConditional(input.defs[c].abi[j].expr,
                               ChannelWindows(input, input.defs[c])[j] @@ ChannelEnv(input, input.defs[c]))

(* CalculationIsPure: whatever the workers, the other instances and the    *)
(* caches do, a round ends with the aggregates that its input determines.  *)
(* No environment brings along what another channel or instance left in    *)
(* it, no program what it was compiled against, and of two channels that   *)
(* declare one stream the lower one wins (calculated.go:172-198, 603-643,  *)
(* 736-940).                                                               *)
CalculationIsPure ==
    calc # Absent => \A p \in DOMAIN calc.plugin :
        At(p, "done") /\ ClaimedFor(calc.plugin[p].input) =>
            calc.plugin[p].aggregates = ExpectedAggregates(calc.plugin[p].input)

(* PinsAreCounted: an expression that an instance evaluates is pinned once *)
(* for each such instance, outside the part of the cache that analysis by  *)
(* admission and validation can evict, which keeps its bound               *)
(* (program.go:350-404, expression_pins.go:36-72).                         *)
PinsAreCounted ==
    calc # Absent =>
        LET holders(e) == {p \in DOMAIN calc.plugin : e \in calc.plugin[p].held}
        IN /\ DOMAIN calc.pinned = UNION {calc.plugin[p].held : p \in DOMAIN calc.plugin}
           /\ \A e \in DOMAIN calc.pinned : calc.pinned[e] = Cardinality(holders(e))
           /\ DOMAIN calc.pinned \cap Elements(calc.entries) = {}
           /\ Len(calc.entries) <= MaxAnalysisCacheEntries
           /\ Cardinality(Elements(calc.entries)) = Len(calc.entries)

-----------------------------------------------------------------------------
(* The time-weighted average as the specification of the function has it:  *)
(* a price for every second of the window.                                 *)

Seconds(s, start, n) ==
    [k \in 0 .. n - 1 |->
        LET here == {i \in DOMAIN s.times : s.times[i] \div NanosPerSecond = start + k}
        IN IF here = {} THEN Absent ELSE s.values[Maximum(here)]]

LongestRun(S) ==
    Maximum({0} \cup {b - a + 1 : <<a, b>> \in {<<x, y>> \in S \X S : x <= y /\ x .. y \subseteq S}})

(* A price for every second from those of the seconds that were observed.  *)
DensePrices(observed, seen, n) ==
    LET left(k) == Maximum({i \in seen : i < k})
        right(k) == Minimum({i \in seen : i > k})
        ratio(k, l, r) == TwapStepRatio(observed[l], observed[r], r - l)
        price[k \in 0 .. n - 1] ==
            CASE k \in seen -> observed[k]
              [] k < Minimum(seen) -> observed[Minimum(seen)]
              [] k > Maximum(seen) -> observed[Maximum(seen)]
              [] OTHER -> DecRound(DecMul(price[k - 1], ratio(k, left(k), right(k))), DoublePrecision)
    IN [k \in 1 .. n |-> price[k - 1]]

DenseAverage(observed, seen, n, cfg) ==
    IF \/ Cardinality(seen) < cfg["minSamples"] \/ Minimum(seen) > cfg["maxHeadGap"]
       \/ n - 1 - Maximum(seen) > cfg["maxTailGap"]
       \/ LongestRun((Minimum(seen) .. Maximum(seen)) \ seen) > cfg["maxInteriorGap"]
    THEN Fail("rejected") ELSE DivRoundByInt(DecSum(DensePrices(observed, seen, n)), n, Precision)

DenseTwap(observed, n, cfg) ==
    IF \A k \in DOMAIN observed : observed[k] = Absent THEN Fail("rejected")
    ELSE DenseAverage(observed, {k \in DOMAIN observed : observed[k] # Absent}, n, cfg)

InRange(v, values) ==
    ~Failed(v) /\ ~DecLess(v.d, Smallest(values)) /\ ~DecLess(Largest(values), v.d)

Equals(v, w) == DecEqual(v.d, w.d)
AtMost(v, w) == LessThanOrEqualFn(v, w).b

(* Laws of the functions on two positive decimals.                         *)
ScalarLaws(x, y) ==
    /\ Equals(SubFn(AddFn(x, y), y), x)
    /\ LessThanFn(x, y) = GreaterThanFn(y, x)
    /\ LessThanFn(x, y).b = ~GreaterThanOrEqualFn(x, y).b
    /\ EqualFn(x, y).b = (AtMost(x, y) /\ AtMost(y, x))
    /\ IsZeroFn(SubFn(x, y)) = EqualFn(x, y) /\ IsNegativeFn(SubFn(x, y)) = LessThanFn(x, y)
    /\ AtMost(FloorFn(x), x) /\ AtMost(x, CeilFn(x)) /\ AtMost(SubFn(CeilFn(x), FloorFn(x)), Whole(1))
    /\ AtMost(FloorFn(x), RoundFn(x, Whole(0))) /\ AtMost(RoundFn(x, Whole(0)), CeilFn(x))
    /\ Equals(PowFn(x, Whole(2)), RoundFn(MulFn(x, x), Whole(Precision)))
    /\ Equals(SqrtFn(MulFn(x, x)), x)
    /\ Equals(AddFn(MinFn(<<x, y>>), MaxFn(<<x, y>>)), SumFn(<<x, y>>))

(* Laws of the functions on a window w of n records.                       *)
WindowLaws(w, n) ==
    /\ InRange(MedianFn(w), w.values)
    /\ \A k \in 1 .. n : \A v \in {SMAFn(w, Whole(k)), WMAFn(w, Whole(k)), EMAFn(w, Whole(k))} :
          InRange(v, w.values)
    /\ EMAFn(w, Whole(n)) = SMAFn(w, Whole(n))
    /\ AtMost(MulFn(CountFn(w), MinFn(<<w>>)), SumFn(<<w>>))
    /\ AtMost(SumFn(<<w>>), MulFn(CountFn(w), MaxFn(<<w>>)))
    /\ n >= 2 => /\ AtMost(StddevFn(w), SpreadFn(w)) /\ AtMost(AbsFn(DeltaFn(w)), SpreadFn(w))
                 /\ Equals(AddFn(FirstFn(w), DeltaFn(w)), LastFn(w))
                 /\ IsNegativeFn(PctChangeFn(w)).b => IsNegativeFn(DeltaFn(w)).b

(* WindowFunctionsSound: on positive prices the scalar functions obey      *)
(* their laws; over a window the averages stay within its range in spite of*)
(* their roundings, the moving ones agree where their definitions meet,    *)
(* neither the standard deviation nor the change exceeds the spread; and   *)
(* the time-weighted average, computed from the observations alone, accepts*)
(* those windows and gives those values that the dense series of all       *)
(* seconds would (calculated.go:200-560, functions_series.go,              *)
(* functions_ma.go, functions_twap.go:132-262).                            *)
WindowFunctionsSound ==
    calc # Absent /\ calc.sample # Absent =>
        LET w == calc.sample.window
            second == calc.sample.anchor \div NanosPerSecond
            dense(cfg) == DenseTwap(Seconds(w, second - cfg["window"], cfg["window"]), cfg["window"], cfg)
        IN /\ WindowLaws(w, Len(w.values))
           /\ ScalarLaws(Num(w.values[1]), Num(w.values[Len(w.values)]))
           /\ TwapFunc(calc.sample.anchor, w, calc.sample.config)
                = Then(ParseTWAPConfig(calc.sample.config), LAMBDA cfg : dense(cfg.fields))
=============================================================================
