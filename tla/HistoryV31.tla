----------------------------- MODULE HistoryV31 -----------------------------
(***************************************************************************)
(* Stream history of v31: a ring of chunks per (stream, aggregator) pair   *)
(* (llo/protocol/stream_history_ring.go), the store that reads and writes  *)
(* it in a round (llo/dev/v31/history.go), the depths that the channels    *)
(* require (history_requirements.go) and the values that a round records   *)
(* (aggregate and appendHistory in statetransition.go).                    *)
(*                                                                         *)
(* A record is its timestamp, which identifies the value.                  *)
(***************************************************************************)
EXTENDS Common, Folds

CONSTANTS
    Corrupt,                   \* stored bytes that do not decode
    MaxHistoryChunkRecords, MaxHistoryChunkSlots, MaxHistoryRecordsPerPair, MaxHistoryPairs,
    HistoryPairs,              \* sets of pairs, numbered in key order
    Depths,                    \* the depths that expressions ask for
    MaxTimestampedFutureSkew,
    MaxHistoryTime, MaxContendedTime   \* the last time of one pair, of several

(* What describes a window, and the records of one chunk of it.            *)
StreamHistoryHeader ==
    [required : Nat, first : Nat, counts : Seq(Nat), starts : Seq(Int), last : Int]
StreamHistoryChunk == [sequence : Nat, records : Seq(Int)]

(* The sizes of limits.go: retention leaves a slot free for a new chunk.   *)
ASSUME HistoryAssumption ==
    /\ {MaxHistoryChunkSlots, MaxTimestampedFutureSkew} \subseteq Nat
    /\ {MaxHistoryChunkRecords, MaxHistoryRecordsPerPair, MaxHistoryPairs} \subseteq Nat \ {0}
    /\ \A pairs \in HistoryPairs : IsFiniteSet(pairs) /\ pairs \subseteq Nat
    /\ Corrupt # Absent
    /\ \A bad \in {Absent, Corrupt} : bad \notin StreamHistoryHeader /\ bad \notin StreamHistoryChunk
    /\ MaxHistoryRecordsPerPair % MaxHistoryChunkRecords = 0
    /\ MaxHistoryChunkSlots = MaxHistoryRecordsPerPair \div MaxHistoryChunkRecords + 2
    /\ Depths \subseteq 1 .. MaxHistoryRecordsPerPair

VARIABLE history
(* history.stored   header and chunks of each pair in the key-value state  *)
(*        .pairs    the pairs that are aggregated                          *)
(*        .index    the pairs of the stored index                          *)
(*        .version  the stored layout version                              *)
(*        .carry    the carried timestamped value of each pair, 0 if none  *)
(*        .time     the agreed time of the last round                      *)
(*        .log      what was recorded since the window was last empty      *)
(*        .owed     how many of its newest records the window must hold    *)
(*        .read     what an expression read in the last round, else Absent *)
(*        .hurt     the pairs with corrupted bytes that nobody met yet     *)
(*        .faults   corruptions of stored bytes that may still happen      *)

Slots == 0 .. MaxHistoryChunkSlots - 1
HistoryChunkSlot(sequence) == sequence % MaxHistoryChunkSlots

Last(s) == s[Len(s)]
LastOf(s, n) == SubSeq(s, Len(s) - n + 1, Len(s))

(* The records of some chunks, oldest first.                               *)
InOrder(records) ==
    MapThenFoldSet(LAMBDA x, y : x \o y, <<>>, LAMBDA s : records[s], Minimum, DOMAIN records)

SumOf(s) == Cardinality({x \in (DOMAIN s) \X (1 .. MaxHistoryChunkRecords) : x[2] <= s[x[1]]})

-----------------------------------------------------------------------------
(* Decoding.                                                               *)

EmptyHeader == [required |-> 0, first |-> 0, counts |-> <<>>, starts |-> <<>>, last |-> 0]

Ascending(s) == \A i \in 1 .. Len(s) - 1 : s[i] < s[i + 1]

(* Only the newest chunk may be partial, and no chunk is redundant.        *)
StreamHistoryHeaderFromProto(h) ==
    /\ h.required <= MaxHistoryRecordsPerPair
    /\ Len(h.counts) = Len(h.starts) /\ Len(h.counts) <= MaxHistoryChunkSlots
    /\ IF h.counts = <<>> THEN h.first = 0 /\ h.last = 0
       ELSE /\ \A i \in DOMAIN h.counts :
                 IF i = Len(h.counts) THEN h.counts[i] \in 1 .. MaxHistoryChunkRecords
                 ELSE h.counts[i] = MaxHistoryChunkRecords
            /\ Ascending(h.starts)
            /\ IF Last(h.counts) = 1 THEN Last(h.starts) = h.last ELSE Last(h.starts) <= h.last
            /\ SumOf(Tail(h.counts)) < h.required
            /\ SumOf(h.counts) < h.required + MaxHistoryChunkRecords

StreamHistoryChunkFromProto(c) ==
    Len(c.records) \in 1 .. MaxHistoryChunkRecords /\ Ascending(c.records)

-----------------------------------------------------------------------------
(* The working copy of a window. Chunks are those loaded, by sequence.     *)

NewRingWindow(header) ==
    [header |-> header, chunks |-> [s \in {} |-> Absent], deleted |-> {},
     headerDirty |-> FALSE, dirtyChunk |-> Absent, stored |-> FALSE]

ResetRingWindow == [NewRingWindow(EmptyHeader) EXCEPT !.deleted = Slots, !.headerDirty = TRUE]

Newest(h) == h.first + Len(h.counts) - 1
HasRoom(h) == h.counts # <<>> /\ Last(h.counts) < MaxHistoryChunkRecords

(* The chunk that an append needs.                                         *)
AppendPlan(h) == IF h.required > 0 /\ HasRoom(h) THEN {Newest(h)} ELSE {}

Insufficient(h, n) == SumOf(h.counts) < n

(* The fewest newest chunks that hold n records.                           *)
ReadPlan(h, n) ==
    {h.first + i - 1 : i \in {j \in DOMAIN h.counts :
        SumOf(SubSeq(h.counts, j + 1, Len(h.counts))) < n}}

(* Provide: the chunk is the one that the header describes.                *)
Matches(h, c) ==
    LET i == c.sequence - h.first + 1
    IN /\ i \in DOMAIN h.counts
       /\ Len(c.records) = h.counts[i] /\ c.records[1] = h.starts[i]
       /\ i = Len(h.counts) => Last(c.records) = h.last

(* Whole chunks go from the oldest end while the rest is deep enough. An   *)
(* empty window is written as zero.                                        *)
EvictFirst(w, k) ==
    LET h == w.header
        gone == {h.first + i - 1 : i \in 1 .. k}
        rest == [h EXCEPT !.first = @ + k, !.counts = SubSeq(@, k + 1, Len(@)),
                          !.starts = SubSeq(@, k + 1, Len(@))]
    IN [w EXCEPT
          !.deleted = @ \cup {HistoryChunkSlot(s) : s \in gone},
          !.chunks = [s \in DOMAIN @ \ gone |-> @[s]],
          !.headerDirty = @ \/ k > 0,
          !.header = IF k = Len(h.counts) THEN [EmptyHeader EXCEPT !.required = h.required] ELSE rest]

Evict(w) ==
    LET h == w.header
        covers(k) == SumOf(SubSeq(h.counts, k + 1, Len(h.counts))) >= h.required
    IN EvictFirst(w, Maximum({0} \cup {k \in 1 .. Len(h.counts) : covers(k)}))

SetRequiredCount(w, n) ==
    IF w.header.required = n THEN w
    ELSE Evict([w EXCEPT !.header.required = n, !.headerDirty = TRUE])

Reset(n) == SetRequiredCount(ResetRingWindow, n)

(* The record goes to the newest chunk or, if that is full, to a new one.  *)
AppendRecord(w, t) ==
    LET h == w.header
        tail == IF HasRoom(h) THEN w.chunks[Newest(h)]
                ELSE [sequence |-> Newest(h) + 1, records |-> <<>>]
        grown == [tail EXCEPT !.records = Append(@, t)]
        counts == IF HasRoom(h) THEN [h.counts EXCEPT ![Len(h.counts)] = @ + 1]
                  ELSE Append(h.counts, 1)
        starts == IF HasRoom(h) THEN h.starts ELSE Append(h.starts, t)
    IN Evict([w EXCEPT
          !.header = [h EXCEPT !.last = t, !.counts = counts, !.starts = starts],
          !.chunks = Over([s \in {tail.sequence} |-> grown], @),
          !.headerDirty = TRUE, !.dirtyChunk = grown, !.stored = TRUE])

(* A record is stored if its timestamp is newer than the newest one.       *)
Newer(w, t) == w.header.required > 0 /\ (w.header.counts = <<>> \/ t > w.header.last)

(* Mutant: the slots of evicted chunks are not deleted while a chunk is    *)
(* written.                                                                *)
DeleteLater(w) == IF w.dirtyChunk = Absent THEN w.deleted ELSE {}

DeletedSlots(w) ==
    w.deleted \ (IF w.dirtyChunk = Absent THEN {} ELSE {HistoryChunkSlot(w.dirtyChunk.sequence)})

WriteSetEmpty(w) == ~w.headerDirty /\ w.dirtyChunk = Absent /\ DeletedSlots(w) = {}

-----------------------------------------------------------------------------
(* The store of a round, pair by pair. A pair's keys are [header, chunks].  *)

NoKeys == [header |-> Absent, chunks |-> [s \in Slots |-> Absent]]

(* The working copy that the round starts from: reset under another        *)
(* layout, empty if nothing is stored, reset if the header is corrupt.     *)
OpenWindow(keys, layoutReset, n) ==
    IF layoutReset THEN Reset(n)
    ELSE IF keys.header = Absent THEN SetRequiredCount(NewRingWindow(EmptyHeader), n)
    ELSE IF keys.header = Corrupt THEN Reset(n)
    ELSE IF ~StreamHistoryHeaderFromProto(keys.header) THEN Reset(n)
    ELSE SetRequiredCount(NewRingWindow(keys.header), n)

Readable(w, chunk) ==
    /\ chunk \notin {Absent, Corrupt}
    /\ StreamHistoryChunkFromProto(chunk)
    /\ Matches(w.header, chunk)

(* Chunks not yet loaded are read; one bad chunk discards the window.      *)
ProvideChunks(keys, w, sequences, n) ==
    LET missing == sequences \ DOMAIN w.chunks
        chunk(s) == keys.chunks[HistoryChunkSlot(s)]
    IN IF \A s \in missing : Readable(w, chunk(s))
       THEN [w EXCEPT !.chunks = Over([s \in missing |-> chunk(s)], @)]
       ELSE Reset(n)

AppendIfNewer(w, t) == IF Newer(w, t) THEN AppendRecord(w, t) ELSE w

(* A value that is too large leaves a gap.                                 *)
StoreAppend(keys, w, value, n) ==
    IF value = Absent \/ n = 0 THEN w
    ELSE LET loaded == ProvideChunks(keys, w, AppendPlan(w.header), n)
         IN IF value.large THEN loaded ELSE AppendIfNewer(loaded, value.t)

(* The retained records, oldest first, of a window that is fully loaded.   *)
RecordsOf(w, sequences) == InOrder([s \in sequences |-> w.chunks[s].records])

(* Series: what is read, and the window after the read.                    *)
ReadNewest(w, count, n) ==
    LET records == RecordsOf(w, ReadPlan(w.header, count))
    IN IF Insufficient(w.header, count) THEN [window |-> w, read |-> Absent]
       ELSE IF ~Ascending(records) THEN [window |-> Reset(n), read |-> Absent]
       ELSE [window |-> w, read |-> LastOf(records, count)]

Series(keys, w, count, n) ==
    IF count = 0 \/ Insufficient(w.header, count) THEN [window |-> w, read |-> Absent]
    ELSE ReadNewest(ProvideChunks(keys, w, ReadPlan(w.header, count), n), count, n)

DeleteWindow(keys, w) ==
    [header |-> Absent,
     chunks |-> [s \in Slots |-> IF s \in DeletedSlots(w) THEN Absent ELSE keys.chunks[s]]]

(* Header and newest chunk are written, then the evicted slots deleted.    *)
WriteWindow(keys, w) ==
    [header |-> IF w.headerDirty THEN w.header ELSE keys.header,
     chunks |-> [s \in Slots |->
        IF w.dirtyChunk # Absent /\ HistoryChunkSlot(w.dirtyChunk.sequence) = s THEN w.dirtyChunk
        ELSE IF s \in DeletedSlots(w) THEN Absent ELSE keys.chunks[s]]]

(* A pair without a depth is deleted if it is stored.                      *)
FlushPair(keys, indexed, w) ==
    IF w.header.required > 0 THEN WriteWindow(keys, w)
    ELSE IF indexed THEN DeleteWindow(keys, w) ELSE keys

-----------------------------------------------------------------------------
(* Depths, and the value that a round records.                             *)

(* The pairs that have a channel asking for a depth.                       *)
Asked(asked) == {p \in DOMAIN asked : asked[p] > 0}

(* Mutant: pairs are admitted in key order, newcomers among them.          *)
AdmitInOrder(asked, incumbents) ==
    {p \in Asked(asked) : Cardinality({q \in Asked(asked) : q < p}) < MaxHistoryPairs}

(* Pairs with a window are admitted first, then the others in key order,   *)
(* up to the cap.                                                          *)
AdmitHistoryRequirements(asked, incumbents) ==
    LET held == Asked(asked) \cap incumbents
        before(p) == {q \in Asked(asked) :
            IF p \in held THEN q \in held /\ q < p ELSE q \in held \/ q < p}
    IN {p \in Asked(asked) : Cardinality(before(p)) < MaxHistoryPairs}

TooFarAhead(t, now) == t > now + MaxTimestampedFutureSkew

(* A round's result for a pair: none (the aggregation failed), a plain     *)
(* value, one that is too large to store, or one with its own timestamp t. *)
PairResults(now) ==
    {[kind |-> "none"], [kind |-> "plain"], [kind |-> "large"]} \cup
    {[kind |-> "timestamped", t |-> t] :
        t \in {now + MaxTimestampedFutureSkew, now + MaxTimestampedFutureSkew + 1}}

(* The carried value that the round starts from, 0 if none.                *)
PrevCarry(carry, now) == IF TooFarAhead(carry, now) THEN 0 ELSE carry

Adopts(result, now) == result.kind = "timestamped" /\ ~TooFarAhead(result.t, now)

NextCarry(carry, result, now) ==
    CASE Adopts(result, now) -> Maximum({PrevCarry(carry, now), result.t})
      [] result.kind \in {"plain", "large"} -> 0
      [] OTHER -> PrevCarry(carry, now)

(* What appendHistory is called with: nothing after a failed aggregation,  *)
(* the carried value if the new one is not newer.                          *)
AgreedRecord(carry, result, now) ==
    CASE Adopts(result, now) -> [t |-> NextCarry(carry, result, now), large |-> FALSE]
      [] result.kind \in {"plain", "large"} -> [t |-> now, large |-> result.kind = "large"]
      [] OTHER -> Absent

-----------------------------------------------------------------------------
(* A pair's passage through a round: open, append, read, flush.            *)
PairRound(keys, indexed, layoutReset, n, value, count) ==
    LET opened == OpenWindow(keys, layoutReset /\ indexed, n)
        appended == StoreAppend(keys, opened, value, n)
        done == Series(keys, appended, count, n)
    IN [keys |-> FlushPair(keys, indexed, done.window),
        kept |-> done.window.header.required > 0
                 /\ (indexed \/ ~WriteSetEmpty(done.window)),
        restarted |-> Slots \subseteq done.window.deleted,
        read |-> done.read]

(* The history variables after a round. A window that was corrupt, or of   *)
(* another layout, may restart.                                            *)
LogAfter(log, value, n, excused) ==
    IF n = 0 THEN <<>>
    ELSE LET base == IF excused THEN <<>> ELSE log
             fresh == value # Absent /\ (base = <<>> \/ value.t > Last(base)) /\ ~value.large
             all == IF fresh THEN Append(base, value.t) ELSE base
         IN LastOf(all, Minimum({Len(all), MaxHistoryRecordsPerPair + MaxHistoryChunkRecords}))

RecordsIn(keys) ==
    IF keys.header \in {Absent, Corrupt} THEN <<>>
    ELSE LET h == keys.header
             at(i) == keys.chunks[HistoryChunkSlot(h.first + i - 1)]
         IN InOrder([i \in DOMAIN h.counts |->
                        IF at(i) \in {Absent, Corrupt} THEN <<>> ELSE at(i).records])

(* n: the admitted depth, 0 for a pair that is not admitted.               *)
AfterPair(p, out, value, n, asked) ==
    LET excused == out.restarted /\ (p \in history.hurt \/ history.version # "current")
        entitled == IF p \in history.index THEN asked ELSE n
        kept == IF excused /\ n > 0 THEN RecordsIn(out.keys)
                ELSE LogAfter(history.log[p], value, entitled, FALSE)
        grew == entitled > 0 /\ Len(kept) > 0 /\ (history.log[p] = <<>> \/ Last(kept) # Last(history.log[p]))
    IN [log |-> kept,
        owed |-> IF excused \/ (p \in history.hurt) THEN 0
                 ELSE Minimum({entitled, history.owed[p] + IF grew THEN 1 ELSE 0})]

HistoryHorizon == IF Cardinality(history.pairs) = 1 THEN MaxHistoryTime ELSE MaxContendedTime

Round(asked, results, counts, now) ==
    LET admitted == AdmitHistoryRequirements(asked, history.index)
        depth(p) == IF p \in admitted THEN asked[p] ELSE 0
        value(p) == AgreedRecord(history.carry[p], results[p], now)
    IN \E outs \in {[p \in history.pairs |->
            PairRound(history.stored[p], p \in history.index, history.version # "current",
                      depth(p), value(p), IF p \in admitted THEN counts[p] ELSE 0)]} :
       \E afters \in {[p \in history.pairs |-> AfterPair(p, outs[p], value(p), depth(p), asked[p])]} :
       LET index == {p \in history.pairs : outs[p].kept}
       IN history' = [history EXCEPT
            !.stored = [p \in history.pairs |-> outs[p].keys],
            !.index = index,
            !.version = IF @ # "current" /\ (history.index # {} \/ index # {}) THEN "current" ELSE @,
            !.carry = [p \in history.pairs |-> NextCarry(@[p], results[p], now)],
            !.time = now,
            !.log = [p \in history.pairs |-> afters[p].log],
            !.owed = [p \in history.pairs |-> afters[p].owed],
            !.read = [p \in history.pairs |-> outs[p].read],
            !.hurt = {p \in @ : p \in index /\ ~outs[p].restarted}]

(* An expression that is not evaluated makes a difference only while there *)
(* are corrupt bytes to find.                                              *)
HistoryRound ==
    /\ history # Absent
    /\ \E now \in {history.time, history.time + 1} \cap 1 .. HistoryHorizon,
          asked \in [history.pairs -> {0} \cup Depths],
          reads \in IF history.hurt = {} THEN {TRUE} ELSE BOOLEAN :
       \E result \in PairResults(now) :
          Round(asked, [p \in history.pairs |-> result],
                [p \in history.pairs |-> IF reads THEN asked[p] ELSE 0], now)

(* Stored bytes go bad: a header, or a chunk, or a chunk is gone.          *)
CorruptStored ==
    /\ history # Absent
    /\ history.faults > 0
    /\ \E p \in history.index :
         /\ history.stored[p].header # Corrupt
         /\ \/ history' = [history EXCEPT !.stored[p].header = Corrupt,
                               !.hurt = @ \cup {p}, !.owed[p] = 0, !.faults = @ - 1]
            \/ \E s \in Slots, bad \in {Corrupt, Absent} :
                 /\ history.stored[p].chunks[s] # Absent
                 /\ history' = [history EXCEPT !.stored[p].chunks[s] = bad,
                               !.hurt = @ \cup {p}, !.owed[p] = 0, !.faults = @ - 1]

HistoryNext == HistoryRound \/ CorruptStored

(* A fresh state, or one that another layout left behind.                  *)
OtherLayout ==
    [header |-> [required |-> 1, first |-> 0, counts |-> <<1>>, starts |-> <<0>>, last |-> 0],
     chunks |-> [s \in Slots |-> IF s = 0 THEN [sequence |-> 0, records |-> <<0>>] ELSE Absent]]

(* A window that went once around the ring.                                *)
WarmWindow ==
    LET full == MaxHistoryChunkRecords
        newest == MaxHistoryChunkSlots - 1
        records == [i \in 1 .. full |-> i]
    IN [header |-> [required |-> full, first |-> newest, counts |-> <<full>>, starts |-> <<1>>, last |-> full],
        chunks |-> [s \in Slots |-> IF s = newest THEN [sequence |-> newest, records |-> records] ELSE Absent]]

Started(pairs, keys, held, version, log) ==
    [stored |-> [p \in pairs |-> IF p \in held THEN keys ELSE NoKeys],
     pairs |-> pairs, index |-> held, version |-> version,
     carry |-> [p \in pairs |-> 0], time |-> Len(log),
     log |-> [p \in pairs |-> IF p \in held THEN log ELSE <<>>],
     owed |-> [p \in pairs |-> IF p \in held THEN Len(log) ELSE 0],
     read |-> [p \in pairs |-> Absent], hurt |-> {}, faults |-> 1]

HistoryInit ==
    \E pairs \in HistoryPairs :
       \/ \E old \in {S \in SUBSET pairs : Cardinality(S) <= MaxHistoryPairs} :
             history = Started(pairs, OtherLayout, old, "other", <<>>)
       \/ /\ pairs = {1}
          /\ history = Started(pairs, WarmWindow, pairs, "current", [i \in 1 .. MaxHistoryChunkRecords |-> i])

-----------------------------------------------------------------------------
IsSuffix(s, t) == Len(s) <= Len(t) /\ s = LastOf(t, Len(s))

(* A window is the newest agreed values of its pair, each once and none    *)
(* left out, at the depth that channels asked for all along; an expression *)
(* reads exactly the newest of them. This goes through appends into a ring *)
(* of slots that are used again, growing and shrinking depths, carried     *)
(* values that are agreed again, competition for the capped number of      *)
(* windows, another layout and corrupt bytes (only a corrupt window may    *)
(* start again).                                                           *)
HistoryFaithful ==
    history # Absent => \A p \in history.pairs :
        /\ history.read[p] # Absent => IsSuffix(history.read[p], history.log[p])
        /\ (p \notin history.hurt /\ history.version = "current") =>
             /\ IsSuffix(RecordsIn(history.stored[p]), history.log[p])
             /\ Len(RecordsIn(history.stored[p])) >= history.owed[p]

RetainedSlots(h) == {HistoryChunkSlot(h.first + i - 1) : i \in DOMAIN h.counts}

(* No stored key is out of reach: a pair with keys is in the index, so     *)
(* that a later round can delete them, and every chunk is one that the     *)
(* header retains, since nothing else ever names its slot.                 *)
HistoryNoLeak ==
    history # Absent => \A p \in history.pairs :
        /\ history.stored[p] # NoKeys => p \in history.index
        /\ \A s \in Slots :
             (history.stored[p].chunks[s] # Absent /\ history.stored[p].header # Corrupt) =>
                 history.stored[p].header # Absent /\ s \in RetainedSlots(history.stored[p].header)
=============================================================================
