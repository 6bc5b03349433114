---------------------------- MODULE OptsCacheV30 ----------------------------
(***************************************************************************)
(* The caches of decoded channel opts of LLO v30 nodes                     *)
(* (llo/protocol/opts_cache.go) as the plugin uses them.                   *)
(*                                                                         *)
(* Outcome() keeps one cache in step with the agreed definitions by        *)
(* applying each round's votes to it (llo/v30/plugin_outcome.go:98-171).   *)
(* A node does not compute every agreed round (plugin_reports.go:29-32),   *)
(* and computes rounds that are not agreed when a leader fails. Reports()  *)
(* has a cache of its own, which it syncs to the outcome it is called for  *)
(* (plugin_reports.go:40-46), possibly from two goroutines at once.        *)
(*                                                                         *)
(* Of a channel definition only the opts matter here.                      *)
(***************************************************************************)
EXTENDS Common

CONSTANTS
    Nodes,      \* some of the oracles: others can agree on a round without them
    Callers,    \* the goroutines of one oracle that call Reports()
    Channels,   \* channel ids
    Opts,       \* the raw opts that a definition can have
    MaxVotes    \* bound: the channels that the votes of one round change

ASSUME OptsAssumption == IsFiniteSet(Channels) /\ Absent \notin Opts /\ MaxVotes \in Nat

Entries == [Channels -> Opts \cup {Absent}]

Empty == [c \in Channels |-> Absent]

Present(entries) == {c \in Channels : entries[c] # Absent}

(* What a call read: nothing but the channels that it looked up.           *)
Lookups == UNION {[read -> Opts \cup {Absent}] : read \in SUBSET Channels}

VARIABLES
    agreed,     \* the opts of the last agreed definitions
    cache,      \* cache[n]: the OptsCache of Outcome() on node n
    outcomeCall,  \* outcomeCall[n]: the definitions and lookups of n's last Outcome()
    missed,     \* missed[n]: since its start n skipped an agreed change of the
                \* definitions, or computed one that was not agreed
    reports,    \* reportsOptsCache of one node
    inside,     \* the callers between Lock and Unlock of its reportsMu
    reportsCall \* reportsCall[w]: the definitions and lookups of caller w's Reports()

vars == <<agreed, cache, outcomeCall, missed, reports, inside, reportsCall>>

OptsCache == [raw : Entries, decoded : Entries]

Calls == [defs : Entries, seen : Lookups]

TypeOK ==
    /\ agreed \in Entries
    /\ cache \in [Nodes -> OptsCache]
    /\ outcomeCall \in [Nodes -> Calls]
    /\ missed \in [Nodes -> BOOLEAN]
    /\ reports \in OptsCache
    /\ inside \subseteq Callers
    /\ reportsCall \in [Callers -> Calls]

-----------------------------------------------------------------------------
(* The operations of an OptsCache.                                         *)

NewOptsCache == [raw |-> Empty, decoded |-> Empty]

NoCall == [defs |-> Empty, seen |-> [c \in {} |-> Absent]]

(* Mutant: the decoded value outlives the raw opts it was decoded from.    *)
KeepsDecoded(k, raw) == k.decoded

(* The decoded values that survive when the raw opts become raw: those of  *)
(* the channels whose opts are the same.                                   *)
InvalidateDecoded(k, raw) ==
    [c \in Channels |-> IF raw[c] = k.raw[c] THEN k.decoded[c] ELSE Absent]

SyncTo(k, defs) == [raw |-> defs, decoded |-> InvalidateDecoded(k, defs)]

ResetTo(defs) == [raw |-> defs, decoded |-> Empty]

CacheLen(k) == Cardinality(Present(k.raw))

GetOpts(k, c) == IF k.decoded[c] # Absent THEN k.decoded[c] ELSE k.raw[c]

(* The cache after it was asked for the channels of read.                  *)
Decode(k, read) ==
    [k EXCEPT !.decoded = [c \in Channels |-> IF c \in read THEN GetOpts(k, c) ELSE k.decoded[c]]]

Init ==
    /\ agreed = Empty
    /\ cache = [n \in Nodes |-> NewOptsCache]
    /\ outcomeCall = [n \in Nodes |-> NoCall]
    /\ missed = [n \in Nodes |-> FALSE]
    /\ reports = NewOptsCache
    /\ inside = {}
    /\ reportsCall = [w \in Callers |-> NoCall]

-----------------------------------------------------------------------------
(* A round's votes remove some channels and set the opts of others.        *)
Votes ==
    {votes \in [removed : SUBSET Present(agreed), updates : Entries] :
        Cardinality(votes.removed \cup Present(votes.updates)) <= MaxVotes}

Voted(entries, votes) ==
    [c \in Channels |-> IF votes.updates[c] # Absent THEN votes.updates[c]
                        ELSE IF c \in votes.removed THEN Absent ELSE entries[c]]

(* Mutant: the cache is never rebuilt.                                     *)
NeverReset(k, prev) == k

(* Outcome() rebuilds a cache of another length than the definitions.      *)
ResetOnMismatch(k, prev) == IF CacheLen(k) # Cardinality(Present(prev)) THEN ResetTo(prev) ELSE k

(* The calls of Remove and Set for the votes: Remove drops the decoded     *)
(* value, also when the channel is set again in the same round.            *)
OutcomeCache(k, prev, votes) ==
    LET base == ResetOnMismatch(k, prev)
        raw == Voted(base.raw, votes)
        kept == InvalidateDecoded(base, raw)
    IN  [raw |-> raw,
         decoded |-> [c \in Channels |-> IF c \in votes.removed THEN Absent ELSE kept[c]]]

(* Node n computes Outcome() on the agreed outcome and the votes, and      *)
(* looks up the opts of the channels of read.                              *)
Computes(n, votes, read) ==
    LET k == OutcomeCache(cache[n], agreed, votes) IN
    [cache |-> Decode(k, read),
     call |-> [defs |-> Voted(agreed, votes), seen |-> [c \in read |-> GetOpts(k, c)]]]

(* A round that becomes agreed. The nodes of who computed it, the others   *)
(* only learn its outcome.                                                 *)
Round(who, votes, read) ==
    LET done == [n \in who |-> Computes(n, votes, read)]
        next == Voted(agreed, votes)
    IN  /\ read \subseteq Present(next)
        /\ agreed' = next
        /\ cache' = [n \in Nodes |-> IF n \in who THEN done[n].cache ELSE cache[n]]
        /\ outcomeCall' = [n \in Nodes |-> IF n \in who THEN done[n].call ELSE outcomeCall[n]]
        /\ missed' = [n \in Nodes |-> missed[n] \/ (n \notin who /\ next # agreed)]
        /\ UNCHANGED <<reports, inside, reportsCall>>

(* A round that node n computes and that is not agreed: the leader failed, *)
(* and the next one collects other observations for the same round.        *)
AbandonedRound(n, votes, read) ==
    LET done == Computes(n, votes, read) IN
    /\ read \subseteq Present(Voted(agreed, votes))
    /\ cache' = [cache EXCEPT ![n] = done.cache]
    /\ outcomeCall' = [outcomeCall EXCEPT ![n] = done.call]
    /\ missed' = [missed EXCEPT ![n] = @ \/ Voted(agreed, votes) # agreed]
    /\ UNCHANGED <<agreed, reports, inside, reportsCall>>

Restart(n) ==
    /\ cache' = [cache EXCEPT ![n] = NewOptsCache]
    /\ outcomeCall' = [outcomeCall EXCEPT ![n] = NoCall]
    /\ missed' = [missed EXCEPT ![n] = FALSE]
    /\ UNCHANGED <<agreed, reports, inside, reportsCall>>

-----------------------------------------------------------------------------
(* Reports() for some agreed outcome, which need not be the last one:      *)
(* lock, sync, look up, unlock.                                            *)

(* Mutant: the mutex is not taken.                                         *)
NoLock(w) == TRUE

MayLock(w) == inside = {}

EnterReports(w, defs) ==
    /\ w \notin inside
    /\ MayLock(w)
    /\ inside' = inside \cup {w}
    /\ reports' = SyncTo(reports, defs)
    /\ reportsCall' = [reportsCall EXCEPT ![w] = [defs |-> defs, seen |-> NoCall.seen]]
    /\ UNCHANGED <<agreed, cache, outcomeCall, missed>>

LookUp(w, c) ==
    LET call == reportsCall[w] IN
    /\ w \in inside
    /\ c \in Present(call.defs)
    /\ reports' = Decode(reports, {c})
    /\ reportsCall' = [reportsCall EXCEPT ![w] =
         [call EXCEPT !.seen = [b \in DOMAIN call.seen \cup {c} |->
                                  IF b = c THEN GetOpts(reports, c) ELSE call.seen[b]]]]
    /\ UNCHANGED <<agreed, cache, outcomeCall, missed, inside>>

ExitReports(w) ==
    /\ w \in inside
    /\ inside' = inside \ {w}
    /\ reportsCall' = [reportsCall EXCEPT ![w] = NoCall]
    /\ UNCHANGED <<agreed, cache, outcomeCall, missed, reports>>

Next ==
    \/ \E votes \in Votes, read \in SUBSET Channels :
          \/ \E who \in SUBSET Nodes : Round(who, votes, read)
          \/ \E n \in Nodes : AbandonedRound(n, votes, read)
    \/ \E n \in Nodes : Restart(n)
    \/ \E w \in Callers :
          \/ \E defs \in Entries : EnterReports(w, defs)
          \/ \E c \in Channels : LookUp(w, c)
          \/ ExitReports(w)

Spec == Init /\ [][Next]_vars

-----------------------------------------------------------------------------
(* DecodedFresh: no cache holds a value decoded from opts that have been   *)
(* replaced since, whatever the order of removals, updates, resets and     *)
(* syncs (opts_cache.go:64-155).                                           *)
DecodedFresh ==
    \A k \in {cache[n] : n \in Nodes} \cup {reports} : \A c \in Channels :
        k.decoded[c] \in {k.raw[c], Absent}

(* ReportsPure: a call of Reports() looks up the opts of the outcome it    *)
(* was called for, although calls for other outcomes come before it and    *)
(* concurrently: it is "a pure function of (seqNr, outcome)"               *)
(* (plugin_reports.go:34-39).                                              *)
ReportsPure ==
    \A w \in Callers :
        LET call == reportsCall[w] IN
        \A c \in DOMAIN call.seen : call.seen[c] = call.defs[c]

(* CoherentUnlessMissed: Outcome() looks up the opts of the definitions    *)
(* that this round agreed on, on a node that since its start has computed  *)
(* every agreed change and no other one, restarts in the middle included   *)
(* (plugin_outcome.go:98-103).                                             *)
CoherentUnlessMissed ==
    \A n \in Nodes :
        LET call == outcomeCall[n] IN
        ~missed[n] => \A c \in DOMAIN call.seen : call.seen[c] = call.defs[c]

(* OutcomePure: "This function should be pure" (plugin.go:363): two nodes  *)
(* that come to the same definitions have looked up the same opts.         *)
OutcomePure ==
    \A m, n \in Nodes :
        LET a == outcomeCall[m]
            b == outcomeCall[n]
        IN  a.defs = b.defs => \A c \in DOMAIN a.seen \cap DOMAIN b.seen : a.seen[c] = b.seen[c]
=============================================================================
