----------------------------- MODULE PartsProofs -----------------------------
(***************************************************************************)
(* Proofs about parts that stand for themselves: the opts caches of v30,   *)
(* the aggregators of stream values and the pump that broadcasts snapshots *)
(* of them, for any numbers of nodes, callers, channels, opts and oracles, *)
(* and any lifetimes and intervals.                                        *)
(***************************************************************************)
EXTENDS OptsCacheV30, BlobPump, Aggregators, FiniteSetTheorems, TLAPS

-----------------------------------------------------------------------------
(* OptsCacheV30.                                                           *)

(* A cache whose decoded values all come from its raw opts.                *)
IsFresh(k) == \A c \in Channels : k.decoded[c] \in {k.raw[c], Absent}

(* A fresh cache answers with the raw opts.                                *)
LEMMA FreshLookUp ==
    ASSUME NEW k \in OptsCache, IsFresh(k), NEW c \in Channels
    PROVE  GetOpts(k, c) = k.raw[c]
  BY Zenon DEF IsFresh, GetOpts

(* Looking up leaves a cache fresh and its raw opts alone.                 *)
LEMMA DecodeFresh ==
    ASSUME NEW k \in OptsCache, IsFresh(k), NEW read \in SUBSET Channels
    PROVE  Decode(k, read) \in OptsCache /\ IsFresh(Decode(k, read)) /\ Decode(k, read).raw = k.raw
<1>. DEFINE decoded == [c \in Channels |-> IF c \in read THEN GetOpts(k, c) ELSE k.decoded[c]]
<1>1. \A c \in Channels : decoded[c] \in {k.raw[c], Absent}
  BY FreshLookUp, Zenon DEF IsFresh
<1>2. decoded \in Entries
  BY <1>1, Zenon DEF OptsCache, Entries
<1>3. Decode(k, read) = [k EXCEPT !.decoded = decoded]
  BY Zenon DEF Decode
<1>. HIDE DEF decoded
<1>4. Decode(k, read).raw = k.raw /\ Decode(k, read).decoded = decoded
  BY <1>3, Zenon DEF OptsCache
<1>. QED
  BY <1>1, <1>2, <1>3, <1>4, Zenon DEF IsFresh, OptsCache

(* The values that survive a change of the raw opts are those of the new   *)
(* ones.                                                                   *)
LEMMA InvalidateFresh ==
    ASSUME NEW k \in OptsCache, IsFresh(k), NEW raw \in Entries
    PROVE  /\ InvalidateDecoded(k, raw) \in Entries
           /\ \A c \in Channels : InvalidateDecoded(k, raw)[c] \in {raw[c], Absent}
  BY Zenon DEF InvalidateDecoded, IsFresh, OptsCache, Entries

(* The votes of a round yield entries.                                     *)
LEMMA VotedType ==
    ASSUME NEW entries \in Entries, NEW votes \in Votes
    PROVE  Voted(entries, votes) \in Entries
  BY Zenon DEF Voted, Votes, Entries

(* A cache that holds the definitions, or nothing as after a restart, is   *)
(* in step with the definitions once its length has been compared.         *)
LEMMA ResetCoherent ==
    ASSUME NEW k \in OptsCache, IsFresh(k), NEW prev \in Entries
    PROVE  /\ ResetOnMismatch(k, prev) \in OptsCache
           /\ IsFresh(ResetOnMismatch(k, prev))
           /\ k.raw \in {prev, Empty} => ResetOnMismatch(k, prev).raw = prev
<1>1. ResetTo(prev) \in OptsCache /\ IsFresh(ResetTo(prev)) /\ ResetTo(prev).raw = prev
  BY Zenon DEF ResetTo, OptsCache, IsFresh, Empty, Entries
<1>2. ASSUME k.raw = Empty, CacheLen(k) = Cardinality(Present(prev)) PROVE prev = Empty
  <2>1. Present(k.raw) = {}
    BY <1>2, Zenon DEF Present, Empty
  <2>2. Cardinality(Present(prev)) = 0
    BY <1>2, <2>1, FS_EmptySet, Zenon DEF CacheLen
  <2>3. IsFiniteSet(Present(prev))
    BY OptsAssumption, FS_Subset, Zenon DEF Present
  <2>4. Present(prev) = {}
    BY <2>2, <2>3, FS_EmptySet, Zenon
  <2>. QED
    BY <2>4, Zenon DEF Present, Empty, Entries
<1>. QED
  BY <1>1, <1>2, Zenon DEF ResetOnMismatch

(* The cache of a round.                                                   *)
LEMMA RoundCache ==
    ASSUME NEW k \in OptsCache, IsFresh(k), NEW prev \in Entries, NEW votes \in Votes
    PROVE  /\ OutcomeCache(k, prev, votes) \in OptsCache
           /\ IsFresh(OutcomeCache(k, prev, votes))
           /\ k.raw \in {prev, Empty} => OutcomeCache(k, prev, votes).raw = Voted(prev, votes)
<1>. DEFINE base == ResetOnMismatch(k, prev)
            raw == Voted(base.raw, votes)
            kept == InvalidateDecoded(base, raw)
            decoded == [c \in Channels |-> IF c \in votes.removed THEN Absent ELSE kept[c]]
<1>1. /\ base \in OptsCache /\ IsFresh(base)
      /\ k.raw \in {prev, Empty} => base.raw = prev
  BY ResetCoherent, Zenon
<1>. HIDE DEF base
<1>2. raw \in Entries
  BY <1>1, VotedType, Zenon DEF OptsCache
<1>3. k.raw \in {prev, Empty} => raw = Voted(prev, votes)
  BY <1>1, Zenon
<1>4. kept \in Entries /\ \A c \in Channels : kept[c] \in {raw[c], Absent}
  BY <1>1, <1>2, InvalidateFresh, Zenon
<1>. HIDE DEF raw, kept
<1>5. decoded \in Entries /\ \A c \in Channels : decoded[c] \in {raw[c], Absent}
  BY <1>4, Zenon DEF Entries
<1>6. OutcomeCache(k, prev, votes) = [raw |-> raw, decoded |-> decoded]
  BY Zenon DEF OutcomeCache, base, raw, kept
<1>. HIDE DEF decoded
<1>. QED
  BY <1>2, <1>3, <1>5, <1>6 DEF OptsCache, IsFresh

(* A call that looked up only the opts of its definitions.                 *)
Pure(call) == \A c \in DOMAIN call.seen : call.seen[c] = call.defs[c]

(* What a node computes for a round.                                       *)
LEMMA ComputesRound ==
    ASSUME TypeOK, NEW n \in Nodes, IsFresh(cache[n]), NEW votes \in Votes,
           NEW read \in SUBSET Channels
    PROVE  LET done == Computes(n, votes, read)
           IN  /\ done.cache \in OptsCache
               /\ IsFresh(done.cache)
               /\ done.call \in Calls
               /\ done.call.defs = Voted(agreed, votes)
               /\ cache[n].raw \in {agreed, Empty} =>
                    done.cache.raw = Voted(agreed, votes) /\ Pure(done.call)
<1>. DEFINE k == OutcomeCache(cache[n], agreed, votes)
            seen == [c \in read |-> GetOpts(k, c)]
            done == Computes(n, votes, read)
<1>1. /\ k \in OptsCache /\ IsFresh(k)
      /\ cache[n].raw \in {agreed, Empty} => k.raw = Voted(agreed, votes)
  BY RoundCache, Zenon DEF TypeOK
<1>. HIDE DEF k
<1>2. \A c \in read : GetOpts(k, c) = k.raw[c]
  BY <1>1, FreshLookUp, Zenon
<1>3. seen \in [read -> Opts \cup {Absent}]
  BY <1>1, <1>2, Zenon DEF OptsCache, Entries
<1>4. seen \in Lookups
  BY <1>3, Zenon DEF Lookups
<1>5. Voted(agreed, votes) \in Entries
  BY VotedType, Zenon DEF TypeOK
<1>6. done = [cache |-> Decode(k, read), call |-> [defs |-> Voted(agreed, votes), seen |-> seen]]
  BY Zenon DEF Computes, k
<1>7. cache[n].raw \in {agreed, Empty} => \A c \in DOMAIN seen : seen[c] = Voted(agreed, votes)[c]
  BY <1>1, <1>2, Zenon
<1>. HIDE DEF seen
<1>8. /\ done.cache = Decode(k, read)
      /\ done.call = [defs |-> Voted(agreed, votes), seen |-> seen]
      /\ done.call.defs = Voted(agreed, votes)
      /\ done.call.seen = seen
  BY <1>6
<1>9. Decode(k, read) \in OptsCache /\ IsFresh(Decode(k, read)) /\ Decode(k, read).raw = k.raw
  BY <1>1, DecodeFresh, Zenon
<1>10. done.call \in Calls
  BY <1>4, <1>5, <1>8, Zenon DEF Calls
<1>. HIDE DEF done
<1>11. cache[n].raw \in {agreed, Empty} => Pure(done.call)
  BY <1>7, <1>8, Zenon DEF Pure
<1>. QED
  BY <1>1, <1>8, <1>9, <1>10, <1>11, Zenon DEF done

(* The inductive invariant. A node that has missed nothing holds the       *)
(* agreed opts, or nothing yet; the caller that is inside Reports() is     *)
(* alone there, with a cache that holds the opts of its outcome.           *)
CacheInv ==
    /\ TypeOK
    /\ \A n \in Nodes : IsFresh(cache[n])
    /\ IsFresh(reports)
    /\ \A n \in Nodes : ~missed[n] => cache[n].raw \in {agreed, Empty} /\ Pure(outcomeCall[n])
    /\ \A v, w \in inside : v = w
    /\ \A w \in inside : reports.raw = reportsCall[w].defs
    /\ \A w \in Callers : Pure(reportsCall[w])

(* A round changes the caches of the nodes that compute it.                *)
LEMMA RoundPreserves ==
    ASSUME CacheInv, NEW votes \in Votes, NEW read \in SUBSET Channels,
           NEW who \in SUBSET Nodes, Round(who, votes, read)
    PROVE  CacheInv'
<1>. DEFINE next == Voted(agreed, votes)
            done(n) == Computes(n, votes, read)
<1>1. ASSUME NEW n \in Nodes
      PROVE  /\ done(n).cache \in OptsCache /\ IsFresh(done(n).cache) /\ done(n).call \in Calls
             /\ ~missed[n] => done(n).cache.raw = next /\ Pure(done(n).call)
  BY ComputesRound, Zenon DEF CacheInv
<1>2. /\ agreed' = next
      /\ cache' = [n \in Nodes |-> IF n \in who THEN done(n).cache ELSE cache[n]]
      /\ outcomeCall' = [n \in Nodes |-> IF n \in who THEN done(n).call ELSE outcomeCall[n]]
      /\ missed' = [n \in Nodes |-> missed[n] \/ (n \notin who /\ next # agreed)]
      /\ UNCHANGED <<reports, inside, reportsCall>>
  BY Zenon DEF Round
<1>3. next \in Entries
  BY VotedType, Zenon DEF CacheInv, TypeOK
<1>. HIDE DEF next, done
<1>4. TypeOK'
  BY <1>1, <1>2, <1>3, Zenon DEF CacheInv, TypeOK
<1>5. (\A n \in Nodes : IsFresh(cache[n]))'
  BY <1>1, <1>2, Zenon DEF CacheInv
<1>6. (\A n \in Nodes : ~missed[n] => cache[n].raw \in {agreed, Empty} /\ Pure(outcomeCall[n]))'
  BY <1>1, <1>2, Zenon DEF CacheInv
<1>. QED
  BY <1>2, <1>4, <1>5, <1>6, Zenon DEF CacheInv

(* So does a round that is not agreed.                                     *)
LEMMA AbandonedPreserves ==
    ASSUME CacheInv, NEW votes \in Votes, NEW read \in SUBSET Channels,
           NEW n \in Nodes, AbandonedRound(n, votes, read)
    PROVE  CacheInv'
<1>. DEFINE next == Voted(agreed, votes)
            done == Computes(n, votes, read)
<1>1. /\ done.cache \in OptsCache /\ IsFresh(done.cache) /\ done.call \in Calls
      /\ ~missed[n] => done.cache.raw = next /\ Pure(done.call)
  BY ComputesRound, Zenon DEF CacheInv
<1>2. /\ cache' = [cache EXCEPT ![n] = done.cache]
      /\ outcomeCall' = [outcomeCall EXCEPT ![n] = done.call]
      /\ missed' = [missed EXCEPT ![n] = @ \/ next # agreed]
      /\ UNCHANGED <<agreed, reports, inside, reportsCall>>
  BY Zenon DEF AbandonedRound
<1>. HIDE DEF next, done
<1>3. TypeOK'
  BY <1>1, <1>2, Zenon DEF CacheInv, TypeOK
<1>4. (\A m \in Nodes : IsFresh(cache[m]))'
  BY <1>1, <1>2, Zenon DEF CacheInv, TypeOK
<1>5. (\A m \in Nodes : ~missed[m] => cache[m].raw \in {agreed, Empty} /\ Pure(outcomeCall[m]))'
  BY <1>1, <1>2, Zenon DEF CacheInv, TypeOK
<1>. QED
  BY <1>2, <1>3, <1>4, <1>5, Zenon DEF CacheInv

(* An empty cache is fresh, and a call that read nothing is pure.          *)
LEMMA StartState ==
    /\ NewOptsCache \in OptsCache /\ IsFresh(NewOptsCache) /\ NewOptsCache.raw = Empty
    /\ NoCall \in Calls /\ Pure(NoCall) /\ NoCall.seen = [c \in {} |-> Absent]
<1>1. Empty \in Entries
  BY Zenon DEF Empty, Entries
<1>2. [c \in {} |-> Absent] \in Lookups
  <2>1. [c \in {} |-> Absent] \in [{} -> Opts \cup {Absent}]
    BY Zenon
  <2>. QED
    BY <2>1, Zenon DEF Lookups
<1>. QED
  BY <1>1, <1>2, Zenon DEF NewOptsCache, OptsCache, IsFresh, Empty, NoCall, Calls, Pure

(* A call of Reports() starts with a cache that agrees with its outcome.   *)
LEMMA EnterPreserves ==
    ASSUME CacheInv, NEW w \in Callers, NEW defs \in Entries, EnterReports(w, defs)
    PROVE  CacheInv'
<1>. DEFINE call == [defs |-> defs, seen |-> NoCall.seen]
<1>1. /\ inside = {} /\ inside' = {w}
      /\ reports' = [raw |-> defs, decoded |-> InvalidateDecoded(reports, defs)]
      /\ reportsCall' = [reportsCall EXCEPT ![w] = call]
      /\ UNCHANGED <<agreed, cache, outcomeCall, missed>>
  BY Zenon DEF EnterReports, MayLock, SyncTo
<1>2. reports' \in OptsCache /\ IsFresh(reports') /\ reports'.raw = defs
  <2>1. /\ InvalidateDecoded(reports, defs) \in Entries
        /\ \A c \in Channels : InvalidateDecoded(reports, defs)[c] \in {defs[c], Absent}
    BY InvalidateFresh, Zenon DEF CacheInv, TypeOK
  <2>. QED
    BY <1>1, <2>1, Zenon DEF OptsCache, IsFresh
<1>3. call \in Calls /\ Pure(call) /\ call.defs = defs
  BY StartState, Zenon DEF Calls, Pure
<1>. HIDE DEF call
<1>. QED
  BY <1>1, <1>2, <1>3, Zenon DEF CacheInv, TypeOK

(* It looks the opts up in that cache.                                     *)
LEMMA LookUpPreserves ==
    ASSUME CacheInv, NEW w \in Callers, NEW c \in Channels, LookUp(w, c)
    PROVE  CacheInv'
<1>. DEFINE call == reportsCall[w]
            seen == [b \in DOMAIN call.seen \cup {c} |->
                       IF b = c THEN GetOpts(reports, c) ELSE call.seen[b]]
            next == [call EXCEPT !.seen = seen]
<1>1. /\ w \in inside /\ inside' = inside
      /\ reports' = Decode(reports, {c})
      /\ reportsCall' = [reportsCall EXCEPT ![w] = next]
      /\ UNCHANGED <<agreed, cache, outcomeCall, missed>>
  BY Zenon DEF LookUp
<1>2. reports' \in OptsCache /\ IsFresh(reports') /\ reports'.raw = reports.raw
  BY <1>1, DecodeFresh, Zenon DEF CacheInv, TypeOK
<1>3. GetOpts(reports, c) = call.defs[c]
  BY <1>1, FreshLookUp, Zenon DEF CacheInv, TypeOK
<1>4. call \in Calls /\ Pure(call)
  BY Zenon DEF CacheInv, TypeOK
<1>5. next.defs = call.defs /\ next.seen = seen
  BY <1>4, Zenon DEF Calls
<1>6. next \in Calls
  <2>1. PICK read \in SUBSET Channels : call.seen \in [read -> Opts \cup {Absent}]
    BY <1>4, Zenon DEF Calls, Lookups
  <2>2. GetOpts(reports, c) \in Opts \cup {Absent}
    BY <1>3, <1>4, Zenon DEF Calls, Entries
  <2>3. seen \in [read \cup {c} -> Opts \cup {Absent}]
    BY <2>1, <2>2, Zenon
  <2>4. seen \in Lookups
    BY <2>3, Zenon DEF Lookups
  <2>. HIDE DEF seen
  <2>. QED
    BY <1>4, <2>4, Zenon DEF Calls
<1>7. Pure(next)
  BY <1>3, <1>4, <1>5, ZenonT(60) DEF Pure
<1>. HIDE DEF next
<1>8. reportsCall'[w] = next /\ \A v \in Callers : v # w => reportsCall'[v] = reportsCall[v]
  BY <1>1, Zenon DEF CacheInv, TypeOK
<1>9. TypeOK'
  BY <1>1, <1>2, <1>6, Zenon DEF CacheInv, TypeOK
<1>10. (\A v \in inside : reports.raw = reportsCall[v].defs)'
  BY <1>1, <1>2, <1>5, <1>8, Zenon DEF CacheInv
<1>11. (\A v \in Callers : Pure(reportsCall[v]))'
  BY <1>7, <1>8, Zenon DEF CacheInv
<1>. QED
  BY <1>1, <1>2, <1>9, <1>10, <1>11, Zenon DEF CacheInv

(* The invariant holds in every reachable state.                           *)
LEMMA CacheCorrect == Spec => []CacheInv
<1>1. Init => CacheInv
  <2>. SUFFICES ASSUME Init PROVE CacheInv
    BY Zenon
  <2>1. Empty \in Entries
    BY Zenon DEF Empty, Entries
  <2>2. /\ agreed = Empty /\ reports = NewOptsCache /\ inside = {}
        /\ cache = [n \in Nodes |-> NewOptsCache]
        /\ outcomeCall = [n \in Nodes |-> NoCall]
        /\ missed = [n \in Nodes |-> FALSE]
        /\ reportsCall = [w \in Callers |-> NoCall]
    BY Zenon DEF Init
  <2>. QED
    BY <2>1, <2>2, StartState, Zenon DEF CacheInv, TypeOK
<1>2. CacheInv /\ [Next]_vars => CacheInv'
  <2>. SUFFICES ASSUME CacheInv, [Next]_vars PROVE CacheInv'
    BY Zenon
  <2>1. ASSUME NEW n \in Nodes, Restart(n) PROVE CacheInv'
    <3>1. /\ cache' = [cache EXCEPT ![n] = NewOptsCache]
          /\ outcomeCall' = [outcomeCall EXCEPT ![n] = NoCall]
          /\ missed' = [missed EXCEPT ![n] = FALSE]
          /\ UNCHANGED <<agreed, reports, inside, reportsCall>>
      BY <2>1, Zenon DEF Restart
    <3>. QED
      BY <3>1, StartState, Zenon DEF CacheInv, TypeOK
  <2>2. ASSUME NEW w \in Callers, ExitReports(w) PROVE CacheInv'
    <3>1. /\ inside' = inside \ {w}
          /\ reportsCall' = [reportsCall EXCEPT ![w] = NoCall]
          /\ UNCHANGED <<agreed, cache, outcomeCall, missed, reports>>
      BY <2>2, Zenon DEF ExitReports
    <3>. QED
      BY <3>1, StartState, Zenon DEF CacheInv, TypeOK
  <2>3. CASE UNCHANGED vars
    BY <2>3, Zenon DEF vars, CacheInv, TypeOK
  <2>. QED
    BY <2>1, <2>2, <2>3, RoundPreserves, AbandonedPreserves, EnterPreserves,
       LookUpPreserves DEF Next
<1>. QED
  BY <1>1, <1>2, PTL DEF Spec

(* DecodedFresh: no cache ever serves a value of replaced opts.            *)
THEOREM DecodedFreshHolds == Spec => []DecodedFresh
<1>1. CacheInv => DecodedFresh
  BY Zenon DEF CacheInv, DecodedFresh, IsFresh
<1>. QED
  BY <1>1, CacheCorrect, PTL

(* ReportsPure: Reports() reads the opts of its own outcome, for any       *)
(* number of concurrent callers.                                           *)
THEOREM ReportsPureHolds == Spec => []ReportsPure
<1>1. CacheInv => ReportsPure
  BY Zenon DEF CacheInv, ReportsPure, Pure
<1>. QED
  BY <1>1, CacheCorrect, PTL

(* CoherentUnlessMissed: comparing lengths is enough for a node that       *)
(* restarts, as long as it then follows the agreed rounds.                 *)
THEOREM CoherentUnlessMissedHolds == Spec => []CoherentUnlessMissed
<1>1. CacheInv => CoherentUnlessMissed
  BY Zenon DEF CacheInv, CoherentUnlessMissed, Pure
<1>. QED
  BY <1>1, CacheCorrect, PTL

-----------------------------------------------------------------------------
(* Medians: an index whose key is in the middle exists, and honest oracles *)
(* hold keys on both sides of it.                                          *)

(* A set of naturals has a smallest one.                                   *)
LEMMA MinimumExists ==
    ASSUME NEW S \in SUBSET Nat, S # {}
    PROVE  \E x \in S : \A y \in S : x <= y
<1>1. PICK x \in S : \A y \in S : ~ (<<y, x>> \in OpToRel(<, Nat))
  BY NatLessThanWellFounded, WFMin, Zenon
<1>2. ASSUME NEW y \in S PROVE x <= y
  <2>1. <<y, x>> \in Nat \X Nat /\ ~ (<<y, x>> \in OpToRel(<, Nat))
    BY <1>1, Zenon
  <2>2. ~ (y < x)
    BY <2>1, Zenon DEF OpToRel
  <2> QED BY <2>2
<1> QED BY <1>2, Zenon

(* Keys below, and up to, that of i.                                       *)
Below(key, i) == {j \in DOMAIN key : key[j] < key[i]}
UpTo(key, i) == {j \in DOMAIN key : key[j] <= key[i]}

(* Finitely many integers, at least one.                                   *)
IsKey(key) == IsFiniteSet(DOMAIN key) /\ DOMAIN key # {} /\ \A i \in DOMAIN key : key[i] \in Int

(* The median has at most half of the keys below it, and more than half up *)
(* to it.                                                                  *)
IsMedian(key, i) ==
    /\ i \in DOMAIN key
    /\ Cardinality(Below(key, i)) <= Cardinality(DOMAIN key) \div 2
    /\ Cardinality(DOMAIN key) \div 2 < Cardinality(UpTo(key, i))

LEMMA Counts ==
    ASSUME NEW key, IsKey(key), NEW i \in DOMAIN key
    PROVE  /\ IsFiniteSet(Below(key, i)) /\ Cardinality(Below(key, i)) \in Nat
           /\ IsFiniteSet(UpTo(key, i)) /\ Cardinality(UpTo(key, i)) \in Nat
           /\ Cardinality(UpTo(key, i)) <= Cardinality(DOMAIN key)
           /\ Cardinality(DOMAIN key) \in Nat
<1>1. Below(key, i) \in SUBSET (DOMAIN key) /\ UpTo(key, i) \in SUBSET (DOMAIN key)
  BY Zenon DEF Below, UpTo
<1> QED BY <1>1, FS_Subset, FS_CardinalityType, Zenon DEF IsKey

(* More keys are up to a larger one.                                       *)
LEMMA CountsGrow ==
    ASSUME NEW key, IsKey(key), NEW i \in DOMAIN key, NEW j \in DOMAIN key, key[i] < key[j]
    PROVE  Cardinality(UpTo(key, i)) < Cardinality(UpTo(key, j))
<1>1. UpTo(key, i) \in SUBSET UpTo(key, j) /\ UpTo(key, i) # UpTo(key, j)
  BY DEF UpTo, IsKey
<1>2. IsFiniteSet(UpTo(key, j)) /\ Cardinality(UpTo(key, j)) \in Nat /\ Cardinality(UpTo(key, i)) \in Nat
  BY Counts, Zenon
<1>3. Cardinality(UpTo(key, i)) <= Cardinality(UpTo(key, j))
      /\ Cardinality(UpTo(key, i)) # Cardinality(UpTo(key, j))
  BY <1>1, <1>2, FS_Subset, Zenon
<1> QED BY <1>2, <1>3

(* Of some of the keys one is smallest, and one largest.                   *)
LEMMA SmallestKey ==
    ASSUME NEW key, IsKey(key), NEW T \in SUBSET (DOMAIN key), T # {}
    PROVE  \E i \in T : \A j \in T : key[i] <= key[j]
<1> DEFINE S == {Cardinality(UpTo(key, i)) : i \in T}
<1>1. S \in SUBSET Nat /\ S # {}
  BY Counts, Zenon
<1>2. PICK n \in S : \A m \in S : n <= m
  BY <1>1, MinimumExists, Zenon
<1>3. PICK i \in T : n = Cardinality(UpTo(key, i))
  BY <1>2, Zenon
<1>4. ASSUME NEW j \in T PROVE key[i] <= key[j]
  <2>1. Cardinality(UpTo(key, i)) <= Cardinality(UpTo(key, j))
    BY <1>2, <1>3, Zenon
  <2>2. ~ (key[j] < key[i])
    BY <2>1, CountsGrow, Counts
  <2> QED BY <2>2 DEF IsKey
<1> QED BY <1>4, Zenon

LEMMA LargestKey ==
    ASSUME NEW key, IsKey(key), NEW T \in SUBSET (DOMAIN key), T # {}
    PROVE  \E i \in T : \A j \in T : key[j] <= key[i]
<1> DEFINE opposite == [i \in DOMAIN key |-> 0 - key[i]]
<1>1. IsKey(opposite) /\ T \in SUBSET (DOMAIN opposite)
  BY DEF IsKey
<1>2. PICK i \in T : \A j \in T : opposite[i] <= opposite[j]
  BY <1>1, SmallestKey, Zenon
<1>3. ASSUME NEW j \in T PROVE key[j] <= key[i]
  <2>1. i \in DOMAIN key /\ j \in DOMAIN key
    BY Zenon
  <2>2. key[i] \in Int /\ key[j] \in Int
    BY <2>1, Zenon DEF IsKey
  <2>3. 0 - key[i] <= 0 - key[j]
    BY <1>2, <2>1, Zenon
  <2> QED BY <2>2, <2>3
<1> QED BY <1>3, Zenon

(* There is a median, and MedianIndex is one.                              *)
LEMMA MedianExists ==
    ASSUME NEW key, IsKey(key)
    PROVE  IsMedian(key, MedianIndex(key))
<1> DEFINE n == Cardinality(DOMAIN key)
           half == n \div 2
           T == {i \in DOMAIN key : half < Cardinality(UpTo(key, i))}
<1>1. n \in Nat \ {0}
  BY FS_CardinalityType, FS_EmptySet, Zenon DEF IsKey
<1>2. half \in Nat /\ half < n
  BY <1>1
<1>3. T # {}
  <2>1. PICK i \in DOMAIN key : \A j \in DOMAIN key : key[j] <= key[i]
    BY LargestKey, Zenon DEF IsKey
  <2>2. UpTo(key, i) = DOMAIN key
    BY <2>1, Zenon DEF UpTo
  <2> QED BY <1>2, <2>2, Zenon
<1>4. PICK i \in T : \A j \in T : key[i] <= key[j]
  BY <1>3, SmallestKey, Zenon
<1>5. Cardinality(Below(key, i)) <= half
  <2> SUFFICES ASSUME half < Cardinality(Below(key, i)) PROVE FALSE
    BY <1>2, Counts
  <2>1. Below(key, i) # {} /\ Below(key, i) \in SUBSET (DOMAIN key)
    BY <1>2, FS_EmptySet DEF Below
  <2>2. PICK j \in Below(key, i) : \A l \in Below(key, i) : key[l] <= key[j]
    BY <2>1, LargestKey, Zenon
  <2>3. j \in DOMAIN key /\ key[j] < key[i]
    BY <2>2, Zenon DEF Below
  <2>4. Below(key, i) \in SUBSET UpTo(key, j)
    BY <2>2, Zenon DEF Below, UpTo
  <2>5. Cardinality(Below(key, i)) <= Cardinality(UpTo(key, j))
    BY <2>3, <2>4, Counts, FS_Subset, Zenon
  <2>6. j \in T
    BY <1>2, <2>3, <2>5, Counts
  <2> QED BY <1>4, <2>3, <2>6 DEF IsKey
<1>6. IsMedian(key, i)
  BY <1>4, <1>5, Zenon DEF IsMedian
<1>7. MedianIndex(key) = CHOOSE k \in DOMAIN key : IsMedian(key, k)
  BY Zenon DEF MedianIndex, IsMedian, Below, UpTo
<1> HIDE DEF T
<1> QED BY <1>6, <1>7, Zenon DEF IsMedian

(* Of two functions with the same domain, one nowhere above the other, so  *)
(* are their medians.                                                      *)
LEMMA MediansInOrder ==
    ASSUME NEW low, IsKey(low), NEW high, IsKey(high), DOMAIN low = DOMAIN high,
           \A i \in DOMAIN low : low[i] <= high[i]
    PROVE  low[MedianIndex(low)] <= high[MedianIndex(high)]
<1> DEFINE l == MedianIndex(low)
           h == MedianIndex(high)
<1>1. IsMedian(low, l) /\ IsMedian(high, h)
  BY MedianExists, Zenon
<1> HIDE DEF l, h
<1>2. l \in DOMAIN low /\ h \in DOMAIN high /\ low[l] \in Int /\ high[h] \in Int
  BY <1>1, Zenon DEF IsMedian, IsKey
<1> SUFFICES ASSUME high[h] < low[l] PROVE FALSE
  BY <1>2 DEF l, h
<1>3. UpTo(high, h) \in SUBSET Below(low, l)
  BY <1>2 DEF UpTo, Below, IsKey
<1>4. Cardinality(UpTo(high, h)) <= Cardinality(Below(low, l))
  BY <1>2, <1>3, Counts, FS_Subset, Zenon
<1>5. /\ Cardinality(UpTo(high, h)) \in Nat /\ Cardinality(Below(low, l)) \in Nat
      /\ Cardinality(DOMAIN low) \div 2 \in Nat
  BY <1>2, Counts
<1> QED BY <1>1, <1>4, <1>5 DEF IsMedian

(* A part of the keys with fewer than half of them: the median lies        *)
(* between two of the others.                                              *)
LEMMA MedianAmongOthers ==
    ASSUME NEW key, IsKey(key), NEW B, NEW f \in Nat,
           IsFiniteSet(B), Cardinality(B) <= f, 2 * f + 1 <= Cardinality(DOMAIN key)
    PROVE  \E i, j \in DOMAIN key \ B : key[i] <= key[MedianIndex(key)] /\ key[MedianIndex(key)] <= key[j]
<1> DEFINE m == MedianIndex(key)
<1>1. IsMedian(key, m)
  BY MedianExists, Zenon
<1> HIDE DEF m
<1>2. /\ m \in DOMAIN key /\ Cardinality(Below(key, m)) \in Nat /\ Cardinality(UpTo(key, m)) \in Nat
      /\ IsFiniteSet(Below(key, m)) /\ IsFiniteSet(UpTo(key, m))
      /\ Cardinality(DOMAIN key) \in Nat /\ Cardinality(B) \in Nat
  BY <1>1, Counts, FS_CardinalityType, Zenon DEF IsMedian
<1>3. f < Cardinality(UpTo(key, m)) /\ Cardinality(Below(key, m)) + f < Cardinality(DOMAIN key)
  BY <1>1, <1>2 DEF IsMedian
<1>4. \E i \in UpTo(key, m) : i \notin B
  <2> SUFFICES ASSUME UpTo(key, m) \in SUBSET B PROVE FALSE
    BY Zenon
  <2>1. Cardinality(UpTo(key, m)) <= Cardinality(B)
    BY FS_Subset, Zenon
  <2> QED BY <1>2, <1>3, <2>1
<1>5. \E j \in DOMAIN key \ Below(key, m) : j \notin B
  <2> SUFFICES ASSUME DOMAIN key \in SUBSET (Below(key, m) \cup B) PROVE FALSE
    BY Zenon
  <2>1. IsFiniteSet(Below(key, m) \cup B)
    BY <1>2, FS_Union, Zenon
  <2>2. Cardinality(Below(key, m) \cup B)
          = Cardinality(Below(key, m)) + Cardinality(B) - Cardinality(Below(key, m) \cap B)
    BY <1>2, FS_Union, Zenon
  <2>3. Cardinality(Below(key, m) \cap B) \in Nat
    BY <1>2, FS_Intersection, FS_CardinalityType, Zenon
  <2>4. Cardinality(DOMAIN key) <= Cardinality(Below(key, m) \cup B)
    BY <2>1, FS_Subset, Zenon
  <2> QED BY <1>2, <1>3, <2>2, <2>3, <2>4
<1>6. PICK i \in UpTo(key, m) : i \notin B
  BY <1>4, Zenon
<1>7. PICK j \in DOMAIN key \ Below(key, m) : j \notin B
  BY <1>5, Zenon
<1>8. /\ i \in DOMAIN key \ B /\ key[i] <= key[m]
      /\ j \in DOMAIN key \ B /\ key[m] <= key[j]
  BY <1>2, <1>6, <1>7 DEF UpTo, Below, IsKey
<1> QED BY <1>8, Zenon DEF m

-----------------------------------------------------------------------------
(* The aggregators, for any contributions of which at most f are faulty.   *)

DecimalNumber == [coef : Int, exp : Int]

DecimalValue == [type : {0}, decimal : DecimalNumber]

QuoteValue == [type : {1}, bid : DecimalNumber, benchmark : DecimalNumber, ask : DecimalNumber]

TimestampedValue == [type : {2}, at : Nat, value : DecimalValue \cup QuoteValue]

StreamValue == DecimalValue \cup QuoteValue \cup TimestampedValue

(* Contributions of any number of oracles, at most f of them faulty.       *)
ContributionsOK ==
    /\ contributions.aggregator \in {"median", "mode", "quote"}
    /\ IsFiniteSet(DOMAIN contributions.values)
    /\ \A o \in DOMAIN contributions.values :
          contributions.values[o] # Absent => contributions.values[o] \in StreamValue
    /\ IsFiniteSet(contributions.faulty)
    /\ Cardinality(contributions.faulty) <= AggregationFaultTolerance

(* The number of a decimal whose exponent is in range.                     *)
LEMMA NumberType ==
    ASSUME NEW d \in DecimalNumber, CheckDecimalExponent(d)
    PROVE  Number(d) \in Int
<1>1. d.coef \in Int /\ d.exp + MaxDecimalExponent \in Nat
  BY AggregatorsAssumption DEF DecimalNumber, CheckDecimalExponent
<1>2. 10 ^ (d.exp + MaxDecimalExponent) \in Int
  BY <1>1
<1> QED BY <1>1, <1>2 DEF Number

(* A value whose number a median can use.                                  *)
PriceOf(v) == IF v.type = 0 THEN Number(v.decimal) ELSE Number(v.benchmark)

Priced(values) ==
    /\ IsFiniteSet(DOMAIN values)
    /\ \A i \in DOMAIN values : values[i].type \in {0, 1} => PriceOf(values[i]) \in Int

(* A median of decimals and quotes lies between those of honest oracles.   *)
LEMMA MedianDecimalHonest ==
    ASSUME NEW values, Priced(values), NEW B, IsFiniteSet(B), Cardinality(B) <= AggregationFaultTolerance,
           MedianDecimal(values, MinContributions) # Absent
    PROVE  \E d : /\ MedianDecimal(values, MinContributions) = Decimal(d)
                  /\ \E i, j \in {k \in DOMAIN values : values[k].type \in {0, 1}} \ B :
                        PriceOf(values[i]) <= Number(d) /\ Number(d) <= PriceOf(values[j])
<1> DEFINE usable == {i \in DOMAIN values : values[i].type \in {0, 1}}
           decimal(i) == IF values[i].type = 0 THEN values[i].decimal ELSE values[i].benchmark
           key == [i \in usable |-> Number(decimal(i))]
           m == MedianIndex(key)
<1>1. /\ MedianDecimal(values, MinContributions) = Decimal(decimal(m))
      /\ ~ (Cardinality(usable) < MinContributions)
  BY Zenon DEF MedianDecimal
<1>2. IsFiniteSet(usable) /\ Cardinality(usable) \in Nat
  BY FS_Subset, FS_CardinalityType, Zenon DEF Priced
<1>3. 2 * AggregationFaultTolerance + 1 <= Cardinality(usable)
  BY <1>1, <1>2, AggregatorsAssumption, SMTT(30) DEF MinContributions
<1>4. \A i \in usable : Number(decimal(i)) = PriceOf(values[i]) /\ PriceOf(values[i]) \in Int
  BY Zenon DEF PriceOf, Priced
<1>5. usable # {}
  BY <1>3, FS_EmptySet, AggregatorsAssumption
<1>6. IsKey(key)
  BY <1>2, <1>4, <1>5, Zenon DEF IsKey
<1>7. DOMAIN key = usable
  BY Zenon
<1>8. m \in usable
  BY <1>6, <1>7, MedianExists, Zenon DEF IsMedian
<1>9. \A i \in usable : key[i] = PriceOf(values[i])
  BY <1>4, Zenon
<1>10. key[m] = Number(decimal(m))
  BY <1>8, Zenon
<1> HIDE DEF key, usable, m, decimal
<1>11. PICK i, j \in usable \ B : key[i] <= key[m] /\ key[m] <= key[j]
  BY <1>3, <1>6, <1>7, MedianAmongOthers, AggregatorsAssumption, Zenon DEF m
<1>12. PriceOf(values[i]) <= Number(decimal(m)) /\ Number(decimal(m)) <= PriceOf(values[j])
  BY <1>9, <1>10, <1>11, Zenon
<1> QED BY <1>1, <1>11, <1>12, Zenon DEF usable

(* Timestamps of honest oracles on both sides of the median.               *)
LEMMA MedianStampHonest ==
    ASSUME NEW stamps, IsFiniteSet(DOMAIN stamps), \A i \in DOMAIN stamps : stamps[i] \in Int,
           NEW B, IsFiniteSet(B), Cardinality(B) <= AggregationFaultTolerance,
           ~ (Cardinality(DOMAIN stamps) < MinContributions)
    PROVE  \E i, j \in DOMAIN stamps \ B :
              stamps[i] <= stamps[MedianIndex(stamps)] /\ stamps[MedianIndex(stamps)] <= stamps[j]
<1>1. Cardinality(DOMAIN stamps) \in Nat
  BY FS_CardinalityType, Zenon
<1>2. 2 * AggregationFaultTolerance + 1 <= Cardinality(DOMAIN stamps) /\ AggregationFaultTolerance \in Nat
  BY <1>1, AggregatorsAssumption DEF MinContributions
<1>3. DOMAIN stamps # {}
  BY <1>2, FS_EmptySet
<1>4. IsKey(stamps)
  BY <1>3, Zenon DEF IsKey
<1> QED BY <1>2, <1>4, MedianAmongOthers, Zenon

(* What the aggregators are given.                                         *)
Values == [o \in Contributors |-> contributions.values[o]]

Honest == {contributions.values[o] : o \in Contributors \ contributions.faulty}

(* A value that passes validation has numbers.                             *)
LEMMA ValidNumbers ==
    ASSUME NEW v \in StreamValue, ValidStreamValue(v)
    PROVE  /\ v.type \in {0, 1, 2}
           /\ v.type = 0 => Number(v.decimal) \in Int
           /\ v.type = 1 => Number(v.bid) \in Int /\ Number(v.benchmark) \in Int /\ Number(v.ask) \in Int
           /\ v.type = 2 => v.at \in Nat /\ v.value.type = 0 /\ Number(v.value.decimal) \in Int
<1>1. \A d \in Decimals(v) : CheckDecimalExponent(d)
  BY Zenon DEF ValidStreamValue, UnmarshalProtoStreamValue
<1>2. v.type \in {0, 1, 2}
  BY Zenon DEF StreamValue, DecimalValue, QuoteValue, TimestampedValue
<1>3. ASSUME v.type = 0 PROVE Number(v.decimal) \in Int
  <2>1. v.decimal \in DecimalNumber
    BY <1>3 DEF StreamValue, DecimalValue, QuoteValue, TimestampedValue
  <2>2. v.decimal \in Decimals(v)
    BY <1>3 DEF Decimals
  <2> QED BY <1>1, <2>1, <2>2, NumberType, Zenon
<1>4. ASSUME v.type = 1 PROVE Number(v.bid) \in Int /\ Number(v.benchmark) \in Int /\ Number(v.ask) \in Int
  <2>1. v.bid \in DecimalNumber /\ v.benchmark \in DecimalNumber /\ v.ask \in DecimalNumber
    BY <1>4 DEF StreamValue, DecimalValue, QuoteValue, TimestampedValue
  <2>2. {v.bid, v.benchmark, v.ask} = Decimals(v)
    BY <1>4 DEF Decimals
  <2>3. CheckDecimalExponent(v.bid) /\ CheckDecimalExponent(v.benchmark) /\ CheckDecimalExponent(v.ask)
    BY <1>1, <2>2, Zenon
  <2> QED BY <2>1, <2>3, NumberType, Zenon
<1>5. ASSUME v.type = 2 PROVE v.at \in Nat /\ v.value.type = 0 /\ Number(v.value.decimal) \in Int
  <2>1. v.at \in Nat /\ v.value \in DecimalValue \cup QuoteValue
    BY <1>5 DEF StreamValue, DecimalValue, QuoteValue, TimestampedValue
  <2>2. v.value.type = 0
    BY <1>5, Zenon DEF ValidStreamValue
  <2>3. v.value.decimal \in DecimalNumber
    BY <2>1, <2>2 DEF DecimalValue, QuoteValue
  <2>4. v.value.decimal \in Decimals(v)
    BY <1>5, <2>2 DEF Decimals
  <2> QED BY <1>1, <2>1, <2>2, <2>3, <2>4, NumberType, Zenon
<1> QED BY <1>2, <1>3, <1>4, <1>5, Zenon

(* The aggregators are given values that passed validation.                *)
LEMMA ValuesType ==
    ASSUME ContributionsOK
    PROVE  /\ DOMAIN Values = Contributors /\ IsFiniteSet(Contributors)
           /\ \A o \in Contributors : Values[o] \in StreamValue /\ ValidStreamValue(Values[o])
           /\ \A o \in Contributors \ contributions.faulty : Values[o] \in Honest
<1>1. Contributors \in SUBSET (DOMAIN contributions.values)
  BY Zenon DEF Contributors
<1>2. IsFiniteSet(Contributors)
  BY <1>1, FS_Subset, Zenon DEF ContributionsOK
<1>3. \A o \in Contributors : Values[o] = contributions.values[o]
  BY Zenon DEF Values
<1>4. \A o \in Contributors : contributions.values[o] \in StreamValue /\ ValidStreamValue(contributions.values[o])
  BY Zenon DEF Contributors, ContributionsOK
<1> QED BY <1>2, <1>3, <1>4, Zenon DEF Values, Honest

(* The median of decimals and quotes.                                      *)
LEMMA DecimalMedianHonest ==
    ASSUME ContributionsOK, MedianDecimal(Values, MinContributions) # Absent
    PROVE  LET result == MedianDecimal(Values, MinContributions)
           IN /\ result.type = 0
              /\ \A x \in Prices(result) : Within(x, UNION {Prices(v) : v \in Honest})
<1> DEFINE result == MedianDecimal(Values, MinContributions)
<1>1. Priced(Values)
  <2>1. ASSUME NEW i \in Contributors, Values[i].type \in {0, 1} PROVE PriceOf(Values[i]) \in Int
    BY <2>1, ValuesType, ValidNumbers, Zenon DEF PriceOf
  <2> QED BY <2>1, ValuesType, Zenon DEF Priced
<1>2. PICK d : /\ result = Decimal(d)
               /\ \E i, j \in {k \in DOMAIN Values : Values[k].type \in {0, 1}} \ contributions.faulty :
                     PriceOf(Values[i]) <= Number(d) /\ Number(d) <= PriceOf(Values[j])
  BY <1>1, MedianDecimalHonest, Zenon DEF ContributionsOK
<1>3. PICK i, j \in {k \in DOMAIN Values : Values[k].type \in {0, 1}} \ contributions.faulty :
        PriceOf(Values[i]) <= Number(d) /\ Number(d) <= PriceOf(Values[j])
  BY <1>2, Zenon
<1>4. Values[i] \in Honest /\ Values[j] \in Honest
  BY <1>3, ValuesType, Zenon
<1>5. PriceOf(Values[i]) \in Prices(Values[i]) /\ PriceOf(Values[j]) \in Prices(Values[j])
  BY <1>3 DEF PriceOf, Prices
<1>6. result.type = 0 /\ result.decimal = d
  BY <1>2 DEF Decimal
<1> HIDE DEF result
<1>7. Prices(result) = {Number(d)}
  BY <1>6 DEF Prices
<1>8. Within(Number(d), UNION {Prices(v) : v \in Honest})
  BY <1>3, <1>4, <1>5, Zenon DEF Within
<1>9. \A x \in Prices(result) : Within(x, UNION {Prices(v) : v \in Honest})
  BY <1>7, <1>8, Zenon
<1> QED BY <1>6, <1>9, Zenon DEF result

Stamps == {v.at : v \in {u \in Honest : u.type = 2}}

(* The median of timestamped values.                                       *)
LEMMA TimestampedMedianHonest ==
    ASSUME ContributionsOK, MedianTimestamped(Values, MinContributions, FALSE) # Absent
    PROVE  LET result == MedianTimestamped(Values, MinContributions, FALSE)
           IN /\ \A x \in Prices(result) : Within(x, UNION {Prices(v) : v \in Honest})
              /\ result.type = 2 => Within(result.at, Stamps)
<1> DEFINE stamped == {i \in DOMAIN Values : Values[i].type = 2}
           usable == {i \in stamped : Values[i].value.type = 0}
           stamps == [i \in IF FALSE THEN stamped ELSE usable |-> IF i \in usable THEN Values[i].at ELSE 0]
           inner == [i \in usable |-> Values[i].value]
           median == MedianDecimal(inner, MinContributions)
           result == MedianTimestamped(Values, MinContributions, FALSE)
<1>1. result = IF median = Absent THEN Absent ELSE Timestamped(stamps[MedianIndex(stamps)], median)
  BY Zenon DEF MedianTimestamped
<1>2. median # Absent /\ result = Timestamped(stamps[MedianIndex(stamps)], median)
  BY <1>1, Zenon
<1>3. usable \in SUBSET Contributors /\ \A i \in usable : Values[i].type = 2 /\ Values[i].value.type = 0
  BY ValuesType, Zenon
<1>4. \A i \in usable : Values[i].at \in Nat /\ Number(Values[i].value.decimal) \in Int
  BY <1>3, ValuesType, ValidNumbers, Zenon
<1>5. DOMAIN stamps = usable /\ \A i \in usable : stamps[i] = Values[i].at
  BY Zenon
<1>6. DOMAIN inner = usable /\ \A i \in usable : inner[i] = Values[i].value
  BY Zenon
<1>7. IsFiniteSet(usable)
  BY <1>3, ValuesType, FS_Subset, Zenon
<1>8. Priced(inner)
  <2>1. ASSUME NEW i \in usable PROVE PriceOf(inner[i]) \in Int
    BY <1>3, <1>4, <1>6, Zenon DEF PriceOf
  <2> HIDE DEF inner, usable
  <2> QED BY <1>6, <1>7, <2>1, Zenon DEF Priced
<1>9. ~ (Cardinality(usable) < MinContributions)
  <2>1. {i \in usable : inner[i].type \in {0, 1}} = usable
    BY <1>3, <1>6, Zenon
  <2> HIDE DEF inner, usable
  <2> QED BY <1>2, <1>6, <2>1, Zenon DEF MedianDecimal
<1> HIDE DEF stamped, usable, stamps, inner, median, result
<1>10. \E d : /\ median = Decimal(d)
              /\ \E i, j \in {k \in DOMAIN inner : inner[k].type \in {0, 1}} \ contributions.faulty :
                     PriceOf(inner[i]) <= Number(d) /\ Number(d) <= PriceOf(inner[j])
  BY <1>2, <1>8, MedianDecimalHonest, Zenon DEF ContributionsOK, median
<1>11. PICK d : /\ median = Decimal(d)
                /\ \E i, j \in {k \in DOMAIN inner : inner[k].type \in {0, 1}} \ contributions.faulty :
                       PriceOf(inner[i]) <= Number(d) /\ Number(d) <= PriceOf(inner[j])
  BY <1>10, Zenon
<1>12. PICK i, j \in usable \ contributions.faulty :
         PriceOf(inner[i]) <= Number(d) /\ Number(d) <= PriceOf(inner[j])
  BY <1>6, <1>11, Zenon
<1>13. \A k \in usable \ contributions.faulty :
         Values[k] \in Honest /\ PriceOf(inner[k]) \in Prices(Values[k]) /\ Values[k].at \in Stamps
  <2> SUFFICES ASSUME NEW k \in usable \ contributions.faulty
               PROVE  Values[k] \in Honest /\ PriceOf(inner[k]) \in Prices(Values[k]) /\ Values[k].at \in Stamps
    BY Zenon
  <2>1. Values[k] \in Honest
    BY <1>3, ValuesType, Zenon
  <2>2. PriceOf(inner[k]) \in Prices(Values[k])
    BY <1>3, <1>6 DEF PriceOf, Prices
  <2> QED BY <1>3, <2>1, <2>2, Zenon DEF Stamps
<1>14. Within(Number(d), UNION {Prices(v) : v \in Honest})
  BY <1>12, <1>13, Zenon DEF Within
<1>15. result.type = 2 /\ result.value.decimal = d /\ result.at = stamps[MedianIndex(stamps)]
  BY <1>2, <1>11, Zenon DEF Timestamped, Decimal
<1>16. Prices(result) = {Number(d)}
  BY <1>15 DEF Prices
<1>17. \E k, l \in usable \ contributions.faulty :
          stamps[k] <= stamps[MedianIndex(stamps)] /\ stamps[MedianIndex(stamps)] <= stamps[l]
  <2>1. \A k \in DOMAIN stamps : stamps[k] \in Int
    BY <1>4, <1>5
  <2> QED BY <1>5, <1>7, <1>9, <2>1, MedianStampHonest, Zenon DEF ContributionsOK
<1>18. Within(result.at, Stamps)
  BY <1>5, <1>13, <1>15, <1>17, Zenon DEF Within
<1>19. \A x \in Prices(result) : Within(x, UNION {Prices(v) : v \in Honest})
  BY <1>14, <1>16, Zenon
<1> QED BY <1>18, <1>19, Zenon DEF result

(* More than f contributions come from an honest oracle.                   *)
LEMMA HonestAmong ==
    ASSUME NEW S, IsFiniteSet(S), ~ (Cardinality(S) < MinContributions),
           NEW B, IsFiniteSet(B), Cardinality(B) <= AggregationFaultTolerance
    PROVE  \E i \in S : i \notin B
<1> SUFFICES ASSUME S \in SUBSET B PROVE FALSE
  BY Zenon
<1>1. Cardinality(S) <= Cardinality(B) /\ Cardinality(S) \in Nat /\ Cardinality(B) \in Nat
  BY FS_Subset, FS_CardinalityType, Zenon
<1> QED BY <1>1, AggregatorsAssumption DEF MinContributions

(* A canonical form has the type of its value.                             *)
LEMMA FormType ==
    ASSUME NEW v, v.type \in {0, 1, 2}
    PROVE  /\ CanonicalModeValue(v).type = v.type
           /\ v.type = 2 => CanonicalModeValue(v) = Timestamped(0, CanonicalStreamValue(v.value))
<1>1. CASE v.type = 2
  BY <1>1, Zenon DEF CanonicalModeValue, Timestamped
<1>2. CASE v.type = 0
  BY <1>2 DEF CanonicalModeValue, CanonicalStreamValue, Decimal
<1>3. CASE v.type = 1
  BY <1>3 DEF CanonicalModeValue, CanonicalStreamValue, Quote
<1> QED BY <1>1, <1>2, <1>3, Zenon

(* The mode.                                                               *)
LEMMA ModeHonest ==
    ASSUME ContributionsOK, ModeAggregator(Values, MinContributions) # Absent
    PROVE  LET result == ModeAggregator(Values, MinContributions)
           IN /\ \E v \in Honest : CanonicalModeValue(v) = Timeless(result)
              /\ result.type = 2 => Within(result.at, Stamps)
<1> DEFINE bucket == {i \in DOMAIN Values : Values[i].type = MostCommonType(Values)}
           forms == {CanonicalModeValue(Values[i]) : i \in bucket}
           votes(form) == {i \in bucket : CanonicalModeValue(Values[i]) = form}
           mode == CHOOSE form \in forms :
                       \A other \in forms : Cardinality(votes(other)) <= Cardinality(votes(form))
           stamps == [i \in votes(mode) |-> Values[i].at]
           result == ModeAggregator(Values, MinContributions)
<1>1. /\ ~ (Cardinality(votes(mode)) < MinContributions)
      /\ result = IF mode.type = 2 THEN Timestamped(stamps[MedianIndex(stamps)], mode.value) ELSE mode
  BY Zenon DEF ModeAggregator
<1>2. /\ votes(mode) \in SUBSET Contributors
      /\ \A i \in votes(mode) : CanonicalModeValue(Values[i]) = mode
  BY ValuesType, Zenon
<1> DEFINE V == votes(mode)
<1>3. DOMAIN stamps = V /\ \A i \in V : stamps[i] = Values[i].at
  BY Zenon
<1> HIDE DEF stamps, mode, result, V, votes
<1>4. IsFiniteSet(V)
  BY <1>2, ValuesType, FS_Subset, Zenon DEF V
<1>5. PICK o \in V : o \notin contributions.faulty
  BY <1>1, <1>4, HonestAmong, Zenon DEF ContributionsOK, V
<1>6. \A i \in V : /\ Values[i].type \in {0, 1, 2} /\ mode.type = Values[i].type
                   /\ mode.type = 2 => Values[i].at \in Nat
                   /\ i \notin contributions.faulty => Values[i] \in Honest
                   /\ CanonicalModeValue(Values[i]) = mode
  BY <1>2, ValuesType, ValidNumbers, FormType DEF V
<1>7. CASE mode.type = 2
  <2>1. mode = Timestamped(0, CanonicalStreamValue(Values[o].value))
    BY <1>5, <1>6, <1>7, FormType
  <2>2. result = Timestamped(stamps[MedianIndex(stamps)], mode.value)
    BY <1>1, <1>7, Zenon
  <2>3. Timeless(result) = mode
    BY <2>1, <2>2 DEF Timeless, Timestamped
  <2>4. \E i, j \in V \ contributions.faulty :
          stamps[i] <= stamps[MedianIndex(stamps)] /\ stamps[MedianIndex(stamps)] <= stamps[j]
    <3>1. \A i \in DOMAIN stamps : stamps[i] \in Int
      BY <1>3, <1>6, <1>7
    <3>2. ~ (Cardinality(DOMAIN stamps) < MinContributions)
      BY <1>1, <1>3, Zenon DEF V
    <3> QED BY <1>3, <1>4, <3>1, <3>2, MedianStampHonest, Zenon DEF ContributionsOK
  <2>5. result.at = stamps[MedianIndex(stamps)]
    BY <2>2, Zenon DEF Timestamped
  <2>6. \A i \in V \ contributions.faulty : stamps[i] \in Stamps
    BY <1>3, <1>6, <1>7 DEF Stamps
  <2>7. Within(result.at, Stamps)
    BY <2>4, <2>5, <2>6, Zenon DEF Within
  <2> QED BY <1>5, <1>6, <2>3, <2>7, Zenon DEF result
<1>8. CASE mode.type # 2
  <2>1. result = mode
    BY <1>1, <1>8, Zenon
  <2>2. Timeless(result) = mode /\ result.type # 2
    BY <1>8, <2>1, Zenon DEF Timeless
  <2> QED BY <1>5, <1>6, <2>2, Zenon DEF result
<1> QED BY <1>7, <1>8, Zenon

Quotes == {v \in Honest : v.type = 1}

(* The median of one price of the quotes lies between honest ones.         *)
LEMMA QuotePriceHonest ==
    ASSUME ContributionsOK, NEW price \in {"bid", "benchmark", "ask"}, NEW quotes,
           quotes = {i \in DOMAIN Values : Values[i].type = 1 /\ IsValid(Values[i])},
           ~ (Cardinality(quotes) < MinContributions),
           NEW key, key = [i \in quotes |-> Number(Values[i][price])]
    PROVE  /\ IsKey(key)
           /\ MedianIndex(key) \in quotes
           /\ Within(Number(Values[MedianIndex(key)][price]), {Number(q[price]) : q \in Quotes})
<1>1. quotes \in SUBSET Contributors /\ \A i \in quotes : Values[i].type = 1
  BY ValuesType, Zenon
<1>2. IsFiniteSet(quotes)
  BY <1>1, ValuesType, FS_Subset, Zenon
<1>3. DOMAIN key = quotes /\ \A i \in quotes : key[i] = Number(Values[i][price])
  BY Zenon
<1>4. \A i \in quotes : Number(Values[i][price]) \in Int
  BY <1>1, ValuesType, ValidNumbers, Zenon
<1>5. Cardinality(quotes) \in Nat /\ quotes # {}
  BY <1>2, FS_CardinalityType, FS_EmptySet, AggregatorsAssumption DEF MinContributions
<1>6. IsKey(key)
  BY <1>2, <1>3, <1>4, <1>5, Zenon DEF IsKey
<1>7. MedianIndex(key) \in quotes
  BY <1>3, <1>6, MedianExists, Zenon DEF IsMedian
<1> DEFINE m == MedianIndex(key)
<1>8. PICK i, j \in quotes \ contributions.faulty : key[i] <= key[m] /\ key[m] <= key[j]
  BY <1>2, <1>3, <1>4, MedianStampHonest DEF ContributionsOK
<1>9. \A k \in quotes \ contributions.faulty : key[k] \in {Number(q[price]) : q \in Quotes}
  BY <1>1, <1>3, ValuesType, Zenon DEF Quotes
<1>10. key[m] = Number(Values[m][price])
  BY <1>3, <1>7, Zenon
<1>11. Within(Number(Values[m][price]), {Number(q[price]) : q \in Quotes})
  BY <1>8, <1>9, <1>10, Zenon DEF Within
<1> QED BY <1>6, <1>7, <1>11, Zenon

(* The quotes.                                                             *)
LEMMA QuoteHonest ==
    ASSUME ContributionsOK, QuoteAggregator(Values, MinContributions) # Absent
    PROVE  LET result == QuoteAggregator(Values, MinContributions)
           IN /\ IsValid(result)
              /\ Within(Number(result.bid), {Number(q.bid) : q \in Quotes})
              /\ Within(Number(result.benchmark), {Number(q.benchmark) : q \in Quotes})
              /\ Within(Number(result.ask), {Number(q.ask) : q \in Quotes})
<1> DEFINE quotes == {i \in DOMAIN Values : Values[i].type = 1 /\ IsValid(Values[i])}
           key(price) == [i \in quotes |-> Number(Values[i][price])]
           median(price) == Values[MedianIndex(key(price))][price]
           result == QuoteAggregator(Values, MinContributions)
<1>1. /\ ~ (Cardinality(quotes) < MinContributions)
      /\ result = Quote(median("bid"), median("benchmark"), median("ask"))
  BY Zenon DEF QuoteAggregator
<1>2. /\ result.bid = median("bid") /\ result.benchmark = median("benchmark") /\ result.ask = median("ask")
  BY <1>1, SMTT(30) DEF Quote
<1>3. ASSUME NEW price \in {"bid", "benchmark", "ask"}
      PROVE  /\ IsKey(key(price))
             /\ MedianIndex(key(price)) \in quotes
             /\ Within(Number(median(price)), {Number(q[price]) : q \in Quotes})
  BY <1>1, QuotePriceHonest, Zenon
<1>4. \A i \in quotes : IsValid(Values[i])
  BY Zenon
<1>5. ASSUME NEW price \in {"bid", "benchmark", "ask"}
      PROVE  /\ DOMAIN key(price) = quotes
             /\ \A i \in quotes : key(price)[i] = Number(Values[i][price])
  BY Zenon
<1> HIDE DEF quotes, key
<1>6. \A price \in {"bid", "benchmark", "ask"} :
         key(price)[MedianIndex(key(price))] = Number(median(price))
  BY <1>3, <1>5, Zenon
<1>7. key("bid")[MedianIndex(key("bid"))] <= key("benchmark")[MedianIndex(key("benchmark"))]
  <2>1. \A i \in quotes : key("bid")[i] <= key("benchmark")[i]
    BY <1>4, <1>5, Zenon DEF IsValid
  <2> QED BY <1>3, <1>5, <2>1, MediansInOrder, Zenon
<1>8. key("benchmark")[MedianIndex(key("benchmark"))] <= key("ask")[MedianIndex(key("ask"))]
  <2>1. \A i \in quotes : key("benchmark")[i] <= key("ask")[i]
    BY <1>4, <1>5, Zenon DEF IsValid
  <2> QED BY <1>3, <1>5, <2>1, MediansInOrder, Zenon
<1> HIDE DEF median, result
<1>9. IsValid(result)
  BY <1>2, <1>6, <1>7, <1>8, Zenon DEF IsValid
<1>10. Within(Number(result.bid), {Number(q.bid) : q \in Quotes})
  BY <1>2, <1>3, Zenon
<1>11. Within(Number(result.benchmark), {Number(q.benchmark) : q \in Quotes})
  BY <1>2, <1>3, Zenon
<1>12. Within(Number(result.ask), {Number(q.ask) : q \in Quotes})
  BY <1>2, <1>3, Zenon
<1> QED BY <1>9, <1>10, <1>11, <1>12, Zenon DEF result

(* An aggregate lies between the values of honest oracles (aggregators.go),*)
(* for any number of oracles of which at most f are faulty.                *)
THEOREM AggregateIsHonestHolds == ContributionsOK => AggregateIsHonest
<1> SUFFICES ASSUME ContributionsOK, Aggregated # Absent PROVE AggregateIsHonest
  BY Zenon DEF AggregateIsHonest
<1>1. Aggregated = GetAggregatorFuncV31(contributions.aggregator, Values, MinContributions)
  BY Zenon DEF Aggregated, Values
<1>2. CASE contributions.aggregator = "median"
  <2>1. \/ Aggregated = MedianTimestamped(Values, MinContributions, FALSE)
        \/ Aggregated = MedianDecimal(Values, MinContributions)
    BY <1>1, <1>2, Zenon DEF GetAggregatorFuncV31, MedianAggregatorV31, MedianAggregatorOf
  <2>2. /\ \A x \in Prices(Aggregated) : Within(x, UNION {Prices(v) : v \in Honest})
        /\ Aggregated.type = 2 => Within(Aggregated.at, Stamps)
    <3>1. CASE Aggregated = MedianTimestamped(Values, MinContributions, FALSE)
      BY <3>1, TimestampedMedianHonest, Zenon
    <3>2. CASE Aggregated = MedianDecimal(Values, MinContributions)
      <4>1. /\ Aggregated.type = 0
            /\ \A x \in Prices(Aggregated) : Within(x, UNION {Prices(v) : v \in Honest})
        BY <3>2, DecimalMedianHonest, Zenon
      <4> QED BY <4>1
    <3> QED BY <2>1, <3>1, <3>2, Zenon
  <2> QED BY <1>2, <2>2, Zenon DEF AggregateIsHonest, Honest, Stamps
<1>3. CASE contributions.aggregator = "mode"
  <2>1. Aggregated = ModeAggregator(Values, MinContributions)
    BY <1>1, <1>3, Zenon DEF GetAggregatorFuncV31
  <2>2. /\ \E v \in Honest : CanonicalModeValue(v) = Timeless(Aggregated)
        /\ Aggregated.type = 2 => Within(Aggregated.at, Stamps)
    BY <2>1, ModeHonest, Zenon
  <2> QED BY <1>3, <2>2, Zenon DEF AggregateIsHonest, Honest, Stamps
<1>4. CASE contributions.aggregator = "quote"
  <2>1. Aggregated = QuoteAggregator(Values, MinContributions)
    BY <1>1, <1>4, Zenon DEF GetAggregatorFuncV31
  <2>2. /\ IsValid(Aggregated)
        /\ Within(Number(Aggregated.bid), {Number(q.bid) : q \in Quotes})
        /\ Within(Number(Aggregated.benchmark), {Number(q.benchmark) : q \in Quotes})
        /\ Within(Number(Aggregated.ask), {Number(q.ask) : q \in Quotes})
    BY <2>1, QuoteHonest, Zenon
  <2> QED BY <1>4, <2>2, Zenon DEF AggregateIsHonest, Honest, Quotes
<1> QED BY <1>2, <1>3, <1>4, Zenon DEF ContributionsOK

-----------------------------------------------------------------------------
(* BlobPump. Whatever is in flight began in the window of rounds.          *)

PumpFields ==
    {"input", "latest", "referenced", "inFlight", "trigger", "cycle", "take", "took", "window",
     "settled", "closed"}

(* A window of n rounds with a stall before round k + 1, or without one if *)
(* k = n.                                                                  *)
WindowOf(n, k) == [i \in 1 .. n |-> i - 1 + (IF i > k THEN StallTime - 1 ELSE 0)]

IsWindow(w) ==
    /\ Len(w) \in 1 .. AgreedTimestampWindow
    /\ \E k \in 1 .. Len(w) : w = WindowOf(Len(w), k)

(* What began so many rounds ago has an entry in a window of n rounds, or  *)
(* the window is full.                                                     *)
Covered(age, n) == age \in 0 .. AgeBound /\ (age < n \/ n = AgreedTimestampWindow)

IsSnapshot(snap, n) == {"age", "ttl"} \subseteq DOMAIN snap /\ Covered(snap.age, n)

PumpInv ==
    /\ DOMAIN pump = PumpFields
    /\ IsWindow(pump.window)
    /\ pump.input # Absent => Covered(pump.input, Len(pump.window))
    /\ pump.latest # Absent => IsSnapshot(pump.latest, Len(pump.window))
    /\ "at" \in DOMAIN pump.cycle /\ IsSnapshot(pump.cycle, Len(pump.window))
    /\ pump.took # Absent => /\ IsSnapshot(pump.took, Len(pump.window))
                             /\ pump.took.age <= MaxStreamValueAgeRounds

LEMMA PumpConstants ==
    /\ MaxStreamValueAgeRounds \in Nat /\ MaxStreamValueAgeRounds >= 3
    /\ AgeBound = MaxStreamValueAgeRounds + 1 /\ AgreedTimestampWindow = MaxStreamValueAgeRounds + 1
    /\ StallTime \in Nat /\ StallTime > MaxStreamValueAgeRounds
    /\ StallTime > MaxStreamValueAgeRounds * DeltaRound
    /\ DeltaRound \in Nat /\ BlobLifetimeRounds \in Nat /\ BlobBroadcastAttempts \in Nat
<1>1. MaxStreamValueAgeRounds \in Nat /\ MaxStreamValueAgeRounds >= 3
  BY FreshnessAssumption DEF MaxStreamValueAgeRounds
<1>2. StallTime > MaxStreamValueAgeRounds * 1 /\ StallTime > MaxStreamValueAgeRounds * DeltaRound
  BY PumpAssumption, Zenon
<1>3. MaxStreamValueAgeRounds * 1 = MaxStreamValueAgeRounds
  BY <1>1
<1> QED BY <1>1, <1>2, <1>3, PumpAssumption, FreshnessAssumption, Zenon DEF AgeBound, AgreedTimestampWindow

LEMMA IdleCycle ==
    ASSUME NEW n \in 1 .. AgreedTimestampWindow
    PROVE  /\ Covered(0, n) /\ "at" \in DOMAIN Idle /\ IsSnapshot(Idle, n)
  BY PumpConstants DEF Idle, IsSnapshot, Covered

LEMMA InitialPump == PumpInit => PumpInv
<1> SUFFICES ASSUME PumpInit PROVE PumpInv
  BY Zenon
<1>1. DOMAIN pump = PumpFields
  BY Zenon DEF PumpInit, PumpFields
<1>2. pump.window = <<0>> /\ Len(pump.window) = 1
  BY Zenon DEF PumpInit
<1>3. pump.window = WindowOf(1, 1)
  BY <1>2 DEF WindowOf
<1>4. IsWindow(pump.window)
  BY <1>2, <1>3, PumpConstants DEF IsWindow
<1>5. pump.input = Absent /\ pump.latest = Absent /\ pump.took = Absent /\ pump.cycle = Idle
  BY Zenon DEF PumpInit
<1>6. 1 \in 1 .. AgreedTimestampWindow
  BY PumpConstants
<1> QED BY <1>1, <1>2, <1>4, <1>5, <1>6, IdleCycle, Zenon DEF PumpInv

LEMMA WindowLength == ASSUME PumpInv PROVE Len(pump.window) \in 1 .. AgreedTimestampWindow
  BY Zenon DEF PumpInv, IsWindow

(* A step that leaves the pump's snapshots and rounds alone.               *)
LEMMA Unmoved ==
    ASSUME PumpInv, DOMAIN pump' = PumpFields, pump'.window = pump.window,
           pump'.input = pump.input, pump'.latest = pump.latest, pump'.took = pump.took,
           pump'.cycle = pump.cycle
    PROVE  PumpInv'
  BY Zenon DEF PumpInv

(* Observation.                                                            *)
LEMMA ObservationKeepsPump ==
    ASSUME PumpInv, ObservationSteps
    PROVE  PumpInv'
<1>0. DOMAIN pump = PumpFields
  BY Zenon DEF PumpInv
<1>1. CASE SetInput
  <2>2. pump' = [pump EXCEPT !.input = 0, !.take = "set"]
    BY <1>1, Zenon DEF SetInput
  <2>3. /\ DOMAIN pump' = PumpFields
        /\ pump'.input = 0 /\ pump'.latest = pump.latest /\ pump'.cycle = pump.cycle
        /\ pump'.took = pump.took /\ pump'.window = pump.window
    BY <1>0, <2>2, Zenon DEF PumpFields
  <2>4. Covered(0, Len(pump.window))
    BY WindowLength, IdleCycle, Zenon
  <2> QED BY <2>3, <2>4, Zenon DEF PumpInv
<1>2. CASE TakeWaits
  <2>2. pump' = [pump EXCEPT !.take = "waiting"]
    BY <1>2, Zenon DEF TakeWaits
  <2>3. /\ DOMAIN pump' = PumpFields
        /\ pump'.input = pump.input /\ pump'.latest = pump.latest /\ pump'.cycle = pump.cycle
        /\ pump'.took = pump.took /\ pump'.window = pump.window
    BY <1>0, <2>2, Zenon DEF PumpFields
  <2> QED BY <2>3, Unmoved, Zenon
<1>3. CASE Look
  <2> DEFINE took == IF IsUsable(pump.latest) THEN pump.latest ELSE Absent
             referenced == IF pump.latest = Absent THEN pump.referenced ELSE TRUE
  <2>1. pump' = [pump EXCEPT !.took = took, !.referenced = referenced, !.take = "leaving"]
    BY <1>3, Zenon DEF Look
  <2>3. took # Absent => /\ took = pump.latest /\ took.age <= MaxStreamValueAgeRounds
    BY Zenon DEF IsUsable, IsWithinRoundAge
  <2> HIDE DEF took, referenced
  <2>5. /\ DOMAIN pump' = PumpFields
        /\ pump'.input = pump.input /\ pump'.latest = pump.latest /\ pump'.cycle = pump.cycle
        /\ pump'.took = took /\ pump'.window = pump.window
    BY <1>0, <2>1, Zenon DEF PumpFields
  <2> QED BY <2>3, <2>5, Zenon DEF PumpInv
<1>4. CASE Kick
  <2>1. pump' = [pump EXCEPT !.trigger = @ \/ Kicks, !.take = "done"]
    BY <1>4, Zenon DEF Kick
  <2>3. /\ DOMAIN pump' = PumpFields
        /\ pump'.input = pump.input /\ pump'.latest = pump.latest /\ pump'.cycle = pump.cycle
        /\ pump'.took = pump.took /\ pump'.window = pump.window
    BY <1>0, <2>1, Zenon DEF PumpFields
  <2> QED BY <2>3, Unmoved, Zenon
<1> QED BY <1>1, <1>2, <1>3, <1>4, Zenon DEF ObservationSteps

(* A step that moves the goroutine, and at most parks what it gathered.    *)
LEMMA Cycled ==
    ASSUME PumpInv, NEW cycle, "at" \in DOMAIN cycle, IsSnapshot(cycle, Len(pump.window)),
           DOMAIN pump' = PumpFields, pump'.window = pump.window,
           pump'.input = pump.input, pump'.latest = pump.latest, pump'.took = pump.took,
           pump'.cycle = cycle
    PROVE  PumpInv'
  BY Zenon DEF PumpInv

(* The goroutine is elsewhere, its snapshot is not.                        *)
LEMMA MovedCycle ==
    ASSUME PumpInv, NEW at
    PROVE  LET cycle == [pump.cycle EXCEPT !.at = at]
           IN "at" \in DOMAIN cycle /\ IsSnapshot(cycle, Len(pump.window)) /\ cycle.age = pump.cycle.age
<1>1. "at" \in DOMAIN pump.cycle /\ {"age", "ttl"} \subseteq DOMAIN pump.cycle
  BY Zenon DEF PumpInv, IsSnapshot
<1>2. "age" # "at" /\ [pump.cycle EXCEPT !.at = at].age = pump.cycle.age
  BY <1>1, Zenon
<1>3. DOMAIN [pump.cycle EXCEPT !.at = at] = DOMAIN pump.cycle
  BY Zenon
<1> HIDE DEF Covered
<1> QED BY <1>1, <1>2, <1>3, Zenon DEF PumpInv, IsSnapshot

(* The goroutine that broadcasts.                                          *)
LEMMA GoroutineKeepsPump ==
    ASSUME PumpInv, PumpGoroutine \/ BroadcastFails
    PROVE  PumpInv'
<1>0. DOMAIN pump = PumpFields
  BY Zenon DEF PumpInv
<1> DEFINE moved(at) == [pump.cycle EXCEPT !.at = at]
<1>m. ASSUME NEW at PROVE "at" \in DOMAIN moved(at) /\ IsSnapshot(moved(at), Len(pump.window))
  BY MovedCycle, Zenon
<1>i. "at" \in DOMAIN Idle /\ IsSnapshot(Idle, Len(pump.window))
  BY WindowLength, IdleCycle, Zenon
<1>1. CASE ReceiveTrigger
  <2>1. pump' = [pump EXCEPT !.trigger = FALSE, !.cycle.at = "woken"]
    BY <1>1, Zenon DEF ReceiveTrigger
  <2>2. /\ DOMAIN pump' = PumpFields
        /\ pump'.input = pump.input /\ pump'.latest = pump.latest /\ pump'.cycle = moved("woken")
        /\ pump'.took = pump.took /\ pump'.window = pump.window
    BY <1>0, <2>1, Zenon DEF PumpFields
  <2> HIDE DEF moved
  <2> QED BY <1>m, <2>2, Cycled, Zenon
<1>2. CASE ReadInput
  <2> DEFINE cycle == IF pump.input = Absent THEN Idle
                      ELSE [Idle EXCEPT !.at = "read", !.age = pump.input]
  <2>1. pump' = [pump EXCEPT !.cycle = cycle]
    BY <1>2, Zenon DEF ReadInput
  <2>2. /\ DOMAIN pump' = PumpFields
        /\ pump'.input = pump.input /\ pump'.latest = pump.latest /\ pump'.cycle = cycle
        /\ pump'.took = pump.took /\ pump'.window = pump.window
    BY <1>0, <2>1, Zenon DEF PumpFields
  <2>3. pump.input # Absent => Covered(pump.input, Len(pump.window))
    BY Zenon DEF PumpInv
  <2>4. cycle = Idle \/ (pump.input # Absent /\ DOMAIN cycle = DOMAIN Idle /\ cycle.age = pump.input)
    BY Zenon DEF Idle
  <2> HIDE DEF cycle
  <2>5. "at" \in DOMAIN cycle /\ IsSnapshot(cycle, Len(pump.window))
    BY <1>i, <2>3, <2>4, Zenon DEF IsSnapshot
  <2> QED BY <2>2, <2>5, Cycled, Zenon
<1>3. CASE BeginCycle
  <2>1. pump' = [pump EXCEPT !.inFlight = TRUE, !.cycle.at = "observe"]
    BY <1>3, Zenon DEF BeginCycle
  <2>2. /\ DOMAIN pump' = PumpFields
        /\ pump'.input = pump.input /\ pump'.latest = pump.latest /\ pump'.cycle = moved("observe")
        /\ pump'.took = pump.took /\ pump'.window = pump.window
    BY <1>0, <2>1, Zenon DEF PumpFields
  <2> HIDE DEF moved
  <2> QED BY <1>m, <2>2, Cycled, Zenon
<1>4. CASE Attempt
  <2> DEFINE ttl == IF ExpirationTtl(pump.cycle.age) > 0 THEN ExpirationTtl(pump.cycle.age) ELSE 0
             cycle == [pump.cycle EXCEPT !.at = "broadcast", !.attempt = @ + 1, !.ttl = ttl]
  <2>1. pump' = [pump EXCEPT !.cycle.at = "broadcast", !.cycle.attempt = @ + 1, !.cycle.ttl = ttl]
    BY <1>4, Zenon DEF Attempt
  <2> HIDE DEF ttl
  <2>2. DOMAIN pump' = PumpFields
    BY <1>0, <2>1, Zenon
  <2>3. /\ pump'.input = pump.input /\ pump'.latest = pump.latest
        /\ pump'.took = pump.took /\ pump'.window = pump.window
    BY <1>0, <2>1, Zenon DEF PumpFields
  <2>4. DOMAIN pump'.cycle = DOMAIN pump.cycle /\ pump'.cycle.age = pump.cycle.age
    BY <1>0, <2>1, Zenon DEF PumpFields, PumpInv, IsSnapshot
  <2>5. "at" \in DOMAIN pump'.cycle /\ IsSnapshot(pump'.cycle, Len(pump.window))
    BY <2>4, Zenon DEF PumpInv, IsSnapshot
  <2> QED BY <2>2, <2>3, <2>5, Zenon DEF PumpInv
<1>5. CASE Park
  <2> DEFINE snap == [age |-> pump.cycle.age, ttl |-> pump.cycle.ttl]
  <2>1. pump' = [pump EXCEPT !.latest = snap, !.referenced = FALSE, !.cycle.at = "parked"]
    BY <1>5, Zenon DEF Park
  <2>2. IsSnapshot(snap, Len(pump.window))
    BY Zenon DEF PumpInv, IsSnapshot
  <2> HIDE DEF snap
  <2>3. /\ DOMAIN pump' = PumpFields
        /\ pump'.input = pump.input /\ pump'.latest = snap /\ pump'.cycle = moved("parked")
        /\ pump'.took = pump.took /\ pump'.window = pump.window
    BY <1>0, <2>1, Zenon DEF PumpFields
  <2> HIDE DEF moved
  <2> QED BY <1>m, <2>2, <2>3, Zenon DEF PumpInv
<1>6. CASE EndCycle \/ CycleFails
  <2> DEFINE take == IF pump.take = "waiting" THEN "released" ELSE pump.take
  <2>1. pump' = [pump EXCEPT !.cycle = Idle, !.inFlight = FALSE, !.take = take]
    BY <1>6, Zenon DEF EndCycle, CycleFails, Ended
  <2> HIDE DEF take
  <2>2. /\ DOMAIN pump' = PumpFields
        /\ pump'.input = pump.input /\ pump'.latest = pump.latest /\ pump'.cycle = Idle
        /\ pump'.took = pump.took /\ pump'.window = pump.window
    BY <1>0, <2>1, Zenon DEF PumpFields
  <2> QED BY <1>i, <2>2, Cycled, Zenon
<1>7. CASE Stop
  <2> DEFINE cycle == [Idle EXCEPT !.at = "stopped"]
  <2>1. pump' = [pump EXCEPT !.cycle = cycle]
    BY <1>7, Zenon DEF Stop
  <2>2. /\ DOMAIN pump' = PumpFields
        /\ pump'.input = pump.input /\ pump'.latest = pump.latest /\ pump'.cycle = cycle
        /\ pump'.took = pump.took /\ pump'.window = pump.window
    BY <1>0, <2>1, Zenon DEF PumpFields
  <2>3. DOMAIN cycle = DOMAIN Idle /\ cycle.age = Idle.age
    BY Zenon DEF Idle
  <2> HIDE DEF cycle
  <2>4. "at" \in DOMAIN cycle /\ IsSnapshot(cycle, Len(pump.window))
    BY <1>i, <2>3, Zenon DEF IsSnapshot
  <2> QED BY <2>2, <2>4, Cycled, Zenon
<1>8. CASE BroadcastFails
  <2>1. pump' = [pump EXCEPT !.cycle.at = "retry"]
    BY <1>8, Zenon DEF BroadcastFails
  <2>2. /\ DOMAIN pump' = PumpFields
        /\ pump'.input = pump.input /\ pump'.latest = pump.latest /\ pump'.cycle = moved("retry")
        /\ pump'.took = pump.took /\ pump'.window = pump.window
    BY <1>0, <2>1, Zenon DEF PumpFields
  <2> HIDE DEF moved
  <2> QED BY <1>m, <2>2, Cycled, Zenon
<1> QED BY <1>1, <1>2, <1>3, <1>4, <1>5, <1>6, <1>7, <1>8, Zenon DEF PumpGoroutine

LEMMA OthersKeepPump ==
    ASSUME PumpInv, WaitEnds \/ ClosePump \/ Settle
    PROVE  PumpInv'
<1>0. DOMAIN pump = PumpFields
  BY Zenon DEF PumpInv
<1>1. \/ pump' = [pump EXCEPT !.take = "released"]
      \/ pump' = [pump EXCEPT !.closed = TRUE]
      \/ pump' = [pump EXCEPT !.settled = TRUE]
  BY Zenon DEF WaitEnds, ClosePump, Settle
<1>2. /\ DOMAIN pump' = PumpFields
      /\ pump'.input = pump.input /\ pump'.latest = pump.latest /\ pump'.cycle = pump.cycle
      /\ pump'.took = pump.took /\ pump'.window = pump.window
  BY <1>0, <1>1, Zenon DEF PumpFields
<1> QED BY <1>2, Unmoved, Zenon

LEMMA WindowSeq ==
    ASSUME NEW n \in Nat, NEW k \in Nat
    PROVE  /\ WindowOf(n, k) \in Seq(Int) /\ Len(WindowOf(n, k)) = n
           /\ \A i \in 1 .. n : WindowOf(n, k)[i] = i - 1 + (IF i > k THEN StallTime - 1 ELSE 0)
  BY PumpConstants DEF WindowOf

LEMMA SameWindow ==
    ASSUME NEW n \in Nat, NEW k \in Nat, NEW w, DOMAIN w = 1 .. n,
           w = [i \in DOMAIN w |-> w[i]],
           \A i \in 1 .. n : w[i] = i - 1 + (IF i > k THEN StallTime - 1 ELSE 0)
    PROVE  w = WindowOf(n, k)
  BY Zenon DEF WindowOf

(* One more round after a window of rounds with at most one stall.         *)
LEMMA LongerWindow ==
    ASSUME NEW n \in Nat \ {0}, NEW k \in 1 .. n, NEW interval \in {1, StallTime},
           interval = StallTime => k = n
    PROVE  \E j \in 1 .. n + 1 :
              Append(WindowOf(n, k), WindowOf(n, k)[n] + interval) = WindowOf(n + 1, j)
<1> DEFINE w == WindowOf(n, k)
           all == Append(w, w[n] + interval)
           j == IF k < n THEN k ELSE IF interval = 1 THEN n + 1 ELSE n
<1>1. w \in Seq(Int) /\ Len(w) = n
  BY WindowSeq
<1>2. \A i \in 1 .. n : w[i] = i - 1 + (IF i > k THEN StallTime - 1 ELSE 0)
  BY WindowSeq
<1>3. interval \in Int /\ w[n] \in Int /\ StallTime \in Int /\ StallTime > 1
  BY <1>1, PumpConstants
<1>4. all \in Seq(Int) /\ Len(all) = n + 1
  BY <1>1, <1>3
<1>5. \A i \in 1 .. n : all[i] = w[i]
  BY <1>1, <1>3
<1>6. all[n + 1] = w[n] + interval
  BY <1>1, <1>3
<1>7. j \in 1 .. n + 1
  OBVIOUS
<1> HIDE DEF w, all
<1>8. \A i \in 1 .. n + 1 : all[i] = i - 1 + (IF i > j THEN StallTime - 1 ELSE 0)
  <2>1. ASSUME NEW i \in 1 .. n PROVE all[i] = i - 1 + (IF i > j THEN StallTime - 1 ELSE 0)
    BY <1>2, <1>3, <1>5
  <2>2. w[n] = n - 1 + (IF n > k THEN StallTime - 1 ELSE 0)
    BY <1>2
  <2>3. all[n + 1] = n + (IF n + 1 > j THEN StallTime - 1 ELSE 0)
    BY <1>3, <1>6, <2>2
  <2> QED BY <2>1, <2>3
<1>9. all = WindowOf(n + 1, j)
  <2>1. DOMAIN all = 1 .. n + 1 /\ all = [i \in DOMAIN all |-> all[i]]
    BY <1>4
  <2> HIDE DEF j
  <2> QED BY <1>7, <1>8, <2>1, SameWindow
<1> QED BY <1>7, <1>9, Zenon DEF w, all

(* Appending a round to a full window drops its oldest one.                *)
LEMMA NextWindow ==
    ASSUME NEW w, IsWindow(w), NEW interval \in {1, StallTime},
           interval = StallTime => \A i \in 1 .. Len(w) - 1 : w[i + 1] - w[i] # StallTime
    PROVE  LET next == AppendAgreedTimestamp(w, w[Len(w)] + interval)
               shifted == [i \in DOMAIN next |-> next[i] - next[1]]
           IN /\ IsWindow(shifted)
              /\ Len(shifted) = IF Len(w) < AgreedTimestampWindow THEN Len(w) + 1
                                ELSE AgreedTimestampWindow
<1> DEFINE n == Len(w)
           all == Append(w, w[n] + interval)
           next == AppendAgreedTimestamp(w, w[n] + interval)
           shifted == [i \in DOMAIN next |-> next[i] - next[1]]
<1>0. n \in 1 .. AgreedTimestampWindow /\ n \in Nat \ {0}
  BY PumpConstants DEF IsWindow
<1>1. PICK k \in 1 .. n : w = WindowOf(n, k)
  BY Zenon DEF IsWindow
<1>k. k \in Nat /\ n + 1 \in Nat
  BY <1>0
<1>2. interval = StallTime => k = n
  <2>1. \A i \in 1 .. n : w[i] = i - 1 + (IF i > k THEN StallTime - 1 ELSE 0)
    <3> HIDE DEF n
    <3> QED BY <1>0, <1>1, <1>k, WindowSeq, Zenon
  <2>2. SUFFICES ASSUME interval = StallTime, k # n PROVE FALSE
    BY Zenon
  <2>3. k \in 1 .. n - 1 /\ k + 1 \in 1 .. n
    BY <1>0, <2>2
  <2>4. w[k + 1] = k + StallTime - 1 /\ w[k] = k - 1
    BY <2>1, <2>3, <1>0, PumpConstants
  <2>5. w[k + 1] - w[k] = StallTime
    BY <2>3, <2>4, <1>0, PumpConstants
  <2> QED BY <2>2, <2>3, <2>5, Zenon
<1>3. PICK j \in 1 .. n + 1 : all = WindowOf(n + 1, j)
  <2>1. \E j \in 1 .. n + 1 : Append(WindowOf(n, k), WindowOf(n, k)[n] + interval) = WindowOf(n + 1, j)
    BY <1>0, <1>2, LongerWindow, Zenon
  <2> QED BY <1>1, <2>1, Zenon
<1>4. /\ all \in Seq(Int) /\ Len(all) = n + 1
      /\ \A i \in 1 .. n + 1 : all[i] = i - 1 + (IF i > j THEN StallTime - 1 ELSE 0)
  <2> HIDE DEF all, n
  <2>1. j \in Nat
    BY <1>0
  <2> QED BY <1>k, <1>3, <2>1, WindowSeq, Zenon
<1>5. /\ n < AgreedTimestampWindow => next = all
      /\ n = AgreedTimestampWindow => next = SubSeq(all, 2, n + 1)
  <2> DEFINE excess == Len(all) - AgreedTimestampWindow
  <2>1. next = IF excess > 0 THEN SubSeq(all, excess + 1, Len(all)) ELSE all
    BY Zenon DEF AppendAgreedTimestamp
  <2>2. /\ Len(all) = n + 1
        /\ n < AgreedTimestampWindow => ~(excess > 0)
        /\ n = AgreedTimestampWindow => excess > 0 /\ excess + 1 = 2
    BY <1>0, <1>4, PumpConstants
  <2> HIDE DEF all, next, n, excess
  <2> QED BY <2>1, <2>2, Zenon
<1> HIDE DEF all, next
<1>6. CASE n < AgreedTimestampWindow
  <2>1. next = all
    BY <1>5, <1>6, Zenon
  <2>2. all[1] = 0
    BY <1>0, <1>4
  <2>3. DOMAIN shifted = 1 .. n + 1 /\ shifted = [i \in DOMAIN shifted |-> shifted[i]]
    BY <1>4, <2>1
  <2>4. \A i \in 1 .. n + 1 : shifted[i] = i - 1 + (IF i > j THEN StallTime - 1 ELSE 0)
    BY <1>0, <1>4, <2>1, <2>2, PumpConstants
  <2> HIDE DEF shifted
  <2>5. shifted = WindowOf(n + 1, j)
    BY <1>0, <2>3, <2>4, SameWindow
  <2>6. Len(shifted) = n + 1
    BY <1>0, <2>5, WindowSeq
  <2>7. n + 1 \in 1 .. AgreedTimestampWindow
    BY <1>0, <1>6, PumpConstants
  <2>8. IsWindow(shifted)
    BY <2>5, <2>6, <2>7, Zenon DEF IsWindow
  <2> QED BY <1>6, <2>6, <2>8, Zenon DEF shifted, next
<1>7. CASE n = AgreedTimestampWindow
  <2> DEFINE m == IF j = 1 THEN n ELSE j - 1
  <2>1. next = SubSeq(all, 2, n + 1)
    BY <1>5, <1>7, Zenon
  <2>2. next \in Seq(Int) /\ Len(next) = n /\ \A i \in 1 .. n : next[i] = all[i + 1]
    BY <1>0, <1>4, <2>1
  <2>3. DOMAIN shifted = 1 .. n /\ shifted = [i \in DOMAIN shifted |-> shifted[i]]
    BY <1>0, <2>2
  <2>4. m \in 1 .. n
    BY <1>0
  <2>5. \A i \in 1 .. n : shifted[i] = i - 1 + (IF i > m THEN StallTime - 1 ELSE 0)
    <3>1. SUFFICES ASSUME NEW i \in 1 .. n
                   PROVE  shifted[i] = i - 1 + (IF i > m THEN StallTime - 1 ELSE 0)
      BY Zenon
    <3>2. shifted[i] = all[i + 1] - all[2]
      BY <1>0, <2>2
    <3>3. all[i + 1] = i + (IF i + 1 > j THEN StallTime - 1 ELSE 0)
      <4>1. i + 1 \in 1 .. n + 1 /\ i + 1 - 1 = i
        BY <1>0
      <4>2. all[i + 1] = i + 1 - 1 + (IF i + 1 > j THEN StallTime - 1 ELSE 0)
        <5> HIDE DEF n, shifted
        <5> QED BY <1>4, <4>1
      <4> QED BY <4>1, <4>2, Zenon
    <3>4. all[2] = 1 + (IF 2 > j THEN StallTime - 1 ELSE 0)
      BY <1>0, <1>4
    <3> HIDE DEF shifted
    <3> QED BY <1>0, <3>2, <3>3, <3>4, PumpConstants
  <2> HIDE DEF shifted, m
  <2>6. shifted = WindowOf(n, m)
    <3>1. n \in Nat /\ m \in Nat
      BY <1>0, <2>4
    <3> HIDE DEF n
    <3> QED BY <2>3, <2>5, <3>1, SameWindow
  <2>7. Len(shifted) = n
    BY <1>0, <2>4, <2>6, WindowSeq
  <2>8. IsWindow(shifted)
    BY <1>0, <2>4, <2>6, <2>7, Zenon DEF IsWindow
  <2> QED BY <1>7, <2>7, <2>8, PumpConstants DEF shifted, next
<1> QED BY <1>0, <1>6, <1>7, PumpConstants DEF shifted, next

Longer(n) == IF n < AgreedTimestampWindow THEN n + 1 ELSE AgreedTimestampWindow

(* A round later, everything is a round older and the window longer.       *)
LEMMA OlderCovered ==
    ASSUME NEW n \in 1 .. AgreedTimestampWindow, NEW age, Covered(age, n)
    PROVE  Covered(Older(age), Longer(n)) /\ Covered(age, Longer(n))
  BY PumpConstants DEF Covered, Older, Longer

LEMMA AgedSnapshot ==
    ASSUME NEW n \in 1 .. AgreedTimestampWindow, NEW snap, IsSnapshot(snap, n)
    PROVE  /\ IsSnapshot(snap, Longer(n)) /\ IsSnapshot(Aged(snap), Longer(n))
           /\ DOMAIN Aged(snap) = DOMAIN snap
<1>1. DOMAIN Aged(snap) = DOMAIN snap
  BY Zenon DEF Aged
<1>2. Aged(snap).age = Older(snap.age)
  BY Zenon DEF Aged, IsSnapshot
<1> QED BY <1>1, <1>2, OlderCovered, Zenon DEF IsSnapshot

LEMMA NextRoundKeepsPump ==
    ASSUME PumpInv, NEW interval \in {1, StallTime}, NextRound(interval)
    PROVE  PumpInv'
<1> DEFINE w == pump.window
           n == Len(w)
           next == AppendAgreedTimestamp(w, w[n] + interval)
           shifted == [i \in DOMAIN next |-> next[i] - next[1]]
           input == IF pump.input = Absent THEN Absent ELSE Older(pump.input)
           latest == IF pump.latest = Absent THEN Absent ELSE Aged(pump.latest)
           cycle == IF pump.cycle.at \in {"idle", "woken", "stopped"} THEN pump.cycle ELSE Aged(pump.cycle)
<1>1. pump' = [pump EXCEPT !.take = "idle", !.took = Absent, !.input = input, !.latest = latest,
                           !.cycle = cycle, !.window = shifted]
  BY Zenon DEF NextRound
<1>2. IsWindow(shifted) /\ Len(shifted) = Longer(n)
  <2>1. interval = StallTime => \A i \in 1 .. n - 1 : w[i + 1] - w[i] # StallTime
    <3>1. SUFFICES ASSUME interval = StallTime, NEW i \in 1 .. n - 1 PROVE w[i + 1] - w[i] # StallTime
      BY Zenon
    <3>2. i \in DOMAIN Intervals /\ Intervals[i] = w[i + 1] - w[i]
      BY Zenon DEF Intervals
    <3> QED BY <3>1, <3>2, Zenon DEF NextRound
  <2>2. IsWindow(w)
    BY Zenon DEF PumpInv
  <2> QED BY <2>1, <2>2, NextWindow, Zenon DEF Longer
<1>3. n \in 1 .. AgreedTimestampWindow
  BY WindowLength, Zenon
<1>4. input # Absent => Covered(input, Longer(n))
  BY <1>3, OlderCovered, Zenon DEF PumpInv
<1>5. latest # Absent => IsSnapshot(latest, Longer(n))
  BY <1>3, AgedSnapshot, Zenon DEF PumpInv
<1>6. "at" \in DOMAIN cycle /\ IsSnapshot(cycle, Longer(n))
  BY <1>3, AgedSnapshot, Zenon DEF PumpInv
<1> HIDE DEF input, latest, cycle, shifted, n
<1>7. /\ DOMAIN pump' = PumpFields
      /\ pump'.input = input /\ pump'.latest = latest /\ pump'.cycle = cycle
      /\ pump'.took = Absent /\ pump'.window = shifted
  BY <1>1, Zenon DEF PumpInv, PumpFields
<1> QED BY <1>2, <1>4, <1>5, <1>6, <1>7, Zenon DEF PumpInv

LEMMA PumpStep == PumpInv /\ [PumpNext]_pump => PumpInv'
<1>1. ASSUME PumpInv, PumpNext PROVE PumpInv'
  BY <1>1, ObservationKeepsPump, GoroutineKeepsPump, OthersKeepPump, NextRoundKeepsPump, Zenon DEF PumpNext
<1>2. ASSUME PumpInv, UNCHANGED pump PROVE PumpInv'
  BY <1>2, Zenon DEF PumpInv
<1> QED BY <1>1, <1>2, Zenon

LEMMA InvHonestWithinWindow == PumpInv => HonestWithinWindow
<1> SUFFICES ASSUME PumpInv, Contributes
             PROVE  ~StaleByRounds(Contribution, 0) /\ ~StaleBeforeWindow(Contribution, 0, pump.window)
  BY Zenon DEF HonestWithinWindow
<1> DEFINE age == pump.took.age
           n == Len(pump.window)
<1>1. Covered(age, n) /\ age <= MaxStreamValueAgeRounds
  BY Zenon DEF PumpInv, Contributes, IsSnapshot
<1>2. Contribution.cycleStart = 0 - age
  BY Zenon DEF Contribution
<1>3. n \in 1 .. AgreedTimestampWindow
  BY WindowLength, Zenon
<1> HIDE DEF age, n
<1>4. age \in 0 .. MaxStreamValueAgeRounds /\ age < n
  BY <1>1, <1>3, PumpConstants DEF Covered
<1> QED BY <1>2, <1>3, <1>4, PumpConstants DEF StaleByRounds, StaleBeforeWindow, InWindow, n

(* The median of at least three intervals is not the one of the stall.     *)
LEMMA SteadyMedian ==
    ASSUME NEW n \in Nat, n >= 4, NEW k \in 1 .. n
    PROVE  MedianInterval(WindowOf(n, k)) = 1
<1> DEFINE w == WindowOf(n, k)
           all == [i \in 1 .. Len(w) - 1 |-> w[i + 1] - w[i]]
           nonzero == {i \in DOMAIN all : all[i] > 0}
           key == [i \in nonzero |-> all[i]]
<1>0. k \in Nat /\ Len(w) = n /\ StallTime \in Nat /\ StallTime > 1
  BY WindowSeq, PumpConstants
<1>1. \A i \in 1 .. n : w[i] = i - 1 + (IF i > k THEN StallTime - 1 ELSE 0)
  BY <1>0, WindowSeq, Zenon
<1> HIDE DEF w
<1>2. ASSUME NEW i \in 1 .. n - 1 PROVE all[i] = (IF i = k THEN StallTime ELSE 1)
  <2>1. i \in 1 .. n /\ i + 1 \in 1 .. n
    OBVIOUS
  <2>2. w[i] = i - 1 + (IF i > k THEN StallTime - 1 ELSE 0)
    BY <1>1, <2>1, Zenon
  <2>3. w[i + 1] = i + 1 - 1 + (IF i + 1 > k THEN StallTime - 1 ELSE 0)
    BY <1>1, <2>1
  <2>4. all[i] = w[i + 1] - w[i]
    BY <1>0, Zenon
  <2> HIDE DEF all
  <2> QED BY <1>0, <2>2, <2>3, <2>4
<1>3. DOMAIN all = 1 .. n - 1
  BY <1>0, Zenon
<1> HIDE DEF all
<1>4. nonzero = 1 .. n - 1
  BY <1>0, <1>2, <1>3
<1>5. DOMAIN key = 1 .. n - 1 /\ \A i \in 1 .. n - 1 : key[i] = all[i] /\ key[i] \in Int
  BY <1>0, <1>2, <1>4
<1>6. IsFiniteSet(1 .. n - 1) /\ Cardinality(1 .. n - 1) = n - 1
  BY FS_Interval
<1>7. MedianInterval(w) = all[MedianIndex(key)]
  <2>1. MedianInterval(w) = IF nonzero = {} THEN 0 ELSE all[MedianIndex(key)]
    BY Zenon DEF MedianInterval, all
  <2>2. nonzero # {}
    BY <1>4
  <2> QED BY <2>1, <2>2, Zenon
<1> HIDE DEF nonzero, key
<1>8. IsKey(key)
  BY <1>5, <1>6 DEF IsKey
<1>9. IsFiniteSet({k}) /\ Cardinality({k}) = 1
  BY FS_Singleton, Zenon
<1>10. PICK i \in DOMAIN key \ {k}, j \in DOMAIN key \ {k} :
          key[i] <= key[MedianIndex(key)] /\ key[MedianIndex(key)] <= key[j]
  <2>1. 1 \in Nat /\ Cardinality({k}) <= 1 /\ 2 * 1 + 1 <= Cardinality(DOMAIN key)
    BY <1>5, <1>6, <1>9
  <2> QED BY <1>8, <1>9, <2>1, MedianAmongOthers, Zenon
<1>11. MedianIndex(key) \in 1 .. n - 1
  BY <1>5, <1>8, MedianExists, Zenon DEF IsMedian
<1>12. key[i] = 1 /\ key[j] = 1
  BY <1>2, <1>5, <1>10, Zenon
<1>13. key[MedianIndex(key)] = 1 /\ all[MedianIndex(key)] = key[MedianIndex(key)]
  BY <1>5, <1>10, <1>11, <1>12
<1> QED BY <1>7, <1>13, Zenon DEF w

(* The interval that is estimated across a stall.                          *)
LEMMA SteadyEstimate ==
    ASSUME NEW n \in Nat, n >= 4, NEW k \in 1 .. n
    PROVE  LET est == RoundIntervalEstimate(WindowOf(n, k))
           IN /\ est \in Nat /\ est >= 1 /\ MaxStreamValueAgeRounds * est \in Nat
              /\ MaxStreamValueAgeRounds * est >= MaxStreamValueAgeRounds
              /\ StallTime > MaxStreamValueAgeRounds * est
<1> DEFINE est == RoundIntervalEstimate(WindowOf(n, k))
<1>1. est = IF 1 = 0 \/ 1 > DeltaRound THEN 1 ELSE DeltaRound
  BY SteadyMedian, Zenon DEF RoundIntervalEstimate
<1> HIDE DEF est
<1>2. est \in Nat /\ est >= 1 /\ (est = 1 \/ est = DeltaRound)
  BY <1>1, PumpConstants
<1>3. ASSUME NEW a \in Nat, NEW b \in Nat, b >= 1 PROVE a * b \in Nat /\ a * b >= a
  <2>1. PICK c \in Nat : b = c + 1
    BY <1>3
  <2>2. a * (c + 1) = a * c + a /\ a * c \in Nat
    BY <1>3
  <2> QED BY <2>1, <2>2, <1>3
<1>4. MaxStreamValueAgeRounds * est \in Nat /\ MaxStreamValueAgeRounds * est >= MaxStreamValueAgeRounds
  BY <1>2, <1>3, PumpConstants, Zenon
<1>5. StallTime > MaxStreamValueAgeRounds * est
  <2>1. CASE est = 1
    BY <2>1, PumpConstants
  <2>2. CASE est = DeltaRound
    BY <2>2, PumpConstants, Zenon
  <2> QED BY <1>2, <2>1, <2>2, Zenon
<1> QED BY <1>2, <1>4, <1>5, Zenon DEF est

(* How long ago the cycle of a snapshot began, which is longer than the    *)
(* estimate allows exactly if the stall came since.                        *)
LEMMA StaleAcrossStall ==
    ASSUME NEW n \in Nat, n >= 4, NEW k \in 1 .. n, NEW age \in 0 .. n - 1,
           age <= MaxStreamValueAgeRounds, NEW limit \in Nat,
           limit >= MaxStreamValueAgeRounds, StallTime > limit
    PROVE  (WindowOf(n, k)[n] - WindowOf(n, k)[n - age] > limit) <=> (k < n /\ k >= n - age)
<1> DEFINE w == WindowOf(n, k)
<1>1. w[n] = n - 1 + (IF n > k THEN StallTime - 1 ELSE 0)
  BY WindowSeq
<1>2. n - age \in 1 .. n
  OBVIOUS
<1>3. w[n - age] = (n - age) - 1 + (IF n - age > k THEN StallTime - 1 ELSE 0)
  BY <1>2, WindowSeq
<1> HIDE DEF w
<1>4. (w[n] - w[n - age] > limit) <=> (k < n /\ k >= n - age)
  <2>1. CASE k < n /\ k >= n - age
    BY <1>1, <1>3, <2>1, PumpConstants
  <2>2. CASE k = n
    BY <1>1, <1>3, <2>2, PumpConstants
  <2>3. CASE k < n /\ ~(k >= n - age)
    BY <1>1, <1>3, <2>3, PumpConstants
  <2> QED BY <2>1, <2>2, <2>3
<1> QED BY <1>4, Zenon DEF w

(* One contribution that is neither stale by rounds nor before the window  *)
(* is selected unless it is stale by time.                                 *)
LEMMA SelectedUnlessStale ==
    ASSUME NEW c, NEW time, NEW w, NEW interval,
           ~StaleByRounds(c, 0), ~StaleBeforeWindow(c, 0, w)
    PROVE  (SelectFreshContributions({c}, 0, time, w, interval, 1) = {})
             <=> StaleByTime(c, 0, time, w, interval)
<1> DEFINE fresh == {d \in {c} : Fresh(d, 0, time, w, interval)}
           fallback == {d \in {c} : ~StaleByTime(d, 0, time, w, interval)}
<1>1. SelectFreshContributions({c}, 0, time, w, interval, 1)
        = IF fresh = {c} \/ Cardinality(fresh) >= 1 THEN fresh ELSE fallback
  BY Zenon DEF SelectFreshContributions
<1>2. CASE StaleByTime(c, 0, time, w, interval)
  <2>1. fresh = {} /\ fallback = {}
    BY <1>2, Zenon DEF Fresh
  <2> QED BY <1>1, <1>2, <2>1, Zenon
<1>3. CASE ~StaleByTime(c, 0, time, w, interval)
  <2>1. fresh = {c} /\ {c} # {}
    BY <1>3, Zenon DEF Fresh
  <2> QED BY <1>1, <1>3, <2>1, Zenon
<1> QED BY <1>2, <1>3, Zenon

(* A contribution from before a stall is not selected after it.            *)
LEMMA InvPreStallExcluded == PumpInv => PreStallExcluded
<1> SUFFICES ASSUME PumpInv, Contributes, Len(pump.window) = AgreedTimestampWindow
             PROVE  PreStallExcluded
  BY Zenon DEF PreStallExcluded
<1> DEFINE w == pump.window
           n == AgreedTimestampWindow
           age == pump.took.age
           est == RoundIntervalEstimate(w)
           stalls == {i \in DOMAIN Intervals : Intervals[i] = StallTime}
           before == \E i \in stalls : i >= Len(w) - age
           selected == SelectFreshContributions({Contribution}, 0, RoundTime, w, est, 1)
<1>1. n \in Nat /\ n >= 4 /\ n = MaxStreamValueAgeRounds + 1
  BY PumpConstants
<1>2. PICK k \in 1 .. n : w = WindowOf(n, k)
  BY Zenon DEF PumpInv, IsWindow
<1>3. Covered(age, n) /\ age <= MaxStreamValueAgeRounds
  BY Zenon DEF PumpInv, Contributes, IsSnapshot
<1>4. age \in 0 .. n - 1
  BY <1>1, <1>3, PumpConstants DEF Covered
<1> HIDE DEF w, n, age
<1>5. /\ est \in Nat /\ est >= 1 /\ MaxStreamValueAgeRounds * est \in Nat
      /\ MaxStreamValueAgeRounds * est >= MaxStreamValueAgeRounds
      /\ StallTime > MaxStreamValueAgeRounds * est
  BY <1>1, <1>2, SteadyEstimate, Zenon
<1> HIDE DEF est
<1>6. (w[n] - w[n - age] > MaxStreamValueAgeRounds * est) <=> (k < n /\ k >= n - age)
  BY <1>1, <1>2, <1>3, <1>4, <1>5, StaleAcrossStall, Zenon
<1>7. before <=> (k < n /\ k >= n - age)
  <2>1. \A i \in 1 .. n : w[i] = i - 1 + (IF i > k THEN StallTime - 1 ELSE 0)
    <3>1. k \in Nat
      BY <1>1
    <3> QED BY <1>1, <1>2, <3>1, WindowSeq, Zenon
  <2>2. Len(w) = n
    BY Zenon DEF w, n
  <2>3. DOMAIN Intervals = 1 .. n - 1 /\ \A i \in 1 .. n - 1 : Intervals[i] = w[i + 1] - w[i]
    BY <1>1, <2>2, Zenon DEF Intervals, w
  <2>4. ASSUME NEW i \in 1 .. n - 1 PROVE (Intervals[i] = StallTime) <=> i = k
    <3>1. i \in 1 .. n /\ i + 1 \in 1 .. n
      BY <1>1
    <3>2. w[i] = i - 1 + (IF i > k THEN StallTime - 1 ELSE 0)
      BY <2>1, <3>1, Zenon
    <3>3. w[i + 1] = i + 1 - 1 + (IF i + 1 > k THEN StallTime - 1 ELSE 0)
      BY <2>1, <3>1
    <3>4. Intervals[i] = w[i + 1] - w[i]
      BY <2>3, Zenon
    <3> QED BY <1>1, <3>2, <3>3, <3>4, PumpConstants
  <2>5. \A i : i \in stalls <=> (i = k /\ k < n)
    BY <1>1, <2>3, <2>4
  <2> HIDE DEF stalls
  <2> QED BY <2>2, <2>5, Zenon
<1>8. StaleByTime(Contribution, 0, RoundTime, w, est)
        <=> (w[n] - w[n - age] > MaxStreamValueAgeRounds * est)
  <2>1. ~StaleByRounds(Contribution, 0) /\ ~StaleBeforeWindow(Contribution, 0, w)
    BY InvHonestWithinWindow, Zenon DEF HonestWithinWindow, w
  <2>2. InWindow(w, 0, Contribution.cycleStart)
    BY <2>1, Zenon DEF StaleBeforeWindow
  <2>3. Contribution.cycleStart = 0 - age
    BY Zenon DEF Contribution, age
  <2>4. RoundTime = w[n]
    BY Zenon DEF RoundTime, w, n
  <2>5. Len(w) - (0 - (0 - age)) = n - age
    <3>1. Len(w) = n
      BY Zenon DEF w, n
    <3> QED BY <1>1, <1>4, <3>1
  <2>6. AgreedTimestampAt(w, 0, Contribution.cycleStart) = w[n - age]
    BY <2>3, <2>5, Zenon DEF AgreedTimestampAt
  <2>7. est > 0
    BY <1>5
  <2> QED BY <2>1, <2>2, <2>4, <2>6, <2>7, Zenon DEF StaleByTime
<1>9. selected = {} <=> StaleByTime(Contribution, 0, RoundTime, w, est)
  <2>1. ~StaleByRounds(Contribution, 0) /\ ~StaleBeforeWindow(Contribution, 0, w)
    BY InvHonestWithinWindow, Zenon DEF HonestWithinWindow, w
  <2> QED BY <2>1, SelectedUnlessStale, Zenon
<1>10. selected = {} <=> before
  BY <1>6, <1>7, <1>8, <1>9, Zenon
<1> QED BY <1>10, Zenon DEF PreStallExcluded, w, est, age

(* SnapshotsInTime.                                                        *)
THEOREM SnapshotsInTimeHolds == PumpSpec => []SnapshotsInTime
<1>1. PumpInv => SnapshotsInTime
  BY InvHonestWithinWindow, InvPreStallExcluded, Zenon DEF SnapshotsInTime
<1> QED BY <1>1, InitialPump, PumpStep, PTL DEF PumpSpec
=============================================================================
