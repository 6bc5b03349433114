---------------------------- MODULE RoundV31Proofs ----------------------------
(***************************************************************************)
(* What the tally of a v31 round guarantees for any number of oracles: the *)
(* faulty ones alone never reach a threshold, and the votes that pass keep *)
(* the committed channels live and within their limits.                    *)
(***************************************************************************)
EXTENDS RoundV31, FiniteSetTheorems, TLAPS

-----------------------------------------------------------------------------
(* What the operators on sets of channel definitions return: sums, the     *)
(* totals of a set and their limits, and the set that the votes of a round *)
(* make of another.                                                        *)

(* A set of naturals has a smallest one.                                   *)
LEMMA MinimumExists ==
    ASSUME NEW S \in SUBSET Nat, S # {}
    PROVE  \E x \in S : \A y \in S : x <= y
<1>1. PICK x \in S : \A y \in S : ~ (<<y, x>> \in OpToRel(<, Nat))
  BY NatLessThanWellFounded, WFMin, Zenon
<1>2. ASSUME NEW y \in S PROVE x <= y
  <2>1. <<y, x>> \in Nat \X Nat /\ ~ (<<y, x>> \in OpToRel(<, Nat))
    BY <1>1, Zenon
  <2>2. ~ (y < x)
    BY <2>1, Zenon DEF OpToRel
  <2> QED BY <2>2
<1> QED BY <1>2, Zenon

(* Induction over a finite set: among its subsets with a property there is *)
(* one that is smallest. Many facts below are shown by looking at the      *)
(* smallest set for which they fail.                                       *)
LEMMA SmallestSet ==
    ASSUME NEW S, IsFiniteSet(S), NEW X \in SUBSET (SUBSET S), X # {}
    PROVE  \E T \in X : \A U \in X : U \subseteq T => U = T
<1>1. IsWellFoundedOn(StrictSubsetOrdering(S), SUBSET S)
  BY FS_StrictSubsetOrderingWellFounded, FS_FiniteSubsetsOfFinite, Zenon
<1>2. PICK T \in X : \A U \in X : ~ (<<U, T>> \in StrictSubsetOrdering(S))
  BY <1>1, WFMin, Zenon
<1>3. ASSUME NEW U \in X, U \subseteq T PROVE U = T
  <2>1. ~ (<<U, T>> \in StrictSubsetOrdering(S))
    BY <1>2, Zenon
  <2>2. <<U, T>> \in (SUBSET S) \X (SUBSET S)
    BY <1>2, Zenon
  <2> HIDE <1>2
  <2> QED BY <1>3, <2>1, <2>2, Zenon DEF StrictSubsetOrdering
<1> QED BY <1>3, Zenon

-----------------------------------------------------------------------------
(* Sums over finite sets. Nothing else is known of the order in which the  *)
(* elements are added up.                                                  *)

(* The element that a sum takes next.                                      *)
Some(s) == CHOOSE x \in s : TRUE

(* The sums of f over the sets in D.                                       *)
IsSumming(sum, f, D) ==
    sum = [s \in D |-> IF s = {} THEN 0 ELSE f[Some(s)] + sum[s \ {Some(s)}]]

(* What such a function says of a set.                                     *)
SumsOver(sum, f, S) ==
    /\ sum[{}] = 0
    /\ \A s \in SUBSET S : s # {} => sum[s] = f[Some(s)] + sum[s \ {Some(s)}]

(* The recursion behind a sum over a finite set has a solution: if not,    *)
(* there is a smallest size of subsets for which it has none.              *)
LEMMA SummingExists ==
    ASSUME NEW f, NEW S, IsFiniteSet(S)
    PROVE  \E sum : IsSumming(sum, f, SUBSET S)
<1> DEFINE D(n) == {s \in SUBSET S : Cardinality(s) <= n}
           X == {n \in Nat : ~ \E sum : IsSumming(sum, f, D(n))}
<1>1. \A s \in SUBSET S : IsFiniteSet(s) /\ Cardinality(s) \in Nat
  BY FS_Subset, FS_CardinalityType, Zenon
<1>2. ASSUME X # {} PROVE FALSE
  <2>1. PICK n \in X : \A m \in X : n <= m
    BY <1>2, MinimumExists, Zenon
  <2>2. n \in Nat /\ ~ \E sum : IsSumming(sum, f, D(n))
    BY <2>1, Zenon
  <2>3. CASE n = 0
    <3>1. \A s \in D(0) : s = {}
      BY <1>1, FS_EmptySet
    <3> DEFINE g == [s \in D(0) |-> 0]
    <3>2. g = [s \in D(0) |-> IF s = {} THEN 0 ELSE f[Some(s)] + g[s \ {Some(s)}]]
      BY <3>1, Zenon
    <3>3. IsSumming(g, f, D(0))
      BY <3>2, Zenon DEF IsSumming
    <3> QED BY <2>2, <2>3, <3>3, Zenon
  <2>4. CASE n # 0
    <3>1. n - 1 \in Nat /\ n - 1 \notin X
      <4>1. n - 1 \in Nat /\ ~ (n <= n - 1)
        BY <2>2, <2>4
      <4> HIDE DEF X
      <4> QED BY <2>1, <4>1, Zenon
    <3>2. PICK g : IsSumming(g, f, D(n - 1))
      BY <3>1, Zenon
    <3> DEFINE next(k, s) == f[Some(s)] + k[s \ {Some(s)}]
               h == [s \in D(n) |-> IF s = {} THEN 0 ELSE next(g, s)]
    <3>3. ASSUME NEW s \in D(n - 1) PROVE h[s] = g[s]
      <4>1. s \in D(n)
        BY <1>1, <2>2
      <4>2. h[s] = IF s = {} THEN 0 ELSE next(g, s)
        BY <4>1, Zenon
      <4> HIDE DEF h
      <4>3. g[s] = IF s = {} THEN 0 ELSE next(g, s)
        BY <3>2, Zenon DEF IsSumming
      <4> QED BY <4>2, <4>3
    <3>4. ASSUME NEW s \in D(n), s # {} PROVE s \ {Some(s)} \in D(n - 1)
      <4>1. Some(s) \in s
        BY <3>4, Zenon DEF Some
      <4>2. Cardinality(s \ {Some(s)}) = Cardinality(s) - 1
        BY <1>1, <4>1, FS_RemoveElement, Zenon
      <4> QED BY <1>1, <2>2, <4>2
    <3>5. ASSUME NEW s \in D(n), s # {} PROVE next(h, s) = next(g, s)
      <4>1. h[s \ {Some(s)}] = g[s \ {Some(s)}]
        BY <3>3, <3>4, <3>5, Zenon
      <4> HIDE DEF h
      <4> QED BY <4>1, Zenon
    <3>6. h = [s \in D(n) |-> IF s = {} THEN 0 ELSE next(h, s)]
      <4>1. \A s \in D(n) : (IF s = {} THEN 0 ELSE next(h, s)) = (IF s = {} THEN 0 ELSE next(g, s))
        <5> HIDE DEF h, next
        <5> QED BY <3>5, Zenon
      <4> HIDE DEF next
      <4> QED BY <4>1, Zenon
    <3>7. IsSumming(h, f, D(n))
      BY <3>6, Zenon DEF IsSumming
    <3> QED BY <2>2, <3>7, Zenon
  <2> QED BY <2>3, <2>4, Zenon
<1>3. PICK sum : IsSumming(sum, f, D(Cardinality(S)))
  BY <1>1, <1>2, Zenon
<1>4. D(Cardinality(S)) = SUBSET S
  BY <1>1, FS_Subset, Zenon
<1> QED BY <1>3, <1>4, Zenon

(* SumFunction adds up one element after the other.                        *)
LEMMA SumUnfolds ==
    ASSUME NEW f, NEW S, IsFiniteSet(S), DOMAIN f = S
    PROVE  \E sum : SumsOver(sum, f, S) /\ SumFunction(f) = sum[S]
<1> DEFINE D == SUBSET S
           total == CHOOSE sum : IsSumming(sum, f, D)
<1>1. IsSumming(total, f, D) /\ {} \in D
  BY SummingExists, Zenon
<1>2. SumFunctionOnSet(f, S) = total[S]
  BY Zenon DEF SumFunctionOnSet, FoldFunctionOnSet, MapThenFoldSet, IsSumming, Some
<1>3. SumFunction(f) = total[S]
  BY <1>2, Zenon DEF SumFunction
<1> HIDE DEF D, total
<1>4. /\ \A s \in D : s # {} => total[s] = f[Some(s)] + total[s \ {Some(s)}]
      /\ total[{}] = 0
  BY <1>1, Zenon DEF IsSumming
<1> QED BY <1>3, <1>4, Zenon DEF SumsOver, D

LEMMA SomeMember ==
    ASSUME NEW s, s # {}
    PROVE  Some(s) \in s
BY Zenon DEF Some

(* Integers add up to an integer.                                          *)
LEMMA SumIsInt ==
    ASSUME NEW S, IsFiniteSet(S), NEW f, \A x \in S : f[x] \in Int,
           NEW sum, SumsOver(sum, f, S)
    PROVE  \A s \in SUBSET S : sum[s] \in Int
<1>s. \A s \in SUBSET S : s # {} => sum[s] = f[Some(s)] + sum[s \ {Some(s)}]
  BY Zenon DEF SumsOver
<1>e. sum[{}] = 0
  BY Zenon DEF SumsOver
<1> DEFINE X == {s \in SUBSET S : sum[s] \notin Int}
<1>1. ASSUME X # {} PROVE FALSE
  <2>1. PICK T \in X : \A U \in X : U \subseteq T => U = T
    <3>1. X \in SUBSET (SUBSET S)
      BY Zenon
    <3> HIDE DEF X
    <3> QED BY <1>1, <3>1, SmallestSet
  <2> DEFINE U == T \ {Some(T)}
  <2>2. T # {} /\ T \in SUBSET S /\ sum[T] \notin Int
    <3>1. T \in SUBSET S /\ sum[T] \notin Int
      BY <2>1, Zenon
    <3>2. T # {}
      <4>1. T = {} => sum[T] = 0
        BY <1>e, Zenon
      <4> QED BY <3>1, <4>1
    <3> QED BY <3>1, <3>2, Zenon
  <2>3. Some(T) \in T /\ U \in SUBSET S /\ sum[T] = f[Some(T)] + sum[U]
    <3>1. Some(T) \in T /\ sum[T] = f[Some(T)] + sum[U]
      BY <2>2, <1>s, SomeMember, Zenon
    <3> QED BY <2>2, <3>1, Zenon
  <2>4. U \notin X
    BY <2>1, <2>3, Zenon
  <2>5. sum[U] \in Int /\ f[Some(T)] \in Int
    BY <2>2, <2>3, <2>4, Zenon
  <2> QED BY <2>2, <2>3, <2>5
<1> QED BY <1>1, Zenon

(* Any element can be taken out first.                                     *)
LEMMA SumWithout ==
    ASSUME NEW S, IsFiniteSet(S), NEW f, \A x \in S : f[x] \in Int,
           NEW sum, SumsOver(sum, f, S)
    PROVE  \A s \in SUBSET S : \A x \in s : sum[s] = f[x] + sum[s \ {x}]
<1>s. \A s \in SUBSET S : s # {} => sum[s] = f[Some(s)] + sum[s \ {Some(s)}]
  BY Zenon DEF SumsOver
<1>i. \A s \in SUBSET S : sum[s] \in Int
  BY SumIsInt, Zenon
<1> DEFINE Splits(s) == \A x \in s : sum[s] = f[x] + sum[s \ {x}]
           X == {s \in SUBSET S : ~ Splits(s)}
<1>1. ASSUME X # {} PROVE FALSE
  <2>1. PICK T \in X : \A U \in X : U \subseteq T => U = T
    <3>1. X \in SUBSET (SUBSET S)
      BY Zenon
    <3> HIDE DEF X
    <3> QED BY <1>1, <3>1, SmallestSet
  <2>2. T \in SUBSET S /\ ~ Splits(T)
    BY <2>1, Zenon
  <2>3. PICK x \in T : sum[T] # f[x] + sum[T \ {x}]
    BY <2>2, Zenon
  <2> DEFINE y == Some(T)
             both == (T \ {x}) \ {y}
  <2>4. y \in T /\ sum[T] = f[y] + sum[T \ {y}]
    <3>1. T # {}
      BY <2>3, Zenon
    <3> QED BY <2>2, <3>1, <1>s, SomeMember, Zenon
  <2>5. x # y
    BY <2>3, <2>4, Zenon
  <2> HIDE DEF y
  <2>6. Splits(T \ {x}) /\ Splits(T \ {y})
    <3>1. T \ {x} \notin X /\ T \ {y} \notin X
      BY <2>1, <2>3, <2>4, Zenon
    <3> QED BY <2>2, <3>1, Zenon
  <2>7. sum[T \ {x}] = f[y] + sum[both]
    BY <2>4, <2>5, <2>6, Zenon
  <2>8. (T \ {y}) \ {x} = both
    BY Zenon
  <2>9. sum[T \ {y}] = f[x] + sum[both]
    BY <2>3, <2>5, <2>6, <2>8, Zenon
  <2>10. f[x] \in Int /\ f[y] \in Int /\ sum[both] \in Int
    BY <2>2, <2>3, <2>4, <1>i, Zenon
  <2> QED BY <2>3, <2>4, <2>7, <2>9, <2>10
<1> QED BY <1>1, Zenon

Agree(f, g, T) == \A x \in T : f[x] = g[x]

(* Sums of the same numbers are the same.                                  *)
LEMMA SumsAgree ==
    ASSUME NEW S, NEW T, T \subseteq S, IsFiniteSet(S), NEW f, NEW g, Agree(f, g, T),
           NEW sum, SumsOver(sum, f, S), NEW other, SumsOver(other, g, T)
    PROVE  sum[T] = other[T]
<1>s. \A s \in SUBSET S : s # {} => sum[s] = f[Some(s)] + sum[s \ {Some(s)}]
  BY Zenon DEF SumsOver
<1>t. \A s \in SUBSET T : s # {} => other[s] = g[Some(s)] + other[s \ {Some(s)}]
  BY Zenon DEF SumsOver
<1>e. sum[{}] = 0 /\ other[{}] = 0
  <2>1. sum[{}] = 0
    BY Zenon DEF SumsOver
  <2>2. other[{}] = 0
    BY Zenon DEF SumsOver
  <2> QED BY <2>1, <2>2, Zenon
<1> DEFINE X == {s \in SUBSET T : sum[s] # other[s]}
<1>1. ASSUME X # {} PROVE FALSE
  <2>1. PICK R \in X : \A U \in X : U \subseteq R => U = R
    <3>1. X \in SUBSET (SUBSET S)
      BY Zenon
    <3> HIDE DEF X
    <3> QED BY <1>1, <3>1, SmallestSet
  <2>2. R \in SUBSET T /\ R \in SUBSET S /\ sum[R] # other[R]
    BY <2>1, Zenon
  <2> DEFINE U == R \ {Some(R)}
  <2>3. R # {}
    BY <2>2, <1>e, Zenon
  <2>4. Some(R) \in R /\ sum[R] = f[Some(R)] + sum[U]
    BY <2>2, <2>3, <1>s, SomeMember, Zenon
  <2>5. other[R] = g[Some(R)] + other[U]
    BY <2>2, <2>3, <1>t, Zenon
  <2>6. U \notin X
    BY <2>1, <2>4, Zenon
  <2>7. sum[U] = other[U] /\ f[Some(R)] = g[Some(R)]
    BY <2>2, <2>4, <2>6, Zenon DEF Agree
  <2> QED BY <2>2, <2>4, <2>5, <2>7, Zenon
<1> QED BY <1>1, Zenon

(* A sum of naturals shrinks with the set.                                 *)
LEMMA SumShrinks ==
    ASSUME NEW S, IsFiniteSet(S), NEW f, \A x \in S : f[x] \in Nat,
           NEW sum, SumsOver(sum, f, S), NEW T \in SUBSET S
    PROVE  sum[T] <= sum[S]
<1> DEFINE X == {s \in SUBSET S : T \subseteq s /\ ~ (sum[T] <= sum[s])}
<1>1. ASSUME X # {} PROVE FALSE
  <2>1. PICK R \in X : \A U \in X : U \subseteq R => U = R
    <3>1. X \in SUBSET (SUBSET S)
      BY Zenon
    <3> HIDE DEF X
    <3> QED BY <1>1, <3>1, SmallestSet
  <2>2. R \in SUBSET S /\ T \subseteq R /\ ~ (sum[T] <= sum[R])
    BY <2>1, Zenon
  <2>3. \A s \in SUBSET S : sum[s] \in Int
    <3>1. \A x \in S : f[x] \in Int
      OBVIOUS
    <3> QED BY <3>1, SumIsInt, Zenon
  <2>4. PICK x \in R : x \notin T
    <3>1. R # T
      BY <2>2, <2>3
    <3> QED BY <2>2, <3>1, Zenon
  <2> DEFINE U == R \ {x}
  <2>5. sum[R] = f[x] + sum[U]
    <3>1. \A z \in S : f[z] \in Int
      OBVIOUS
    <3> QED BY <2>2, <2>4, <3>1, SumWithout
  <2>6. U \notin X /\ U \in SUBSET S /\ T \subseteq U
    BY <2>1, <2>2, <2>4, Zenon
  <2>7. sum[T] <= sum[U]
    BY <2>6, Zenon
  <2>8. f[x] \in Nat /\ sum[U] \in Int /\ sum[T] \in Int /\ sum[R] \in Int
    BY <2>2, <2>3, <2>4, <2>6, Zenon
  <2> QED BY <2>2, <2>5, <2>7, <2>8
<1> QED BY <1>1, Zenon

(* The same of SumFunction.                                                *)
LEMMA SumType ==
    ASSUME NEW S, IsFiniteSet(S), NEW f \in [S -> Int]
    PROVE  SumFunction(f) \in Int
<1>1. PICK sum : SumsOver(sum, f, S) /\ SumFunction(f) = sum[S]
  BY SumUnfolds, Zenon
<1> QED BY <1>1, SumIsInt

(* Part of a family of naturals adds up to no more than all of it.         *)
LEMMA SumOfPart ==
    ASSUME NEW S, IsFiniteSet(S), NEW f \in [S -> Nat], NEW T \in SUBSET S
    PROVE  SumFunction([x \in T |-> f[x]]) <= SumFunction(f)
<1> DEFINE g == [x \in T |-> f[x]]
<1>1. PICK sum : SumsOver(sum, f, S) /\ SumFunction(f) = sum[S]
  BY SumUnfolds, Zenon
<1>2. IsFiniteSet(T) /\ DOMAIN g = T
  BY FS_Subset, Zenon
<1>3. Agree(f, g, T)
  BY Zenon DEF Agree
<1> HIDE DEF g
<1>4. PICK other : SumsOver(other, g, T) /\ SumFunction(g) = other[T]
  BY <1>2, SumUnfolds, Zenon
<1>5. sum[T] = other[T]
  <2>1. T \subseteq S
    BY Zenon
  <2> QED BY <1>1, <1>3, <1>4, <2>1, SumsAgree
<1>6. sum[T] <= sum[S]
  BY <1>1, SumShrinks, Zenon
<1> QED BY <1>1, <1>4, <1>5, <1>6, Zenon DEF g

(* Nothing adds up to zero.                                                *)
LEMMA SumOfNone ==
    ASSUME NEW f, DOMAIN f = {}
    PROVE  SumFunction(f) = 0
<1>1. IsFiniteSet({})
  BY FS_EmptySet, Zenon
<1>2. PICK sum : SumsOver(sum, f, {}) /\ SumFunction(f) = sum[{}]
  BY <1>1, SumUnfolds, Zenon
<1> QED BY <1>2, Zenon DEF SumsOver

-----------------------------------------------------------------------------
(* Sets of definitions and their totals.                                   *)

(* A set of definitions that can be committed.                             *)
IsCommitted(ds) ==
    /\ IsFiniteSet(DOMAIN ds) /\ DOMAIN ds \subseteq Nat
    /\ \A c \in DOMAIN ds : IsChannelDefinition(ds[c])

WithinLimits(ds) == \A t \in DOMAIN Limits : Totals(ds)[t] <= Limits[t]

(* A function has finitely many values on a finite set.                    *)
LEMMA FiniteImage ==
    ASSUME NEW S, IsFiniteSet(S), NEW f
    PROVE  IsFiniteSet({f[x] : x \in S})
<1> DEFINE T == {f[x] : x \in S}
           g == [x \in S |-> f[x]]
<1>1. g \in [S -> T] /\ \A y \in T : \E x \in S : g[x] = y
  BY Zenon
<1> HIDE DEF T, g
<1>2. g \in Surjection(S, T)
  BY <1>1, Zenon DEF Surjection
<1>3. IsFiniteSet(T)
  BY <1>2, FS_Surjection, Zenon DEF ExistsSurjection
<1> QED BY <1>3, Zenon DEF T

(* A sequence has finitely many elements.                                  *)
LEMMA FiniteElements ==
    ASSUME NEW s, DOMAIN s = 1 .. Len(s), Len(s) \in Nat
    PROVE  IsFiniteSet(DOMAIN s) /\ IsFiniteSet(Elements(s))
<1>1. 1 \in Int /\ Len(s) \in Int
  OBVIOUS
<1>2. IsFiniteSet(1 .. Len(s))
  BY <1>1, FS_Interval, Zenon
<1>3. IsFiniteSet(DOMAIN s)
  BY <1>2, Zenon
<1> QED BY <1>3, FiniteImage, Zenon DEF Elements

(* Finitely many finite sets have finitely many members.                   *)
LEMMA FiniteFamily ==
    ASSUME NEW S, IsFiniteSet(S), NEW f, \A x \in S : IsFiniteSet(f[x])
    PROVE  IsFiniteSet(UNION {f[x] : x \in S})
<1>1. IsFiniteSet({f[x] : x \in S})
  BY FiniteImage, Zenon
<1> QED BY <1>1, FS_UNION, Zenon

(* A definition has finitely many streams, of its own and calculated.      *)
LEMMA DefinitionParts ==
    ASSUME NEW cd, IsChannelDefinition(cd)
    PROVE  /\ Len(cd.streams) \in Nat /\ IsFiniteSet(Elements(cd.streams))
           /\ cd.opts.size \in Nat /\ TWAPCalls(cd) \in Nat
           /\ CalculatedStreamIDs(cd) \in Seq(Nat)
           /\ Len(CalculatedStreamIDs(cd)) \in Nat
           /\ IsFiniteSet(DOMAIN CalculatedStreamIDs(cd)) /\ IsFiniteSet(Declares(cd))
<1> DEFINE calc == cd.opts.calc
           ends == {i \in DOMAIN calc : calc[i] = 0} \cup {Len(calc) + 1}
           end == Minimum(ends)
<1>1. calc \in Seq(Nat) /\ cd.streams \in Seq([id : Nat, aggregator : STRING])
  BY Zenon DEF IsChannelDefinition
<1>2. Len(cd.streams) \in Nat /\ DOMAIN cd.streams = 1 .. Len(cd.streams)
  BY <1>1
<1>3. cd.opts.size \in Nat /\ TWAPCalls(cd) \in Nat
  BY Zenon DEF IsChannelDefinition, TWAPCalls
<1>4. CalculatedStreamIDs(cd) \in Seq(Nat)
  <2>1. Len(calc) \in Nat /\ ends \in SUBSET Nat /\ ends # {} /\ \A i \in ends : 1 <= i /\ i <= Len(calc) + 1
    <3>1. Len(calc) \in Nat /\ DOMAIN calc = 1 .. Len(calc)
      BY <1>1
    <3> HIDE DEF calc
    <3> QED BY <3>1
  <2>2. end \in ends
    BY <2>1, MinimumExists, Zenon DEF Minimum
  <2>3. end - 1 \in 0 .. Len(calc)
    BY <2>1, <2>2
  <2> HIDE DEF calc, end
  <2>4. SubSeq(calc, 1, end - 1) \in Seq(Nat)
    BY <1>1, <2>3
  <2> QED BY <2>4 DEF CalculatedStreamIDs, calc, end
<1> DEFINE ids == CalculatedStreamIDs(cd)
<1> HIDE DEF ids
<1>5. ids \in Seq(Nat)
  BY <1>4, Zenon DEF ids
<1>6. Len(ids) \in Nat /\ DOMAIN ids = 1 .. Len(ids)
  BY <1>5
<1>7. IsFiniteSet(DOMAIN ids) /\ IsFiniteSet(Elements(ids))
  BY <1>6, FiniteElements, Zenon
<1>8. IsFiniteSet(Elements(cd.streams))
  BY <1>2, FiniteElements, Zenon
<1> QED BY <1>2, <1>3, <1>5, <1>6, <1>7, <1>8, Zenon DEF ids, Declares

LEMMA LimitsType == \A t \in DOMAIN Limits : Limits[t] \in Nat
BY LimitsAssumption DEF Limits

LEMMA LivePart == ASSUME NEW ds PROVE Live(ds) \subseteq DOMAIN ds
BY Zenon DEF Live

(* The claims on a stream can be counted.                                  *)
LEMMA ExcessClaimsType ==
    ASSUME NEW ds, IsCommitted(ds), NEW stream
    PROVE  ExcessClaims(ds, Live(ds), stream) \in Int
<1> DEFINE times(c) == Cardinality({i \in DOMAIN CalculatedStreamIDs(ds[c]) : CalculatedStreamIDs(ds[c])[i] = stream})
           f == [c \in Live(ds) |-> times(c)]
<1>1. ASSUME NEW c \in Live(ds) PROVE times(c) \in Int
  <2>1. IsFiniteSet(DOMAIN CalculatedStreamIDs(ds[c]))
    BY DefinitionParts, Zenon DEF Live, IsCommitted
  <2>2. IsFiniteSet({i \in DOMAIN CalculatedStreamIDs(ds[c]) : CalculatedStreamIDs(ds[c])[i] = stream})
    BY <2>1, FS_Subset, Zenon
  <2> QED BY <2>2, FS_CardinalityType
<1> HIDE DEF times
<1>2. f \in [Live(ds) -> Int]
  BY <1>1, Zenon
<1>3. IsFiniteSet(Live(ds))
  BY FS_Subset, Zenon DEF Live, IsCommitted
<1> HIDE DEF f
<1>4. SumFunction(f) \in Int
  BY <1>2, <1>3, SumType, Zenon
<1>5. ExcessClaims(ds, Live(ds), stream)
        = SumFunction(f) - (IF \E c \in Live(ds) : stream \in Observes(ds[c]) THEN 0 ELSE 1)
  BY Zenon DEF ExcessClaims, f, times
<1> QED BY <1>4, <1>5

(* A committed set aggregates finitely many streams.                       *)
LEMMA FinitePairs ==
    ASSUME NEW ds, IsCommitted(ds)
    PROVE  IsFiniteSet(UNION {AggregatedPairsOf(ds[c]) : c \in DOMAIN ds})
<1> DEFINE f == [c \in DOMAIN ds |-> AggregatedPairsOf(ds[c])]
<1>1. ASSUME NEW c \in DOMAIN ds PROVE IsFiniteSet(f[c])
  <2>1. AggregatedPairsOf(ds[c]) \subseteq Elements(ds[c].streams)
    BY Zenon DEF AggregatedPairsOf
  <2>2. IsFiniteSet(AggregatedPairsOf(ds[c]))
    BY <2>1, DefinitionParts, FS_Subset, Zenon DEF IsCommitted
  <2> QED BY <2>2, Zenon
<1>2. {AggregatedPairsOf(ds[c]) : c \in DOMAIN ds} = {f[c] : c \in DOMAIN ds}
  BY Zenon
<1>3. IsFiniteSet(DOMAIN ds)
  BY Zenon DEF IsCommitted
<1> HIDE DEF f
<1>4. IsFiniteSet(UNION {f[c] : c \in DOMAIN ds})
  BY <1>1, <1>3, FiniteFamily, Zenon
<1> QED BY <1>2, <1>4, Zenon

(* What the totals of a set are.                                           *)
LEMMA Totalled ==
    ASSUME NEW ds
    PROVE  /\ Totals(ds).streamEntries = SumFunction([c \in DOMAIN ds |-> Len(ds[c].streams)])
           /\ Totals(ds).optsBytes = SumFunction([c \in DOMAIN ds |-> ds[c].opts.size])
           /\ Totals(ds).aggregatedPairs = Cardinality(UNION {AggregatedPairsOf(ds[c]) : c \in DOMAIN ds})
           /\ Totals(ds).calculatedStreams = SumFunction([c \in Live(ds) |-> Len(CalculatedStreamIDs(ds[c]))])
           /\ Totals(ds).twapCalls = SumFunction([c \in Live(ds) |-> TWAPCalls(ds[c])])
           /\ Totals(ds).streamIDs
                = Cardinality(UNION {{s.id : s \in Elements(ds[c].streams)} : c \in Live(ds)})
           /\ Totals(ds).clashes = SumFunction([s \in UNION {Declares(ds[c]) : c \in Live(ds)} |->
                                                  ExcessClaims(ds, Live(ds), s)])
BY Zenon DEF Totals, TotalsOver

(* The totals of a committed set are numbers.                              *)
LEMMA TotalsType ==
    ASSUME NEW ds, IsCommitted(ds)
    PROVE  \A t \in DOMAIN Limits : Totals(ds)[t] \in Int
<1> DEFINE live == Live(ds)
<1>1. IsFiniteSet(DOMAIN ds) /\ live \subseteq DOMAIN ds /\ IsFiniteSet(live)
  BY FS_Subset, LivePart, Zenon DEF IsCommitted
<1>2. \A c \in DOMAIN ds : IsChannelDefinition(ds[c])
  BY Zenon DEF IsCommitted
<1> HIDE DEF live
<1>3. SumFunction([c \in DOMAIN ds |-> Len(ds[c].streams)]) \in Int
  <2>1. [c \in DOMAIN ds |-> Len(ds[c].streams)] \in [DOMAIN ds -> Int]
    BY <1>2, DefinitionParts
  <2> QED BY <1>1, <2>1, SumType, Zenon
<1>4. SumFunction([c \in DOMAIN ds |-> ds[c].opts.size]) \in Int
  <2>1. [c \in DOMAIN ds |-> ds[c].opts.size] \in [DOMAIN ds -> Int]
    BY <1>2, DefinitionParts
  <2> QED BY <1>1, <2>1, SumType, Zenon
<1>5. SumFunction([c \in live |-> Len(CalculatedStreamIDs(ds[c]))]) \in Int
  <2>1. [c \in live |-> Len(CalculatedStreamIDs(ds[c]))] \in [live -> Int]
    BY <1>1, <1>2, DefinitionParts
  <2> QED BY <1>1, <2>1, SumType, Zenon
<1>6. SumFunction([c \in live |-> TWAPCalls(ds[c])]) \in Int
  <2>1. [c \in live |-> TWAPCalls(ds[c])] \in [live -> Int]
    BY <1>1, <1>2, DefinitionParts
  <2> QED BY <1>1, <2>1, SumType, Zenon
<1>7. IsFiniteSet(UNION {AggregatedPairsOf(ds[c]) : c \in DOMAIN ds})
  BY FinitePairs, Zenon
<1>8. IsFiniteSet(UNION {{s.id : s \in Elements(ds[c].streams)} : c \in live})
  <2> DEFINE f == [c \in live |-> {s.id : s \in Elements(ds[c].streams)}]
  <2>1. ASSUME NEW c \in live PROVE IsFiniteSet(f[c])
    <3>1. IsFiniteSet(Elements(ds[c].streams))
      BY <1>1, <1>2, DefinitionParts, Zenon
    <3> DEFINE g == [s \in Elements(ds[c].streams) |-> s.id]
    <3>2. IsFiniteSet({s.id : s \in Elements(ds[c].streams)})
      <4>1. {s.id : s \in Elements(ds[c].streams)} = {g[s] : s \in Elements(ds[c].streams)}
        BY Zenon
      <4> HIDE DEF g
      <4> QED BY <3>1, <4>1, FiniteImage, Zenon
    <3> QED BY <3>2, Zenon
  <2>2. {{s.id : s \in Elements(ds[c].streams)} : c \in live} = {f[c] : c \in live}
    BY Zenon
  <2> HIDE DEF f
  <2>3. IsFiniteSet(UNION {f[c] : c \in live})
    BY <1>1, <2>1, FiniteFamily, Zenon
  <2> QED BY <2>2, <2>3, Zenon
<1>9. IsFiniteSet(UNION {Declares(ds[c]) : c \in live})
  <2> DEFINE f == [c \in live |-> Declares(ds[c])]
  <2>1. ASSUME NEW c \in live PROVE IsFiniteSet(f[c])
    BY <1>1, <1>2, DefinitionParts, Zenon
  <2>2. {Declares(ds[c]) : c \in live} = {f[c] : c \in live}
    BY Zenon
  <2> HIDE DEF f
  <2>3. IsFiniteSet(UNION {f[c] : c \in live})
    BY <1>1, <2>1, FiniteFamily, Zenon
  <2> QED BY <2>2, <2>3, Zenon
<1>10. SumFunction([s \in UNION {Declares(ds[c]) : c \in live} |-> ExcessClaims(ds, live, s)]) \in Int
  <2> DEFINE D == UNION {Declares(ds[c]) : c \in live}
             f == [s \in D |-> ExcessClaims(ds, live, s)]
  <2>1. f \in [D -> Int]
    <3> HIDE DEF D
    <3> QED BY ExcessClaimsType, Zenon DEF live
  <2> HIDE DEF f
  <2>2. SumFunction(f) \in Int
    BY <1>9, <2>1, SumType, Zenon
  <2> QED BY <2>2, Zenon DEF f
<1>11. /\ Cardinality(UNION {AggregatedPairsOf(ds[c]) : c \in DOMAIN ds}) \in Int
       /\ Cardinality(UNION {{s.id : s \in Elements(ds[c].streams)} : c \in live}) \in Int
  BY <1>7, <1>8, FS_CardinalityType
<1> DEFINE totals == Totals(ds)
<1>12. /\ totals.streamEntries \in Int /\ totals.optsBytes \in Int /\ totals.aggregatedPairs \in Int
       /\ totals.calculatedStreams \in Int /\ totals.twapCalls \in Int
       /\ totals.streamIDs \in Int /\ totals.clashes \in Int
  BY <1>3, <1>4, <1>5, <1>6, <1>10, <1>11, Totalled, Zenon DEF live
<1> HIDE DEF totals
<1>13. \A t \in DOMAIN Limits : totals[t] \in Int
  BY <1>12, Zenon DEF Limits
<1> QED BY <1>13, Zenon DEF totals

(* Taking out channels that are not live grows no total.                   *)
LEMMA RemovalKeepsLimits ==
    ASSUME NEW ds, IsCommitted(ds), WithinLimits(ds), NEW R, R \cap Live(ds) = {}
    PROVE  /\ IsCommitted([c \in DOMAIN ds \ R |-> ds[c]])
           /\ WithinLimits([c \in DOMAIN ds \ R |-> ds[c]])
<1> DEFINE T == DOMAIN ds \ R
           rest == [c \in T |-> ds[c]]
           live == Live(ds)
<1>1. /\ DOMAIN rest = T /\ T \subseteq DOMAIN ds /\ \A c \in T : rest[c] = ds[c]
      /\ IsFiniteSet(DOMAIN ds)
  BY Zenon DEF IsCommitted
<1>2. IsCommitted(rest)
  BY <1>1, FS_Subset, Zenon DEF IsCommitted
<1>3. Live(rest) = live /\ live \subseteq T
  BY Zenon DEF Live
<1>4. \A c \in DOMAIN ds : IsChannelDefinition(ds[c])
  BY Zenon DEF IsCommitted
<1> HIDE DEF T, rest, live
<1>5. Totals(rest).streamEntries <= Totals(ds).streamEntries
  <2> DEFINE f == [c \in DOMAIN ds |-> Len(ds[c].streams)]
  <2>1. f \in [DOMAIN ds -> Nat]
    BY <1>4, DefinitionParts, Zenon
  <2>2. [c \in DOMAIN rest |-> Len(rest[c].streams)] = [c \in T |-> f[c]]
    BY <1>1, Zenon
  <2> HIDE DEF f
  <2>3. SumFunction([c \in T |-> f[c]]) <= SumFunction(f)
    BY <1>1, <2>1, SumOfPart, Zenon
  <2>4. Totals(ds).streamEntries = SumFunction(f)
    BY Totalled, Zenon DEF f
  <2>5. Totals(rest).streamEntries = SumFunction([c \in DOMAIN rest |-> Len(rest[c].streams)])
    BY Totalled, Zenon
  <2> QED BY <2>2, <2>3, <2>4, <2>5, Zenon
<1>6. Totals(rest).optsBytes <= Totals(ds).optsBytes
  <2> DEFINE f == [c \in DOMAIN ds |-> ds[c].opts.size]
  <2>1. f \in [DOMAIN ds -> Nat]
    BY <1>4, DefinitionParts, Zenon
  <2>2. [c \in DOMAIN rest |-> rest[c].opts.size] = [c \in T |-> f[c]]
    BY <1>1, Zenon
  <2> HIDE DEF f
  <2>3. SumFunction([c \in T |-> f[c]]) <= SumFunction(f)
    BY <1>1, <2>1, SumOfPart, Zenon
  <2>4. Totals(ds).optsBytes = SumFunction(f)
    BY Totalled, Zenon DEF f
  <2>5. Totals(rest).optsBytes = SumFunction([c \in DOMAIN rest |-> rest[c].opts.size])
    BY Totalled, Zenon
  <2> QED BY <2>2, <2>3, <2>4, <2>5, Zenon
<1>7. Totals(rest).aggregatedPairs <= Totals(ds).aggregatedPairs
  <2> DEFINE all == UNION {AggregatedPairsOf(ds[c]) : c \in DOMAIN ds}
             some == UNION {AggregatedPairsOf(rest[c]) : c \in DOMAIN rest}
  <2>1. some \subseteq all
    BY <1>1, Zenon
  <2>2. IsFiniteSet(all)
    BY FinitePairs, Zenon
  <2> HIDE DEF all, some
  <2>3. Cardinality(some) <= Cardinality(all)
    BY <2>1, <2>2, FS_Subset, Zenon
  <2> QED BY <2>3, Totalled, Zenon DEF all, some
<1>8. Totals(rest).calculatedStreams = Totals(ds).calculatedStreams
  <2>1. [c \in live |-> Len(CalculatedStreamIDs(rest[c]))] = [c \in live |-> Len(CalculatedStreamIDs(ds[c]))]
    BY <1>1, <1>3, Zenon
  <2>2. Totals(rest).calculatedStreams = SumFunction([c \in live |-> Len(CalculatedStreamIDs(rest[c]))])
    BY <1>3, Totalled, Zenon
  <2>3. Totals(ds).calculatedStreams = SumFunction([c \in live |-> Len(CalculatedStreamIDs(ds[c]))])
    BY Totalled, Zenon DEF live
  <2> QED BY <2>1, <2>2, <2>3, Zenon
<1>9. Totals(rest).twapCalls = Totals(ds).twapCalls
  <2>1. [c \in live |-> TWAPCalls(rest[c])] = [c \in live |-> TWAPCalls(ds[c])]
    BY <1>1, <1>3, Zenon
  <2>2. Totals(rest).twapCalls = SumFunction([c \in live |-> TWAPCalls(rest[c])])
    BY <1>3, Totalled, Zenon
  <2>3. Totals(ds).twapCalls = SumFunction([c \in live |-> TWAPCalls(ds[c])])
    BY Totalled, Zenon DEF live
  <2> QED BY <2>1, <2>2, <2>3, Zenon
<1>10. Totals(rest).streamIDs = Totals(ds).streamIDs
  <2>1. {{s.id : s \in Elements(rest[c].streams)} : c \in live} = {{s.id : s \in Elements(ds[c].streams)} : c \in live}
    BY <1>1, <1>3, Zenon
  <2> QED BY <1>3, <2>1, Totalled, ZenonT(60) DEF live
<1>11. Totals(rest).clashes = Totals(ds).clashes
  <2>1. {Declares(rest[c]) : c \in live} = {Declares(ds[c]) : c \in live}
    BY <1>1, <1>3, Zenon
  <2>2. ASSUME NEW s PROVE ExcessClaims(rest, live, s) = ExcessClaims(ds, live, s)
    <3> DEFINE times(d, c) == Cardinality({i \in DOMAIN CalculatedStreamIDs(d[c]) : CalculatedStreamIDs(d[c])[i] = s})
    <3>1. [c \in live |-> times(rest, c)] = [c \in live |-> times(ds, c)]
      BY <1>1, <1>3, Zenon
    <3>2. (\E c \in live : s \in Observes(rest[c])) <=> (\E c \in live : s \in Observes(ds[c]))
      BY <1>1, <1>3, Zenon
    <3> QED BY <3>1, <3>2, Zenon DEF ExcessClaims
  <2> DEFINE D == UNION {Declares(ds[c]) : c \in live}
  <2>3. UNION {Declares(rest[c]) : c \in live} = D
    BY <2>1, Zenon
  <2> HIDE DEF D
  <2>4. [s \in D |-> ExcessClaims(rest, live, s)] = [s \in D |-> ExcessClaims(ds, live, s)]
    BY <2>2, Zenon
  <2>5. Totals(rest).clashes
          = SumFunction([s \in UNION {Declares(rest[c]) : c \in live} |-> ExcessClaims(rest, live, s)])
    BY <1>3, Totalled, Zenon
  <2>6. Totals(ds).clashes = SumFunction([s \in D |-> ExcessClaims(ds, live, s)])
    BY Totalled, Zenon DEF live, D
  <2> QED BY <2>3, <2>4, <2>5, <2>6, Zenon
<1>12. \A t \in DOMAIN Limits : Totals(rest)[t] <= Totals(ds)[t]
  <2> DEFINE a == Totals(rest)
             b == Totals(ds)
  <2>1. \A t \in DOMAIN Limits : a[t] \in Int /\ b[t] \in Int
    BY <1>2, TotalsType, Zenon
  <2> HIDE DEF a, b
  <2>2. /\ a.streamEntries <= b.streamEntries /\ a.optsBytes <= b.optsBytes
        /\ a.aggregatedPairs <= b.aggregatedPairs /\ a.calculatedStreams = b.calculatedStreams
        /\ a.twapCalls = b.twapCalls /\ a.streamIDs = b.streamIDs /\ a.clashes = b.clashes
    BY <1>5, <1>6, <1>7, <1>8, <1>9, <1>10, <1>11, Zenon DEF a, b
  <2>3. \A t \in DOMAIN Limits : a[t] <= b[t]
    BY <2>1, <2>2 DEF Limits
  <2> QED BY <2>3, Zenon DEF a, b
<1>13. WithinLimits(rest)
  <2> DEFINE a == Totals(rest)
             b == Totals(ds)
  <2>1. \A t \in DOMAIN Limits : a[t] \in Int /\ b[t] \in Int /\ Limits[t] \in Nat
    BY <1>2, TotalsType, LimitsType, Zenon
  <2>2. \A t \in DOMAIN Limits : a[t] <= b[t] /\ b[t] <= Limits[t]
    BY <1>12, Zenon DEF WithinLimits
  <2> HIDE DEF a, b
  <2>3. \A t \in DOMAIN Limits : a[t] <= Limits[t]
    BY <2>1, <2>2
  <2> QED BY <2>3, Zenon DEF WithinLimits, a
<1> QED BY <1>2, <1>13, Zenon DEF rest, T

(* An accepted update grows no total past its limit, and drops no channel. *)
LEMMA UpsertKeepsLimits ==
    ASSUME NEW ds, IsCommitted(ds), WithinLimits(ds), NEW c \in Nat, NEW cd, IsChannelDefinition(cd)
    PROVE  /\ IsCommitted(Upsert(ds, c, cd)) /\ WithinLimits(Upsert(ds, c, cd))
           /\ DOMAIN ds \subseteq DOMAIN Upsert(ds, c, cd)
<1> DEFINE next == Over([d \in {c} |-> cd], ds)
<1>1. DOMAIN next = DOMAIN ds \cup {c} /\ \A d \in DOMAIN next : next[d] = IF d = c THEN cd ELSE ds[d]
  BY Zenon DEF Over
<1> HIDE DEF next
<1>2. IsFiniteSet(DOMAIN ds \cup {c})
  BY FS_AddElement, Zenon DEF IsCommitted
<1>3. IsCommitted(next)
  BY <1>1, <1>2, Zenon DEF IsCommitted
<1>4. CASE Upsert(ds, c, cd) = ds
  BY <1>4, Zenon
<1>5. CASE Upsert(ds, c, cd) = next /\ ~ Grows(Totals(next), Totals(ds))
  <2> DEFINE a == Totals(next)
             b == Totals(ds)
  <2>1. \A t \in DOMAIN Limits : a[t] \in Int /\ b[t] \in Int /\ Limits[t] \in Nat
    BY <1>3, TotalsType, LimitsType, Zenon
  <2>2. \A t \in DOMAIN Limits : b[t] <= Limits[t] /\ ~ (a[t] > Limits[t] /\ a[t] > b[t])
    BY <1>5, Zenon DEF WithinLimits, Grows
  <2> HIDE DEF a, b
  <2>3. \A t \in DOMAIN Limits : a[t] <= Limits[t]
    BY <2>1, <2>2
  <2>4. WithinLimits(next)
    BY <2>3, Zenon DEF WithinLimits, a
  <2> QED BY <1>1, <1>3, <1>5, <2>4, Zenon
<1>6. Upsert(ds, c, cd) = ds \/ (Upsert(ds, c, cd) = next /\ ~ Grows(Totals(next), Totals(ds)))
  BY Zenon DEF Upsert, Replace, next
<1> QED BY <1>4, <1>5, <1>6, Zenon

(* The empty set is within every limit.                                    *)
LEMMA NoneCommitted == IsCommitted(NoDefinitions) /\ WithinLimits(NoDefinitions)
<1> DEFINE ds == NoDefinitions
<1>1. DOMAIN ds = {} /\ Live(ds) = {}
  BY Zenon DEF NoDefinitions, Live
<1> HIDE DEF ds
<1>2. IsCommitted(ds)
  BY <1>1, FS_EmptySet, Zenon DEF IsCommitted
<1>3. Totals(ds).streamEntries = 0
  <2> DEFINE f == [c \in DOMAIN ds |-> Len(ds[c].streams)]
  <2>1. DOMAIN f = {}
    BY <1>1, Zenon
  <2> HIDE DEF f
  <2>2. SumFunction(f) = 0
    BY <2>1, SumOfNone, Zenon
  <2> QED BY <2>2, Totalled, Zenon DEF f
<1>4. Totals(ds).optsBytes = 0
  <2> DEFINE f == [c \in DOMAIN ds |-> ds[c].opts.size]
  <2>1. DOMAIN f = {}
    BY <1>1, Zenon
  <2> HIDE DEF f
  <2>2. SumFunction(f) = 0
    BY <2>1, SumOfNone, Zenon
  <2> QED BY <2>2, Totalled, Zenon DEF f
<1>5. Totals(ds).calculatedStreams = 0
  <2> DEFINE f == [c \in Live(ds) |-> Len(CalculatedStreamIDs(ds[c]))]
  <2>1. DOMAIN f = {}
    BY <1>1, Zenon
  <2> HIDE DEF f
  <2>2. SumFunction(f) = 0
    BY <2>1, SumOfNone, Zenon
  <2> QED BY <2>2, Totalled, Zenon DEF f
<1>6. Totals(ds).twapCalls = 0
  <2> DEFINE f == [c \in Live(ds) |-> TWAPCalls(ds[c])]
  <2>1. DOMAIN f = {}
    BY <1>1, Zenon
  <2> HIDE DEF f
  <2>2. SumFunction(f) = 0
    BY <2>1, SumOfNone, Zenon
  <2> QED BY <2>2, Totalled, Zenon DEF f
<1>7. Totals(ds).clashes = 0
  <2> DEFINE f == [s \in UNION {Declares(ds[c]) : c \in Live(ds)} |-> ExcessClaims(ds, Live(ds), s)]
  <2>1. DOMAIN f = {}
    BY <1>1, Zenon
  <2> HIDE DEF f
  <2>2. SumFunction(f) = 0
    BY <2>1, SumOfNone, Zenon
  <2> QED BY <2>2, Totalled, Zenon DEF f
<1>8. Totals(ds).aggregatedPairs = 0
  <2>1. UNION {AggregatedPairsOf(ds[c]) : c \in DOMAIN ds} = {}
    BY <1>1, Zenon
  <2>2. Totals(ds).aggregatedPairs = Cardinality(UNION {AggregatedPairsOf(ds[c]) : c \in DOMAIN ds})
    BY Totalled, Zenon
  <2> QED BY <2>1, <2>2, FS_EmptySet, Zenon
<1>9. Totals(ds).streamIDs = 0
  <2>1. UNION {{s.id : s \in Elements(ds[c].streams)} : c \in Live(ds)} = {}
    BY <1>1, Zenon
  <2>2. Totals(ds).streamIDs = Cardinality(UNION {{s.id : s \in Elements(ds[c].streams)} : c \in Live(ds)})
    BY Totalled, Zenon
  <2> QED BY <2>1, <2>2, FS_EmptySet, Zenon
<1>10. WithinLimits(ds)
  <2> DEFINE totals == Totals(ds)
  <2>1. /\ totals.streamEntries = 0 /\ totals.optsBytes = 0 /\ totals.calculatedStreams = 0
        /\ totals.twapCalls = 0 /\ totals.clashes = 0 /\ totals.aggregatedPairs = 0 /\ totals.streamIDs = 0
    BY <1>3, <1>4, <1>5, <1>6, <1>7, <1>8, <1>9, Zenon
  <2> HIDE DEF totals
  <2>2. \A t \in DOMAIN Limits : totals[t] = 0
    BY <2>1, Zenon DEF Limits
  <2>3. \A t \in DOMAIN Limits : totals[t] <= Limits[t]
    BY <2>2, LimitsType
  <2> QED BY <2>3, Zenon DEF WithinLimits, totals
<1> QED BY <1>2, <1>10, Zenon DEF ds

-----------------------------------------------------------------------------
(* The updates that passed, one after the other.                           *)

(* The last of the updates in channel order.                               *)
LastUpdate(updates) == CHOOSE u \in updates : \A v \in updates : v[1] <= u[1]

(* Finitely many updates have a last one in channel order.                 *)
LEMMA LastUpdateExists ==
    ASSUME NEW S, IsFiniteSet(S), S # {}, \A u \in S : u[1] \in Nat
    PROVE  LastUpdate(S) \in S
<1> DEFINE X == {T \in SUBSET S : T # {} /\ \A u \in T, v \in S \ T : v[1] <= u[1]}
<1>1. X \in SUBSET (SUBSET S) /\ S \in X
  BY Zenon
<1>2. PICK T \in X : \A U \in X : U \subseteq T => U = T
  <2> HIDE DEF X
  <2> QED BY <1>1, SmallestSet
<1>3. PICK u \in T : TRUE
  BY <1>2, Zenon
<1>4. ASSUME NEW v \in S PROVE v[1] <= u[1]
  <2>1. CASE v \notin T
    BY <1>2, <1>3, <2>1, Zenon
  <2>2. CASE v \in T /\ ~ (v[1] <= u[1])
    <3> DEFINE U == {w \in T : u[1] < w[1]}
    <3>1. U # {} /\ U \in SUBSET S /\ U \subseteq T /\ u \notin U
      BY <1>2, <1>3, <2>2
    <3>2. ASSUME NEW w \in U, NEW x \in S \ U PROVE x[1] <= w[1]
      <4>1. w \in T /\ w \in S /\ u \in S
        BY <1>2, <1>3, Zenon
      <4>2. u[1] \in Nat /\ w[1] \in Nat /\ x[1] \in Nat
        BY <4>1, Zenon
      <4>3. CASE x \in T
        BY <4>2, <4>3
      <4>4. CASE x \notin T
        BY <1>2, <4>1, <4>4, Zenon
      <4> QED BY <4>3, <4>4, Zenon
    <3>3. U \in X
      BY <3>1, <3>2, Zenon
    <3> QED BY <1>2, <1>3, <3>1, <3>3, Zenon
  <2> QED BY <2>1, <2>2, Zenon
<1>5. u \in S
  BY <1>2, <1>3, Zenon
<1> QED BY <1>4, <1>5, Zenon DEF LastUpdate

(* The committed set after a set of updates.                               *)
AfterUpdate(before, s) ==
    Upsert(before[s \ {LastUpdate(s)}], LastUpdate(s)[1], LastUpdate(s)[2])

(* The sets that the updates in a member of D make of base.                *)
IsUpdating(after, base, D) ==
    after = [s \in D |-> IF s = {} THEN base ELSE AfterUpdate(after, s)]

(* The recursion behind applyChannelVotes has a solution.                  *)
LEMMA UpdatingExists ==
    ASSUME NEW base, NEW S, IsFiniteSet(S), \A u \in S : u[1] \in Nat
    PROVE  \E after : IsUpdating(after, base, SUBSET S)
<1> DEFINE D(n) == {s \in SUBSET S : Cardinality(s) <= n}
           X == {n \in Nat : ~ \E after : IsUpdating(after, base, D(n))}
<1>1. \A s \in SUBSET S : IsFiniteSet(s) /\ Cardinality(s) \in Nat
  BY FS_Subset, FS_CardinalityType, Zenon
<1>2. ASSUME X # {} PROVE FALSE
  <2>1. PICK n \in X : \A m \in X : n <= m
    BY <1>2, MinimumExists, Zenon
  <2>2. n \in Nat /\ ~ \E after : IsUpdating(after, base, D(n))
    BY <2>1, Zenon
  <2>3. CASE n = 0
    <3>1. \A s \in D(0) : s = {}
      BY <1>1, FS_EmptySet
    <3> DEFINE g == [s \in D(0) |-> base]
    <3>2. g = [s \in D(0) |-> IF s = {} THEN base ELSE AfterUpdate(g, s)]
      BY <3>1, Zenon
    <3>3. IsUpdating(g, base, D(0))
      BY <3>2, Zenon DEF IsUpdating
    <3> QED BY <2>2, <2>3, <3>3, Zenon
  <2>4. CASE n # 0
    <3>1. n - 1 \in Nat /\ n - 1 \notin X
      <4>1. n - 1 \in Nat /\ ~ (n <= n - 1)
        BY <2>2, <2>4
      <4> HIDE DEF X
      <4> QED BY <2>1, <4>1, Zenon
    <3>2. PICK g : IsUpdating(g, base, D(n - 1))
      BY <3>1, Zenon
    <3> DEFINE h == [s \in D(n) |-> IF s = {} THEN base ELSE AfterUpdate(g, s)]
    <3>3. ASSUME NEW s \in D(n - 1) PROVE h[s] = g[s]
      <4>1. s \in D(n)
        BY <1>1, <2>2
      <4>2. h[s] = IF s = {} THEN base ELSE AfterUpdate(g, s)
        BY <4>1, Zenon
      <4> HIDE DEF h
      <4>3. g[s] = IF s = {} THEN base ELSE AfterUpdate(g, s)
        BY <3>2, Zenon DEF IsUpdating
      <4> QED BY <4>2, <4>3
    <3>4. ASSUME NEW s \in D(n), s # {} PROVE s \ {LastUpdate(s)} \in D(n - 1)
      <4>1. LastUpdate(s) \in s
        BY <1>1, <3>4, LastUpdateExists, Zenon
      <4>2. Cardinality(s \ {LastUpdate(s)}) = Cardinality(s) - 1
        BY <1>1, <4>1, FS_RemoveElement, Zenon
      <4> QED BY <1>1, <2>2, <4>2
    <3>5. ASSUME NEW s \in D(n), s # {} PROVE AfterUpdate(h, s) = AfterUpdate(g, s)
      <4>1. h[s \ {LastUpdate(s)}] = g[s \ {LastUpdate(s)}]
        BY <3>3, <3>4, <3>5, Zenon
      <4> HIDE DEF h
      <4> QED BY <4>1, Zenon DEF AfterUpdate
    <3>6. h = [s \in D(n) |-> IF s = {} THEN base ELSE AfterUpdate(h, s)]
      <4> DEFINE k == [s \in D(n) |-> IF s = {} THEN base ELSE AfterUpdate(h, s)]
      <4>1. \A s \in D(n) : (IF s = {} THEN base ELSE AfterUpdate(h, s)) = (IF s = {} THEN base ELSE AfterUpdate(g, s))
        BY <3>5, Zenon
      <4> QED BY <4>1, Zenon
    <3>7. IsUpdating(h, base, D(n))
      BY <3>6, Zenon DEF IsUpdating
    <3> QED BY <2>2, <3>7, Zenon
  <2> QED BY <2>3, <2>4, Zenon
<1>3. PICK after : IsUpdating(after, base, D(Cardinality(S)))
  BY <1>1, <1>2, Zenon
<1>4. D(Cardinality(S)) = SUBSET S
  BY <1>1, FS_Subset, Zenon
<1> QED BY <1>3, <1>4, Zenon

(* applyChannelVotes takes the removals out, then upserts one update after *)
(* the other.                                                              *)
LEMMA VotesApplied ==
    ASSUME NEW defs, NEW removals, NEW passing,
           IsFiniteSet(Uncontested(passing)), \A u \in passing : u[1] \in Nat
    PROVE  \E after :
             /\ IsUpdating(after, [c \in DOMAIN defs \ removals |-> defs[c]], SUBSET Uncontested(passing))
             /\ ApplyChannelVotes(defs, removals, passing) = after[Uncontested(passing)]
<1> DEFINE base == [c \in DOMAIN defs \ removals |-> defs[c]]
           S == Uncontested(passing)
           applied == CHOOSE after : IsUpdating(after, base, SUBSET S)
<1>1. \A u \in S : u[1] \in Nat
  BY Zenon DEF Uncontested
<1>2. IsUpdating(applied, base, SUBSET S)
  BY <1>1, UpdatingExists, Zenon
<1>3. ApplyChannelVotes(defs, removals, passing) = applied[S]
  BY Zenon DEF ApplyChannelVotes, MapThenFoldSet, IsUpdating, AfterUpdate, LastUpdate
<1> QED BY <1>2, <1>3, Zenon

(* However many updates passed, the set stays within its limits and loses  *)
(* no channel.                                                             *)
LEMMA UpdatesKeepLimits ==
    ASSUME NEW S, IsFiniteSet(S), \A u \in S : u[1] \in Nat /\ IsChannelDefinition(u[2]),
           NEW base, IsCommitted(base), WithinLimits(base),
           NEW after, IsUpdating(after, base, SUBSET S)
    PROVE  \A s \in SUBSET S : /\ IsCommitted(after[s]) /\ WithinLimits(after[s])
                               /\ DOMAIN base \subseteq DOMAIN after[s]
<1> DEFINE Kept(ds) == IsCommitted(ds) /\ WithinLimits(ds) /\ DOMAIN base \subseteq DOMAIN ds
           X == {s \in SUBSET S : ~ Kept(after[s])}
           D == SUBSET S
<1>1. \A s \in D : after[s] = IF s = {} THEN base ELSE AfterUpdate(after, s)
  <2> HIDE DEF D
  <2>1. IsUpdating(after, base, D)
    BY Zenon DEF D
  <2> QED BY <2>1, Zenon DEF IsUpdating
<1>2. ASSUME X # {} PROVE FALSE
  <2>1. PICK T \in X : \A U \in X : U \subseteq T => U = T
    <3>1. X \in SUBSET (SUBSET S)
      BY Zenon
    <3> HIDE DEF X
    <3> QED BY <1>2, <3>1, SmallestSet
  <2>2. T \in D /\ ~ Kept(after[T])
    BY <2>1, Zenon
  <2>3. T # {}
    <3>1. T = {} => after[T] = base
      BY <1>1, <2>2, Zenon
    <3> QED BY <2>2, <3>1, Zenon
  <2> DEFINE u == LastUpdate(T)
             U == T \ {u}
  <2>4. u \in T
    <3>1. IsFiniteSet(T) /\ \A v \in T : v[1] \in Nat
      BY <2>2, FS_Subset, Zenon
    <3> QED BY <2>3, <3>1, LastUpdateExists, Zenon
  <2>5. after[T] = Upsert(after[U], u[1], u[2])
    BY <1>1, <2>2, <2>3, Zenon DEF AfterUpdate
  <2> HIDE DEF u
  <2>6. U \in D /\ U \notin X
    BY <2>1, <2>2, <2>4, Zenon
  <2>7. Kept(after[U])
    BY <2>6, Zenon
  <2>8. u[1] \in Nat /\ IsChannelDefinition(u[2])
    BY <2>2, <2>4, Zenon
  <2>9. Kept(Upsert(after[U], u[1], u[2]))
    BY <2>7, <2>8, UpsertKeepsLimits, Zenon
  <2> QED BY <2>2, <2>5, <2>9, Zenon
<1> QED BY <1>2, Zenon

-----------------------------------------------------------------------------
(* The tally of a round.                                                   *)

LEMMA OracleSets ==
    /\ IsFiniteSet(Oracles) /\ Cardinality(Oracles) = N
    /\ IsFiniteSet(Faulty) /\ Cardinality(Faulty) = F
    /\ Faulty \subseteq Oracles
    /\ ByzQuorum \in Nat /\ 2 * F + 1 <= ByzQuorum
<1>1. N \in Int /\ F \in Int /\ N - F + 1 \in Int /\ 1 \in Int
  BY RoundAssumption
<1>2. IsFiniteSet(Oracles) /\ Cardinality(Oracles) = N
  BY <1>1, FS_Interval, RoundAssumption DEF Oracles
<1>3. IsFiniteSet(Faulty) /\ Cardinality(Faulty) = F
  BY <1>1, FS_Interval, RoundAssumption DEF Faulty
<1>4. Faulty \subseteq Oracles
  BY RoundAssumption DEF Faulty, Oracles
<1>5. ByzQuorum \in Nat /\ 2 * F + 1 <= ByzQuorum
  BY RoundAssumption DEF ByzQuorum
<1> QED BY <1>2, <1>3, <1>4, <1>5, Zenon

(* More than k + F oracles include more than k honest ones.                *)
LEMMA HonestShare ==
    ASSUME NEW S \in SUBSET Oracles, NEW k \in Nat, Cardinality(S) > k + F
    PROVE  Cardinality(S \cap Honest) > k
<1>1. IsFiniteSet(S)
  BY OracleSets, FS_Subset, Zenon
<1>2. Cardinality(S) \in Nat
  BY <1>1, FS_CardinalityType, Zenon
<1>3. Cardinality(S \ Faulty) = Cardinality(S) - Cardinality(S \cap Faulty)
  BY <1>1, FS_Difference, Zenon
<1>4. Cardinality(S \cap Faulty) \in Nat /\ Cardinality(S \cap Faulty) <= F
  BY OracleSets, FS_Subset, FS_CardinalityType, Zenon
<1>5. S \cap Honest = S \ Faulty
  BY Zenon DEF Honest
<1>6. Cardinality(S) - Cardinality(S \cap Faulty) > k
  BY <1>2, <1>4, RoundAssumption
<1> QED BY <1>3, <1>5, <1>6, Zenon

(* More than F oracles include an honest one.                              *)
LEMMA HonestMember ==
    ASSUME NEW S \in SUBSET Oracles, Cardinality(S) > F
    PROVE  S \cap Honest # {}
BY HonestShare, FS_EmptySet, RoundAssumption

LEMMA MaximumExists ==
    ASSUME NEW b \in Nat, NEW S \in SUBSET (0 .. b), S # {}
    PROVE  Maximum(S) \in S /\ \A y \in S : y <= Maximum(S)
<1> DEFINE T == {n \in Nat : \A y \in S : y <= n}
<1>1. b \in T
  OBVIOUS
<1>2. PICK m \in T : \A y \in T : m <= y
  BY <1>1, MinimumExists, Zenon
<1>3. m \in S
  <2>1. CASE m = 0
    <3>1. PICK y \in S : y <= 0
      BY <2>1, <1>2, Zenon
    <3> QED BY <3>1, <2>1
  <2>2. CASE m # 0
    <3>1. m - 1 \in Nat /\ m - 1 \notin T
      BY <2>2, <1>2
    <3>2. PICK y \in S : ~ (y <= m - 1)
      BY <3>1, Zenon
    <3> QED BY <3>2, <1>2
  <2> QED BY <2>1, <2>2, Zenon
<1> QED BY <1>2, <1>3, Zenon DEF Maximum
-----------------------------------------------------------------------------
(* The inductive invariant.                                                *)

Locals ==
    [file : Nat, report : Reports \cup {Absent}, config : {Absent, Genuine},
     shouldRetire : BOOLEAN, clock : 0 .. MaxClock, formats : SUBSET Formats]

GenuineWatermarks == {r.map : r \in {q \in Reports : VerifyAttestedRetirementReport(Genuine, q)}}

RoundType ==
    round \in [subject : Subjects, static : BOOLEAN, defs : {round.defs},
               support : [Oracles -> SUBSET Formats],
               stage : {"staging", "production", "retired"},
               promoted : {Absent} \cup GenuineWatermarks,
               time : 0 .. MaxClock, turn : BOOLEAN, published : Nat, retireFlag : BOOLEAN,
               local : [Honest -> Locals]]

(* An honest oracle has every codec that it ever advertised, and only the  *)
(* onchain flag makes it vote for retirement.                              *)
RoundInv ==
    /\ RoundType
    /\ \A o \in Honest : round.support[o] \subseteq round.local[o].formats
    /\ \A o \in Honest : round.local[o].shouldRetire => round.retireFlag
    /\ round.stage = "retired" => round.retireFlag

LEMMA RoundInvInitially ==
    ASSUME NEW subject \in Subjects, NEW static \in BOOLEAN, RoundInit(subject, static)
    PROVE  RoundInv
<1>1. Honest \subseteq Oracles
  BY Zenon DEF Honest
<1> QED BY <1>1, RoundAssumption DEF RoundInit, RoundInv, RoundType, Locals

(* An honest oracle's caches change.                                       *)
LEMMA LocalChange ==
    ASSUME RoundInv, NEW o \in Honest, NEW local \in Locals,
           round.local[o].formats \subseteq local.formats,
           local.shouldRetire => round.retireFlag,
           round' = [round EXCEPT !.local = [@ EXCEPT ![o] = local]]
    PROVE  RoundInv'
<1> DEFINE locals == [round.local EXCEPT ![o] = local]
<1>1. locals \in [Honest -> Locals]
  BY Zenon DEF RoundInv, RoundType
<1>2. \A p \in Honest : locals[p] = IF p = o THEN local ELSE round.local[p]
  BY Zenon DEF RoundInv, RoundType
<1>3. round' = [round EXCEPT !.local = locals]
  BY Zenon
<1> HIDE DEF locals
<1>4. RoundType'
  BY <1>1, <1>3, Zenon DEF RoundInv, RoundType
<1>5. /\ round'.local = locals /\ round'.support = round.support
      /\ round'.retireFlag = round.retireFlag /\ round'.stage = round.stage
  BY <1>3, Zenon DEF RoundInv, RoundType
<1> QED BY <1>2, <1>4, <1>5, Zenon DEF RoundInv

LEMMA SurroundingsKeepRoundInv ==
    ASSUME RoundInv, NEW o \in Honest,
           \/ Publish \/ SetRetireFlag
           \/ Fetch(o) \/ Upgrade(o) \/ StoreConfig(o) \/ StoreReport(o) \/ ReadRetireFlag(o) \/ SetClock(o)
    PROVE  RoundInv'
<1> DEFINE l == round.local[o]
<1>0. l \in Locals /\ (l.shouldRetire => round.retireFlag) /\ round.published \in Nat
  BY Zenon DEF RoundInv, RoundType
<1>1. CASE Publish
  BY <1>1 DEF Publish, RoundInv, RoundType
<1>2. CASE SetRetireFlag
  BY <1>2, Zenon DEF SetRetireFlag, RoundInv, RoundType
<1>3. CASE Fetch(o)
  <2> DEFINE local == [l EXCEPT !.file = round.published]
  <2>1. round' = [round EXCEPT !.local = [@ EXCEPT ![o] = local]]
    BY <1>3, Zenon DEF Fetch
  <2>2. local \in Locals /\ l.formats \subseteq local.formats /\ (local.shouldRetire => round.retireFlag)
    BY <1>0, Zenon DEF Locals
  <2> HIDE DEF local
  <2> QED BY <2>1, <2>2, LocalChange, Zenon
<1>4. CASE Upgrade(o)
  <2>0. PICK f \in Formats : round' = [round EXCEPT !.local[o].formats = @ \cup {f}]
    BY <1>4, Zenon DEF Upgrade
  <2> DEFINE local == [l EXCEPT !.formats = @ \cup {f}]
  <2>1. round' = [round EXCEPT !.local = [@ EXCEPT ![o] = local]]
    BY <2>0, Zenon
  <2>2. local \in Locals /\ l.formats \subseteq local.formats /\ (local.shouldRetire => round.retireFlag)
    BY <1>0, <2>0, Zenon DEF Locals
  <2> HIDE DEF local
  <2> QED BY <2>1, <2>2, LocalChange, Zenon
<1>5. CASE StoreConfig(o)
  <2> DEFINE local == [l EXCEPT !.config = Genuine]
  <2>1. round' = [round EXCEPT !.local = [@ EXCEPT ![o] = local]]
    BY <1>5, Zenon DEF StoreConfig
  <2>2. local \in Locals /\ l.formats \subseteq local.formats /\ (local.shouldRetire => round.retireFlag)
    BY <1>0, Zenon DEF Locals
  <2> HIDE DEF local
  <2> QED BY <2>1, <2>2, LocalChange, Zenon
<1>6. CASE StoreReport(o)
  <2>0. PICK r \in Reports : round' = [round EXCEPT !.local[o].report = r]
    BY <1>6, Zenon DEF StoreReport
  <2> DEFINE local == [l EXCEPT !.report = r]
  <2>1. round' = [round EXCEPT !.local = [@ EXCEPT ![o] = local]]
    BY <2>0, Zenon
  <2>2. local \in Locals /\ l.formats \subseteq local.formats /\ (local.shouldRetire => round.retireFlag)
    BY <1>0, <2>0, Zenon DEF Locals
  <2> HIDE DEF local
  <2> QED BY <2>1, <2>2, LocalChange, Zenon
<1>7. CASE ReadRetireFlag(o)
  <2> DEFINE local == [l EXCEPT !.shouldRetire = TRUE]
  <2>1. round' = [round EXCEPT !.local = [@ EXCEPT ![o] = local]]
    BY <1>7, Zenon DEF ReadRetireFlag
  <2>2. local \in Locals /\ l.formats \subseteq local.formats /\ (local.shouldRetire => round.retireFlag)
    BY <1>0, <1>7, Zenon DEF Locals, ReadRetireFlag
  <2> HIDE DEF local
  <2> QED BY <2>1, <2>2, LocalChange, Zenon
<1>8. CASE SetClock(o)
  <2>0. PICK t \in 0 .. MaxClock : round' = [round EXCEPT !.local[o].clock = t]
    BY <1>8, Zenon DEF SetClock
  <2> DEFINE local == [l EXCEPT !.clock = t]
  <2>1. round' = [round EXCEPT !.local = [@ EXCEPT ![o] = local]]
    BY <2>0, Zenon
  <2>2. local \in Locals /\ l.formats \subseteq local.formats /\ (local.shouldRetire => round.retireFlag)
    BY <1>0, <2>0, Zenon DEF Locals
  <2> HIDE DEF local
  <2> QED BY <2>1, <2>2, LocalChange, Zenon
<1> QED BY <1>1, <1>2, <1>3, <1>4, <1>5, <1>6, <1>7, <1>8, Zenon

-----------------------------------------------------------------------------
(* What a tally is made from: a quorum, of which the honest oracles sent   *)
(* what they observed.                                                     *)
Quorate(obs) ==
    /\ DOMAIN obs \in SUBSET Oracles
    /\ HasObservationQuorum(DOMAIN obs)
    /\ \A o \in DOMAIN obs \cap Honest : obs[o] = Observation(o)
    /\ \A o \in DOMAIN obs \cap Faulty : obs[o] \in FaultyObservations

LEMMA AcceptedQuorum ==
    ASSUME NEW obs \in AttributedObservations(Accepted(FaultyObservations), AcceptedHonest)
    PROVE  Quorate(obs)
<1> DEFINE faulty == Accepted(FaultyObservations)
           honest == AcceptedHonest
<1>1. faulty \subseteq FaultyObservations
  BY Zenon DEF Accepted
<1>2. \A ao \in honest : ao.observer \in Honest /\ ao.observation = Observation(ao.observer)
  BY DEF AcceptedHonest
<1> HIDE DEF faulty, honest
<1>3. PICK Q \in {S \in SUBSET (Faulty \cup {ao.observer : ao \in honest}) : HasObservationQuorum(S)} :
        obs \in {[o \in Q |-> IF o \in Faulty THEN sent[o]
                              ELSE (CHOOSE ao \in honest : ao.observer = o).observation] :
                    sent \in [Q \cap Faulty -> faulty]}
  BY Zenon DEF AttributedObservations, faulty, honest
<1>4. PICK sent \in [Q \cap Faulty -> faulty] :
        obs = [o \in Q |-> IF o \in Faulty THEN sent[o]
                           ELSE (CHOOSE ao \in honest : ao.observer = o).observation]
  BY <1>3, Zenon
<1>5. DOMAIN obs = Q
  BY <1>4, Zenon
<1>6. ASSUME NEW o \in Q \cap Honest PROVE obs[o] = Observation(o)
  <2>1. obs[o] = (CHOOSE ao \in honest : ao.observer = o).observation
    BY <1>4, Zenon DEF Honest
  <2>2. \E ao \in honest : ao.observer = o
    BY <1>3 DEF Honest
  <2> QED BY <1>2, <2>1, <2>2, Zenon
<1>7. ASSUME NEW o \in Q \cap Faulty PROVE obs[o] \in FaultyObservations
  BY <1>1, <1>4, Zenon
<1>8. Q \in SUBSET Oracles /\ HasObservationQuorum(Q)
  BY <1>2, <1>3, OracleSets DEF Honest
<1> QED BY <1>5, <1>6, <1>7, <1>8, Zenon DEF Quorate

LEMMA FaultyObservationType ==
    ASSUME NEW ob \in FaultyObservations
    PROVE  /\ ob.formats \in SUBSET Formats
           /\ ob.time \in 0 .. MaxClock + 1
           /\ ob.attested \in Reports \cup {Absent}
BY RoundAssumption DEF FaultyObservations, About

LEMMA HonestObservation ==
    ASSUME RoundInv, NEW o \in Honest
    PROVE  /\ Observation(o).formats = round.local[o].formats
           /\ Observation(o).time = round.local[o].clock
           /\ Observation(o).shouldRetire => round.retireFlag
           /\ Observation(o).config \in {Absent, Genuine}
           /\ Observation(o).attested \in Reports \cup {Absent}
           /\ round.local[o] \in Locals
<1>1. round.local[o] \in Locals
  BY Zenon DEF RoundInv, RoundType
<1> DEFINE votes == IF round.stage = "retired" THEN NoVotes
                    ELSE VoteOnChannels(round.defs, Definitions(round.local[o].file, round.defs))
<1>2. Observation(o) = Observed(round.local[o], round.stage, votes)
  BY Zenon DEF Observation
<1> HIDE DEF votes
<1> QED BY <1>1, <1>2 DEF Observed, SupportedReportFormats, VoteOnPredecessorConfig, Locals, RoundInv

-----------------------------------------------------------------------------
(* What the tally of a quorum yields.                                      *)

LEMMA HonestOrFaulty == Oracles = Honest \cup Faulty
BY OracleSets, Zenon DEF Honest

LEMMA MergedSupport ==
    ASSUME RoundInv, NEW obs, Quorate(obs)
    PROVE  /\ MergeCodecSupport(round.support, obs) \in [Oracles -> SUBSET Formats]
           /\ \A o \in Honest : MergeCodecSupport(round.support, obs)[o] \subseteq round.local[o].formats
<1>1. ASSUME NEW o \in DOMAIN obs \cap Honest
      PROVE  obs[o].formats = round.local[o].formats /\ obs[o].formats \in SUBSET Formats
  BY HonestObservation, Zenon DEF Quorate, Locals
<1>2. ASSUME NEW o \in DOMAIN obs \cap Faulty PROVE obs[o].formats \in SUBSET Formats
  BY FaultyObservationType, Zenon DEF Quorate
<1>3. Honest \subseteq Oracles
  BY Zenon DEF Honest
<1> QED BY <1>1, <1>2, <1>3, HonestOrFaulty, Zenon DEF MergeCodecSupport, RoundInv, RoundType

(* What more than F oracles of a quorum say, an honest one says.           *)
LEMMA RetireVoteIsHonest ==
    ASSUME RoundInv, NEW obs, Quorate(obs), Voters(obs, LAMBDA ob : ob.shouldRetire) > F
    PROVE  round.retireFlag
<1> DEFINE S == {o \in DOMAIN obs : obs[o].shouldRetire}
<1>1. S \in SUBSET Oracles /\ Cardinality(S) > F
  BY Zenon DEF Voters, Quorate
<1>2. PICK o \in S : o \in Honest
  BY <1>1, HonestMember, Zenon
<1> QED BY <1>2, HonestObservation, Zenon DEF Quorate

LEMMA ElectionIsHonest ==
    ASSUME RoundInv, NEW obs, Quorate(obs)
    PROVE  ElectPredecessorConfig(obs) \in {Absent, Genuine}
<1> DEFINE elected == {pc \in Configs(obs) : Voters(obs, LAMBDA ob : ob.config = pc) > F}
<1>1. ASSUME NEW pc \in elected PROVE pc = Genuine
  <2> DEFINE S == {o \in DOMAIN obs : obs[o].config = pc}
  <2>1. S \in SUBSET Oracles /\ Cardinality(S) > F /\ pc # Absent
    BY Zenon DEF Voters, Quorate, Configs
  <2>2. PICK o \in S : o \in Honest
    BY <2>1, HonestMember, Zenon
  <2> QED BY <2>1, <2>2, HonestObservation, Zenon DEF Quorate
<1> HIDE DEF elected
<1>2. ElectPredecessorConfig(obs) = IF elected = {} THEN Absent ELSE CHOOSE pc \in elected : TRUE
  BY Zenon DEF ElectPredecessorConfig, elected
<1> QED BY <1>1, <1>2, Zenon

LEMMA RetirementIsGenuine ==
    ASSUME RoundInv, NEW obs, Quorate(obs), NEW stage
    PROVE  ResolvePredecessorRetirement(stage, obs) \in {Absent} \cup GenuineWatermarks
<1>1. Attested(obs) \subseteq Reports
  BY HonestObservation, FaultyObservationType, HonestOrFaulty DEF Quorate, Attested
<1> DEFINE contents == Contents(Genuine, Attested(obs))
<1>2. ASSUME NEW c \in contents PROVE c.map \in GenuineWatermarks
  BY <1>1 DEF Contents, GenuineWatermarks
<1> HIDE DEF contents
<1>3. Chosen(contents) \in {Absent} \cup GenuineWatermarks
  <2>1. CASE Cardinality(contents) = 1
    <3>1. contents # {}
      BY <2>1, FS_EmptySet
    <3> QED BY <2>1, <3>1, <1>2, Zenon DEF Chosen
  <2> QED BY <2>1, Zenon DEF Chosen
<1> QED BY <1>3, ElectionIsHonest, Zenon DEF ResolvePredecessorRetirement, Resolve, contents

(* The median is a time that was sent, and no later than an honest clock:  *)
(* the oracles that sent it or a later one are more than F.                *)
LEMMA MedianIsHonest ==
    ASSUME RoundInv, NEW obs, Quorate(obs)
    PROVE  /\ MedianTimestamp(obs) \in Nat
           /\ \E o \in Honest : MedianTimestamp(obs) <= round.local[o].clock
<1> DEFINE Q == DOMAIN obs
           times == {obs[o].time : o \in Q}
           below(t) == {o \in Q : obs[o].time < t}
           ranked == {t \in times : Cardinality(below(t)) <= Cardinality(Q) \div 2}
<1>1. /\ Q \in SUBSET Oracles /\ IsFiniteSet(Q)
      /\ Cardinality(Q) \in Nat /\ Cardinality(Q) >= 2 * F + 1
  BY OracleSets, FS_Subset, FS_CardinalityType, RoundAssumption DEF Quorate, HasObservationQuorum
<1>2. \A o \in Q : obs[o].time \in 0 .. MaxClock + 1
  <2>1. \A o \in Q \cap Honest : obs[o].time \in 0 .. MaxClock
    BY HonestObservation, Zenon DEF Quorate, Locals
  <2>2. \A o \in Q \cap Faulty : obs[o].time \in 0 .. MaxClock + 1
    BY FaultyObservationType, Zenon DEF Quorate
  <2> QED BY <1>1, <2>1, <2>2, HonestOrFaulty, RoundAssumption
<1>3. ranked # {}
  <2>1. Q # {}
    BY <1>1, FS_EmptySet, RoundAssumption
  <2>2. times # {} /\ times \in SUBSET Nat
    BY <2>1, <1>2, RoundAssumption
  <2>3. PICK t \in times : \A u \in times : t <= u
    BY <2>2, MinimumExists, Zenon
  <2>4. below(t) = {}
    BY <2>2, <2>3
  <2>5. Cardinality(below(t)) = 0
    BY <2>4, FS_EmptySet, Zenon
  <2>6. 0 <= Cardinality(Q) \div 2
    BY <1>1
  <2> QED BY <2>5, <2>6, Zenon
<1>4. MaxClock + 1 \in Nat /\ ranked \in SUBSET (0 .. MaxClock + 1)
  BY <1>2, RoundAssumption
<1>5. MedianTimestamp(obs) = Maximum(ranked)
  BY Zenon DEF MedianTimestamp, Voters
<1> DEFINE m == Maximum(ranked)
<1>6. m \in ranked
  BY <1>3, <1>4, MaximumExists, Zenon
<1> HIDE DEF m
<1>7. m \in Nat /\ Cardinality(below(m)) <= Cardinality(Q) \div 2
  <2>1. m \in Nat
    BY <1>4, <1>6
  <2>2. Cardinality(below(m)) <= Cardinality(Q) \div 2
    BY <1>6, Zenon
  <2> QED BY <2>1, <2>2, Zenon
<1> DEFINE S == Q \ below(m)
<1>8. S \in SUBSET Oracles /\ Cardinality(S) > F
  <2>1. Cardinality(S) = Cardinality(Q) - Cardinality(Q \cap below(m))
    BY <1>1, FS_Difference, Zenon
  <2>2. Q \cap below(m) = below(m)
    BY Zenon
  <2>3. Cardinality(below(m)) \in Nat
    BY <1>1, FS_Subset, FS_CardinalityType, Zenon
  <2>4. Cardinality(Q) - Cardinality(below(m)) > F
    BY <1>1, <1>7, <2>3, RoundAssumption
  <2> QED BY <1>1, <2>1, <2>2, <2>4, Zenon
<1>9. PICK o \in S : o \in Honest
  BY <1>8, HonestMember, Zenon
<1>10. m <= obs[o].time
  BY <1>2, <1>7, <1>9
<1> QED BY <1>5, <1>7, <1>9, <1>10, HonestObservation, Zenon DEF Quorate, m

-----------------------------------------------------------------------------
(* The state transition, and the theorems.                                 *)

LEMMA TransitionOutcome ==
    ASSUME RoundInv, StateTransition
    PROVE  /\ RoundInv'
           /\ round'.time # round.time =>
                /\ round'.time > round.time
                /\ \E o \in Honest : round.local[o].clock >= round'.time
<1>1. PICK obs \in AttributedObservations(Accepted(FaultyObservations), AcceptedHonest) : round' =
        AfterTransition(Tally(obs), Retire(Promote(round.stage, Tally(obs).retirement), Tally(obs).shouldRetire))
  BY Zenon DEF StateTransition, Tallies
<1>2. Quorate(obs)
  BY AcceptedQuorum, Zenon
<1> DEFINE tally == Tally(obs)
<1> DEFINE retirement == ResolvePredecessorRetirement(round.stage, obs)
           voted == Voters(obs, LAMBDA ob : ob.shouldRetire) > F
           support == MergeCodecSupport(round.support, obs)
           median == MedianTimestamp(obs)
           stage == Retire(Promote(round.stage, retirement), voted)
<1>3. /\ tally.retirement = retirement /\ tally.shouldRetire = voted
      /\ tally.support = support /\ tally.median = median
  BY Zenon DEF Tally
<1>4. retirement \in {Absent} \cup GenuineWatermarks
  BY <1>2, RetirementIsGenuine, Zenon
<1>5. voted => round.retireFlag
  BY <1>2, RetireVoteIsHonest, Zenon
<1>6. /\ support \in [Oracles -> SUBSET Formats]
      /\ \A o \in Honest : support[o] \subseteq round.local[o].formats
  BY <1>2, MergedSupport, Zenon
<1>7. median \in Nat /\ \E o \in Honest : median <= round.local[o].clock
  BY <1>2, MedianIsHonest, Zenon
<1>8. voted \in BOOLEAN
  OBVIOUS
<1> HIDE DEF tally, retirement, voted, support, median
<1>9. stage \in {"staging", "production", "retired"} /\ (stage = "retired" => round.retireFlag)
  BY <1>5, <1>8, Zenon DEF RoundInv, RoundType, Retire, Promote
<1> HIDE DEF stage
<1>10. PICK o \in Honest : median <= round.local[o].clock
  BY <1>7, Zenon
<1>11. round.time \in 0 .. MaxClock /\ round.local[o].clock \in 0 .. MaxClock
  BY Zenon DEF RoundInv, RoundType, Locals
<1> DEFINE time == Maximum({median, round.time})
<1>12. time = IF median <= round.time THEN round.time ELSE median
  <2>1. \E x \in {median, round.time} : \A y \in {median, round.time} : y <= x
    BY <1>7, <1>11
  <2>2. time \in {median, round.time} /\ median <= time /\ round.time <= time
    BY <2>1, Zenon DEF Maximum
  <2> QED BY <1>7, <1>11, <2>2
<1> HIDE DEF time
<1>13. time \in 0 .. MaxClock
  BY <1>7, <1>10, <1>11, <1>12, RoundAssumption
<1>14. PICK defs : round' = [round EXCEPT !.stage = stage,
                 !.promoted = IF retirement # Absent THEN retirement ELSE round.promoted,
                 !.defs = defs, !.support = support, !.time = time, !.turn = ~round.turn]
  BY <1>1, <1>3, Zenon DEF AfterTransition, AgreedObservationTimestamp, tally, time, stage
<1>15. RoundType'
  BY <1>4, <1>6, <1>9, <1>13, <1>14, Zenon DEF RoundInv, RoundType
<1>16. /\ round'.local = round.local /\ round'.support = support /\ round'.stage = stage
       /\ round'.retireFlag = round.retireFlag /\ round'.time = time
  BY <1>14, Zenon DEF RoundInv, RoundType
<1>17. RoundInv'
  BY <1>6, <1>9, <1>15, <1>16, Zenon DEF RoundInv
<1>18. time # round.time => time > round.time /\ round.local[o].clock >= time
  BY <1>7, <1>10, <1>11, <1>12
<1> QED BY <1>16, <1>17, <1>18, Zenon

LEMMA RoundStepKeepsRoundInv == RoundInv /\ [RoundNext]_round => RoundInv'
<1> SUFFICES ASSUME RoundInv, [RoundNext]_round PROVE RoundInv'
  BY Zenon
<1>1. Honest # {}
  BY HonestMember, OracleSets, RoundAssumption
<1>2. CASE UNCHANGED round
  BY <1>2, Zenon DEF RoundInv, RoundType, Locals
<1>3. CASE StateTransition
  BY <1>3, TransitionOutcome, Zenon
<1>4. CASE ~ StateTransition /\ RoundNext
  BY <1>1, <1>4, SurroundingsKeepRoundInv, Zenon DEF RoundNext
<1> QED BY <1>2, <1>3, <1>4, Zenon DEF RoundNext

(* Of the oracles that advertise an encodable format more than F are       *)
(* honest, and they have it.                                               *)
LEMMA RoundInvImpliesEncoders == RoundInv => EncodersAlive
<1> SUFFICES ASSUME RoundInv, NEW f \in Formats, FormatIsEncodable(round.support, f)
             PROVE  Cardinality({o \in Honest : f \in round.local[o].formats}) > F
  BY Zenon DEF EncodersAlive
<1> DEFINE S == {o \in Oracles : f \in round.support[o]}
           T == {o \in Honest : f \in round.local[o].formats}
<1>1. Cardinality(S) >= 2 * F + 1
  BY Zenon DEF FormatIsEncodable, CountSupportByFormat
<1>2. IsFiniteSet(S) /\ Cardinality(S) \in Nat
  BY OracleSets, FS_Subset, FS_CardinalityType, Zenon
<1>3. Cardinality(S \cap Honest) > F
  <2>1. Cardinality(S) > F + F
    BY <1>1, <1>2, RoundAssumption
  <2> QED BY <2>1, HonestShare, RoundAssumption, Zenon
<1>4. S \cap Honest \subseteq T
  BY Zenon DEF RoundInv
<1>5. IsFiniteSet(T)
  BY OracleSets, FS_Subset, Zenon DEF Honest
<1>6. Cardinality(S \cap Honest) <= Cardinality(T) /\ Cardinality(T) \in Nat /\ Cardinality(S \cap Honest) \in Nat
  BY <1>4, <1>5, FS_Subset, FS_CardinalityType, Zenon
<1> QED BY <1>3, <1>6, RoundAssumption

LEMMA RoundInvHolds == RoundSpec => []RoundInv
<1>1. (\E subject \in Subjects, static \in BOOLEAN : RoundInit(subject, static)) => RoundInv
  BY RoundInvInitially, Zenon
<1> QED BY <1>1, RoundStepKeepsRoundInv, PTL DEF RoundSpec

(* In every round a format that counts as encodable has f+1 honest         *)
(* encoders, for any number of oracles of which less than a third are      *)
(* faulty (mergeCodecSupport, statetransition.go).                         *)
THEOREM EncodersAliveHolds == RoundSpec => []EncodersAlive
BY RoundInvHolds, RoundInvImpliesEncoders, PTL

(* Promotion adopts watermarks that the predecessor signed, and retirement *)
(* follows the onchain flag, whatever the faulty oracles attest or vote    *)
(* (electPredecessorConfig, resolvePredecessorRetirement).                 *)
THEOREM LifecycleIsGenuineHolds == RoundSpec => []LifecycleIsGenuine
<1>1. RoundInv => LifecycleIsGenuine
  BY Zenon DEF RoundInv, RoundType, LifecycleIsGenuine, GenuineWatermarks
<1> QED BY <1>1, RoundInvHolds, PTL

(* The agreed time never goes back, and never passes every honest clock    *)
(* (agreedObservationTimestamp).                                           *)
THEOREM TimeIsHonestHolds == RoundSpec => TimeIsHonest
<1>1. RoundInv /\ [RoundNext]_round =>
        [round # Absent /\ round'.time # round.time =>
            /\ round'.time > round.time
            /\ \E o \in Honest : round.local[o].clock >= round'.time]_round
  <2> SUFFICES ASSUME RoundInv, RoundNext, round'.time # round.time
               PROVE  /\ round'.time > round.time
                      /\ \E o \in Honest : round.local[o].clock >= round'.time
    BY Zenon
  <2>1. CASE StateTransition
    BY <2>1, TransitionOutcome, Zenon
  <2>2. CASE ~ StateTransition
    <3>1. round'.time = round.time
      BY <2>2, SMTT(30) DEF RoundNext, Publish, SetRetireFlag, Fetch, Upgrade, StoreConfig, StoreReport,
             ReadRetireFlag, SetClock, RoundInv, RoundType
    <3> QED BY <3>1, Zenon
  <2> QED BY <2>1, <2>2, Zenon
<1> QED BY <1>1, RoundInvHolds, PTL DEF RoundSpec, TimeIsHonest

-----------------------------------------------------------------------------
(* The inductive invariant on the committed set.                           *)

ChannelsInv ==
    /\ round.published \in 0 .. Len(Files)
    /\ \A o \in Honest : round.local[o].file \in 0 .. Len(Files)
    /\ IsCommitted(round.defs) /\ WithinLimits(round.defs)

(* Parts of a committed set, and one laid over another.                    *)
LEMMA PartCommitted ==
    ASSUME NEW ds, IsCommitted(ds), NEW T, T \subseteq DOMAIN ds
    PROVE  IsCommitted([c \in T |-> ds[c]])
<1>1. IsFiniteSet(T)
  BY FS_Subset, Zenon DEF IsCommitted
<1> QED BY <1>1, Zenon DEF IsCommitted

LEMMA OverCommitted ==
    ASSUME NEW f, IsCommitted(f), NEW g, IsCommitted(g)
    PROVE  IsCommitted(Over(f, g))
<1>1. IsFiniteSet(DOMAIN f \cup DOMAIN g)
  BY FS_Union, Zenon DEF IsCommitted
<1> QED BY <1>1, Zenon DEF IsCommitted, Over

(* What the files define can be committed.                                 *)
LEMMA FileCommitted ==
    ASSUME NEW i \in 1 .. Len(Files)
    PROVE  IsCommitted(Files[i])
BY FilesAssumption, Zenon DEF IsCommitted

(* So can what an oracle expects.                                          *)
LEMMA DefinitionsCommitted ==
    ASSUME NEW file \in 0 .. Len(Files), NEW committed, IsCommitted(committed)
    PROVE  IsCommitted(Definitions(file, committed))
<1> DEFINE T == DOMAIN committed \ {c \in DOMAIN committed : committed[c].tombstone /\ c \notin DOMAIN Files[file]}
           kept == [c \in T |-> committed[c]]
<1>1. IsCommitted(kept)
  <2>1. T \subseteq DOMAIN committed
    BY Zenon
  <2> HIDE DEF T
  <2> QED BY <2>1, PartCommitted, Zenon
<1>2. file # 0 => IsCommitted(Files[file])
  <2>1. file # 0 => file \in 1 .. Len(Files)
    BY FilesAssumption
  <2> QED BY <2>1, FileCommitted, Zenon
<1>3. file # 0 => IsCommitted(Over(Files[file], kept))
  <2> HIDE DEF kept
  <2> QED BY <1>1, <1>2, OverCommitted, Zenon
<1>4. Definitions(file, committed) \in {NoDefinitions, Files[file], committed, Over(Files[file], kept)}
      /\ (file = 0 => Definitions(file, committed) \in {NoDefinitions, committed})
  BY Zenon DEF Definitions
<1> HIDE DEF kept
<1> QED BY <1>2, <1>3, <1>4, NoneCommitted, Zenon

(* What an honest oracle votes for comes from its file or from the         *)
(* committed set.                                                          *)
LEMMA HonestUpdates ==
    ASSUME RoundInv, ChannelsInv, NEW o \in Honest
    PROVE  IsCommitted(Observation(o).update)
<1> DEFINE committed == round.defs
           expected == Definitions(round.local[o].file, round.defs)
           admissible == AdmissibleChannelDefinitions(committed, expected)
           votes == IF round.stage = "retired" THEN NoVotes ELSE VoteOnChannels(committed, expected)
<1>1. IsCommitted(committed) /\ IsCommitted(expected)
  BY DefinitionsCommitted, Zenon DEF ChannelsInv
<1>2. Observation(o).update = votes.update
  <2>1. Observation(o) = Observed(round.local[o], round.stage, votes)
    BY Zenon DEF Observation
  <2> HIDE DEF votes
  <2> QED BY <2>1 DEF Observed
<1> HIDE DEF committed, expected
<1>3. votes.update = NoDefinitions \/ votes.update = UpdateVotes(committed, admissible)
  BY Zenon DEF VoteOnChannels, NoVotes
<1>4. ASSUME NEW ids PROVE IsCommitted(Reverted(committed, expected, ids))
  <2>1. IsFiniteSet((DOMAIN expected \ ids) \cup (ids \cap DOMAIN committed))
    BY <1>1, FS_Union, FS_Subset, Zenon DEF IsCommitted
  <2> QED BY <1>1, <2>1, Zenon DEF IsCommitted, Reverted
<1>5. admissible = Absent \/ IsCommitted(admissible)
  BY <1>1, <1>4, Zenon DEF AdmissibleChannelDefinitions, Withhold, Reverify
<1> HIDE DEF admissible
<1>6. IsCommitted(UpdateVotes(committed, admissible))
  <2>1. CASE admissible = Absent
    BY <2>1, NoneCommitted, Zenon DEF UpdateVotes
  <2>2. CASE admissible # Absent
    <3>1. UpdateVotes(committed, admissible) = ChannelUpdateVotes(committed, admissible)
      BY <2>2, Zenon DEF UpdateVotes
    <3>2. PICK T : /\ T \subseteq DOMAIN admissible
                   /\ ChannelUpdateVotes(committed, admissible) = [c \in T |-> admissible[c]]
      BY Zenon DEF ChannelUpdateVotes, ChangedChannelIDs
    <3> QED BY <1>5, <2>2, <3>1, <3>2, PartCommitted
  <2> QED BY <2>1, <2>2, Zenon
<1> HIDE DEF votes
<1> QED BY <1>2, <1>3, <1>6, NoneCommitted, Zenon

(* A faulty one votes for parts of a file.                                 *)
LEMMA FaultyUpdates ==
    ASSUME NEW ob \in FaultyObservations
    PROVE  IsCommitted(ob.update)
<1> DEFINE parts(file) == {[c \in S |-> file[c]] : S \in SUBSET DOMAIN file}
<1>1. ob.update \in UNION {parts(f) : f \in Elements(Files)} \/ ob.update = NoDefinitions
  BY Zenon DEF FaultyObservations, About
<1>2. ASSUME NEW f \in Elements(Files), NEW S \in SUBSET DOMAIN f PROVE IsCommitted([c \in S |-> f[c]])
  <2>1. PICK i \in 1 .. Len(Files) : f = Files[i]
    BY FilesAssumption, Zenon DEF Elements
  <2>2. IsCommitted(f) /\ S \subseteq DOMAIN f
    BY <2>1, FileCommitted, Zenon
  <2> QED BY <2>2, PartCommitted, Zenon
<1>3. CASE ob.update \in UNION {parts(f) : f \in Elements(Files)}
  <2>1. PICK f \in Elements(Files) : ob.update \in parts(f)
    BY <1>3, Zenon
  <2>2. PICK S \in SUBSET DOMAIN f : ob.update = [c \in S |-> f[c]]
    BY <2>1, Zenon
  <2> QED BY <1>2, <2>2, Zenon
<1> QED BY <1>1, <1>3, NoneCommitted, Zenon

(* The updates that pass are finitely many, and of channels as defined.    *)
LEMMA PassingType ==
    ASSUME RoundInv, ChannelsInv, NEW obs, Quorate(obs)
    PROVE  /\ IsFiniteSet(Uncontested(PassingUpdates(obs)))
           /\ \A u \in PassingUpdates(obs) : u[1] \in Nat /\ IsChannelDefinition(u[2])
<1>1. ASSUME NEW o \in DOMAIN obs PROVE IsCommitted(obs[o].update)
  BY HonestUpdates, FaultyUpdates, HonestOrFaulty, Zenon DEF Quorate
<1>2. IsFiniteSet(DOMAIN obs)
  BY OracleSets, FS_Subset, Zenon DEF Quorate
<1> DEFINE f == [o \in DOMAIN obs |-> {<<c, obs[o].update[c]>> : c \in DOMAIN obs[o].update}]
<1>3. ASSUME NEW o \in DOMAIN obs PROVE IsFiniteSet(f[o])
  <2> DEFINE g == [c \in DOMAIN obs[o].update |-> <<c, obs[o].update[c]>>]
  <2>1. IsFiniteSet(DOMAIN obs[o].update)
    BY <1>1, Zenon DEF IsCommitted
  <2>2. f[o] = {g[c] : c \in DOMAIN obs[o].update}
    BY Zenon
  <2> HIDE DEF f, g
  <2>3. IsFiniteSet({g[c] : c \in DOMAIN obs[o].update})
    BY <2>1, FiniteImage, Zenon
  <2> QED BY <2>2, <2>3, Zenon
<1>4. Updated(obs) = UNION {f[o] : o \in DOMAIN obs}
  BY DEF Updated
<1>5. ASSUME NEW u \in Updated(obs) PROVE u[1] \in Nat /\ IsChannelDefinition(u[2])
  <2>1. PICK o \in DOMAIN obs : u \in {<<c, obs[o].update[c]>> : c \in DOMAIN obs[o].update}
    BY Zenon DEF Updated
  <2>2. PICK c \in DOMAIN obs[o].update : u = <<c, obs[o].update[c]>>
    BY <2>1, Zenon
  <2>3. c \in Nat /\ IsChannelDefinition(obs[o].update[c])
    BY <1>1, <2>2, Zenon DEF IsCommitted
  <2> QED BY <2>2, <2>3, Zenon
<1> HIDE DEF f
<1>6. IsFiniteSet(Updated(obs))
  <2>1. IsFiniteSet(UNION {f[o] : o \in DOMAIN obs})
    BY <1>2, <1>3, FiniteFamily, Zenon
  <2> QED BY <1>4, <2>1, Zenon
<1>7. PassingUpdates(obs) \subseteq Updated(obs) /\ Uncontested(PassingUpdates(obs)) \subseteq Updated(obs)
  BY Zenon DEF PassingUpdates, Uncontested
<1> QED BY <1>5, <1>6, <1>7, FS_Subset, Zenon

(* More than F oracles vote for a removal, an honest one among them, and   *)
(* that one has the channel as a tombstone.                                *)
LEMMA RemovalsAreTombstones ==
    ASSUME RoundInv, NEW obs, Quorate(obs)
    PROVE  RemovalsOf(obs) \cap Live(round.defs) = {}
<1>1. ASSUME NEW c \in RemovalsOf(obs) PROVE c \notin Live(round.defs)
  <2> DEFINE S == {o \in DOMAIN obs : c \in obs[o].remove}
  <2>1. S \in SUBSET Oracles /\ Cardinality(S) > F
    BY Zenon DEF RemovalsOf, Voters, Quorate
  <2>2. PICK o \in S : o \in Honest
    BY <2>1, HonestMember, Zenon
  <2>3. c \in Observation(o).remove
    BY <2>2, Zenon DEF Quorate
  <2> DEFINE expected == Definitions(round.local[o].file, round.defs)
             votes == IF round.stage = "retired" THEN NoVotes ELSE VoteOnChannels(round.defs, expected)
  <2>4. Observation(o).remove = votes.remove
    <3>1. Observation(o) = Observed(round.local[o], round.stage, votes)
      BY Zenon DEF Observation
    <3> HIDE DEF votes
    <3> QED BY <3>1 DEF Observed
  <2> HIDE DEF expected
  <2>5. votes.remove = {} \/ votes.remove = SubtractChannelDefinitions(Removable(round.defs), expected,
                                                MaxObservationRemoveChannelIDsLength)
    BY Zenon DEF VoteOnChannels, NoVotes
  <2> HIDE DEF votes
  <2>6. c \in DOMAIN Removable(round.defs)
    BY <2>3, <2>4, <2>5, Zenon DEF SubtractChannelDefinitions
  <2> QED BY <2>6, Zenon DEF Removable, Live
<1> QED BY <1>1, Zenon

(* The tally of a quorum leaves the set within its limits and its live     *)
(* channels in place.                                                      *)
LEMMA VotesKeepLimits ==
    ASSUME RoundInv, ChannelsInv, NEW obs, Quorate(obs)
    PROVE  LET ds == ApplyChannelVotes(round.defs, RemovalsOf(obs), PassingUpdates(obs))
           IN IsCommitted(ds) /\ WithinLimits(ds) /\ Live(round.defs) \subseteq DOMAIN ds
<1> DEFINE R == RemovalsOf(obs)
           passing == PassingUpdates(obs)
           S == Uncontested(passing)
           base == [c \in DOMAIN round.defs \ R |-> round.defs[c]]
<1>1. IsFiniteSet(S) /\ \A u \in passing : u[1] \in Nat /\ IsChannelDefinition(u[2])
  BY PassingType, Zenon
<1>2. R \cap Live(round.defs) = {}
  BY RemovalsAreTombstones, Zenon
<1>3. \A u \in S : u[1] \in Nat /\ IsChannelDefinition(u[2])
  BY <1>1, Zenon DEF Uncontested
<1> HIDE DEF R, passing
<1>4. IsCommitted(base) /\ WithinLimits(base)
  BY <1>2, RemovalKeepsLimits, Zenon DEF ChannelsInv
<1>5. Live(round.defs) \subseteq DOMAIN base
  BY <1>2, Zenon DEF Live
<1>6. PICK after : IsUpdating(after, base, SUBSET S) /\ ApplyChannelVotes(round.defs, R, passing) = after[S]
  BY <1>1, VotesApplied, Zenon
<1> HIDE DEF base, S
<1>7. IsCommitted(after[S]) /\ WithinLimits(after[S]) /\ DOMAIN base \subseteq DOMAIN after[S]
  <2>1. \A s \in SUBSET S : /\ IsCommitted(after[s]) /\ WithinLimits(after[s])
                            /\ DOMAIN base \subseteq DOMAIN after[s]
    BY <1>1, <1>3, <1>4, <1>6, UpdatesKeepLimits, Zenon
  <2> QED BY <2>1, Zenon
<1> QED BY <1>5, <1>6, <1>7, Zenon DEF R, passing

LEMMA TransitionKeepsChannels ==
    ASSUME RoundInv, ChannelsInv, StateTransition
    PROVE  ChannelsInv' /\ Live(round.defs) \subseteq DOMAIN round'.defs
<1>1. PICK obs \in AttributedObservations(Accepted(FaultyObservations), AcceptedHonest) : round' =
        AfterTransition(Tally(obs), Retire(Promote(round.stage, Tally(obs).retirement), Tally(obs).shouldRetire))
  BY Zenon DEF StateTransition, Tallies
<1>2. Quorate(obs)
  BY AcceptedQuorum, Zenon
<1> DEFINE tally == Tally(obs)
           stage == Retire(Promote(round.stage, tally.retirement), tally.shouldRetire)
           voted == ApplyChannelVotes(round.defs, RemovalsOf(obs), PassingUpdates(obs))
<1>3. tally.removals = RemovalsOf(obs) /\ tally.passing = PassingUpdates(obs)
  BY Zenon DEF Tally
<1>4. IsCommitted(voted) /\ WithinLimits(voted) /\ Live(round.defs) \subseteq DOMAIN voted
  BY <1>2, VotesKeepLimits, Zenon
<1>5. round' = AfterTransition(tally, stage)
  BY <1>1, Zenon
<1> HIDE DEF tally, stage, voted
<1>6. /\ round'.defs = IF stage = "retired" THEN round.defs
                       ELSE ApplyChannelVotes(round.defs, tally.removals, tally.passing)
      /\ round'.published = round.published /\ round'.local = round.local
  BY <1>5, Zenon DEF AfterTransition, RoundInv, RoundType
<1>7. round'.defs \in {round.defs, voted}
  BY <1>3, <1>6, Zenon DEF voted
<1>8. IsCommitted(round'.defs) /\ WithinLimits(round'.defs) /\ Live(round.defs) \subseteq DOMAIN round'.defs
  BY <1>4, <1>7, LivePart, Zenon DEF ChannelsInv
<1> QED BY <1>6, <1>8, Zenon DEF ChannelsInv

LEMMA SurroundingsKeepChannels ==
    ASSUME RoundInv, ChannelsInv, NEW o \in Honest,
           \/ Publish \/ SetRetireFlag
           \/ Fetch(o) \/ Upgrade(o) \/ StoreConfig(o) \/ StoreReport(o) \/ ReadRetireFlag(o) \/ SetClock(o)
    PROVE  ChannelsInv' /\ Live(round.defs) \subseteq DOMAIN round'.defs
<1>1. round'.defs = round.defs
  BY SMTT(30) DEF Publish, SetRetireFlag, Fetch, Upgrade, StoreConfig, StoreReport, ReadRetireFlag, SetClock,
     RoundInv, RoundType
<1>2. round'.published \in 0 .. Len(Files)
  BY SMTT(30), FilesAssumption DEF Publish, SetRetireFlag, Fetch, Upgrade, StoreConfig, StoreReport,
     ReadRetireFlag, SetClock, RoundInv, RoundType, ChannelsInv
<1>3. ASSUME NEW p \in Honest PROVE round'.local[p].file \in {round.local[p].file, round.published}
  <2>1. CASE Publish \/ SetRetireFlag
    BY <2>1, Zenon DEF Publish, SetRetireFlag, RoundInv, RoundType
  <2>2. CASE Fetch(o)
    BY <2>2, Zenon DEF Fetch, RoundInv, RoundType, Locals
  <2>3. CASE Upgrade(o)
    BY <2>3 DEF Upgrade, RoundInv, RoundType, Locals
  <2>4. CASE StoreConfig(o)
    BY <2>4 DEF StoreConfig, RoundInv, RoundType, Locals
  <2>5. CASE StoreReport(o)
    BY <2>5 DEF StoreReport, RoundInv, RoundType, Locals
  <2>6. CASE ReadRetireFlag(o)
    BY <2>6 DEF ReadRetireFlag, RoundInv, RoundType, Locals
  <2>7. CASE SetClock(o)
    BY <2>7 DEF SetClock, RoundInv, RoundType, Locals
  <2> QED BY <2>1, <2>2, <2>3, <2>4, <2>5, <2>6, <2>7, Zenon
<1>4. \A p \in Honest : round'.local[p].file \in 0 .. Len(Files)
  BY <1>3, Zenon DEF ChannelsInv
<1> QED BY <1>1, <1>2, <1>4, LivePart, Zenon DEF ChannelsInv

LEMMA RoundStepKeepsChannels ==
    ASSUME RoundInv, ChannelsInv, RoundNext
    PROVE  ChannelsInv' /\ Live(round.defs) \subseteq DOMAIN round'.defs
<1>1. Honest # {}
  BY HonestMember, OracleSets, RoundAssumption
<1>2. CASE StateTransition
  BY <1>2, TransitionKeepsChannels, Zenon
<1>3. CASE ~ StateTransition
  <2>1. PICK o \in Honest : \/ Publish \/ SetRetireFlag
           \/ Fetch(o) \/ Upgrade(o) \/ StoreConfig(o) \/ StoreReport(o) \/ ReadRetireFlag(o) \/ SetClock(o)
    BY <1>1, <1>3, Zenon DEF RoundNext
  <2> QED BY <2>1, SurroundingsKeepChannels, Zenon
<1> QED BY <1>2, <1>3, Zenon

LEMMA ChannelsInvHolds == RoundSpec => [](RoundInv /\ ChannelsInv)
<1>1. (\E subject \in Subjects, static \in BOOLEAN : RoundInit(subject, static)) => ChannelsInv
  <2> SUFFICES ASSUME NEW subject \in Subjects, NEW static \in BOOLEAN, RoundInit(subject, static)
               PROVE  ChannelsInv
    BY Zenon
  <2>1. round.published = 0 /\ (\A o \in Honest : round.local[o].file = 0) /\ round.defs = NoDefinitions
    BY Zenon DEF RoundInit
  <2> QED BY <2>1, NoneCommitted, FilesAssumption DEF ChannelsInv
<1>2. RoundInv /\ ChannelsInv /\ [RoundNext]_round => ChannelsInv'
  <2>1. ASSUME ChannelsInv, UNCHANGED round PROVE ChannelsInv'
    BY <2>1, Zenon DEF ChannelsInv, WithinLimits, IsCommitted
  <2> QED BY <2>1, RoundStepKeepsChannels, Zenon
<1> QED BY <1>1, <1>2, RoundInvHolds, PTL DEF RoundSpec

(* A live channel stays committed, for any number of oracles, any files    *)
(* and any limits: whatever the faulty oracles vote and however far the    *)
(* honest caches lag, only a tombstone is removed (voteOnChannels,         *)
(* applyChannelVotes).                                                     *)
THEOREM LiveNeverVanishesHolds == RoundSpec => LiveNeverVanishes
<1>1. RoundInv /\ ChannelsInv /\ [RoundNext]_round =>
        [round # Absent => Live(round.defs) \subseteq DOMAIN round'.defs]_round
  BY RoundStepKeepsChannels, Zenon
<1> QED BY <1>1, ChannelsInvHolds, PTL DEF RoundSpec, LiveNeverVanishes

(* No total of the committed set is past its limit, and no stream gets its *)
(* value from two places, whatever updates of different files pass in a    *)
(* round and in whatever quorum (ChannelDefinitionsBudget.Replace in       *)
(* applyChannelVotes). Any files, any limits.                              *)
THEOREM MergedSetWithinBudgetHolds == RoundSpec => []MergedSetWithinBudget
<1>1. ChannelsInv => MergedSetWithinBudget
  BY Zenon DEF ChannelsInv, WithinLimits, MergedSetWithinBudget
<1> QED BY <1>1, ChannelsInvHolds, PTL
===============================================================================
