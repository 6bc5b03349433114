---------------------------- MODULE HistoryProofs ----------------------------
(***************************************************************************)
(* Proofs about the stream history of v31, for any pairs and depths and    *)
(* any sizes of chunks and rings: what is stored can be reached from the   *)
(* header, and stays so in the working copy of a round.                    *)
(***************************************************************************)
EXTENDS HistoryV31, FiniteSetTheorems, TLAPS

LEMMA RingConstants ==
    /\ MaxHistoryChunkSlots \in Nat /\ MaxHistoryChunkSlots > 0
    /\ MaxHistoryChunkRecords \in Nat /\ MaxHistoryChunkRecords > 0
    /\ MaxHistoryRecordsPerPair \in Nat
<1>1. /\ MaxHistoryRecordsPerPair \in Nat /\ MaxHistoryChunkRecords \in Nat \ {0}
      /\ MaxHistoryChunkSlots \in Nat
      /\ MaxHistoryChunkSlots = MaxHistoryRecordsPerPair \div MaxHistoryChunkRecords + 2
  BY HistoryAssumption, Zenon
<1>2. MaxHistoryRecordsPerPair \div MaxHistoryChunkRecords \in Nat
  BY <1>1
<1> QED BY <1>1, <1>2

(* Positions in a range of numbers, and the distance of two of them.       *)
LEMMA RangeIndex ==
    ASSUME NEW a \in Nat, NEW k \in Nat, NEW s \in Nat, a <= s, s < a + k
    PROVE  s - a + 1 \in 1 .. k /\ s = a + (s - a + 1) - 1
OBVIOUS

LEMMA WithinRing ==
    ASSUME NEW a \in Nat, NEW n \in Nat, NEW m \in Nat, n <= m,
           NEW s \in Nat, NEW t \in Nat, a <= s, t < a + n
    PROVE  t - s < m
OBVIOUS

(* Two chunks less than a ring apart do not share a slot.                  *)
LEMMA SlotsDiffer ==
    ASSUME NEW a \in Nat, NEW b \in Nat, a <= b, b - a < MaxHistoryChunkSlots,
           HistoryChunkSlot(a) = HistoryChunkSlot(b)
    PROVE  a = b
<1> DEFINE m == MaxHistoryChunkSlots
           p == a \div m
           q == b \div m
<1>1. m \in Nat /\ m > 0
  BY RingConstants, Zenon
<1>2. a % m = b % m
  BY Zenon DEF HistoryChunkSlot
<1> HIDE DEF m
<1>3. p \in Int /\ q \in Int /\ a = m * p + (a % m) /\ b = m * q + (b % m) /\ a % m \in Int
  BY <1>1
<1> HIDE DEF p, q
<1>4. b - a = m * q - m * p
  BY <1>1, <1>2, <1>3
<1>5. m * q - m * p = m * (q - p)
  BY <1>1, <1>3
<1>6. CASE q - p >= 1
  <2>1. PICK r \in Nat : q - p = r + 1
    BY <1>3, <1>6
  <2>2. m * (r + 1) = m * r + m /\ m * r \in Nat
    BY <1>1
  <2>3. b - a >= m
    BY <1>1, <1>4, <1>5, <2>1, <2>2
  <2> QED BY <1>1, <2>3 DEF m
<1>7. CASE q - p <= -1
  <2>1. PICK r \in Nat : q - p = 0 - (r + 1)
    BY <1>3, <1>7
  <2>2. m * (0 - (r + 1)) = 0 - (m * r + m) /\ m * r \in Nat
    BY <1>1
  <2>3. b - a < 0
    BY <1>1, <1>4, <1>5, <2>1, <2>2
  <2> QED BY <2>3
<1>8. CASE q = p
  BY <1>1, <1>2, <1>3, <1>8, Zenon
<1> QED BY <1>3, <1>6, <1>7, <1>8

LEMMA SlotType ==
    ASSUME NEW a \in Nat
    PROVE  HistoryChunkSlot(a) \in Slots
<1>1. \A m \in Nat \ {0} : a % m \in 0 .. m - 1
  OBVIOUS
<1> QED BY <1>1, RingConstants DEF HistoryChunkSlot, Slots

LEMMA SmallSlot ==
    ASSUME NEW s \in Slots
    PROVE  HistoryChunkSlot(s) = s
<1>1. \A m \in Nat \ {0} : \A a \in 0 .. m - 1 : a % m = a
  OBVIOUS
<1> QED BY <1>1, RingConstants DEF HistoryChunkSlot, Slots

(* How many records a sequence of counts stands for.                       *)
LEMMA SumOfType ==
    ASSUME NEW s \in Seq(Nat)
    PROVE  SumOf(s) \in Nat
<1> DEFINE all == (DOMAIN s) \X (1 .. MaxHistoryChunkRecords)
           part == {x \in all : x[2] <= s[x[1]]}
<1>1. DOMAIN s = 1 .. Len(s) /\ Len(s) \in Nat
  OBVIOUS
<1>2. IsFiniteSet(DOMAIN s) /\ IsFiniteSet(1 .. MaxHistoryChunkRecords)
  BY <1>1, FS_Interval, RingConstants
<1>3. IsFiniteSet(all)
  BY <1>2, FS_Product, Zenon
<1>4. part \in SUBSET all
  BY Zenon
<1> HIDE DEF all, part
<1>5. IsFiniteSet(part) /\ Cardinality(part) \in Nat
  BY <1>3, <1>4, FS_Subset, FS_CardinalityType, Zenon
<1> QED BY <1>5, Zenon DEF SumOf, part, all

LEMMA SumOfNone == ASSUME NEW s, DOMAIN s = {} PROVE SumOf(s) = 0
<1>1. {x \in (DOMAIN s) \X (1 .. MaxHistoryChunkRecords) : x[2] <= s[x[1]]} = {}
  BY Zenon
<1> QED BY <1>1, FS_EmptySet, Zenon DEF SumOf

(* A set of naturals has a smallest one.                                   *)
LEMMA MinimumExists ==
    ASSUME NEW S \in SUBSET Nat, S # {}
    PROVE  \E x \in S : \A y \in S : x <= y
<1>1. PICK x \in S : \A y \in S : ~ (<<y, x>> \in OpToRel(<, Nat))
  BY NatLessThanWellFounded, WFMin, Zenon
<1>2. ASSUME NEW y \in S PROVE x <= y
  <2>1. <<y, x>> \in Nat \X Nat /\ ~ (<<y, x>> \in OpToRel(<, Nat))
    BY <1>1, Zenon
  <2>2. ~ (y < x)
    BY <2>1, Zenon DEF OpToRel
  <2> QED BY <2>2
<1> QED BY <1>2, Zenon

(* A finite set of numbers has a largest one.                              *)
LEMMA MaximumOf ==
    ASSUME NEW n \in Nat, NEW S \in SUBSET (0 .. n), S # {}
    PROVE  Maximum(S) \in S /\ \A y \in S : y <= Maximum(S)
<1> DEFINE T == {n - x : x \in S}
<1>1. \A x \in S : n - x \in Nat
  OBVIOUS
<1>2. T \in SUBSET Nat /\ T # {}
  BY <1>1, Zenon
<1>3. PICK t \in T : \A u \in T : t <= u
  BY <1>2, MinimumExists, Zenon
<1>4. PICK x \in S : t = n - x
  BY Zenon
<1>5. ASSUME NEW y \in S PROVE y <= x
  <2>1. n - y \in T
    BY Zenon
  <2>2. n - x <= n - y
    BY <1>3, <1>4, <2>1, Zenon
  <2> QED BY <2>2
<1> QED BY <1>5, Zenon DEF Maximum

(* The chunks that a header describes.                                     *)
Retained(h) == {h.first + i - 1 : i \in DOMAIN h.counts}

LEMMA RetainedRange ==
    ASSUME NEW h \in StreamHistoryHeader
    PROVE  /\ Retained(h) = {s \in Nat : h.first <= s /\ s < h.first + Len(h.counts)}
           /\ RetainedSlots(h) = {HistoryChunkSlot(s) : s \in Retained(h)}
<1>1. h.first \in Nat /\ Len(h.counts) \in Nat /\ DOMAIN h.counts = 1 .. Len(h.counts)
  BY DEF StreamHistoryHeader
<1>2. ASSUME NEW i \in 1 .. Len(h.counts)
      PROVE  /\ h.first + i - 1 \in Nat
             /\ h.first <= h.first + i - 1 /\ h.first + i - 1 < h.first + Len(h.counts)
  BY <1>1
<1>3. ASSUME NEW s \in Nat, h.first <= s, s < h.first + Len(h.counts)
      PROVE  \E i \in 1 .. Len(h.counts) : s = h.first + i - 1
  <2>1. s - h.first + 1 \in 1 .. Len(h.counts) /\ s = h.first + (s - h.first + 1) - 1
    BY <1>1, <1>3
  <2> QED BY <2>1, Zenon
<1>4. Retained(h) = {s \in Nat : h.first <= s /\ s < h.first + Len(h.counts)}
  BY <1>1, <1>2, <1>3, Zenon DEF Retained
<1>5. RetainedSlots(h) = {HistoryChunkSlot(s) : s \in Retained(h)}
  BY Zenon DEF RetainedSlots, Retained
<1> QED BY <1>4, <1>5, Zenon

WindowFields == {"header", "chunks", "deleted", "headerDirty", "dirtyChunk", "stored"}

LEMMA EmptyHeaderIs ==
    EmptyHeader \in StreamHistoryHeader /\ EmptyHeader.required = 0 /\ EmptyHeader.counts = <<>>
  BY DEF EmptyHeader, StreamHistoryHeader

LEMMA RequiredHeader ==
    ASSUME NEW h \in StreamHistoryHeader, NEW n \in Nat
    PROVE  LET next == [h EXCEPT !.required = n]
           IN /\ next \in StreamHistoryHeader /\ next.required = n /\ next.counts = h.counts
              /\ next.first = h.first /\ Retained(next) = Retained(h)
<1> DEFINE next == [h EXCEPT !.required = n]
<1>1. next \in StreamHistoryHeader
  BY Zenon DEF StreamHistoryHeader
<1>2. next.required = n /\ next.counts = h.counts /\ next.first = h.first
  BY Zenon DEF StreamHistoryHeader
<1> HIDE DEF next
<1>3. Retained(next) = Retained(h)
  BY <1>2, Zenon DEF Retained
<1> QED BY <1>1, <1>2, <1>3, Zenon DEF next

LEMMA NothingRetained ==
    ASSUME NEW h \in StreamHistoryHeader, h.counts = <<>>
    PROVE  Retained(h) = {} /\ RetainedSlots(h) = {}
  BY DEF Retained, RetainedSlots

(* Eviction moves whole chunks from what is retained to what is deleted.   *)
LEMMA EvictedHeader ==
    ASSUME NEW h \in StreamHistoryHeader, NEW k \in 0 .. Len(h.counts)
    PROVE  LET next == IF k = Len(h.counts) THEN [EmptyHeader EXCEPT !.required = h.required]
                       ELSE [h EXCEPT !.first = @ + k, !.counts = SubSeq(@, k + 1, Len(@)),
                                      !.starts = SubSeq(@, k + 1, Len(@))]
               gone == {h.first + i - 1 : i \in 1 .. k}
           IN /\ next \in StreamHistoryHeader /\ next.required = h.required
              /\ Len(next.counts) = Len(h.counts) - k
              /\ Retained(h) \subseteq Retained(next) \cup gone
              /\ k < Len(h.counts) => h.first + Len(h.counts) - 1 \in Retained(next)
              /\ k = Len(h.counts) => next.counts = <<>>
<1> DEFINE n == Len(h.counts)
           next == IF k = n THEN [EmptyHeader EXCEPT !.required = h.required]
                   ELSE [h EXCEPT !.first = @ + k, !.counts = SubSeq(@, k + 1, Len(@)),
                                  !.starts = SubSeq(@, k + 1, Len(@))]
           gone == {h.first + i - 1 : i \in 1 .. k}
<1>1. /\ h.first \in Nat /\ n \in Nat /\ h.counts \in Seq(Nat) /\ h.required \in Nat
      /\ h.starts \in Seq(Int) /\ h.last \in Int /\ Len(h.starts) \in Nat
  BY DEF StreamHistoryHeader
<1>2. Retained(h) = {s \in Nat : h.first <= s /\ s < h.first + n}
  BY RetainedRange, Zenon
<1>3. CASE k = n
  <2>1. next = [EmptyHeader EXCEPT !.required = h.required]
    BY <1>3, Zenon
  <2> HIDE DEF next
  <2>2. next \in StreamHistoryHeader /\ next.required = h.required /\ next.counts = <<>>
    BY <1>1, <2>1, EmptyHeaderIs, RequiredHeader, Zenon
  <2>3. Retained(h) \subseteq gone
    BY <1>3 DEF Retained
  <2>4. Len(next.counts) = n - k
    BY <1>1, <1>3, <2>2
  <2>5. ~(k < n)
    BY <1>1, <1>3
  <2> HIDE DEF gone, next, n
  <2> QED BY <2>2, <2>3, <2>4, <2>5, Zenon DEF gone, next, n
<1>4. CASE k < n
  <2>1. next = [h EXCEPT !.first = @ + k, !.counts = SubSeq(@, k + 1, Len(@)),
                         !.starts = SubSeq(@, k + 1, Len(@))]
    BY <1>1, <1>4
  <2>2. SubSeq(h.counts, k + 1, n) \in Seq(Nat) /\ Len(SubSeq(h.counts, k + 1, n)) = n - k
    BY <1>1, <1>4, SMTT(30)
  <2>3. SubSeq(h.starts, k + 1, Len(h.starts)) \in Seq(Int)
    BY <1>1
  <2> HIDE DEF next
  <2>f. h.first + k \in Nat
    BY <1>1
  <2>4. next \in StreamHistoryHeader /\ next.required = h.required /\ next.first = h.first + k
        /\ next.counts = SubSeq(h.counts, k + 1, n)
    <3> DEFINE first == h.first + k
               counts == SubSeq(h.counts, k + 1, n)
               starts == SubSeq(h.starts, k + 1, Len(h.starts))
    <3>1. first \in Nat /\ counts \in Seq(Nat) /\ starts \in Seq(Int)
      BY <2>2, <2>3, <2>f, Zenon
    <3>2. next = [h EXCEPT !.first = first, !.counts = counts, !.starts = starts]
      BY <2>1, Zenon
    <3> HIDE DEF first, counts, starts
    <3>3. next \in StreamHistoryHeader
      BY <3>1, <3>2, Zenon DEF StreamHistoryHeader
    <3>4. next.required = h.required /\ next.first = first /\ next.counts = counts
      BY <3>2, Zenon DEF StreamHistoryHeader
    <3> QED BY <3>3, <3>4, Zenon DEF first, counts
  <2> HIDE DEF next
  <2>5. Retained(next) = {s \in Nat : h.first + k <= s /\ s < h.first + k + (n - k)}
    BY <2>2, <2>4, RetainedRange, Zenon
  <2>6. gone = {s \in Nat : h.first <= s /\ s < h.first + k}
    <3>1. ASSUME NEW i \in 1 .. k
          PROVE  h.first + i - 1 \in Nat /\ h.first <= h.first + i - 1 /\ h.first + i - 1 < h.first + k
      BY <1>1
    <3>2. ASSUME NEW s \in Nat, h.first <= s, s < h.first + k PROVE \E i \in 1 .. k : s = h.first + i - 1
      <4>0. k \in Nat
        BY <1>1
      <4>1. s - h.first + 1 \in 1 .. k /\ s = h.first + (s - h.first + 1) - 1
        BY <1>1, <3>2, <4>0, RangeIndex, Zenon
      <4> QED BY <4>1, Zenon
    <3> QED BY <1>1, <3>1, <3>2, Zenon
  <2> HIDE DEF gone
  <2>7. Retained(h) \subseteq Retained(next) \cup gone
    BY <1>1, <1>2, <2>5, <2>6
  <2>8. h.first + n - 1 \in Retained(next)
    <3>1. h.first + n - 1 \in Nat /\ h.first + k <= h.first + n - 1
          /\ h.first + n - 1 < h.first + k + (n - k)
      <4>1. \A f, m, j \in Nat : j < m => /\ f + m - 1 \in Nat /\ f + j <= f + m - 1
                                          /\ f + m - 1 < f + j + (m - j)
        OBVIOUS
      <4>2. k \in Nat
        BY <1>1
      <4> QED BY <1>1, <1>4, <4>1, <4>2, Zenon
    <3> HIDE DEF n
    <3> QED BY <2>5, <3>1, Zenon
  <2>9. k # n
    BY <1>4
  <2> QED BY <2>2, <2>4, <2>7, <2>8, <2>9, Zenon DEF next, gone
<1>5. k = n \/ k < n
  BY <1>1
<1> QED BY <1>3, <1>4, <1>5, Zenon

LoadedChunks(w) == \A s \in DOMAIN w.chunks : w.chunks[s] \in StreamHistoryChunk /\ w.chunks[s].sequence = s

LEMMA FirstEvicted ==
    ASSUME NEW w, DOMAIN w = WindowFields, w.header \in StreamHistoryHeader, LoadedChunks(w), w.headerDirty,
           NEW k \in 0 .. Len(w.header.counts)
    PROVE  LET next == EvictFirst(w, k)
               h == w.header
           IN /\ DOMAIN next = WindowFields /\ next.header \in StreamHistoryHeader /\ LoadedChunks(next)
              /\ next.headerDirty /\ next.dirtyChunk = w.dirtyChunk
              /\ next.header.required = h.required
              /\ Len(next.header.counts) = Len(h.counts) - k
              /\ w.deleted \subseteq next.deleted
              /\ RetainedSlots(h) \cup w.deleted \subseteq RetainedSlots(next.header) \cup next.deleted
              /\ k < Len(h.counts) => h.first + Len(h.counts) - 1 \in Retained(next.header)
              /\ k = Len(h.counts) => next.header.counts = <<>>
<1> DEFINE h == w.header
           next == EvictFirst(w, k)
           gone == {h.first + i - 1 : i \in 1 .. k}
           deleted == w.deleted \cup {HistoryChunkSlot(s) : s \in gone}
           chunks == [s \in DOMAIN w.chunks \ gone |-> w.chunks[s]]
           rest == [h EXCEPT !.first = @ + k, !.counts = SubSeq(@, k + 1, Len(@)),
                             !.starts = SubSeq(@, k + 1, Len(@))]
           header == IF k = Len(h.counts) THEN [EmptyHeader EXCEPT !.required = h.required] ELSE rest
           dirty == w.headerDirty \/ k > 0
<1>1. next = [w EXCEPT !.deleted = deleted, !.chunks = chunks, !.headerDirty = dirty, !.header = header]
  BY Zenon DEF EvictFirst
<1>2. /\ header \in StreamHistoryHeader /\ header.required = h.required
      /\ Len(header.counts) = Len(h.counts) - k
      /\ Retained(h) \subseteq Retained(header) \cup gone
      /\ k < Len(h.counts) => h.first + Len(h.counts) - 1 \in Retained(header)
      /\ k = Len(h.counts) => header.counts = <<>>
  BY EvictedHeader, Zenon
<1>3. \A s \in DOMAIN chunks : chunks[s] \in StreamHistoryChunk /\ chunks[s].sequence = s
  BY Zenon DEF LoadedChunks
<1>4. dirty
  BY Zenon
<1> HIDE DEF next, header, dirty, chunks
<1>5. /\ RetainedSlots(h) = {HistoryChunkSlot(s) : s \in Retained(h)}
      /\ RetainedSlots(header) = {HistoryChunkSlot(s) : s \in Retained(header)}
  BY <1>2, RetainedRange, Zenon
<1>6. w.deleted \subseteq deleted
  BY Zenon
<1>7. RetainedSlots(h) \cup w.deleted \subseteq RetainedSlots(header) \cup deleted
  BY <1>2, <1>5, Zenon
<1> HIDE DEF deleted
<1>8. /\ DOMAIN next = WindowFields /\ next.deleted = deleted /\ next.chunks = chunks
      /\ next.headerDirty = dirty /\ next.header = header /\ next.dirtyChunk = w.dirtyChunk
  BY <1>1, Zenon DEF WindowFields
<1> QED BY <1>2, <1>3, <1>4, <1>6, <1>7, <1>8, Zenon DEF LoadedChunks, next

(* Evict drops what retention does not need, never the newest chunk.       *)
LEMMA Evicted ==
    ASSUME NEW w, DOMAIN w = WindowFields, w.header \in StreamHistoryHeader, LoadedChunks(w), w.headerDirty
    PROVE  LET next == Evict(w)
               h == w.header
           IN /\ DOMAIN next = WindowFields /\ next.header \in StreamHistoryHeader /\ LoadedChunks(next)
              /\ next.headerDirty /\ next.dirtyChunk = w.dirtyChunk
              /\ next.header.required = h.required
              /\ Len(next.header.counts) <= Len(h.counts)
              /\ w.deleted \subseteq next.deleted
              /\ RetainedSlots(h) \cup w.deleted \subseteq RetainedSlots(next.header) \cup next.deleted
              /\ (h.required > 0 /\ h.counts # <<>>)
                   => h.first + Len(h.counts) - 1 \in Retained(next.header)
              /\ h.required = 0 => next.header.counts = <<>>
<1> DEFINE h == w.header
           n == Len(h.counts)
           covers(k) == SumOf(SubSeq(h.counts, k + 1, n)) >= h.required
           S == {0} \cup {k \in 1 .. n : covers(k)}
           m == Maximum(S)
<1>1. n \in Nat /\ h.counts \in Seq(Nat) /\ h.required \in Nat
  BY DEF StreamHistoryHeader
<1>2. S \in SUBSET (0 .. n) /\ S # {}
  BY <1>1
<1>3. m \in S /\ \A y \in S : y <= m
  BY <1>1, <1>2, MaximumOf, Zenon
<1>4. m \in 0 .. n
  BY <1>2, <1>3, Zenon
<1>5. SumOf(SubSeq(h.counts, n + 1, n)) = 0
  <2>1. SubSeq(h.counts, n + 1, n) = <<>>
    BY <1>1
  <2>2. DOMAIN <<>> = {}
    OBVIOUS
  <2> QED BY <2>1, <2>2, SumOfNone, Zenon
<1>6. h.required = 0 => m = n
  <2>1. ASSUME h.required = 0 PROVE n = 0 \/ n \in S
    BY <1>1, <1>5, <2>1
  <2> QED BY <1>1, <1>3, <1>4, <2>1
<1>7. h.required > 0 /\ h.counts # <<>> => m < n
  BY <1>1, <1>3, <1>4, <1>5
<1>8. Evict(w) = EvictFirst(w, m)
  BY Zenon DEF Evict
<1> HIDE DEF m
<1>9. \A a, b \in Nat : a - b <= a
  OBVIOUS
<1> DEFINE next == EvictFirst(w, m)
<1>10. /\ DOMAIN next = WindowFields /\ next.header \in StreamHistoryHeader /\ LoadedChunks(next)
       /\ next.headerDirty /\ next.dirtyChunk = w.dirtyChunk
       /\ next.header.required = h.required
       /\ Len(next.header.counts) = Len(h.counts) - m
       /\ w.deleted \subseteq next.deleted
       /\ RetainedSlots(h) \cup w.deleted \subseteq RetainedSlots(next.header) \cup next.deleted
       /\ m < Len(h.counts) => h.first + Len(h.counts) - 1 \in Retained(next.header)
       /\ m = Len(h.counts) => next.header.counts = <<>>
  BY <1>4, FirstEvicted, Zenon
<1>11. m \in Nat
  BY <1>1, <1>4
<1> HIDE DEF next, n, S
<1>12. Len(next.header.counts) <= Len(h.counts)
  BY <1>1, <1>9, <1>10, <1>11, Zenon DEF n
<1> QED BY <1>6, <1>7, <1>8, <1>10, <1>12, Zenon DEF next, n

(* A working copy to which nothing has been appended.                      *)
Opened(w) ==
    /\ DOMAIN w = WindowFields /\ w.header \in StreamHistoryHeader /\ LoadedChunks(w) /\ w.dirtyChunk = Absent
    /\ Len(w.header.counts) <= MaxHistoryChunkSlots
    /\ w.header.required = 0 => w.header.counts = <<>>

LEMMA HeaderTypes ==
    ASSUME NEW h \in StreamHistoryHeader
    PROVE  /\ h.required \in Nat /\ h.first \in Nat /\ h.counts \in Seq(Nat)
           /\ h.starts \in Seq(Int) /\ h.last \in Int /\ Len(h.counts) \in Nat
           /\ DOMAIN h.counts = 1 .. Len(h.counts)
  BY DEF StreamHistoryHeader

(* SetRequiredCount evicts from what is loaded, and empties the window of a*)
(* pair that no channel asks for.                                          *)
LEMMA RequiredCountSet ==
    ASSUME NEW w, Opened(w), NEW n \in Nat
    PROVE  LET next == SetRequiredCount(w, n)
           IN /\ Opened(next) /\ next.header.required = n
              /\ w.deleted \subseteq next.deleted
              /\ RetainedSlots(w.header) \cup w.deleted \subseteq RetainedSlots(next.header) \cup next.deleted
              /\ ~next.headerDirty => next.header = w.header
              /\ w.header.counts = <<>> => next.header.counts = <<>>
<1>1. CASE w.header.required = n
  <2>1. SetRequiredCount(w, n) = w
    BY <1>1, Zenon DEF SetRequiredCount
  <2> QED BY <1>1, <2>1, Zenon
<1>2. CASE w.header.required # n
  <2> DEFINE e == [w EXCEPT !.header.required = n, !.headerDirty = TRUE]
             h == [w.header EXCEPT !.required = n]
             next == Evict(e)
  <2>1. SetRequiredCount(w, n) = next
    BY <1>2, Zenon DEF SetRequiredCount
  <2>2. /\ DOMAIN e = WindowFields /\ e.headerDirty /\ e.dirtyChunk = w.dirtyChunk
        /\ e.chunks = w.chunks /\ e.deleted = w.deleted /\ e.header = h
    BY Zenon DEF Opened, WindowFields
  <2>3. h \in StreamHistoryHeader /\ h.required = n /\ h.counts = w.header.counts /\ Retained(h) = Retained(w.header)
    BY RequiredHeader, Zenon DEF Opened
  <2> HIDE DEF e, h
  <2>4. RetainedSlots(h) = RetainedSlots(w.header)
    BY <2>3, RetainedRange, Zenon DEF Opened
  <2>5. LoadedChunks(e)
    BY <2>2, Zenon DEF Opened, LoadedChunks
  <2>6. /\ DOMAIN next = WindowFields /\ next.header \in StreamHistoryHeader /\ LoadedChunks(next)
        /\ next.headerDirty /\ next.dirtyChunk = e.dirtyChunk
        /\ next.header.required = e.header.required
        /\ Len(next.header.counts) <= Len(e.header.counts)
        /\ e.deleted \subseteq next.deleted
        /\ RetainedSlots(e.header) \cup e.deleted \subseteq RetainedSlots(next.header) \cup next.deleted
        /\ e.header.required = 0 => next.header.counts = <<>>
    BY <2>2, <2>3, <2>5, Evicted, Zenon
  <2> HIDE DEF next
  <2>7. Len(next.header.counts) <= MaxHistoryChunkSlots
    <3>1. Len(next.header.counts) \in Nat /\ Len(w.header.counts) \in Nat
      BY <2>6, HeaderTypes, Zenon DEF Opened
    <3>2. Len(next.header.counts) <= Len(w.header.counts) /\ Len(w.header.counts) <= MaxHistoryChunkSlots
      BY <2>2, <2>3, <2>6, Zenon DEF Opened
    <3> QED BY <3>1, <3>2, RingConstants
  <2>8. Opened(next) /\ next.header.required = n
    BY <2>2, <2>3, <2>6, <2>7, Zenon DEF Opened
  <2>9. w.header.counts = <<>> => next.header.counts = <<>>
    <3>1. next.header.counts \in Seq(Nat) /\ Len(next.header.counts) <= Len(w.header.counts)
      BY <2>2, <2>3, <2>6, HeaderTypes, Zenon
    <3> QED BY <3>1
  <2> QED BY <2>1, <2>2, <2>4, <2>6, <2>8, <2>9, Zenon
<1> QED BY <1>1, <1>2, Zenon

LEMMA NewWindow ==
    ASSUME NEW h \in StreamHistoryHeader, Len(h.counts) <= MaxHistoryChunkSlots, h.required = 0 => h.counts = <<>>
    PROVE  /\ Opened(NewRingWindow(h)) /\ NewRingWindow(h).header = h
           /\ NewRingWindow(h).deleted = {}
<1> DEFINE w == NewRingWindow(h)
<1>1. DOMAIN w = WindowFields
  BY Zenon DEF NewRingWindow, WindowFields
<1>2. /\ w.header = h /\ w.deleted = {} /\ w.dirtyChunk = Absent /\ w.headerDirty = FALSE
      /\ w.chunks = [s \in {} |-> Absent]
  BY Zenon DEF NewRingWindow
<1> HIDE DEF w
<1>3. LoadedChunks(w)
  BY <1>2, Zenon DEF LoadedChunks
<1> QED BY <1>1, <1>2, <1>3, Zenon DEF Opened, w

(* The working copy covers the stored keys: what is stored is retained or  *)
(* will be deleted, the chunk that will be written is retained, and a      *)
(* header that is not written is the stored one.                           *)
Covers(keys, w, n) ==
    /\ DOMAIN w = WindowFields /\ w.header \in StreamHistoryHeader /\ w.header.required = n
    /\ n = 0 => w.header.counts = <<>> /\ w.dirtyChunk = Absent
    /\ w.dirtyChunk # Absent => w.dirtyChunk \in StreamHistoryChunk /\ w.dirtyChunk.sequence \in Retained(w.header)
    /\ \A s \in Slots : keys.chunks[s] # Absent => s \in RetainedSlots(w.header) \cup w.deleted
    /\ ~w.headerDirty => w.header = keys.header \/ w.header = EmptyHeader

(* A window that is reset deletes every slot.                              *)
LEMMA ResetCovers ==
    ASSUME NEW keys, NEW n \in Nat
    PROVE  Opened(Reset(n)) /\ Covers(keys, Reset(n), n) /\ Reset(n).header.counts = <<>>
<1> DEFINE w == ResetRingWindow
           new == NewRingWindow(EmptyHeader)
           next == SetRequiredCount(w, n)
<1>0. Len(EmptyHeader.counts) <= MaxHistoryChunkSlots
  BY EmptyHeaderIs, RingConstants
<1>1. Opened(new) /\ new.header = EmptyHeader
  BY <1>0, EmptyHeaderIs, NewWindow, Zenon
<1> HIDE DEF new
<1>2. /\ DOMAIN w = WindowFields /\ w.header = EmptyHeader /\ w.deleted = Slots /\ w.headerDirty
      /\ w.chunks = new.chunks /\ w.dirtyChunk = new.dirtyChunk
  BY <1>1, Zenon DEF ResetRingWindow, new, Opened, WindowFields
<1> HIDE DEF w
<1>3. Opened(w)
  BY <1>1, <1>2, Zenon DEF Opened, LoadedChunks
<1>4. /\ Opened(next) /\ next.header.required = n /\ w.deleted \subseteq next.deleted
      /\ ~next.headerDirty => next.header = w.header
      /\ next.header.counts = <<>>
  BY <1>2, <1>3, EmptyHeaderIs, RequiredCountSet, Zenon
<1>5. Reset(n) = next
  BY Zenon DEF Reset, w
<1> HIDE DEF next
<1>6. Covers(keys, next, n)
  BY <1>2, <1>4, Zenon DEF Covers, Opened
<1> QED BY <1>4, <1>5, <1>6, Zenon

StoredChunk(keys, s) ==
    keys.chunks[s] \notin {Absent, Corrupt} =>
        keys.chunks[s] \in StreamHistoryChunk /\ HistoryChunkSlot(keys.chunks[s].sequence) = s

KeysInv(keys, indexed) ==
    /\ indexed \/ keys = NoKeys
    /\ keys.header \in StreamHistoryHeader \cup {Absent, Corrupt}
    /\ \A s \in Slots : StoredChunk(keys, s)
    /\ \A s \in Slots : keys.chunks[s] # Absent /\ keys.header # Corrupt =>
            keys.header # Absent /\ s \in RetainedSlots(keys.header)

(* A header that decodes fits the ring.                                    *)
LEMMA DecodedHeader ==
    ASSUME NEW h \in StreamHistoryHeader, StreamHistoryHeaderFromProto(h)
    PROVE  Len(h.counts) <= MaxHistoryChunkSlots /\ (h.required = 0 => h.counts = <<>>)
<1>1. Len(h.counts) <= MaxHistoryChunkSlots
  BY Zenon DEF StreamHistoryHeaderFromProto
<1>2. h.counts = <<>> \/ SumOf(Tail(h.counts)) < h.required
  BY Zenon DEF StreamHistoryHeaderFromProto
<1>3. ASSUME h.counts # <<>> PROVE SumOf(Tail(h.counts)) \in Nat
  <2>1. h.counts \in Seq(Nat)
    BY HeaderTypes, Zenon
  <2>2. Tail(h.counts) \in Seq(Nat)
    BY <1>3, <2>1
  <2> QED BY <2>2, SumOfType, Zenon
<1>4. ASSUME h.counts # <<>> PROVE h.required # 0
  BY <1>2, <1>3, <1>4
<1> QED BY <1>1, <1>4, Zenon

(* The working copy that a round starts from.                              *)
LEMMA OpenedCovers ==
    ASSUME NEW keys, NEW indexed, KeysInv(keys, indexed), NEW layoutReset, NEW n \in Nat
    PROVE  Opened(OpenWindow(keys, layoutReset, n)) /\ Covers(keys, OpenWindow(keys, layoutReset, n), n)
<1> DEFINE w == OpenWindow(keys, layoutReset, n)
<1>1. CASE w = Reset(n)
  BY <1>1, ResetCovers, Zenon
<1>2. ASSUME NEW h \in StreamHistoryHeader, w = SetRequiredCount(NewRingWindow(h), n),
             Len(h.counts) <= MaxHistoryChunkSlots, h.required = 0 => h.counts = <<>>,
             h = keys.header \/ h = EmptyHeader,
             \A s \in Slots : keys.chunks[s] # Absent => s \in RetainedSlots(h)
      PROVE  Opened(w) /\ Covers(keys, w, n)
  <2> DEFINE new == NewRingWindow(h)
             next == SetRequiredCount(new, n)
  <2>1. Opened(new) /\ new.header = h
    BY <1>2, NewWindow, Zenon
  <2> HIDE DEF new
  <2>2. /\ Opened(next) /\ next.header.required = n
        /\ RetainedSlots(new.header) \cup new.deleted \subseteq RetainedSlots(next.header) \cup next.deleted
        /\ ~next.headerDirty => next.header = new.header
    BY <2>1, RequiredCountSet, Zenon
  <2> HIDE DEF next
  <2>3. \A s \in Slots : keys.chunks[s] # Absent => s \in RetainedSlots(next.header) \cup next.deleted
    BY <1>2, <2>1, <2>2, Zenon
  <2>4. w = next
    BY <1>2, Zenon DEF next, new
  <2> HIDE DEF w
  <2>5. Covers(keys, next, n)
    BY <1>2, <2>1, <2>2, <2>3, Zenon DEF Covers, Opened
  <2> QED BY <2>2, <2>4, <2>5, Zenon
<1>3. CASE w = SetRequiredCount(NewRingWindow(EmptyHeader), n) /\ keys.header = Absent
  <2>1. Len(EmptyHeader.counts) <= MaxHistoryChunkSlots
    BY EmptyHeaderIs, RingConstants
  <2>2. \A s \in Slots : keys.chunks[s] = Absent
    BY <1>3, HistoryAssumption, Zenon DEF KeysInv
  <2> QED BY <1>2, <1>3, <2>1, <2>2, EmptyHeaderIs, Zenon
<1>4. CASE /\ w = SetRequiredCount(NewRingWindow(keys.header), n)
           /\ keys.header \notin {Absent, Corrupt} /\ StreamHistoryHeaderFromProto(keys.header)
  <2>1. keys.header \in StreamHistoryHeader
    BY <1>4, Zenon DEF KeysInv
  <2>2. \A s \in Slots : keys.chunks[s] # Absent => s \in RetainedSlots(keys.header)
    BY <1>4, Zenon DEF KeysInv
  <2>3. Len(keys.header.counts) <= MaxHistoryChunkSlots /\ (keys.header.required = 0 => keys.header.counts = <<>>)
    BY <1>4, <2>1, DecodedHeader, Zenon
  <2>4. Opened(w) /\ Covers(keys, w, n)
    <3> HIDE DEF w
    <3> QED BY <1>2, <1>4, <2>1, <2>2, <2>3, Zenon
  <2> QED BY <2>4, Zenon
<1>5. \/ w = Reset(n)
      \/ w = SetRequiredCount(NewRingWindow(EmptyHeader), n) /\ keys.header = Absent
      \/ /\ w = SetRequiredCount(NewRingWindow(keys.header), n)
         /\ keys.header \notin {Absent, Corrupt} /\ StreamHistoryHeaderFromProto(keys.header)
  BY Zenon DEF OpenWindow
<1> QED BY <1>1, <1>3, <1>4, <1>5, Zenon

(* Reading chunks changes none of what will be written, or resets.         *)
LEMMA ProvidedCovers ==
    ASSUME NEW keys, NEW w, NEW n \in Nat, Covers(keys, w, n), NEW sequences
    PROVE  Covers(keys, ProvideChunks(keys, w, sequences, n), n)
<1> DEFINE next == ProvideChunks(keys, w, sequences, n)
           missing == sequences \ DOMAIN w.chunks
           loaded == Over([s \in missing |-> keys.chunks[HistoryChunkSlot(s)]], w.chunks)
<1>1. next = [w EXCEPT !.chunks = loaded] \/ next = Reset(n)
  BY Zenon DEF ProvideChunks
<1> HIDE DEF next, loaded
<1>2. CASE next = [w EXCEPT !.chunks = loaded]
  <2>1. /\ DOMAIN next = WindowFields /\ next.header = w.header /\ next.deleted = w.deleted
        /\ next.headerDirty = w.headerDirty /\ next.dirtyChunk = w.dirtyChunk
    BY <1>2, Zenon DEF Covers, WindowFields
  <2>2. Covers(keys, next, n)
    BY <2>1, Zenon DEF Covers
  <2> QED BY <2>2, Zenon DEF next
<1>3. CASE next = Reset(n)
  BY <1>3, ResetCovers, Zenon DEF next
<1> QED BY <1>1, <1>2, <1>3, Zenon

(* A chunk that is read is the one that was asked for.                     *)
LEMMA ProvidedOpened ==
    ASSUME NEW keys, NEW indexed, KeysInv(keys, indexed), NEW w, Opened(w), NEW n \in Nat,
           NEW sequences \in SUBSET Retained(w.header)
    PROVE  LET next == ProvideChunks(keys, w, sequences, n)
           IN /\ Opened(next)
              /\ next = Reset(n) \/ (next.header = w.header /\ sequences \subseteq DOMAIN next.chunks)
<1> DEFINE next == ProvideChunks(keys, w, sequences, n)
           missing == sequences \ DOMAIN w.chunks
           chunk(s) == keys.chunks[HistoryChunkSlot(s)]
           more == [s \in missing |-> chunk(s)]
           loaded == Over(more, w.chunks)
<1>1. CASE ~ \A s \in missing : Readable(w, chunk(s))
  <2>1. next = Reset(n)
    BY <1>1, Zenon DEF ProvideChunks
  <2>2. Opened(Reset(n))
    BY ResetCovers, Zenon
  <2> HIDE DEF next
  <2> QED BY <2>1, <2>2, Zenon DEF next
<1>2. CASE \A s \in missing : Readable(w, chunk(s))
  <2>1. next = [w EXCEPT !.chunks = loaded]
    BY <1>2, Zenon DEF ProvideChunks
  <2>2. ASSUME NEW s \in missing PROVE chunk(s) \in StreamHistoryChunk /\ chunk(s).sequence = s
    <3> DEFINE c == chunk(s)
               h == w.header
    <3>1. s \in Retained(h) /\ h \in StreamHistoryHeader
      BY Zenon DEF Opened
    <3>2. s \in Nat /\ h.first <= s /\ s < h.first + Len(h.counts)
      BY <3>1, RetainedRange, Zenon
    <3>3. HistoryChunkSlot(s) \in Slots
      BY <3>2, SlotType, Zenon
    <3>4. c \notin {Absent, Corrupt} /\ Matches(h, c)
      BY <1>2, Zenon DEF Readable
    <3>5. c \in StreamHistoryChunk /\ HistoryChunkSlot(c.sequence) = HistoryChunkSlot(s)
      BY <3>3, <3>4, Zenon DEF KeysInv, StoredChunk
    <3> HIDE DEF c
    <3>6. c.sequence \in Nat /\ c.sequence - h.first + 1 \in DOMAIN h.counts
      BY <3>4, <3>5, Zenon DEF Matches, StreamHistoryChunk
    <3>7. h.first \in Nat /\ Len(h.counts) \in Nat /\ DOMAIN h.counts = 1 .. Len(h.counts)
      BY <3>1, HeaderTypes, Zenon
    <3>8. h.first <= c.sequence /\ c.sequence < h.first + Len(h.counts)
      BY <3>6, <3>7
    <3>9. Len(h.counts) <= MaxHistoryChunkSlots
      BY Zenon DEF Opened
    <3>10. c.sequence = s
      <4>1. CASE c.sequence <= s
        <5>1. s - c.sequence < MaxHistoryChunkSlots
          BY <3>2, <3>6, <3>7, <3>8, <3>9, RingConstants, WithinRing, Zenon
        <5> QED BY <3>2, <3>5, <3>6, <4>1, <5>1, SlotsDiffer, Zenon
      <4>2. CASE s <= c.sequence
        <5>1. c.sequence - s < MaxHistoryChunkSlots
          BY <3>2, <3>6, <3>7, <3>8, <3>9, RingConstants, WithinRing, Zenon
        <5> QED BY <3>2, <3>5, <3>6, <4>2, <5>1, SlotsDiffer, Zenon
      <4> QED BY <3>2, <3>6, <4>1, <4>2
    <3> QED BY <3>5, <3>10, Zenon DEF c
  <2>3. /\ DOMAIN loaded = missing \cup DOMAIN w.chunks
        /\ \A s \in DOMAIN loaded : loaded[s] \in StreamHistoryChunk /\ loaded[s].sequence = s
    <3>1. DOMAIN loaded = missing \cup DOMAIN w.chunks
      BY Zenon DEF Over
    <3>2. ASSUME NEW s \in DOMAIN loaded PROVE loaded[s] \in StreamHistoryChunk /\ loaded[s].sequence = s
      <4>1. CASE s \in missing
        <5>1. loaded[s] = chunk(s)
          BY <4>1, Zenon DEF Over
        <5> HIDE DEF loaded, chunk
        <5> QED BY <2>2, <4>1, <5>1, Zenon
      <4>2. CASE s \notin missing /\ s \in DOMAIN w.chunks
        <5>1. loaded[s] = w.chunks[s]
          BY <4>2, Zenon DEF Over
        <5> HIDE DEF loaded
        <5> QED BY <4>2, <5>1, Zenon DEF Opened, LoadedChunks
      <4> QED BY <3>1, <4>1, <4>2, Zenon
    <3> QED BY <3>1, <3>2, Zenon
  <2> HIDE DEF loaded, next
  <2>4. /\ DOMAIN next = WindowFields /\ next.header = w.header /\ next.chunks = loaded
        /\ next.dirtyChunk = w.dirtyChunk
    BY <2>1, Zenon DEF Opened, WindowFields
  <2>5. Opened(next) /\ sequences \subseteq DOMAIN next.chunks
    BY <2>3, <2>4, Zenon DEF Opened, LoadedChunks
  <2> QED BY <2>4, <2>5, Zenon DEF next
<1> QED BY <1>1, <1>2, Zenon

(* The header after an append, before eviction.                            *)
LEMMA GrownHeader ==
    ASSUME NEW h \in StreamHistoryHeader, NEW t \in Int, HasRoom(h) => h.counts # <<>>
    PROVE  LET counts == IF HasRoom(h) THEN [h.counts EXCEPT ![Len(h.counts)] = @ + 1]
                         ELSE Append(h.counts, 1)
               starts == IF HasRoom(h) THEN h.starts ELSE Append(h.starts, t)
               next == [h EXCEPT !.last = t, !.counts = counts, !.starts = starts]
           IN /\ next \in StreamHistoryHeader /\ next.required = h.required /\ next.first = h.first
              /\ next.counts # <<>>
              /\ Len(next.counts) = IF HasRoom(h) THEN Len(h.counts) ELSE Len(h.counts) + 1
<1> DEFINE counts == IF HasRoom(h) THEN [h.counts EXCEPT ![Len(h.counts)] = @ + 1]
                     ELSE Append(h.counts, 1)
           starts == IF HasRoom(h) THEN h.starts ELSE Append(h.starts, t)
           next == [h EXCEPT !.last = t, !.counts = counts, !.starts = starts]
<1>1. h.counts \in Seq(Nat) /\ h.starts \in Seq(Int) /\ Len(h.counts) \in Nat
  BY HeaderTypes, Zenon
<1>2. /\ counts \in Seq(Nat) /\ counts # <<>>
      /\ Len(counts) = IF HasRoom(h) THEN Len(h.counts) ELSE Len(h.counts) + 1
  <2>1. CASE HasRoom(h)
    <3>1. counts = [h.counts EXCEPT ![Len(h.counts)] = @ + 1] /\ h.counts # <<>>
      BY <2>1, Zenon
    <3>2. counts \in Seq(Nat) /\ Len(counts) = Len(h.counts) /\ Len(h.counts) > 0
      BY <1>1, <3>1
    <3> HIDE DEF counts
    <3> QED BY <2>1, <3>2
  <2>2. CASE ~HasRoom(h)
    <3>1. counts = Append(h.counts, 1)
      BY <2>2, Zenon
    <3>2. counts \in Seq(Nat) /\ Len(counts) = Len(h.counts) + 1 /\ Len(counts) > 0
      BY <1>1, <3>1
    <3> HIDE DEF counts
    <3> QED BY <2>2, <3>2
  <2> QED BY <2>1, <2>2, Zenon
<1>3. starts \in Seq(Int)
  <2>1. Append(h.starts, t) \in Seq(Int)
    BY <1>1
  <2> QED BY <1>1, <2>1, Zenon
<1> HIDE DEF counts, starts
<1>4. next \in StreamHistoryHeader
  BY <1>2, <1>3, Zenon DEF StreamHistoryHeader
<1>5. next.required = h.required /\ next.first = h.first /\ next.counts = counts
  BY Zenon DEF StreamHistoryHeader
<1> HIDE DEF next
<1> QED BY <1>2, <1>4, <1>5, Zenon DEF next, counts, starts

LEMMA NewChunk ==
    ASSUME NEW q \in Nat
    PROVE  LET c == [sequence |-> q, records |-> <<>>] IN c \in StreamHistoryChunk /\ c.sequence = q
  BY DEF StreamHistoryChunk

(* The record that is appended is in the newest chunk, which stays.        *)
LEMMA AppendedCovers ==
    ASSUME NEW keys, NEW w, NEW n \in Nat, n > 0, Opened(w), Covers(keys, w, n), NEW t \in Int,
           HasRoom(w.header) => Newest(w.header) \in DOMAIN w.chunks
    PROVE  Covers(keys, AppendRecord(w, t), n)
<1> DEFINE h == w.header
           tail == IF HasRoom(h) THEN w.chunks[Newest(h)]
                   ELSE [sequence |-> Newest(h) + 1, records |-> <<>>]
           grown == [tail EXCEPT !.records = Append(@, t)]
           counts == IF HasRoom(h) THEN [h.counts EXCEPT ![Len(h.counts)] = @ + 1]
                     ELSE Append(h.counts, 1)
           starts == IF HasRoom(h) THEN h.starts ELSE Append(h.starts, t)
           header == [h EXCEPT !.last = t, !.counts = counts, !.starts = starts]
           chunks == Over([s \in {tail.sequence} |-> grown], w.chunks)
           e == [w EXCEPT !.header = header, !.chunks = chunks, !.headerDirty = TRUE,
                          !.dirtyChunk = grown, !.stored = TRUE]
           next == Evict(e)
<1>1. AppendRecord(w, t) = next
  BY Zenon DEF AppendRecord
<1>2. h \in StreamHistoryHeader /\ h.required = n
  BY Zenon DEF Covers
<1>3. HasRoom(h) => h.counts # <<>>
  BY Zenon DEF HasRoom
<1>4. /\ header \in StreamHistoryHeader /\ header.required = h.required /\ header.first = h.first
      /\ header.counts # <<>>
      /\ Len(header.counts) = IF HasRoom(h) THEN Len(h.counts) ELSE Len(h.counts) + 1
  BY <1>2, <1>3, GrownHeader, Zenon
<1> HIDE DEF header, counts, starts
<1>5. h.first \in Nat /\ Len(h.counts) \in Nat /\ Newest(h) = h.first + Len(h.counts) - 1
  BY <1>2, HeaderTypes, Zenon DEF Newest
<1>6. tail \in StreamHistoryChunk /\ tail.sequence = h.first + Len(header.counts) - 1
  <2>1. CASE HasRoom(h)
    <3>1. tail = w.chunks[Newest(h)] /\ Newest(h) \in DOMAIN w.chunks
      BY <2>1, Zenon
    <3>2. tail \in StreamHistoryChunk /\ tail.sequence = Newest(h)
      BY <3>1, Zenon DEF Opened, LoadedChunks
    <3> HIDE DEF tail
    <3> QED BY <1>4, <1>5, <2>1, <3>2, Zenon
  <2>2. CASE ~HasRoom(h)
    <3>1. tail = [sequence |-> Newest(h) + 1, records |-> <<>>]
      BY <2>2, Zenon
    <3>2. Newest(h) + 1 \in Nat /\ Newest(h) + 1 = h.first + (Len(h.counts) + 1) - 1
      BY <1>5
    <3>3. Len(header.counts) = Len(h.counts) + 1
      BY <1>4, <2>2, Zenon
    <3>5. tail \in StreamHistoryChunk /\ tail.sequence = Newest(h) + 1
      <4> HIDE DEF tail
      <4> QED BY <3>1, <3>2, NewChunk, Zenon
    <3> HIDE DEF tail
    <3> QED BY <3>2, <3>3, <3>5, Zenon
  <2> QED BY <2>1, <2>2, Zenon
<1> HIDE DEF tail
<1>7. grown \in StreamHistoryChunk /\ grown.sequence = tail.sequence
  <2>1. tail.records \in Seq(Int)
    BY <1>6, Zenon DEF StreamHistoryChunk
  <2>2. Append(tail.records, t) \in Seq(Int)
    BY <2>1
  <2>3. grown \in StreamHistoryChunk
    BY <1>6, <2>2, Zenon DEF StreamHistoryChunk
  <2>4. grown.sequence = tail.sequence
    BY <1>6, Zenon DEF StreamHistoryChunk
  <2> QED BY <2>3, <2>4, Zenon
<1> HIDE DEF grown
<1>8. \A s \in DOMAIN chunks : chunks[s] \in StreamHistoryChunk /\ chunks[s].sequence = s
  <2>1. ASSUME NEW s \in DOMAIN chunks PROVE chunks[s] \in StreamHistoryChunk /\ chunks[s].sequence = s
    <3>1. CASE s = tail.sequence
      <4>1. chunks[s] = grown
        BY <3>1, Zenon DEF Over
      <4> HIDE DEF chunks
      <4> QED BY <1>7, <3>1, <4>1, Zenon
    <3>2. CASE s # tail.sequence
      <4>1. s \in DOMAIN w.chunks /\ chunks[s] = w.chunks[s]
        BY <2>1, <3>2, Zenon DEF Over
      <4> HIDE DEF chunks
      <4> QED BY <4>1, Zenon DEF Opened, LoadedChunks
    <3> QED BY <3>1, <3>2, Zenon
  <2> QED BY <2>1, Zenon
<1> HIDE DEF chunks
<1>9. /\ DOMAIN e = WindowFields /\ e.header = header /\ e.chunks = chunks /\ e.headerDirty
      /\ e.dirtyChunk = grown /\ e.deleted = w.deleted
  BY Zenon DEF Opened, WindowFields
<1> HIDE DEF e
<1>10. LoadedChunks(e)
  BY <1>8, <1>9, Zenon DEF LoadedChunks
<1>11. /\ DOMAIN next = WindowFields /\ next.header \in StreamHistoryHeader
       /\ next.headerDirty /\ next.dirtyChunk = e.dirtyChunk
       /\ next.header.required = e.header.required
       /\ RetainedSlots(e.header) \cup e.deleted \subseteq RetainedSlots(next.header) \cup next.deleted
       /\ (e.header.required > 0 /\ e.header.counts # <<>>)
            => e.header.first + Len(e.header.counts) - 1 \in Retained(next.header)
  BY <1>4, <1>9, <1>10, Evicted, Zenon
<1> HIDE DEF next
<1>12. RetainedSlots(h) \subseteq RetainedSlots(header)
  <2>1. Len(header.counts) \in Nat /\ Len(h.counts) <= Len(header.counts)
    BY <1>4, <1>5
  <2>2. Retained(h) \subseteq Retained(header)
    BY <1>2, <1>4, <1>5, <2>1, RetainedRange
  <2>3. /\ RetainedSlots(h) = {HistoryChunkSlot(s) : s \in Retained(h)}
        /\ RetainedSlots(header) = {HistoryChunkSlot(s) : s \in Retained(header)}
    BY <1>2, <1>4, RetainedRange, Zenon
  <2> QED BY <2>2, <2>3, Zenon
<1>13. \A s \in Slots : keys.chunks[s] # Absent => s \in RetainedSlots(next.header) \cup next.deleted
  BY <1>9, <1>11, <1>12, Zenon DEF Covers
<1>14. grown.sequence \in Retained(next.header)
  BY <1>2, <1>4, <1>6, <1>7, <1>9, <1>11, Zenon
<1>15. n # 0
  OBVIOUS
<1>16. Covers(keys, next, n)
  BY <1>2, <1>4, <1>7, <1>9, <1>11, <1>13, <1>14, <1>15, Zenon DEF Covers
<1> QED BY <1>1, <1>16, Zenon

(* An append loads the chunk it goes to first.                             *)
LEMMA StoreAppendCovers ==
    ASSUME NEW keys, NEW indexed, KeysInv(keys, indexed), NEW w, NEW n \in Nat,
           Opened(w), Covers(keys, w, n), NEW value, value = Absent \/ value.t \in Int
    PROVE  Covers(keys, StoreAppend(keys, w, value, n), n)
<1> DEFINE h == w.header
           loaded == ProvideChunks(keys, w, AppendPlan(h), n)
<1>1. CASE value = Absent \/ n = 0
  <2>1. StoreAppend(keys, w, value, n) = w
    BY <1>1, Zenon DEF StoreAppend
  <2> QED BY <2>1, Zenon
<1>2. CASE ~(value = Absent \/ n = 0)
  <2>1. /\ h \in StreamHistoryHeader /\ h.required = n
        /\ StoreAppend(keys, w, value, n) = IF value.large THEN loaded ELSE AppendIfNewer(loaded, value.t)
    BY <1>2, Zenon DEF StoreAppend, Covers
  <2>2. n > 0 /\ value.t \in Int
    BY <1>2
  <2>3. AppendPlan(h) \in SUBSET Retained(h)
    <3>1. CASE HasRoom(h)
      <4>1. h.first \in Nat /\ Len(h.counts) \in Nat /\ h.counts \in Seq(Nat) /\ h.counts # <<>>
        BY <2>1, <3>1, HeaderTypes, Zenon DEF HasRoom
      <4>2. Len(h.counts) > 0
        BY <4>1
      <4>3. Newest(h) \in Nat /\ h.first <= Newest(h) /\ Newest(h) < h.first + Len(h.counts)
        BY <4>1, <4>2, SMTT(30) DEF Newest
      <4>4. Newest(h) \in Retained(h)
        BY <2>1, <4>3, RetainedRange, Zenon
      <4> QED BY <4>4, Zenon DEF AppendPlan
    <3>2. CASE ~HasRoom(h)
      BY <3>2, Zenon DEF AppendPlan
    <3> QED BY <3>1, <3>2, Zenon
  <2>4. Covers(keys, loaded, n)
    BY ProvidedCovers, Zenon
  <2>5. Opened(loaded) /\ (loaded = Reset(n) \/ (loaded.header = h /\ AppendPlan(h) \subseteq DOMAIN loaded.chunks))
    BY <2>3, ProvidedOpened, Zenon
  <2> HIDE DEF loaded
  <2>6. HasRoom(loaded.header) => Newest(loaded.header) \in DOMAIN loaded.chunks
    <3>1. CASE loaded = Reset(n)
      <4>1. Reset(n).header.counts = <<>>
        BY <2>2, ResetCovers, Zenon
      <4> QED BY <3>1, <4>1, Zenon DEF HasRoom
    <3>2. CASE loaded.header = h /\ AppendPlan(h) \subseteq DOMAIN loaded.chunks
      <4>1. SUFFICES ASSUME HasRoom(h) PROVE Newest(h) \in DOMAIN loaded.chunks
        BY <3>2, Zenon
      <4>2. AppendPlan(h) = {Newest(h)}
        BY <2>1, <2>2, <4>1, Zenon DEF AppendPlan
      <4> QED BY <3>2, <4>2, Zenon
    <3> QED BY <2>5, <3>1, <3>2, Zenon
  <2>7. Covers(keys, AppendRecord(loaded, value.t), n)
    BY <2>2, <2>4, <2>5, <2>6, AppendedCovers, Zenon
  <2> QED BY <2>1, <2>4, <2>7, Zenon DEF AppendIfNewer
<1> QED BY <1>1, <1>2, Zenon

(* A read leaves the working copy as it is, loads chunks, or resets.       *)
LEMMA SeriesCovers ==
    ASSUME NEW keys, NEW w, NEW n \in Nat, Covers(keys, w, n), NEW count
    PROVE  Covers(keys, Series(keys, w, count, n).window, n)
<1> DEFINE loaded == ProvideChunks(keys, w, ReadPlan(w.header, count), n)
           out == Series(keys, w, count, n)
<1>1. Covers(keys, loaded, n) /\ Covers(keys, Reset(n), n)
  BY ProvidedCovers, ResetCovers, Zenon
<1>2. CASE count = 0 \/ Insufficient(w.header, count)
  <2>1. out = [window |-> w, read |-> Absent]
    BY <1>2, Zenon DEF Series
  <2>2. out.window = w
    BY <2>1
  <2> QED BY <2>2, Zenon
<1>3. CASE ~(count = 0 \/ Insufficient(w.header, count))
  <2>1. out = ReadNewest(loaded, count, n)
    BY <1>3, Zenon DEF Series
  <2> HIDE DEF loaded, out
  <2>2. out.window = loaded \/ out.window = Reset(n)
    <3> DEFINE records == RecordsOf(loaded, ReadPlan(loaded.header, count))
    <3>1. out = IF Insufficient(loaded.header, count) THEN [window |-> loaded, read |-> Absent]
                ELSE IF ~Ascending(records) THEN [window |-> Reset(n), read |-> Absent]
                ELSE [window |-> loaded, read |-> LastOf(records, count)]
      BY <2>1, Zenon DEF ReadNewest
    <3> HIDE DEF records
    <3> QED BY <3>1, Zenon
  <2> QED BY <1>1, <2>2, Zenon DEF out
<1> QED BY <1>2, <1>3, Zenon

(* What is flushed keeps the stored keys within reach.                     *)
LEMMA Written ==
    ASSUME NEW keys, NEW indexed, KeysInv(keys, indexed), NEW w, NEW n \in Nat, n > 0, Covers(keys, w, n)
    PROVE  KeysInv(WriteWindow(keys, w), TRUE)
<1> DEFINE out == WriteWindow(keys, w)
           d == w.dirtyChunk
<1>1. /\ out.header = IF w.headerDirty THEN w.header ELSE keys.header
      /\ \A s \in Slots : out.chunks[s] =
            IF d # Absent /\ HistoryChunkSlot(d.sequence) = s THEN d
            ELSE IF s \in DeletedSlots(w) THEN Absent ELSE keys.chunks[s]
  BY Zenon DEF WriteWindow
<1> HIDE DEF out
<1> n # 0
  OBVIOUS
<1>2. w.header \in StreamHistoryHeader /\ w.header # Absent /\ n # 0
  BY HistoryAssumption, Zenon DEF Covers, StreamHistoryHeader
<1>3. out.header = w.header
  <2>1. w.header # EmptyHeader
    BY <1>2, EmptyHeaderIs, Zenon DEF Covers
  <2> QED BY <1>1, <2>1, Zenon DEF Covers
<1>4. d # Absent => /\ d \in StreamHistoryChunk /\ HistoryChunkSlot(d.sequence) \in RetainedSlots(w.header)
  <2>1. d # Absent => d \in StreamHistoryChunk /\ d.sequence \in Retained(w.header)
    BY Zenon DEF Covers
  <2>2. RetainedSlots(w.header) = {HistoryChunkSlot(s) : s \in Retained(w.header)}
    BY <1>2, RetainedRange, Zenon
  <2> HIDE DEF d
  <2> QED BY <2>1, <2>2, Zenon
<1>5. ASSUME NEW s \in Slots
      PROVE  /\ StoredChunk(out, s)
             /\ out.chunks[s] # Absent => s \in RetainedSlots(w.header)
  <2>1. CASE d # Absent /\ HistoryChunkSlot(d.sequence) = s
    <3>1. out.chunks[s] = d
      BY <1>1, <2>1, Zenon
    <3> QED BY <1>4, <2>1, <3>1, Zenon DEF StoredChunk
  <2>2. CASE ~(d # Absent /\ HistoryChunkSlot(d.sequence) = s) /\ s \in DeletedSlots(w)
    <3>1. out.chunks[s] = Absent
      BY <1>1, <2>2, Zenon
    <3> QED BY <3>1, Zenon DEF StoredChunk
  <2>3. CASE ~(d # Absent /\ HistoryChunkSlot(d.sequence) = s) /\ s \notin DeletedSlots(w)
    <3>1. out.chunks[s] = keys.chunks[s]
      BY <1>1, <2>3, Zenon
    <3>2. s \notin w.deleted
      BY <2>3, Zenon DEF DeletedSlots
    <3>3. keys.chunks[s] # Absent => s \in RetainedSlots(w.header)
      BY <3>2, Zenon DEF Covers
    <3>4. StoredChunk(keys, s)
      BY Zenon DEF KeysInv
    <3> QED BY <3>1, <3>3, <3>4, Zenon DEF StoredChunk
  <2> QED BY <2>1, <2>2, <2>3, Zenon
<1>6. KeysInv(out, TRUE)
  BY <1>2, <1>3, <1>5, Zenon DEF KeysInv
<1> QED BY <1>6, Zenon DEF out

(* A pair without a depth leaves nothing behind.                           *)
LEMMA Deleted ==
    ASSUME NEW keys, NEW w, Covers(keys, w, 0)
    PROVE  DeleteWindow(keys, w) = NoKeys
<1>1. w.header.counts = <<>> /\ w.dirtyChunk = Absent
  BY Zenon DEF Covers
<1>2. RetainedSlots(w.header) = {}
  BY <1>1 DEF RetainedSlots
<1>3. DeletedSlots(w) = w.deleted
  BY <1>1, Zenon DEF DeletedSlots
<1>4. \A s \in Slots : (IF s \in DeletedSlots(w) THEN Absent ELSE keys.chunks[s]) = Absent
  BY <1>2, <1>3, Zenon DEF Covers
<1>5. [s \in Slots |-> IF s \in DeletedSlots(w) THEN Absent ELSE keys.chunks[s]] = [s \in Slots |-> Absent]
  BY <1>4, Zenon
<1> QED BY <1>5, Zenon DEF DeleteWindow, NoKeys

LEMMA NoKeysInv == ASSUME NEW indexed PROVE KeysInv(NoKeys, indexed)
<1>1. NoKeys.header = Absent /\ \A s \in Slots : NoKeys.chunks[s] = Absent
  BY Zenon DEF NoKeys
<1> QED BY <1>1, Zenon DEF KeysInv, StoredChunk

(* A pair's passage through a round leaves no key out of reach.            *)
LEMMA RoundKeepsKeys ==
    ASSUME NEW keys, NEW indexed \in BOOLEAN, KeysInv(keys, indexed), NEW layoutReset, NEW n \in Nat,
           NEW value, value = Absent \/ value.t \in Int, NEW count
    PROVE  LET out == PairRound(keys, indexed, layoutReset, n, value, count)
           IN KeysInv(out.keys, out.kept)
<1> DEFINE out == PairRound(keys, indexed, layoutReset, n, value, count)
           opened == OpenWindow(keys, layoutReset /\ indexed, n)
           appended == StoreAppend(keys, opened, value, n)
           done == Series(keys, appended, count, n)
           w == done.window
<1>1. Opened(opened) /\ Covers(keys, opened, n)
  BY OpenedCovers, Zenon
<1> HIDE DEF opened
<1>2. Covers(keys, appended, n)
  BY <1>1, StoreAppendCovers, Zenon
<1> HIDE DEF appended
<1>3. Covers(keys, w, n)
  BY <1>2, SeriesCovers, Zenon
<1>4. /\ out.keys = FlushPair(keys, indexed, w)
      /\ out.kept = (w.header.required > 0 /\ (indexed \/ ~WriteSetEmpty(w)))
  <2> HIDE DEF done
  <2>1. out = [keys |-> FlushPair(keys, indexed, w),
               kept |-> w.header.required > 0 /\ (indexed \/ ~WriteSetEmpty(w)),
               restarted |-> Slots \subseteq w.deleted, read |-> done.read]
    BY Zenon DEF PairRound, opened, appended, done
  <2> HIDE DEF w, out
  <2> QED BY <2>1, Zenon
<1> HIDE DEF w, out
<1>5. w.header.required = n
  BY <1>3, Zenon DEF Covers
<1>6. CASE n > 0 /\ (indexed \/ ~WriteSetEmpty(w))
  <2>1. out.kept = TRUE
    BY <1>4, <1>5, <1>6, Zenon
  <2>2. out.keys = WriteWindow(keys, w)
    BY <1>4, <1>5, <1>6, Zenon DEF FlushPair
  <2>3. KeysInv(WriteWindow(keys, w), TRUE)
    BY <1>3, <1>6, Written, Zenon
  <2> QED BY <2>1, <2>2, <2>3, Zenon DEF out
<1>7. CASE n > 0 /\ ~indexed /\ WriteSetEmpty(w)
  (* A header that is not written would be the stored one, or empty.       *)
  <2>1. keys = NoKeys
    BY <1>7, Zenon DEF KeysInv
  <2>2. ~w.headerDirty /\ w.header \in StreamHistoryHeader
    BY <1>3, <1>7, Zenon DEF WriteSetEmpty, Covers
  <2>3. keys.header = Absent
    BY <2>1, Zenon DEF NoKeys
  <2>4. w.header # Absent
    BY <2>2, HistoryAssumption, Zenon DEF StreamHistoryHeader
  <2>5. w.header = EmptyHeader
    BY <1>3, <2>2, <2>3, <2>4, Zenon DEF Covers
  <2>6. w.header.required = 0
    BY <2>5, EmptyHeaderIs, Zenon
  <2> QED BY <1>5, <1>7, <2>6
<1>8. CASE ~(n > 0)
  <2>1. n = 0
    BY <1>8
  <2>2. out.kept = FALSE
    BY <1>4, <1>5, <1>8, Zenon
  <2>3. out.keys = NoKeys
    <3>1. CASE indexed
      <4>1. out.keys = DeleteWindow(keys, w)
        BY <1>4, <1>5, <1>8, <3>1, Zenon DEF FlushPair
      <4> QED BY <1>3, <2>1, <4>1, Deleted, Zenon
    <3>2. CASE ~indexed
      <4>1. out.keys = keys
        BY <1>4, <1>5, <1>8, <3>2, Zenon DEF FlushPair
      <4> QED BY <3>2, <4>1, Zenon DEF KeysInv
    <3> QED BY <3>1, <3>2, Zenon
  <2> QED BY <2>3, NoKeysInv, Zenon DEF out
<1> QED BY <1>6, <1>7, <1>8, Zenon

HistorySpec == HistoryInit /\ [][HistoryNext]_history

LEMMA LargerOfTwo == ASSUME NEW a \in Int, NEW b \in Int PROVE Maximum({a, b}) \in Int
<1>1. \E x \in {a, b} : \A y \in {a, b} : y <= x
  OBVIOUS
<1>2. Maximum({a, b}) \in {a, b}
  BY <1>1, Zenon DEF Maximum
<1> QED BY <1>2, Zenon

(* Carried and agreed values have a time.                                  *)
LEMMA CarryType ==
    ASSUME NEW carry \in Int, NEW now \in Int, NEW result \in PairResults(now)
    PROVE  /\ NextCarry(carry, result, now) \in Int
           /\ \/ AgreedRecord(carry, result, now) = Absent
              \/ AgreedRecord(carry, result, now).t \in Int
<1> DEFINE r == AgreedRecord(carry, result, now)
           c == NextCarry(carry, result, now)
<1>1. PrevCarry(carry, now) \in Int
  BY DEF PrevCarry
<1>2. result.kind = "timestamped" => result.t \in Int
  <2>1. MaxTimestampedFutureSkew \in Nat
    BY HistoryAssumption, Zenon
  <2>2. \/ result \in {[kind |-> "none"], [kind |-> "plain"], [kind |-> "large"]}
        \/ \E t \in {now + MaxTimestampedFutureSkew, now + MaxTimestampedFutureSkew + 1} :
              result = [kind |-> "timestamped", t |-> t]
    BY Zenon DEF PairResults
  <2>3. CASE result \in {[kind |-> "none"], [kind |-> "plain"], [kind |-> "large"]}
    BY <2>3
  <2>4. CASE \E t \in {now + MaxTimestampedFutureSkew, now + MaxTimestampedFutureSkew + 1} :
                result = [kind |-> "timestamped", t |-> t]
    BY <2>1, <2>4
  <2> QED BY <2>2, <2>3, <2>4, Zenon
<1>3. CASE Adopts(result, now)
  <2>1. result.t \in Int
    BY <1>2, <1>3, Zenon DEF Adopts
  <2>2. Maximum({PrevCarry(carry, now), result.t}) \in Int
    BY <1>1, <2>1, LargerOfTwo, Zenon
  <2>3. result.kind = "timestamped"
    BY <1>3, Zenon DEF Adopts
  <2>4. c = Maximum({PrevCarry(carry, now), result.t})
    BY <1>3, <2>3, Zenon DEF NextCarry
  <2> HIDE DEF c
  <2>5. r = [t |-> c, large |-> FALSE]
    BY <1>3, <2>3, Zenon DEF AgreedRecord, c
  <2> HIDE DEF r
  <2>6. r.t \in Int
    BY <2>2, <2>4, <2>5, Zenon
  <2> QED BY <2>2, <2>4, <2>6, Zenon DEF r, c
<1>4. CASE ~Adopts(result, now) /\ result.kind \in {"plain", "large"}
  <2>1. c = 0 /\ r = [t |-> now, large |-> result.kind = "large"]
    BY <1>4, Zenon DEF NextCarry, AgreedRecord
  <2> HIDE DEF c, r
  <2>2. r.t = now
    BY <2>1, Zenon
  <2> QED BY <2>1, <2>2 DEF c, r
<1>5. CASE ~Adopts(result, now) /\ result.kind \notin {"plain", "large"}
  <2>1. c = PrevCarry(carry, now) /\ r = Absent
    BY <1>5, Zenon DEF NextCarry, AgreedRecord
  <2> QED BY <1>1, <2>1, Zenon
<1> QED BY <1>3, <1>4, <1>5, Zenon

HistoryFields == {"stored", "pairs", "index", "version", "carry", "time", "log", "owed", "read",
                  "hurt", "faults"}

Shaped(keys) == DOMAIN keys = {"header", "chunks"} /\ DOMAIN keys.chunks = Slots

LEMMA NoKeysShaped == Shaped(NoKeys)
  BY Zenon DEF Shaped, NoKeys

LEMMA FlushedShaped ==
    ASSUME NEW keys, Shaped(keys), NEW indexed, NEW w
    PROVE  Shaped(FlushPair(keys, indexed, w))
<1>1. Shaped(WriteWindow(keys, w))
  BY Zenon DEF Shaped, WriteWindow
<1>2. Shaped(DeleteWindow(keys, w))
  BY Zenon DEF Shaped, DeleteWindow
<1> QED BY <1>1, <1>2, Zenon DEF FlushPair

(* A pair that is not in the index has no keys, and what is stored for one *)
(* that is can be reached from its header.                                 *)
HistoryInv ==
    /\ DOMAIN history = HistoryFields
    /\ history.index \subseteq history.pairs /\ DOMAIN history.stored = history.pairs
    /\ history.time \in Int
    /\ \A p \in history.pairs :
         /\ Shaped(history.stored[p]) /\ KeysInv(history.stored[p], p \in history.index)
         /\ history.carry[p] \in Int

(* The windows that a state starts with.                                   *)
LEMMA OtherLayoutKeys == Shaped(OtherLayout) /\ KeysInv(OtherLayout, TRUE)
<1> DEFINE h == [required |-> 1, first |-> 0, counts |-> <<1>>, starts |-> <<0>>, last |-> 0]
           c == [sequence |-> 0, records |-> <<0>>]
<1>1. h \in StreamHistoryHeader /\ c \in StreamHistoryChunk
  BY DEF StreamHistoryHeader, StreamHistoryChunk
<1>2. 0 \in Slots /\ HistoryChunkSlot(0) = 0
  <2>1. 0 \in Slots
    BY RingConstants DEF Slots
  <2> QED BY <2>1, SmallSlot, Zenon
<1>3. 0 \in RetainedSlots(h) /\ c.sequence = 0
  <2>1. 1 \in DOMAIN h.counts /\ h.first + 1 - 1 = 0
    OBVIOUS
  <2> QED BY <1>2, <2>1, Zenon DEF RetainedSlots
<1> HIDE DEF h, c
<1>4. /\ OtherLayout.header = h /\ DOMAIN OtherLayout.chunks = Slots
      /\ DOMAIN OtherLayout = {"header", "chunks"}
      /\ \A s \in Slots : OtherLayout.chunks[s] = IF s = 0 THEN c ELSE Absent
  BY Zenon DEF OtherLayout, h, c
<1>5. \A s \in Slots : StoredChunk(OtherLayout, s)
  BY <1>1, <1>2, <1>3, <1>4, Zenon DEF StoredChunk
<1>6. \A s \in Slots : OtherLayout.chunks[s] # Absent => s \in RetainedSlots(h)
  BY <1>3, <1>4, Zenon
<1>7. h # Absent
  BY <1>1, HistoryAssumption, Zenon DEF StreamHistoryHeader
<1> QED BY <1>1, <1>4, <1>5, <1>6, <1>7, Zenon DEF KeysInv, Shaped

LEMMA WarmKeys == Shaped(WarmWindow) /\ KeysInv(WarmWindow, TRUE)
<1> DEFINE full == MaxHistoryChunkRecords
           newest == MaxHistoryChunkSlots - 1
           h == [required |-> full, first |-> newest, counts |-> <<full>>, starts |-> <<1>>, last |-> full]
           c == [sequence |-> newest, records |-> [i \in 1 .. full |-> i]]
<1>0. full \in Nat /\ newest \in Nat
  BY RingConstants
<1>1. h \in StreamHistoryHeader /\ c \in StreamHistoryChunk
  <2> HIDE DEF full, newest
  <2>1. h \in StreamHistoryHeader
    BY <1>0 DEF StreamHistoryHeader
  <2>2. [i \in 1 .. full |-> i] \in Seq(Int)
    BY <1>0
  <2>3. c \in StreamHistoryChunk
    BY <1>0, <2>2, Zenon DEF StreamHistoryChunk
  <2> QED BY <2>1, <2>3, Zenon
<1>2. newest \in Slots /\ HistoryChunkSlot(newest) = newest
  <2>1. newest \in Slots
    BY RingConstants DEF Slots
  <2> QED BY <2>1, SmallSlot, Zenon
<1>3. newest \in RetainedSlots(h) /\ c.sequence = newest
  <2> HIDE DEF newest
  <2>1. 1 \in DOMAIN h.counts /\ h.first + 1 - 1 = newest
    BY <1>0
  <2> QED BY <1>2, <2>1, Zenon DEF RetainedSlots
<1> HIDE DEF h, c
<1>4. /\ WarmWindow.header = h /\ DOMAIN WarmWindow.chunks = Slots
      /\ DOMAIN WarmWindow = {"header", "chunks"}
      /\ \A s \in Slots : WarmWindow.chunks[s] = IF s = newest THEN c ELSE Absent
  BY Zenon DEF WarmWindow, h, c
<1> HIDE DEF newest, full
<1>5. \A s \in Slots : StoredChunk(WarmWindow, s)
  BY <1>1, <1>2, <1>3, <1>4, Zenon DEF StoredChunk
<1>6. \A s \in Slots : WarmWindow.chunks[s] # Absent => s \in RetainedSlots(h)
  BY <1>3, <1>4, Zenon
<1>7. h # Absent
  BY <1>1, HistoryAssumption, Zenon DEF StreamHistoryHeader
<1> QED BY <1>1, <1>4, <1>5, <1>6, <1>7, Zenon DEF KeysInv, Shaped

LEMMA StartedInv ==
    ASSUME NEW pairs, NEW keys, Shaped(keys), KeysInv(keys, TRUE), NEW held \in SUBSET pairs,
           NEW version, NEW log \in Seq(Int), history = Started(pairs, keys, held, version, log)
    PROVE  HistoryInv
<1>1. /\ DOMAIN history = HistoryFields /\ history.pairs = pairs /\ history.index = held
      /\ history.time = Len(log) /\ history.carry = [p \in pairs |-> 0]
      /\ history.stored = [p \in pairs |-> IF p \in held THEN keys ELSE NoKeys]
  BY Zenon DEF Started, HistoryFields
<1>2. Len(log) \in Int
  OBVIOUS
<1>3. ASSUME NEW p \in pairs
      PROVE  /\ Shaped(history.stored[p]) /\ KeysInv(history.stored[p], p \in held)
             /\ history.carry[p] \in Int
  <2>1. history.carry[p] \in Int /\ history.stored[p] = IF p \in held THEN keys ELSE NoKeys
    BY <1>1
  <2>2. CASE p \in held
    <3>1. KeysInv(history.stored[p], TRUE)
      BY <2>1, <2>2, Zenon
    <3>2. KeysInv(history.stored[p], p \in held)
      BY <2>2, <3>1, Zenon DEF KeysInv
    <3> QED BY <2>1, <2>2, <3>2, Zenon
  <2>3. CASE p \notin held
    <3>1. KeysInv(NoKeys, p \in held)
      BY NoKeysInv, Zenon
    <3> QED BY <2>1, <2>3, <3>1, NoKeysShaped, Zenon
  <2> QED BY <2>2, <2>3, Zenon
<1>4. DOMAIN history.stored = pairs
  BY <1>1, Zenon
<1> QED BY <1>1, <1>2, <1>3, <1>4, Zenon DEF HistoryInv

LEMMA InitialHistory == HistoryInit => HistoryInv
<1> SUFFICES ASSUME HistoryInit PROVE HistoryInv
  BY Zenon
<1>1. PICK pairs \in HistoryPairs :
        \/ \E old \in SUBSET pairs : history = Started(pairs, OtherLayout, old, "other", <<>>)
        \/ history = Started(pairs, WarmWindow, pairs, "current", [i \in 1 .. MaxHistoryChunkRecords |-> i])
  BY Zenon DEF HistoryInit
<1>2. <<>> \in Seq(Int) /\ [i \in 1 .. MaxHistoryChunkRecords |-> i] \in Seq(Int) /\ pairs \in SUBSET pairs
  BY RingConstants
<1>3. CASE \E old \in SUBSET pairs : history = Started(pairs, OtherLayout, old, "other", <<>>)
  BY <1>2, <1>3, OtherLayoutKeys, StartedInv, Zenon
<1>4. CASE history = Started(pairs, WarmWindow, pairs, "current", [i \in 1 .. MaxHistoryChunkRecords |-> i])
  BY <1>2, <1>4, WarmKeys, StartedInv, Zenon
<1> QED BY <1>1, <1>3, <1>4, Zenon

LEMMA DepthType == ({0} \cup Depths) \subseteq Nat
<1>1. Depths \subseteq 1 .. MaxHistoryRecordsPerPair
  BY HistoryAssumption, Zenon
<1> QED BY <1>1, RingConstants

(* A round opens, appends, reads and flushes each pair for itself.         *)
LEMMA RoundKeepsHistory ==
    ASSUME HistoryInv, NEW now \in Int, NEW result \in PairResults(now),
           NEW asked \in [history.pairs -> {0} \cup Depths], NEW counts,
           Round(asked, [p \in history.pairs |-> result], counts, now)
    PROVE  HistoryInv'
<1> DEFINE pairs == history.pairs
           results == [p \in pairs |-> result]
           admitted == AdmitHistoryRequirements(asked, history.index)
           depth(p) == IF p \in admitted THEN asked[p] ELSE 0
           value(p) == AgreedRecord(history.carry[p], results[p], now)
           outs == [p \in pairs |->
                      PairRound(history.stored[p], p \in history.index, history.version # "current",
                                depth(p), value(p), IF p \in admitted THEN counts[p] ELSE 0)]
           index == {p \in pairs : outs[p].kept}
           stored == [p \in pairs |-> outs[p].keys]
           carry == [p \in pairs |-> NextCarry(history.carry[p], results[p], now)]
           Becomes(o, a) ==
             LET kept == {p \in pairs : o[p].kept}
             IN history' = [history EXCEPT
                  !.stored = [p \in pairs |-> o[p].keys],
                  !.index = kept,
                  !.version = IF @ # "current" /\ (history.index # {} \/ kept # {}) THEN "current" ELSE @,
                  !.carry = [p \in pairs |-> NextCarry(@[p], results[p], now)],
                  !.time = now,
                  !.log = [p \in pairs |-> a[p].log],
                  !.owed = [p \in pairs |-> a[p].owed],
                  !.read = [p \in pairs |-> o[p].read],
                  !.hurt = {p \in @ : p \in kept /\ ~o[p].restarted}]
<1>1. \E a : Becomes(outs, a)
  <2>1. \E o \in {outs} :
          \E a \in {[p \in pairs |-> AfterPair(p, o[p], value(p), depth(p), asked[p])]} : Becomes(o, a)
    BY Zenon DEF Round
  <2> HIDE DEF Becomes, outs
  <2> QED BY <2>1, Zenon
<1>2. ASSUME NEW p \in pairs
      PROVE  /\ Shaped(outs[p].keys) /\ KeysInv(outs[p].keys, outs[p].kept)
             /\ carry[p] \in Int
  <2> DEFINE keys == history.stored[p]
             indexed == p \in history.index
             reset == history.version # "current"
             count == IF p \in admitted THEN counts[p] ELSE 0
             out == PairRound(keys, indexed, reset, depth(p), value(p), count)
  <2>1. Shaped(keys) /\ KeysInv(keys, indexed) /\ history.carry[p] \in Int
    BY Zenon DEF HistoryInv
  <2>2. results[p] = result
    BY Zenon
  <2>3. carry[p] \in Int /\ (value(p) = Absent \/ value(p).t \in Int)
    <3>1. carry[p] = NextCarry(history.carry[p], result, now) /\ value(p) = AgreedRecord(history.carry[p], result, now)
      BY <2>2, Zenon
    <3> HIDE DEF carry, value
    <3> QED BY <2>1, <3>1, CarryType, Zenon
  <2>4. depth(p) \in Nat
    <3>1. asked[p] \in {0} \cup Depths
      BY Zenon
    <3>2. asked[p] \in Nat
      BY <3>1, DepthType, Zenon
    <3> HIDE DEF admitted
    <3> QED BY <3>2, Zenon
  <2>5. outs[p] = out
    BY Zenon
  <2> HIDE DEF depth, value
  <2>6. indexed \in BOOLEAN
    OBVIOUS
  <2>7. KeysInv(out.keys, out.kept)
    <3> HIDE DEF indexed, keys, reset, count
    <3> QED BY <2>1, <2>3, <2>4, <2>6, RoundKeepsKeys, Zenon
  <2>8. Shaped(out.keys)
    <3> DEFINE opened == OpenWindow(keys, reset /\ indexed, depth(p))
               appended == StoreAppend(keys, opened, value(p), depth(p))
               done == Series(keys, appended, count, depth(p))
    <3>1. out = [keys |-> FlushPair(keys, indexed, done.window),
                 kept |-> done.window.header.required > 0
                          /\ (indexed \/ ~WriteSetEmpty(done.window)),
                 restarted |-> Slots \subseteq done.window.deleted, read |-> done.read]
      BY Zenon DEF PairRound
    <3> HIDE DEF out, done, keys, indexed
    <3>2. out.keys = FlushPair(keys, indexed, done.window)
      BY <3>1, Zenon
    <3> QED BY <2>1, <3>2, FlushedShaped, Zenon
  <2> HIDE DEF out, outs
  <2> QED BY <2>3, <2>5, <2>7, <2>8, Zenon
<1> HIDE DEF outs, carry
<1>3. /\ DOMAIN history' = HistoryFields /\ history'.pairs = pairs /\ history'.stored = stored
      /\ history'.index = index /\ history'.carry = carry /\ history'.time = now
  <2>1. PICK a : Becomes(outs, a)
    BY <1>1, Zenon
  <2> QED BY <2>1, Zenon DEF HistoryInv, HistoryFields, carry
<1>4. ASSUME NEW p \in pairs
      PROVE  Shaped(stored[p]) /\ KeysInv(stored[p], p \in index) /\ carry[p] \in Int
  <2>1. stored[p] = outs[p].keys /\ (outs[p].kept => p \in index)
    BY Zenon
  <2> HIDE DEF stored, index
  <2>2. KeysInv(stored[p], p \in index)
    BY <1>2, <2>1, Zenon DEF KeysInv
  <2> QED BY <1>2, <2>1, <2>2, Zenon
<1>5. index \subseteq pairs /\ DOMAIN stored = pairs
  BY Zenon
<1> HIDE DEF index, stored
<1> QED BY <1>3, <1>4, <1>5, Zenon DEF HistoryInv

(* Bytes that go bad are still under a key of the index.                   *)
LEMMA CorruptedHeader ==
    ASSUME NEW keys, Shaped(keys), NEW indexed, indexed, KeysInv(keys, indexed)
    PROVE  LET next == [keys EXCEPT !.header = Corrupt] IN Shaped(next) /\ KeysInv(next, indexed)
<1> DEFINE next == [keys EXCEPT !.header = Corrupt]
<1>1. DOMAIN next = DOMAIN keys /\ next.header = Corrupt /\ next.chunks = keys.chunks
  BY Zenon DEF Shaped
<1> HIDE DEF next
<1> QED BY <1>1, Zenon DEF Shaped, KeysInv, StoredChunk, next

LEMMA CorruptedChunk ==
    ASSUME NEW keys, Shaped(keys), NEW indexed, indexed, KeysInv(keys, indexed), NEW t \in Slots,
           NEW bad \in {Corrupt, Absent}, keys.chunks[t] # Absent
    PROVE  LET next == [keys EXCEPT !.chunks[t] = bad] IN Shaped(next) /\ KeysInv(next, indexed)
<1> DEFINE next == [keys EXCEPT !.chunks[t] = bad]
<1>1. /\ DOMAIN next = DOMAIN keys /\ next.header = keys.header
      /\ next.chunks = [keys.chunks EXCEPT ![t] = bad]
  BY Zenon DEF Shaped
<1> HIDE DEF next
<1>2. /\ DOMAIN next.chunks = Slots
      /\ \A s \in Slots : next.chunks[s] = IF s = t THEN bad ELSE keys.chunks[s]
  BY <1>1, Zenon DEF Shaped
<1>3. ASSUME NEW s \in Slots
      PROVE  /\ StoredChunk(next, s)
             /\ next.chunks[s] # Absent => keys.chunks[s] # Absent
  BY <1>2, Zenon DEF StoredChunk, KeysInv
<1> QED BY <1>1, <1>2, <1>3, Zenon DEF Shaped, KeysInv, next

LEMMA CorruptKeepsHistory ==
    ASSUME HistoryInv, NEW p \in history.index, NEW keys, Shaped(keys), KeysInv(keys, TRUE),
           DOMAIN history' = DOMAIN history, history'.pairs = history.pairs,
           history'.index = history.index, history'.time = history.time,
           history'.carry = history.carry, history'.stored = [history.stored EXCEPT ![p] = keys]
    PROVE  HistoryInv'
<1>1. /\ DOMAIN history'.stored = history.pairs
      /\ \A q \in history.pairs : history'.stored[q] = IF q = p THEN keys ELSE history.stored[q]
  BY Zenon DEF HistoryInv
<1>2. KeysInv(keys, p \in history.index)
  BY Zenon DEF KeysInv
<1>3. ASSUME NEW q \in history.pairs
      PROVE  Shaped(history'.stored[q]) /\ KeysInv(history'.stored[q], q \in history.index)
  <2>1. CASE q = p
    BY <1>1, <1>2, <2>1, Zenon
  <2>2. CASE q # p
    BY <1>1, <2>2, Zenon DEF HistoryInv
  <2> QED BY <2>1, <2>2, Zenon
<1> QED BY <1>1, <1>3, Zenon DEF HistoryInv

LEMMA HistoryStep == HistoryInv /\ [HistoryNext]_history => HistoryInv'
<1> SUFFICES ASSUME HistoryInv, [HistoryNext]_history PROVE HistoryInv'
  BY Zenon
<1>1. CASE HistoryRound
  <2>1. PICK now \in {history.time, history.time + 1}, asked \in [history.pairs -> {0} \cup Depths],
             reads \in BOOLEAN :
          \E result \in PairResults(now) : Round(asked, [p \in history.pairs |-> result],
              [p \in history.pairs |-> IF reads THEN asked[p] ELSE 0], now)
    <3>1. (IF history.hurt = {} THEN {TRUE} ELSE BOOLEAN) \subseteq BOOLEAN
      BY Zenon
    <3> QED BY <1>1, <3>1, Zenon DEF HistoryRound
  <2>2. now \in Int
    BY DEF HistoryInv
  <2> QED BY <2>1, <2>2, RoundKeepsHistory, Zenon
<1>2. CASE CorruptStored
  <2>1. PICK p \in history.index :
          \/ history' = [history EXCEPT !.stored[p].header = Corrupt,
                             !.hurt = @ \cup {p}, !.owed[p] = 0, !.faults = @ - 1]
          \/ \E s \in Slots, bad \in {Corrupt, Absent} :
               /\ history.stored[p].chunks[s] # Absent
               /\ history' = [history EXCEPT !.stored[p].chunks[s] = bad,
                             !.hurt = @ \cup {p}, !.owed[p] = 0, !.faults = @ - 1]
    BY <1>2, Zenon DEF CorruptStored
  <2> DEFINE keys == history.stored[p]
             Becomes(next) ==
               /\ DOMAIN history' = DOMAIN history /\ history'.pairs = history.pairs
               /\ history'.index = history.index /\ history'.time = history.time
               /\ history'.carry = history.carry
               /\ history'.stored = [history.stored EXCEPT ![p] = next]
  <2>2. Shaped(keys) /\ KeysInv(keys, TRUE)
    BY Zenon DEF HistoryInv, KeysInv
  <2>3. CASE history' = [history EXCEPT !.stored[p].header = Corrupt,
                             !.hurt = @ \cup {p}, !.owed[p] = 0, !.faults = @ - 1]
    <3>1. Becomes([keys EXCEPT !.header = Corrupt])
      BY <2>3, Zenon DEF HistoryInv, HistoryFields
    <3>2. Shaped([keys EXCEPT !.header = Corrupt]) /\ KeysInv([keys EXCEPT !.header = Corrupt], TRUE)
      BY <2>2, CorruptedHeader, Zenon
    <3> QED BY <3>1, <3>2, CorruptKeepsHistory, Zenon
  <2>4. ASSUME NEW s \in Slots, NEW bad \in {Corrupt, Absent}, keys.chunks[s] # Absent,
               history' = [history EXCEPT !.stored[p].chunks[s] = bad,
                             !.hurt = @ \cup {p}, !.owed[p] = 0, !.faults = @ - 1]
        PROVE  HistoryInv'
    <3>1. Becomes([keys EXCEPT !.chunks[s] = bad])
      BY <2>4, Zenon DEF HistoryInv, HistoryFields
    <3>2. Shaped([keys EXCEPT !.chunks[s] = bad]) /\ KeysInv([keys EXCEPT !.chunks[s] = bad], TRUE)
      BY <2>2, <2>4, CorruptedChunk, Zenon
    <3> QED BY <3>1, <3>2, CorruptKeepsHistory, Zenon
  <2> QED BY <2>1, <2>3, <2>4, Zenon
<1>3. CASE UNCHANGED history
  BY <1>3, Zenon DEF HistoryInv
<1> QED BY <1>1, <1>2, <1>3, Zenon DEF HistoryNext

(* No stored key is out of reach (stream_history_ring.go, history.go), for *)
(* any pairs, depths and sizes of chunks and rings.                        *)
THEOREM HistoryNoLeakHolds == HistorySpec => []HistoryNoLeak
<1>1. HistoryInv => HistoryNoLeak
  BY Zenon DEF HistoryInv, HistoryNoLeak, KeysInv
<1> QED BY <1>1, InitialHistory, HistoryStep, PTL DEF HistorySpec
=============================================================================
