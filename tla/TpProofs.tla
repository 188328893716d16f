------------------------------ MODULE TpProofs ------------------------------
(***************************************************************************)
(* TpSegmenter cuts a payload of every size correctly, for every segment   *)
(* size.  The division is nonlinear: the lemmas give Z3 one product at a   *)
(* time, and the rest is linear.                                           *)
(***************************************************************************)
EXTENDS TpReassembly, WellFoundedInduction, TLAPS

-----------------------------------------------------------------------------
(* Induction.                                                              *)

\* A set of numbers that is not empty has a least one.
LEMMA LeastNumber ==
    ASSUME NEW S \in SUBSET Nat, S # {}
    PROVE  \E n \in S : \A k \in S : n <= k
  <1>1. PICK n \in S : \A k \in S : <<k, n>> \notin OpToRel(<, Nat)
    BY WFMin, NatLessThanWellFounded
  <1>2. \A k \in S : ~(k < n)
    BY <1>1 DEF OpToRel
  <1> QED
    BY <1>2

\* Induction up to a bound, with a set in the place of the predicate.
LEMMA BoundedInduction ==
    ASSUME NEW N \in Nat, NEW S, 0 \in S,
           \A n \in 0 .. N - 1 : n \in S => n + 1 \in S
    PROVE  0 .. N \subseteq S
  <1> DEFINE T == {n \in 0 .. N : n \notin S}
  <1> SUFFICES ASSUME T # {} PROVE FALSE
    OBVIOUS
  <1>1. T \in SUBSET Nat
    OBVIOUS
  <1>2. PICK n \in T : \A k \in T : n <= k
    <2> HIDE DEF T
    <2> QED
      BY <1>1, LeastNumber
  <1>3. n # 0 /\ n - 1 \in 0 .. N - 1 /\ n - 1 \in 0 .. N
    OBVIOUS
  <1>4. n - 1 \in S
    BY <1>2, <1>3
  <1> QED
    BY <1>3, <1>4

-----------------------------------------------------------------------------
(* Segments.                                                               *)

\* Division rounded up: the last of the n segments is needed, and n are enough.
LEMMA CountBounds ==
    ASSUME NEW s \in Nat, NEW max \in Nat \ {0}, needs_segmentation(s, max)
    PROVE  /\ get_segment_count(s, max) \in Nat
           /\ get_segment_count(s, max) > 1
           /\ (get_segment_count(s, max) - 1) * max < s
           /\ s <= get_segment_count(s, max) * max
<1> DEFINE n == get_segment_count(s, max)
<1>1. n = (s + max - 1) \div max
  BY DEF get_segment_count, needs_segmentation
<1>2. n \in Int /\ n * max <= s + max - 1 /\ s + max - 1 < (n + 1) * max
  BY <1>1, Z3
<1>3. (n + 1) * max = n * max + max /\ (n - 1) * max = n * max - max
  BY <1>2, Z3
<1>4. (n - 1) * max < s /\ s <= n * max
  BY <1>2, <1>3
<1>5. n > 1
  <2>1. n * max > max
    BY <1>2, <1>3, <1>4 DEF needs_segmentation
  <2> QED
    BY <1>2, <2>1, Z3
<1> HIDE DEF n
<1>6. n \in Nat
  BY <1>2, <1>5
<1> QED
  BY <1>4, <1>5, <1>6 DEF n

\* Multiplication is monotone.
LEMMA ProductMonotone ==
    ASSUME NEW i \in Nat, NEW j \in Nat, NEW max \in Nat, i <= j
    PROVE  i * max \in Nat /\ i * max <= j * max
  BY Z3

\* One turn of the loop: every segment but the last is full, the last one is
\* what is left.
LEMMA TurnOfLoop ==
    ASSUME NEW s \in Nat, NEW max \in Nat \ {0}, needs_segmentation(s, max),
           NEW i \in 1 .. get_segment_count(s, max)
    PROVE  LET n == get_segment_count(s, max)
               c == Cut(s, max, i)
           IN  /\ c.start = (i - 1) * max
               /\ i < n => c.length = max /\ c.start + max < s
               /\ i = n => c.length = s - c.start
               /\ c.length \in 1 .. max
               /\ c.more <=> i < n
<1> DEFINE n == get_segment_count(s, max)
           o == (i - 1) * max
           c == Cut(s, max, i)
<1> SUFFICES /\ c.start = o
             /\ i < n => c.length = max /\ c.start + max < s
             /\ i = n => c.length = s - c.start
             /\ c.length \in 1 .. max
             /\ c.more <=> i < n
  OBVIOUS
<1>1. n \in Nat /\ (n - 1) * max < s /\ s <= n * max
  BY CountBounds
<1> HIDE DEF n
<1>2. i \in Nat /\ 1 <= i /\ i <= n
  BY <1>1 DEF n
<1>3. o \in Nat /\ i * max = o + max
  <2>1. i - 1 \in Nat
    BY <1>2
  <2>2. o \in Nat
    BY <2>1, ProductMonotone
  <2> QED
    BY <1>2, <2>2, Z3
<1>4. i < n => i * max <= (n - 1) * max
  BY <1>1, <1>2, ProductMonotone
<1>5. n * max = (n - 1) * max + max
  BY <1>1, Z3
<1> DEFINE len == IF max < s - o THEN max ELSE s - o
<1>6. /\ c.start = o
      /\ c.length = len
      /\ c.more <=> o + len < s
  BY DEF Cut
<1> HIDE DEF c, o
<1>7. CASE i < n
  <2>1. o + max < s
    BY <1>1, <1>3, <1>4, <1>7
  <2>2. len = max
    BY <1>3, <2>1
  <2> HIDE DEF len
  <2> QED
    BY <1>1, <1>2, <1>6, <1>7, <2>1, <2>2
<1>8. CASE i = n
  <2>1. o = (n - 1) * max
    BY <1>8 DEF o
  <2>2. o < s /\ s <= o + max
    BY <1>1, <1>5, <2>1
  <2>3. len = s - o /\ len \in 1 .. max /\ ~(o + len < s)
    BY <1>3, <2>2
  <2> HIDE DEF len
  <2> QED
    BY <1>1, <1>2, <1>6, <1>8, <2>3
<1> QED
  BY <1>1, <1>2, <1>7, <1>8

\* The segments of every payload that needs segmentation are a partition of it
\* (TpSegmenter::segment), with the more flag off on the last one only.
THEOREM SegmentIsPartition ==
    ASSUME NEW s \in Nat, NEW max \in Nat \ {0}, needs_segmentation(s, max)
    PROVE  Partition(s, max, segment(s, max))
<1> DEFINE n == get_segment_count(s, max)
           segs == segment(s, max)
<1>1. n \in Nat /\ n > 1
  BY CountBounds
<1>2. \A i \in 1 .. n : segs[i] = Cut(s, max, i)
  BY DEF segment
<1>3. segs[1].start = 0
  <2>1. 1 \in 1 .. n
    BY <1>1
  <2>2. Cut(s, max, 1).start = (1 - 1) * max
    BY <2>1, TurnOfLoop
  <2> QED
    BY <1>2, <2>1, <2>2
<1> HIDE DEF n
<1>4. ASSUME NEW i \in 1 .. n
      PROVE  /\ segs[i].length \in 1 .. max
             /\ segs[i].more <=> i < n
             /\ segs[i].start + segs[i].length =
                  IF i < n THEN segs[i + 1].start ELSE s
  <2>1. segs[i] = Cut(s, max, i)
    BY <1>2
  <2>2. /\ Cut(s, max, i).start = (i - 1) * max
        /\ i < n => Cut(s, max, i).length = max
        /\ i = n => Cut(s, max, i).length = s - Cut(s, max, i).start
        /\ Cut(s, max, i).length \in 1 .. max
        /\ Cut(s, max, i).more <=> i < n
    BY TurnOfLoop DEF n
  <2>3. (i - 1) * max \in Int /\ (i - 1) * max + max = i * max
    BY <1>1, Z3
  <2>4. ASSUME i < n
        PROVE  segs[i + 1].start = i * max
    <3>1. i + 1 \in 1 .. n /\ (i + 1) - 1 = i
      BY <1>1, <2>4
    <3>2. segs[i + 1] = Cut(s, max, i + 1)
      BY <1>2, <3>1
    <3>3. Cut(s, max, i + 1).start = ((i + 1) - 1) * max
      BY <3>1, TurnOfLoop DEF n
    <3> QED
      BY <3>1, <3>2, <3>3
  <2> HIDE DEF segs
  <2>5. CASE i < n
    BY <2>1, <2>2, <2>3, <2>4, <2>5
  <2>6. CASE i = n
    <3>1. segs[i].start + (s - segs[i].start) = s
      BY <2>1, <2>2, <2>3
    <3> QED
      BY <1>1, <2>1, <2>2, <2>6, <3>1
  <2> QED
    BY <1>1, <2>5, <2>6
<1> QED
  BY <1>1, <1>3, <1>4 DEF Partition, n

\* TpSegmenter's cut is a partition of the payload of every message, in every
\* state: the size of a message never changes.
THEOREM SegmentsArePartitions == Spec => []SegmentsPartition
<1> DEFINE Sized == size \in [Message -> SegmentSize + 1 .. MaxSize]
<1>1. Init => Sized
  BY DEF Init
<1>2. Sized /\ [Next]_vars => Sized'
  BY DEF Next, AddSegment, Reassemble, TimeoutElapses, CleanupExpired, vars
<1>3. Sized => SegmentsPartition
  <2> SUFFICES ASSUME Sized, NEW m \in Message
               PROVE  Partition(size[m], SegmentSize, segment(size[m], SegmentSize))
    BY DEF SegmentsPartition
  <2>1. SegmentSize \in Nat \ {0} /\ MaxSize \in Nat
    BY TpReassemblyAssumption
  <2>2. size[m] \in Nat /\ size[m] > SegmentSize
    BY <2>1
  <2> HIDE DEF Sized
  <2> QED
    BY <2>1, <2>2, SegmentIsPartition DEF needs_segmentation
<1> QED
  BY <1>1, <1>2, <1>3, PTL DEF Spec

-----------------------------------------------------------------------------
(* What a message's pieces are, in the order of their offsets.             *)

\* f lists the K pieces of message m: they lie one behind the other from 0 on,
\* and the last one, and no other, says that no more follow.
Lists(f, K, m) ==
    /\ K \in Nat \ {0}
    /\ Pieces(m) = {f[i] : i \in 1 .. K}
    /\ f[1].offset = 0
    /\ \A i \in 1 .. K :
         /\ f[i].offset \in Nat
         /\ f[i].length \in Nat
         /\ f[i].more <=> i < K
         /\ i < K => f[i].length > 0 /\ f[i].offset + f[i].length = f[i + 1].offset
    /\ \A i, j \in 1 .. K : i < j => f[i].offset < f[j].offset

\* A set of pieces without gap that holds the last one holds them all.
LEMMA NoGapIsWhole ==
    ASSUME NEW f, NEW K, NEW m, Lists(f, K, m),
           NEW d \in SUBSET Pieces(m),
           \E p \in d : ~p.more,
           \A p \in d : Reached({q \in d : q.offset < p.offset}, p.offset)
    PROVE  d = Pieces(m)
  <1>0. K \in Nat /\ K > 0
    BY DEF Lists
  <1>1. f[K] \in d
    <2>1. PICK p \in d : ~p.more
      OBVIOUS
    <2>2. PICK i \in 1 .. K : p = f[i]
      BY DEF Lists
    <2> QED
      BY <1>0, <2>1, <2>2 DEF Lists
  <1> DEFINE S == {k \in 0 .. K : \A i \in 1 .. k : f[i] \in d}
  <1>2. 0 \in S
    BY <1>0
  <1>3. ASSUME NEW k \in 0 .. K - 1, k \in S PROVE k + 1 \in S
    <2>1. SUFFICES ASSUME f[k + 1] \notin d PROVE FALSE
      <3>1. k + 1 \in 0 .. K
        BY <1>0
      <3>2. \A i \in 1 .. k + 1 : i = k + 1 \/ i \in 1 .. k
        OBVIOUS
      <3> QED
        BY <1>3, <3>1, <3>2
    <2> DEFINE T == {j \in k + 1 .. K : f[j] \in d}
    <2>2. T \in SUBSET Nat /\ T # {}
      BY <1>0, <1>1
    <2>3. PICK j \in T : \A i \in T : j <= i
      <3> HIDE DEF T
      <3> QED
        BY <2>2, LeastNumber
    <2>4. j \in 1 .. K /\ k + 1 < j /\ k + 1 \in 1 .. K
      BY <1>0, <2>1, <2>3
    <2>5. \A i \in 1 .. K : f[i] \in d /\ i < j => i \in 1 .. k
      BY <1>0, <2>3
    <2> DEFINE B == {q \in d : q.offset < f[j].offset}
    <2>6. \A q \in B : \E i \in 1 .. k : q = f[i]
      <3> SUFFICES ASSUME NEW q \in B PROVE \E i \in 1 .. k : q = f[i]
        OBVIOUS
      <3>1. PICK i \in 1 .. K : q = f[i]
        BY DEF Lists
      <3>2. f[i].offset < f[j].offset
        BY <3>1
      <3>3. i < j
        <4>1. f[i].offset \in Nat /\ f[j].offset \in Nat
          BY <2>4 DEF Lists
        <4>2. j < i => f[j].offset < f[i].offset
          BY <2>4 DEF Lists
        <4> QED
          BY <1>0, <2>4, <3>2, <4>1, <4>2
      <3> QED
        BY <2>5, <3>1, <3>3
    <2>7. Reached(B, f[j].offset)
      BY <2>3
    <2>8. CASE k = 0
      <3>1. B = {}
        BY <2>6, <2>8
      <3>2. f[j].offset = 0
        BY <2>7, <3>1 DEF Reached
      <3>3. f[1].offset = 0 /\ f[1].offset < f[j].offset
        BY <2>4, <2>8, <1>0 DEF Lists
      <3> QED
        BY <3>2, <3>3
    <2>9. CASE k # 0
      <3>1. k \in 1 .. k /\ k \in 1 .. K /\ k < j
        BY <1>0, <2>4, <2>9
      <3>2. f[k].offset < f[j].offset
        BY <2>4, <3>1 DEF Lists
      <3>3. f[k] \in B
        BY <1>3, <3>1, <3>2
      <3>4. PICK p \in B : /\ \A q \in B : q.offset <= p.offset
                           /\ p.offset + p.length = f[j].offset
        BY <2>7, <3>3 DEF Reached
      <3>5. PICK i \in 1 .. k : p = f[i]
        BY <2>6
      <3>6. i = k
        <4>1. i \in 1 .. K
          BY <1>0
        <4>2. f[k].offset <= f[i].offset
          BY <3>3, <3>4, <3>5
        <4>3. f[k].offset \in Nat /\ f[i].offset \in Nat
          BY <3>1, <4>1 DEF Lists
        <4>4. i < k => f[i].offset < f[k].offset
          BY <3>1, <4>1 DEF Lists
        <4> QED
          BY <1>0, <4>2, <4>3, <4>4
      <3>7. f[k + 1].offset = f[j].offset
        BY <1>0, <3>1, <3>4, <3>5, <3>6 DEF Lists
      <3>8. f[k + 1].offset < f[j].offset /\ f[j].offset \in Nat
        BY <2>4 DEF Lists
      <3> QED
        BY <3>7, <3>8
    <2> QED
      BY <2>8, <2>9
  <1>4. 0 .. K \subseteq S
    <2> HIDE DEF S
    <2> QED
      BY <1>0, <1>2, <1>3, BoundedInduction
  <1>5. \A i \in 1 .. K : f[i] \in d
    BY <1>0, <1>4
  <1> QED
    BY <1>5 DEF Lists

\* Where a segment lies: within the payload, and before the next one.
LEMMA CutLies ==
    ASSUME NEW s \in Nat, NEW max \in Nat \ {0}, needs_segmentation(s, max),
           NEW i \in 1 .. get_segment_count(s, max)
    PROVE  LET c == Cut(s, max, i) IN
           /\ c.start \in 0 .. s
           /\ c.offset = c.start % OffsetValues
           /\ c.length \in 1 .. max
           /\ c.more \in BOOLEAN
           /\ i = get_segment_count(s, max) => c.start + c.length = s
           /\ \A j \in 1 .. get_segment_count(s, max) : i < j =>
                /\ c.start + c.length <= Cut(s, max, j).start
                /\ j = i + 1 => c.start + c.length = Cut(s, max, j).start
  <1> DEFINE n == get_segment_count(s, max)
             c == Cut(s, max, i)
  <1>1. n \in Nat
    BY CountBounds
  <1>2. /\ c.start = (i - 1) * max
        /\ i < n => c.length = max /\ c.start + max < s
        /\ i = n => c.length = s - c.start
        /\ c.length \in 1 .. max
    BY TurnOfLoop
  <1>3. i \in Nat /\ i - 1 \in Nat
    BY <1>1
  <1>4. c.start \in Nat
    BY <1>2, <1>3, ProductMonotone
  <1>5. c.start \in 0 .. s /\ (i = n => c.start + c.length = s)
    BY <1>1, <1>2, <1>4
  <1>6. c.offset = c.start % OffsetValues /\ c.more \in BOOLEAN
    BY DEF Cut
  <1>7. ASSUME NEW j \in 1 .. n, i < j
        PROVE  /\ c.start + c.length <= Cut(s, max, j).start
               /\ j = i + 1 => c.start + c.length = Cut(s, max, j).start
    <2>1. Cut(s, max, j).start = (j - 1) * max
      BY TurnOfLoop
    <2>2. c.length = max
      BY <1>1, <1>2, <1>7
    <2>3. c.start + max = i * max
      BY <1>2, <1>3, Z3
    <2>4. j - 1 \in Nat /\ i <= j - 1
      BY <1>1, <1>3, <1>7
    <2>5. i * max <= (j - 1) * max
      BY <1>3, <2>4, ProductMonotone
    <2>6. j = i + 1 => (j - 1) * max = i * max
      <3> SUFFICES ASSUME j = i + 1 PROVE (j - 1) * max = i * max
        OBVIOUS
      <3>1. j - 1 = i
        BY <1>3
      <3> QED
        BY <3>1
    <2> HIDE DEF c
    <2> QED
      BY <2>1, <2>2, <2>3, <2>5, <2>6
  <1> HIDE DEF n, c
  <1>8. /\ c.start \in 0 .. s
        /\ c.offset = c.start % OffsetValues
        /\ c.length \in 1 .. max
        /\ c.more \in BOOLEAN
        /\ i = n => c.start + c.length = s
        /\ \A j \in 1 .. n : i < j =>
                /\ c.start + c.length <= Cut(s, max, j).start
                /\ j = i + 1 => c.start + c.length = Cut(s, max, j).start
    BY <1>2, <1>5, <1>6, <1>7
  <1> QED
    BY <1>8 DEF n, c

\* What a piece is, however long its message: where it starts is within the
\* message, and so is the offset it says it has.
LEMMA PieceTypes ==
    ASSUME size \in [Message -> SegmentSize + 1 .. MaxSize], NEW m \in Message,
           NEW p \in Pieces(m)
    PROVE  /\ p.message = m
           /\ p.offset \in 0 .. MaxSize
           /\ p.more \in BOOLEAN
  <1> DEFINE s == size[m]
             n == get_segment_count(s, SegmentSize)
  <1>1. /\ s \in Nat /\ s <= MaxSize
        /\ SegmentSize \in Nat \ {0} /\ MaxSize \in Nat
        /\ needs_segmentation(s, SegmentSize)
    BY TpReassemblyAssumption DEF needs_segmentation
  <1>2. \A k \in Nat : k % OffsetValues \in 0 .. k
    BY TpSegmenterAssumption, Z3
  <1> HIDE DEF s
  <1>3. \A i \in 1 .. n : segment(s, SegmentSize)[i] = Cut(s, SegmentSize, i)
    BY DEF segment
  <1>4. \A i \in 1 .. n :
           /\ Cut(s, SegmentSize, i).start \in 0 .. s
           /\ Cut(s, SegmentSize, i).offset = Cut(s, SegmentSize, i).start % OffsetValues
           /\ Cut(s, SegmentSize, i).more \in BOOLEAN
    BY <1>1, CutLies
  <1>5. \A i \in 1 .. n : Cut(s, SegmentSize, i).offset \in 0 .. MaxSize
    BY <1>1, <1>2, <1>4
  <1>6. s % OffsetValues \in 0 .. MaxSize
    BY <1>1, <1>2
  <1>7. ASSUME NEW i \in 1 .. n
        PROVE  LET c == Cut(s, SegmentSize, i)
                   e == [c EXCEPT !.more = TRUE]
               IN  /\ Piece(m, c).message = m
                   /\ Piece(m, c).offset = c.offset
                   /\ Piece(m, c).more = c.more
                   /\ Piece(m, e).message = m
                   /\ Piece(m, e).offset = c.offset
                   /\ Piece(m, e).more = TRUE
    BY DEF Piece, Cut
  <1>8. DOMAIN segment(s, SegmentSize) = 1 .. n
    BY DEF segment
  <1> DEFINE tail == [start |-> s, offset |-> s % OffsetValues,
                      length |-> 0, more |-> FALSE]
  <1>9. /\ Piece(m, tail).message = m
        /\ Piece(m, tail).offset = s % OffsetValues
        /\ Piece(m, tail).more = FALSE
    BY DEF Piece
  <1> HIDE DEF n, tail
  <1>10. \/ p = Piece(m, tail)
         \/ \E i \in 1 .. n : \/ p = Piece(m, Cut(s, SegmentSize, i))
                            \/ p = Piece(m, [Cut(s, SegmentSize, i) EXCEPT !.more = TRUE])
    BY <1>3, <1>8 DEF Pieces, s, tail
  <1>11. CASE p = Piece(m, tail)
    BY <1>6, <1>9, <1>11
  <1>12. ASSUME NEW i \in 1 .. n, \/ p = Piece(m, Cut(s, SegmentSize, i))
                                  \/ p = Piece(m, [Cut(s, SegmentSize, i) EXCEPT !.more = TRUE])
         PROVE  p.message = m /\ p.offset \in 0 .. MaxSize /\ p.more \in BOOLEAN
    BY <1>4, <1>5, <1>7, <1>12
  <1> QED
    BY <1>10, <1>11, <1>12

\* A message shorter than the offsets can tell is listed by its pieces.
LEMMA PiecesAreListed ==
    ASSUME size \in [Message -> SegmentSize + 1 .. MaxSize], NEW m \in Message,
           MaxSize < OffsetValues
    PROVE  \E f, K : Lists(f, K, m)
  <1> DEFINE s == size[m]
             n == get_segment_count(s, SegmentSize)
             c(i) == Cut(s, SegmentSize, i)
             f == [i \in 1 .. n + 1 |->
                     IF i = n + 1
                     THEN Piece(m, [start |-> s, offset |-> s % OffsetValues,
                                    length |-> 0, more |-> FALSE])
                     ELSE Piece(m, IF m \in EmptyTail THEN [c(i) EXCEPT !.more = TRUE]
                                                       ELSE c(i))]
             K == IF m \in EmptyTail THEN n + 1 ELSE n
  <1>1. /\ s \in Nat /\ s <= MaxSize /\ s < OffsetValues
        /\ SegmentSize \in Nat \ {0} /\ MaxSize \in Nat
        /\ needs_segmentation(s, SegmentSize)
    BY TpReassemblyAssumption, TpSegmenterAssumption DEF needs_segmentation
  <1>2. n \in Nat /\ n > 1
    BY <1>1, CountBounds
  <1>3. \A k \in 0 .. s : k % OffsetValues = k
    BY <1>1, TpSegmenterAssumption, Z3
  <1>4. \A i \in 1 .. n :
          /\ c(i).start \in 0 .. s
          /\ c(i).offset = c(i).start
          /\ c(i).length \in 1 .. SegmentSize
          /\ c(i).more <=> i < n
          /\ i = n => c(i).start + c(i).length = s
          /\ \A j \in 1 .. n : i < j =>
               /\ c(i).start + c(i).length <= c(j).start
               /\ j = i + 1 => c(i).start + c(i).length = c(j).start
    BY <1>1, <1>3, CutLies, TurnOfLoop
  <1>5. c(1).start = 0
    <2>1. 1 \in 1 .. n
      BY <1>2
    <2>2. c(1).start = (1 - 1) * SegmentSize
      BY <1>1, <2>1, TurnOfLoop
    <2> QED
      BY <1>1, <2>2
  <1>6. \A i \in 1 .. n :
          /\ f[i].offset = c(i).offset
          /\ f[i].length = c(i).length
          /\ f[i].more <=> c(i).more \/ m \in EmptyTail
    BY <1>2 DEF Piece, Cut
  <1>7. /\ f[n + 1].offset = s
        /\ f[n + 1].length = 0
        /\ ~f[n + 1].more
    BY <1>1, <1>2, <1>3 DEF Piece
  <1>8. Pieces(m) = {f[i] : i \in 1 .. K}
    <2>1. DOMAIN segment(s, SegmentSize) = 1 .. n
      BY DEF segment
    <2>2. \A i \in 1 .. n : segment(s, SegmentSize)[i] = c(i)
      BY DEF segment
    <2> HIDE DEF n, c
    <2>3. CASE m \in EmptyTail
      <3>1. \A i \in 1 .. n : f[i] = Piece(m, [segment(s, SegmentSize)[i] EXCEPT !.more = TRUE])
        BY <1>2, <2>2, <2>3
      <3>2. f[n + 1] = Piece(m, [start |-> s, offset |-> s % OffsetValues,
                                 length |-> 0, more |-> FALSE])
        BY <1>2
      <3>3. 1 .. K = 1 .. n \cup {n + 1}
        BY <1>2, <2>3
      <3> HIDE DEF f, K
      <3> QED
        BY <2>1, <2>3, <3>1, <3>2, <3>3 DEF Pieces
    <2>4. CASE m \notin EmptyTail
      <3>1. \A i \in 1 .. n : f[i] = Piece(m, segment(s, SegmentSize)[i])
        BY <1>2, <2>2, <2>4
      <3>2. K = n
        BY <2>4
      <3> HIDE DEF f, K
      <3> QED
        BY <2>1, <2>4, <3>1, <3>2 DEF Pieces
    <2> QED
      BY <2>3, <2>4
  <1>9. /\ K \in Nat \ {0}
        /\ \A i \in 1 .. K : i \in 1 .. n \/ (i = n + 1 /\ m \in EmptyTail)
        /\ \A i \in 1 .. n : i < K <=> i < n \/ m \in EmptyTail
        /\ ~(n + 1 < K)
    BY <1>2
  <1> HIDE DEF f, K, n, c, s
  <1>10. f[1].offset = 0
    BY <1>2, <1>4, <1>5, <1>6
  <1>11. ASSUME NEW i \in 1 .. K
         PROVE  /\ f[i].offset \in Nat
                /\ f[i].length \in Nat
                /\ f[i].more <=> i < K
                /\ i < K => /\ f[i].length > 0
                            /\ f[i].offset + f[i].length = f[i + 1].offset
    <2>1. CASE i = n + 1
      BY <1>1, <1>7, <1>9, <2>1
    <2>2. CASE i \in 1 .. n
      <3>1. /\ f[i].offset \in Nat
            /\ f[i].length \in Nat /\ f[i].length > 0
            /\ f[i].more <=> i < K
        BY <1>1, <1>4, <1>6, <1>9, <2>2
      <3>2. CASE i < n
        <4>1. i + 1 \in 1 .. n
          BY <1>2, <2>2, <3>2
        <4>2. c(i).start + c(i).length = c(i + 1).start
          BY <1>4, <2>2, <4>1
        <4> QED
          BY <1>4, <1>6, <2>2, <3>1, <4>1, <4>2
      <3>3. CASE i = n
        BY <1>4, <1>6, <1>7, <2>2, <3>1, <3>3
      <3> QED
        BY <1>2, <2>2, <3>2, <3>3
    <2> QED
      BY <1>9, <2>1, <2>2
  <1>12. ASSUME NEW i \in 1 .. K, NEW j \in 1 .. K, i < j
         PROVE  f[i].offset < f[j].offset
    <2>1. i \in 1 .. n
      BY <1>2, <1>9, <1>12
    <2>2. f[i].offset = c(i).start /\ c(i).start \in Nat /\ c(i).length \in Nat /\ c(i).length > 0
      BY <1>1, <1>4, <1>6, <2>1
    <2>3. CASE j \in 1 .. n
      BY <1>1, <1>4, <1>6, <1>12, <2>1, <2>2, <2>3
    <2>4. CASE j = n + 1
      <3>1. c(i).start + c(i).length <= s
        <4>1. CASE i = n
          BY <1>1, <1>4, <2>1, <2>2, <4>1
        <4>2. CASE i < n
          <5>1. n \in 1 .. n
            BY <1>2
          <5>2. c(i).start + c(i).length <= c(n).start /\ c(n).start \in 0 .. s
            BY <1>4, <2>1, <4>2, <5>1
          <5> QED
            BY <1>1, <2>2, <5>2
        <4> QED
          BY <1>2, <2>1, <4>1, <4>2
      <3> QED
        BY <1>1, <1>7, <2>2, <2>4, <3>1
    <2> QED
      BY <1>9, <2>3, <2>4
  <1> QED
    BY <1>8, <1>9, <1>10, <1>11, <1>12 DEF Lists

-----------------------------------------------------------------------------
(* The invariant of the reassembler.                                       *)

AllPieces == UNION {Pieces(m) : m \in Message}

BuffersOK ==
    buffers_ \in [Request -> [segments : SUBSET AllPieces,
                              total_size : 0 .. MaxSize,
                              has_last_segment : BOOLEAN]]

RestOK ==
    /\ size \in [Message -> SegmentSize + 1 .. MaxSize]
    /\ expired \subseteq Request
    /\ receiver \in [Receiver -> Request \cup {NoRequest}]
    /\ \A d \in delivered : d \subseteq AllPieces

\* Request ids tell the messages apart.
Apart == \A m, n \in Message : RequestOf[m] = RequestOf[n] => m = n

\* A buffer holds pieces of its own request only, and the last piece of its
\* message if it says so.
BufferHolds(r) ==
    /\ \A p \in buffers_[r].segments : RequestOf[p.message] = r
    /\ buffers_[r].has_last_segment => \E p \in buffers_[r].segments : ~p.more

\* The inductive invariant.
TypeInv == BuffersOK /\ RestOK
IInv ==
    /\ TypeInv
    /\ Apart => \A r \in Request : BufferHolds(r)
    /\ DeliveredIntact

\* The pieces are those of the sizes, which no step changes.
LEMMA PiecesStay ==
    ASSUME UNCHANGED size
    PROVE  AllPieces' = AllPieces /\ \A m \in Message : Pieces(m)' = Pieces(m)
  BY DEF AllPieces, Pieces

\* A buffer stays a buffer when a piece is stored.
LEMMA StoredType ==
    ASSUME RestOK, NEW m \in Message, NEW p \in Pieces(m),
           NEW b \in [segments : SUBSET AllPieces, total_size : 0 .. MaxSize,
                      has_last_segment : BOOLEAN]
    PROVE  Stored(b, p) \in [segments : SUBSET AllPieces, total_size : 0 .. MaxSize,
                             has_last_segment : BOOLEAN]
  <1>1. p.offset \in 0 .. MaxSize
    BY PieceTypes DEF RestOK
  <1>2. p \in AllPieces
    BY DEF AllPieces
  <1>3. {q \in b.segments : q.offset # p.offset} \cup {p} \in SUBSET AllPieces
    BY <1>2
  <1>4. (b.has_last_segment \/ ~p.more) \in BOOLEAN
    OBVIOUS
  <1>5. (IF p.more THEN b.total_size ELSE p.offset) \in 0 .. MaxSize
    BY <1>1
  <1> QED
    BY <1>3, <1>4, <1>5 DEF Stored

\* Types are kept by every step.
LEMMA TypeStep ==
    ASSUME TypeInv, [Next]_vars
    PROVE  TypeInv'
  <1>0. UNCHANGED size
    BY DEF Next, vars, AddSegment, Reassemble, TimeoutElapses, CleanupExpired
  <1>1. AllPieces' = AllPieces
    BY <1>0, PiecesStay
  <1>2. NoBuffer \in [segments : SUBSET AllPieces, total_size : 0 .. MaxSize,
                      has_last_segment : BOOLEAN]
    <2>1. 0 \in 0 .. MaxSize
      BY TpReassemblyAssumption
    <2> QED
      BY <2>1, Zenon DEF NoBuffer
  <1> USE DEF TypeInv
  <1>3. ASSUME NEW t \in Receiver, NEW m \in Message, NEW p \in Pieces(m), AddSegment(t, p)
        PROVE  TypeInv'
    <2>1. p.message = m /\ RequestOf[m] \in Request
      BY PieceTypes, TpReassemblyAssumption DEF RestOK
    <2> DEFINE r == RequestOf[m]
    <2>2. Stored(buffers_[r], p) \in [segments : SUBSET AllPieces, total_size : 0 .. MaxSize,
                                      has_last_segment : BOOLEAN]
      BY <2>1, StoredType DEF BuffersOK
    <2>3. buffers_' = [buffers_ EXCEPT ![r] = Stored(buffers_[r], p)]
      BY <1>3, <2>1 DEF AddSegment
    <2>4. BuffersOK'
      <3> HIDE DEF r
      <3> QED
        BY <1>1, <2>2, <2>3 DEF BuffersOK
    <2>5. RestOK'
      BY <1>0, <1>1, <1>3, <2>1 DEF AddSegment, RestOK
    <2> QED
      BY <2>4, <2>5
  <1>4. ASSUME NEW t \in Receiver, Reassemble(t)
        PROVE  TypeInv'
    <2>1. BuffersOK'
      BY <1>1, <1>2, <1>4 DEF Reassemble, BuffersOK
    <2>2. receiver[t] \in Request
      BY <1>4 DEF Reassemble, RestOK
    <2>3. buffers_[receiver[t]].segments \subseteq AllPieces
      BY <2>2 DEF BuffersOK
    <2>4. RestOK'
      BY <1>0, <1>1, <1>4, <2>3 DEF Reassemble, RestOK
    <2> QED
      BY <2>1, <2>4
  <1>5. ASSUME NEW r \in Request, TimeoutElapses(r)
        PROVE  TypeInv'
    BY <1>0, <1>1, <1>5 DEF TimeoutElapses, BuffersOK, RestOK
  <1>6. CASE CleanupExpired
    BY <1>0, <1>1, <1>2, <1>6 DEF CleanupExpired, BuffersOK, RestOK
  <1>7. CASE UNCHANGED vars
    BY <1>1, <1>7 DEF vars, BuffersOK, RestOK
  <1> QED
    BY <1>3, <1>4, <1>5, <1>6, <1>7 DEF Next

\* Two pieces of a message with the same offset are one.
LEMMA OffsetsDiffer ==
    ASSUME RestOK, MaxSize < OffsetValues, NEW m \in Message,
           NEW p \in Pieces(m), NEW q \in Pieces(m), p.offset = q.offset
    PROVE  p = q
  <1>1. PICK f, K : Lists(f, K, m)
    BY PiecesAreListed DEF RestOK
  <1>2. PICK i \in 1 .. K : p = f[i]
    BY <1>1 DEF Lists
  <1>3. PICK j \in 1 .. K : q = f[j]
    BY <1>1 DEF Lists
  <1>4. /\ K \in Nat /\ f[i].offset \in Nat /\ f[j].offset \in Nat
        /\ i < j => f[i].offset < f[j].offset
        /\ j < i => f[j].offset < f[i].offset
    BY <1>1 DEF Lists
  <1> QED
    BY <1>2, <1>3, <1>4

\* All pieces in one buffer are of one message.
LEMMA OneMessage ==
    ASSUME TypeInv, Apart, NEW r \in Request, BufferHolds(r),
           NEW p \in buffers_[r].segments
    PROVE  /\ p.message \in Message
           /\ RequestOf[p.message] = r
           /\ buffers_[r].segments \subseteq Pieces(p.message)
  <1>1. ASSUME NEW q \in buffers_[r].segments
        PROVE  q.message \in Message /\ q \in Pieces(q.message) /\ RequestOf[q.message] = r
    <2>1. PICK m \in Message : q \in Pieces(m)
      BY DEF TypeInv, BuffersOK, AllPieces
    <2>2. q.message = m
      BY <2>1, PieceTypes DEF TypeInv, RestOK
    <2> QED
      BY <2>1, <2>2 DEF BufferHolds
  <1> QED
    BY <1>1 DEF Apart

\* A complete buffer holds the pieces of one message, and all of them.
LEMMA CompleteIsWhole ==
    ASSUME TypeInv, Apart, MaxSize < OffsetValues, NEW r \in Request,
           BufferHolds(r), is_complete_unlocked(buffers_[r])
    PROVE  \E m \in Message : buffers_[r].segments = Pieces(m)
  <1> DEFINE d == buffers_[r].segments
  <1>1. PICK p \in d : ~p.more
    BY DEF BufferHolds, is_complete_unlocked
  <1> DEFINE m == p.message
  <1>2. m \in Message /\ d \subseteq Pieces(m)
    BY OneMessage
  <1>3. PICK f, K : Lists(f, K, m)
    BY <1>2, PiecesAreListed DEF TypeInv, RestOK
  <1>4. \A q \in d : Reached({x \in d : x.offset < q.offset}, q.offset)
    BY DEF is_complete_unlocked
  <1> HIDE DEF d, m
  <1>5. d = Pieces(m)
    BY <1>1, <1>2, <1>3, <1>4, NoGapIsWhole
  <1> QED
    BY <1>2, <1>5 DEF d

\* Storing a piece keeps a buffer to its message and does not lose the last
\* piece: only the same piece has its offset.
LEMMA StoredHolds ==
    ASSUME TypeInv, Apart, MaxSize < OffsetValues,
           \A r \in Request : BufferHolds(r),
           NEW t \in Receiver, NEW m \in Message, NEW p \in Pieces(m), AddSegment(t, p)
    PROVE  \A r \in Request : BufferHolds(r)'
  <1> DEFINE o == RequestOf[m]
             b == buffers_[o]
  <1>1. p.message = m /\ o \in Request
    BY PieceTypes, TpReassemblyAssumption DEF TypeInv, RestOK
  <1>2. /\ buffers_'[o] = Stored(b, p)
        /\ \A r \in Request : r # o => buffers_'[r] = buffers_[r]
    BY <1>1 DEF AddSegment, TypeInv, BuffersOK
  <1>3. /\ buffers_'[o].segments = {q \in b.segments : q.offset # p.offset} \cup {p}
        /\ buffers_'[o].has_last_segment <=> b.has_last_segment \/ ~p.more
    <2>1. /\ Stored(b, p).segments = {q \in b.segments : q.offset # p.offset} \cup {p}
          /\ Stored(b, p).has_last_segment = (b.has_last_segment \/ ~p.more)
      BY DEF Stored
    <2> QED
      BY <1>2, <2>1
  <1> HIDE DEF b, o
  <1>4. \A q \in buffers_'[o].segments : RequestOf[q.message] = o
    BY <1>1, <1>3 DEF BufferHolds, b, o
  <1>5. ASSUME buffers_'[o].has_last_segment
        PROVE  \E q \in buffers_'[o].segments : ~q.more
    <2>1. CASE ~p.more
      BY <1>3, <2>1
    <2>2. CASE p.more
      <3>1. PICK q \in b.segments : ~q.more
        BY <1>1, <1>3, <1>5, <2>2 DEF BufferHolds, b
      <3>2. q.message \in Message /\ RequestOf[q.message] = o /\ q \in Pieces(q.message)
        BY <1>1, OneMessage DEF b
      <3>3. q \in Pieces(m)
        BY <3>2 DEF Apart, o
      <3>4. q.offset # p.offset
        BY <2>2, <3>1, <3>3, OffsetsDiffer DEF TypeInv
      <3> QED
        BY <1>3, <3>1, <3>4
    <2> QED
      BY <2>1, <2>2
  <1> QED
    BY <1>2, <1>4, <1>5 DEF BufferHolds

\* Every step keeps the rest of the invariant.
LEMMA HoldsStep ==
    ASSUME IInv, MaxSize < OffsetValues, [Next]_vars
    PROVE  (Apart => \A r \in Request : BufferHolds(r)') /\ DeliveredIntact'
  <1> DEFINE Holds == Apart => \A r \in Request : BufferHolds(r)
             Goal == (Apart => \A r \in Request : BufferHolds(r)') /\ DeliveredIntact'
  <1>0. UNCHANGED size
    BY DEF Next, vars, AddSegment, Reassemble, TimeoutElapses, CleanupExpired
  <1>1. \A m \in Message : Pieces(m)' = Pieces(m)
    BY <1>0, PiecesStay
  <1>2. delivered' = delivered => DeliveredIntact'
    BY <1>1 DEF IInv, DeliveredIntact
  <1>3. \A r \in Request : buffers_'[r] \in {buffers_[r], NoBuffer} /\ BufferHolds(r)
                            => BufferHolds(r)'
    BY DEF BufferHolds, NoBuffer
  <1>4. ASSUME NEW t \in Receiver, NEW m \in Message, NEW p \in Pieces(m), AddSegment(t, p)
        PROVE  Goal
    BY <1>2, <1>4, StoredHolds DEF IInv, AddSegment
  <1>5. ASSUME NEW t \in Receiver, Reassemble(t)
        PROVE  Goal
    <2>1. receiver[t] \in Request
      BY <1>5 DEF Reassemble, IInv, TypeInv, RestOK
    <2>2. \A r \in Request : buffers_'[r] \in {buffers_[r], NoBuffer}
      BY <1>5 DEF Reassemble, IInv, TypeInv, BuffersOK
    <2>3. CASE delivered' = delivered
      BY <1>2, <1>3, <2>2, <2>3 DEF IInv
    <2>4. CASE /\ is_complete_unlocked(buffers_[receiver[t]])
               /\ delivered' = delivered \cup {buffers_[receiver[t]].segments}
      <3>1. Apart => \E m \in Message : buffers_[receiver[t]].segments = Pieces(m)
        BY <2>1, <2>4, CompleteIsWhole DEF IInv
      <3>2. DeliveredIntact'
        BY <1>1, <2>4, <3>1 DEF IInv, DeliveredIntact, Apart
      <3> QED
        BY <1>3, <2>2, <3>2 DEF IInv
    <2> QED
      BY <1>5, <2>3, <2>4 DEF Reassemble
  <1>6. ASSUME NEW r \in Request, TimeoutElapses(r)
        PROVE  Goal
    BY <1>2, <1>3, <1>6 DEF TimeoutElapses, IInv
  <1>7. CASE CleanupExpired
    BY <1>2, <1>3, <1>7 DEF CleanupExpired, IInv
  <1>8. CASE UNCHANGED vars
    BY <1>2, <1>3, <1>8 DEF vars, IInv
  <1> QED
    BY <1>4, <1>5, <1>6, <1>7, <1>8 DEF Next

\* An empty reassembler satisfies the invariant.
LEMMA InitIInv == Init => IInv
  <1> SUFFICES ASSUME Init PROVE IInv
    OBVIOUS
  <1>1. NoBuffer \in [segments : SUBSET AllPieces, total_size : 0 .. MaxSize,
                      has_last_segment : BOOLEAN]
    <2>1. 0 \in 0 .. MaxSize
      BY TpReassemblyAssumption
    <2> QED
      BY <2>1, Zenon DEF NoBuffer
  <1>2. BuffersOK
    BY <1>1 DEF Init, BuffersOK
  <1>3. RestOK /\ DeliveredIntact
    BY DEF Init, RestOK, DeliveredIntact
  <1>4. \A r \in Request : BufferHolds(r)
    BY DEF Init, BufferHolds, NoBuffer
  <1> QED
    BY <1>2, <1>3, <1>4 DEF IInv, TypeInv

\* The reassembler keeps its types, whatever the sizes of messages: no segment
\* makes total_size larger than a message may be.
THEOREM ReassemblerTypes == Spec => []TypeOK
  <1>1. Init => TypeInv
    BY InitIInv DEF IInv
  <1>2. TypeInv /\ [Next]_vars => TypeInv'
    BY TypeStep
  <1>3. TypeInv => TypeOK
    <2> SUFFICES ASSUME TypeInv PROVE TypeOK
      OBVIOUS
    <2>1. \A r \in Request :
            /\ buffers_[r].segments \subseteq AllPieces
            /\ buffers_[r].total_size \in 0 .. MaxSize
            /\ buffers_[r].has_last_segment \in BOOLEAN
      BY DEF TypeInv, BuffersOK
    <2> QED
      BY <2>1 DEF TypeInv, RestOK, TypeOK, AllPieces
  <1> QED
    BY <1>1, <1>2, <1>3, PTL DEF Spec

\* What reassemble hands out is one message, whole, for any messages, sizes and
\* receive threads and any order, loss and repetition of segments, as long as
\* the 24 bits of an offset hold every place in a payload.
THEOREM ReassembledIsIntact ==
    ASSUME MaxSize < OffsetValues
    PROVE  Spec => []DeliveredIntact
  <1>1. IInv /\ [Next]_vars => IInv'
    <2> SUFFICES ASSUME IInv, [Next]_vars PROVE IInv'
      OBVIOUS
    <2>1. TypeInv'
      BY TypeStep DEF IInv
    <2>2. Apart' <=> Apart
      BY DEF Apart
    <2> QED
      BY <2>1, <2>2, HoldsStep DEF IInv
  <1>2. IInv => DeliveredIntact
    BY DEF IInv
  <1> QED
    BY <1>1, <1>2, InitIInv, PTL DEF Spec
=============================================================================
