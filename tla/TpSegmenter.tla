---------------------------- MODULE TpSegmenter ----------------------------
(***************************************************************************)
(* TpSegmenter (src/tp/tp_segmenter.cpp): how a payload of a given size is *)
(* cut.  A segment is what its TP header and its length say of it: offset, *)
(* length and more flag; start is where its bytes come from.               *)
(***************************************************************************)
EXTENDS Integers

CONSTANTS OffsetValues   \* number of values of TpHeader::offset, 2^24

ASSUME TpSegmenterAssumption == OffsetValues \in Nat \ {0}

needs_segmentation(payload_size, max_segment_size) ==
    payload_size > max_segment_size

\* Mutant of get_segment_count: division without rounding up.
segment_count_rounded_down(payload_size, max_segment_size) ==
    payload_size \div max_segment_size

get_segment_count(payload_size, max_segment_size) ==
    IF payload_size = 0 THEN 1
    ELSE (payload_size + max_segment_size - 1) \div max_segment_size

\* Turn i of the loop of segment, from 1.  All turns before it were full, so
\* offset is a multiple of max_segment_size.
Cut(payload_size, max_segment_size, i) ==
    LET offset == (i - 1) * max_segment_size
        rest == payload_size - offset
        length == IF max_segment_size < rest THEN max_segment_size ELSE rest
    IN  [start  |-> offset,
         offset |-> offset % OffsetValues,
         length |-> length,
         more   |-> offset + length < payload_size]

\* The loop of segment: the segments of a payload that needs segmentation, in
\* a message whose type has a TP counterpart.  (A payload that fits is copied
\* into one plain message, and for other types the list is empty.)
segment(payload_size, max_segment_size) ==
    [i \in 1 .. get_segment_count(payload_size, max_segment_size) |->
        Cut(payload_size, max_segment_size, i)]

-----------------------------------------------------------------------------
\* A correct cut: segments follow one another without gap or overlap from the
\* first byte to the last, none is empty or too long, and the last one, and
\* no other, says that no more follow.
Partition(payload_size, max_segment_size, segs) ==
    LET n == get_segment_count(payload_size, max_segment_size) IN
    /\ n > 1
    /\ segs[1].start = 0
    /\ \A i \in 1 .. n :
         /\ segs[i].length \in 1 .. max_segment_size
         /\ segs[i].more <=> i < n
         /\ segs[i].start + segs[i].length =
              IF i < n THEN segs[i + 1].start ELSE payload_size
=============================================================================
