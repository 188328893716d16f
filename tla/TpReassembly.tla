---------------------------- MODULE TpReassembly ----------------------------
(***************************************************************************)
(* SOME/IP-TP on the receiving side (src/tp/tp_reassembler.cpp) and the    *)
(* way Runtime uses it (on_udp_message_received, on_tcp_message_received): *)
(* receive threads add the segments that arrive, and the thread whose      *)
(* segment completes a message takes it out.  The two are separate         *)
(* critical sections of mutex_.                                            *)
(*                                                                         *)
(* Segments come from TpSegmenter, or from a peer that ends a message with *)
(* a segment of length 0.  The network delivers them in any order, any     *)
(* number of times or not at all.  A byte is known by its message and its  *)
(* place in it, so that a payload is a set of pieces.                      *)
(***************************************************************************)
EXTENDS TpSegmenter

CONSTANTS Message,
          Request,       \* request ids
          RequestOf,     \* the request id of each message
          EmptyTail,     \* messages that end with an empty segment
          Receiver,      \* receive threads
          NoRequest,
          SegmentSize,   \* max_segment_size
          MaxSize        \* bound on the size of a payload

ASSUME TpReassemblyAssumption ==
    /\ RequestOf \in [Message -> Request]
    /\ EmptyTail \subseteq Message
    /\ NoRequest \notin Request
    /\ SegmentSize \in Nat \ {0}
    /\ MaxSize \in Nat

VARIABLES size,       \* payload size of each message
          buffers_,   \* reassembly buffer of each request id
          expired,    \* request ids whose buffer is older than timeout_
          receiver,   \* request id each thread is about to reassemble
          delivered   \* the payloads of the messages reassembled

vars == <<size, buffers_, expired, receiver, delivered>>

\* A segment of message m as it travels and is stored.
Piece(m, seg) ==
    [message |-> m, start |-> seg.start, offset |-> seg.offset,
     length |-> seg.length, more |-> seg.more]

\* The pieces of a message on the network.
Pieces(m) ==
    LET segs == segment(size[m], SegmentSize)
        tail == [start |-> size[m], offset |-> size[m] % OffsetValues,
                 length |-> 0, more |-> FALSE]
    IN  IF m \in EmptyTail
        THEN {Piece(m, [segs[i] EXCEPT !.more = TRUE]) : i \in DOMAIN segs}
               \cup {Piece(m, tail)}
        ELSE {Piece(m, segs[i]) : i \in DOMAIN segs}

NoBuffer == [segments |-> {}, total_size |-> 0, has_last_segment |-> FALSE]

\* The running sum of lengths, expected_offset, after the segments of S: the
\* end of the last one, since each of them starts where the sum is.
Reached(S, expected_offset) ==
    IF S = {} THEN expected_offset = 0
    ELSE \E p \in S :
            /\ \A q \in S : q.offset <= p.offset
            /\ p.offset + p.length = expected_offset

\* Mutant of is_complete_unlocked: gaps are not looked for.
is_complete_by_size(b) ==
    b.has_last_segment /\ Reached(b.segments, b.total_size)

\* Every segment starts where the ones before it end, and the last one ends
\* where the message does.
is_complete_unlocked(b) ==
    /\ b.has_last_segment
    /\ \A p \in b.segments :
         Reached({q \in b.segments : q.offset < p.offset}, p.offset)
    /\ Reached(b.segments, b.total_size)

Init ==
    /\ size \in [Message -> SegmentSize + 1 .. MaxSize]
    /\ buffers_ = [r \in Request |-> NoBuffer]
    /\ expired = {}
    /\ receiver = [t \in Receiver |-> NoRequest]
    /\ delivered = {}

\* Mutant of Stored: the last segment is taken to be a full one.
StoredAsFull(b, p) ==
    [segments |-> {q \in b.segments : q.offset # p.offset} \cup {p},
     total_size |-> IF p.more THEN b.total_size ELSE p.offset + SegmentSize,
     has_last_segment |-> b.has_last_segment \/ ~p.more]

\* add_segment.  The data are moved into the buffer before their size is read:
\* a moved-from vector is empty, and total_size is the offset of the last
\* segment.
Stored(b, p) ==
    [segments |-> {q \in b.segments : q.offset # p.offset} \cup {p},
     total_size |-> IF p.more THEN b.total_size ELSE p.offset,
     has_last_segment |-> b.has_last_segment \/ ~p.more]

\* A receive thread gets a TP message: add_segment, which returns whether the
\* message is complete.
AddSegment(t, p) ==
    LET r == RequestOf[p.message] IN
    /\ receiver[t] = NoRequest
    /\ buffers_' = [buffers_ EXCEPT ![r] = Stored(@, p)]
    /\ receiver' = [receiver EXCEPT
                      ![t] = IF is_complete_unlocked(buffers_'[r]) THEN r
                                                                   ELSE NoRequest]
    /\ UNCHANGED <<size, expired, delivered>>

\* reassemble: the pieces in the order of their offsets, unless another thread
\* was faster.
Reassemble(t) ==
    LET r == receiver[t] IN
    /\ r # NoRequest
    /\ \/ /\ is_complete_unlocked(buffers_[r])
          /\ delivered' = delivered \cup {buffers_[r].segments}
          /\ buffers_' = [buffers_ EXCEPT ![r] = NoBuffer]
          /\ expired' = expired \ {r}
       \/ /\ ~is_complete_unlocked(buffers_[r])
          /\ UNCHANGED <<delivered, buffers_, expired>>
    /\ receiver' = [receiver EXCEPT ![t] = NoRequest]
    /\ UNCHANGED size

\* The timeout since the first segment of a buffer elapses.
TimeoutElapses(r) ==
    /\ buffers_[r].segments # {}
    /\ r \notin expired
    /\ expired' = expired \cup {r}
    /\ UNCHANGED <<size, buffers_, receiver, delivered>>

\* cleanup_expired, which the user of a TpReassembler has to call.
CleanupExpired ==
    /\ buffers_' = [r \in Request |-> IF r \in expired THEN NoBuffer ELSE buffers_[r]]
    /\ expired' = {}
    /\ UNCHANGED <<size, receiver, delivered>>

Next ==
    \/ \E t \in Receiver, m \in Message : \E p \in Pieces(m) : AddSegment(t, p)
    \/ \E t \in Receiver : Reassemble(t)
    \/ \E r \in Request : TimeoutElapses(r)
    \/ CleanupExpired

Spec == Init /\ [][Next]_vars

-----------------------------------------------------------------------------
(* Properties. *)

\* The type of every variable.
TypeOK ==
    /\ size \in [Message -> SegmentSize + 1 .. MaxSize]
    /\ \A r \in Request :
         /\ buffers_[r].segments \subseteq UNION {Pieces(m) : m \in Message}
         /\ buffers_[r].total_size \in 0 .. MaxSize
         /\ buffers_[r].has_last_segment \in BOOLEAN
    /\ expired \subseteq Request
    /\ receiver \in [Receiver -> Request \cup {NoRequest}]
    /\ \A d \in delivered : d \subseteq UNION {Pieces(m) : m \in Message}

\* TpSegmenter cuts every payload into a partition of it.
SegmentsPartition ==
    \A m \in Message :
        Partition(size[m], SegmentSize, segment(size[m], SegmentSize))

\* A reassembled payload is the payload of one message, whole, however its
\* segments were reordered, duplicated, lost, expired half way or spread over
\* threads: no piece is missing and none comes from another message.  Request
\* ids have to tell the messages apart.
DeliveredIntact ==
    (\A m, n \in Message : RequestOf[m] = RequestOf[n] => m = n)
    => \A d \in delivered : \E m \in Message : d = Pieces(m)

\* "Returns true if this completes a message": no buffer holds all segments of
\* a message without some thread having been told so.
CompletionIsReported ==
    \A m \in Message :
        Pieces(m) \subseteq buffers_[RequestOf[m]].segments
        => \E t \in Receiver : receiver[t] = RequestOf[m]
=============================================================================
