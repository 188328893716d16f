---------------------------- MODULE BoundedFifo ----------------------------
(***************************************************************************)
(* What a queue in shared memory promises the processes at its two ends:   *)
(* items come out in the order they went in, none is lost, repeated or     *)
(* made up, and there are never more than Bound of them.                   *)
(***************************************************************************)
EXTENDS Naturals, Sequences

CONSTANTS Item, Bound

VARIABLE queue

Init == queue = <<>>

Put(x) ==
    /\ Len(queue) < Bound
    /\ queue' = Append(queue, x)

Take ==
    /\ queue # <<>>
    /\ queue' = Tail(queue)

Next == (\E x \in Item : Put(x)) \/ Take

Spec == Init /\ [][Next]_queue
=============================================================================
