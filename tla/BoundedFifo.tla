----------------------------- MODULE BoundedFifo ------------------------------
(***************************************************************************)
(* What a bounded FIFO promises its clients: items come out in the order   *)
(* they went in, each one once, and a push is refused only when the queue  *)
(* is full.  An operation takes effect in one step.                        *)
(***************************************************************************)
EXTENDS Naturals, Sequences

CONSTANTS Value, \* what clients push
          Bound, \* how many items fit
          None   \* nothing handed out yet

VARIABLES queue,   \* the items inside, oldest first
          taken,   \* the item the last successful pop returned
          refused  \* how many pushes were refused

fifoVars == <<queue, taken, refused>>

Init ==
    /\ queue = <<>>
    /\ taken = None
    /\ refused = 0

Enqueue(v) ==
    /\ Len(queue) < Bound
    /\ queue' = Append(queue, v)
    /\ UNCHANGED <<taken, refused>>

Refuse ==
    /\ Len(queue) = Bound
    /\ refused' = refused + 1
    /\ UNCHANGED <<queue, taken>>

Dequeue ==
    /\ queue # <<>>
    /\ taken' = Head(queue)
    /\ queue' = Tail(queue)
    /\ UNCHANGED refused

Next == (\E v \in Value : Enqueue(v)) \/ Refuse \/ Dequeue

Spec == Init /\ [][Next]_fifoVars
===============================================================================
