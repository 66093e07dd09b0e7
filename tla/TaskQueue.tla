------------------------------- MODULE TaskQueue -------------------------------
(***************************************************************************)
(* What a pool of workers promises whoever submits tasks: tasks start in   *)
(* the order in which they were accepted, each one once, and only while    *)
(* the pool is open; one is refused only by a pool that is closed or full. *)
(* A task may be accepted by a pool that was closed meanwhile, and then    *)
(* waits until the pool is opened again.                                   *)
(***************************************************************************)
EXTENDS Naturals, Sequences

CONSTANTS Task,  \* what clients submit
          Limit  \* how many tasks may wait, 0 for any number

VARIABLES open,   \* does the pool run?
          queue,  \* the tasks that wait, oldest first
          status  \* what became of each task

queueVars == <<open, queue, status>>

Full == Limit > 0 /\ Len(queue) >= Limit

Init ==
    /\ open = FALSE
    /\ queue = <<>>
    /\ status = [a \in Task |-> "new"]

Becomes(a, from, to) ==
    /\ status[a] = from
    /\ status' = [status EXCEPT ![a] = to]

Accept(a) ==
    /\ ~Full
    /\ Becomes(a, "new", "queued")
    /\ queue' = Append(queue, a)
    /\ UNCHANGED open

Refuse(a) ==
    /\ Full \/ ~open
    /\ Becomes(a, "new", "refused")
    /\ UNCHANGED <<open, queue>>

Start ==
    /\ open /\ queue # <<>>
    /\ Becomes(Head(queue), "queued", "running")
    /\ queue' = Tail(queue)
    /\ UNCHANGED open

Finish(a) ==
    /\ Becomes(a, "running", "done")
    /\ UNCHANGED <<open, queue>>

OpenOrClose ==
    /\ open' = ~open
    /\ UNCHANGED <<queue, status>>

Next ==
    \/ \E a \in Task : Accept(a) \/ Refuse(a) \/ Finish(a)
    \/ Start \/ OpenOrClose

Spec == Init /\ [][Next]_queueVars
===============================================================================
