------------------------------ MODULE RemoteCall ------------------------------
(***************************************************************************)
(* What runOnWriterLoopSync() promises a caller who wants a function run   *)
(* on the loop's thread and waits for it.  The function works on variables *)
(* of the caller, so it must not be running, nor begin to run, once the    *)
(* caller was answered: "yes" means it has run, once; "no" means it has    *)
(* not and never will.                                                     *)
(***************************************************************************)
CONSTANT Call   \* the calls that may be under way at a time

VARIABLE status \* how far each of them has got

Status == {"free", "asked", "running", "run", "yes", "no"}

Init == status = [c \in Call |-> "free"]

Moves(c, from, to) ==
    /\ status[c] = from
    /\ status' = [status EXCEPT ![c] = to]

Ask(c) == Moves(c, "free", "asked")
Refuse(c) == Moves(c, "free", "no")
Start(c) == Moves(c, "asked", "running")
Finish(c) == Moves(c, "running", "run")
AnswerYes(c) == Moves(c, "run", "yes")
AnswerNo(c) == Moves(c, "asked", "no")

(* The call is forgotten, which lets another one be made in its place.     *)
Forget(c) == Moves(c, "yes", "free") \/ Moves(c, "no", "free")

Next ==
    \E c \in Call :
        \/ Ask(c) \/ Refuse(c) \/ Start(c) \/ Finish(c)
        \/ AnswerYes(c) \/ AnswerNo(c) \/ Forget(c)

Spec == Init /\ [][Next]_status
===============================================================================
