----------------------------- MODULE FileTransfer -----------------------------
(***************************************************************************)
(* What a file transfer strategy promises to the handler that calls its    *)
(* send(): onComplete hears of a download once at most, of its success     *)
(* only when the writer has accepted every unit the client was promised,   *)
(* and no unit is accepted before the promise or after the report, nor     *)
(* accepted twice.  A download may also fail halfway, or be answered or    *)
(* refused without anything sent in pieces.                                *)
(***************************************************************************)
EXTENDS Naturals

CONSTANT Transfer  \* the downloads

VARIABLES phase,  \* of each download
          owed    \* units promised that the writer has not accepted

contract == <<phase, owed>>

Init ==
    /\ phase = [t \in Transfer |-> "new"]
    /\ owed = [t \in Transfer |-> 0]

Moves(t, from, to) ==
    /\ phase[t] \in from
    /\ phase' = [phase EXCEPT ![t] = to]

Owes(t, units) ==
    /\ units \in Nat
    /\ owed' = [owed EXCEPT ![t] = units]

Promise(t) == Moves(t, {"new"}, "sending") /\ Owes(t, owed'[t])

Accept(t) ==
    /\ phase[t] = "sending" /\ owed'[t] < owed[t]
    /\ Owes(t, owed'[t])
    /\ UNCHANGED phase

Succeed(t) ==
    /\ owed[t] = 0
    /\ Moves(t, {"new", "sending"}, "success")
    /\ UNCHANGED owed

Fail(t) ==
    /\ Moves(t, {"new", "sending"}, "failure")
    /\ UNCHANGED owed

Next == \E t \in Transfer : Promise(t) \/ Accept(t) \/ Succeed(t) \/ Fail(t)

Spec == Init /\ [][Next]_contract
===============================================================================
