------------------------------ MODULE WriterCall ------------------------------
(***************************************************************************)
(* runOnWriterLoopSync() of LegacyTransfer: a thread has a function run on *)
(* the IO loop of a connection and waits for it, but gives up after five   *)
(* seconds if the loop has not begun.  On the loop's own thread the        *)
(* function is called at once.                                             *)
(*                                                                         *)
(* A step is a critical section of the call's mutex or what happens        *)
(* between two of them.  The condition variable may wake its waiter for    *)
(* no reason, which changes nothing; when time runs out is the waiter's    *)
(* choice.                                                                 *)
(***************************************************************************)
EXTENDS Naturals, Sequences

CONSTANTS
    Call,   \* SyncWriterCall objects that may exist at a time
    NoCall  \* no such object

ASSUME CallAssumption == NoCall \notin Call

VARIABLES
    attached,  \* the writer has an io and a loop to post to
    caller,    \* how far the thread that made each call has got
    fn,        \* the call still holds its function
    started,   \* SyncWriterCall::started
    done,      \* SyncWriterCall::done
    loop,      \* events posted to the loop, oldest first
    io, cur    \* the loop's thread: its position, the call it is at

syncCall == <<fn, started, done>>
loopThread == <<io, cur>>
callVars == <<attached, caller, syncCall, loop, loopThread>>

\* The loop may still hold the event of a call that was given up earlier.
CallInit ==
    /\ attached = TRUE
    /\ caller = [c \in Call |-> "free"]
    /\ fn = [c \in Call |-> FALSE]
    /\ started = [c \in Call |-> FALSE]
    /\ done = [c \in Call |-> FALSE]
    /\ loop \in {<<>>} \cup {<<c>> : c \in Call}
    /\ io = "idle" /\ cur = NoCall

Posted(c) == \E i \in 1 .. Len(loop) : loop[i] = c

-----------------------------------------------------------------------------
(* The thread that makes the call. *)
HandlerCalls == \E c \in Call : caller[c] \in {"inline", "running", "run"}

CallerMoves(c, from, to) ==
    /\ caller[c] = from
    /\ caller' = [caller EXCEPT ![c] = to]

(* Neither its caller nor an event that was posted refers to the object.   *)
Unused(c) == caller[c] = "free" /\ ~Posted(c) /\ cur # c

Begins(c, next) ==
    /\ Unused(c)
    /\ CallerMoves(c, "free", next)
    /\ fn' = [fn EXCEPT ![c] = TRUE]
    /\ started' = [started EXCEPT ![c] = FALSE]
    /\ done' = [done EXCEPT ![c] = FALSE]
    /\ UNCHANGED <<attached, loopThread>>

(* The writer has lost its io or its loop. *)
CallRefused(c) ==
    /\ ~attached
    /\ Begins(c, "no")
    /\ UNCHANGED loop

PostCall(c) ==
    /\ attached
    /\ Begins(c, "waiting")
    /\ loop' = Append(loop, c)

(* The caller is the loop's thread: fn() is called as it is. *)
CallInline(c) ==
    /\ attached
    /\ io = "handler" /\ ~HandlerCalls
    /\ Begins(c, "inline")
    /\ UNCHANGED loop

StartInline(c) ==
    /\ CallerMoves(c, "inline", "running")
    /\ UNCHANGED <<attached, syncCall, loop, loopThread>>

RunInline(c) ==
    /\ CallerMoves(c, "running", "run")
    /\ UNCHANGED <<attached, syncCall, loop, loopThread>>

InlineReturns(c) ==
    /\ CallerMoves(c, "run", "yes")
    /\ UNCHANGED <<attached, syncCall, loop, loopThread>>

CallDone(c) ==
    /\ done[c]
    /\ CallerMoves(c, "waiting", "yes")
    /\ UNCHANGED <<attached, syncCall, loop, loopThread>>

\* Deliberate fault: the caller gives up whether the loop has begun or not.
GiveUpAnyway(c) ==
    /\ ~done[c]
    /\ CallerMoves(c, "waiting", "no")
    /\ fn' = [fn EXCEPT ![c] = FALSE]
    /\ done' = [done EXCEPT ![c] = TRUE]
    /\ UNCHANGED <<attached, started, loop, loopThread>>

\* Deliberate fault: the function is not taken out of the call given up.
GiveUpKeepingFn(c) ==
    /\ ~done[c] /\ ~started[c]
    /\ CallerMoves(c, "waiting", "no")
    /\ done' = [done EXCEPT ![c] = TRUE]
    /\ UNCHANGED <<attached, fn, started, loop, loopThread>>

(* kWriterLoopCallTimeoutMs have passed and the loop has not begun: the    *)
(* function is taken out of the call.                                      *)
GiveUp(c) ==
    /\ ~done[c] /\ ~started[c]
    /\ CallerMoves(c, "waiting", "no")
    /\ fn' = [fn EXCEPT ![c] = FALSE]
    /\ done' = [done EXCEPT ![c] = TRUE]
    /\ UNCHANGED <<attached, started, loop, loopThread>>

(* The caller has used the answer. *)
EndCall(c) ==
    /\ caller[c] \in {"yes", "no"}
    /\ CallerMoves(c, caller[c], "free")
    /\ UNCHANGED <<attached, syncCall, loop, loopThread>>

-----------------------------------------------------------------------------
(* The loop's thread, for the call of its oldest event. *)
Takes(c) ==
    /\ io = "idle"
    /\ loop # <<>> /\ Head(loop) = c
    /\ loop' = Tail(loop)
    /\ io' = IF fn[c] THEN "running" ELSE "run"
    /\ cur' = c

\* Deliberate fault: "started" is not set.
StartCallUnmarked(c) ==
    /\ Takes(c)
    /\ UNCHANGED <<attached, caller, syncCall>>

(* First critical section: "started" is set and the function copied, if it *)
(* is still there.                                                         *)
StartCall(c) ==
    /\ Takes(c)
    /\ started' = [started EXCEPT ![c] = TRUE]
    /\ UNCHANGED <<attached, caller, fn, done>>

(* The function has run. *)
RunCall(c) ==
    /\ io = "running" /\ cur = c
    /\ io' = "run"
    /\ UNCHANGED <<attached, caller, syncCall, loop, cur>>

(* Second critical section. *)
FinishCall(c) ==
    /\ io = "run" /\ cur = c
    /\ fn' = [fn EXCEPT ![c] = FALSE]
    /\ done' = [done EXCEPT ![c] = TRUE]
    /\ io' = "idle" /\ cur' = NoCall
    /\ UNCHANGED <<attached, caller, started, loop>>

CallStep(c) ==
    \/ CallRefused(c) \/ PostCall(c) \/ CallInline(c) \/ StartInline(c) \/ RunInline(c)
    \/ InlineReturns(c) \/ CallDone(c) \/ GiveUp(c) \/ EndCall(c)

LoopStep(c) == StartCall(c) \/ RunCall(c) \/ FinishCall(c)

-----------------------------------------------------------------------------
(* By itself: callers make calls, the loop's thread also handles requests  *)
(* that may make calls, and the connection may go.                         *)
HandlerBegins ==
    /\ io = "idle" /\ io' = "handler"
    /\ UNCHANGED <<attached, caller, syncCall, loop, cur>>

HandlerReturns ==
    /\ io = "handler" /\ io' = "idle"
    /\ ~HandlerCalls
    /\ UNCHANGED <<attached, caller, syncCall, loop, cur>>

Detach ==
    /\ attached /\ attached' = FALSE
    /\ UNCHANGED <<caller, syncCall, loop, loopThread>>

CallNext ==
    \/ \E c \in Call : CallStep(c) \/ LoopStep(c)
    \/ HandlerBegins \/ HandlerReturns \/ Detach

CallSpec == CallInit /\ [][CallNext]_callVars

-----------------------------------------------------------------------------
CallTypeOK ==
    /\ attached \in BOOLEAN
    /\ caller \in [Call -> {"free", "inline", "waiting", "running", "run", "yes", "no"}]
    /\ fn \in [Call -> BOOLEAN]
    /\ started \in [Call -> BOOLEAN]
    /\ done \in [Call -> BOOLEAN]
    /\ loop \in Seq(Call)
    /\ io \in {"idle", "running", "run", "handler"}
    /\ cur \in Call \cup {NoCall}

(* How far a call has got, as its caller may think of it. *)
CallStatus(c) ==
    IF caller[c] = "inline" THEN "asked"
    ELSE IF caller[c] # "waiting" THEN caller[c]
    ELSE IF cur = c THEN io
    ELSE IF done[c] THEN "run" ELSE "asked"

Remote == INSTANCE RemoteCall WITH status <- [c \in Call |-> CallStatus(c)]

(* The promise of RemoteCall: a function runs at most once, never after    *)
(* its caller was told that it did not or has gone on, and has run when    *)
(* its caller is told so - also when the five seconds end at the moment    *)
(* the loop begins.                                                        *)
ImplementsRemoteCall == Remote!Spec
===============================================================================
