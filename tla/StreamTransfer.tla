---------------------------- MODULE StreamTransfer ----------------------------
(***************************************************************************)
(* StreamTransfer: file downloads over one keep-alive connection.  A task  *)
(* on a worker thread runs the route's handler, whose send() prepares a    *)
(* TransferState and posts an event to the IO loop of the connection's     *)
(* writer; from then on the loop's thread drives the transfer through the  *)
(* writer's callbacks onwrite and onclose until finish().  The route ends  *)
(* the response itself unless it finds it handed off: a handler, or a      *)
(* middleware around it, that throws after send() makes the route end a    *)
(* response whose transfer has taken over.  A connection is followed no    *)
(* further than that: no request is read from it afterwards.               *)
(*                                                                         *)
(* The library's writer, loop and socket are external and modelled as the  *)
(* code uses them: events run in the order they were posted; a write is    *)
(* accepted and drained at once, which calls onwrite before the call       *)
(* returns, or is buffered, or fails on a connection that is gone or on a  *)
(* response that was ended before; the connection may go at any moment and *)
(* onclose is called once, later.                                          *)
(* Bytes are counted in units of which ChunkSize make one chunk.           *)
(***************************************************************************)
EXTENDS Integers, Sequences, FiniteSets

CONSTANTS
    Transfer,   \* the requests of one connection, each a download
    MaxLen,     \* bound: units a client may ask for
    ChunkSize,  \* kChunkSize
    None        \* no transfer

ASSUME LengthAssumption == MaxLen \in Nat
ASSUME ChunkAssumption == ChunkSize \in Nat \ {0}
ASSUME NoneAssumption == None \notin Transfer

VARIABLES
    connected,        \* writer->isConnected()
    closeSeen,        \* the connection's close has been handled
    attached,         \* the writer still has an io and a loop to post to
    buffered,         \* ~writer->isWriteComplete()
    served,           \* the request whose response the writer holds
    begun,            \* writer->state # SEND_BEGIN: headers or End() went out
    thrown,           \* an exception left a transfer's response to the route (history)
    onwrite, onclose, \* whose pump and finish the writer's callbacks call
    loop,             \* events posted to the IO loop, oldest first
    io, cur, frames,  \* IO thread: position, transfer, pump() calls on its stack
    wpc,              \* worker: progress of each request's task
    handedOff,        \* ctx.isStreamingHandoff(): the response was marked
    state,            \* TransferState: not yet there, live, finished, destroyed
    len, remaining,   \* units promised in Content-Length, still to be read
    avail,            \* units the file still holds
    pumping, owned,   \* TransferState::pumping, ownership # null
    active, errors,   \* TransferStats: activeCount, errorCount
    sent,             \* units the writer accepted (history)
    ends,             \* calls of writer->End() (history)
    reports           \* arguments onComplete was called with (history)

socket == <<connected, closeSeen, attached>>
response == <<served, begun, thrown>>
callbacks == <<onwrite, onclose>>
ioVars == <<io, cur, frames>>
task == <<wpc, handedOff>>
file == <<len, remaining, avail>>
outcome == <<state, owned, active, errors, reports>>
vars == <<socket, response, buffered, callbacks, loop, ioVars, task, file, pumping, outcome,
          sent, ends>>

Event == [kind : {"start", "empty", "cleanup"}, of : Transfer]
EventOf(kind, t) == [kind |-> kind, of |-> t]

Least(m, n) == IF m < n THEN m ELSE n

Init ==
    /\ connected = TRUE /\ closeSeen = FALSE /\ attached = TRUE
    /\ buffered = FALSE
    /\ served = None /\ begun = FALSE /\ thrown = FALSE
    /\ onwrite = None /\ onclose = None
    /\ loop = <<>>
    /\ io = "idle" /\ cur = None /\ frames = 0
    /\ wpc = [t \in Transfer |-> "none"]
    /\ handedOff = [t \in Transfer |-> FALSE]
    /\ state = [t \in Transfer |-> "none"]
    /\ len = [t \in Transfer |-> 0]
    /\ remaining = [t \in Transfer |-> 0]
    /\ avail = [t \in Transfer |-> 0]
    /\ pumping = [t \in Transfer |-> FALSE]
    /\ owned = [t \in Transfer |-> FALSE]
    /\ active = 0 /\ errors = 0
    /\ sent = [t \in Transfer |-> 0]
    /\ ends = [t \in Transfer |-> 0]
    /\ reports = [t \in Transfer |-> <<>>]

-----------------------------------------------------------------------------
(* recordEnd(success) and onComplete(success). *)
Report(t, success) ==
    /\ active' = active - 1
    /\ errors' = IF success THEN errors ELSE errors + 1
    /\ reports' = [reports EXCEPT ![t] = Append(@, success)]

(* Deliberate fault: the writer is released without waiting for the loop.  *)
FinishReleasingAtOnce(t, success, rest) ==
    IF state[t] = "finished"
    THEN loop' = rest /\ UNCHANGED outcome
    ELSE /\ state' = [state EXCEPT ![t] = "finished"]
         /\ Report(t, success)
         /\ loop' = rest
         /\ owned' = [owned EXCEPT ![t] = FALSE]

(* Deliberate fault: scheduleCleanup() is forgotten. *)
FinishWithoutCleanup(t, success, rest) ==
    IF state[t] = "finished"
    THEN loop' = rest /\ UNCHANGED outcome
    ELSE /\ state' = [state EXCEPT ![t] = "finished"]
         /\ Report(t, success)
         /\ loop' = rest
         /\ UNCHANGED owned

(* Deliberate fault: finish() does not return early the second time.        *)
FinishAgain(t, success, rest) ==
    /\ state' = [state EXCEPT ![t] = "finished"]
    /\ Report(t, success)
    /\ loop' = Append(rest, EventOf("cleanup", t))
    /\ UNCHANGED owned

(* finish(): the first call decides.  "rest" is what the loop holds apart  *)
(* from the cleanup event; if it cannot be posted, ownership is released   *)
(* at once.                                                                *)
Finish(t, success, rest) ==
    IF state[t] = "finished"
    THEN loop' = rest /\ UNCHANGED outcome
    ELSE /\ state' = [state EXCEPT ![t] = "finished"]
         /\ Report(t, success)
         /\ loop' = IF attached THEN Append(rest, EventOf("cleanup", t)) ELSE rest
         /\ owned' = IF attached THEN owned ELSE [owned EXCEPT ![t] = FALSE]

-----------------------------------------------------------------------------
WorkerMoves(t, from, to) ==
    /\ wpc[t] = from
    /\ wpc' = [wpc EXCEPT ![t] = to]

ResponseOpen == \E t \in Transfer : wpc[t] # "none" /\ ends[t] = 0

(* The next request of the connection is read, once the response to the    *)
(* last one has been ended, and its task is given to the dispatcher.       *)
Dispatch(t) ==
    /\ io = "idle" /\ connected
    /\ ~ResponseOpen /\ ~thrown
    /\ WorkerMoves(t, "none", "opening")
    /\ served' = t /\ begun' = FALSE
    /\ UNCHANGED <<socket, thrown, buffered, callbacks, loop, ioVars, handedOff>>
    /\ UNCHANGED <<file, pumping, outcome, sent, ends>>

(* send() answers 500 itself: no writer, no loop, or the file cannot be    *)
(* opened or positioned.  The statistics know nothing of it.               *)
SendRefused(t) ==
    /\ WorkerMoves(t, "opening", "returned")
    /\ reports' = [reports EXCEPT ![t] = Append(@, FALSE)]
    /\ UNCHANGED <<socket, response, buffered, callbacks, loop, ioVars, handedOff>>
    /\ UNCHANGED <<file, pumping, state, owned, active, errors, sent, ends>>

(* The TransferState is made and recordStart() called.  The file may be    *)
(* shorter than the length the handler measured.                           *)
SendPrepares(t) ==
    /\ WorkerMoves(t, "opening", "prepared")
    /\ \E n \in 0 .. MaxLen : \E a \in 0 .. n :
        /\ len' = [len EXCEPT ![t] = n]
        /\ remaining' = [remaining EXCEPT ![t] = n]
        /\ avail' = [avail EXCEPT ![t] = a]
    /\ state' = [state EXCEPT ![t] = "live"]
    /\ owned' = [owned EXCEPT ![t] = TRUE]
    /\ active' = active + 1
    /\ UNCHANGED <<socket, response, buffered, callbacks, loop, ioVars, handedOff>>
    /\ UNCHANGED <<pumping, errors, reports, sent, ends>>

(* Memory runs out before the event is posted, before the response is      *)
(* marked as handed off or after: ~TransferState() reports.                *)
SendThrows(t) ==
    /\ WorkerMoves(t, "prepared", "returned")
    /\ state' = [state EXCEPT ![t] = "destroyed"]
    /\ owned' = [owned EXCEPT ![t] = FALSE]
    /\ Report(t, FALSE)
    /\ handedOff' \in {handedOff, [handedOff EXCEPT ![t] = TRUE]}
    /\ UNCHANGED <<socket, response, buffered, callbacks, loop, ioVars>>
    /\ UNCHANGED <<file, pumping, sent, ends>>

(* Deliberate fault: the worker starts the transfer without going through  *)
(* the loop's queue.                                                       *)
SendStartsStreaming(t) ==
    /\ io = "idle" /\ connected
    /\ WorkerMoves(t, "prepared", "returned")
    /\ handedOff' = [handedOff EXCEPT ![t] = TRUE]
    /\ onwrite' = t /\ onclose' = t
    /\ io' = "headers" /\ cur' = t
    /\ UNCHANGED <<socket, response, buffered, loop, frames, file, pumping, outcome, sent, ends>>

(* The response is marked as handed off and the start of the transfer is   *)
(* posted to the loop; failing that, the transfer fails here.              *)
SendPosts(t) ==
    /\ WorkerMoves(t, "prepared", "returned")
    /\ handedOff' = [handedOff EXCEPT ![t] = TRUE]
    /\ IF attached
       THEN /\ loop' = Append(loop, EventOf(IF len[t] = 0 THEN "empty" ELSE "start", t))
            /\ UNCHANGED outcome
       ELSE Finish(t, FALSE, loop)
    /\ UNCHANGED <<socket, response, buffered, callbacks, ioVars, file, pumping, sent, ends>>

CallEnd(t) == ends' = [ends EXCEPT ![t] = @ + 1]

(* Deliberate fault: the handler's mark is not looked at. *)
RouteLooksAtWriter(t, flag) ==
    /\ WorkerMoves(t, "returned", IF begun THEN "done" ELSE "ending")
    /\ UNCHANGED <<socket, served, begun, buffered, callbacks, loop, ioVars, handedOff>>
    /\ UNCHANGED <<file, pumping, outcome, sent, ends>>

(* The route means to end a response that it did not find handed off and   *)
(* to which nothing was written yet.                                       *)
RouteLooks(t, flag) ==
    /\ WorkerMoves(t, "returned", IF flag \/ begun THEN "done" ELSE "ending")
    /\ UNCHANGED <<socket, served, begun, buffered, callbacks, loop, ioVars, handedOff>>
    /\ UNCHANGED <<file, pumping, outcome, sent, ends>>

(* The handler and its middleware return, also when the handler has caught *)
(* an exception of send(), and the route reads the mark, ...               *)
HandlerReturns(t) == RouteLooks(t, handedOff[t]) /\ UNCHANGED thrown

(* A transfer that was given to the loop, or failed to be. *)
TakenOver(t) == handedOff[t] /\ state[t] # "destroyed"

(* ... or one of them throws and the route's flag stays unset.             *)
HandlerThrows(t) ==
    /\ RouteLooks(t, FALSE)
    /\ thrown' = (thrown \/ (TakenOver(t) /\ ~begun))

(* The route ends the response the writer holds. *)
TaskEnds(t) ==
    /\ WorkerMoves(t, "ending", "done")
    /\ CallEnd(served)
    /\ begun' = TRUE
    /\ UNCHANGED <<socket, served, thrown, buffered, callbacks, loop, ioVars, handedOff>>
    /\ UNCHANGED <<file, pumping, outcome, sent>>

WorkerStep(t) ==
    \/ SendRefused(t) \/ SendPrepares(t) \/ SendThrows(t) \/ SendPosts(t)
    \/ HandlerReturns(t) \/ HandlerThrows(t) \/ TaskEnds(t)

-----------------------------------------------------------------------------
(* The loop takes its oldest event. *)
Takes(kind, t) == io = "idle" /\ loop # <<>> /\ Head(loop) = EventOf(kind, t)

StartDisconnected(t) ==
    /\ Takes("start", t) \/ Takes("empty", t)
    /\ ~connected
    /\ Finish(t, FALSE, Tail(loop))
    /\ UNCHANGED <<socket, response, buffered, callbacks, ioVars, task, file, pumping, sent, ends>>

(* An empty file: EndHeaders(), End(), finish(). *)
StartEmpty(t) ==
    /\ Takes("empty", t)
    /\ connected
    /\ CallEnd(t)
    /\ begun' = TRUE
    /\ Finish(t, TRUE, Tail(loop))
    /\ UNCHANGED <<socket, served, thrown, buffered, callbacks, ioVars, task, file, pumping, sent>>

(* startStreaming() installs the callbacks and calls EndHeaders(). *)
StartStreaming(t) ==
    /\ Takes("start", t)
    /\ connected
    /\ onwrite' = t /\ onclose' = t
    /\ io' = "headers" /\ cur' = t
    /\ loop' = Tail(loop)
    /\ UNCHANGED <<socket, response, buffered, frames, task, file, pumping, outcome, sent, ends>>

(* The event scheduleCleanup() posted. *)
Cleanup(t) ==
    /\ Takes("cleanup", t)
    /\ onwrite' = None /\ onclose' = None
    /\ owned' = [owned EXCEPT ![t] = FALSE]
    /\ loop' = Tail(loop)
    /\ UNCHANGED <<socket, response, buffered, ioVars, task, file, pumping, sent, ends>>
    /\ UNCHANGED <<state, active, errors, reports>>

LoopStep(t) == StartDisconnected(t) \/ StartEmpty(t) \/ StartStreaming(t) \/ Cleanup(t)

-----------------------------------------------------------------------------
(* Deliberate fault: pump() runs again inside itself. *)
EnterPumpAgain(t, caller) ==
    IF state[t] = "finished"
    THEN io' = caller /\ UNCHANGED <<cur, frames, pumping>>
    ELSE /\ io' = "pump" /\ cur' = t
         /\ frames' = frames + 1
         /\ pumping' = [pumping EXCEPT ![t] = TRUE]

(* The writer calls onwrite: pump(t) begins, or returns to the caller at   *)
(* once because the transfer is finished or being pumped further out.      *)
EnterPump(t, caller) ==
    IF state[t] = "finished" \/ pumping[t]
    THEN io' = caller /\ UNCHANGED <<cur, frames, pumping>>
    ELSE /\ io' = "pump" /\ cur' = t
         /\ frames' = frames + 1
         /\ pumping' = [pumping EXCEPT ![t] = TRUE]

(* Deliberate fault: "pumping" is left set. *)
LeavePumpMarked ==
    /\ io' = "idle"
    /\ frames' = frames - 1
    /\ UNCHANGED <<cur, pumping>>

(* The end of pump(): back to the loop, or to the WriteBody() around it.   *)
LeavePump ==
    /\ io' = IF frames = 1 THEN "idle" ELSE "written"
    /\ frames' = frames - 1
    /\ pumping' = [pumping EXCEPT ![cur] = FALSE]
    /\ UNCHANGED cur

EndedBefore(t) == ends[t] > 0

(* The three outcomes of EndHeaders(). *)
HeadersFail ==
    /\ io = "headers" /\ (~connected \/ EndedBefore(cur))
    /\ io' = "idle"
    /\ begun' \in {begun, TRUE}
    /\ Finish(cur, FALSE, loop)
    /\ UNCHANGED <<socket, served, thrown, buffered, callbacks, cur, frames, task, file>>
    /\ UNCHANGED <<pumping, sent, ends>>

HeadersBuffered ==
    /\ io = "headers"
    /\ io' = "idle"
    /\ buffered' = TRUE
    /\ begun' = TRUE
    /\ UNCHANGED <<socket, served, thrown, callbacks, loop, cur, frames, task, file, pumping>>
    /\ UNCHANGED <<outcome, sent, ends>>

HeadersDrained ==
    /\ io = "headers"
    /\ buffered' = FALSE
    /\ begun' = TRUE
    /\ EnterPump(cur, "idle")
    /\ UNCHANGED <<socket, served, thrown, callbacks, loop, task, file, outcome, sent, ends>>

(* One round of the loop in pump(): it stops, for now or because the       *)
(* transfer is over, ... *)
PumpStops ==
    /\ io = "pump"
    /\ state[cur] = "finished" \/ (connected /\ buffered)
    /\ LeavePump
    /\ UNCHANGED <<socket, response, buffered, callbacks, loop, task, file, outcome, sent, ends>>

PumpFailsOn(condition) ==
    /\ io = "pump" /\ state[cur] # "finished"
    /\ condition
    /\ Finish(cur, FALSE, loop)
    /\ LeavePump
    /\ UNCHANGED <<socket, response, buffered, callbacks, task, file, sent, ends>>

(* ... or the connection is gone, ... *)
PumpDisconnected == PumpFailsOn(~connected)

(* Deliberate fault: a full chunk is assumed to have been read. *)
GotAssumed == IF avail[cur] = 0 THEN 0 ELSE ChunkSize

Got == Least(Least(remaining[cur], ChunkSize), avail[cur])

(* ... or nothing could be read, ... *)
PumpReadsNothing == PumpFailsOn(connected /\ ~buffered /\ Got = 0)

(* ... or a chunk is read and given to WriteBody(). *)
PumpReads ==
    /\ io = "pump" /\ state[cur] # "finished"
    /\ connected /\ ~buffered
    /\ Got > 0
    /\ io' = "write"
    /\ remaining' = [remaining EXCEPT ![cur] = @ - Got]
    /\ avail' = [avail EXCEPT ![cur] = @ - Got]
    /\ UNCHANGED <<socket, response, buffered, callbacks, loop, cur, frames, task, len, pumping>>
    /\ UNCHANGED <<outcome, sent, ends>>

(* The three outcomes of WriteBody(). *)
WriteFails ==
    /\ io = "write" /\ (~connected \/ EndedBefore(cur))
    /\ Finish(cur, FALSE, loop)
    /\ LeavePump
    /\ UNCHANGED <<socket, response, buffered, callbacks, task, file, sent, ends>>

WriteAccepted ==
    /\ io = "write"
    /\ sent' = [sent EXCEPT ![cur] = len[cur] - remaining[cur]]
    /\ UNCHANGED <<socket, response, callbacks, loop, task, file, outcome, ends>>

WriteBuffered ==
    /\ WriteAccepted
    /\ buffered' = TRUE
    /\ io' = "written"
    /\ UNCHANGED <<cur, frames, pumping>>

WriteDrained ==
    /\ WriteAccepted
    /\ buffered' = FALSE
    /\ EnterPump(cur, "written")

(* After WriteBody(): the last chunk ends the response. *)
PumpEnds ==
    /\ io = "written" /\ remaining[cur] <= 0
    /\ CallEnd(cur)
    /\ Finish(cur, TRUE, loop)
    /\ LeavePump
    /\ UNCHANGED <<socket, response, buffered, callbacks, task, file, sent>>

PumpGoesOn ==
    /\ io = "written" /\ remaining[cur] > 0
    /\ io' = "pump"
    /\ UNCHANGED <<socket, response, buffered, callbacks, loop, cur, frames, task, file, pumping>>
    /\ UNCHANGED <<outcome, sent, ends>>

PumpStep ==
    \/ HeadersFail \/ HeadersBuffered \/ HeadersDrained
    \/ PumpStops \/ PumpDisconnected \/ PumpReadsNothing \/ PumpReads
    \/ WriteFails \/ WriteBuffered \/ WriteDrained \/ PumpEnds \/ PumpGoesOn

-----------------------------------------------------------------------------
(* The socket takes some or all of what is buffered: onwrite is called.    *)
SocketDrains ==
    /\ io = "idle" /\ connected /\ buffered
    /\ buffered' \in BOOLEAN
    /\ IF onwrite = None
       THEN UNCHANGED <<ioVars, pumping>>
       ELSE EnterPump(onwrite, "idle")
    /\ UNCHANGED <<socket, response, callbacks, loop, task, file, outcome, sent, ends>>

Disconnect ==
    /\ connected /\ connected' = FALSE
    /\ attached' \in {attached, FALSE}
    /\ UNCHANGED <<closeSeen, response, buffered, callbacks, loop, ioVars, task, file, pumping>>
    /\ UNCHANGED <<outcome, sent, ends>>

(* The loop handles the close: onclose is called. *)
SocketCloses ==
    /\ io = "idle" /\ ~connected /\ ~closeSeen
    /\ closeSeen' = TRUE
    /\ IF onclose = None
       THEN UNCHANGED <<loop, outcome>>
       ELSE Finish(onclose, FALSE, loop)
    /\ UNCHANGED <<connected, attached, response, buffered, callbacks, ioVars, task, file>>
    /\ UNCHANGED <<pumping, sent, ends>>

Next ==
    \/ \E t \in Transfer : Dispatch(t) \/ WorkerStep(t) \/ LoopStep(t)
    \/ PumpStep \/ SocketDrains \/ SocketCloses \/ Disconnect

Spec == Init /\ [][Next]_vars

(* Worker and loop threads go on while they have something to do.  Nothing *)
(* is asked of the peer: it may never read, ask again or hang up.          *)
Fairness ==
    /\ \A t \in Transfer : WF_vars(WorkerStep(t))
    /\ WF_vars((\E t \in Transfer : LoopStep(t)) \/ PumpStep)
    /\ WF_vars(SocketCloses)

FairSpec == Spec /\ Fairness

-----------------------------------------------------------------------------
ResponseTypes ==
    served \in Transfer \cup {None} /\ begun \in BOOLEAN /\ thrown \in BOOLEAN

TransferTypes ==
    /\ connected \in BOOLEAN /\ closeSeen \in BOOLEAN /\ attached \in BOOLEAN
    /\ buffered \in BOOLEAN
    /\ onwrite \in Transfer \cup {None} /\ onclose \in Transfer \cup {None}
    /\ loop \in Seq(Event)
    /\ io \in {"idle", "headers", "pump", "write", "written"}
    /\ cur \in Transfer \cup {None}
    /\ io # "idle" => cur \in Transfer
    /\ frames \in Nat
    /\ wpc \in [Transfer -> {"none", "opening", "prepared", "returned", "ending", "done"}]
    /\ handedOff \in [Transfer -> BOOLEAN]
    /\ state \in [Transfer -> {"none", "live", "finished", "destroyed"}]
    /\ len \in [Transfer -> 0 .. MaxLen]
    /\ remaining \in [Transfer -> 0 .. MaxLen]
    /\ avail \in [Transfer -> 0 .. MaxLen]
    /\ pumping \in [Transfer -> BOOLEAN] /\ owned \in [Transfer -> BOOLEAN]
    /\ active \in Nat /\ errors \in Nat
    /\ sent \in [Transfer -> 0 .. MaxLen]
    /\ ends \in [Transfer -> Nat]
    /\ reports \in [Transfer -> Seq(BOOLEAN)]

(* Type correctness of the connection, the tasks and the transfers. *)
TypeOK == ResponseTypes /\ TransferTypes

Started(t) == state[t] # "none"

(* onComplete is called exactly once for every send(), whichever of        *)
(* onclose, pump(), a failed post or the destructor gets there, and the    *)
(* statistics say the same: activeCount comes back to what is in flight,   *)
(* errorCount counts the transfers reported as failed.                     *)
ReportedOnce ==
    /\ \A t \in Transfer :
        /\ wpc[t] \in {"none", "opening", "prepared"} \/ state[t] = "live" => reports[t] = <<>>
        /\ wpc[t] \in {"returned", "ending", "done"} /\ state[t] # "live" => Len(reports[t]) = 1
    /\ active = Cardinality({t \in Transfer : state[t] = "live"})
    /\ errors = Cardinality({t \in Transfer : Started(t) /\ reports[t] = <<FALSE>>})

(* The route and the transfer never both end a response, and a response    *)
(* that was handed off is ended only after every promised unit of the body *)
(* was accepted, unless a handler or middleware threw after send(): the    *)
(* route then does not see the mark and ends the response while the start  *)
(* of the transfer is queued, against its own comment on early ends.       *)
(* Success is reported only of a response that was ended and is whole.     *)
EndedOnceAndWhole ==
    \A t \in Transfer :
        /\ ~thrown =>
            /\ ends[t] <= 1
            /\ TakenOver(t) /\ ends[t] = 1 => sent[t] = len[t] /\ reports[t] = <<TRUE>>
        /\ reports[t] = <<TRUE>> => ends[t] >= 1 /\ sent[t] = len[t]

(* A write that drains at once calls onwrite, and so pump(), from inside   *)
(* pump(): it never gets a second frame, of 256 KB each, on the stack.     *)
NoPumpInPump == frames <= 1

(* The cleanup of a finished transfer never takes away the callbacks that  *)
(* the next transfer on the same connection has installed: one that is     *)
(* under way is driven by every later onwrite and stopped by onclose.      *)
CallbacksInstalled ==
    \A t \in Transfer :
        handedOff[t] /\ state[t] = "live" /\ ~(\E i \in 1 .. Len(loop) : loop[i].of = t)
            => onwrite = t /\ onclose = t

(* The writer is never released by a callback it is in the middle of       *)
(* calling: as long as events can be posted, ownership ends in an event of *)
(* its own or with a send() that failed.                                   *)
ReleasedOutsideCallbacks ==
    [][\A t \in Transfer :
        owned[t] /\ ~owned'[t] => ~attached \/ wpc[t] = "prepared" \/ Takes("cleanup", t)]_vars

(* A transfer ends unless the peer neither reads nor hangs up.             *)
TransferEnds ==
    []<>(~connected \/ ~buffered) =>
        \A t \in Transfer : state[t] = "live" ~> state[t] # "live"

(* The writer and its transfer keep each other alive; finish() breaks the  *)
(* cycle in the end.                                                       *)
WriterReleased == \A t \in Transfer : state[t] = "finished" ~> ~owned[t]

(* A transfer that took over the response ends it ("the strategy ends the  *)
(* response", the architecture document) or the connection is gone.        *)
StrategyEndsResponse ==
    \A t \in Transfer : state[t] = "finished" => ends[t] >= 1 \/ ~connected
===============================================================================
