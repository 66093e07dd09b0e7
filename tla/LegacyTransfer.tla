---------------------------- MODULE LegacyTransfer ----------------------------
(***************************************************************************)
(* LegacyTransfer: downloads over one keep-alive connection, each sent by  *)
(* the thread that runs the route's handler: an asynchronous route's task  *)
(* on a thread of the dispatcher, or on the loop's own thread if there is  *)
(* none.  A large file goes out in chunks, and every use of the writer is  *)
(* a call run on the loop's thread (WriterCall).                           *)
(*                                                                         *)
(* The writer is external and modelled as the code uses it: a write is     *)
(* accepted or fails on a connection that is gone, the buffer may pass the *)
(* threshold with any write and is drained by the loop's thread only.      *)
(* Bytes are counted in units of which ChunkSize make one chunk.           *)
(***************************************************************************)
EXTENDS WriterCall, Integers, FiniteSets

CONSTANTS
    Transfer,   \* the requests of one connection, each a download
    MaxLen,     \* bound: units a client may ask for, on the chunked path
    ChunkSize,  \* kStreamChunkSize
    MaxPolls    \* kBackpressureTimeoutMs / kBackpressureWaitMs

ASSUME LengthAssumption == MaxLen \in Nat
ASSUME ChunkAssumption == ChunkSize \in Nat \ {0}
ASSUME PollsAssumption == MaxPolls \in Nat \ {0}

VARIABLES
    dispatcher,   \* the router has an asynchronous dispatcher
    connected,    \* writer->isConnected()
    pending,      \* writer->writeBufsize() > kBackpressureThreshold
    begun,        \* responses whose writer state is not SEND_BEGIN any more
    wpc,          \* the task of each request: its position, in send() or not,
    calling,      \* and the call it waits for
    job,          \* what each call's function does, and for whom
    local,        \* the local variables of send()
    active, errors, tracked, \* activeCount, errorCount, sum of tracker(+1), (-1)
    body,         \* what the response's body holds
    owed,         \* units promised that the writer has not accepted (history)
    ends,         \* calls of writer->End() (history)
    reports,      \* arguments onComplete was called with (history)
    lost          \* job of the last call, if that was given up or refused (history)

connection == <<attached, dispatcher, connected>>
writer == <<pending, begun, owed, ends>>
outcome == <<active, errors, reports, body>>
calls == <<caller, syncCall, loop, loopThread>>
vars == <<callVars, dispatcher, connected, writer, wpc, calling, job, local,
          tracked, outcome, lost>>

\* The positions at which send() calls runOnWriterLoopSync().
Job == {"headers", "poll", "write", "end"}

\* Units to be sent, left in the file and in buf; polls since the last chunk;
\* whether it was given up; and what the functions store: a result that is not
\* negative, pendingBytes, connected.
Local == [remaining : 0 .. MaxLen, avail : 0 .. MaxLen, got : 0 .. ChunkSize,
          polls : 0 .. MaxPolls, timedOut : BOOLEAN,
          ok : BOOLEAN, pending : BOOLEAN, connected : BOOLEAN]
Locals(n, a) == [remaining |-> n, avail |-> a, got |-> 0, polls |-> 0, timedOut |-> FALSE,
                 ok |-> FALSE, pending |-> FALSE, connected |-> FALSE]
NoLocals == Locals(0, 0)

Least(m, n) == IF m < n THEN m ELSE n

\* Earlier responses of the connection may have filled the buffer.
Init ==
    /\ CallInit
    /\ dispatcher \in BOOLEAN
    /\ connected = TRUE
    /\ pending \in BOOLEAN
    /\ begun = {}
    /\ wpc = [t \in Transfer |-> "none"]
    /\ calling = [t \in Transfer |-> NoCall]
    /\ job = [c \in Call |-> <<>>]
    /\ local = [t \in Transfer |-> NoLocals]
    /\ active = 0 /\ errors = 0 /\ tracked = 0
    /\ body = [t \in Transfer |-> "none"]
    /\ owed = [t \in Transfer |-> 0]
    /\ ends = [t \in Transfer |-> 0]
    /\ reports = [t \in Transfer |-> <<>>]
    /\ lost = [t \in Transfer |-> "none"]

-----------------------------------------------------------------------------
WorkerMoves(t, from, to) ==
    /\ wpc[t] = from
    /\ wpc' = [wpc EXCEPT ![t] = to]

ResponseOpen == \E t \in Transfer : wpc[t] # "none" /\ ends[t] = 0

(* The next request of the connection is read, once the response to the    *)
(* last one has been ended: tracker(+1), and the task goes to the          *)
(* dispatcher; without one it runs here.                                   *)
Dispatch(t) ==
    /\ io = "idle" /\ connected
    /\ ~ResponseOpen
    /\ WorkerMoves(t, "none", "opening")
    /\ tracked' = tracked + 1
    /\ io' = IF dispatcher THEN "idle" ELSE "handler"
    /\ UNCHANGED <<connection, caller, syncCall, loop, cur, writer, calling, job>>
    /\ UNCHANGED <<local, outcome, lost>>

(* The dispatcher throws, or drops the task without running it.            *)
DispatchLost(t) ==
    /\ dispatcher
    /\ io = "idle" /\ connected
    /\ ~ResponseOpen
    /\ WorkerMoves(t, "none", "dropped")
    /\ tracked' = tracked + 1
    /\ UNCHANGED <<connection, calls, writer, calling, job, local, outcome, lost>>

(* recordStart(), recordEnd(success) and onComplete(success). *)
Report(t, counted, success) ==
    /\ active' = active - counted
    /\ errors' = IF success THEN errors ELSE errors + 1
    /\ reports' = [reports EXCEPT ![t] = Append(@, success)]

\* Deliberate fault: one of the early returns does not set the error.
SendWholeSilently(t) ==
    /\ WorkerMoves(t, "opening", "returned")
    /\ \E success \in BOOLEAN :
        /\ body' = [body EXCEPT ![t] = IF success THEN "file" ELSE "blank"]
        /\ Report(t, 0, success)
    /\ UNCHANGED <<connection, calls, writer, calling, job, local, tracked, lost>>

(* serveFile(): the file, nothing of a file that cannot be read, or a      *)
(* refusal because of two dots anywhere in its name; send() is not told.   *)
Served == {"file", "blank", "forbidden"}

(* The body of Context::error(). *)
ErrorBody == "error"

(* What send() leaves in the response's body without using the writer: a   *)
(* file served, or the error 500 for a range that could not be read, for a *)
(* writer or a loop that is gone, or for a large file that cannot be       *)
(* opened or positioned.                                                   *)
SendWhole(t) ==
    /\ WorkerMoves(t, "opening", "returned")
    /\ \E left \in Served \cup {ErrorBody} :
        /\ body' = [body EXCEPT ![t] = left]
        /\ Report(t, 0, left # ErrorBody)
    /\ UNCHANGED <<connection, calls, writer, calling, job, local, tracked, lost>>

(* AccelTransfer::send(), which the server may be configured to use        *)
(* instead: nginx is told which file to send, and success is reported      *)
(* before it has looked for it, by the thread that called send() and       *)
(* before send() returns.  IFileTransfer.hpp:52-54 has this strategy       *)
(* report later, on the IO thread; the code does not.                      *)
AccelSends(t) ==
    /\ WorkerMoves(t, "opening", "returned")
    /\ body' = [body EXCEPT ![t] = "redirect"]
    /\ Report(t, 0, TRUE)
    /\ UNCHANGED <<connection, calls, writer, calling, job, local, tracked, lost>>

(* Memory runs out after recordStart(): nothing is reported. *)
SendThrows(t) ==
    /\ WorkerMoves(t, "opening", "returned")
    /\ active' = active + 1
    /\ UNCHANGED <<connection, calls, writer, calling, job, local>>
    /\ UNCHANGED <<tracked, errors, reports, body, lost>>

(* A large file is open: recordStart(), status and headers are set.  The   *)
(* file may be shorter than the length the handler measured.               *)
SendOpens(t) ==
    /\ WorkerMoves(t, "opening", "headers")
    /\ \E n \in 1 .. MaxLen : \E a \in 0 .. n :
        /\ owed' = [owed EXCEPT ![t] = n]
        /\ local' = [local EXCEPT ![t] = Locals(n, a)]
    /\ active' = active + 1
    /\ UNCHANGED <<connection, calls, pending, begun, ends, calling, job>>
    /\ UNCHANGED <<tracked, errors, reports, body, lost>>

-----------------------------------------------------------------------------
(* runOnWriterLoopSync() with the function of the present position.        *)
Asks(t) ==
    /\ wpc[t] \in Job /\ calling[t] = NoCall
    /\ \E c \in Call : Unused(c)
    /\ LET c == CHOOSE c \in Call : Unused(c)
       IN /\ CallRefused(c) \/ (IF dispatcher THEN PostCall(c) ELSE CallInline(c))
          /\ calling' = [calling EXCEPT ![t] = c]
          /\ job' = [job EXCEPT ![c] = <<wpc[t], t>>]
    /\ local' = [local EXCEPT ![t].ok = FALSE, ![t].pending = FALSE, ![t].connected = FALSE]
    /\ UNCHANGED <<dispatcher, connected, writer, wpc, tracked, outcome, lost>>

(* The calling thread's part of it, up to the answer. *)
Calls(t, c) ==
    /\ calling[t] = c
    /\ StartInline(c) \/ InlineReturns(c) \/ CallDone(c) \/ GiveUp(c)
    /\ UNCHANGED <<dispatcher, connected, writer, wpc, calling, job, local>>
    /\ UNCHANGED <<tracked, outcome, lost>>

(* The functions given to it.  A write that goes wrong on the way loses    *)
(* the connection.                                                         *)
DoHeaders(t) ==
    /\ local' = [local EXCEPT ![t].ok = connected]
    /\ begun' = IF connected THEN begun \cup {t} ELSE begun
    /\ UNCHANGED <<connected, pending, owed, ends>>

DoPoll(t) ==
    /\ local' = [local EXCEPT ![t].pending = pending, ![t].connected = connected]
    /\ UNCHANGED <<connected, writer>>

DoWrite(t) ==
    /\ connected' \in {connected, FALSE}
    /\ local' = [local EXCEPT ![t].ok = connected, ![t].connected = connected']
    /\ pending' \in {pending, connected}
    /\ owed' = [owed EXCEPT ![t] = IF connected THEN @ - local[t].got ELSE @]
    /\ UNCHANGED <<begun, ends>>

DoEnd(t) ==
    /\ ends' = [ends EXCEPT ![t] = @ + 1]
    /\ UNCHANGED <<connected, pending, begun, owed, local>>

JobRuns(c) ==
    /\ RunInline(c) \/ RunCall(c)
    /\ LET t == job[c][2]
       IN \/ job[c][1] = "headers" /\ DoHeaders(t)
          \/ job[c][1] = "poll" /\ DoPoll(t)
          \/ job[c][1] = "write" /\ DoWrite(t)
          \/ job[c][1] = "end" /\ DoEnd(t)
    /\ UNCHANGED <<dispatcher, wpc, calling, job, tracked, outcome, lost>>

(* runOnWriterLoopSync() returns what the call was answered. *)
Yes(t) == calling[t] # NoCall /\ caller[calling[t]] = "yes"

Returns(t, from, to) ==
    /\ WorkerMoves(t, from, to)
    /\ calling[t] # NoCall
    /\ EndCall(calling[t])
    /\ calling' = [calling EXCEPT ![t] = NoCall]
    /\ lost' = [lost EXCEPT ![t] = IF Yes(t) THEN "none" ELSE from]
    /\ UNCHANGED <<dispatcher, connected, writer, job, tracked, body>>

-----------------------------------------------------------------------------
(* send() returns: its local variables are gone. *)
SendReturnsFrom(t, from, success) ==
    /\ Returns(t, from, "returned")
    /\ Report(t, 1, success)
    /\ local' = [local EXCEPT ![t] = NoLocals]

\* Deliberate fault: recordEnd() is forgotten on this way out.
HeadersFailedUncounted(t) ==
    /\ ~(Yes(t) /\ local[t].ok)
    /\ Returns(t, "headers", "returned")
    /\ reports' = [reports EXCEPT ![t] = Append(@, FALSE)]
    /\ local' = [local EXCEPT ![t] = NoLocals]
    /\ UNCHANGED <<active, errors>>

HeadersFailed(t) ==
    /\ ~(Yes(t) /\ local[t].ok)
    /\ SendReturnsFrom(t, "headers", FALSE)

(* The loop over the chunks begins. *)
HeadersSent(t) ==
    /\ Yes(t) /\ local[t].ok
    /\ Returns(t, "headers", "poll")
    /\ UNCHANGED <<local, active, errors, reports>>

\* Deliberate fault: the limit on the waiting is off by one.
SleepsOnceMore(t) ==
    LET over == local[t].polls + 1 > MaxPolls
    IN /\ Yes(t) /\ local[t].pending /\ local[t].connected
       /\ Returns(t, "poll", IF over THEN "end" ELSE "poll")
       /\ local' = [local EXCEPT ![t].polls = @ + 1, ![t].timedOut = over]
       /\ UNCHANGED <<active, errors, reports>>

\* Deliberate fault: there is no limit.
SleepsOn(t) ==
    /\ Yes(t) /\ local[t].pending /\ local[t].connected
    /\ Returns(t, "poll", "poll")
    /\ UNCHANGED <<local, active, errors, reports>>

(* The buffer is full: the thread sleeps, then looks again or gives up.    *)
Sleeps(t) ==
    LET over == local[t].polls + 1 >= MaxPolls
    IN /\ Yes(t) /\ local[t].pending /\ local[t].connected
       /\ Returns(t, "poll", IF over THEN "end" ELSE "poll")
       /\ local' = [local EXCEPT ![t].polls = @ + 1, ![t].timedOut = over]
       /\ UNCHANGED <<active, errors, reports>>

PollFailed(t) ==
    /\ ~(Yes(t) /\ local[t].connected)
    /\ Returns(t, "poll", "end")
    /\ UNCHANGED <<local, active, errors, reports>>

Wanted(t) == Least(local[t].remaining, ChunkSize)

(* A chunk is read, or nothing. *)
ReadsChunk(t) ==
    LET n == Least(Wanted(t), local[t].avail)
    IN /\ Yes(t) /\ ~local[t].pending /\ local[t].connected
       /\ Returns(t, "poll", IF n = 0 THEN "end" ELSE "write")
       /\ local' = [local EXCEPT ![t].got = n, ![t].avail = @ - n]
       /\ UNCHANGED <<active, errors, reports>>

WriteOk(t) == Yes(t) /\ local[t].ok /\ local[t].connected

WriteFailed(t) ==
    /\ ~WriteOk(t)
    /\ Returns(t, "write", "end")
    /\ UNCHANGED <<local, active, errors, reports>>

(* The chunk is out.  After a short read the stream is not good any more.  *)
Written(t) ==
    LET more == local[t].remaining > local[t].got /\ local[t].got = Wanted(t)
    IN /\ WriteOk(t)
       /\ Returns(t, "write", IF more THEN "poll" ELSE "end")
       /\ local' = [local EXCEPT ![t].remaining = @ - local[t].got, ![t].polls = 0]
       /\ UNCHANGED <<active, errors, reports>>

\* Deliberate fault: what is left to send is not asked for.
EndedWell(t) == SendReturnsFrom(t, "end", ~local[t].timedOut)

(* The end, whatever became of the call of End(). *)
Ended(t) == SendReturnsFrom(t, "end", local[t].remaining = 0 /\ ~local[t].timedOut)

\* Deliberate fault: the route ends the response whatever its state.
TaskEndsAlways(t) ==
    /\ WorkerMoves(t, "returned", "done")
    /\ ends' = [ends EXCEPT ![t] = @ + 1]
    /\ tracked' = tracked - 1
    /\ io' = IF dispatcher THEN io ELSE "idle"
    /\ UNCHANGED <<connection, caller, syncCall, loop, cur, pending, begun, owed>>
    /\ UNCHANGED <<calling, job, local, outcome, lost>>

(* The route's task after the handler returned or threw: a response to     *)
(* which nothing was written is ended, here and not on the loop's thread.  *)
TaskEnds(t) ==
    /\ WorkerMoves(t, "returned", "done")
    /\ ends' = IF t \in begun THEN ends ELSE [ends EXCEPT ![t] = @ + 1]
    /\ tracked' = tracked - 1
    /\ io' = IF dispatcher THEN io ELSE "idle"
    /\ UNCHANGED <<connection, caller, syncCall, loop, cur, pending, begun, owed>>
    /\ UNCHANGED <<calling, job, local, outcome, lost>>

SendStep(t) ==
    \/ SendWhole(t) \/ AccelSends(t) \/ SendThrows(t) \/ SendOpens(t)
    \/ Asks(t) \/ \E c \in Call : Calls(t, c)
    \/ HeadersFailed(t) \/ HeadersSent(t)
    \/ Sleeps(t) \/ PollFailed(t) \/ ReadsChunk(t) \/ WriteFailed(t) \/ Written(t) \/ Ended(t)

-----------------------------------------------------------------------------
(* The loop's thread: events, the socket. *)
LoopStarts ==
    /\ \E c \in Call : StartCall(c)
    /\ UNCHANGED <<dispatcher, connected, writer, wpc, calling, job, local>>
    /\ UNCHANGED <<tracked, outcome, lost>>

LoopFinishes ==
    /\ \E c \in Call : FinishCall(c)
    /\ UNCHANGED <<dispatcher, connected, writer, wpc, calling, job, local>>
    /\ UNCHANGED <<tracked, outcome, lost>>

SocketDrains ==
    /\ io = "idle" /\ connected
    /\ pending /\ pending' = FALSE
    /\ UNCHANGED <<connection, calls, begun, owed, ends, wpc, calling, job, local>>
    /\ UNCHANGED <<tracked, outcome, lost>>

Disconnect ==
    /\ io = "idle"
    /\ connected \/ attached
    /\ connected' = FALSE
    /\ attached' \in {attached, FALSE}
    /\ UNCHANGED <<dispatcher, calls, writer, wpc, calling, job, local>>
    /\ UNCHANGED <<tracked, outcome, lost>>

Next ==
    \/ \E t \in Transfer : Dispatch(t) \/ DispatchLost(t) \/ SendStep(t) \/ TaskEnds(t)
    \/ \E c \in Call : JobRuns(c)
    \/ LoopStarts \/ LoopFinishes \/ SocketDrains \/ Disconnect

Spec == Init /\ [][Next]_vars

(* The threads of the dispatcher run, and the loop's thread gets through   *)
(* what it has begun.  That it ever begins, that the socket drains or that *)
(* the peer hangs up is not asked for.                                     *)
Fairness ==
    /\ \A t \in Transfer : WF_vars(SendStep(t)) /\ WF_vars(TaskEnds(t))
    /\ WF_vars(LoopFinishes \/ \E c \in Call : JobRuns(c))

FairSpec == Spec /\ Fairness

-----------------------------------------------------------------------------
(* Type correctness of the connection, the tasks, their calls and files.   *)
TypeOK ==
    /\ CallTypeOK
    /\ dispatcher \in BOOLEAN /\ connected \in BOOLEAN /\ pending \in BOOLEAN
    /\ begun \subseteq Transfer
    /\ wpc \in [Transfer -> Job \cup {"none", "dropped", "opening", "returned", "done"}]
    /\ calling \in [Transfer -> Call \cup {NoCall}]
    /\ job \in [Call -> (Job \X Transfer) \cup {<<>>}]
    /\ local \in [Transfer -> Local]
    /\ active \in Nat /\ errors \in Nat /\ tracked \in Nat
    /\ body \in [Transfer -> Served \cup {"none", "redirect", ErrorBody}]
    /\ owed \in [Transfer -> Int]
    /\ ends \in [Transfer -> Nat]
    /\ reports \in [Transfer -> Seq(BOOLEAN)]
    /\ lost \in [Transfer -> Job \cup {"none"}]

InSend(t) == wpc[t] \in Job
Over(t) == wpc[t] \in {"returned", "done"}

(* Whatever happens to the calls, the file and the connection, a download  *)
(* is reported once, when send() is about to return, and the counters say  *)
(* the same - but for a send() that ran out of memory, which is counted as *)
(* active for ever, and a task the dispatcher lost, which the tracker goes *)
(* on counting.  For LegacyTransfer this is what IFileTransfer.hpp:52-54   *)
(* says of onComplete.  Of AccelTransfer it says the opposite, that it     *)
(* reports asynchronously on the IO thread: AccelTransfer.cpp:47 does not, *)
(* and "when send() is about to return" is, for its downloads, what the    *)
(* code does against that comment.                                         *)
CountedOnce ==
    /\ \A t \in Transfer : Len(reports[t]) <= 1 /\ (reports[t] # <<>> => Over(t))
    /\ active = Cardinality({t \in Transfer : InSend(t) \/ (Over(t) /\ reports[t] = <<>>)})
    /\ errors = Cardinality({t \in Transfer : reports[t] = <<FALSE>>})
    /\ tracked = Cardinality({t \in Transfer : wpc[t] \notin {"none", "done"}})

(* What onComplete is told agrees with what went over the connection.      *)
(* After a chunked download that was reported a success the writer has     *)
(* taken every promised unit, once: no chunk is taken for written because  *)
(* its call was given up, and none is repeated.  After a failure the       *)
(* client can tell: it gets an error, or less than the Content-Length it   *)
(* was promised, or loses the connection - unless the call that was to     *)
(* send the headers was given up, for then the route ends the response as  *)
(* a complete one without a body.                                          *)
ReportIsTrue ==
    \A t \in Transfer :
        /\ owed[t] >= 0
        /\ reports[t] = <<TRUE>> => owed[t] = 0
        /\ reports[t] = <<FALSE>> /\ ends[t] # 0 /\ connected
            => \/ body[t] = ErrorBody
               \/ t \in begun /\ owed[t] > 0
               \/ lost[t] = "headers"

(* When the task is over the response has been ended, once, by send() or   *)
(* by the route but never by both - unless the call of End() was given up: *)
(* then nobody ends it and the client waits.                               *)
EndedOnce ==
    \A t \in Transfer :
        /\ ends[t] <= 1
        /\ wpc[t] = "done" /\ ends[t] = 0 => lost[t] = "end"

(* A response is not written to after its end, and the route does not end  *)
(* it on its own thread while the loop's thread is using the writer, not   *)
(* even for a call that was given up.                                      *)
NothingAfterEnd ==
    [][\A t \in Transfer :
        /\ owed'[t] < owed[t] \/ (t \in begun' /\ t \notin begun) => ends[t] = 0 /\ InSend(t)
        /\ wpc'[t] # wpc[t] /\ ends'[t] # ends[t] => io # "running"]_vars

(* send() returns, though the loop may never run what is posted to it and  *)
(* the peer may never read: no thread of the dispatcher is lost.           *)
SendReturns == \A t \in Transfer : wpc[t] = "opening" ~> Over(t)
===============================================================================
