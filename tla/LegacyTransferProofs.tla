-------------------------- MODULE LegacyTransferProofs --------------------------
(***************************************************************************)
(* Theorems about LegacyTransfer for any downloads, calls, lengths and     *)
(* limits: what is reported, counted and ended.  That the calls keep their *)
(* promise to it is WriterCallProofs' part.                                *)
(***************************************************************************)
EXTENDS LegacyTransfer, WriterCallProofs, FiniteSetTheorems

(* The inductive invariant.  A call under way belongs to the one transfer  *)
(* that waits for it, at the position where it was made.                   *)
CallsOwned ==
    /\ \A t \in Transfer : calling[t] # NoCall =>
           /\ calling[t] \in Call /\ wpc[t] \in Job
           /\ caller[calling[t]] # "free"
           /\ job[calling[t]] = <<wpc[t], t>>
    /\ \A c \in Call : caller[c] # "free" => \E t \in Transfer : calling[t] = c

(* Whether the function of the call that a transfer waits for has run.     *)
HasRun(c) ==
    \/ caller[c] \in {"run", "yes"}
    \/ caller[c] = "waiting" /\ (done[c] \/ (cur = c /\ io = "run"))
Ran(t) == calling[t] # NoCall /\ HasRun(calling[t])

(* Without a dispatcher the loop's thread runs one task at a time and does *)
(* nothing else.                                                           *)
Running(t) == wpc[t] \in Job \cup {"opening", "returned"}
LoopIsHandling ==
    ~dispatcher =>
        /\ \A t \in Transfer : Running(t) => io = "handler"
        /\ \A t, u \in Transfer : Running(t) /\ Running(u) => t = u

(* One response at a time has not been ended.                              *)
Open(t) == wpc[t] # "none" /\ ends[t] = 0
OneOpen == \A t, u \in Transfer : Open(t) /\ Open(u) => t = u

(* A transfer's response and file at each position of its task: before     *)
(* send() gets to the writer, ...                                          *)
Untouched(t) ==
    wpc[t] \in {"none", "dropped", "opening"} =>
        t \notin begun /\ ends[t] = 0 /\ owed[t] = 0 /\ reports[t] = <<>>

(* ... while it sends, ...                                                 *)
Sending(t) ==
    wpc[t] \in {"headers", "poll", "write"} =>
        /\ ends[t] = 0 /\ reports[t] = <<>>
        /\ local[t].remaining > 0
        /\ local[t].polls < MaxPolls /\ ~local[t].timedOut

AtHeaders(t) ==
    wpc[t] = "headers" =>
        /\ owed[t] = local[t].remaining
        /\ t \in begun <=> local[t].ok
        /\ local[t].ok => Ran(t)
        /\ Ran(t) /\ ~local[t].ok => ~connected

AtPoll(t) ==
    wpc[t] = "poll" =>
        /\ t \in begun /\ owed[t] = local[t].remaining
        /\ calling[t] # NoCall => ~local[t].ok

AtWrite(t) ==
    wpc[t] = "write" =>
        /\ t \in begun
        /\ local[t].got > 0 /\ local[t].got <= local[t].remaining
        /\ local[t].ok => Ran(t) /\ owed[t] = local[t].remaining - local[t].got
        /\ ~local[t].ok => owed[t] = local[t].remaining
        /\ local[t].ok /\ ~local[t].connected => ~connected

AtEnd(t) ==
    wpc[t] = "end" =>
        /\ t \in begun /\ reports[t] = <<>>
        /\ Ran(t) => ends[t] = 1
        /\ ~Ran(t) => ends[t] = 0
        /\ 0 <= owed[t] /\ owed[t] <= local[t].remaining
        /\ owed[t] = local[t].remaining \/ ~connected
        /\ local[t].timedOut => local[t].remaining > 0

(* ... and after it.                                                       *)
AfterSend(t) ==
    Over(t) =>
        /\ reports[t] \in {<<>>, <<TRUE>>, <<FALSE>>}
        /\ owed[t] >= 0
        /\ reports[t] = <<TRUE>> => owed[t] = 0
        /\ reports[t] = <<FALSE>> =>
               \/ body[t] = ErrorBody \/ ~connected
               \/ t \in begun /\ owed[t] > 0
               \/ lost[t] = "headers"
        /\ wpc[t] = "returned" /\ t \notin begun => ends[t] = 0
        /\ wpc[t] = "done" \/ t \in begun => ends[t] = 1 \/ (ends[t] = 0 /\ lost[t] = "end")

Progress(t) ==
    /\ Untouched(t) /\ Sending(t) /\ AtHeaders(t) /\ AtPoll(t)
    /\ AtWrite(t) /\ AtEnd(t) /\ AfterSend(t)

(* The counters count sets that are finite.                                *)
Active == {t \in Transfer : InSend(t) \/ (Over(t) /\ reports[t] = <<>>)}
Failed == {t \in Transfer : reports[t] = <<FALSE>>}
Tracked == {t \in Transfer : wpc[t] \notin {"none", "done"}}

Counted ==
    /\ IsFiniteSet(Active) /\ active = Cardinality(Active)
    /\ IsFiniteSet(Failed) /\ errors = Cardinality(Failed)
    /\ IsFiniteSet(Tracked) /\ tracked = Cardinality(Tracked)

(* Types of everything else.                                               *)
Typed ==
    /\ dispatcher \in BOOLEAN /\ connected \in BOOLEAN /\ pending \in BOOLEAN
    /\ begun \subseteq Transfer
    /\ wpc \in [Transfer -> Job \cup {"none", "dropped", "opening", "returned", "done"}]
    /\ calling \in [Transfer -> Call \cup {NoCall}]
    /\ job \in [Call -> (Job \X Transfer) \cup {<<>>}]
    /\ local \in [Transfer -> Local]
    /\ body \in [Transfer -> Served \cup {"none", "redirect", ErrorBody}]
    /\ owed \in [Transfer -> Int]
    /\ ends \in [Transfer -> Nat]
    /\ reports \in [Transfer -> Seq(BOOLEAN)]
    /\ lost \in [Transfer -> Job \cup {"none"}]

LegacyInv ==
    /\ CallInv /\ Typed /\ CallsOwned /\ LoopIsHandling /\ OneOpen
    /\ \A t \in Transfer : Progress(t)
    /\ Counted

USE DEF connection, writer, outcome, calls, vars, callVars, syncCall, loopThread

-----------------------------------------------------------------------------
(* What a step does to the calls: one goes on and its function is not run, *)
(* ...                                                                     *)
LEMMA GoesOn ==
    ASSUME CallInv, NEW c \in Call,
           \/ StartInline(c) \/ InlineReturns(c) \/ CallDone(c) \/ GiveUp(c)
           \/ StartCall(c) \/ FinishCall(c)
    PROVE  \A d \in Call : (caller'[d] = "free" <=> caller[d] = "free")
                           /\ (HasRun(d)' <=> HasRun(d))
<1> USE DEF CallInv, CallTypeOK, CallerMoves
<1>1. CASE StartInline(c) \/ InlineReturns(c) \/ CallDone(c)
    BY <1>1 DEF StartInline, InlineReturns, CallDone, HasRun
<1>2. CASE GiveUp(c)
    BY <1>2 DEF GiveUp, HasRun, WaitInv
<1>3. CASE StartCall(c)
    <2>1. Posted(c) /\ cur = NoCall
        BY <1>3, PostedAfterTail DEF StartCall, Takes, LoopInv
    <2> QED
        BY <1>3, <2>1, CallAssumption DEF StartCall, Takes, HasRun, WaitInv
<1>4. CASE FinishCall(c)
    BY <1>4, CallAssumption DEF FinishCall, HasRun
<1> QED
    BY <1>1, <1>2, <1>3, <1>4

(* ... or is run, ...                                                      *)
LEMMA IsRun ==
    ASSUME CallInv, NEW c \in Call, RunInline(c) \/ RunCall(c)
    PROVE  /\ caller[c] # "free" /\ ~HasRun(c) /\ HasRun(c)'
           /\ \A d \in Call : caller'[d] = "free" <=> caller[d] = "free"
           /\ \A d \in Call : d # c => (HasRun(d)' <=> HasRun(d))
<1> USE DEF CallInv, CallTypeOK, CallerMoves
<1>1. CASE RunInline(c)
    BY <1>1 DEF RunInline, HasRun
<1>2. CASE RunCall(c)
    <2>1. caller[c] = "waiting" /\ ~done[c]
        BY <1>2 DEF RunCall, WaitInv, GoneInv
    <2> QED
        BY <1>2, <2>1 DEF RunCall, HasRun
<1> QED
    BY <1>1, <1>2

(* ... or is made or forgotten.                                            *)
LEMMA IsMade ==
    ASSUME CallInv, NEW c \in Call, CallRefused(c) \/ PostCall(c) \/ CallInline(c)
    PROVE  /\ caller[c] = "free" /\ caller'[c] # "free" /\ ~HasRun(c)'
           /\ \A d \in Call : d # c => caller'[d] = caller[d] /\ (HasRun(d)' <=> HasRun(d))
BY DEF CallInv, CallTypeOK, CallerMoves, CallRefused, PostCall, CallInline, Begins, Unused, HasRun

LEMMA IsForgotten ==
    ASSUME CallInv, NEW c \in Call, EndCall(c)
    PROVE  /\ caller[c] \in {"yes", "no"} /\ caller'[c] = "free"
           /\ HasRun(c) <=> caller[c] = "yes"
           /\ \A d \in Call : d # c => caller'[d] = caller[d] /\ (HasRun(d)' <=> HasRun(d))
BY DEF CallInv, CallTypeOK, CallerMoves, EndCall, HasRun

LEMMA Unconcerned ==
    ASSUME CallInv, Elsewhere
    PROVE  \A d \in Call : caller'[d] = caller[d] /\ (HasRun(d)' <=> HasRun(d))
BY CallAssumption DEF CallInv, CallTypeOK, LoopInv, Elsewhere, HasRun

(* The same, for the transfers that wait.                                  *)
LEMMA OthersCalls ==
    ASSUME Typed, CallsOwned, NEW c \in Call, NEW t \in Transfer, calling[t] = c,
           NEW u \in Transfer, u # t
    PROVE  calling[u] # c
<1>1. job[c] = <<wpc[t], t>> /\ (calling[u] = c => job[c] = <<wpc[u], u>>)
    BY CallAssumption DEF CallsOwned
<1> QED
    BY <1>1

LEMMA CallsStay ==
    ASSUME CallsOwned, UNCHANGED <<calling, job>>,
           \A u \in Transfer : wpc'[u] = wpc[u] \/ wpc[u] \notin Job,
           \A d \in Call : (caller'[d] = "free" <=> caller[d] = "free")
                           /\ (HasRun(d)' <=> HasRun(d))
    PROVE  CallsOwned' /\ \A u \in Transfer : Ran(u)' <=> Ran(u)
<1>1. CallsOwned'
    <2>1. \A u \in Transfer : calling[u] # NoCall => wpc'[u] = wpc[u]
        BY DEF CallsOwned
    <2> QED
        BY <2>1 DEF CallsOwned
<1>2. \A u \in Transfer : Ran(u)' <=> Ran(u)
    BY DEF CallsOwned, Ran
<1> QED
    BY <1>1, <1>2

LEMMA CallRuns ==
    ASSUME CallInv, Typed, CallsOwned, NEW c \in Call, JobRuns(c)
    PROVE  \E t \in Transfer :
               /\ calling[t] = c /\ wpc[t] \in Job
               /\ job[c][1] = wpc[t] /\ job[c][2] = t
               /\ ~Ran(t) /\ Ran(t)' /\ CallsOwned'
               /\ \A u \in Transfer : u # t => (Ran(u)' <=> Ran(u)) /\ calling'[u] = calling[u]
<1>1. /\ caller[c] # "free" /\ ~HasRun(c) /\ HasRun(c)'
      /\ \A d \in Call : caller'[d] = "free" <=> caller[d] = "free"
      /\ \A d \in Call : d # c => (HasRun(d)' <=> HasRun(d))
    BY IsRun DEF JobRuns
<1>2. PICK t \in Transfer : calling[t] = c
    BY <1>1 DEF CallsOwned
<1>3. UNCHANGED <<calling, job, wpc>>
    BY DEF JobRuns
<1>4. wpc[t] \in Job /\ job[c] = <<wpc[t], t>>
    BY <1>2, CallAssumption DEF CallsOwned
<1>5. job[c][1] = wpc[t] /\ job[c][2] = t
    BY <1>4
<1>6. ~Ran(t) /\ Ran(t)'
    BY <1>1, <1>2, <1>3, CallAssumption DEF Ran
<1>7. \A u \in Transfer : u # t => (Ran(u)' <=> Ran(u)) /\ calling'[u] = calling[u]
    BY <1>1, <1>2, <1>3, OthersCalls DEF Ran, CallsOwned
<1>8. CallsOwned'
    BY <1>1, <1>3 DEF CallsOwned
<1> QED
    BY <1>2, <1>4, <1>5, <1>6, <1>7, <1>8

LEMMA CallMade ==
    ASSUME CallInv, Typed, CallsOwned, NEW t \in Transfer, Asks(t)
    PROVE  /\ CallInv' /\ CallsOwned'
           /\ job' \in [Call -> (Job \X Transfer) \cup {<<>>}]
           /\ calling' \in [Transfer -> Call \cup {NoCall}]
           /\ ~Ran(t) /\ ~Ran(t)'
           /\ \A u \in Transfer : u # t => (Ran(u)' <=> Ran(u)) /\ calling'[u] = calling[u]
<1>1. PICK c \in Call :
          /\ CallRefused(c) \/ PostCall(c) \/ CallInline(c)
          /\ calling' = [calling EXCEPT ![t] = c]
          /\ job' = [job EXCEPT ![c] = <<wpc[t], t>>]
    <2> DEFINE c == CHOOSE c \in Call : Unused(c)
    <2>1. c \in Call
        BY DEF Asks
    <2>2. /\ CallRefused(c) \/ PostCall(c) \/ CallInline(c)
          /\ calling' = [calling EXCEPT ![t] = c]
          /\ job' = [job EXCEPT ![c] = <<wpc[t], t>>]
        BY DEF Asks
    <2> HIDE DEF c
    <2> QED
        BY <2>1, <2>2
<1>2. wpc' = wpc /\ wpc[t] \in Job /\ calling[t] = NoCall
    BY DEF Asks
<1>t. calling \in [Transfer -> Call \cup {NoCall}]
      /\ job \in [Call -> (Job \X Transfer) \cup {<<>>}]
    BY DEF Typed
<1>3. CallInv'
    BY <1>1, <1>2, CallInvBegins
<1>4. /\ caller[c] = "free" /\ caller'[c] # "free" /\ ~HasRun(c)'
      /\ \A d \in Call : d # c => caller'[d] = caller[d] /\ (HasRun(d)' <=> HasRun(d))
    BY <1>1, <1>2, IsMade
<1>5. \A u \in Transfer : calling[u] # c
    BY <1>1, <1>4, CallAssumption DEF CallsOwned
<1>6. job' \in [Call -> (Job \X Transfer) \cup {<<>>}]
      /\ calling' \in [Transfer -> Call \cup {NoCall}]
    BY <1>1, <1>2 DEF Typed
<1>7. /\ ~Ran(t) /\ ~Ran(t)'
      /\ \A u \in Transfer : u # t => (Ran(u)' <=> Ran(u)) /\ calling'[u] = calling[u]
    BY <1>1, <1>2, <1>4, <1>5 DEF Typed, Ran, CallsOwned
<1>8. CallsOwned'
    <2>1. ASSUME NEW u \in Transfer, calling'[u] # NoCall
          PROVE  /\ calling'[u] \in Call /\ wpc'[u] \in Job
                 /\ caller'[calling'[u]] # "free"
                 /\ job'[calling'[u]] = <<wpc'[u], u>>
        <3>1. CASE u = t
            BY <1>t, <1>1, <1>2, <1>4, <3>1
        <3>2. CASE u # t
            <4>1. calling'[u] = calling[u] /\ calling[u] \in Call /\ calling[u] # c
                BY <1>t, <1>1, <1>5, <2>1, <3>2 DEF CallsOwned
            <4>2. job'[calling[u]] = job[calling[u]] /\ caller'[calling[u]] = caller[calling[u]]
                BY <1>t, <1>1, <1>4, <4>1
            <4> QED
                BY <1>2, <2>1, <4>1, <4>2 DEF CallsOwned
        <3> QED
            BY <3>1, <3>2
    <2>2. ASSUME NEW d \in Call, caller'[d] # "free"
          PROVE  \E u \in Transfer : calling'[u] = d
        <3>1. CASE d = c
            <4>1. calling'[t] = d
                BY <1>t, <1>1, <3>1
            <4> QED
                BY <4>1
        <3>2. CASE d # c
            <4>1. PICK u \in Transfer : calling[u] = d
                BY <1>4, <2>2, <3>2 DEF CallsOwned
            <4>2. calling'[u] = d
                BY <1>t, <1>1, <1>2, <4>1, CallAssumption
            <4> QED
                BY <4>2
        <3> QED
            BY <3>1, <3>2
    <2> QED
        BY <2>1, <2>2 DEF CallsOwned
<1> QED
    BY <1>3, <1>6, <1>7, <1>8

LEMMA CallReturns ==
    ASSUME CallInv, Typed, CallsOwned, NEW t \in Transfer, NEW from, NEW to, Returns(t, from, to)
    PROVE  /\ CallInv' /\ CallsOwned'
           /\ calling' \in [Transfer -> Call \cup {NoCall}]
           /\ Ran(t) <=> Yes(t)
           /\ ~Ran(t)' /\ calling'[t] = NoCall
           /\ \A u \in Transfer : u # t => (Ran(u)' <=> Ran(u)) /\ calling'[u] = calling[u]
<1>1. PICK c \in Call : calling[t] = c
    BY DEF Returns, Typed
<1>2. /\ EndCall(c)
      /\ calling' = [calling EXCEPT ![t] = NoCall] /\ job' = job
      /\ wpc[t] = from /\ wpc' = [wpc EXCEPT ![t] = to]
    BY <1>1 DEF Returns, WorkerMoves
<1>3. CallInv'
    BY <1>2, CallInvCaller
<1>4. /\ caller[c] \in {"yes", "no"} /\ caller'[c] = "free"
      /\ HasRun(c) <=> caller[c] = "yes"
      /\ \A d \in Call : d # c => caller'[d] = caller[d] /\ (HasRun(d)' <=> HasRun(d))
    BY <1>2, IsForgotten
<1>5. \A u \in Transfer : u # t => calling[u] # c
    BY <1>1, OthersCalls
<1>6. calling' \in [Transfer -> Call \cup {NoCall}]
    BY <1>2 DEF Typed
<1>7. /\ Ran(t) <=> Yes(t)
      /\ ~Ran(t)' /\ calling'[t] = NoCall
      /\ \A u \in Transfer : u # t => (Ran(u)' <=> Ran(u)) /\ calling'[u] = calling[u]
    BY <1>1, <1>2, <1>4, <1>5, CallAssumption DEF Typed, Ran, Yes, CallsOwned
<1>8. CallsOwned'
    <2>1. ASSUME NEW u \in Transfer, calling'[u] # NoCall
          PROVE  /\ calling'[u] \in Call /\ wpc'[u] \in Job
                 /\ caller'[calling'[u]] # "free"
                 /\ job'[calling'[u]] = <<wpc'[u], u>>
        <3>1. u # t /\ calling'[u] = calling[u]
            BY <1>2, <2>1 DEF Typed
        <3>2. calling[u] \in Call /\ calling[u] # c /\ job'[calling[u]] = job[calling[u]]
            BY <1>2, <1>5, <2>1, <3>1 DEF CallsOwned
        <3>3. caller'[calling[u]] = caller[calling[u]]
            BY <1>4, <3>2
        <3>4. wpc'[u] = wpc[u]
            BY <1>2, <3>1 DEF Typed
        <3> QED
            BY <2>1, <3>1, <3>2, <3>3, <3>4 DEF CallsOwned
    <2>2. ASSUME NEW d \in Call, caller'[d] # "free"
          PROVE  \E u \in Transfer : calling'[u] = d
        <3>1. PICK u \in Transfer : calling[u] = d
            BY <1>4, <2>2 DEF CallsOwned
        <3>2. calling'[u] = d
            BY <1>1, <1>2, <1>4, <2>2, <3>1 DEF Typed
        <3> QED
            BY <3>2
    <2> QED
        BY <2>1, <2>2 DEF CallsOwned
<1> QED
    BY <1>3, <1>6, <1>7, <1>8

-----------------------------------------------------------------------------
(* A transfer stays where it is.                                           *)
Same(u) ==
    /\ wpc'[u] = wpc[u] /\ local'[u] = local[u] /\ owed'[u] = owed[u] /\ ends'[u] = ends[u]
    /\ body'[u] = body[u] /\ reports'[u] = reports[u] /\ lost'[u] = lost[u]
    /\ u \in begun' <=> u \in begun
    /\ Ran(u)' <=> Ran(u)
    /\ calling'[u] = calling[u]

LEMMA SameProgress ==
    ASSUME NEW u \in Transfer, Progress(u), Same(u), connected' = connected \/ ~connected'
    PROVE  Progress(u)'
<1>1. Untouched(u)' /\ Sending(u)'
    BY DEF Progress, Same, Untouched, Sending
<1>2. AtHeaders(u)' /\ AtPoll(u)'
    BY DEF Progress, Same, AtHeaders, AtPoll
<1>4. AtWrite(u)'
    <2>1. AtWrite(u)
        BY DEF Progress
    <2> QED
        BY <2>1, Zenon DEF Same, AtWrite
<1>3. AtEnd(u)' /\ AfterSend(u)'
    <2>1. AtEnd(u) /\ AfterSend(u)
        BY DEF Progress
    <2>2. AtEnd(u)'
        BY <2>1, Zenon DEF Same, AtEnd
    <2>3. AfterSend(u)'
        BY <2>1, Zenon DEF Same, AfterSend, Over
    <2> QED
        BY <2>2, <2>3
<1> QED
    BY <1>1, <1>2, <1>3, <1>4 DEF Progress

LEMMA LocalFields ==
    ASSUME Typed, NEW t \in Transfer
    PROVE  /\ local[t] = [remaining |-> local[t].remaining, avail |-> local[t].avail,
                          got |-> local[t].got, polls |-> local[t].polls,
                          timedOut |-> local[t].timedOut, ok |-> local[t].ok,
                          pending |-> local[t].pending, connected |-> local[t].connected]
           /\ local[t].remaining \in 0 .. MaxLen /\ local[t].avail \in 0 .. MaxLen
           /\ local[t].got \in 0 .. ChunkSize /\ local[t].polls \in 0 .. MaxPolls
           /\ local[t].timedOut \in BOOLEAN /\ local[t].ok \in BOOLEAN
           /\ local[t].pending \in BOOLEAN /\ local[t].connected \in BOOLEAN
<1>1. local[t] \in Local
    BY DEF Typed
<1> QED
    BY <1>1 DEF Local

LEMMA NewLocals ==
    ASSUME NEW n \in 0 .. MaxLen, NEW a \in 0 .. MaxLen
    PROVE  /\ Locals(n, a) \in Local /\ Locals(n, a).remaining = n
           /\ Locals(n, a).polls = 0
           /\ Locals(n, a).ok = FALSE /\ Locals(n, a).timedOut = FALSE
<1>1. 0 \in 0 .. ChunkSize /\ 0 \in 0 .. MaxPolls
    BY ChunkAssumption, PollsAssumption
<1> QED
    BY <1>1 DEF Locals, Local

-----------------------------------------------------------------------------
(* Steps of a task that concern no call.                                   *)
Leaves(t) == SendWhole(t) \/ AccelSends(t) \/ SendThrows(t)

LEMMA TaskElsewhere ==
    ASSUME CallInv, LoopIsHandling, NEW t \in Transfer,
           Dispatch(t) \/ DispatchLost(t) \/ Leaves(t) \/ SendOpens(t) \/ TaskEnds(t)
    PROVE  Elsewhere /\ UNCHANGED <<calling, job>>
<1>1. UNCHANGED <<caller, syncCall, loop, cur, calling, job, attached>>
    BY DEF Dispatch, DispatchLost, Leaves, SendWhole, AccelSends, SendThrows, SendOpens, TaskEnds
<1>2. {io, io'} \subseteq {"idle", "handler"} \/ io' = io
    <2>1. CASE TaskEnds(t)
        <3>1. dispatcher \/ io = "handler"
            BY <2>1 DEF TaskEnds, WorkerMoves, LoopIsHandling, Running
        <3> QED
            BY <2>1, <3>1 DEF TaskEnds
    <2> QED
        BY <2>1
        DEF Dispatch, DispatchLost, Leaves, SendWhole, AccelSends, SendThrows, SendOpens
<1> QED
    BY <1>1, <1>2 DEF Elsewhere, CallInv, CallTypeOK

LEMMA TaskMoves ==
    ASSUME CallInv, Typed, CallsOwned, LoopIsHandling, NEW t \in Transfer,
           Dispatch(t) \/ DispatchLost(t) \/ Leaves(t) \/ SendOpens(t) \/ TaskEnds(t)
    PROVE  /\ CallInv' /\ CallsOwned'
           /\ \A u \in Transfer : Ran(u)' <=> Ran(u)
<1>1. Elsewhere /\ UNCHANGED <<calling, job>>
    BY TaskElsewhere
<1>2. \A u \in Transfer : wpc'[u] = wpc[u] \/ wpc[u] \notin Job
    BY DEF Typed, Dispatch, DispatchLost, Leaves, SendWhole, AccelSends, SendThrows, SendOpens,
           TaskEnds, WorkerMoves, Job
<1>3. \A d \in Call : (caller'[d] = "free" <=> caller[d] = "free") /\ (HasRun(d)' <=> HasRun(d))
    BY <1>1, Unconcerned
<1>4. CallsOwned' /\ \A u \in Transfer : Ran(u)' <=> Ran(u)
    BY <1>1, <1>2, <1>3, CallsStay
<1> QED
    BY <1>1, <1>4, CallInvElsewhere

LEMMA DispatchProgress ==
    ASSUME CallInv, Typed, CallsOwned, LoopIsHandling, \A u \in Transfer : Progress(u),
           NEW t \in Transfer, Dispatch(t) \/ DispatchLost(t)
    PROVE  Typed' /\ \A u \in Transfer : Progress(u)'
<1>1. \A u \in Transfer : Ran(u)' <=> Ran(u)
    BY TaskMoves
<1>2. /\ UNCHANGED <<dispatcher, connected, pending, begun, owed, ends, calling, job, local,
                     body, reports, lost>>
      /\ wpc[t] = "none"
      /\ \E to \in {"opening", "dropped"} : wpc' = [wpc EXCEPT ![t] = to]
    BY DEF Dispatch, DispatchLost, WorkerMoves
<1>3. Typed'
    BY <1>2 DEF Typed
<1>4. \A u \in Transfer : u # t => Same(u)
    BY <1>1, <1>2 DEF Typed, Same
<1>5. Progress(t)'
    <2>1. wpc'[t] \in {"opening", "dropped"}
        BY <1>2 DEF Typed
    <2>2. Untouched(t)'
        BY <1>2 DEF Progress, Untouched
    <2> QED
        BY <2>1, <2>2
        DEF Progress, Sending, AtHeaders, AtPoll, AtWrite, AtEnd, AfterSend, Over
<1> QED
    BY <1>2, <1>3, <1>4, <1>5, SameProgress

LEMMA LeaveProgress ==
    ASSUME CallInv, Typed, CallsOwned, LoopIsHandling, \A u \in Transfer : Progress(u),
           NEW t \in Transfer, Leaves(t)
    PROVE  Typed' /\ \A u \in Transfer : Progress(u)'
<1>1. \A u \in Transfer : Ran(u)' <=> Ran(u)
    BY TaskMoves
<1>2. /\ UNCHANGED <<dispatcher, connected, pending, begun, owed, ends, calling, job, local, lost>>
      /\ wpc[t] = "opening" /\ wpc' = [wpc EXCEPT ![t] = "returned"]
    BY DEF Leaves, SendWhole, AccelSends, SendThrows, WorkerMoves
<1>3. /\ t \notin begun /\ ends[t] = 0 /\ owed[t] = 0 /\ reports[t] = <<>>
    BY <1>2 DEF Progress, Untouched
<1>4. \/ UNCHANGED <<body, reports>>
      \/ \E left \in Served \cup {"redirect", ErrorBody} :
             /\ body' = [body EXCEPT ![t] = left]
             /\ reports' = [reports EXCEPT ![t] = <<left # ErrorBody>>]
    <2>1. ASSUME NEW left \in Served \cup {"redirect", ErrorBody}, NEW success \in BOOLEAN,
                 success = (left # ErrorBody),
                 body' = [body EXCEPT ![t] = left], Report(t, 0, success)
          PROVE  \E other \in Served \cup {"redirect", ErrorBody} :
                     /\ body' = [body EXCEPT ![t] = other]
                     /\ reports' = [reports EXCEPT ![t] = <<other # ErrorBody>>]
        <3>1. reports' = [reports EXCEPT ![t] = <<left # ErrorBody>>]
            BY <1>3, <2>1 DEF Report
        <3> QED
            BY <2>1, <3>1
    <2>2. CASE SendWhole(t)
        BY <2>1, <2>2 DEF SendWhole
    <2>3. CASE AccelSends(t)
        <3>1. "redirect" # ErrorBody
            BY DEF ErrorBody
        <3> QED
            BY <2>1, <2>3, <3>1 DEF AccelSends
    <2>4. CASE SendThrows(t)
        BY <2>4 DEF SendThrows
    <2> QED
        BY <2>2, <2>3, <2>4 DEF Leaves
<1>5. Typed'
    <2>1. body' \in [Transfer -> Served \cup {"none", "redirect", ErrorBody}]
        BY <1>4 DEF Typed
    <2>2. reports' \in [Transfer -> Seq(BOOLEAN)]
        <3>1. \A success \in BOOLEAN : <<success>> \in Seq(BOOLEAN)
            OBVIOUS
        <3>2. reports' = reports \/ \E success \in BOOLEAN :
                                       reports' = [reports EXCEPT ![t] = <<success>>]
            <4>1. ASSUME NEW left, reports' = [reports EXCEPT ![t] = <<left # ErrorBody>>]
                  PROVE  \E success \in BOOLEAN :
                             reports' = [reports EXCEPT ![t] = <<success>>]
                <5>1. (left # ErrorBody) \in BOOLEAN
                    OBVIOUS
                <5> QED
                    BY <4>1, <5>1, Zenon
            <4> QED
                BY <1>4, <4>1
        <3>3. reports \in [Transfer -> Seq(BOOLEAN)]
            BY DEF Typed
        <3> QED
            BY <3>1, <3>2, <3>3
    <2> QED
        BY <1>2, <2>1, <2>2 DEF Typed
<1>6. \A u \in Transfer : u # t => Same(u)
    BY <1>1, <1>2, <1>4 DEF Typed, Same
<1>7. Progress(t)'
    <2>1. wpc'[t] = "returned"
        BY <1>2 DEF Typed
    <2>2. \/ reports'[t] = <<>>
          \/ reports'[t] = <<TRUE>>
          \/ reports'[t] = <<FALSE>> /\ body'[t] = ErrorBody
        BY <1>3, <1>4 DEF Typed
    <2>3. AfterSend(t)'
        <3>1. t \notin begun' /\ ends'[t] = 0 /\ owed'[t] = 0
            BY <1>2, <1>3
        <3>2. <<TRUE>> # <<>> /\ <<FALSE>> # <<>> /\ <<TRUE>> # <<FALSE>>
            <4>1. <<TRUE>>[1] = TRUE /\ <<FALSE>>[1] = FALSE
                OBVIOUS
            <4> QED
                BY <4>1
        <3>3. /\ reports'[t] \in {<<>>, <<TRUE>>, <<FALSE>>}
              /\ reports'[t] = <<FALSE>> => body'[t] = ErrorBody
            BY <2>2, <3>2
        <3>4. owed'[t] >= 0 /\ wpc'[t] # "done"
            BY <2>1, <3>1
        <3> QED
            BY <3>1, <3>3, <3>4, Zenon DEF AfterSend
    <2> QED
        BY <2>1, <2>3 DEF Progress, Untouched, Sending, AtHeaders, AtPoll, AtWrite, AtEnd
<1> QED
    BY <1>2, <1>5, <1>6, <1>7, SameProgress

LEMMA OpenProgress ==
    ASSUME CallInv, Typed, CallsOwned, LoopIsHandling, \A u \in Transfer : Progress(u),
           NEW t \in Transfer, SendOpens(t)
    PROVE  Typed' /\ \A u \in Transfer : Progress(u)'
<1>1. \A u \in Transfer : Ran(u)' <=> Ran(u)
    BY TaskMoves
<1>2. /\ UNCHANGED <<dispatcher, connected, pending, begun, ends, calling, job, body,
                     reports, lost>>
      /\ wpc[t] = "opening" /\ wpc' = [wpc EXCEPT ![t] = "headers"]
    BY DEF SendOpens, WorkerMoves
<1>3. PICK n \in 1 .. MaxLen, a \in 0 .. MaxLen :
          owed' = [owed EXCEPT ![t] = n] /\ local' = [local EXCEPT ![t] = Locals(n, a)]
    <2>1. PICK n \in 1 .. MaxLen : \E a \in 0 .. n :
              owed' = [owed EXCEPT ![t] = n] /\ local' = [local EXCEPT ![t] = Locals(n, a)]
        BY DEF SendOpens
    <2>2. 0 .. n \subseteq 0 .. MaxLen
        BY LengthAssumption
    <2> QED
        BY <2>1, <2>2
<1>4. n \in 0 .. MaxLen /\ n \in Int /\ n > 0
    BY LengthAssumption
<1>5. /\ Locals(n, a) \in Local /\ Locals(n, a).remaining = n /\ Locals(n, a).polls = 0
      /\ Locals(n, a).ok = FALSE /\ Locals(n, a).timedOut = FALSE
    BY <1>4, NewLocals
<1>6. Typed'
    BY <1>2, <1>3, <1>4, <1>5 DEF Typed, Job
<1>7. \A u \in Transfer : u # t => Same(u)
    BY <1>1, <1>2, <1>3 DEF Typed, Same
<1>8. Progress(t)'
    <2>1. wpc'[t] = "headers" /\ owed'[t] = n /\ local'[t] = Locals(n, a)
        BY <1>2, <1>3 DEF Typed
    <2>2. t \notin begun' /\ ends'[t] = 0 /\ reports'[t] = <<>>
        BY <1>2 DEF Progress, Untouched
    <2>3. calling'[t] = NoCall
        BY <1>2 DEF CallsOwned, Job
    <2>4. Sending(t)'
        BY <1>4, <1>5, <2>1, <2>2, PollsAssumption DEF Sending
    <2>5. AtHeaders(t)'
        BY <1>5, <2>1, <2>2, <2>3 DEF AtHeaders, Ran
    <2> QED
        BY <2>1, <2>4, <2>5
        DEF Progress, Untouched, AtPoll, AtWrite, AtEnd, AfterSend, Over
<1> QED
    BY <1>2, <1>6, <1>7, <1>8, SameProgress

LEMMA DoneProgress ==
    ASSUME CallInv, Typed, CallsOwned, LoopIsHandling, \A u \in Transfer : Progress(u),
           NEW t \in Transfer, TaskEnds(t)
    PROVE  Typed' /\ \A u \in Transfer : Progress(u)'
<1>1. \A u \in Transfer : Ran(u)' <=> Ran(u)
    BY TaskMoves
<1>2. /\ UNCHANGED <<dispatcher, connected, pending, begun, owed, calling, job, local, body,
                     reports, lost>>
      /\ wpc[t] = "returned" /\ wpc' = [wpc EXCEPT ![t] = "done"]
      /\ ends' = IF t \in begun THEN ends ELSE [ends EXCEPT ![t] = @ + 1]
    BY DEF TaskEnds, WorkerMoves
<1>3. Typed'
    BY <1>2 DEF Typed
<1>4. \A u \in Transfer : u # t => Same(u)
    BY <1>1, <1>2 DEF Typed, Same
<1>5. Progress(t)'
    <2>1. wpc'[t] = "done"
        BY <1>2 DEF Typed
    <2>2. AfterSend(t) /\ Over(t)
        BY <1>2 DEF Progress, Over
    <2>3. ends'[t] = 1 \/ (ends'[t] = 0 /\ lost[t] = "end")
        <3>1. CASE t \in begun
            BY <1>2, <2>2, <3>1 DEF AfterSend
        <3>2. CASE t \notin begun
            <4>1. ends[t] = 0
                BY <1>2, <2>2, <3>2 DEF AfterSend
            <4> QED
                BY <1>2, <3>2, <4>1 DEF Typed
        <3> QED
            BY <3>1, <3>2
    <2>4. AfterSend(t)'
        BY <1>2, <2>1, <2>2, <2>3 DEF AfterSend
    <2> QED
        BY <2>1, <2>4 DEF Progress, Untouched, Sending, AtHeaders, AtPoll, AtWrite, AtEnd
<1> QED
    BY <1>2, <1>3, <1>4, <1>5, SameProgress

-----------------------------------------------------------------------------
(* Steps of a call.                                                        *)
LEMMA AskProgress ==
    ASSUME CallInv, Typed, CallsOwned, \A u \in Transfer : Progress(u),
           NEW t \in Transfer, Asks(t)
    PROVE  Typed' /\ \A u \in Transfer : Progress(u)'
<1>1. /\ job' \in [Call -> (Job \X Transfer) \cup {<<>>}]
      /\ calling' \in [Transfer -> Call \cup {NoCall}]
      /\ ~Ran(t) /\ ~Ran(t)'
      /\ \A u \in Transfer : u # t => (Ran(u)' <=> Ran(u)) /\ calling'[u] = calling[u]
    BY CallMade
<1>2. /\ UNCHANGED <<dispatcher, connected, pending, begun, owed, ends, wpc, body, reports, lost>>
      /\ wpc[t] \in Job
    BY DEF Asks
<1> DEFINE r == [local[t] EXCEPT !.ok = FALSE, !.pending = FALSE, !.connected = FALSE]
<1>3. local' = [local EXCEPT ![t] = r]
    BY DEF Asks
<1>4. /\ r \in Local
      /\ r.remaining = local[t].remaining /\ r.got = local[t].got /\ r.polls = local[t].polls
      /\ r.timedOut = local[t].timedOut /\ r.ok = FALSE
    <2>1. local[t] \in Local
        BY DEF Typed
    <2> QED
        BY <2>1 DEF Local
<1> HIDE DEF r
<1>5. Typed'
    BY <1>1, <1>2, <1>3, <1>4 DEF Typed
<1>6. \A u \in Transfer : u # t => Same(u)
    BY <1>1, <1>2, <1>3 DEF Typed, Same
<1>7. Progress(t)'
    <2>1. local'[t] = r
        BY <1>3 DEF Typed
    <2>2. Untouched(t)' /\ AfterSend(t)'
        BY <1>2 DEF Untouched, AfterSend, Over, Job
    <2>3. Sending(t)' /\ AtPoll(t)'
        BY <1>2, <1>4, <2>1 DEF Progress, Sending, AtPoll
    <2>4. AtHeaders(t)'
        BY <1>1, <1>2, <1>4, <2>1 DEF Progress, AtHeaders
    <2>5. AtWrite(t)'
        BY <1>1, <1>2, <1>4, <2>1 DEF Progress, AtWrite
    <2>6. AtEnd(t)'
        BY <1>1, <1>2, <1>4, <2>1 DEF Progress, AtEnd
    <2> QED
        BY <2>2, <2>3, <2>4, <2>5, <2>6 DEF Progress
<1> QED
    BY <1>2, <1>5, <1>6, <1>7, SameProgress

LEMMA RunProgress ==
    ASSUME CallInv, Typed, CallsOwned, \A u \in Transfer : Progress(u),
           NEW c \in Call, JobRuns(c)
    PROVE  Typed' /\ \A u \in Transfer : Progress(u)'
<1>1. PICK t \in Transfer :
          /\ calling[t] = c /\ wpc[t] \in Job
          /\ job[c][1] = wpc[t] /\ job[c][2] = t
          /\ ~Ran(t) /\ Ran(t)'
          /\ \A u \in Transfer : u # t => (Ran(u)' <=> Ran(u))
    BY CallRuns
<1>2. UNCHANGED <<dispatcher, wpc, calling, job, body, reports, lost>>
    BY DEF JobRuns
<1>3. \/ wpc[t] = "headers" /\ DoHeaders(t)
      \/ wpc[t] = "poll" /\ DoPoll(t)
      \/ wpc[t] = "write" /\ DoWrite(t)
      \/ wpc[t] = "end" /\ DoEnd(t)
    BY <1>1 DEF JobRuns
<1>t. local[t] \in Local /\ connected \in BOOLEAN /\ pending \in BOOLEAN
      /\ owed[t] \in Int /\ local[t].got \in Int /\ local[t].remaining \in Int
    BY LocalFields DEF Typed
<1>p. Progress(t)
    OBVIOUS
<1>4. CASE wpc[t] = "headers" /\ DoHeaders(t)
    <2> DEFINE r == [local[t] EXCEPT !.ok = connected]
    <2>1. /\ UNCHANGED <<connected, pending, owed, ends>>
          /\ local' = [local EXCEPT ![t] = r]
          /\ begun' = IF connected THEN begun \cup {t} ELSE begun
        BY <1>4 DEF DoHeaders
    <2>2. /\ r \in Local /\ r.ok = connected /\ r.remaining = local[t].remaining
          /\ r.polls = local[t].polls /\ r.timedOut = local[t].timedOut
        BY <1>t DEF Local
    <2> HIDE DEF r
    <2>3. Typed'
        BY <1>2, <2>1, <2>2 DEF Typed
    <2>4. \A u \in Transfer : u # t => Same(u)
        BY <1>1, <1>2, <2>1 DEF Typed, Same
    <2>5. Progress(t)'
        <3>1. wpc'[t] = "headers" /\ local'[t] = r
            BY <1>2, <1>4, <2>1 DEF Typed
        <3>2. Sending(t)'
            BY <1>p, <1>2, <1>4, <2>1, <2>2, <3>1 DEF Progress, Sending
        <3>3. owed'[t] = r.remaining /\ (t \in begun' <=> connected)
            BY <1>1, <1>p, <1>4, <2>1, <2>2 DEF Progress, AtHeaders
        <3>4. AtHeaders(t)'
            BY <1>1, <1>t, <2>1, <2>2, <3>1, <3>3 DEF AtHeaders
        <3> QED
            BY <3>1, <3>2, <3>4
            DEF Progress, Untouched, AtPoll, AtWrite, AtEnd, AfterSend, Over
    <2> QED
        BY <2>1, <2>3, <2>4, <2>5, SameProgress
<1>5. CASE wpc[t] = "poll" /\ DoPoll(t)
    <2> DEFINE r == [local[t] EXCEPT !.pending = pending, !.connected = connected]
    <2>1. /\ UNCHANGED <<connected, pending, begun, owed, ends>>
          /\ local' = [local EXCEPT ![t] = r]
        BY <1>5 DEF DoPoll
    <2>2. /\ r \in Local /\ r.remaining = local[t].remaining
          /\ r.polls = local[t].polls /\ r.timedOut = local[t].timedOut
          /\ r.ok = local[t].ok
        BY <1>t DEF Local
    <2> HIDE DEF r
    <2>3. Typed'
        BY <1>2, <2>1, <2>2 DEF Typed
    <2>4. \A u \in Transfer : u # t => Same(u)
        BY <1>1, <1>2, <2>1 DEF Typed, Same
    <2>5. Progress(t)'
        <3>1. wpc'[t] = "poll" /\ local'[t] = r
            BY <1>2, <1>5, <2>1 DEF Typed
        <3>2. Sending(t)' /\ AtPoll(t)'
            BY <1>p, <1>2, <1>5, <2>1, <2>2, <3>1 DEF Progress, Sending, AtPoll
        <3> QED
            BY <3>1, <3>2 DEF Progress, Untouched, AtHeaders, AtWrite, AtEnd, AfterSend, Over
    <2> QED
        BY <2>1, <2>3, <2>4, <2>5, SameProgress
<1>6. CASE wpc[t] = "write" /\ DoWrite(t)
    <2> DEFINE r == [local[t] EXCEPT !.ok = connected, !.connected = connected']
    <2>1. /\ connected' \in {connected, FALSE} /\ pending' \in {pending, connected}
          /\ UNCHANGED <<begun, ends>>
          /\ local' = [local EXCEPT ![t] = r]
          /\ owed' = [owed EXCEPT ![t] = IF connected THEN @ - local[t].got ELSE @]
        BY <1>6 DEF DoWrite
    <2>b. connected' \in BOOLEAN /\ pending' \in BOOLEAN
        BY <1>t, <2>1
    <2>2. /\ r \in Local /\ r.ok = connected /\ r.connected = connected'
          /\ r.remaining = local[t].remaining /\ r.got = local[t].got
          /\ r.polls = local[t].polls /\ r.timedOut = local[t].timedOut
        BY <1>t, <2>b DEF Local
    <2> HIDE DEF r
    <2>3. Typed'
        <3>1. owed' \in [Transfer -> Int]
            BY <1>t, <2>1 DEF Typed
        <3>2. local' \in [Transfer -> Local]
            BY <2>1, <2>2 DEF Typed
        <3> QED
            BY <1>2, <2>1, <2>b, <3>1, <3>2 DEF Typed
    <2>4. \A u \in Transfer : u # t => Same(u)
        BY <1>1, <1>2, <2>1 DEF Typed, Same
    <2>5. Progress(t)'
        <3>1. wpc'[t] = "write" /\ local'[t] = r
            BY <1>2, <1>6, <2>1 DEF Typed
        <3>2. Sending(t)'
            BY <1>p, <1>2, <1>6, <2>1, <2>2, <3>1 DEF Progress, Sending
        <3>3. /\ t \in begun /\ owed[t] = local[t].remaining
              /\ local[t].got > 0 /\ local[t].got <= local[t].remaining
            BY <1>1, <1>p, <1>6 DEF Progress, AtWrite
        <3>4. owed'[t] = IF connected THEN owed[t] - local[t].got ELSE owed[t]
            BY <2>1 DEF Typed
        <3>5. AtWrite(t)'
            <4>1. r.ok => Ran(t)' /\ owed'[t] = r.remaining - r.got
                BY <1>1, <2>2, <3>3, <3>4
            <4>2. ~r.ok => owed'[t] = r.remaining
                BY <2>2, <3>3, <3>4
            <4>3. r.ok /\ ~r.connected => ~connected'
                BY <2>2
            <4>4. t \in begun' /\ r.got > 0 /\ r.got <= r.remaining
                BY <2>1, <2>2, <3>3
            <4> QED
                BY <3>1, <4>1, <4>2, <4>3, <4>4, Zenon DEF AtWrite
        <3> QED
            BY <3>1, <3>2, <3>5
            DEF Progress, Untouched, AtHeaders, AtPoll, AtEnd, AfterSend, Over
    <2>6. connected' = connected \/ ~connected'
        BY <2>1
    <2> QED
        BY <2>3, <2>4, <2>5, <2>6, SameProgress
<1>7. CASE wpc[t] = "end" /\ DoEnd(t)
    <2>1. /\ UNCHANGED <<connected, pending, begun, owed, local>>
          /\ ends' = [ends EXCEPT ![t] = @ + 1]
        BY <1>7 DEF DoEnd
    <2>2. Typed'
        BY <1>2, <2>1 DEF Typed
    <2>3. \A u \in Transfer : u # t => Same(u)
        BY <1>1, <1>2, <2>1 DEF Typed, Same
    <2>4. Progress(t)'
        <3>1. ends[t] = 0
            BY <1>1, <1>p, <1>7 DEF Progress, AtEnd
        <3>2. wpc'[t] = "end" /\ ends'[t] = 1
            BY <1>2, <1>7, <2>1, <3>1 DEF Typed
        <3>3. AtEnd(t)'
            BY <1>1, <1>p, <1>2, <1>7, <2>1, <3>2 DEF Progress, AtEnd
        <3> QED
            BY <3>2, <3>3
            DEF Progress, Untouched, Sending, AtHeaders, AtPoll, AtWrite, AfterSend, Over
    <2> QED
        BY <2>1, <2>2, <2>3, <2>4, SameProgress
<1> QED
    BY <1>3, <1>4, <1>5, <1>6, <1>7

-----------------------------------------------------------------------------
(* The answer of a call is used.                                           *)
LEMMA ReturnMoves ==
    ASSUME CallInv, Typed, CallsOwned, \A u \in Transfer : Progress(u),
           NEW t \in Transfer, NEW from \in Job, NEW to \in Job \cup {"returned"},
           Returns(t, from, to),
           NEW r \in Local, local' = [local EXCEPT ![t] = r],
           \/ reports' = reports
           \/ \E success \in BOOLEAN : reports' = [reports EXCEPT ![t] = Append(@, success)]
    PROVE  /\ Typed' /\ \A u \in Transfer : u # t => Progress(u)'
           /\ UNCHANGED <<connected, begun, owed, ends, body>>
           /\ wpc[t] = from /\ wpc'[t] = to /\ local'[t] = r
           /\ lost'[t] = IF Yes(t) THEN "none" ELSE from
           /\ Ran(t) <=> Yes(t)
           /\ ~Ran(t)' /\ calling'[t] = NoCall
<1>1. /\ calling' \in [Transfer -> Call \cup {NoCall}]
      /\ Ran(t) <=> Yes(t)
      /\ ~Ran(t)' /\ calling'[t] = NoCall
      /\ \A u \in Transfer : u # t => (Ran(u)' <=> Ran(u)) /\ calling'[u] = calling[u]
    BY CallReturns
<1>2. /\ UNCHANGED <<dispatcher, connected, pending, begun, owed, ends, job, body>>
      /\ wpc[t] = from /\ wpc' = [wpc EXCEPT ![t] = to]
      /\ lost' = [lost EXCEPT ![t] = IF Yes(t) THEN "none" ELSE from]
    BY DEF Returns, WorkerMoves
<1>3. reports' \in [Transfer -> Seq(BOOLEAN)]
    <2>1. reports \in [Transfer -> Seq(BOOLEAN)]
        BY DEF Typed
    <2>2. \A success \in BOOLEAN : Append(reports[t], success) \in Seq(BOOLEAN)
        BY <2>1
    <2> QED
        BY <2>1, <2>2
<1>4. Typed'
    <2>1. wpc' \in [Transfer -> Job \cup {"none", "dropped", "opening", "returned", "done"}]
        BY <1>2 DEF Typed
    <2>2. lost' \in [Transfer -> Job \cup {"none"}] /\ local' \in [Transfer -> Local]
        BY <1>2 DEF Typed
    <2> QED
        BY <1>1, <1>2, <1>3, <2>1, <2>2 DEF Typed
<1>5. \A u \in Transfer : u # t => Same(u)
    BY <1>1, <1>2 DEF Typed, Same
<1>6. \A u \in Transfer : u # t => Progress(u)'
    BY <1>2, <1>5, SameProgress
<1> QED
    BY <1>1, <1>2, <1>4, <1>6 DEF Typed

LEMMA HeadersProgress ==
    ASSUME CallInv, Typed, CallsOwned, \A u \in Transfer : Progress(u),
           NEW t \in Transfer, HeadersFailed(t) \/ HeadersSent(t)
    PROVE  Typed' /\ \A u \in Transfer : Progress(u)'
<1>j. "headers" \in Job /\ "poll" \in Job
    BY DEF Job
<1>p. Progress(t)
    OBVIOUS
<1>1. CASE HeadersFailed(t)
    <2>1. NoLocals \in Local
        <3>1. 0 \in 0 .. MaxLen
            BY LengthAssumption
        <3> QED
            BY <3>1, NewLocals DEF NoLocals
    <2>2. /\ Returns(t, "headers", "returned") /\ ~(Yes(t) /\ local[t].ok)
          /\ local' = [local EXCEPT ![t] = NoLocals]
          /\ reports' = [reports EXCEPT ![t] = Append(@, FALSE)]
        BY <1>1 DEF HeadersFailed, SendReturnsFrom, Report
    <2>3. /\ Typed' /\ \A u \in Transfer : u # t => Progress(u)'
          /\ UNCHANGED <<connected, begun, owed, ends, body>>
          /\ wpc[t] = "headers" /\ wpc'[t] = "returned"
          /\ lost'[t] = IF Yes(t) THEN "none" ELSE "headers"
          /\ Ran(t) <=> Yes(t)
        BY <1>j, <2>1, <2>2, ReturnMoves
    <2>4. /\ reports[t] = <<>> /\ ends[t] = 0 /\ t \notin begun
          /\ owed[t] = local[t].remaining /\ local[t].remaining > 0
          /\ Yes(t) => ~connected
        BY <1>p, <2>2, <2>3 DEF Progress, Sending, AtHeaders
    <2>5. reports'[t] = <<FALSE>> /\ <<FALSE>> # <<TRUE>>
        <3>1. reports'[t] = Append(reports[t], FALSE)
            BY <2>2 DEF Typed
        <3>2. <<FALSE>>[1] = FALSE /\ <<TRUE>>[1] = TRUE
            OBVIOUS
        <3> QED
            BY <2>4, <3>1, <3>2
    <2>6. owed'[t] >= 0
        <3>1. local[t].remaining \in 0 .. MaxLen
            BY LocalFields
        <3> QED
            BY <2>3, <2>4, <3>1
    <2>7. AfterSend(t)'
        BY <2>3, <2>4, <2>5, <2>6, Zenon DEF AfterSend
    <2>8. Progress(t)'
        BY <2>3, <2>7 DEF Progress, Untouched, Sending, AtHeaders, AtPoll, AtWrite, AtEnd
    <2> QED
        BY <2>3, <2>8
<1>2. CASE HeadersSent(t)
    <2>1. local[t] \in Local /\ local' = [local EXCEPT ![t] = local[t]] /\ reports' = reports
        BY <1>2 DEF HeadersSent, Typed
    <2>2. Returns(t, "headers", "poll") /\ Yes(t) /\ local[t].ok
        BY <1>2 DEF HeadersSent
    <2>3. /\ Typed' /\ \A u \in Transfer : u # t => Progress(u)'
          /\ UNCHANGED <<connected, begun, owed, ends, body>>
          /\ wpc[t] = "headers" /\ wpc'[t] = "poll" /\ local'[t] = local[t]
          /\ calling'[t] = NoCall
        BY <1>j, <2>1, <2>2, ReturnMoves
    <2>4. Sending(t)' /\ AtPoll(t)'
        BY <1>p, <2>1, <2>2, <2>3 DEF Progress, Sending, AtHeaders, AtPoll
    <2>5. Progress(t)'
        BY <2>3, <2>4 DEF Progress, Untouched, AtHeaders, AtWrite, AtEnd, AfterSend, Over
    <2> QED
        BY <2>3, <2>5
<1> QED
    BY <1>1, <1>2

LEMMA PollProgress ==
    ASSUME CallInv, Typed, CallsOwned, \A u \in Transfer : Progress(u),
           NEW t \in Transfer, Sleeps(t) \/ PollFailed(t) \/ ReadsChunk(t)
    PROVE  Typed' /\ \A u \in Transfer : Progress(u)'
<1>j. "poll" \in Job /\ "end" \in Job /\ "write" \in Job
    BY DEF Job
<1>t. /\ local[t] \in Local
      /\ local[t].remaining \in 0 .. MaxLen /\ local[t].avail \in 0 .. MaxLen
      /\ local[t].polls \in 0 .. MaxPolls
    <2>1. local[t] \in Local
        BY DEF Typed
    <2> QED
        BY <2>1, LocalFields
<1>p. Progress(t)
    OBVIOUS
(* Where it waits or gives up, nothing has changed but the polls.          *)
<1>1. ASSUME NEW r \in Local, local' = [local EXCEPT ![t] = r], reports' = reports,
             NEW to \in {"poll", "end"}, Returns(t, "poll", to),
             r.remaining = local[t].remaining,
             to = "poll" => r.polls < MaxPolls /\ ~r.timedOut
      PROVE  Typed' /\ \A u \in Transfer : Progress(u)'
    <2>1. /\ Typed' /\ \A u \in Transfer : u # t => Progress(u)'
          /\ UNCHANGED <<connected, begun, owed, ends, body>>
          /\ wpc[t] = "poll" /\ wpc'[t] = to /\ local'[t] = r
          /\ ~Ran(t)' /\ calling'[t] = NoCall
        <3>1. to \in Job \cup {"returned"}
            BY <1>1, <1>j
        <3>2. Returns(t, "poll", to) /\ local' = [local EXCEPT ![t] = r] /\ reports' = reports
            BY <1>1
        <3>3. /\ Typed' /\ \A u \in Transfer : u # t => Progress(u)'
              /\ UNCHANGED <<connected, begun, owed, ends, body>>
              /\ wpc[t] = "poll" /\ wpc'[t] = to /\ local'[t] = r
              /\ lost'[t] = IF Yes(t) THEN "none" ELSE "poll"
              /\ Ran(t) <=> Yes(t)
              /\ ~Ran(t)' /\ calling'[t] = NoCall
            BY <1>j, <3>1, <3>2, ReturnMoves
        <3> QED
            BY <3>3
    <2>2. /\ t \in begun /\ owed[t] = local[t].remaining /\ local[t].remaining > 0
          /\ ends[t] = 0 /\ reports[t] = <<>>
        BY <1>p, <2>1 DEF Progress, Sending, AtPoll
    <2>3. Sending(t)' /\ AtPoll(t)'
        BY <1>1, <2>1, <2>2 DEF Sending, AtPoll
    <2>4. AtEnd(t)'
        <3>1. 0 <= owed'[t] /\ owed'[t] <= r.remaining /\ owed'[t] = r.remaining
              /\ r.remaining > 0
            BY <1>1, <1>t, <2>1, <2>2
        <3> QED
            BY <1>1, <2>1, <2>2, <3>1, Zenon DEF AtEnd
    <2>5. Progress(t)'
        BY <2>1, <2>3, <2>4 DEF Progress, Untouched, AtHeaders, AtWrite, AfterSend, Over
    <2> QED
        BY <2>1, <2>5
<1>2. CASE Sleeps(t)
    <2> DEFINE over == local[t].polls + 1 >= MaxPolls
               r == [local[t] EXCEPT !.polls = @ + 1, !.timedOut = over]
    <2>1. /\ Returns(t, "poll", IF over THEN "end" ELSE "poll")
          /\ local' = [local EXCEPT ![t] = r] /\ reports' = reports
          /\ wpc[t] = "poll"
        BY <1>2 DEF Sleeps, Returns, WorkerMoves
    <2>2. local[t].polls + 1 \in 0 .. MaxPolls
        BY <1>p, <1>t, <2>1, PollsAssumption DEF Progress, Sending
    <2>3. r \in Local
        <3>1. over \in BOOLEAN
            OBVIOUS
        <3> HIDE DEF over
        <3> QED
            BY <1>t, <2>2, <3>1 DEF Local
    <2>4. /\ r.remaining = local[t].remaining /\ r.polls = local[t].polls + 1
          /\ r.timedOut = over
        BY <1>t DEF Local
    <2>5. CASE over
        BY <1>1, <2>1, <2>3, <2>4, <2>5
    <2>6. CASE ~over
        <3>1. r.polls < MaxPolls
            BY <1>t, <2>4, <2>6, PollsAssumption
        <3> HIDE DEF r
        <3> QED
            BY <1>1, <2>1, <2>3, <2>4, <2>6, <3>1
    <2> QED
        BY <2>5, <2>6
<1>3. CASE PollFailed(t)
    <2>1. /\ Returns(t, "poll", "end") /\ reports' = reports
          /\ local' = [local EXCEPT ![t] = local[t]]
        BY <1>3 DEF PollFailed, Typed
    <2> QED
        BY <1>1, <1>t, <2>1
(* Where it goes on, there is something to write.                          *)
<1>4. ASSUME NEW r \in Local, local' = [local EXCEPT ![t] = r], reports' = reports,
             Returns(t, "poll", "write"),
             r.remaining = local[t].remaining, r.ok = local[t].ok,
             r.polls = local[t].polls, r.timedOut = local[t].timedOut,
             r.got > 0, r.got <= r.remaining
      PROVE  Typed' /\ \A u \in Transfer : Progress(u)'
    <2>1. /\ Typed' /\ \A u \in Transfer : u # t => Progress(u)'
          /\ UNCHANGED <<connected, begun, owed, ends, body>>
          /\ wpc[t] = "poll" /\ wpc'[t] = "write" /\ local'[t] = r
        <3>1. "poll" \in Job /\ "write" \in Job \cup {"returned"}
            BY <1>j
        <3>2. /\ local' = [local EXCEPT ![t] = r] /\ reports' = reports
              /\ Returns(t, "poll", "write")
            BY <1>4
        <3> QED
            BY <3>1, <3>2, ReturnMoves
    <2>2. calling[t] # NoCall
        BY <1>4 DEF Returns
    <2>3. /\ t \in begun /\ owed[t] = local[t].remaining /\ local[t].remaining > 0
          /\ ends[t] = 0 /\ reports[t] = <<>> /\ ~local[t].ok
          /\ local[t].polls < MaxPolls /\ ~local[t].timedOut
        BY <1>p, <2>1, <2>2 DEF Progress, Sending, AtPoll
    <2>4. Sending(t)'
        BY <1>4, <2>1, <2>3 DEF Sending
    <2>5. AtWrite(t)'
        BY <1>4, <2>1, <2>3 DEF AtWrite
    <2>6. Progress(t)'
        BY <2>1, <2>4, <2>5 DEF Progress, Untouched, AtHeaders, AtPoll, AtEnd, AfterSend, Over
    <2> QED
        BY <2>1, <2>6
<1>5. CASE ReadsChunk(t)
    <2> DEFINE n == Least(Wanted(t), local[t].avail)
               r == [local[t] EXCEPT !.got = n, !.avail = @ - n]
    <2>1. /\ Returns(t, "poll", IF n = 0 THEN "end" ELSE "write")
          /\ local' = [local EXCEPT ![t] = r] /\ reports' = reports
          /\ wpc[t] = "poll"
        BY <1>5 DEF ReadsChunk, Returns, WorkerMoves
    <2>2. /\ n \in 0 .. ChunkSize /\ n <= local[t].remaining
          /\ local[t].avail - n \in 0 .. MaxLen
        BY <1>t, ChunkAssumption, LengthAssumption DEF Least, Wanted
    <2> HIDE DEF n
    <2>3. /\ r \in Local /\ r.got = n /\ r.remaining = local[t].remaining
          /\ r.polls = local[t].polls /\ r.timedOut = local[t].timedOut
          /\ r.ok = local[t].ok
        BY <1>t, <2>2 DEF Local
    <2>4. CASE n = 0
        BY <1>1, <2>1, <2>3, <2>4
    <2>5. CASE n # 0
        <3>1. r.got > 0 /\ r.got <= r.remaining
            BY <2>2, <2>3, <2>5
        <3>2. Returns(t, "poll", "write")
            BY <2>1, <2>5
        <3> QED
            BY <1>4, <2>1, <2>3, <3>1, <3>2
    <2> QED
        BY <2>4, <2>5
<1> QED
    BY <1>2, <1>3, <1>5

LEMMA WriteProgress ==
    ASSUME CallInv, Typed, CallsOwned, \A u \in Transfer : Progress(u),
           NEW t \in Transfer, WriteFailed(t) \/ Written(t)
    PROVE  Typed' /\ \A u \in Transfer : Progress(u)'
<1>j. "write" \in Job /\ "end" \in Job \cup {"returned"} /\ "poll" \in Job \cup {"returned"}
    BY DEF Job
<1>t. /\ local[t] \in Local
      /\ local[t].remaining \in 0 .. MaxLen /\ local[t].got \in 0 .. ChunkSize
    <2>1. local[t] \in Local
        BY DEF Typed
    <2> QED
        BY <2>1, LocalFields
<1>1. /\ wpc[t] = "write" /\ t \in begun /\ ends[t] = 0 /\ reports[t] = <<>>
      /\ local[t].remaining > 0 /\ local[t].got > 0 /\ local[t].got <= local[t].remaining
      /\ ~local[t].timedOut
      /\ local[t].ok => Ran(t) /\ owed[t] = local[t].remaining - local[t].got
      /\ ~local[t].ok => owed[t] = local[t].remaining
      /\ local[t].ok /\ ~local[t].connected => ~connected
    <2>1. wpc[t] = "write"
        BY DEF WriteFailed, Written, Returns, WorkerMoves
    <2> QED
        BY <2>1 DEF Progress, Sending, AtWrite
(* The call came to its end, and send() comes to its own ...               *)
<1>2. ASSUME NEW r \in Local, local' = [local EXCEPT ![t] = r], reports' = reports,
             Returns(t, "write", "end"),
             ~r.timedOut, 0 <= owed[t], owed[t] <= r.remaining,
             owed[t] = r.remaining \/ ~connected
      PROVE  Typed' /\ \A u \in Transfer : Progress(u)'
    <2>1. /\ Typed' /\ \A u \in Transfer : u # t => Progress(u)'
          /\ UNCHANGED <<connected, begun, owed, ends, body>>
          /\ wpc'[t] = "end" /\ local'[t] = r
          /\ ~Ran(t)'
        BY <1>2, <1>j, ReturnMoves
    <2>2. AtEnd(t)'
        BY <1>1, <1>2, <2>1, Zenon DEF AtEnd
    <2>3. Progress(t)'
        BY <2>1, <2>2
        DEF Progress, Untouched, Sending, AtHeaders, AtPoll, AtWrite, AfterSend, Over
    <2> QED
        BY <2>1, <2>3
(* ... or goes on.                                                         *)
<1>3. ASSUME NEW r \in Local, local' = [local EXCEPT ![t] = r], reports' = reports,
             Returns(t, "write", "poll"),
             ~r.timedOut, r.polls = 0, r.remaining > 0, owed[t] = r.remaining
      PROVE  Typed' /\ \A u \in Transfer : Progress(u)'
    <2>1. /\ Typed' /\ \A u \in Transfer : u # t => Progress(u)'
          /\ UNCHANGED <<connected, begun, owed, ends, body>>
          /\ wpc'[t] = "poll" /\ local'[t] = r
          /\ calling'[t] = NoCall
        BY <1>3, <1>j, ReturnMoves
    <2>2. Sending(t)' /\ AtPoll(t)'
        BY <1>1, <1>3, <2>1, PollsAssumption DEF Sending, AtPoll
    <2>3. Progress(t)'
        BY <2>1, <2>2 DEF Progress, Untouched, AtHeaders, AtWrite, AtEnd, AfterSend, Over
    <2> QED
        BY <2>1, <2>3
<1>4. CASE WriteFailed(t)
    <2>1. /\ Returns(t, "write", "end") /\ reports' = reports
          /\ local' = [local EXCEPT ![t] = local[t]]
          /\ ~(Yes(t) /\ local[t].ok /\ local[t].connected)
        BY <1>4 DEF WriteFailed, WriteOk, Typed
    <2>2. Ran(t) <=> Yes(t)
        BY <2>1, CallReturns
    <2>3. /\ 0 <= owed[t] /\ owed[t] <= local[t].remaining
          /\ owed[t] = local[t].remaining \/ ~connected
        <3>1. CASE local[t].ok
            BY <1>1, <1>t, <2>1, <2>2, <3>1
        <3>2. CASE ~local[t].ok
            BY <1>1, <1>t, <3>2
        <3> QED
            BY <3>1, <3>2
    <2> QED
        BY <1>1, <1>2, <1>t, <2>1, <2>3
<1>5. CASE Written(t)
    <2> DEFINE more == local[t].remaining > local[t].got /\ local[t].got = Wanted(t)
               r == [local[t] EXCEPT !.remaining = @ - local[t].got, !.polls = 0]
    <2>1. /\ Returns(t, "write", IF more THEN "poll" ELSE "end") /\ reports' = reports
          /\ local' = [local EXCEPT ![t] = r]
          /\ local[t].ok
        BY <1>5 DEF Written, WriteOk
    <2>2. local[t].remaining - local[t].got \in 0 .. MaxLen /\ 0 \in 0 .. MaxPolls
        BY <1>1, <1>t, LengthAssumption, PollsAssumption
    <2>3. /\ r \in Local /\ r.remaining = local[t].remaining - local[t].got
          /\ r.polls = 0 /\ r.timedOut = local[t].timedOut
        BY <1>t, <2>2 DEF Local
    <2>4. owed[t] = r.remaining /\ 0 <= owed[t] /\ owed[t] <= r.remaining
        BY <1>1, <1>t, <2>1, <2>2, <2>3
    <2>5. CASE more
        <3>1. r.remaining > 0 /\ Returns(t, "write", "poll")
            BY <1>t, <2>1, <2>3, <2>5
        <3> HIDE DEF more
        <3> QED
            BY <1>1, <1>3, <2>1, <2>3, <2>4, <3>1
    <2>6. CASE ~more
        <3>1. Returns(t, "write", "end")
            BY <2>1, <2>6
        <3> HIDE DEF more
        <3> QED
            BY <1>1, <1>2, <2>1, <2>3, <2>4, <3>1
    <2> QED
        BY <2>5, <2>6
<1> QED
    BY <1>4, <1>5

LEMMA EndProgress ==
    ASSUME CallInv, Typed, CallsOwned, \A u \in Transfer : Progress(u),
           NEW t \in Transfer, Ended(t)
    PROVE  Typed' /\ \A u \in Transfer : Progress(u)'
<1> DEFINE success == local[t].remaining = 0 /\ ~local[t].timedOut
<1>1. NoLocals \in Local
    <2>1. 0 \in 0 .. MaxLen
        BY LengthAssumption
    <2> QED
        BY <2>1, NewLocals DEF NoLocals
<1>2. /\ Returns(t, "end", "returned")
      /\ local' = [local EXCEPT ![t] = NoLocals]
      /\ reports' = [reports EXCEPT ![t] = Append(@, success)]
    BY DEF Ended, SendReturnsFrom, Report
<1>b. success \in BOOLEAN
    OBVIOUS
<1>3. /\ Typed' /\ \A u \in Transfer : u # t => Progress(u)'
      /\ UNCHANGED <<connected, begun, owed, ends, body>>
      /\ wpc[t] = "end" /\ wpc'[t] = "returned"
      /\ lost'[t] = IF Yes(t) THEN "none" ELSE "end"
      /\ Ran(t) <=> Yes(t)
    <2>1. "end" \in Job /\ "returned" \in Job \cup {"returned"}
        BY DEF Job
    <2>2. \E value \in BOOLEAN : reports' = [reports EXCEPT ![t] = Append(@, value)]
        BY <1>2, <1>b
    <2> QED
        BY <1>1, <1>2, <2>1, <2>2, ReturnMoves
<1>4. AtEnd(t)
    BY DEF Progress
<1>5. /\ local[t].remaining \in 0 .. MaxLen /\ owed[t] \in Int
      /\ t \in begun /\ reports[t] = <<>>
      /\ 0 <= owed[t] /\ owed[t] <= local[t].remaining
      /\ owed[t] = local[t].remaining \/ ~connected
      /\ local[t].timedOut => local[t].remaining > 0
    BY <1>3, <1>4, LocalFields DEF AtEnd, Typed
<1>6. reports'[t] = <<success>>
    BY <1>2, <1>5 DEF Typed
<1>7. /\ reports'[t] \in {<<>>, <<TRUE>>, <<FALSE>>}
      /\ reports'[t] = <<TRUE>> => owed'[t] = 0
      /\ reports'[t] = <<FALSE>> => ~connected' \/ owed'[t] > 0
    <2>1. <<TRUE>>[1] = TRUE /\ <<FALSE>>[1] = FALSE
        OBVIOUS
    <2>2. CASE success
        <3>1. reports'[t] = <<TRUE>>
            <4>1. success = TRUE
                BY <1>b, <2>2
            <4> QED
                BY <1>6, <4>1
        <3>2. owed[t] = 0
            BY <1>5, <2>2
        <3> QED
            BY <1>3, <2>1, <3>1, <3>2
    <2>3. CASE ~success
        <3>1. reports'[t] = <<FALSE>>
            <4>1. success = FALSE
                BY <1>b, <2>3
            <4> QED
                BY <1>6, <4>1
        <3>2. ~connected \/ owed[t] > 0
            BY <1>5, <2>3
        <3> QED
            BY <1>3, <2>1, <3>1, <3>2
    <2> QED
        BY <2>2, <2>3
<1>8. owed'[t] >= 0 /\ (ends'[t] = 1 \/ (ends'[t] = 0 /\ lost'[t] = "end"))
    <2>1. owed'[t] >= 0
        BY <1>3, <1>5
    <2> QED
        BY <1>3, <1>4, <2>1 DEF AtEnd
<1>9. AfterSend(t)'
    BY <1>3, <1>5, <1>7, <1>8, Zenon DEF AfterSend
<1>10. Progress(t)'
    BY <1>3, <1>9 DEF Progress, Untouched, Sending, AtHeaders, AtPoll, AtWrite, AtEnd
<1> QED
    BY <1>3, <1>10

LEMMA CallProgress ==
    ASSUME CallInv, Typed, CallsOwned, \A u \in Transfer : Progress(u), NEW c \in Call,
           \/ \E t \in Transfer : Calls(t, c)
           \/ StartCall(c) /\ LoopStarts
           \/ FinishCall(c) /\ LoopFinishes
    PROVE  CallInv' /\ CallsOwned' /\ Typed' /\ \A u \in Transfer : Progress(u)'
<1>1. \/ StartInline(c) \/ InlineReturns(c) \/ CallDone(c) \/ GiveUp(c)
      \/ StartCall(c) \/ FinishCall(c)
    BY DEF Calls
<1>2. UNCHANGED <<dispatcher, connected, writer, wpc, calling, job, local, outcome, lost>>
    BY DEF Calls, LoopStarts, LoopFinishes
<1>3. \A d \in Call : (caller'[d] = "free" <=> caller[d] = "free") /\ (HasRun(d)' <=> HasRun(d))
    BY <1>1, GoesOn
<1>4. CallsOwned' /\ \A u \in Transfer : Ran(u)' <=> Ran(u)
    BY <1>2, <1>3, CallsStay
<1>5. CallInv'
    BY <1>1, CallInvCaller, CallInvLoop DEF LoopStep
<1>6. Typed'
    BY <1>2 DEF Typed
<1>7. \A u \in Transfer : Same(u)
    BY <1>2, <1>4 DEF Same
<1> QED
    BY <1>2, <1>4, <1>5, <1>6, <1>7, SameProgress

LEMMA OutsideProgress ==
    ASSUME CallInv, Typed, CallsOwned, \A u \in Transfer : Progress(u),
           SocketDrains \/ Disconnect \/ UNCHANGED vars
    PROVE  CallInv' /\ CallsOwned' /\ Typed' /\ \A u \in Transfer : Progress(u)'
<1>1. /\ UNCHANGED <<dispatcher, begun, owed, ends, wpc, calling, job, local, outcome, lost,
                     calls>>
      /\ connected' \in {connected, FALSE} /\ pending' \in {pending, FALSE}
      /\ attached' \in {attached, FALSE}
    BY DEF SocketDrains, Disconnect
<1>2. Elsewhere
    BY <1>1 DEF Elsewhere, CallInv, CallTypeOK
<1>3. \A d \in Call : (caller'[d] = "free" <=> caller[d] = "free") /\ (HasRun(d)' <=> HasRun(d))
    BY <1>2, Unconcerned
<1>4. CallsOwned' /\ \A u \in Transfer : Ran(u)' <=> Ran(u)
    BY <1>1, <1>3, CallsStay
<1>5. CallInv'
    BY <1>2, CallInvElsewhere
<1>6. Typed'
    <2>1. connected' \in BOOLEAN /\ pending' \in BOOLEAN
        BY <1>1 DEF Typed
    <2> QED
        BY <1>1, <2>1 DEF Typed
<1>7. \A u \in Transfer : Same(u)
    BY <1>1, <1>4 DEF Same
<1>8. connected' = connected \/ ~connected'
    BY <1>1
<1> QED
    BY <1>4, <1>5, <1>6, <1>7, <1>8, SameProgress

(* Every step but those keeps all of it.                                   *)
Answered(t) ==
    \/ HeadersFailed(t) \/ HeadersSent(t) \/ Sleeps(t) \/ PollFailed(t) \/ ReadsChunk(t)
    \/ WriteFailed(t) \/ Written(t) \/ Ended(t)

LEMMA AnsweredReturns ==
    ASSUME NEW t \in Transfer, Answered(t)
    PROVE  \E from \in Job, to \in Job \cup {"returned"} : Returns(t, from, to)
<1>1. \A to : Returns(t, "headers", to) \/ Returns(t, "poll", to) \/ Returns(t, "write", to)
                  \/ Returns(t, "end", to) => \E from \in Job : Returns(t, from, to)
    BY DEF Job
<1>2. \E to \in Job \cup {"returned"} :
          \/ Returns(t, "headers", to) \/ Returns(t, "poll", to) \/ Returns(t, "write", to)
          \/ Returns(t, "end", to)
    BY DEF Job, Answered, HeadersFailed, HeadersSent, Sleeps, PollFailed, ReadsChunk, WriteFailed,
           Written, Ended, SendReturnsFrom
<1> QED
    BY <1>1, <1>2

LEMMA ProgressKept ==
    ASSUME CallInv, Typed, CallsOwned, LoopIsHandling, \A u \in Transfer : Progress(u), [Next]_vars
    PROVE  CallInv' /\ CallsOwned' /\ Typed' /\ \A u \in Transfer : Progress(u)'
<1>1. ASSUME NEW t \in Transfer,
             Dispatch(t) \/ DispatchLost(t) \/ Leaves(t) \/ SendOpens(t) \/ TaskEnds(t)
      PROVE  CallInv' /\ CallsOwned' /\ Typed' /\ \A u \in Transfer : Progress(u)'
    BY <1>1, TaskMoves, DispatchProgress, LeaveProgress, OpenProgress, DoneProgress
<1>2. ASSUME NEW t \in Transfer, Asks(t)
      PROVE  CallInv' /\ CallsOwned' /\ Typed' /\ \A u \in Transfer : Progress(u)'
    BY <1>2, CallMade, AskProgress
<1>3. ASSUME NEW t \in Transfer, Answered(t)
      PROVE  CallInv' /\ CallsOwned' /\ Typed' /\ \A u \in Transfer : Progress(u)'
    <2>1. CallInv' /\ CallsOwned'
        BY <1>3, AnsweredReturns, CallReturns
    <2>2. Typed' /\ \A u \in Transfer : Progress(u)'
        BY <1>3, HeadersProgress, PollProgress, WriteProgress, EndProgress DEF Answered
    <2> QED
        BY <2>1, <2>2
<1>4. ASSUME NEW c \in Call, JobRuns(c)
      PROVE  CallInv' /\ CallsOwned' /\ Typed' /\ \A u \in Transfer : Progress(u)'
    <2>1. CallInv'
        BY <1>4, CallInvCaller, CallInvLoop DEF JobRuns, LoopStep
    <2>2. CallsOwned'
        BY <1>4, CallRuns
    <2> QED
        BY <1>4, <2>1, <2>2, RunProgress
<1>5. ASSUME NEW t \in Transfer, NEW c \in Call, Calls(t, c)
      PROVE  CallInv' /\ CallsOwned' /\ Typed' /\ \A u \in Transfer : Progress(u)'
    BY <1>5, CallProgress
<1>6. CASE LoopStarts \/ LoopFinishes
    BY <1>6, CallProgress DEF LoopStarts, LoopFinishes
<1>7. CASE SocketDrains \/ Disconnect \/ UNCHANGED vars
    BY <1>7, OutsideProgress
<1> QED
    BY <1>1, <1>2, <1>3, <1>4, <1>5, <1>6, <1>7 DEF Next, SendStep, Answered, Leaves

-----------------------------------------------------------------------------
(* The loop's thread, and the response that is open.                       *)
Quietly == /\ UNCHANGED <<wpc, dispatcher>>
           /\ io' = io \/ io # "handler"

LEMMA QuietSteps ==
    ASSUME [Next]_vars,
           ~ \E t \in Transfer : \/ Dispatch(t) \/ DispatchLost(t) \/ Leaves(t) \/ SendOpens(t)
                                 \/ TaskEnds(t) \/ Answered(t)
    PROVE  Quietly
<1>1. ASSUME NEW t \in Transfer, Asks(t) PROVE Quietly
    BY <1>1 DEF Quietly, Asks, CallRefused, PostCall, CallInline, Begins
<1>2. ASSUME NEW t \in Transfer, NEW c \in Call, Calls(t, c) PROVE Quietly
    BY <1>2 DEF Quietly, Calls, StartInline, InlineReturns, CallDone, GiveUp
<1>3. ASSUME NEW c \in Call, JobRuns(c) PROVE Quietly
    BY <1>3 DEF Quietly, JobRuns, RunInline, RunCall
<1>4. CASE LoopStarts \/ LoopFinishes
    BY <1>4 DEF Quietly, LoopStarts, LoopFinishes, StartCall, Takes, FinishCall
<1>5. CASE SocketDrains \/ Disconnect \/ UNCHANGED vars
    BY <1>5 DEF Quietly, SocketDrains, Disconnect
<1> QED
    BY <1>1, <1>2, <1>3, <1>4, <1>5 DEF Next, SendStep, Leaves, Answered

LEMMA HandlingKept ==
    ASSUME Typed, LoopIsHandling, [Next]_vars
    PROVE  LoopIsHandling'
<1>1. ASSUME NEW t \in Transfer, Dispatch(t) \/ DispatchLost(t) PROVE LoopIsHandling'
    <2>1. dispatcher' = dispatcher /\ io = "idle"
          /\ (~dispatcher => io' = "handler" /\ wpc' = [wpc EXCEPT ![t] = "opening"])
        BY <1>1 DEF Dispatch, DispatchLost, WorkerMoves
    <2>2. ~dispatcher => \A u \in Transfer : ~Running(u)
        BY <2>1 DEF LoopIsHandling
    <2>3. ~dispatcher => \A u \in Transfer : Running(u)' => u = t
        BY <2>1, <2>2 DEF Running, Typed
    <2> QED
        BY <2>1, <2>3 DEF LoopIsHandling
<1>2. ASSUME NEW t \in Transfer, Leaves(t) \/ SendOpens(t) \/ Answered(t) PROVE LoopIsHandling'
    <2>1. UNCHANGED <<dispatcher, io>>
          /\ \E from \in Job \cup {"opening"}, to \in Job \cup {"returned"} :
                 wpc[t] = from /\ wpc' = [wpc EXCEPT ![t] = to]
        <3>1. CASE Leaves(t)
            BY <3>1 DEF Leaves, SendWhole, AccelSends, SendThrows, WorkerMoves
        <3>2. CASE SendOpens(t)
            BY <3>2 DEF SendOpens, WorkerMoves, Job
        <3>3. CASE Answered(t)
            BY <3>3, AnsweredReturns DEF Returns, EndCall, WorkerMoves
        <3> QED
            BY <1>2, <3>1, <3>2, <3>3
    <2>2. \A u \in Transfer : Running(u)' => Running(u)
        BY <2>1 DEF Running, Typed
    <2> QED
        BY <2>1, <2>2 DEF LoopIsHandling
<1>3. ASSUME NEW t \in Transfer, TaskEnds(t) PROVE LoopIsHandling'
    <2>1. /\ dispatcher' = dispatcher
          /\ wpc[t] = "returned" /\ wpc' = [wpc EXCEPT ![t] = "done"]
        BY <1>3 DEF TaskEnds, WorkerMoves
    <2>2. \A u \in Transfer : Running(u)' => Running(u) /\ u # t
        BY <2>1 DEF Running, Typed, Job
    <2>3. Running(t)
        BY <2>1 DEF Running
    <2> QED
        BY <2>1, <2>2, <2>3 DEF LoopIsHandling
<1>4. CASE Quietly
    BY <1>4 DEF Quietly, LoopIsHandling, Running
<1> QED
    BY <1>1, <1>2, <1>3, <1>4, QuietSteps

(* Only the loop's thread and the route end a response.                    *)
LEMMA EndsGrow ==
    ASSUME CallInv, Typed, CallsOwned, [Next]_vars
    PROVE  /\ \A u \in Transfer : ends'[u] = ends[u] \/ ends'[u] = ends[u] + 1
           /\ \A u \in Transfer : ends'[u] # ends[u] => wpc'[u] = wpc[u] \/ TaskEnds(u)
           /\ \A u \in Transfer : wpc'[u] # "none" /\ wpc[u] = "none" =>
                  Dispatch(u) \/ DispatchLost(u)
<1>t. ends \in [Transfer -> Nat] /\ wpc \in [Transfer -> Job \cup {"none", "dropped", "opening",
                                                                  "returned", "done"}]
    BY DEF Typed
<1>1. ASSUME NEW t \in Transfer, TaskEnds(t)
      PROVE  /\ \A u \in Transfer : ends'[u] = ends[u] \/ ends'[u] = ends[u] + 1
             /\ \A u \in Transfer : ends'[u] # ends[u] => u = t
             /\ \A u \in Transfer : wpc[u] = "none" => wpc'[u] = "none"
    BY <1>t, <1>1 DEF TaskEnds, WorkerMoves
<1>2. ASSUME NEW c \in Call, JobRuns(c)
      PROVE  wpc' = wpc /\ \A u \in Transfer : ends'[u] = ends[u] \/ ends'[u] = ends[u] + 1
    BY <1>t, <1>2 DEF JobRuns, DoHeaders, DoPoll, DoWrite, DoEnd
<1>3. ASSUME NEW t \in Transfer, Dispatch(t) \/ DispatchLost(t)
      PROVE  ends' = ends /\ \A u \in Transfer : u # t => wpc'[u] = wpc[u]
    BY <1>t, <1>3 DEF Dispatch, DispatchLost, WorkerMoves
<1>4. ASSUME NEW t \in Transfer,
             Leaves(t) \/ SendOpens(t) \/ Asks(t) \/ (\E c \in Call : Calls(t, c)) \/ Answered(t)
      PROVE  ends' = ends /\ \A u \in Transfer : wpc[u] = "none" => wpc'[u] = "none"
    <2>1. CASE Leaves(t) \/ SendOpens(t) \/ Asks(t) \/ \E c \in Call : Calls(t, c)
        BY <1>t, <2>1
        DEF Leaves, SendWhole, AccelSends, SendThrows, SendOpens, Asks, Calls, WorkerMoves
    <2>2. CASE Answered(t)
        <3>1. \E from \in Job, to \in Job \cup {"returned"} :
                  ends' = ends /\ wpc[t] = from /\ wpc' = [wpc EXCEPT ![t] = to]
            BY <2>2, AnsweredReturns DEF Returns, WorkerMoves
        <3> QED
            BY <1>t, <3>1 DEF Job
    <2> QED
        BY <1>4, <2>1, <2>2
<1>5. CASE LoopStarts \/ LoopFinishes \/ SocketDrains \/ Disconnect \/ UNCHANGED vars
    BY <1>5 DEF LoopStarts, LoopFinishes, SocketDrains, Disconnect
<1> QED
    BY <1>1, <1>2, <1>3, <1>4, <1>5 DEF Next, SendStep, Leaves, Answered

LEMMA OneOpenKept ==
    ASSUME CallInv, Typed, CallsOwned, OneOpen, [Next]_vars
    PROVE  OneOpen'
<1>1. \A u \in Transfer : ends[u] \in Nat
    BY DEF Typed
<1>2. ASSUME NEW t \in Transfer, Dispatch(t) \/ DispatchLost(t) PROVE OneOpen'
    <2>1. /\ \A u \in Transfer : ~Open(u)
          /\ ends' = ends /\ \A u \in Transfer : u # t => wpc'[u] = wpc[u]
        BY <1>2 DEF Dispatch, DispatchLost, ResponseOpen, Open, WorkerMoves, Typed
    <2> QED
        BY <2>1 DEF OneOpen, Open
<1>3. CASE \A u \in Transfer : ~(Dispatch(u) \/ DispatchLost(u))
    <2>1. \A u \in Transfer : Open(u)' => Open(u)
        BY <1>1, <1>3, EndsGrow DEF Open
    <2> QED
        BY <2>1 DEF OneOpen
<1> QED
    BY <1>2, <1>3

-----------------------------------------------------------------------------
(* What is counted.                                                        *)
LEMMA OneMore ==
    ASSUME NEW S, NEW n, NEW t, IsFiniteSet(S), n = Cardinality(S)
    PROVE  /\ n \in Nat
           /\ IsFiniteSet(S \cup {t}) /\ (t \notin S => Cardinality(S \cup {t}) = n + 1)
           /\ IsFiniteSet(S \ {t}) /\ (t \in S => Cardinality(S \ {t}) = n - 1)
BY FS_CardinalityType, FS_AddElement, FS_RemoveElement

LEMMA OneReport == <<TRUE>> # <<FALSE>> /\ <<TRUE>> # <<>> /\ <<FALSE>> # <<>>
<1>1. <<TRUE>>[1] = TRUE /\ <<FALSE>>[1] = FALSE
    OBVIOUS
<1> QED
    BY <1>1

LEMMA SetsStay ==
    ASSUME Counted, UNCHANGED <<wpc, reports, active, errors, tracked>>
    PROVE  Counted'
BY DEF Counted, Active, Failed, Tracked, InSend, Over

(* A report moves a transfer from one set to another.                      *)
LEMMA ReportCounts ==
    ASSUME Typed, Counted, NEW t \in Transfer, NEW success \in BOOLEAN, reports[t] = <<>>,
           wpc[t] \in Job \cup {"opening"}, wpc' = [wpc EXCEPT ![t] = "returned"],
           Report(t, IF wpc[t] = "opening" THEN 0 ELSE 1, success), UNCHANGED tracked
    PROVE  Counted'
<1>t. wpc'[t] = "returned" /\ \A u \in Transfer : u # t => wpc'[u] = wpc[u]
    BY DEF Typed
<1>1. /\ reports' = [reports EXCEPT ![t] = <<success>>]
      /\ reports'[t] = <<success>> /\ \A u \in Transfer : u # t => reports'[u] = reports[u]
    BY DEF Report, Typed
<1>2. <<success>> # <<>> /\ (<<success>> = <<FALSE>> <=> ~success)
    BY OneReport
<1>3. IsFiniteSet(Tracked') /\ tracked' = Cardinality(Tracked')
    <2>1. Tracked' = Tracked
        BY <1>t DEF Tracked, Job
    <2> QED
        BY <2>1 DEF Counted
<1>4. IsFiniteSet(Failed') /\ errors' = Cardinality(Failed')
    <2>1. t \notin Failed
        BY OneReport DEF Failed
    <2>2. CASE success
        <3>1. Failed' = Failed
            BY <1>1, <1>2, <2>1, <2>2 DEF Failed
        <3> QED
            BY <2>2, <3>1 DEF Counted, Report
    <2>3. CASE ~success
        <3>1. Failed' = Failed \cup {t}
            BY <1>1, <1>2, <2>3 DEF Failed
        <3> QED
            BY <2>1, <2>3, <3>1, OneMore DEF Counted, Report
    <2> QED
        BY <2>2, <2>3
<1>5. IsFiniteSet(Active') /\ active' = Cardinality(Active')
    <2>1. Active' = Active \ {t}
        <3>1. ASSUME NEW u \in Transfer PROVE u \in Active' <=> u \in Active /\ u # t
            <4>1. CASE u = t
                BY <1>t, <1>1, <1>2, <4>1 DEF Active, InSend, Over, Job
            <4>2. CASE u # t
                BY <1>t, <1>1, <4>2 DEF Active, InSend, Over
            <4> QED
                BY <4>1, <4>2
        <3>2. Active \subseteq Transfer /\ Active' \subseteq Transfer
            BY DEF Active
        <3> QED
            BY <3>1, <3>2
    <2>2. active \in Nat
        BY OneMore DEF Counted
    <2>3. CASE wpc[t] = "opening"
        <3>1. t \notin Active
            BY <2>3 DEF Active, InSend, Over, Job
        <3>2. active' = active
            BY <2>2, <2>3 DEF Report
        <3>3. Active' = Active
            BY <2>1, <3>1
        <3> QED
            BY <3>2, <3>3 DEF Counted
    <2>4. CASE wpc[t] # "opening"
        <3>1. t \in Active
            BY <2>4 DEF Active, InSend
        <3>2. active' = active - 1
            BY <2>4 DEF Report
        <3> QED
            BY <2>1, <3>1, <3>2, OneMore DEF Counted
    <2> QED
        BY <2>3, <2>4
<1> QED
    BY <1>3, <1>4, <1>5 DEF Counted

LEMMA TrackCounts ==
    ASSUME Typed, Counted, NEW t \in Transfer, UNCHANGED <<reports, active, errors>>,
           \/ /\ wpc[t] = "none" /\ tracked' = tracked + 1
              /\ \E to \in {"opening", "dropped"} : wpc' = [wpc EXCEPT ![t] = to]
           \/ /\ wpc[t] = "returned" /\ tracked' = tracked - 1
              /\ wpc' = [wpc EXCEPT ![t] = "done"]
    PROVE  Counted'
<1>t. \A u \in Transfer : u # t => wpc'[u] = wpc[u]
    BY DEF Typed
<1>1. Active' = Active /\ Failed' = Failed
    <2>1. \A u \in Transfer : (InSend(u)' <=> InSend(u)) /\ (Over(u)' <=> Over(u))
        BY <1>t DEF Typed, InSend, Over, Job
    <2> QED
        BY <2>1 DEF Active, Failed
<1>2. IsFiniteSet(Tracked') /\ tracked' = Cardinality(Tracked')
    <2>1. CASE wpc[t] = "none"
        <3>1. Tracked' = Tracked \cup {t} /\ t \notin Tracked /\ tracked' = tracked + 1
            BY <1>t, <2>1 DEF Typed, Tracked
        <3> QED
            BY <3>1, OneMore DEF Counted
    <2>2. CASE wpc[t] = "returned"
        <3>1. Tracked' = Tracked \ {t} /\ t \in Tracked /\ tracked' = tracked - 1
            BY <1>t, <2>2 DEF Typed, Tracked
        <3> QED
            BY <3>1, OneMore DEF Counted
    <2> QED
        BY <2>1, <2>2
<1> QED
    BY <1>1, <1>2 DEF Counted

LEMMA ActiveCounts ==
    ASSUME Typed, Counted, NEW t \in Transfer, wpc[t] = "opening", reports[t] = <<>>,
           \E to \in {"returned", "headers"} : wpc' = [wpc EXCEPT ![t] = to],
           active' = active + 1, UNCHANGED <<reports, errors, tracked>>
    PROVE  Counted'
<1>t. wpc'[t] \in {"returned", "headers"} /\ \A u \in Transfer : u # t => wpc'[u] = wpc[u]
    BY DEF Typed
<1>1. Failed' = Failed /\ Tracked' = Tracked
    BY <1>t DEF Failed, Tracked
<1>2. Active' = Active \cup {t} /\ t \notin Active
    <2>1. \A u \in Transfer : u # t => (InSend(u)' <=> InSend(u)) /\ (Over(u)' <=> Over(u))
        BY <1>t DEF InSend, Over
    <2>2. (InSend(t) \/ Over(t))' /\ ~InSend(t) /\ ~Over(t)
        BY <1>t DEF InSend, Over, Job
    <2> QED
        BY <2>1, <2>2 DEF Active
<1> QED
    BY <1>1, <1>2, OneMore DEF Counted

LEMMA CountedKept ==
    ASSUME Typed, \A u \in Transfer : Progress(u), Counted, [Next]_vars
    PROVE  Counted'
<1>1. ASSUME NEW t \in Transfer, Dispatch(t) \/ DispatchLost(t) \/ TaskEnds(t) PROVE Counted'
    BY <1>1, TrackCounts DEF Dispatch, DispatchLost, TaskEnds, WorkerMoves
<1>2. ASSUME NEW t \in Transfer, SendWhole(t) \/ AccelSends(t) PROVE Counted'
    <2>1. /\ wpc[t] = "opening" /\ wpc' = [wpc EXCEPT ![t] = "returned"]
          /\ \E success \in BOOLEAN : Report(t, 0, success)
          /\ UNCHANGED tracked
        BY <1>2 DEF SendWhole, AccelSends, WorkerMoves
    <2>2. reports[t] = <<>>
        BY <2>1 DEF Progress, Untouched
    <2> QED
        BY <2>1, <2>2, ReportCounts
<1>3. ASSUME NEW t \in Transfer, SendThrows(t) \/ SendOpens(t) PROVE Counted'
    <2>1. /\ wpc[t] = "opening"
          /\ \E to \in {"returned", "headers"} : wpc' = [wpc EXCEPT ![t] = to]
          /\ active' = active + 1 /\ UNCHANGED <<reports, errors, tracked>>
        BY <1>3 DEF SendThrows, SendOpens, WorkerMoves
    <2>2. reports[t] = <<>>
        BY <2>1 DEF Progress, Untouched
    <2> QED
        BY <2>1, <2>2, ActiveCounts
<1>4. ASSUME NEW t \in Transfer, HeadersFailed(t) \/ Ended(t) PROVE Counted'
    <2>1. /\ wpc[t] \in {"headers", "end"} /\ wpc' = [wpc EXCEPT ![t] = "returned"]
          /\ \E success \in BOOLEAN : Report(t, 1, success)
          /\ UNCHANGED tracked
        BY <1>4 DEF HeadersFailed, Ended, SendReturnsFrom, Returns, WorkerMoves
    <2>2. reports[t] = <<>> /\ wpc[t] \in Job /\ wpc[t] # "opening"
        BY <2>1 DEF Progress, Sending, AtEnd, Job
    <2> QED
        BY <2>1, <2>2, ReportCounts
<1>5. ASSUME NEW t \in Transfer,
             HeadersSent(t) \/ Sleeps(t) \/ PollFailed(t) \/ ReadsChunk(t) \/ WriteFailed(t)
                 \/ Written(t)
      PROVE  Counted'
    <2>1. /\ UNCHANGED <<active, errors, reports, tracked>>
          /\ wpc[t] \in Job /\ \E to \in Job : wpc' = [wpc EXCEPT ![t] = to]
        BY <1>5
        DEF HeadersSent, Sleeps, PollFailed, ReadsChunk, WriteFailed, Written, Returns,
            WorkerMoves, Job
    <2>2. \A u \in Transfer :
              /\ (InSend(u)' <=> InSend(u)) /\ (Over(u)' <=> Over(u))
              /\ (wpc'[u] \in {"none", "done"} <=> wpc[u] \in {"none", "done"})
        BY <2>1 DEF Typed, InSend, Over, Job
    <2>3. Active' = Active /\ Failed' = Failed /\ Tracked' = Tracked
        BY <2>1, <2>2 DEF Active, Failed, Tracked
    <2> QED
        BY <2>1, <2>3 DEF Counted
<1>6. ASSUME NEW t \in Transfer, Asks(t) \/ \E c \in Call : Calls(t, c) PROVE Counted'
    BY <1>6, SetsStay DEF Asks, Calls
<1>7. ASSUME NEW c \in Call, JobRuns(c) PROVE Counted'
    BY <1>7, SetsStay DEF JobRuns
<1>8. CASE LoopStarts \/ LoopFinishes \/ SocketDrains \/ Disconnect \/ UNCHANGED vars
    BY <1>8, SetsStay DEF LoopStarts, LoopFinishes, SocketDrains, Disconnect
<1> QED
    BY <1>1, <1>2, <1>3, <1>4, <1>5, <1>6, <1>7, <1>8 DEF Next, SendStep

-----------------------------------------------------------------------------
LEMMA LegacyInit == Init => LegacyInv
<1> SUFFICES ASSUME Init PROVE LegacyInv
    OBVIOUS
<1>1. CallInv
    BY CallInvInit DEF Init
<1>2. NoLocals \in Local
    <2>1. 0 \in 0 .. MaxLen
        BY LengthAssumption
    <2> QED
        BY <2>1, NewLocals DEF NoLocals
<1>3. <<>> \in Seq(BOOLEAN)
    OBVIOUS
<1>4. Typed
    BY <1>2, <1>3 DEF Init, Typed, Job, Served, ErrorBody
<1>5. CallsOwned
    BY DEF Init, CallsOwned, CallInit
<1>6. \A t \in Transfer : wpc[t] = "none" /\ ends[t] = 0 /\ owed[t] = 0 /\ reports[t] = <<>>
    BY DEF Init
<1>7. LoopIsHandling /\ OneOpen
    BY <1>6 DEF LoopIsHandling, Running, Job, OneOpen, Open
<1>8. \A t \in Transfer : Progress(t)
    BY <1>6
    DEF Init, Progress, Untouched, Sending, AtHeaders, AtPoll, AtWrite, AtEnd, AfterSend, Over
<1>9. Counted
    <2>1. Active = {} /\ Failed = {} /\ Tracked = {}
        BY <1>6, OneReport DEF Active, Failed, Tracked, InSend, Over, Job
    <2> QED
        BY <2>1, FS_EmptySet DEF Init, Counted
<1> QED
    BY <1>1, <1>4, <1>5, <1>7, <1>8, <1>9 DEF LegacyInv

LEMMA LegacyKept == LegacyInv /\ [Next]_vars => LegacyInv'
<1> SUFFICES ASSUME LegacyInv, [Next]_vars PROVE LegacyInv'
    OBVIOUS
<1> USE DEF LegacyInv
<1>1. CallInv' /\ CallsOwned' /\ Typed' /\ \A u \in Transfer : Progress(u)'
    BY ProgressKept
<1>2. LoopIsHandling' /\ OneOpen' /\ Counted'
    BY HandlingKept, OneOpenKept, CountedKept
<1> QED
    BY <1>1, <1>2

(* The tasks, their calls, the responses and the counters always agree.    *)
THEOREM LegacyInvariant == Spec => []LegacyInv
BY LegacyInit, LegacyKept, PTL DEF Spec

(* The variables keep their types; none of the counters falls below zero.  *)
THEOREM LegacyTypes == Spec => []TypeOK
<1>1. LegacyInv => TypeOK
    BY FS_CardinalityType DEF LegacyInv, Typed, Counted, CallInv, TypeOK
<1> QED
    BY <1>1, LegacyInvariant, PTL

(* recordStart(), recordEnd(), onComplete() and the tracker: a download is *)
(* reported at most once, and the counters count what they stand for.      *)
THEOREM DownloadsCountedOnce == Spec => []CountedOnce
<1>1. ASSUME LegacyInv, NEW t \in Transfer
      PROVE  Len(reports[t]) <= 1 /\ (reports[t] # <<>> => Over(t))
    <2>1. Progress(t)
        BY <1>1 DEF LegacyInv
    <2>2. wpc[t] \in Job \cup {"none", "dropped", "opening", "returned", "done"}
        BY <1>1 DEF LegacyInv, Typed
    <2>3. ~Over(t) => reports[t] = <<>>
        BY <2>1, <2>2 DEF Progress, Untouched, Sending, AtEnd, Job, Over
    <2>4. Over(t) => reports[t] \in {<<>>, <<TRUE>>, <<FALSE>>}
        BY <2>1 DEF Progress, AfterSend
    <2>5. Len(<<>>) <= 1 /\ Len(<<TRUE>>) <= 1 /\ Len(<<FALSE>>) <= 1
        OBVIOUS
    <2>6. reports[t] \in {<<>>, <<TRUE>>, <<FALSE>>}
        BY <2>3, <2>4
    <2>7. Len(reports[t]) <= 1
        BY Zenon, <2>5, <2>6
    <2> QED
        BY <2>3, <2>7
<1>2. LegacyInv => CountedOnce
    BY <1>1 DEF LegacyInv, Counted, Active, Failed, Tracked, CountedOnce
<1> QED
    BY <1>2, LegacyInvariant, PTL

(* What onComplete is told agrees with what the writer has taken: after a  *)
(* success every promised unit, and after a failure the client can tell,   *)
(* but for headers whose call was given up.                                *)
THEOREM ReportsAreTrue == Spec => []ReportIsTrue
<1>1. ASSUME LegacyInv, NEW t \in Transfer
      PROVE  /\ owed[t] >= 0
             /\ reports[t] = <<TRUE>> => owed[t] = 0
             /\ reports[t] = <<FALSE>> /\ ends[t] # 0 /\ connected
                 => \/ body[t] = ErrorBody
                    \/ t \in begun /\ owed[t] > 0
                    \/ lost[t] = "headers"
    <2>1. Progress(t)
        BY <1>1 DEF LegacyInv
    <2>2. wpc[t] \in Job \cup {"none", "dropped", "opening", "returned", "done"}
          /\ owed[t] \in Int
        BY <1>1 DEF LegacyInv, Typed
    <2>3. local[t].remaining \in 0 .. MaxLen /\ local[t].got \in 0 .. ChunkSize
          /\ local[t].ok \in BOOLEAN
        BY <1>1, LocalFields DEF LegacyInv
    <2>4. CASE wpc[t] \in {"none", "dropped", "opening"}
        <3>1. reports[t] = <<>> /\ owed[t] = 0
            BY <2>1, <2>4 DEF Progress, Untouched
        <3> QED
            BY <3>1, OneReport
    <2>5. CASE wpc[t] \in {"headers", "poll", "write"}
        <3>1. reports[t] = <<>>
            BY <2>1, <2>5 DEF Progress, Sending
        <3>2. owed[t] >= 0
            BY <2>1, <2>3, <2>5, LengthAssumption, ChunkAssumption
            DEF Progress, AtHeaders, AtPoll, AtWrite
        <3> QED
            BY <3>1, <3>2, OneReport
    <2>6. CASE wpc[t] = "end"
        BY <2>1, <2>6, <2>2, OneReport DEF Progress, AtEnd
    <2>7. CASE Over(t)
        BY <2>1, <2>7 DEF Progress, AfterSend
    <2> QED
        BY <2>2, <2>4, <2>5, <2>6, <2>7 DEF Job, Over
<1>2. LegacyInv => ReportIsTrue
    BY <1>1 DEF ReportIsTrue
<1> QED
    BY <1>2, LegacyInvariant, PTL

(* send() and the route between them end a response once; only a call of   *)
(* End() that was given up leaves it to nobody.                            *)
THEOREM ResponsesEndedOnce == Spec => []EndedOnce
<1>1. ASSUME LegacyInv, NEW t \in Transfer
      PROVE  ends[t] <= 1 /\ (wpc[t] = "done" /\ ends[t] = 0 => lost[t] = "end")
    <2>1. Progress(t)
        BY <1>1 DEF LegacyInv
    <2>2. wpc[t] \in Job \cup {"none", "dropped", "opening", "returned", "done"}
          /\ ends[t] \in Nat
        BY <1>1 DEF LegacyInv, Typed
    <2>3. ~Over(t) => ends[t] \in {0, 1}
        <3>1. wpc[t] \notin {"end", "returned", "done"} => ends[t] = 0
            BY <2>1, <2>2 DEF Progress, Untouched, Sending, Job
        <3>2. wpc[t] = "end" => ends[t] = 0 \/ ends[t] = 1
            BY <2>1 DEF Progress, AtEnd
        <3> QED
            BY <3>1, <3>2 DEF Over
    <2>4. Over(t) =>
              \/ wpc[t] = "returned" /\ ends[t] = 0
              \/ ends[t] = 1 \/ (ends[t] = 0 /\ lost[t] = "end")
        BY <2>1 DEF Progress, AfterSend, Over
    <2> QED
        BY <2>2, <2>3, <2>4 DEF Over
<1>2. LegacyInv => EndedOnce
    BY <1>1 DEF EndedOnce
<1> QED
    BY <1>2, LegacyInvariant, PTL

(* While the loop's thread runs a function, the transfer whose call it is  *)
(* waits for it, and its response is the one that is open.                 *)
LEMMA FunctionIsOpens ==
    ASSUME LegacyInv, io = "running"
    PROVE  \E u \in Transfer : wpc[u] \in Job /\ Open(u)
<1> USE DEF LegacyInv
<1>1. cur \in Call
    BY DEF CallInv, CallTypeOK, LoopInv
<1>2. caller[cur] = "waiting" /\ ~done[cur]
    BY <1>1, CallAssumption DEF CallInv, CallTypeOK, LoopInv, WaitInv, GoneInv
<1>3. PICK u \in Transfer : calling[u] = cur
    BY <1>1, <1>2 DEF CallsOwned
<1>4. wpc[u] \in Job
    BY <1>1, <1>3, CallAssumption DEF CallsOwned
<1>5. ~Ran(u)
    BY <1>2, <1>3 DEF Ran, HasRun
<1>6. ends[u] = 0
    BY <1>4, <1>5 DEF Progress, Sending, AtEnd, Job
<1> QED
    BY <1>4, <1>6 DEF Open, Job

(* Only the functions of send() write to a response, and the route ends it *)
(* only when no function is running.                                       *)
LEMMA WritesAreOpen ==
    ASSUME LegacyInv, NEW c \in Call, JobRuns(c), NEW t \in Transfer,
           owed'[t] < owed[t] \/ (t \in begun' /\ t \notin begun)
    PROVE  ends[t] = 0 /\ InSend(t)
<1> USE DEF LegacyInv
<1>1. PICK u \in Transfer : wpc[u] \in Job /\ job[c][1] = wpc[u] /\ job[c][2] = u
    BY CallRuns
<1>2. \A v \in Transfer : owed[v] \in Int
    BY DEF Typed
<1>3. job[c][1] \in {"headers", "write"} /\ t = u
    <2>1. CASE job[c][1] = "headers" /\ DoHeaders(u)
        BY <2>1, <1>2 DEF DoHeaders
    <2>2. CASE job[c][1] = "poll" /\ DoPoll(u)
        BY <2>2, <1>2 DEF DoPoll, writer
    <2>3. CASE job[c][1] = "write" /\ DoWrite(u)
        BY <2>3, <1>2 DEF DoWrite, Typed
    <2>4. CASE job[c][1] = "end" /\ DoEnd(u)
        BY <2>4, <1>2 DEF DoEnd
    <2> QED
        BY <1>1, <2>1, <2>2, <2>3, <2>4 DEF JobRuns
<1> QED
    BY <1>1, <1>3 DEF Progress, Sending, InSend

LEMMA NothingElseWrites ==
    ASSUME LegacyInv, [Next]_vars, ~ \E c \in Call : JobRuns(c), NEW t \in Transfer
    PROVE  ~(owed'[t] < owed[t]) /\ (t \in begun' => t \in begun)
<1> USE DEF LegacyInv
<1>1. owed[t] \in Int
    BY DEF Typed
<1>2. ASSUME NEW u \in Transfer, SendOpens(u)
      PROVE  ~(owed'[t] < owed[t]) /\ begun' = begun
    <2>1. PICK n \in 1 .. MaxLen : owed' = [owed EXCEPT ![u] = n]
        BY <1>2 DEF SendOpens
    <2>2. owed[u] = 0
        BY <1>2 DEF SendOpens, WorkerMoves, Progress, Untouched
    <2>3. owed'[t] = IF t = u THEN n ELSE owed[t]
        BY <2>1 DEF Typed
    <2> QED
        BY <1>1, <1>2, <2>2, <2>3, LengthAssumption DEF SendOpens
<1>3. ASSUME NEW u \in Transfer,
             \/ Dispatch(u) \/ DispatchLost(u) \/ Leaves(u) \/ TaskEnds(u) \/ Asks(u)
             \/ (\E c \in Call : Calls(u, c))
      PROVE  owed' = owed /\ begun' = begun
    BY <1>3 DEF Dispatch, DispatchLost, Leaves, SendWhole, AccelSends, SendThrows, TaskEnds,
                Asks, Calls, writer
<1>4. ASSUME NEW u \in Transfer, Answered(u)
      PROVE  owed' = owed /\ begun' = begun
    BY <1>4, AnsweredReturns DEF Returns, writer
<1>5. ASSUME LoopStarts \/ LoopFinishes \/ SocketDrains \/ Disconnect \/ UNCHANGED vars
      PROVE  owed' = owed /\ begun' = begun
    BY <1>5 DEF LoopStarts, LoopFinishes, SocketDrains, Disconnect, writer, vars
<1> QED
    BY <1>1, <1>2, <1>3, <1>4, <1>5 DEF Next, SendStep, Leaves, Answered

LEMMA RouteEndsAlone ==
    ASSUME LegacyInv, [Next]_vars, NEW t \in Transfer, wpc'[t] # wpc[t], ends'[t] # ends[t]
    PROVE  io # "running"
<1> USE DEF LegacyInv
<1>1. TaskEnds(t)
    BY EndsGrow
<1>2. wpc[t] = "returned" /\ t \notin begun
    BY <1>1 DEF TaskEnds, WorkerMoves
<1>3. Open(t)
    BY <1>2 DEF Progress, AfterSend, Over, Open
<1>4. ASSUME NEW u \in Transfer, wpc[u] \in Job, Open(u)
      PROVE  FALSE
    <2>1. u = t
        BY <1>3, <1>4 DEF OneOpen
    <2> QED
        BY <1>2, <1>4, <2>1 DEF Job
<1> QED
    BY <1>4, FunctionIsOpens

(* A response is not written to once it has been ended, and the route does *)
(* not end one while the loop's thread is in a function that uses it.      *)
THEOREM NothingFollowsTheEnd == Spec => NothingAfterEnd
<1>1. ASSUME LegacyInv, [Next]_vars, NEW t \in Transfer
      PROVE  /\ owed'[t] < owed[t] \/ (t \in begun' /\ t \notin begun)
                    => ends[t] = 0 /\ InSend(t)
             /\ wpc'[t] # wpc[t] /\ ends'[t] # ends[t] => io # "running"
    BY <1>1, WritesAreOpen, NothingElseWrites, RouteEndsAlone
<1> DEFINE A == \A t \in Transfer :
                    /\ owed'[t] < owed[t] \/ (t \in begun' /\ t \notin begun)
                           => ends[t] = 0 /\ InSend(t)
                    /\ wpc'[t] # wpc[t] /\ ends'[t] # ends[t] => io # "running"
<1>2. LegacyInv /\ [Next]_vars => [A]_vars
    BY <1>1
<1> QED
    BY <1>2, LegacyInvariant, PTL DEF Spec, NothingAfterEnd

-----------------------------------------------------------------------------
(* What a step of the downloads is to the calls.                           *)
LEMMA StepsOfCalls ==
    ASSUME CallInv, Typed, LoopIsHandling, [Next]_vars
    PROVE  Elsewhere \/ \E c \in Call : CallStep(c) \/ LoopStep(c)
<1>1. ASSUME NEW t \in Transfer,
             Dispatch(t) \/ DispatchLost(t) \/ Leaves(t) \/ SendOpens(t) \/ TaskEnds(t)
      PROVE  Elsewhere
    BY <1>1, TaskElsewhere
<1>2. ASSUME NEW t \in Transfer, Asks(t)
      PROVE  \E c \in Call : CallStep(c)
    BY <1>2 DEF Asks, CallStep
<1>3. ASSUME NEW t \in Transfer, NEW c \in Call, Calls(t, c)
      PROVE  CallStep(c)
    BY <1>3 DEF Calls, CallStep
<1>4. ASSUME NEW t \in Transfer, Answered(t)
      PROVE  \E c \in Call : CallStep(c)
    <2>1. calling[t] \in Call /\ EndCall(calling[t])
        BY <1>4, AnsweredReturns DEF Returns, Typed
    <2> QED
        BY <2>1 DEF CallStep
<1>5. ASSUME NEW c \in Call, JobRuns(c)
      PROVE  CallStep(c) \/ LoopStep(c)
    BY <1>5 DEF JobRuns, CallStep, LoopStep
<1>6. CASE LoopStarts \/ LoopFinishes
    BY <1>6 DEF LoopStarts, LoopFinishes, LoopStep
<1>7. CASE SocketDrains \/ Disconnect \/ UNCHANGED vars
    BY <1>7 DEF SocketDrains, Disconnect, Elsewhere, CallInv, CallTypeOK, connection, calls,
                vars, callVars, syncCall, loopThread
<1> QED
    BY <1>1, <1>2, <1>3, <1>4, <1>5, <1>6, <1>7 DEF Next, SendStep, Leaves, Answered

(* The promise of RemoteCall is kept to the downloads too: used as send()  *)
(* uses it, whatever else the loop's thread and the tasks do.              *)
THEOREM DownloadsKeepPromise == Spec => ImplementsRemoteCall
<1>1. Init => Remote!Init
    BY DEF Init, CallInit, Remote!Init, CallStatus
<1>2. LegacyInv /\ LegacyInv' /\ [Next]_vars
          => [Remote!Next]_[c \in Call |-> CallStatus(c)]
    <2> SUFFICES ASSUME LegacyInv, LegacyInv', [Next]_vars
                 PROVE  Remote!Next \/ RemoteStatus' = RemoteStatus
        BY DEF RemoteStatus
    <2>1. CallInv /\ CallInv'
        BY DEF LegacyInv
    <2>2. CASE Elsewhere
        BY <2>1, <2>2, RemoteElsewhere
    <2>3. ASSUME NEW c \in Call, CallStep(c) \/ LoopStep(c)
          PROVE  Remote!Next \/ RemoteStatus' = RemoteStatus
        BY <2>1, <2>3, RemoteStep
    <2> QED
        BY <2>2, <2>3, StepsOfCalls DEF LegacyInv
<1> QED
    BY <1>1, <1>2, LegacyInvariant, PTL DEF Spec, ImplementsRemoteCall, Remote!Spec

-----------------------------------------------------------------------------
(* What is left of SendReturns without fairness.  The steps a call has     *)
(* left until its caller has the answer; a caller that waits may also give *)
(* up, unless the loop's thread is at the call.                            *)
StepsOfCall(c) ==
    IF caller[c] = "waiting"
    THEN IF done[c] THEN 1 ELSE IF cur # c THEN 4 ELSE IF io = "running" THEN 3 ELSE 2
    ELSE IF caller[c] = "inline" THEN 3
    ELSE IF caller[c] = "running" THEN 2
    ELSE IF caller[c] = "run" THEN 1 ELSE 0

StepsToReturn(t) == IF calling[t] = NoCall THEN 5 ELSE StepsOfCall(calling[t])

Stage == [headers |-> 3, poll |-> 2, write |-> 1, end |-> 0]

(* How far send() is from its return: units to send first, then its        *)
(* position, polls of a full buffer, and the present call.                 *)
SameUnits(t) == local'[t].remaining = local[t].remaining
SameStage(t) == SameUnits(t) /\ wpc'[t] = wpc[t]
SamePolls(t) == SameStage(t) /\ local'[t].polls = local[t].polls
SameCall(t) == SamePolls(t) /\ StepsToReturn(t)' = StepsToReturn(t)

Forward(t) ==
    \/ local'[t].remaining < local[t].remaining
    \/ SameUnits(t) /\ Stage[wpc'[t]] < Stage[wpc[t]]
    \/ SameStage(t) /\ local'[t].polls > local[t].polls
    \/ SamePolls(t) /\ StepsToReturn(t)' < StepsToReturn(t)

(* Nobody puts send() back, and each step of its own brings it forward.    *)
SendOnlyGoesForward ==
    [][\A t \in Transfer : InSend(t) /\ InSend(t)' =>
        Forward(t) \/ (SameCall(t) /\ ~SendStep(t))]_vars

(* A thread in send() that has no answer yet and may not give up any more  *)
(* is waiting for the loop's thread, which is at its call.                 *)
SendNeverStranded ==
    \A t \in Transfer, c \in Call :
        InSend(t) /\ calling[t] = c /\ caller[c] = "waiting" /\ started[c] /\ ~done[c]
            => cur = c /\ io \in {"running", "run"}

LEMMA StepsOfCallNumber ==
    ASSUME CallInv, NEW c \in Call
    PROVE  StepsOfCall(c) \in 0 .. 4
BY DEF StepsOfCall

LEMMA OwnCallForward ==
    ASSUME CallInv, NEW c \in Call,
           StartInline(c) \/ InlineReturns(c) \/ CallDone(c) \/ GiveUp(c)
    PROVE  StepsOfCall(c)' < StepsOfCall(c)
<1>1. caller \in [Call -> {"free", "inline", "waiting", "running", "run", "yes", "no"}]
    BY DEF CallInv, CallTypeOK
<1>2. CASE StartInline(c)
    BY <1>1, <1>2 DEF StartInline, CallerMoves, StepsOfCall
<1>3. CASE InlineReturns(c)
    BY <1>1, <1>3 DEF InlineReturns, CallerMoves, StepsOfCall
<1>4. CASE CallDone(c)
    BY <1>1, <1>4 DEF CallDone, CallerMoves, StepsOfCall
<1>5. CASE GiveUp(c)
    BY <1>1, <1>5 DEF GiveUp, CallerMoves, StepsOfCall
<1> QED
    BY <1>2, <1>3, <1>4, <1>5

LEMMA LoopCallForward ==
    ASSUME CallInv, NEW c \in Call, RunInline(c) \/ LoopStep(c)
    PROVE  StepsOfCall(c)' <= StepsOfCall(c)
<1>1. /\ caller \in [Call -> {"free", "inline", "waiting", "running", "run", "yes", "no"}]
      /\ done \in [Call -> BOOLEAN] /\ io \in {"idle", "running", "run", "handler"}
      /\ c # NoCall
      /\ cur = NoCall \/ io \in {"running", "run"}
    BY CallAssumption DEF CallInv, CallTypeOK, LoopInv
<1>2. CASE RunInline(c)
    BY <1>1, <1>2 DEF RunInline, CallerMoves, StepsOfCall
<1>3. CASE StartCall(c)
    <2>1. cur = NoCall /\ cur' = c /\ io' \in {"running", "run"} /\ UNCHANGED <<caller, done>>
        BY <1>1, <1>3 DEF StartCall, Takes
    <2> QED
        BY <1>1, <2>1 DEF StepsOfCall
<1>4. CASE RunCall(c)
    BY <1>1, <1>4 DEF RunCall, StepsOfCall
<1>5. CASE FinishCall(c)
    BY <1>1, <1>5 DEF FinishCall, StepsOfCall
<1> QED
    BY <1>2, <1>3, <1>4, <1>5 DEF LoopStep

LEMMA OtherCallsStand ==
    ASSUME CallInv, NEW c \in Call, NEW d \in Call, d # c, CallStep(d) \/ LoopStep(d)
    PROVE  StepsOfCall(c)' = StepsOfCall(c)
<1>1. /\ caller \in [Call -> {"free", "inline", "waiting", "running", "run", "yes", "no"}]
      /\ done \in [Call -> BOOLEAN] /\ c # NoCall
      /\ cur = NoCall \/ io \in {"running", "run"}
    BY CallAssumption DEF CallInv, CallTypeOK, LoopInv
<1>2. CASE CallStep(d)
    <2>1. caller'[c] = caller[c] /\ done'[c] = done[c] /\ UNCHANGED <<io, cur>>
        BY <1>1, <1>2
        DEF CallStep, CallRefused, PostCall, CallInline, Begins, StartInline, RunInline,
            InlineReturns, CallDone, GiveUp, EndCall, CallerMoves
    <2> QED
        BY <2>1 DEF StepsOfCall
<1>3. CASE LoopStep(d)
    <2>1. caller'[c] = caller[c] /\ done'[c] = done[c] /\ cur # c /\ cur' # c
        BY <1>1, <1>3 DEF LoopStep, StartCall, Takes, RunCall, FinishCall
    <2> QED
        BY <2>1 DEF StepsOfCall
<1> QED
    BY <1>2, <1>3

LEMMA ElsewhereStand ==
    ASSUME CallInv, NEW c \in Call, Elsewhere
    PROVE  StepsOfCall(c)' = StepsOfCall(c)
<1>1. c # NoCall /\ (cur = NoCall \/ io \in {"running", "run"})
    BY CallAssumption DEF CallInv, CallTypeOK, LoopInv
<1>2. UNCHANGED <<caller, done, cur>> /\ (cur = c => io' = io)
    BY <1>1 DEF Elsewhere
<1> QED
    BY <1>2 DEF StepsOfCall

(* A step of the thread itself. *)
LEMMA SendForward ==
    ASSUME LegacyInv, NEW t \in Transfer, InSend(t), InSend(t)', SendStep(t)
    PROVE  Forward(t)
<1>i. CallInv /\ Typed /\ CallsOwned /\ Progress(t)
    BY DEF LegacyInv
<1>t. /\ wpc \in [Transfer -> Job \cup {"none", "dropped", "opening", "returned", "done"}]
      /\ local \in [Transfer -> Local] /\ local[t] \in Local
      /\ calling \in [Transfer -> Call \cup {NoCall}]
      /\ local[t].remaining \in Nat /\ local[t].got \in Nat /\ local[t].polls \in Nat
    <2>1. /\ local[t].remaining \in 0 .. MaxLen /\ local[t].got \in 0 .. ChunkSize
          /\ local[t].polls \in 0 .. MaxPolls
        BY <1>i, LocalFields
    <2>2. MaxLen \in Nat /\ ChunkSize \in Nat /\ MaxPolls \in Nat
        BY LengthAssumption, ChunkAssumption, PollsAssumption
    <2>3. local[t].remaining \in Nat /\ local[t].got \in Nat /\ local[t].polls \in Nat
        BY <2>1, <2>2
    <2> QED
        BY <1>i, <2>3 DEF Typed
<1>1. CASE Asks(t)
    <2>1. calling[t] = NoCall /\ wpc' = wpc /\ calling'[t] \in Call
        <3>1. (CHOOSE c \in Call : Unused(c)) \in Call
            BY <1>1 DEF Asks
        <3> QED
            BY <1>t, <1>1, <3>1 DEF Asks
    <2>2. local'[t].remaining = local[t].remaining /\ local'[t].polls = local[t].polls
        <3>1. local' = [local EXCEPT ![t].ok = FALSE, ![t].pending = FALSE, ![t].connected = FALSE]
            BY <1>1 DEF Asks
        <3> QED
            BY <1>t, <3>1 DEF Local
    <2>3. StepsOfCall(calling[t])' \in 0 .. 4
        <3>1. CallInv' /\ calling'[t] \in Call
            BY <1>i, <1>1, <2>1, CallMade
        <3> QED
            BY <3>1 DEF StepsOfCall
    <2>4. StepsToReturn(t) = 5 /\ StepsToReturn(t)' < 5
        BY <2>1, <2>3, CallAssumption DEF StepsToReturn
    <2> QED
        BY <2>1, <2>2, <2>4 DEF Forward, SamePolls, SameStage, SameUnits
<1>2. ASSUME NEW c \in Call, Calls(t, c) PROVE Forward(t)
    <2>1. StepsOfCall(c)' < StepsOfCall(c)
        BY <1>i, <1>2, OwnCallForward DEF Calls
    <2>2. calling[t] = c /\ UNCHANGED <<calling, wpc, local>>
        BY <1>2 DEF Calls
    <2>3. StepsToReturn(t)' < StepsToReturn(t)
        BY <2>1, <2>2, CallAssumption DEF StepsToReturn
    <2> QED
        BY <2>2, <2>3 DEF Forward, SamePolls, SameStage, SameUnits
<1>3. ASSUME NEW from, NEW to, Returns(t, from, to) PROVE wpc[t] = from /\ wpc'[t] = to
    BY <1>t, <1>3 DEF Returns, WorkerMoves
<1>4. CASE HeadersSent(t)
    <2>1. wpc[t] = "headers" /\ wpc'[t] = "poll" /\ UNCHANGED local
        BY <1>3, <1>4 DEF HeadersSent
    <2> QED
        BY <2>1 DEF Forward, SameUnits, Stage
<1>5. CASE Sleeps(t)
    <2>1. wpc[t] = "poll" /\ wpc'[t] \in {"poll", "end"}
        BY <1>3, <1>5 DEF Sleeps
    <2>2. local'[t].remaining = local[t].remaining /\ local'[t].polls = local[t].polls + 1
        <3>1. local' = [local EXCEPT ![t].polls = @ + 1,
                                     ![t].timedOut = local[t].polls + 1 >= MaxPolls]
            BY <1>5 DEF Sleeps
        <3> QED
            BY <1>t, <3>1 DEF Local
    <2>3. local'[t].polls > local[t].polls
        BY <1>t, <2>2
    <2> QED
        BY <2>1, <2>2, <2>3 DEF Forward, SameStage, SameUnits, Stage
<1>6. CASE PollFailed(t) \/ WriteFailed(t)
    <2>1. wpc[t] \in {"poll", "write"} /\ wpc'[t] = "end" /\ UNCHANGED local
        BY <1>3, <1>6 DEF PollFailed, WriteFailed
    <2> QED
        BY <2>1 DEF Forward, SameUnits, Stage
<1>7. CASE ReadsChunk(t)
    <2>1. wpc[t] = "poll" /\ wpc'[t] \in {"end", "write"}
        BY <1>3, <1>7 DEF ReadsChunk
    <2>2. local'[t].remaining = local[t].remaining
        BY <1>t, <1>7 DEF ReadsChunk, Local
    <2> QED
        BY <2>1, <2>2 DEF Forward, SameUnits, Stage
<1>8. CASE Written(t)
    <2>1. wpc[t] = "write"
        BY <1>3, <1>8 DEF Written
    <2>2. local[t].got > 0
        BY <1>i, <2>1 DEF Progress, AtWrite
    <2>3. local'[t].remaining = local[t].remaining - local[t].got
        BY <1>t, <1>8 DEF Written, Local
    <2> QED
        BY <1>t, <2>2, <2>3 DEF Forward
<1>9. ~(SendWhole(t) \/ AccelSends(t) \/ SendThrows(t) \/ SendOpens(t))
    BY DEF SendWhole, AccelSends, SendThrows, SendOpens, WorkerMoves, InSend, Job
<1>10. ~(HeadersFailed(t) \/ Ended(t))
    <2>1. wpc'[t] # "returned"
        BY DEF InSend, Job
    <2>2. ASSUME NEW from, NEW success PROVE ~SendReturnsFrom(t, from, success)
        BY <1>3, <2>1 DEF SendReturnsFrom
    <2> QED
        BY <2>2 DEF HeadersFailed, Ended
<1> QED
    BY <1>1, <1>2, <1>4, <1>5, <1>6, <1>7, <1>8, <1>9, <1>10 DEF SendStep

(* A step of others, of the loop's thread or of the connection.            *)
LEMMA OthersStand ==
    ASSUME LegacyInv, NEW t \in Transfer, InSend(t), InSend(t)', Next, ~SendStep(t)
    PROVE  Forward(t) \/ SameCall(t)
<1>i. CallInv /\ Typed /\ CallsOwned /\ LoopIsHandling /\ Progress(t)
    BY DEF LegacyInv
<1>t. /\ wpc \in [Transfer -> Job \cup {"none", "dropped", "opening", "returned", "done"}]
      /\ local \in [Transfer -> Local]
      /\ calling \in [Transfer -> Call \cup {NoCall}]
    BY <1>i DEF Typed
<1> DEFINE Alike == /\ wpc'[t] = wpc[t] /\ calling'[t] = calling[t]
                    /\ local'[t].remaining = local[t].remaining
                    /\ local'[t].polls = local[t].polls
<1>1. ASSUME Alike, NEW d \in Call, calling[t] # d, CallStep(d) \/ LoopStep(d)
      PROVE  SameCall(t)
    <2>1. StepsToReturn(t)' = StepsToReturn(t)
        BY <1>i, <1>t, <1>1, OtherCallsStand, CallAssumption DEF StepsToReturn
    <2> QED
        BY <1>1, <2>1 DEF SameCall, SamePolls, SameStage, SameUnits
<1>2. ASSUME Alike, Elsewhere PROVE SameCall(t)
    <2>1. StepsToReturn(t)' = StepsToReturn(t)
        BY <1>i, <1>t, <1>2, ElsewhereStand, CallAssumption DEF StepsToReturn
    <2> QED
        BY <1>2, <2>1 DEF SameCall, SamePolls, SameStage, SameUnits
<1>3. ASSUME Alike, NEW c \in Call, calling[t] = c, RunInline(c) \/ LoopStep(c)
      PROVE  Forward(t) \/ SameCall(t)
    <2>1. StepsOfCall(c)' <= StepsOfCall(c) /\ StepsOfCall(c) \in 0 .. 4
        BY <1>i, <1>3, LoopCallForward, StepsOfCallNumber
    <2>2. StepsToReturn(t) = StepsOfCall(c) /\ StepsToReturn(t)' = StepsOfCall(c)'
        BY <1>3, CallAssumption DEF StepsToReturn
    <2>3. StepsOfCall(c)' \in 0 .. 4
        BY DEF StepsOfCall
    <2>4. StepsToReturn(t)' < StepsToReturn(t) \/ StepsToReturn(t)' = StepsToReturn(t)
        BY <2>1, <2>2, <2>3
    <2> QED
        BY <1>3, <2>4 DEF Forward, SameCall, SamePolls, SameStage, SameUnits
<1>4. ASSUME NEW u \in Transfer,
             Dispatch(u) \/ DispatchLost(u) \/ Leaves(u) \/ SendOpens(u) \/ TaskEnds(u)
      PROVE  SameCall(t)
    <2>1. Elsewhere /\ UNCHANGED calling
        BY <1>i, <1>4, TaskElsewhere
    <2>2. wpc[u] \in {"none", "opening", "returned"}
        BY <1>4 DEF Dispatch, DispatchLost, Leaves, SendWhole, AccelSends, SendThrows, SendOpens,
                    TaskEnds, WorkerMoves
    <2>3. u # t
        BY <2>2 DEF InSend, Job
    <2>4. wpc'[t] = wpc[t] /\ local'[t] = local[t]
        BY <1>t, <1>4, <2>3
        DEF Dispatch, DispatchLost, Leaves, SendWhole, AccelSends, SendThrows, SendOpens, TaskEnds,
            WorkerMoves
    <2> QED
        BY <1>2, <2>1, <2>4
<1>5. ASSUME NEW u \in Transfer, u # t, Asks(u) PROVE SameCall(t)
    <2>1. PICK c \in Call : Unused(c) /\ CallStep(c)
        <3> DEFINE c == CHOOSE c \in Call : Unused(c)
        <3>1. c \in Call /\ Unused(c)
            BY <1>5 DEF Asks
        <3>2. CallStep(c)
            BY <1>5 DEF Asks, CallStep
        <3> HIDE DEF c
        <3> QED
            BY <3>1, <3>2
    <2>2. calling[t] # c
        BY <1>i, <2>1, CallAssumption DEF Unused, CallsOwned
    <2>3. calling'[t] = calling[t]
        BY <1>i, <1>5, CallMade
    <2>4. wpc'[t] = wpc[t] /\ local'[t] = local[t]
        BY <1>t, <1>5 DEF Asks
    <2> QED
        BY <1>1, <2>1, <2>2, <2>3, <2>4
<1>6. ASSUME NEW u \in Transfer, u # t, NEW c \in Call, Calls(u, c) PROVE SameCall(t)
    <2>1. calling[u] = c /\ CallStep(c) /\ UNCHANGED <<wpc, calling, local>>
        BY <1>6 DEF Calls, CallStep
    <2>2. calling[t] # c
        BY <1>i, <1>6, <2>1, OthersCalls
    <2> QED
        BY <1>1, <2>1, <2>2
<1>7. ASSUME NEW u \in Transfer, u # t, Answered(u) PROVE SameCall(t)
    <2>1. PICK from \in Job, to \in Job \cup {"returned"} : Returns(u, from, to)
        BY <1>7, AnsweredReturns
    <2>2. PICK c \in Call : calling[u] = c /\ CallStep(c)
        BY <1>t, <2>1 DEF Returns, CallStep
    <2>3. calling[t] # c
        BY <1>i, <1>7, <2>2, OthersCalls
    <2>4. calling'[t] = calling[t] /\ wpc'[t] = wpc[t]
        BY <1>t, <1>7, <2>1 DEF Returns, WorkerMoves
    <2>5. local'[t] = local[t]
        BY <1>t, <1>7 DEF Answered, HeadersFailed, HeadersSent, Sleeps, PollFailed, ReadsChunk,
                          WriteFailed, Written, Ended, SendReturnsFrom
    <2> QED
        BY <1>1, <2>2, <2>3, <2>4, <2>5
<1>8. ASSUME NEW c \in Call, JobRuns(c) PROVE Forward(t) \/ SameCall(t)
    <2>1. Alike
        <3>1. UNCHANGED <<wpc, calling>>
            BY <1>8 DEF JobRuns
        <3>2. ASSUME NEW u, DoHeaders(u) \/ DoPoll(u) \/ DoWrite(u) \/ DoEnd(u)
              PROVE  /\ local'[t].remaining = local[t].remaining
                     /\ local'[t].polls = local[t].polls
            <4>1. CASE u # t \/ DoEnd(u)
                BY <1>t, <3>2, <4>1 DEF DoHeaders, DoPoll, DoWrite, DoEnd
            <4>2. CASE u = t /\ DoHeaders(t)
                BY <1>t, <4>2 DEF DoHeaders, Local
            <4>3. CASE u = t /\ DoPoll(t)
                BY <1>t, <4>3 DEF DoPoll, Local
            <4>4. CASE u = t /\ DoWrite(t)
                BY <1>t, <4>4 DEF DoWrite, Local
            <4> QED
                BY <3>2, <4>1, <4>2, <4>3, <4>4
        <3> QED
            BY <1>8, <3>1, <3>2 DEF JobRuns
    <2>2. RunInline(c) \/ RunCall(c)
        BY <1>8 DEF JobRuns
    <2>3. CASE calling[t] = c
        BY <1>3, <2>1, <2>2, <2>3 DEF LoopStep
    <2>4. CASE calling[t] # c
        BY <1>1, <2>1, <2>2, <2>4 DEF LoopStep, CallStep
    <2> QED
        BY <2>3, <2>4
<1>9. CASE LoopStarts \/ LoopFinishes
    <2>1. PICK c \in Call : LoopStep(c)
        BY <1>9 DEF LoopStarts, LoopFinishes, LoopStep
    <2>2. Alike
        BY <1>9 DEF LoopStarts, LoopFinishes
    <2>3. CASE calling[t] = c
        BY <1>3, <2>1, <2>2, <2>3
    <2>4. CASE calling[t] # c
        BY <1>1, <2>1, <2>2, <2>4
    <2> QED
        BY <2>3, <2>4
<1>10. CASE SocketDrains \/ Disconnect
    <2>1. Elsewhere
        BY <1>i, <1>10 DEF SocketDrains, Disconnect, Elsewhere, CallInv, CallTypeOK
    <2>2. Alike
        BY <1>10 DEF SocketDrains, Disconnect
    <2> QED
        BY <1>2, <2>1, <2>2
<1> HIDE DEF Alike
<1>11. ASSUME NEW u \in Transfer, SendStep(u) PROVE SameCall(t)
    <2>1. u # t
        BY <1>11
    <2> QED
        BY <1>4, <1>5, <1>6, <1>7, <1>11, <2>1 DEF SendStep, Leaves, Answered
<1> QED
    BY <1>4, <1>8, <1>9, <1>10, <1>11 DEF Next

(* send() only goes forward: with fewer units to send, to a later place,   *)
(* after one more of a limited number of polls, or nearer to the answer of *)
(* its call.  Other downloads, the loop's thread and the connection never  *)
(* put it back, and each step of its own thread takes it forward.          *)
THEOREM SendsComeToAnEnd == Spec => SendOnlyGoesForward
<1>1. LegacyInv /\ [Next]_vars =>
        [\A t \in Transfer : InSend(t) /\ InSend(t)' =>
            Forward(t) \/ (SameCall(t) /\ ~SendStep(t))]_vars
    BY SendForward, OthersStand
<1> QED
    BY <1>1, LegacyInvariant, PTL DEF Spec, SendOnlyGoesForward

(* No thread of the dispatcher is stuck in a call: as long as it has no    *)
(* answer it may give up, or the loop's thread is at its function or about *)
(* to answer.                                                              *)
THEOREM SendIsNeverStranded == Spec => []SendNeverStranded
<1>1. LegacyInv => SendNeverStranded
    <2> SUFFICES ASSUME CallInv, NEW c \in Call, caller[c] = "waiting", started[c], ~done[c]
                 PROVE  cur = c /\ io \in {"running", "run"}
        BY DEF SendNeverStranded, LegacyInv
    <2>1. cur = c /\ c # NoCall
        BY CallAssumption DEF CallInv, WaitInv
    <2> QED
        BY <2>1 DEF CallInv, LoopInv
<1> QED
    BY <1>1, LegacyInvariant, PTL

-----------------------------------------------------------------------------
(* What the handler is promised, by either strategy: send() ends with its  *)
(* report, or with an exception that nobody hears of.                      *)
PhaseFor(t) ==
    IF reports[t] # <<>> THEN IF reports[t] = <<TRUE>> THEN "success" ELSE "failure"
    ELSE IF InSend(t) THEN "sending" ELSE "new"

SendPhase == [t \in Transfer |-> PhaseFor(t)]

Contract == INSTANCE FileTransfer WITH phase <- SendPhase, owed <- owed

(* From what becomes of one download to what becomes of them all. *)
LEMMA PhaseMoves ==
    ASSUME NEW t \in Transfer, NEW to, PhaseFor(t)' = to,
           \A u \in Transfer : u # t => reports'[u] = reports[u] /\ wpc'[u] = wpc[u]
    PROVE  SendPhase' = [SendPhase EXCEPT ![t] = to]
BY DEF SendPhase, PhaseFor, InSend

LEMMA ContractStands ==
    ASSUME UNCHANGED <<reports, owed>>, \A u \in Transfer : InSend(u)' <=> InSend(u)
    PROVE  UNCHANGED <<SendPhase, owed>>
<1>1. \A u \in Transfer : PhaseFor(u)' = PhaseFor(u)
    BY DEF PhaseFor
<1> QED
    BY <1>1 DEF SendPhase

LEMMA ReportEnds ==
    ASSUME Typed, NEW t \in Transfer, NEW success \in BOOLEAN, reports[t] = <<>>,
           reports' = [reports EXCEPT ![t] = Append(@, success)],
           \A u \in Transfer : u # t => wpc'[u] = wpc[u],
           UNCHANGED owed,
           success => owed[t] = 0
    PROVE  Contract!Next
<1>1. reports \in [Transfer -> Seq(BOOLEAN)]
    BY DEF Typed
<1>2. reports'[t] = <<success>> /\ reports'[t] # <<>>
    BY <1>1
<1>3. \A u \in Transfer : u # t => reports'[u] = reports[u]
    BY <1>1
<1>4. SendPhase[t] \in {"new", "sending"}
    BY DEF SendPhase, PhaseFor
<1>5. CASE success
    <2>1. PhaseFor(t)' = "success"
        BY <1>2, <1>5 DEF PhaseFor
    <2>2. SendPhase' = [SendPhase EXCEPT ![t] = "success"]
        BY <1>3, <2>1, PhaseMoves
    <2>3. Contract!Succeed(t)
        BY <1>4, <1>5, <2>2 DEF Contract!Succeed, Contract!Moves
    <2> QED
        BY <2>3 DEF Contract!Next
<1>6. CASE ~success
    <2>1. reports'[t] # <<TRUE>>
        BY <1>2, <1>6, OneReport
    <2>2. PhaseFor(t)' = "failure"
        BY <1>2, <2>1 DEF PhaseFor
    <2>3. SendPhase' = [SendPhase EXCEPT ![t] = "failure"]
        BY <1>3, <2>2, PhaseMoves
    <2>4. Contract!Fail(t)
        BY <1>4, <2>3 DEF Contract!Fail, Contract!Moves
    <2> QED
        BY <2>4 DEF Contract!Next
<1> QED
    BY <1>5, <1>6

(* The function of a call: the chunk it writes is accepted. *)
LEMMA RunKeepsContract ==
    ASSUME LegacyInv, NEW c \in Call, JobRuns(c)
    PROVE  Contract!Next \/ UNCHANGED <<SendPhase, owed>>
<1>i. CallInv /\ Typed /\ CallsOwned /\ \A t \in Transfer : Progress(t)
    BY DEF LegacyInv
<1>1. PICK t \in Transfer : /\ wpc[t] \in Job /\ ~Ran(t)
                            /\ job[c][1] = wpc[t] /\ job[c][2] = t
    BY <1>i, CallRuns
<1>2. UNCHANGED <<wpc, reports>>
    BY DEF JobRuns
<1>3. UNCHANGED SendPhase
    BY <1>2 DEF SendPhase, PhaseFor, InSend
<1>4. CASE wpc[t] # "write" \/ ~connected
    <2>1. DoHeaders(t) \/ DoPoll(t) \/ DoEnd(t) \/ (DoWrite(t) /\ ~connected)
        BY <1>1, <1>4 DEF JobRuns
    <2>2. owed \in [Transfer -> Int]
        BY <1>i DEF Typed
    <2>3. CASE DoWrite(t) /\ ~connected
        <3>1. owed' = [owed EXCEPT ![t] = owed[t]]
            BY <2>3 DEF DoWrite
        <3> QED
            BY <1>3, <2>2, <3>1
    <2>4. UNCHANGED owed \/ (DoWrite(t) /\ ~connected)
        BY <2>1 DEF DoHeaders, DoPoll, DoEnd
    <2> QED
        BY <1>3, <2>3, <2>4
<1>5. CASE wpc[t] = "write" /\ connected
    <2>1. DoWrite(t)
        BY <1>1, <1>5 DEF JobRuns
    <2>2. AtWrite(t) /\ Sending(t)
        BY <1>i DEF Progress
    <2>3. /\ local[t].got > 0 /\ local[t].got <= local[t].remaining
          /\ owed[t] = local[t].remaining
        BY <1>1, <1>5, <2>2 DEF AtWrite
    <2>4. local[t].got \in 0 .. ChunkSize /\ local[t].remaining \in 0 .. MaxLen
        BY <1>i, LocalFields
    <2>5. local[t].got \in Nat /\ local[t].remaining \in Nat
        BY <2>4, LengthAssumption, ChunkAssumption
    <2>6. owed' = [owed EXCEPT ![t] = owed[t] - local[t].got]
        BY <1>5, <2>1 DEF DoWrite
    <2>7. owed'[t] = owed[t] - local[t].got
        BY <1>i, <2>6 DEF Typed
    <2>8. owed'[t] \in Nat /\ owed'[t] < owed[t]
        BY <2>3, <2>5, <2>7
    <2>9. owed' = [owed EXCEPT ![t] = owed'[t]]
        BY <2>6, <2>7
    <2>10. SendPhase[t] = "sending"
        <3>1. reports[t] = <<>> /\ InSend(t)
            BY <1>5, <2>2 DEF Sending, InSend, Job
        <3> QED
            BY <3>1 DEF SendPhase, PhaseFor
    <2>11. Contract!Accept(t)
        BY <1>3, <2>8, <2>9, <2>10 DEF Contract!Accept, Contract!Owes
    <2> QED
        BY <2>11 DEF Contract!Next
<1> QED
    BY <1>4, <1>5

(* The promise of a length. *)
LEMMA OpenKeepsContract ==
    ASSUME LegacyInv, NEW t \in Transfer, SendOpens(t)
    PROVE  Contract!Next
<1>i. Typed /\ Untouched(t)
    BY DEF LegacyInv, Progress
<1>1. /\ wpc[t] = "opening" /\ wpc' = [wpc EXCEPT ![t] = "headers"]
      /\ UNCHANGED reports
    BY DEF SendOpens, WorkerMoves
<1>2. PICK n \in 1 .. MaxLen : owed' = [owed EXCEPT ![t] = n]
    BY DEF SendOpens
<1>3. owed'[t] = n
    BY <1>i, <1>2 DEF Typed
<1>n. n \in Nat
    BY LengthAssumption
<1>4. owed'[t] \in Nat /\ owed' = [owed EXCEPT ![t] = owed'[t]]
    <2>1. owed' = [owed EXCEPT ![t] = owed'[t]]
        BY <1>2, <1>3
    <2> QED
        BY <1>n, <1>3, <2>1
<1>5. reports[t] = <<>>
    BY <1>i, <1>1 DEF Untouched
<1>6. wpc'[t] = "headers" /\ \A u \in Transfer : u # t => wpc'[u] = wpc[u]
    BY <1>i, <1>1 DEF Typed
<1>7. PhaseFor(t)' = "sending"
    BY <1>1, <1>5, <1>6 DEF PhaseFor, InSend, Job
<1>8. SendPhase' = [SendPhase EXCEPT ![t] = "sending"]
    BY <1>1, <1>6, <1>7, PhaseMoves
<1>9. SendPhase[t] = "new"
    BY <1>1, <1>5 DEF SendPhase, PhaseFor, InSend, Job
<1>10. Contract!Promise(t)
    BY <1>4, <1>8, <1>9 DEF Contract!Promise, Contract!Moves, Contract!Owes
<1> QED
    BY <1>10 DEF Contract!Next

(* send() returns: from the file served whole, or after the chunks. *)
LEMMA ReturnKeepsContract ==
    ASSUME LegacyInv, NEW t \in Transfer,
           SendWhole(t) \/ AccelSends(t) \/ HeadersFailed(t) \/ Ended(t)
    PROVE  Contract!Next
<1>i. Typed /\ Progress(t)
    BY DEF LegacyInv
<1>w. wpc \in [Transfer -> Job \cup {"none", "dropped", "opening", "returned", "done"}]
    BY <1>i DEF Typed
<1>1. CASE SendWhole(t) \/ AccelSends(t)
    <2>1. PICK success \in BOOLEAN : Report(t, 0, success)
        BY <1>1 DEF SendWhole, AccelSends
    <2>2. /\ wpc[t] = "opening" /\ wpc' = [wpc EXCEPT ![t] = "returned"]
          /\ UNCHANGED owed
        BY <1>1 DEF SendWhole, AccelSends, WorkerMoves
    <2>3. owed[t] = 0 /\ reports[t] = <<>>
        BY <1>i, <2>2 DEF Progress, Untouched
    <2>4. \A u \in Transfer : u # t => wpc'[u] = wpc[u]
        BY <1>w, <2>2
    <2> QED
        BY <1>i, <2>1, <2>2, <2>3, <2>4, ReportEnds DEF Report
<1>2. CASE HeadersFailed(t)
    <2>1. Report(t, 1, FALSE) /\ Returns(t, "headers", "returned")
        BY <1>2 DEF HeadersFailed, SendReturnsFrom
    <2>2. /\ wpc[t] = "headers" /\ wpc' = [wpc EXCEPT ![t] = "returned"]
          /\ UNCHANGED owed
        BY <2>1 DEF Returns, WorkerMoves
    <2>3. reports[t] = <<>>
        BY <1>i, <2>2 DEF Progress, Sending
    <2>4. \A u \in Transfer : u # t => wpc'[u] = wpc[u]
        BY <1>w, <2>2
    <2> QED
        BY <1>i, <2>1, <2>2, <2>3, <2>4, ReportEnds DEF Report
<1>3. CASE Ended(t)
    <2> DEFINE success == local[t].remaining = 0 /\ ~local[t].timedOut
    <2>1. Report(t, 1, success) /\ Returns(t, "end", "returned")
        BY <1>3 DEF Ended, SendReturnsFrom
    <2>2. /\ wpc[t] = "end" /\ wpc' = [wpc EXCEPT ![t] = "returned"]
          /\ UNCHANGED owed
        BY <2>1 DEF Returns, WorkerMoves
    <2>3. /\ reports[t] = <<>>
          /\ 0 <= owed[t] /\ owed[t] <= local[t].remaining
        BY <1>i, <2>2 DEF Progress, AtEnd
    <2>4. \A u \in Transfer : u # t => wpc'[u] = wpc[u]
        BY <1>w, <2>2
    <2>5. owed[t] \in Int
        BY <1>i DEF Typed
    <2>6. success => owed[t] = 0
        BY <2>3, <2>5
    <2>7. success \in BOOLEAN
        OBVIOUS
    <2>8. reports' = [reports EXCEPT ![t] = Append(@, success)]
        BY <2>1 DEF Report
    <2> HIDE DEF success
    <2> QED
        BY <1>i, <2>2, <2>3, <2>4, <2>6, <2>7, <2>8, ReportEnds
<1> QED
    BY <1>1, <1>2, <1>3

(* Everything else is not heard of. *)
LEMMA RestKeepsContract ==
    ASSUME LegacyInv, Next,
           \A c \in Call : ~JobRuns(c),
           \A t \in Transfer : ~SendOpens(t) /\ ~SendWhole(t) /\ ~AccelSends(t)
                               /\ ~HeadersFailed(t) /\ ~Ended(t)
    PROVE  UNCHANGED <<SendPhase, owed>>
<1>w. wpc \in [Transfer -> Job \cup {"none", "dropped", "opening", "returned", "done"}]
    BY DEF LegacyInv, Typed
<1>1. ASSUME NEW t \in Transfer, NEW from, NEW to, WorkerMoves(t, from, to),
             from \in Job <=> to \in Job, UNCHANGED <<reports, owed>>
      PROVE  UNCHANGED <<SendPhase, owed>>
    <2>1. wpc[t] = from /\ wpc'[t] = to /\ \A u \in Transfer : u # t => wpc'[u] = wpc[u]
        BY <1>w, <1>1 DEF WorkerMoves
    <2>2. \A u \in Transfer : InSend(u)' <=> InSend(u)
        BY <1>1, <2>1 DEF InSend
    <2> QED
        BY <1>1, <2>2, ContractStands
<1>2. ASSUME UNCHANGED <<wpc, reports, owed>> PROVE UNCHANGED <<SendPhase, owed>>
    BY <1>2, ContractStands DEF InSend
<1>3. ASSUME NEW t \in Transfer, Dispatch(t) \/ DispatchLost(t) \/ SendThrows(t) \/ TaskEnds(t)
      PROVE  UNCHANGED <<SendPhase, owed>>
    <2>1. \/ WorkerMoves(t, "none", "opening") \/ WorkerMoves(t, "none", "dropped")
          \/ WorkerMoves(t, "opening", "returned") \/ WorkerMoves(t, "returned", "done")
        BY <1>3 DEF Dispatch, DispatchLost, SendThrows, TaskEnds
    <2>2. UNCHANGED <<reports, owed>>
        BY <1>3 DEF Dispatch, DispatchLost, SendThrows, TaskEnds
    <2> QED
        BY <1>1, <2>1, <2>2 DEF Job
<1>4. ASSUME NEW t \in Transfer,
             \/ HeadersSent(t) \/ Sleeps(t) \/ PollFailed(t) \/ ReadsChunk(t)
             \/ WriteFailed(t) \/ Written(t)
      PROVE  UNCHANGED <<SendPhase, owed>>
    <2>1. PICK from \in Job, to \in Job : Returns(t, from, to)
        BY <1>4 DEF HeadersSent, Sleeps, PollFailed, ReadsChunk, WriteFailed, Written, Job
    <2>2. UNCHANGED reports
        BY <1>4 DEF HeadersSent, Sleeps, PollFailed, ReadsChunk, WriteFailed, Written
    <2>3. WorkerMoves(t, from, to) /\ UNCHANGED owed
        BY <2>1 DEF Returns
    <2> QED
        BY <1>1, <2>2, <2>3
<1>5. ASSUME NEW t \in Transfer, Asks(t) \/ \E c \in Call : Calls(t, c)
      PROVE  UNCHANGED <<SendPhase, owed>>
    BY <1>2, <1>5 DEF Asks, Calls
<1>6. CASE LoopStarts \/ LoopFinishes \/ SocketDrains \/ Disconnect
    BY <1>2, <1>6 DEF LoopStarts, LoopFinishes, SocketDrains, Disconnect
<1> QED
    BY <1>3, <1>4, <1>5, <1>6 DEF Next, SendStep

LEMMA ContractSteps ==
    LegacyInv /\ [Next]_vars => [Contract!Next]_Contract!contract
<1> SUFFICES ASSUME LegacyInv, [Next]_vars
             PROVE  Contract!Next \/ UNCHANGED <<SendPhase, owed>>
    BY DEF Contract!contract
<1>1. CASE UNCHANGED vars
    BY <1>1, ContractStands DEF InSend
<1>2. CASE Next
    BY <1>2, RunKeepsContract, OpenKeepsContract, ReturnKeepsContract, RestKeepsContract
<1> QED
    BY <1>1, <1>2

(* LegacyTransfer, and nginx in its place, do what FileTransfer promises   *)
(* their callers.                                                          *)
THEOREM SendKeepsContract == Spec => Contract!Spec
<1>1. Init => Contract!Init
    BY DEF Init, Contract!Init, SendPhase, PhaseFor, InSend, Job
<1> QED
    BY <1>1, LegacyInvariant, ContractSteps, PTL DEF Spec, Contract!Spec
===============================================================================
