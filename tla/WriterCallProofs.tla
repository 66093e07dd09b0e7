--------------------------- MODULE WriterCallProofs ---------------------------
(***************************************************************************)
(* Theorems about WriterCall for every set of calls: runOnWriterLoopSync() *)
(* keeps the promise of RemoteCall.                                        *)
(***************************************************************************)
EXTENDS WriterCall, TLAPS

(* What a call's flags mean to its two sides.  A call that is waited for   *)
(* is posted and untouched, or being run, or done.  A call nobody waits    *)
(* for has lost its function if its event is still posted, and if the      *)
(* loop's thread is at it, it is past the function.                        *)
WaitInv(c) ==
    caller[c] = "waiting" =>
        /\ Posted(c) => fn[c] /\ ~started[c] /\ ~done[c]
        /\ cur = c => started[c] /\ ~done[c]
        /\ ~Posted(c) /\ cur # c => done[c]

GoneInv(c) ==
    /\ caller[c] \in {"free", "no"} => (Posted(c) => ~fn[c]) /\ (cur = c => io = "run")
    /\ caller[c] \in {"inline", "running", "run", "yes"} => ~Posted(c) /\ cur # c

(* No call has two events, or an event while the loop's thread is at it.   *)
LoopInv ==
    /\ \A i, j \in 1 .. Len(loop) : loop[i] = loop[j] => i = j
    /\ cur # NoCall <=> io \in {"running", "run"}
    /\ \A c \in Call : cur = c => ~Posted(c)

CallInv ==
    /\ CallTypeOK
    /\ LoopInv
    /\ \A c \in Call : WaitInv(c) /\ GoneInv(c)

(* The loop's thread is otherwise busy, or the connection has gone.        *)
Elsewhere ==
    /\ {io, io'} \subseteq {"idle", "handler"} \/ io' = io
    /\ attached' \in BOOLEAN
    /\ UNCHANGED <<caller, syncCall, loop, cur>>

RemoteStatus == [c \in Call |-> CallStatus(c)]

LEMMA CallInvInit == CallInit => CallInv
<1> SUFFICES ASSUME CallInit PROVE CallInv
    OBVIOUS
<1>1. loop \in Seq(Call) /\ Len(loop) <= 1
    <2>1. CASE loop = <<>>
        BY <2>1
    <2>2. ASSUME NEW c \in Call, loop = <<c>>
          PROVE  loop \in Seq(Call) /\ Len(loop) <= 1
        BY <2>2
    <2> QED
        BY <2>1, <2>2 DEF CallInit
<1>2. CallTypeOK
    BY <1>1 DEF CallInit, CallTypeOK
<1>3. LoopInv
    BY <1>1, CallAssumption DEF CallInit, LoopInv
<1>4. \A c \in Call : WaitInv(c) /\ GoneInv(c)
    BY CallAssumption DEF CallInit, WaitInv, GoneInv
<1> QED
    BY <1>2, <1>3, <1>4 DEF CallInv

(* What posting and taking an event do to the set of posted calls.         *)
LEMMA PostedAfterAppend ==
    ASSUME loop \in Seq(Call), NEW c \in Call, loop' = Append(loop, c)
    PROVE  /\ loop' \in Seq(Call)
           /\ \A d \in Call : Posted(d)' <=> Posted(d) \/ d = c
BY DEF Posted

LEMMA PostedAfterTail ==
    ASSUME loop \in Seq(Call), loop # <<>>, loop' = Tail(loop),
           \A i, j \in 1 .. Len(loop) : loop[i] = loop[j] => i = j
    PROVE  /\ loop' \in Seq(Call)
           /\ Head(loop) \in Call
           /\ Posted(Head(loop))
           /\ \A i, j \in 1 .. Len(loop') : loop'[i] = loop'[j] => i = j
           /\ \A d \in Call : Posted(d)' <=> Posted(d) /\ d # Head(loop)
<1>1. /\ Len(loop) >= 1 /\ Head(loop) = loop[1]
      /\ Len(loop') = Len(loop) - 1
      /\ \A i \in 1 .. Len(loop') : loop'[i] = loop[i + 1]
    OBVIOUS
<1>2. Posted(Head(loop)) /\ Head(loop) \in Call /\ loop' \in Seq(Call)
    BY <1>1 DEF Posted
<1>3. \A i, j \in 1 .. Len(loop') : loop'[i] = loop'[j] => i = j
    BY <1>1
<1>4. ASSUME NEW d \in Call
      PROVE  Posted(d)' <=> Posted(d) /\ d # Head(loop)
    <2>1. ASSUME Posted(d)'
          PROVE  Posted(d) /\ d # Head(loop)
        BY <1>1, <2>1 DEF Posted
    <2>2. ASSUME Posted(d), d # Head(loop)
          PROVE  Posted(d)'
        <3>1. PICK i \in 1 .. Len(loop) : loop[i] = d
            BY <2>2 DEF Posted
        <3>2. i - 1 \in 1 .. Len(loop') /\ loop'[i - 1] = d
            BY <1>1, <2>2, <3>1
        <3> QED
            BY <3>2 DEF Posted
    <2> QED
        BY <2>1, <2>2
<1> QED
    BY <1>2, <1>3, <1>4

LEMMA CallInvBegins ==
    ASSUME CallInv, NEW c \in Call,
           CallRefused(c) \/ PostCall(c) \/ CallInline(c)
    PROVE  CallInv'
<1> USE DEF CallInv, CallTypeOK, Begins, Unused, CallerMoves, syncCall, loopThread
<1>1. CASE CallRefused(c) \/ CallInline(c)
    <2>1. loop' = loop /\ \A d \in Call : Posted(d)' <=> Posted(d)
        BY <1>1 DEF Posted, CallRefused, CallInline
    <2>3. CallTypeOK'
        BY <1>1, <2>1 DEF CallRefused, CallInline
    <2>4. LoopInv'
        BY <1>1, <2>1 DEF CallRefused, CallInline, LoopInv
    <2>5. \A d \in Call : (WaitInv(d) /\ GoneInv(d))'
        BY <1>1, <2>1 DEF CallRefused, CallInline, WaitInv, GoneInv
    <2> QED
        BY <2>3, <2>4, <2>5
<1>2. CASE PostCall(c)
    <2>1. \A d \in Call : Posted(d)' <=> Posted(d) \/ d = c
        BY <1>2, PostedAfterAppend DEF PostCall
    <2>2. CallTypeOK'
        BY <1>2, PostedAfterAppend DEF PostCall
    <2>3. \A i, j \in 1 .. Len(loop') : loop'[i] = loop'[j] => i = j
        BY <1>2 DEF PostCall, LoopInv, Posted
    <2>4. LoopInv'
        BY <1>2, <2>1, <2>3 DEF PostCall, LoopInv
    <2>5. \A d \in Call : (WaitInv(d) /\ GoneInv(d))'
        BY <1>2, <2>1 DEF PostCall, WaitInv, GoneInv
    <2> QED
        BY <2>2, <2>4, <2>5
<1> QED
    BY <1>1, <1>2

LEMMA CallInvCaller ==
    ASSUME CallInv, NEW c \in Call,
           \/ StartInline(c) \/ RunInline(c) \/ InlineReturns(c)
           \/ CallDone(c) \/ GiveUp(c) \/ EndCall(c)
    PROVE  CallInv'
<1> USE DEF CallInv, CallTypeOK, CallerMoves, syncCall, loopThread
<1>1. /\ attached' = attached /\ loop' = loop /\ io' = io /\ cur' = cur
      /\ started' = started
      /\ \A d \in Call : Posted(d)' <=> Posted(d)
    BY DEF StartInline, RunInline, InlineReturns, CallDone, GiveUp, EndCall, Posted
<1>2. CallTypeOK' /\ LoopInv'
    BY <1>1 DEF StartInline, RunInline, InlineReturns, CallDone, GiveUp, EndCall, LoopInv
<1>3. ASSUME NEW d \in Call
      PROVE  (WaitInv(d) /\ GoneInv(d))'
    <2>1. CASE d # c
        BY <1>1, <2>1
        DEF StartInline, RunInline, InlineReturns, CallDone, GiveUp, EndCall, WaitInv, GoneInv
    <2>2. CASE d = c
        BY <1>1, <2>2
        DEF StartInline, RunInline, InlineReturns, CallDone, GiveUp, EndCall, WaitInv, GoneInv
    <2> QED
        BY <2>1, <2>2
<1> QED
    BY <1>2, <1>3

LEMMA CallInvLoop ==
    ASSUME CallInv, NEW c \in Call, LoopStep(c)
    PROVE  CallInv'
<1> USE DEF CallInv, CallTypeOK, syncCall
<1>1. CASE StartCall(c)
    <2>1. /\ loop' \in Seq(Call) /\ Head(loop) = c /\ Posted(c)
          /\ \A i, j \in 1 .. Len(loop') : loop'[i] = loop'[j] => i = j
          /\ \A d \in Call : Posted(d)' <=> Posted(d) /\ d # c
        BY <1>1, PostedAfterTail DEF StartCall, Takes, LoopInv
    <2>2. CallTypeOK'
        BY <1>1, <2>1 DEF StartCall, Takes
    <2>3. LoopInv'
        BY <1>1, <2>1, CallAssumption DEF StartCall, Takes, LoopInv
    <2>4. \A d \in Call : (WaitInv(d) /\ GoneInv(d))'
        BY <1>1, <2>1, CallAssumption DEF StartCall, Takes, LoopInv, WaitInv, GoneInv
    <2> QED
        BY <2>2, <2>3, <2>4
<1>2. CASE RunCall(c)
    BY <1>2, CallAssumption DEF RunCall, LoopInv, WaitInv, GoneInv, Posted
<1>3. CASE FinishCall(c)
    <2>1. CallTypeOK' /\ LoopInv'
        BY <1>3, CallAssumption DEF FinishCall, LoopInv, Posted
    <2>2. \A d \in Call : Posted(d)' <=> Posted(d)
        BY <1>3 DEF FinishCall, Posted
    <2>3. \A d \in Call : (WaitInv(d) /\ GoneInv(d))'
        BY <1>3, <2>2, CallAssumption DEF FinishCall, LoopInv, WaitInv, GoneInv
    <2> QED
        BY <2>1, <2>3
<1> QED
    BY <1>1, <1>2, <1>3 DEF LoopStep

LEMMA CallInvElsewhere == CallInv /\ Elsewhere => CallInv'
BY CallAssumption
   DEF Elsewhere, CallInv, CallTypeOK, syncCall, LoopInv, WaitInv, GoneInv, Posted

-----------------------------------------------------------------------------
(* The abstract state of a call, read off the concrete one.                *)
LEMMA StatusOfCall ==
    ASSUME CallInv, NEW c \in Call
    PROVE  /\ caller[c] # "waiting" /\ caller[c] # "inline" => CallStatus(c) = caller[c]
           /\ caller[c] = "inline" => CallStatus(c) = "asked"
           /\ caller[c] = "waiting" /\ Posted(c) => CallStatus(c) = "asked"
           /\ caller[c] = "waiting" /\ done[c] => CallStatus(c) = "run"
           /\ caller[c] = "waiting" /\ cur = c => CallStatus(c) = io
BY CallAssumption DEF CallInv, CallTypeOK, LoopInv, WaitInv, GoneInv, CallStatus

LEMMA OneMoves ==
    ASSUME NEW c \in Call, NEW to,
           \A d \in Call : d # c => CallStatus(d)' = CallStatus(d),
           CallStatus(c)' = to
    PROVE  RemoteStatus' = [RemoteStatus EXCEPT ![c] = to]
BY DEF RemoteStatus

LEMMA RemoteStep ==
    ASSUME CallInv, CallInv', NEW c \in Call, CallStep(c) \/ LoopStep(c)
    PROVE  Remote!Next \/ RemoteStatus' = RemoteStatus
<1> DEFINE S == RemoteStatus
<1>a. S[c] = CallStatus(c)
    BY DEF RemoteStatus
<1>b. S = [d \in Call |-> CallStatus(d)]
    BY DEF RemoteStatus
<1>1. \A d \in Call : d # c => CallStatus(d)' = CallStatus(d)
    BY CallAssumption
    DEF CallInv, CallTypeOK, LoopInv, CallStatus, CallStep, LoopStep, CallRefused, PostCall,
        CallInline, Begins, CallerMoves, StartInline, RunInline, InlineReturns, CallDone,
        GiveUp, EndCall, StartCall, Takes, RunCall, FinishCall, syncCall, loopThread
<1>2. S' = [S EXCEPT ![c] = CallStatus(c)']
    BY <1>1, OneMoves
<1>3. CASE CallStatus(c)' = CallStatus(c)
    BY <1>2, <1>3, <1>a, <1>b
<1>4. CASE /\ <<CallStatus(c), CallStatus(c)'>> \in
                 {<<"free", "asked">>, <<"free", "no">>, <<"asked", "running">>,
                  <<"running", "run">>, <<"run", "yes">>, <<"asked", "no">>,
                  <<"yes", "free">>, <<"no", "free">>}
    <2>1. Remote!Next
        BY <1>2, <1>4, <1>a, <1>b
        DEF Remote!Next, Remote!Ask, Remote!Refuse, Remote!Start, Remote!Finish,
            Remote!AnswerYes, Remote!AnswerNo, Remote!Forget, Remote!Moves, RemoteStatus
    <2> QED
        BY <2>1
<1>5. CASE CallRefused(c) \/ PostCall(c) \/ CallInline(c)
    <2>1. CASE PostCall(c)
        <3>1. Posted(c)'
            BY <2>1, PostedAfterAppend DEF PostCall, CallInv, CallTypeOK
        <3> QED
            BY <2>1, <3>1, <1>4, StatusOfCall
            DEF PostCall, Begins, CallerMoves, CallStatus, Unused, loopThread, CallInv, CallTypeOK
    <2> QED
        BY <1>5, <2>1, <1>4
        DEF CallRefused, CallInline, Begins, CallerMoves, CallStatus, CallInv, CallTypeOK
<1>6. CASE StartInline(c) \/ RunInline(c) \/ InlineReturns(c) \/ EndCall(c)
    BY <1>6, <1>4, CallAssumption
    DEF StartInline, RunInline, InlineReturns, EndCall, CallerMoves, CallStatus,
        CallInv, CallTypeOK, GoneInv
<1>7. CASE CallDone(c)
    BY <1>7, <1>4, StatusOfCall DEF CallDone, CallerMoves, CallStatus, CallInv, CallTypeOK
<1>8. CASE GiveUp(c)
    BY <1>8, <1>4, StatusOfCall
    DEF GiveUp, CallerMoves, CallStatus, CallInv, CallTypeOK, WaitInv
<1>9. CASE StartCall(c)
    <2>1. Posted(c)
        BY <1>9, PostedAfterTail DEF StartCall, Takes, CallInv, CallTypeOK, LoopInv
    <2>2. CASE caller[c] = "waiting"
        BY <1>9, <2>1, <2>2, <1>4, StatusOfCall
        DEF StartCall, Takes, CallStatus, CallInv, CallTypeOK, WaitInv
    <2>3. CASE caller[c] \in {"free", "no"}
        BY <1>9, <2>3, <1>3 DEF StartCall, Takes, CallStatus
    <2> QED
        BY <2>1, <2>2, <2>3 DEF CallInv, CallTypeOK, GoneInv
<1>10. CASE RunCall(c)
    BY <1>10, <1>3, <1>4, StatusOfCall
    DEF RunCall, CallStatus, CallInv, CallTypeOK, GoneInv, syncCall, WaitInv
<1>11. CASE FinishCall(c)
    BY <1>11, <1>3, StatusOfCall
    DEF FinishCall, CallStatus, CallInv, CallTypeOK, GoneInv, WaitInv
<1> QED
    BY <1>5, <1>6, <1>7, <1>8, <1>9, <1>10, <1>11 DEF CallStep, LoopStep

LEMMA RemoteElsewhere ==
    ASSUME CallInv, Elsewhere
    PROVE  RemoteStatus' = RemoteStatus
<1>1. \A d \in Call : CallStatus(d)' = CallStatus(d)
    BY CallAssumption DEF Elsewhere, CallStatus, syncCall, CallInv, LoopInv, CallTypeOK
<1> QED
    BY <1>1 DEF RemoteStatus

LEMMA CallNextCases ==
    ASSUME CallTypeOK, [CallNext]_callVars
    PROVE  Elsewhere \/ \E c \in Call : CallStep(c) \/ LoopStep(c)
BY DEF CallNext, callVars, Elsewhere, HandlerBegins, HandlerReturns, Detach, CallTypeOK,
       syncCall, loopThread

LEMMA CallInvNext == CallInv /\ [CallNext]_callVars => CallInv'
<1> SUFFICES ASSUME CallInv, [CallNext]_callVars PROVE CallInv'
    OBVIOUS
<1>1. CASE Elsewhere
    BY <1>1, CallInvElsewhere
<1>2. ASSUME NEW c \in Call, CallStep(c) \/ LoopStep(c)
      PROVE  CallInv'
    BY <1>2, CallInvBegins, CallInvCaller, CallInvLoop DEF CallStep
<1> QED
    BY <1>1, <1>2, CallNextCases DEF CallInv

(* The flags of a call always agree with what its two sides know of it.    *)
THEOREM CallsConsistent == CallSpec => []CallInv
BY CallInvInit, CallInvNext, PTL DEF CallSpec

(* runOnWriterLoopSync() implements RemoteCall: whatever the timing of the *)
(* five seconds, an answer is true and final.                              *)
THEOREM CallKeepsPromise == CallSpec => ImplementsRemoteCall
<1>1. CallInit => Remote!Init
    BY DEF CallInit, Remote!Init, CallStatus
<1>2. CallInv /\ CallInv' /\ [CallNext]_callVars => [Remote!Next]_RemoteStatus
    <2> SUFFICES ASSUME CallInv, CallInv', [CallNext]_callVars
                 PROVE  Remote!Next \/ RemoteStatus' = RemoteStatus
        OBVIOUS
    <2>1. CASE Elsewhere
        BY <2>1, RemoteElsewhere
    <2>2. ASSUME NEW c \in Call, CallStep(c) \/ LoopStep(c)
          PROVE  Remote!Next \/ RemoteStatus' = RemoteStatus
        BY <2>2, RemoteStep
    <2> QED
        BY <2>1, <2>2, CallNextCases DEF CallInv
<1>3. CallInv /\ CallInv' /\ [CallNext]_callVars => [Remote!Next]_[c \in Call |-> CallStatus(c)]
    BY <1>2 DEF RemoteStatus
<1> QED
    BY <1>1, <1>3, CallsConsistent, PTL DEF CallSpec, ImplementsRemoteCall, Remote!Spec
===============================================================================
