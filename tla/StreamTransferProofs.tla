------------------------- MODULE StreamTransferProofs -------------------------
(***************************************************************************)
(* Theorems about StreamTransfer for any set of transfers, any length and  *)
(* any chunk size.                                                         *)
(***************************************************************************)
EXTENDS StreamTransfer, FiniteSetTheorems, SequenceTheorems, TLAPS

-----------------------------------------------------------------------------
(* The inductive invariant.  pump() has one frame and one mark on the      *)
(* transfer it pumps while the loop's thread is inside it, ...             *)
Driving == io \in {"pump", "write", "written"}

OneFrame ==
    /\ frames = IF Driving THEN 1 ELSE 0
    /\ \A t \in Transfer : pumping[t] => Driving /\ t = cur
    /\ Driving => pumping[cur]

(* ... and that transfer is under way and holds the callbacks.             *)
DrivenIsLive == io # "idle" => handedOff[cur] /\ state[cur] = "live" /\ onwrite = cur

(* What a transfer has done, by the progress of the task that started it.  *)
(* Ends are counted as long as no exception left a transfer's response to  *)
(* the route.                                                              *)
Ended(t, n) == thrown \/ ends[t] = n

Fresh(t) == state[t] = "none" /\ ~handedOff[t] /\ Ended(t, 0) /\ reports[t] = <<>>
Prepared(t) == state[t] = "live" /\ ~handedOff[t] /\ Ended(t, 0) /\ reports[t] = <<>>
Kept(t) == state[t] \in {"none", "destroyed"} /\ ~TakenOver(t) /\ reports[t] = <<FALSE>>
Running(t) == state[t] = "live" /\ handedOff[t] /\ Ended(t, 0) /\ reports[t] = <<>>
Failed(t) == state[t] = "finished" /\ handedOff[t] /\ Ended(t, 0) /\ reports[t] = <<FALSE>>
Served(t) ==
    /\ state[t] = "finished" /\ handedOff[t] /\ Ended(t, 1) /\ reports[t] = <<TRUE>>
    /\ sent[t] = len[t] /\ ends[t] >= 1

HandedOff(t) == Running(t) \/ Failed(t) \/ Served(t)

PhaseOf(t) ==
    /\ wpc[t] \in {"none", "opening"} => Fresh(t)
    /\ wpc[t] = "prepared" => Prepared(t)
    /\ wpc[t] = "returned" => HandedOff(t) \/ (Kept(t) /\ Ended(t, 0))
    /\ wpc[t] = "ending" => (thrown /\ HandedOff(t)) \/ (Kept(t) /\ Ended(t, 0))
    /\ wpc[t] = "done" => HandedOff(t) \/ (Kept(t) /\ (Ended(t, 0) \/ Ended(t, 1)))

Phases == \A t \in Transfer : PhaseOf(t)

(* Units read and units accepted differ by the chunk of the WriteBody()    *)
(* call that has not returned.                                             *)
AmountsOf(t) ==
    /\ remaining[t] <= len[t]
    /\ state[t] = "none" => sent[t] = 0
    /\ state[t] = "live" /\ ~(io = "write" /\ cur = t) => sent[t] = len[t] - remaining[t]

Amounts == \A t \in Transfer : AmountsOf(t)

(* The writer holds the one response of the connection that is open: its   *)
(* send() or its transfer is at work, or nobody has ended it.              *)
Open(t) ==
    \/ wpc[t] \in {"opening", "prepared"} \/ state[t] = "live"
    \/ wpc[t] # "none" /\ ends[t] = 0
OneOpen == \A t \in Transfer : Open(t) => served = t

Callbacks == onclose = onwrite /\ (onwrite # None => TakenOver(onwrite))

(* The event that begins a transfer is the last of the loop: what finished *)
(* before has posted its cleanup before, and nothing else is open.         *)
Begins(e) == e.kind \in {"start", "empty"}
EventInOrder(i) ==
    /\ loop[i].kind = "cleanup" => state[loop[i].of] = "finished"
    /\ Begins(loop[i]) => /\ i = Len(loop)
                          /\ handedOff[loop[i].of] /\ state[loop[i].of] = "live"
                          /\ onwrite # loop[i].of
    /\ loop[i].kind = "empty" => len[loop[i].of] = 0
EventsInOrder == \A i \in 1 .. Len(loop) : EventInOrder(i)

(* A transfer under way waits for its first event or drives the writer,    *)
(* with no cleanup of another one left in the loop.                        *)
Driven(t) ==
    \/ loop = <<>> /\ onwrite = t
    \/ loop # <<>> /\ Begins(loop[Len(loop)]) /\ loop[Len(loop)].of = t
LiveIsDriven == \A t \in Transfer : handedOff[t] /\ state[t] = "live" => Driven(t)

Live == {t \in Transfer : state[t] = "live"}
FailedOnce == {t \in Transfer : Started(t) /\ reports[t] = <<FALSE>>}
Counts ==
    /\ IsFiniteSet({t \in Transfer : Started(t)})
    /\ active = Cardinality(Live)
    /\ errors = Cardinality(FailedOnce)

StreamInv ==
    /\ TypeOK /\ OneFrame /\ DrivenIsLive /\ Phases /\ Amounts /\ OneOpen
    /\ Callbacks /\ EventsInOrder /\ LiveIsDriven /\ Counts

(* The handler leaves the request to the route. *)
Returns(t) == HandlerReturns(t) \/ HandlerThrows(t)

USE DEF socket, response, callbacks, ioVars, task, file, outcome, vars

-----------------------------------------------------------------------------
(* Facts about the states and the helpers. *)
LEMMA LiveIsCounted ==
    ASSUME Counts, NEW t \in Transfer, state[t] = "live"
    PROVE  active - 1 \in Nat
<1>1. IsFiniteSet(Live)
    <2>1. Live \subseteq {u \in Transfer : Started(u)}
        BY DEF Live, Started
    <2> QED
        BY <2>1, FS_Subset DEF Counts
<1>2. Cardinality(Live) \in Nat /\ Cardinality(Live) # 0
    <2>1. Live # {}
        BY DEF Live
    <2> QED
        BY <1>1, <2>1, FS_EmptySet, FS_CardinalityType
<1> QED
    BY <1>2 DEF Counts

LEMMA HandedOffPhase ==
    ASSUME TypeOK, Phases, NEW t \in Transfer, TakenOver(t)
    PROVE  HandedOff(t) /\ wpc[t] \in {"returned", "ending", "done"}
<1>1. wpc[t] \in {"none", "opening", "prepared", "returned", "ending", "done"}
    BY DEF TypeOK, TransferTypes
<1> QED
    BY <1>1 DEF Phases, PhaseOf, Fresh, Prepared, Kept, TakenOver

LEMMA RunningIsDriven ==
    ASSUME TypeOK, Phases, LiveIsDriven, OneOpen, NEW t \in Transfer,
           handedOff[t], state[t] = "live"
    PROVE  Running(t) /\ Open(t) /\ Driven(t)
BY HandedOffPhase DEF HandedOff, Running, Failed, Served, Open, LiveIsDriven, TakenOver

(* Nothing waits in the loop while a running transfer holds the callbacks. *)
LEMMA NothingWaits ==
    ASSUME StreamInv, NEW t \in Transfer, handedOff[t], state[t] = "live", onwrite = t
    PROVE  loop = <<>>
<1>1. Driven(t)
    BY RunningIsDriven DEF StreamInv
<1>2. ASSUME loop # <<>> PROVE FALSE
    <2>1. Len(loop) \in 1 .. Len(loop)
        BY <1>2, EmptySeq, LenProperties DEF StreamInv, TypeOK, TransferTypes
    <2>2. Begins(loop[Len(loop)]) /\ loop[Len(loop)].of = t
        BY <1>1, <1>2 DEF Driven
    <2>3. EventInOrder(Len(loop))
        BY <2>1 DEF StreamInv, EventsInOrder
    <2> QED
        BY <2>2, <2>3 DEF EventInOrder
<1> QED
    BY <1>2

LEMMA InsideWriter ==
    ASSUME StreamInv, io # "idle"
    PROVE  /\ cur \in Transfer /\ Running(cur) /\ Open(cur)
           /\ loop = <<>> /\ onwrite = cur /\ onclose = cur
<1>1. cur \in Transfer /\ handedOff[cur] /\ state[cur] = "live" /\ onwrite = cur /\ onclose = cur
    BY DEF StreamInv, TypeOK, TransferTypes, DrivenIsLive, Callbacks
<1>2. Running(cur) /\ Open(cur)
    BY <1>1, RunningIsDriven DEF StreamInv
<1>3. loop = <<>>
    BY <1>1, NothingWaits
<1> QED
    BY <1>1, <1>2, <1>3

(* The event that begins a transfer is the only one of the loop. *)
LEMMA BeginningTaken ==
    ASSUME StreamInv, NEW t \in Transfer, Takes("start", t) \/ Takes("empty", t)
    PROVE  /\ Running(t) /\ Open(t) /\ onwrite # t
           /\ Tail(loop) = <<>>
           /\ Takes("empty", t) => len[t] = 0
<1>1. loop \in Seq(Event) /\ loop # <<>> /\ Len(loop) \in Nat /\ 1 \in 1 .. Len(loop)
    BY EmptySeq, LenProperties DEF Takes, StreamInv, TypeOK, TransferTypes
<1>2. loop[1] = Head(loop)
    BY <1>1
<1>3. EventInOrder(1)
    BY <1>1 DEF StreamInv, EventsInOrder
<1>4. loop[1].of = t /\ Begins(loop[1]) /\ (Takes("empty", t) => loop[1].kind = "empty")
    BY <1>2 DEF Takes, EventOf, Begins
<1>5. /\ 1 = Len(loop) /\ handedOff[t] /\ state[t] = "live" /\ onwrite # t
      /\ Takes("empty", t) => len[t] = 0
    BY <1>3, <1>4 DEF EventInOrder
<1>6. Running(t) /\ Open(t)
    BY <1>5, RunningIsDriven DEF StreamInv
<1>7. Tail(loop) = <<>>
    <2>1. Tail(loop) \in Seq(Event) /\ Len(Tail(loop)) = 0
        BY <1>1, <1>5, HeadTailProperties
    <2> QED
        BY <2>1, EmptySeq
<1> QED
    BY <1>5, <1>6, <1>7

LEMMA CleanupTaken ==
    ASSUME StreamInv, NEW t \in Transfer, Takes("cleanup", t)
    PROVE  state[t] = "finished"
<1>1. loop \in Seq(Event) /\ loop # <<>> /\ Len(loop) \in Nat /\ 1 \in 1 .. Len(loop)
    BY EmptySeq, LenProperties DEF Takes, StreamInv, TypeOK, TransferTypes
<1>2. EventInOrder(1) /\ loop[1] = Head(loop)
    BY <1>1 DEF StreamInv, EventsInOrder
<1> QED
    BY <1>2 DEF EventInOrder, Takes, EventOf

LEMMA EndTypes ==
    ASSUME ends \in [Transfer -> Nat], NEW t, UNCHANGED ends \/ CallEnd(t)
    PROVE  ends' \in [Transfer -> Nat]
<1>1. t \in Transfer => ends[t] + 1 \in Nat
    OBVIOUS
<1>2. [ends EXCEPT ![t] = @ + 1] \in [Transfer -> Nat]
    BY <1>1
<1> QED
    BY <1>2 DEF CallEnd

LEMMA FinishTypes ==
    ASSUME TypeOK, Counts, NEW t \in Transfer, NEW success \in BOOLEAN,
           NEW rest \in Seq(Event), state[t] \in {"live", "finished"},
           Finish(t, success, rest)
    PROVE  /\ state' \in [Transfer -> {"none", "live", "finished", "destroyed"}]
           /\ owned' \in [Transfer -> BOOLEAN]
           /\ loop' \in Seq(Event)
           /\ active' \in Nat /\ errors' \in Nat
           /\ reports' \in [Transfer -> Seq(BOOLEAN)]
<1>1. CASE state[t] = "finished"
    BY <1>1 DEF TypeOK, TransferTypes, Finish
<1>2. CASE state[t] = "live"
    <2>1. active - 1 \in Nat
        BY <1>2, LiveIsCounted
    <2>2. EventOf("cleanup", t) \in Event
        BY DEF EventOf, Event
    <2>3. loop' \in Seq(Event)
        BY <1>2, <2>2 DEF Finish
    <2>4. Append(reports[t], success) \in Seq(BOOLEAN)
        BY DEF TypeOK, TransferTypes
    <2>5. reports' \in [Transfer -> Seq(BOOLEAN)]
        BY <1>2, <2>4 DEF TypeOK, TransferTypes, Finish, Report
    <2>6. active' \in Nat /\ errors' \in Nat
        <3>1. active' = active - 1 /\ errors' \in {errors, errors + 1}
            BY <1>2 DEF Finish, Report
        <3>2. errors \in Nat
            BY DEF TypeOK, TransferTypes
        <3> QED
            BY <2>1, <3>1, <3>2
    <2>7. state' \in [Transfer -> {"none", "live", "finished", "destroyed"}]
        <3>1. state \in [Transfer -> {"none", "live", "finished", "destroyed"}]
            BY DEF TypeOK, TransferTypes
        <3>2. state' = [state EXCEPT ![t] = "finished"]
            BY <1>2 DEF Finish
        <3> QED
            BY <3>1, <3>2
    <2>8. owned' \in [Transfer -> BOOLEAN]
        <3>1. [owned EXCEPT ![t] = FALSE] \in [Transfer -> BOOLEAN]
            BY DEF TypeOK, TransferTypes
        <3> QED
            BY <1>2, <3>1 DEF TypeOK, TransferTypes, Finish
    <2> QED
        BY <2>3, <2>5, <2>6, <2>7, <2>8
<1> QED
    BY <1>1, <1>2

-----------------------------------------------------------------------------
(* Every step keeps the types. *)
LEMMA ResponseTypesKept == StreamInv /\ [Next]_vars => ResponseTypes'
<1> SUFFICES ASSUME StreamInv, [Next]_vars PROVE ResponseTypes'
    OBVIOUS
<1>0. served \in Transfer \cup {None} /\ begun \in BOOLEAN /\ thrown \in BOOLEAN
    BY DEF StreamInv, TypeOK, ResponseTypes
<1>1. ASSUME served' = served, begun' \in {begun, TRUE}, thrown' \in BOOLEAN PROVE ResponseTypes'
    BY <1>0, <1>1 DEF ResponseTypes
<1>2. ASSUME NEW t \in Transfer, Dispatch(t) PROVE ResponseTypes'
    BY <1>0, <1>2 DEF Dispatch, ResponseTypes
<1>3. ASSUME NEW t \in Transfer, WorkerStep(t) \/ LoopStep(t) PROVE ResponseTypes'
    BY <1>0, <1>1, <1>3
    DEF WorkerStep, Returns, SendRefused, SendPrepares, SendThrows, SendPosts, HandlerReturns,
        HandlerThrows, RouteLooks, TaskEnds, LoopStep, StartDisconnected, StartEmpty,
        StartStreaming, Cleanup
<1>4. CASE PumpStep
    BY <1>0, <1>1, <1>4
    DEF PumpStep, HeadersFail, HeadersBuffered, HeadersDrained, PumpStops, PumpDisconnected,
        PumpReadsNothing, PumpFailsOn, PumpReads, WriteFails, WriteBuffered, WriteDrained,
        WriteAccepted, PumpEnds, PumpGoesOn
<1>5. CASE SocketDrains \/ SocketCloses \/ Disconnect \/ UNCHANGED vars
    BY <1>0, <1>1, <1>5 DEF SocketDrains, SocketCloses, Disconnect
<1> QED
    BY <1>2, <1>3, <1>4, <1>5 DEF Next

LEMMA TransferTypesKept == StreamInv /\ [Next]_vars => TransferTypes'
<1> SUFFICES ASSUME StreamInv, [Next]_vars PROVE TransferTypes'
    OBVIOUS
<1>0. TransferTypes /\ Counts /\ TypeOK
    BY DEF StreamInv, TypeOK
<1>a. loop \in Seq(Event) /\ ends \in [Transfer -> Nat] /\ reports \in [Transfer -> Seq(BOOLEAN)]
    BY <1>0 DEF TransferTypes
<1>b. /\ wpc \in [Transfer -> {"none", "opening", "prepared", "returned", "ending", "done"}]
      /\ handedOff \in [Transfer -> BOOLEAN]
    BY <1>0 DEF TransferTypes
<1>c. /\ io \in {"idle", "headers", "pump", "write", "written"}
      /\ frames \in Nat /\ pumping \in [Transfer -> BOOLEAN] /\ onwrite \in Transfer \cup {None}
    BY <1>0 DEF TransferTypes
<1>d. /\ len \in [Transfer -> 0 .. MaxLen] /\ remaining \in [Transfer -> 0 .. MaxLen]
      /\ avail \in [Transfer -> 0 .. MaxLen] /\ sent \in [Transfer -> 0 .. MaxLen]
    BY <1>0 DEF TransferTypes
<1>e. active \in Nat /\ errors \in Nat
    BY <1>0 DEF TransferTypes
<1>1. CASE UNCHANGED vars
    BY <1>0, <1>1 DEF TransferTypes
<1>2. ASSUME NEW t \in Transfer, Dispatch(t) \/ SendRefused(t) \/ Returns(t) \/ TaskEnds(t)
      PROVE  TransferTypes'
    <2>1. Append(reports[t], FALSE) \in Seq(BOOLEAN)
        BY <1>a
    <2>2. wpc' \in [Transfer -> {"none", "opening", "prepared", "returned", "ending", "done"}]
        BY <1>b, <1>2 DEF Dispatch, SendRefused, TaskEnds, Returns, HandlerReturns, HandlerThrows,
                          RouteLooks, WorkerMoves
    <2>3. ends' \in [Transfer -> Nat]
        <3>1. UNCHANGED ends \/ CallEnd(served)
            BY <1>2 DEF Dispatch, SendRefused, TaskEnds, Returns, HandlerReturns, HandlerThrows,
                        RouteLooks
        <3> QED
            BY <1>a, <3>1, EndTypes
    <2>4. reports' \in [Transfer -> Seq(BOOLEAN)]
        <3>1. reports' = reports \/ reports' = [reports EXCEPT ![t] = Append(@, FALSE)]
            BY <1>2 DEF Dispatch, SendRefused, TaskEnds, Returns, HandlerReturns, HandlerThrows,
                        RouteLooks
        <3> QED
            BY <1>a, <2>1, <3>1
    <2>5. /\ UNCHANGED <<socket, buffered, callbacks, loop, ioVars, handedOff, file, pumping>>
          /\ UNCHANGED <<state, owned, active, errors, sent>>
        BY <1>2 DEF Dispatch, SendRefused, TaskEnds, Returns, HandlerReturns, HandlerThrows,
                    RouteLooks
    <2> QED
        BY <1>0, <2>2, <2>3, <2>4, <2>5 DEF TransferTypes
<1>3. ASSUME NEW t \in Transfer, SendPrepares(t) PROVE TransferTypes'
    <2>1. PICK n \in 0 .. MaxLen : \E a \in 0 .. n :
            /\ len' = [len EXCEPT ![t] = n]
            /\ remaining' = [remaining EXCEPT ![t] = n]
            /\ avail' = [avail EXCEPT ![t] = a]
        BY <1>3 DEF SendPrepares
    <2>2. PICK a \in 0 .. n :
            /\ len' = [len EXCEPT ![t] = n]
            /\ remaining' = [remaining EXCEPT ![t] = n]
            /\ avail' = [avail EXCEPT ![t] = a]
        BY <2>1
    <2>3. a \in 0 .. MaxLen
        BY LengthAssumption
    <2>4. /\ len' \in [Transfer -> 0 .. MaxLen]
          /\ remaining' \in [Transfer -> 0 .. MaxLen]
          /\ avail' \in [Transfer -> 0 .. MaxLen]
        BY <1>d, <2>2, <2>3
    <2>5. wpc' \in [Transfer -> {"none", "opening", "prepared", "returned", "ending", "done"}]
        BY <1>b, <1>3 DEF SendPrepares, WorkerMoves
    <2>6. /\ state' \in [Transfer -> {"none", "live", "finished", "destroyed"}]
          /\ owned' \in [Transfer -> BOOLEAN]
        BY <1>0, <1>3 DEF TransferTypes, SendPrepares
    <2>7. active' \in Nat
        BY <1>e, <1>3 DEF SendPrepares
    <2> QED
        BY <1>0, <1>3, <2>4, <2>5, <2>6, <2>7 DEF TransferTypes, SendPrepares
<1>4. ASSUME NEW t \in Transfer, SendThrows(t) PROVE TransferTypes'
    <2>1. state[t] = "live"
        BY <1>4 DEF SendThrows, WorkerMoves, StreamInv, Phases, PhaseOf, Prepared
    <2>2. active - 1 \in Nat /\ Append(reports[t], FALSE) \in Seq(BOOLEAN)
        BY <1>0, <1>a, <2>1, LiveIsCounted
    <2>3. wpc' \in [Transfer -> {"none", "opening", "prepared", "returned", "ending", "done"}]
        BY <1>b, <1>4 DEF SendThrows, WorkerMoves
    <2>4. reports' \in [Transfer -> Seq(BOOLEAN)] /\ active' \in Nat /\ errors' \in Nat
        BY <1>a, <1>e, <1>4, <2>2 DEF SendThrows, Report
    <2>5. /\ state' \in [Transfer -> {"none", "live", "finished", "destroyed"}]
          /\ owned' \in [Transfer -> BOOLEAN]
        BY <1>0, <1>4 DEF TransferTypes, SendThrows
    <2>6. handedOff' \in [Transfer -> BOOLEAN]
        BY <1>b, <1>4 DEF SendThrows
    <2> QED
        BY <1>0, <1>4, <2>3, <2>4, <2>5, <2>6 DEF TransferTypes, SendThrows
<1>5. ASSUME NEW t \in Transfer, SendPosts(t) PROVE TransferTypes'
    <2>1. state[t] = "live"
        BY <1>5 DEF SendPosts, WorkerMoves, StreamInv, Phases, PhaseOf, Prepared
    <2>2. /\ wpc' \in [Transfer -> {"none", "opening", "prepared", "returned", "ending", "done"}]
          /\ handedOff' \in [Transfer -> BOOLEAN]
        BY <1>b, <1>5 DEF SendPosts, WorkerMoves
    <2>3. CASE attached
        <3>1. EventOf("empty", t) \in Event /\ EventOf("start", t) \in Event
            BY DEF EventOf, Event
        <3>2. loop' = Append(loop, EventOf("empty", t)) \/ loop' = Append(loop, EventOf("start", t))
            BY <1>5, <2>3 DEF SendPosts
        <3>3. loop' \in Seq(Event)
            <4>1. ASSUME NEW e \in Event PROVE Append(loop, e) \in Seq(Event)
                BY <1>a
            <4> QED
                BY <3>1, <3>2, <4>1
        <3> QED
            BY <1>0, <1>5, <2>2, <2>3, <3>3 DEF TransferTypes, SendPosts
    <2>4. CASE ~attached
        <3>1. Finish(t, FALSE, loop)
            BY <1>5, <2>4 DEF SendPosts
        <3>2. /\ state' \in [Transfer -> {"none", "live", "finished", "destroyed"}]
              /\ owned' \in [Transfer -> BOOLEAN] /\ loop' \in Seq(Event)
              /\ active' \in Nat /\ errors' \in Nat
              /\ reports' \in [Transfer -> Seq(BOOLEAN)]
            BY <1>0, <1>a, <2>1, <3>1, FinishTypes
        <3> QED
            BY <1>0, <1>5, <2>2, <3>2 DEF TransferTypes, SendPosts
    <2> QED
        BY <2>3, <2>4
<1>6. ASSUME NEW t \in Transfer, StartDisconnected(t) \/ StartEmpty(t) PROVE TransferTypes'
    <2>1. state[t] = "live" /\ Tail(loop) = <<>>
        <3>1. Takes("start", t) \/ Takes("empty", t)
            BY <1>6 DEF StartDisconnected, StartEmpty
        <3> QED
            BY <3>1, BeginningTaken DEF Running
    <2>2. PICK success \in BOOLEAN : Finish(t, success, Tail(loop))
        BY <1>6 DEF StartDisconnected, StartEmpty
    <2>3. /\ state' \in [Transfer -> {"none", "live", "finished", "destroyed"}]
          /\ owned' \in [Transfer -> BOOLEAN] /\ loop' \in Seq(Event)
          /\ active' \in Nat /\ errors' \in Nat
          /\ reports' \in [Transfer -> Seq(BOOLEAN)]
        <3>1. Tail(loop) \in Seq(Event)
            BY <2>1, EmptySeq
        <3> QED
            BY <1>0, <2>1, <2>2, <3>1, FinishTypes
    <2>4. ends' \in [Transfer -> Nat]
        BY <1>a, <1>6, EndTypes DEF StartDisconnected, StartEmpty
    <2> QED
        BY <1>0, <1>6, <2>3, <2>4 DEF TransferTypes, StartDisconnected, StartEmpty
<1>7. ASSUME NEW t \in Transfer, StartStreaming(t) \/ Cleanup(t) PROVE TransferTypes'
    <2>1. Tail(loop) \in Seq(Event)
        BY <1>a, <1>7, HeadTailProperties DEF StartStreaming, Cleanup, Takes
    <2> QED
        BY <1>0, <1>7, <2>1 DEF TransferTypes, StartStreaming, Cleanup
<1>8. CASE HeadersBuffered \/ HeadersDrained \/ PumpStops \/ PumpGoesOn \/ SocketDrains
    <2>1. frames' \in Nat
        <3>1. io = "pump" => frames = 1
            BY DEF StreamInv, OneFrame, Driving
        <3> QED
            BY <1>c, <1>8, <3>1
            DEF HeadersBuffered, HeadersDrained, PumpStops, PumpGoesOn, SocketDrains, EnterPump,
                LeavePump
    <2>2. pumping' \in [Transfer -> BOOLEAN] /\ cur' \in Transfer \cup {None}
        BY <1>0, <1>8
        DEF TransferTypes, HeadersBuffered, HeadersDrained, PumpStops, PumpGoesOn, SocketDrains,
            EnterPump, LeavePump
    <2>3. /\ io' \in {"idle", "headers", "pump", "write", "written"}
          /\ io' # "idle" => cur' \in Transfer
        BY <1>0, <1>8
        DEF TransferTypes, HeadersBuffered, HeadersDrained, PumpStops, PumpGoesOn, SocketDrains,
            EnterPump, LeavePump
    <2> QED
        BY <1>0, <1>8, <2>1, <2>2, <2>3
        DEF TransferTypes, HeadersBuffered, HeadersDrained, PumpStops, PumpGoesOn, SocketDrains
<1>9. CASE HeadersFail \/ PumpDisconnected \/ PumpReadsNothing \/ WriteFails \/ PumpEnds
    <2>1. cur \in Transfer /\ state[cur] = "live"
        BY <1>9, InsideWriter
        DEF HeadersFail, PumpDisconnected, PumpReadsNothing, WriteFails, PumpEnds, PumpFailsOn,
            Running
    <2>2. PICK success \in BOOLEAN : Finish(cur, success, loop)
        BY <1>9 DEF HeadersFail, PumpDisconnected, PumpReadsNothing, WriteFails, PumpEnds,
                    PumpFailsOn
    <2>3. /\ state' \in [Transfer -> {"none", "live", "finished", "destroyed"}]
          /\ owned' \in [Transfer -> BOOLEAN] /\ loop' \in Seq(Event)
          /\ active' \in Nat /\ errors' \in Nat
          /\ reports' \in [Transfer -> Seq(BOOLEAN)]
        BY <1>0, <1>a, <2>1, <2>2, FinishTypes
    <2>4. ends' \in [Transfer -> Nat]
        <3>1. UNCHANGED ends \/ CallEnd(cur)
            BY <1>9 DEF HeadersFail, PumpDisconnected, PumpReadsNothing, WriteFails, PumpEnds,
                        PumpFailsOn
        <3> QED
            BY <1>a, <2>1, <3>1, EndTypes
    <2>5. frames' \in Nat
        <3>1. frames' = frames \/ (io \in {"pump", "write", "written"} /\ frames' = frames - 1)
            BY <1>9
            DEF HeadersFail, PumpDisconnected, PumpReadsNothing, WriteFails, PumpEnds,
                PumpFailsOn, LeavePump
        <3>2. io \in {"pump", "write", "written"} => frames = 1
            BY DEF StreamInv, OneFrame, Driving
        <3> QED
            BY <1>c, <3>1, <3>2
    <2>6. cur' = cur /\ io' \in {"idle", "written"} /\ pumping' \in [Transfer -> BOOLEAN]
        BY <1>c, <1>9
        DEF HeadersFail, PumpDisconnected, PumpReadsNothing, WriteFails, PumpEnds, PumpFailsOn,
            LeavePump
    <2>7. UNCHANGED <<socket, buffered, callbacks, task, file, sent>>
        BY <1>9 DEF HeadersFail, PumpDisconnected, PumpReadsNothing, WriteFails, PumpEnds,
                    PumpFailsOn
    <2> QED
        BY <1>0, <2>1, <2>3, <2>4, <2>5, <2>6, <2>7 DEF TransferTypes
<1>10. CASE PumpReads
    <2>1. cur \in Transfer
        BY <1>10, InsideWriter DEF PumpReads
    <2>2. Got \in Nat /\ Got <= remaining[cur] /\ Got <= avail[cur]
        BY <1>d, <2>1, LengthAssumption, ChunkAssumption DEF Got, Least
    <2>3. remaining[cur] - Got \in 0 .. MaxLen /\ avail[cur] - Got \in 0 .. MaxLen
        BY <1>d, <2>1, <2>2, LengthAssumption
    <2>4. remaining' \in [Transfer -> 0 .. MaxLen] /\ avail' \in [Transfer -> 0 .. MaxLen]
        BY <1>d, <1>10, <2>3 DEF PumpReads
    <2> QED
        BY <1>0, <1>10, <2>1, <2>4 DEF TransferTypes, PumpReads
<1>11. CASE WriteBuffered \/ WriteDrained
    <2>1. cur \in Transfer /\ io = "write"
        BY <1>11, InsideWriter DEF WriteBuffered, WriteDrained, WriteAccepted
    <2>2. len[cur] - remaining[cur] \in 0 .. MaxLen
        <3>1. remaining[cur] <= len[cur]
            BY <2>1 DEF StreamInv, Amounts, AmountsOf
        <3> QED
            BY <1>d, <2>1, <3>1, LengthAssumption
    <2>3. sent' \in [Transfer -> 0 .. MaxLen]
        BY <1>d, <1>11, <2>1, <2>2 DEF WriteBuffered, WriteDrained, WriteAccepted
    <2>4. /\ cur' = cur /\ io' \in {"pump", "written"}
          /\ frames' \in {frames, frames + 1}
          /\ pumping' \in {pumping, [pumping EXCEPT ![cur] = TRUE]}
        BY <1>11 DEF WriteBuffered, WriteDrained, EnterPump
    <2>6. frames' \in Nat /\ pumping' \in [Transfer -> BOOLEAN]
        <3>1. frames + 1 \in Nat
            BY <1>c
        <3>2. [pumping EXCEPT ![cur] = TRUE] \in [Transfer -> BOOLEAN]
            BY <1>c
        <3> QED
            BY <1>c, <2>4, <3>1, <3>2
    <2>5. buffered' \in BOOLEAN
        BY <1>11 DEF WriteBuffered, WriteDrained
    <2> QED
        BY <1>0, <1>11, <2>1, <2>3, <2>4, <2>5, <2>6
        DEF TransferTypes, WriteBuffered, WriteDrained, WriteAccepted
<1>12. CASE SocketCloses
    <2>1. CASE onclose = None
        BY <1>0, <1>12, <2>1 DEF TransferTypes, SocketCloses
    <2>2. CASE onclose # None
        <3>1. onclose \in Transfer /\ state[onclose] \in {"live", "finished"}
            <4>1. onclose \in Transfer /\ TakenOver(onclose)
                BY <1>0, <2>2 DEF StreamInv, TransferTypes, Callbacks
            <4> QED
                BY <1>0, <4>1, HandedOffPhase DEF StreamInv, HandedOff, Running, Failed, Served
        <3>2. Finish(onclose, FALSE, loop)
            BY <1>12, <2>2 DEF SocketCloses
        <3>3. /\ state' \in [Transfer -> {"none", "live", "finished", "destroyed"}]
              /\ owned' \in [Transfer -> BOOLEAN] /\ loop' \in Seq(Event)
              /\ active' \in Nat /\ errors' \in Nat
              /\ reports' \in [Transfer -> Seq(BOOLEAN)]
            BY <1>0, <1>a, <3>1, <3>2, FinishTypes
        <3> QED
            BY <1>0, <1>12, <3>3 DEF TransferTypes, SocketCloses
    <2> QED
        BY <2>1, <2>2
<1>13. CASE Disconnect
    BY <1>0, <1>13 DEF TransferTypes, Disconnect
<1> QED
    BY <1>1, <1>2, <1>3, <1>4, <1>5, <1>6, <1>7, <1>8, <1>9, <1>10, <1>11, <1>12, <1>13
    DEF Next, WorkerStep, Returns, LoopStep, PumpStep

LEMMA StreamTypes == StreamInv /\ [Next]_vars => TypeOK'
BY ResponseTypesKept, TransferTypesKept DEF TypeOK

-----------------------------------------------------------------------------
(* What a step does to the transfers: nothing, a step of a task, the first *)
(* or last event of a transfer, or the end of the one that is running.     *)
Quiet ==
    /\ UNCHANGED <<callbacks, loop, task, outcome, len, ends, served, thrown>>
    /\ \A t \in Transfer : state[t] # "live" => sent'[t] = sent[t]

Completes(t, success) ==
    /\ Running(t)
    /\ state' = [state EXCEPT ![t] = "finished"]
    /\ Report(t, success)
    /\ loop' = <<>> \/ loop' = <<EventOf("cleanup", t)>>
    /\ success => CallEnd(t) /\ sent[t] = len[t]
    /\ ~success => UNCHANGED ends
    /\ UNCHANGED <<callbacks, task, len, sent, served, thrown>>

StepOf(t) ==
    \/ Dispatch(t) \/ SendRefused(t) \/ SendPrepares(t) \/ SendThrows(t) \/ SendPosts(t)
    \/ Returns(t) \/ TaskEnds(t) \/ StartStreaming(t) \/ Cleanup(t)
    \/ Completes(t, TRUE) \/ Completes(t, FALSE)

LEMMA FinishCompletes ==
    ASSUME NEW t \in Transfer, NEW success \in BOOLEAN, Running(t),
           Finish(t, success, <<>>),
           success => CallEnd(t) /\ sent[t] = len[t], ~success => UNCHANGED ends,
           UNCHANGED <<callbacks, task, len, sent, served, thrown>>
    PROVE  Completes(t, success)
<1>1. state' = [state EXCEPT ![t] = "finished"] /\ Report(t, success)
    BY DEF Finish, Running
<1>2. loop' = <<>> \/ loop' = Append(<<>>, EventOf("cleanup", t))
    BY DEF Finish, Running
<1>3. Append(<<>>, EventOf("cleanup", t)) = <<EventOf("cleanup", t)>>
    OBVIOUS
<1> QED
    BY <1>1, <1>2, <1>3 DEF Completes

LEMMA Steps == StreamInv /\ [Next]_vars => Quiet \/ \E t \in Transfer : StepOf(t)
<1> SUFFICES ASSUME StreamInv, [Next]_vars PROVE Quiet \/ \E t \in Transfer : StepOf(t)
    OBVIOUS
<1>1. ASSUME NEW t \in Transfer, WorkerStep(t) \/ Dispatch(t) \/ StartStreaming(t) \/ Cleanup(t)
      PROVE  StepOf(t)
    BY <1>1 DEF StepOf, WorkerStep, Returns
<1>2. ASSUME NEW t \in Transfer, StartDisconnected(t) PROVE StepOf(t)
    <2>1. Running(t) /\ Tail(loop) = <<>>
        <3>1. Takes("start", t) \/ Takes("empty", t)
            BY <1>2 DEF StartDisconnected
        <3> QED
            BY <3>1, BeginningTaken
    <2>2. /\ Finish(t, FALSE, <<>>) /\ UNCHANGED ends
          /\ UNCHANGED <<callbacks, task, len, sent, served, thrown>>
        BY <1>2, <2>1 DEF StartDisconnected
    <2> QED
        BY <2>1, <2>2, FinishCompletes DEF StepOf
<1>3. ASSUME NEW t \in Transfer, StartEmpty(t) PROVE StepOf(t)
    <2>1. Running(t) /\ Tail(loop) = <<>> /\ len[t] = 0
        <3>1. Takes("empty", t)
            BY <1>3 DEF StartEmpty
        <3> QED
            BY <3>1, BeginningTaken
    <2>2. sent[t] = len[t]
        <3>1. io = "idle"
            BY <1>3 DEF StartEmpty, Takes
        <3>2. sent[t] = len[t] - remaining[t] /\ remaining[t] <= len[t]
            BY <2>1, <3>1 DEF StreamInv, Amounts, AmountsOf, Running
        <3>3. remaining[t] \in Nat
            BY LengthAssumption DEF StreamInv, TypeOK, TransferTypes
        <3> QED
            BY <2>1, <3>2, <3>3
    <2>3. /\ Finish(t, TRUE, <<>>) /\ CallEnd(t)
          /\ UNCHANGED <<callbacks, task, len, sent, served, thrown>>
        BY <1>3, <2>1 DEF StartEmpty
    <2> QED
        BY <2>1, <2>2, <2>3, FinishCompletes DEF StepOf
<1>4. CASE HeadersFail \/ PumpDisconnected \/ PumpReadsNothing \/ WriteFails
    <2>1. cur \in Transfer /\ Running(cur) /\ loop = <<>>
        BY <1>4, InsideWriter
        DEF HeadersFail, PumpDisconnected, PumpReadsNothing, WriteFails, PumpFailsOn
    <2>2. /\ Finish(cur, FALSE, loop) /\ UNCHANGED ends
          /\ UNCHANGED <<callbacks, task, len, sent, served, thrown>>
        BY <1>4 DEF HeadersFail, PumpDisconnected, PumpReadsNothing, WriteFails, PumpFailsOn
    <2>3. Completes(cur, FALSE)
        BY <2>1, <2>2, FinishCompletes
    <2> QED
        BY <2>1, <2>3 DEF StepOf
<1>5. CASE PumpEnds
    <2>1. cur \in Transfer /\ Running(cur) /\ loop = <<>> /\ io = "written"
        BY <1>5, InsideWriter DEF PumpEnds
    <2>2. sent[cur] = len[cur]
        <3>1. sent[cur] = len[cur] - remaining[cur]
            BY <2>1 DEF StreamInv, Amounts, AmountsOf, Running
        <3>2. remaining[cur] = 0
            BY <1>5, <2>1, LengthAssumption DEF PumpEnds, StreamInv, TypeOK, TransferTypes
        <3>3. len[cur] \in Nat
            BY <2>1, LengthAssumption DEF StreamInv, TypeOK, TransferTypes
        <3> QED
            BY <3>1, <3>2, <3>3
    <2>3. /\ Finish(cur, TRUE, loop) /\ CallEnd(cur)
          /\ UNCHANGED <<callbacks, task, len, sent, served, thrown>>
        BY <1>5 DEF PumpEnds
    <2>4. Completes(cur, TRUE)
        BY <2>1, <2>2, <2>3, FinishCompletes
    <2> QED
        BY <2>1, <2>4 DEF StepOf
<1>6. CASE HeadersBuffered \/ HeadersDrained \/ PumpStops \/ PumpReads \/ PumpGoesOn
            \/ SocketDrains \/ Disconnect
    BY <1>6 DEF HeadersBuffered, HeadersDrained, PumpStops, PumpReads, PumpGoesOn,
                SocketDrains, Disconnect, Quiet
<1>7. CASE WriteBuffered \/ WriteDrained
    <2>1. cur \in Transfer /\ state[cur] = "live"
        BY <1>7, InsideWriter DEF WriteBuffered, WriteDrained, WriteAccepted, Running
    <2>2. \A t \in Transfer : state[t] # "live" => sent'[t] = sent[t]
        BY <1>7, <2>1 DEF WriteBuffered, WriteDrained, WriteAccepted, StreamInv, TypeOK,
                          TransferTypes
    <2> QED
        BY <1>7, <2>2 DEF WriteBuffered, WriteDrained, WriteAccepted, Quiet
<1>8. CASE SocketCloses
    <2>1. CASE onclose = None
        BY <1>8, <2>1 DEF SocketCloses, Quiet
    <2>2. CASE onclose # None
        <3>1. /\ onclose \in Transfer /\ TakenOver(onclose) /\ handedOff[onclose]
              /\ onwrite = onclose
            BY <2>2 DEF StreamInv, TypeOK, TransferTypes, Callbacks, TakenOver
        <3>2. Finish(onclose, FALSE, loop)
            BY <1>8, <2>2 DEF SocketCloses
        <3>3. CASE state[onclose] = "finished"
            BY <1>8, <3>2, <3>3 DEF SocketCloses, Finish, Quiet
        <3>4. CASE state[onclose] # "finished"
            <4>1. state[onclose] = "live"
                BY <3>1, <3>4, HandedOffPhase DEF StreamInv, HandedOff, Running, Failed, Served
            <4>2. Running(onclose)
                BY <3>1, <4>1, RunningIsDriven DEF StreamInv
            <4>3. loop = <<>>
                BY <3>1, <4>1, NothingWaits
            <4>4. Finish(onclose, FALSE, <<>>)
                BY <3>2, <4>3
            <4>5. UNCHANGED ends /\ UNCHANGED <<callbacks, task, len, sent, served, thrown>>
                BY <1>8 DEF SocketCloses
            <4>6. Completes(onclose, FALSE)
                BY <3>1, <4>2, <4>4, <4>5, FinishCompletes
            <4> QED
                BY <3>1, <4>6 DEF StepOf
        <3> QED
            BY <3>3, <3>4
    <2> QED
        BY <2>1, <2>2
<1>9. CASE UNCHANGED vars
    BY <1>9 DEF Quiet
<1> QED
    BY <1>1, <1>2, <1>3, <1>4, <1>5, <1>6, <1>7, <1>8, <1>9 DEF Next, LoopStep, PumpStep

-----------------------------------------------------------------------------
(* The parts of the invariant, one lemma each. *)
LEMMA PhasesKept == StreamInv /\ [Next]_vars => Phases'
<1> SUFFICES ASSUME StreamInv, [Next]_vars, NEW u \in Transfer PROVE PhaseOf(u)'
    BY DEF Phases
<1>0. PhaseOf(u)
    BY DEF StreamInv, Phases
<1>t. /\ wpc \in [Transfer -> {"none", "opening", "prepared", "returned", "ending", "done"}]
      /\ handedOff \in [Transfer -> BOOLEAN] /\ ends \in [Transfer -> Nat]
      /\ state \in [Transfer -> {"none", "live", "finished", "destroyed"}]
      /\ reports \in [Transfer -> Seq(BOOLEAN)]
      /\ len \in [Transfer -> 0 .. MaxLen]
    BY DEF StreamInv, TypeOK, TransferTypes
<1> USE DEF PhaseOf, HandedOff, Fresh, Prepared, Kept, Running, Failed, Served, Ended, TakenOver
<1>1. CASE Quiet
    BY <1>0, <1>1 DEF Quiet
<1>2. ASSUME NEW t \in Transfer, StepOf(t), ~TaskEnds(t), t # u PROVE PhaseOf(u)'
    <2>1. /\ wpc'[u] = wpc[u] /\ handedOff'[u] = handedOff[u] /\ state'[u] = state[u]
          /\ ends'[u] = ends[u] /\ reports'[u] = reports[u]
        BY <1>t, <1>2
        DEF StepOf, Dispatch, SendRefused, SendPrepares, SendThrows, SendPosts, Returns,
            HandlerReturns, HandlerThrows, RouteLooks, StartStreaming, Cleanup, Completes,
            WorkerMoves, Report, CallEnd, Finish
    <2>2. sent'[u] = sent[u] /\ len'[u] = len[u]
        BY <1>t, <1>2
        DEF StepOf, Dispatch, SendRefused, SendPrepares, SendThrows, SendPosts, Returns,
            HandlerReturns, HandlerThrows, RouteLooks, StartStreaming, Cleanup, Completes
    <2>3. thrown => thrown'
        <3>1. CASE Returns(t)
            BY <3>1 DEF Returns, HandlerReturns, HandlerThrows
        <3>2. CASE ~Returns(t)
            BY <1>2, <3>2
            DEF StepOf, Dispatch, SendRefused, SendPrepares, SendThrows, SendPosts,
                StartStreaming, Cleanup, Completes, response
        <3> QED
            BY <3>1, <3>2
    <2> QED
        BY <1>0, <2>1, <2>2, <2>3
<1>3. ASSUME Dispatch(u) PROVE PhaseOf(u)'
    <2>1. wpc[u] = "none" /\ wpc'[u] = "opening"
        BY <1>t, <1>3 DEF Dispatch, WorkerMoves
    <2> QED
        BY <1>0, <1>3, <2>1 DEF Dispatch
<1>4. ASSUME SendRefused(u) PROVE PhaseOf(u)'
    <2>1. wpc[u] = "opening" /\ wpc'[u] = "returned"
        BY <1>t, <1>4 DEF SendRefused, WorkerMoves
    <2>2. reports'[u] = Append(<<>>, FALSE)
        BY <1>0, <1>t, <1>4, <2>1 DEF SendRefused
    <2>3. Append(<<>>, FALSE) = <<FALSE>>
        OBVIOUS
    <2> QED
        BY <1>0, <1>4, <2>1, <2>2, <2>3 DEF SendRefused
<1>5. ASSUME SendPrepares(u) PROVE PhaseOf(u)'
    <2>1. wpc[u] = "opening" /\ wpc'[u] = "prepared" /\ state'[u] = "live"
        BY <1>t, <1>5 DEF SendPrepares, WorkerMoves
    <2> QED
        BY <1>0, <1>5, <2>1 DEF SendPrepares
<1>6. ASSUME SendThrows(u) PROVE PhaseOf(u)'
    <2>1. wpc[u] = "prepared" /\ wpc'[u] = "returned" /\ state'[u] = "destroyed"
        BY <1>t, <1>6 DEF SendThrows, WorkerMoves
    <2>2. reports'[u] = Append(<<>>, FALSE)
        BY <1>0, <1>t, <1>6, <2>1 DEF SendThrows, Report
    <2>3. Append(<<>>, FALSE) = <<FALSE>>
        OBVIOUS
    <2> QED
        BY <1>0, <1>6, <2>1, <2>2, <2>3 DEF SendThrows
<1>7. ASSUME SendPosts(u) PROVE PhaseOf(u)'
    <2>1. /\ wpc[u] = "prepared" /\ wpc'[u] = "returned" /\ handedOff'[u] = TRUE
          /\ ends'[u] = ends[u] /\ thrown' = thrown
        BY <1>t, <1>7 DEF SendPosts, WorkerMoves
    <2>2. CASE attached
        <3>1. Prepared(u)
            BY <1>0, <2>1
        <3>2. UNCHANGED <<state, reports>>
            BY <1>7, <2>2 DEF SendPosts
        <3>3. Running(u)'
            BY <2>1, <3>1, <3>2
        <3> QED
            BY <2>1, <3>3
    <2>3. CASE ~attached
        <3>1. Finish(u, FALSE, loop) /\ state[u] = "live"
            BY <1>0, <1>7, <2>1, <2>3 DEF SendPosts
        <3>2. state'[u] = "finished" /\ reports'[u] = Append(<<>>, FALSE)
            BY <1>0, <1>t, <2>1, <3>1 DEF Finish, Report
        <3>3. Append(<<>>, FALSE) = <<FALSE>>
            OBVIOUS
        <3> QED
            BY <1>0, <2>1, <3>2, <3>3
    <2> QED
        BY <2>2, <2>3
<1>8. ASSUME Returns(u) PROVE PhaseOf(u)'
    <2>1. wpc[u] = "returned" /\ wpc'[u] \in {"ending", "done"}
        BY <1>t, <1>8 DEF Returns, HandlerReturns, HandlerThrows, RouteLooks, WorkerMoves
    <2>2. UNCHANGED <<handedOff, state, reports, sent, len, ends>>
        BY <1>8 DEF Returns, HandlerReturns, HandlerThrows, RouteLooks, file, outcome
    <2>6. thrown => thrown'
        BY <1>8 DEF Returns, HandlerReturns, HandlerThrows
    <2>3. wpc'[u] = "ending" /\ HandedOff(u) => thrown'
        <3>1. HandedOff(u) => handedOff[u] /\ TakenOver(u)
            OBVIOUS
        <3>2. CASE HandlerReturns(u)
            BY <1>t, <3>1, <3>2 DEF HandlerReturns, RouteLooks, WorkerMoves
        <3>3. CASE HandlerThrows(u)
            BY <1>t, <3>1, <3>3 DEF HandlerThrows, RouteLooks, WorkerMoves
        <3> QED
            BY <1>8, <3>2, <3>3 DEF Returns
    <2>4. HandedOff(u) => HandedOff(u)'
        BY <2>2, <2>6
    <2>5. Kept(u) /\ Ended(u, 0) => Kept(u)' /\ Ended(u, 0)'
        BY <2>2, <2>6
    <2> QED
        BY <1>0, <2>1, <2>3, <2>4, <2>5
<1>11. ASSUME NEW t \in Transfer, TaskEnds(t) PROVE PhaseOf(u)'
    <2>1. /\ wpc[t] = "ending" /\ wpc'[t] = "done"
          /\ u # t => wpc'[u] = wpc[u]
        BY <1>t, <1>11 DEF TaskEnds, WorkerMoves
    <2>2. UNCHANGED <<handedOff, state, reports, sent, len, thrown>>
        BY <1>11 DEF TaskEnds
    <2>3. ends'[u] = (IF served = u THEN ends[u] + 1 ELSE ends[u]) /\ ends[u] \in Nat
        BY <1>t, <1>11 DEF TaskEnds, CallEnd
    <2>4. ends'[u] >= ends[u]
        BY <2>3
    <2>5. CASE thrown'
        <3>1. thrown
            BY <2>2, <2>5
        <3>2. /\ Running(u) => Running(u)'
              /\ Failed(u) => Failed(u)'
              /\ Fresh(u) => Fresh(u)'
              /\ Prepared(u) => Prepared(u)'
              /\ Kept(u) => Kept(u)'
            BY <2>2, <2>5
        <3>3. Served(u) => Served(u)'
            <4>1. ends[u] >= 1 => ends'[u] >= 1
                BY <2>3
            <4> QED
                BY <2>2, <2>5, <4>1
        <3>4. HandedOff(u) => HandedOff(u)'
            BY <3>2, <3>3 DEF HandedOff
        <3>5. CASE u = t
            BY <1>0, <2>1, <2>5, <3>2, <3>4, <3>5
        <3>6. CASE u # t
            BY <1>0, <2>1, <2>5, <3>1, <3>2, <3>4, <3>6
        <3> QED
            BY <3>5, <3>6
    <2>6. CASE ~thrown'
        <3>1. ~thrown
            BY <2>2, <2>6
        <3>2. Kept(t) /\ ends[t] = 0
            <4>1. PhaseOf(t)
                BY DEF StreamInv, Phases
            <4> QED
                BY <2>1, <3>1, <4>1
        <3>3. served = t
            BY <2>1, <3>2 DEF StreamInv, OneOpen, Open
        <3>4. CASE u = t
            <4>1. ends[u] = 0 /\ served = u
                BY <3>2, <3>3, <3>4
            <4>2. ends'[u] = 1
                BY <2>3, <4>1
            <4>3. Kept(u)'
                BY <2>2, <3>2, <3>4
            <4> QED
                BY <2>1, <3>4, <4>2, <4>3
        <3>5. CASE u # t
            BY <1>0, <2>1, <2>2, <2>3, <3>1, <3>3, <3>5
        <3> QED
            BY <3>4, <3>5
    <2> QED
        BY <2>5, <2>6
<1>9. ASSUME StartStreaming(u) \/ Cleanup(u) PROVE PhaseOf(u)'
    <2>1. UNCHANGED <<wpc, handedOff, state, reports, sent, len, ends, thrown>>
        BY <1>9 DEF StartStreaming, Cleanup
    <2> QED
        BY <1>0, <2>1
<1>10. ASSUME NEW success \in BOOLEAN, Completes(u, success) PROVE PhaseOf(u)'
    <2>1. /\ state'[u] = "finished" /\ handedOff'[u] = handedOff[u] /\ handedOff[u]
          /\ wpc'[u] = wpc[u] /\ sent'[u] = sent[u] /\ len'[u] = len[u]
          /\ Ended(u, 0) /\ ends[u] \in Nat /\ thrown' = thrown
        BY <1>t, <1>10 DEF Completes
    <2>2. reports'[u] = Append(<<>>, success) /\ Append(<<>>, success) = <<success>>
        BY <1>t, <1>10 DEF Completes, Report
    <2>3. HandedOff(u)'
        <3>1. CASE success
            <4>1. ends'[u] = ends[u] + 1 /\ sent[u] = len[u]
                BY <1>t, <1>10, <2>1, <3>1 DEF Completes, CallEnd
            <4>2. ends'[u] >= 1 /\ (ends[u] = 0 => ends'[u] = 1)
                BY <2>1, <4>1
            <4>3. reports'[u] = <<TRUE>>
                BY <2>2, <3>1
            <4> QED
                BY <2>1, <4>1, <4>2, <4>3
        <3>2. CASE ~success
            <4>1. ends'[u] = ends[u]
                BY <1>10, <2>1, <3>2 DEF Completes
            <4>2. reports'[u] = <<FALSE>>
                BY <2>2, <3>2
            <4> QED
                BY <2>1, <4>1, <4>2
        <3> QED
            BY <3>1, <3>2
    <2>4. wpc[u] \in {"returned", "ending", "done"} /\ (wpc[u] = "ending" => thrown)
        <3>1. state[u] = "live" /\ handedOff[u]
            BY <1>10 DEF Completes
        <3> QED
            BY <1>0, <1>t, <3>1
    <2> QED
        BY <2>1, <2>3, <2>4
<1> QED
    BY <1>1, <1>2, <1>3, <1>4, <1>5, <1>6, <1>7, <1>8, <1>9, <1>10, <1>11, Steps DEF StepOf

LEMMA OneOpenKept == StreamInv /\ [Next]_vars => OneOpen'
<1> SUFFICES ASSUME StreamInv, [Next]_vars, NEW u \in Transfer, Open(u)' PROVE served' = u
    BY DEF OneOpen
<1>0. OneOpen
    BY DEF StreamInv
<1>t. /\ wpc \in [Transfer -> {"none", "opening", "prepared", "returned", "ending", "done"}]
      /\ ends \in [Transfer -> Nat]
      /\ state \in [Transfer -> {"none", "live", "finished", "destroyed"}]
    BY DEF StreamInv, TypeOK, TransferTypes
<1>1. ASSUME Open(u)' => Open(u), served' = served PROVE served' = u
    BY <1>0, <1>1 DEF OneOpen
<1>2. CASE Quiet
    BY <1>1, <1>2 DEF Quiet, Open
<1>3. ASSUME NEW t \in Transfer, Dispatch(t) PROVE served' = u
    <2>1. ~thrown /\ ~ResponseOpen /\ served' = t /\ UNCHANGED <<state, ends>>
        BY <1>3 DEF Dispatch
    <2>2. ~Open(u)
        <3>1. PhaseOf(u)
            BY DEF StreamInv, Phases
        <3>2. Open(u) => ends[u] = 0 /\ wpc[u] # "none"
            BY <1>t, <2>1, <3>1
            DEF Open, PhaseOf, Fresh, Prepared, Kept, HandedOff, Running, Failed, Served, Ended
        <3> QED
            BY <2>1, <3>2 DEF ResponseOpen
    <2>3. u # t => wpc'[u] = wpc[u]
        BY <1>t, <1>3 DEF Dispatch, WorkerMoves
    <2> QED
        BY <2>1, <2>2, <2>3 DEF Open
<1>4. ASSUME NEW t \in Transfer, SendRefused(t) \/ SendPrepares(t) \/ SendThrows(t) \/ SendPosts(t)
      PROVE  served' = u
    <2>1. /\ wpc[t] \in {"opening", "prepared"} /\ UNCHANGED <<ends, served>>
          /\ u # t => wpc'[u] = wpc[u]
        BY <1>t, <1>4 DEF SendRefused, SendPrepares, SendThrows, SendPosts, WorkerMoves
    <2>2. u # t => state'[u] = state[u]
        BY <1>t, <1>4 DEF SendRefused, SendPrepares, SendThrows, SendPosts, Finish
    <2> QED
        BY <1>1, <2>1, <2>2 DEF Open
<1>5. ASSUME NEW t \in Transfer, Returns(t) \/ TaskEnds(t) \/ StartStreaming(t) \/ Cleanup(t)
      PROVE  served' = u
    <2>1. UNCHANGED <<state, served>> /\ (ends' = ends \/ ends' = [ends EXCEPT ![served] = @ + 1])
        BY <1>5 DEF TaskEnds, Returns, HandlerReturns, HandlerThrows, RouteLooks, StartStreaming,
                    Cleanup, CallEnd
    <2>2. /\ wpc'[u] \in {"opening", "prepared"} => wpc[u] \in {"opening", "prepared"}
          /\ wpc'[u] # "none" => wpc[u] # "none"
        BY <1>t, <1>5 DEF TaskEnds, Returns, HandlerReturns, HandlerThrows, RouteLooks,
                          StartStreaming, Cleanup, WorkerMoves
    <2>3. ends'[u] = 0 => ends[u] = 0
        BY <1>t, <2>1
    <2> QED
        BY <1>1, <2>1, <2>2, <2>3 DEF Open
<1>6. ASSUME NEW t \in Transfer, Completes(t, TRUE) \/ Completes(t, FALSE) PROVE served' = u
    <2>1. ends' = ends \/ ends' = [ends EXCEPT ![t] = @ + 1]
        BY <1>6 DEF Completes, CallEnd
    <2>2. ends'[u] = 0 => ends[u] = 0
        BY <1>t, <2>1
    <2>3. state'[u] = "live" => state[u] = "live"
        BY <1>t, <1>6 DEF Completes
    <2> QED
        BY <1>1, <1>6, <2>2, <2>3 DEF Completes, Open
<1> QED
    BY <1>2, <1>3, <1>4, <1>5, <1>6, Steps DEF StepOf

LEMMA CallbacksKept == StreamInv /\ [Next]_vars => Callbacks'
<1> SUFFICES ASSUME StreamInv, [Next]_vars PROVE Callbacks'
    OBVIOUS
<1>0. /\ Callbacks /\ handedOff \in [Transfer -> BOOLEAN] /\ onwrite \in Transfer \cup {None}
      /\ state \in [Transfer -> {"none", "live", "finished", "destroyed"}]
    BY DEF StreamInv, TypeOK, TransferTypes
<1>a. ASSUME UNCHANGED callbacks, \A t \in Transfer : TakenOver(t) => TakenOver(t)'
      PROVE  Callbacks'
    BY <1>0, <1>a DEF Callbacks
<1>1. CASE Quiet
    BY <1>a, <1>1 DEF Quiet, TakenOver
<1>2. ASSUME NEW t \in Transfer, StartStreaming(t) PROVE Callbacks'
    <2>1. Running(t)
        <3>1. Takes("start", t)
            BY <1>2 DEF StartStreaming
        <3> QED
            BY <3>1, BeginningTaken
    <2> QED
        BY <1>2, <2>1 DEF StartStreaming, Callbacks, Running, TakenOver
<1>3. ASSUME NEW t \in Transfer, Cleanup(t) PROVE Callbacks'
    BY <1>3 DEF Cleanup, Callbacks
<1>4. ASSUME NEW t \in Transfer, Dispatch(t) \/ SendRefused(t) \/ Returns(t) \/ TaskEnds(t)
      PROVE  Callbacks'
    BY <1>a, <1>4 DEF Dispatch, SendRefused, TaskEnds, Returns, HandlerReturns, HandlerThrows,
                      RouteLooks, TakenOver
<1>7. ASSUME NEW t \in Transfer, SendPrepares(t) \/ SendThrows(t) PROVE Callbacks'
    <2>1. ~TakenOver(t)
        BY <1>7 DEF SendPrepares, SendThrows, WorkerMoves, StreamInv, Phases, PhaseOf, Fresh,
                    Prepared, TakenOver
    <2>2. \A w \in Transfer : w # t => handedOff'[w] = handedOff[w] /\ state'[w] = state[w]
        BY <1>0, <1>7 DEF SendPrepares, SendThrows
    <2>3. UNCHANGED callbacks
        BY <1>7 DEF SendPrepares, SendThrows
    <2> QED
        BY <1>a, <2>1, <2>2, <2>3 DEF TakenOver
<1>5. ASSUME NEW t \in Transfer, SendPosts(t) PROVE Callbacks'
    <2>1. \A w \in Transfer : /\ handedOff[w] => handedOff'[w]
                              /\ state'[w] \in {state[w], "finished"}
        BY <1>0, <1>5 DEF SendPosts, Finish
    <2> QED
        BY <1>a, <1>5, <2>1 DEF SendPosts, TakenOver
<1>6. ASSUME NEW t \in Transfer, Completes(t, TRUE) \/ Completes(t, FALSE) PROVE Callbacks'
    <2>1. \A w \in Transfer : state'[w] \in {state[w], "finished"}
        BY <1>0, <1>6 DEF Completes
    <2> QED
        BY <1>a, <1>6, <2>1 DEF Completes, TakenOver
<1> QED
    BY <1>1, <1>2, <1>3, <1>4, <1>5, <1>6, <1>7, Steps DEF StepOf

LEMMA NoEventYet ==
    ASSUME StreamInv, NEW t \in Transfer, ~handedOff[t]
    PROVE  \A i \in 1 .. Len(loop) : loop[i].of # t
<1> SUFFICES ASSUME NEW i \in 1 .. Len(loop), loop[i].of = t PROVE FALSE
    OBVIOUS
<1>1. loop[i].kind \in {"start", "empty", "cleanup"}
    <2>1. loop \in Seq(Event)
        BY DEF StreamInv, TypeOK, TransferTypes
    <2>2. loop[i] \in Event
        BY <2>1, ElementOfSeq
    <2> QED
        BY <2>2 DEF Event
<1>2. EventInOrder(i)
    BY DEF StreamInv, EventsInOrder
<1>3. state[t] = "finished"
    BY <1>1, <1>2 DEF EventInOrder, Begins
<1>4. PhaseOf(t) /\ wpc[t] \in {"none", "opening", "prepared", "returned", "ending", "done"}
    BY DEF StreamInv, TypeOK, TransferTypes, Phases
<1> QED
    BY <1>3, <1>4 DEF PhaseOf, Fresh, Prepared, Kept, HandedOff, Running, Failed, Served

LEMMA EventsKept == StreamInv /\ [Next]_vars => EventsInOrder'
<1> SUFFICES ASSUME StreamInv, [Next]_vars, NEW i \in 1 .. Len(loop') PROVE EventInOrder(i)'
    BY DEF EventsInOrder
<1>0. /\ EventsInOrder /\ loop \in Seq(Event) /\ Len(loop) \in Nat
      /\ \A j \in 1 .. Len(loop) : loop[j] \in Event
    BY LenProperties, ElementOfSeq DEF StreamInv, TypeOK, TransferTypes
<1>t. /\ handedOff \in [Transfer -> BOOLEAN] /\ len \in [Transfer -> 0 .. MaxLen]
      /\ state \in [Transfer -> {"none", "live", "finished", "destroyed"}]
    BY DEF StreamInv, TypeOK, TransferTypes
<1>1. ASSUME loop' = loop, UNCHANGED <<handedOff, state, onwrite, len>> PROVE EventInOrder(i)'
    BY <1>0, <1>1 DEF EventsInOrder, EventInOrder, Begins
<1>2. CASE Quiet
    BY <1>1, <1>2 DEF Quiet
<1>3. ASSUME NEW t \in Transfer, Dispatch(t) \/ SendRefused(t) \/ Returns(t) \/ TaskEnds(t)
      PROVE  EventInOrder(i)'
    BY <1>1, <1>3 DEF Dispatch, SendRefused, TaskEnds, Returns, HandlerReturns, HandlerThrows,
                      RouteLooks
<1>4. ASSUME NEW t \in Transfer, ~handedOff[t], loop' = loop, onwrite' = onwrite,
             \A u \in Transfer : u # t => /\ handedOff'[u] = handedOff[u]
                                          /\ state'[u] = state[u] /\ len'[u] = len[u]
      PROVE  EventInOrder(i)'
    <2>1. i \in 1 .. Len(loop) /\ loop'[i] = loop[i]
        BY <1>4
    <2>2. EventInOrder(i) /\ loop[i].of # t /\ loop[i].of \in Transfer
        BY <1>0, <1>4, <2>1, NoEventYet DEF EventsInOrder, Event
    <2> QED
        BY <1>4, <2>1, <2>2 DEF EventInOrder, Begins
<1>5. ASSUME NEW t \in Transfer, SendPrepares(t) PROVE EventInOrder(i)'
    <2>1. ~handedOff[t]
        BY <1>5 DEF SendPrepares, WorkerMoves, StreamInv, Phases, PhaseOf, Fresh
    <2> QED
        BY <1>t, <1>4, <1>5, <2>1 DEF SendPrepares
<1>6. ASSUME NEW t \in Transfer, SendThrows(t) PROVE EventInOrder(i)'
    <2>1. ~handedOff[t]
        BY <1>6 DEF SendThrows, WorkerMoves, StreamInv, Phases, PhaseOf, Prepared
    <2> QED
        BY <1>t, <1>4, <1>6, <2>1 DEF SendThrows
<1>7. ASSUME NEW t \in Transfer, SendPosts(t) PROVE EventInOrder(i)'
    <2>1. Prepared(t) /\ Open(t)
        BY <1>7 DEF SendPosts, WorkerMoves, StreamInv, Phases, PhaseOf, Prepared, Open
    <2>2. CASE ~attached
        BY <1>t, <1>4, <1>7, <2>1, <2>2 DEF SendPosts, Finish, Prepared
    <2>3. CASE attached
        <3>1. PICK e \in Event : loop' = Append(loop, e) /\ e.of = t /\ Begins(e)
                                 /\ (e.kind = "empty" => len[t] = 0)
            BY <1>7, <2>3 DEF SendPosts, EventOf, Event, Begins
        <3>2. /\ Len(loop') = Len(loop) + 1 /\ loop'[Len(loop) + 1] = e
              /\ \A j \in 1 .. Len(loop) : loop'[j] = loop[j]
            BY <1>0, <3>1, AppendProperties
        <3>3. /\ handedOff'[t] /\ state' = state /\ len' = len /\ onwrite' = onwrite
              /\ \A u \in Transfer : handedOff[u] => handedOff'[u]
            BY <1>t, <1>7, <2>3 DEF SendPosts
        <3>4. CASE i = Len(loop) + 1
            <4>1. onwrite # t
                BY <2>1, NoneAssumption DEF StreamInv, TypeOK, TransferTypes, Callbacks, Prepared,
                                            TakenOver
            <4>2. loop'[i] = e /\ i = Len(loop') /\ e.kind # "cleanup"
                BY <3>1, <3>2, <3>4 DEF Begins
            <4> QED
                BY <2>1, <3>1, <3>3, <4>1, <4>2 DEF EventInOrder, Prepared
        <3>5. CASE i \in 1 .. Len(loop)
            <4>1. EventInOrder(i) /\ loop[i].of \in Transfer /\ loop'[i] = loop[i]
                BY <1>0, <3>2, <3>5 DEF EventsInOrder, Event
            <4>2. ~Begins(loop[i])
                <5> SUFFICES ASSUME Begins(loop[i]) PROVE FALSE
                    OBVIOUS
                <5>1. handedOff[loop[i].of] /\ state[loop[i].of] = "live"
                    BY <4>1 DEF EventInOrder
                <5>2. Open(loop[i].of)
                    BY <4>1, <5>1, RunningIsDriven DEF StreamInv
                <5> QED
                    BY <2>1, <4>1, <5>1, <5>2 DEF StreamInv, OneOpen, Prepared
            <4> QED
                BY <3>3, <4>1, <4>2 DEF EventInOrder, Begins
        <3> QED
            BY <1>0, <3>2, <3>4, <3>5
    <2> QED
        BY <2>2, <2>3
<1>8. ASSUME NEW t \in Transfer, StartStreaming(t) PROVE EventInOrder(i)'
    <2>1. Takes("start", t)
        BY <1>8 DEF StartStreaming
    <2>2. Tail(loop) = <<>>
        BY <2>1, BeginningTaken
    <2>3. Len(loop') = 0
        BY <1>8, <2>2, EmptySeq DEF StartStreaming
    <2> QED
        BY <2>3
<1>9. ASSUME NEW t \in Transfer, Cleanup(t) PROVE EventInOrder(i)'
    <2>1. loop # <<>> /\ loop' = Tail(loop) /\ onwrite' = None
        BY <1>9 DEF Cleanup, Takes
    <2>2. Len(loop') = Len(loop) - 1 /\ loop'[i] = loop[i + 1]
        BY <1>0, <2>1, HeadTailProperties
    <2>3. i + 1 \in 1 .. Len(loop)
        BY <1>0, <2>2
    <2>4. EventInOrder(i + 1) /\ loop[i + 1].of \in Transfer
        BY <1>0, <2>3 DEF EventsInOrder, Event
    <2>5. UNCHANGED <<handedOff, state, len>> /\ None # loop[i + 1].of
        BY <1>9, <2>4, NoneAssumption DEF Cleanup
    <2>6. i + 1 = Len(loop) => i = Len(loop')
        BY <1>0, <2>2
    <2> QED
        BY <2>1, <2>2, <2>4, <2>5, <2>6 DEF EventInOrder, Begins
<1>10. ASSUME NEW t \in Transfer, NEW success \in BOOLEAN, Completes(t, success)
       PROVE  EventInOrder(i)'
    <2>1. loop' = <<EventOf("cleanup", t)>>
        <3>1. loop' # <<>>
            BY EmptySeq
        <3> QED
            BY <1>10, <3>1 DEF Completes
    <2>2. loop'[i].kind = "cleanup" /\ loop'[i].of = t
        BY <2>1 DEF EventOf
    <2>3. state'[t] = "finished"
        BY <1>t, <1>10 DEF Completes
    <2> QED
        BY <2>2, <2>3 DEF EventInOrder, Begins
<1> QED
    BY <1>2, <1>3, <1>5, <1>6, <1>7, <1>8, <1>9, <1>10, Steps DEF StepOf

LEMMA DrivenKept == StreamInv /\ [Next]_vars => LiveIsDriven'
<1> SUFFICES ASSUME StreamInv, [Next]_vars, NEW u \in Transfer, handedOff'[u], state'[u] = "live"
             PROVE  Driven(u)'
    BY DEF LiveIsDriven
<1>0. LiveIsDriven /\ OneOpen /\ loop \in Seq(Event) /\ Len(loop) \in Nat
    BY LenProperties DEF StreamInv, TypeOK, TransferTypes
<1>t. /\ handedOff \in [Transfer -> BOOLEAN]
      /\ state \in [Transfer -> {"none", "live", "finished", "destroyed"}]
    BY DEF StreamInv, TypeOK, TransferTypes
<1>1. ASSUME handedOff[u], state[u] = "live" PROVE Driven(u) /\ Open(u)
    BY <1>1, RunningIsDriven DEF StreamInv
<1>2. ASSUME handedOff'[u] = handedOff[u], state'[u] = state[u], loop' = loop, onwrite' = onwrite
      PROVE  Driven(u)'
    BY <1>1, <1>2 DEF Driven
<1>3. CASE Quiet
    BY <1>2, <1>3 DEF Quiet
<1>4. ASSUME NEW t \in Transfer, Dispatch(t) \/ SendRefused(t) \/ Returns(t) \/ TaskEnds(t)
      PROVE  Driven(u)'
    BY <1>2, <1>4 DEF Dispatch, SendRefused, TaskEnds, Returns, HandlerReturns, HandlerThrows,
                      RouteLooks
<1>5. ASSUME NEW t \in Transfer, SendPrepares(t) PROVE Driven(u)'
    <2>1. ~handedOff[t]
        BY <1>5 DEF SendPrepares, WorkerMoves, StreamInv, Phases, PhaseOf, Fresh
    <2> QED
        BY <1>t, <1>2, <1>5, <2>1 DEF SendPrepares
<1>6. ASSUME NEW t \in Transfer, SendThrows(t) PROVE Driven(u)'
    BY <1>t, <1>2, <1>6 DEF SendThrows
<1>7. ASSUME NEW t \in Transfer, SendPosts(t) PROVE Driven(u)'
    <2>1. Open(t) /\ state[t] = "live"
        BY <1>7 DEF SendPosts, WorkerMoves, StreamInv, Phases, PhaseOf, Prepared, Open
    <2>2. ASSUME u # t PROVE FALSE
        <3>1. handedOff[u] /\ state[u] = "live"
            BY <1>t, <1>7, <2>2 DEF SendPosts, Finish
        <3> QED
            BY <1>0, <1>1, <2>1, <2>2, <3>1 DEF OneOpen
    <2>3. attached
        BY <1>t, <1>7, <2>1, <2>2 DEF SendPosts, Finish
    <2>4. PICK e \in Event : loop' = Append(loop, e) /\ e.of = t /\ Begins(e)
        BY <1>7, <2>3 DEF SendPosts, EventOf, Event, Begins
    <2>5. loop' # <<>> /\ Len(loop') = Len(loop) + 1 /\ loop'[Len(loop) + 1] = e
        BY <1>0, <2>4, AppendProperties
    <2> QED
        BY <2>2, <2>4, <2>5 DEF Driven
<1>8. ASSUME NEW t \in Transfer, StartStreaming(t) PROVE Driven(u)'
    <2>1. Takes("start", t)
        BY <1>8 DEF StartStreaming
    <2>2. Tail(loop) = <<>> /\ Open(t)
        BY <2>1, BeginningTaken
    <2>3. u = t
        BY <1>0, <1>1, <1>8, <2>2 DEF OneOpen, StartStreaming
    <2> QED
        BY <1>8, <2>2, <2>3 DEF StartStreaming, Driven
<1>9. ASSUME NEW t \in Transfer, Cleanup(t) PROVE Driven(u)'
    <2>1. loop # <<>> /\ loop' = Tail(loop) /\ Head(loop).kind = "cleanup"
        BY <1>9 DEF Cleanup, Takes, EventOf
    <2>2. Begins(loop[Len(loop)]) /\ loop[Len(loop)].of = u
        BY <1>1, <1>9, <2>1 DEF Cleanup, Driven
    <2>3. Len(loop) # 1 /\ Len(loop) # 0
        BY <1>0, <2>1, <2>2, EmptySeq DEF Begins
    <2>4. /\ Len(loop') = Len(loop) - 1
          /\ \A j \in 1 .. Len(loop') : loop'[j] = loop[j + 1]
        BY <1>0, <2>1, HeadTailProperties
    <2>5. Len(loop') \in 1 .. Len(loop') /\ Len(loop') + 1 = Len(loop)
        BY <1>0, <2>3, <2>4
    <2>6. loop'[Len(loop')] = loop[Len(loop)] /\ loop' # <<>>
        BY <2>4, <2>5, EmptySeq
    <2> QED
        BY <2>2, <2>6 DEF Driven
<1>10. ASSUME NEW t \in Transfer, NEW success \in BOOLEAN, Completes(t, success)
       PROVE  Driven(u)'
    <2>1. u # t
        BY <1>t, <1>10 DEF Completes
    <2>2. handedOff[u] /\ state[u] = "live"
        BY <1>t, <1>10, <2>1 DEF Completes
    <2>3. Open(t)
        BY <1>10, RunningIsDriven DEF Completes, Running, StreamInv
    <2> QED
        BY <1>0, <1>1, <2>1, <2>2, <2>3 DEF OneOpen
<1> QED
    BY <1>3, <1>4, <1>5, <1>6, <1>7, <1>8, <1>9, <1>10, Steps DEF StepOf

LEMMA Reports == <<>> # <<FALSE>> /\ <<TRUE>> # <<FALSE>> /\ Len(<<TRUE>>) = 1 /\ Len(<<FALSE>>) = 1
<1>1. Len(<<>>) = 0 /\ Len(<<TRUE>>) = 1 /\ Len(<<FALSE>>) = 1
    OBVIOUS
<1>2. <<TRUE>>[1] = TRUE /\ <<FALSE>>[1] = FALSE
    OBVIOUS
<1>3. <<TRUE>> # <<FALSE>>
    BY <1>2
<1> QED
    BY <1>1, <1>3

LEMMA OneMore ==
    ASSUME NEW S, IsFiniteSet(S), NEW x, x \notin S, NEW T, T = S \cup {x}
    PROVE  IsFiniteSet(T) /\ Cardinality(T) = Cardinality(S) + 1
BY FS_AddElement

LEMMA OneLess ==
    ASSUME NEW S, IsFiniteSet(S), NEW x \in S, NEW T, T = S \ {x}
    PROVE  IsFiniteSet(T) /\ Cardinality(T) = Cardinality(S) - 1
BY FS_RemoveElement

(* A live transfer leaves the count of active ones once, and enters the    *)
(* count of errors if it failed.                                           *)
LEMMA CountedOut ==
    ASSUME StreamInv, NEW t \in Transfer, NEW success \in BOOLEAN,
           NEW to, to # "none", to # "live",
           state[t] = "live", reports[t] = <<>>,
           state' = [state EXCEPT ![t] = to], Report(t, success)
    PROVE  Counts'
<1>t. /\ state \in [Transfer -> {"none", "live", "finished", "destroyed"}]
      /\ reports \in [Transfer -> Seq(BOOLEAN)]
    BY DEF StreamInv, TypeOK, TransferTypes
<1>0. /\ IsFiniteSet({u \in Transfer : Started(u)})
      /\ active = Cardinality(Live) /\ errors = Cardinality(FailedOnce)
    BY DEF StreamInv, Counts
<1>1. IsFiniteSet(Live) /\ IsFiniteSet(FailedOnce)
    <2>1. Live \subseteq {u \in Transfer : Started(u)} /\ FailedOnce \subseteq {u \in Transfer : Started(u)}
        BY DEF Live, FailedOnce, Started
    <2> QED
        BY <1>0, <2>1, FS_Subset
<1>2. \A u \in Transfer : /\ u # t => state'[u] = state[u] /\ reports'[u] = reports[u]
                          /\ state'[t] = to /\ reports'[t] = Append(<<>>, success)
    BY <1>t DEF Report
<1>3. Append(<<>>, success) = <<success>>
    OBVIOUS
<1>4. {u \in Transfer : Started(u)'} = {u \in Transfer : Started(u)}
    BY <1>2 DEF Started
<1>5. active' = Cardinality(Live')
    <2>1. Live' = Live \ {t} /\ t \in Live
        BY <1>2 DEF Live
    <2> QED
        BY <1>0, <1>1, <2>1, OneLess DEF Report
<1>6. errors' = Cardinality(FailedOnce')
    <2>1. t \notin FailedOnce
        BY Reports DEF FailedOnce
    <2>2. CASE success
        <3>1. FailedOnce' = FailedOnce
            <4>1. reports'[t] = <<TRUE>>
                BY <1>2, <1>3, <2>2
            <4> QED
                BY <1>2, <4>1, Reports DEF FailedOnce, Started
        <3> QED
            BY <1>0, <2>2, <3>1 DEF Report
    <2>3. CASE ~success
        <3>1. FailedOnce' = FailedOnce \cup {t}
            BY <1>2, <1>3, <2>3 DEF FailedOnce, Started
        <3> QED
            BY <1>0, <1>1, <2>1, <2>3, <3>1, OneMore DEF Report
    <2> QED
        BY <2>2, <2>3
<1> QED
    BY <1>0, <1>4, <1>5, <1>6 DEF Counts

LEMMA CountsKept == StreamInv /\ [Next]_vars => Counts'
<1> SUFFICES ASSUME StreamInv, [Next]_vars PROVE Counts'
    OBVIOUS
<1>t. /\ state \in [Transfer -> {"none", "live", "finished", "destroyed"}]
      /\ reports \in [Transfer -> Seq(BOOLEAN)]
    BY DEF StreamInv, TypeOK, TransferTypes
<1>0. /\ Counts /\ IsFiniteSet({u \in Transfer : Started(u)})
      /\ active = Cardinality(Live) /\ errors = Cardinality(FailedOnce)
    BY DEF StreamInv, Counts
<1>1. ASSUME UNCHANGED <<state, active, errors, reports>> PROVE Counts'
    BY <1>0, <1>1 DEF Counts, Live, FailedOnce, Started
<1>2. CASE Quiet
    BY <1>1, <1>2 DEF Quiet
<1>3. ASSUME NEW t \in Transfer, Dispatch(t) \/ Returns(t) \/ TaskEnds(t) \/ StartStreaming(t)
                                    \/ Cleanup(t)
      PROVE  Counts'
    BY <1>1, <1>3 DEF Dispatch, TaskEnds, Returns, HandlerReturns, HandlerThrows, RouteLooks,
                      StartStreaming, Cleanup
<1>4. ASSUME NEW t \in Transfer, SendRefused(t) PROVE Counts'
    <2>1. state[t] = "none"
        BY <1>4 DEF SendRefused, WorkerMoves, StreamInv, Phases, PhaseOf, Fresh
    <2>2. UNCHANGED <<state, active, errors>> /\ \A u \in Transfer : u # t => reports'[u] = reports[u]
        BY <1>t, <1>4 DEF SendRefused
    <2>3. FailedOnce' = FailedOnce
        BY <2>1, <2>2 DEF FailedOnce, Started
    <2> QED
        BY <1>0, <2>2, <2>3 DEF Counts, Live, Started
<1>5. ASSUME NEW t \in Transfer, SendPrepares(t) PROVE Counts'
    <2>1. state[t] = "none" /\ reports[t] = <<>>
        BY <1>5 DEF SendPrepares, WorkerMoves, StreamInv, Phases, PhaseOf, Fresh
    <2>2. /\ state'[t] = "live" /\ (\A u \in Transfer : u # t => state'[u] = state[u])
          /\ reports' = reports /\ errors' = errors /\ active' = active + 1
        BY <1>t, <1>5 DEF SendPrepares
    <2>3. FailedOnce' = FailedOnce
        BY <2>1, <2>2, Reports DEF FailedOnce, Started
    <2>4. {u \in Transfer : Started(u)'} = {u \in Transfer : Started(u)} \cup {t}
        BY <2>2 DEF Started
    <2>5. IsFiniteSet({u \in Transfer : Started(u)'})
        BY <1>0, <2>4, FS_AddElement
    <2>6. active' = Cardinality(Live')
        <3>1. Live \subseteq {u \in Transfer : Started(u)}
            BY DEF Live, Started
        <3>2. IsFiniteSet(Live)
            BY <1>0, <3>1, FS_Subset
        <3>3. t \notin Live /\ Live' = Live \cup {t}
            BY <2>1, <2>2 DEF Live
        <3> QED
            BY <1>0, <2>2, <3>2, <3>3, OneMore
    <2> QED
        BY <1>0, <2>2, <2>3, <2>5, <2>6 DEF Counts
<1>6. ASSUME NEW t \in Transfer, SendThrows(t) PROVE Counts'
    <2>1. state[t] = "live" /\ reports[t] = <<>>
        BY <1>6 DEF SendThrows, WorkerMoves, StreamInv, Phases, PhaseOf, Prepared
    <2> QED
        BY <1>6, <2>1, CountedOut DEF SendThrows
<1>7. ASSUME NEW t \in Transfer, SendPosts(t) PROVE Counts'
    <2>1. state[t] = "live" /\ reports[t] = <<>>
        BY <1>7 DEF SendPosts, WorkerMoves, StreamInv, Phases, PhaseOf, Prepared
    <2>2. CASE attached
        BY <1>1, <1>7, <2>2 DEF SendPosts
    <2>3. CASE ~attached
        <3>1. Finish(t, FALSE, loop)
            BY <1>7, <2>3 DEF SendPosts
        <3>2. state' = [state EXCEPT ![t] = "finished"] /\ Report(t, FALSE)
            BY <2>1, <3>1 DEF Finish
        <3> QED
            BY <2>1, <3>2, CountedOut
    <2> QED
        BY <2>2, <2>3
<1>8. ASSUME NEW t \in Transfer, NEW success \in BOOLEAN, Completes(t, success) PROVE Counts'
    BY <1>8, CountedOut DEF Completes, Running
<1> QED
    BY <1>2, <1>3, <1>4, <1>5, <1>6, <1>7, <1>8, Steps DEF StepOf

LEMMA AmountsKept == StreamInv /\ [Next]_vars => Amounts'
<1> SUFFICES ASSUME StreamInv, [Next]_vars, NEW u \in Transfer PROVE AmountsOf(u)'
    BY DEF Amounts
<1>0. AmountsOf(u)
    BY DEF StreamInv, Amounts
<1>t. /\ len \in [Transfer -> 0 .. MaxLen] /\ remaining \in [Transfer -> 0 .. MaxLen]
      /\ sent \in [Transfer -> 0 .. MaxLen]
      /\ state \in [Transfer -> {"none", "live", "finished", "destroyed"}]
    BY DEF StreamInv, TypeOK, TransferTypes
<1>1. ASSUME /\ remaining'[u] = remaining[u] /\ len'[u] = len[u] /\ sent'[u] = sent[u]
             /\ state'[u] \notin {"none", "live"}
                    \/ (state'[u] = state[u] /\ (io' = "write" \/ io # "write") /\ cur' = cur)
                    \/ (state'[u] = state[u] /\ io # "write")
      PROVE  AmountsOf(u)'
    BY <1>0, <1>1 DEF AmountsOf
<1>2. ASSUME NEW t \in Transfer, Dispatch(t) \/ SendRefused(t) \/ Returns(t) \/ TaskEnds(t)
                                    \/ StartStreaming(t) \/ Cleanup(t)
      PROVE  AmountsOf(u)'
    BY <1>1, <1>2 DEF Dispatch, SendRefused, TaskEnds, Returns, HandlerReturns, HandlerThrows,
                      RouteLooks, StartStreaming, Cleanup, Takes
<1>3. ASSUME NEW t \in Transfer, SendPrepares(t) PROVE AmountsOf(u)'
    <2>1. state[t] = "none"
        BY <1>3 DEF SendPrepares, WorkerMoves, StreamInv, Phases, PhaseOf, Fresh
    <2>2. CASE u = t
        <3>1. PICK n \in 0 .. MaxLen : len' = [len EXCEPT ![t] = n] /\ remaining' = [remaining EXCEPT ![t] = n]
            BY <1>3 DEF SendPrepares
        <3>2. /\ len'[u] = n /\ remaining'[u] = n /\ sent'[u] = 0 /\ state'[u] = "live"
            BY <1>0, <1>t, <1>3, <2>1, <2>2, <3>1 DEF SendPrepares, AmountsOf
        <3> QED
            BY <3>2, LengthAssumption DEF AmountsOf
    <2>3. CASE u # t
        <3>1. PICK n \in 0 .. MaxLen : len' = [len EXCEPT ![t] = n] /\ remaining' = [remaining EXCEPT ![t] = n]
            BY <1>3 DEF SendPrepares
        <3>2. len'[u] = len[u] /\ remaining'[u] = remaining[u] /\ state'[u] = state[u]
            BY <1>t, <1>3, <2>3, <3>1 DEF SendPrepares
        <3> QED
            BY <1>1, <1>3, <3>2 DEF SendPrepares
    <2> QED
        BY <2>2, <2>3
<1>4. ASSUME NEW t \in Transfer, SendThrows(t) \/ SendPosts(t) PROVE AmountsOf(u)'
    <2>1. state'[u] = state[u] \/ state'[u] \notin {"none", "live"}
        BY <1>t, <1>4 DEF SendThrows, SendPosts, Finish
    <2> QED
        BY <1>1, <1>4, <2>1 DEF SendThrows, SendPosts
<1>5. ASSUME NEW t \in Transfer, StartDisconnected(t) \/ StartEmpty(t) PROVE AmountsOf(u)'
    <2>1. state'[u] = state[u] \/ state'[u] \notin {"none", "live"}
        BY <1>t, <1>5 DEF StartDisconnected, StartEmpty, Finish
    <2> QED
        BY <1>1, <1>5, <2>1 DEF StartDisconnected, StartEmpty
<1>6. CASE HeadersBuffered \/ HeadersDrained \/ PumpStops \/ PumpGoesOn \/ SocketDrains \/ Disconnect
    <2>1. io # "write" \/ (io' = io /\ cur' = cur)
        BY <1>6 DEF HeadersBuffered, HeadersDrained, PumpStops, PumpGoesOn, SocketDrains, Disconnect
    <2> QED
        BY <1>1, <1>6, <2>1 DEF HeadersBuffered, HeadersDrained, PumpStops, PumpGoesOn,
                                SocketDrains, Disconnect
<1>7. CASE HeadersFail \/ PumpDisconnected \/ PumpReadsNothing \/ WriteFails \/ PumpEnds
    <2>1. cur \in Transfer /\ state[cur] = "live"
        BY <1>7, InsideWriter
        DEF HeadersFail, PumpDisconnected, PumpReadsNothing, WriteFails, PumpEnds, PumpFailsOn,
            Running
    <2>2. state' = [state EXCEPT ![cur] = "finished"] /\ UNCHANGED <<file, sent>> /\ cur' = cur
        BY <1>7, <2>1
        DEF HeadersFail, PumpDisconnected, PumpReadsNothing, WriteFails, PumpEnds, PumpFailsOn,
            Finish, LeavePump
    <2>3. CASE u = cur
        BY <1>t, <1>1, <2>2, <2>3
    <2>4. CASE u # cur
        <3>1. state'[u] = state[u]
            BY <1>t, <2>2, <2>4
        <3> QED
            BY <1>0, <2>2, <2>4, <3>1 DEF AmountsOf
    <2> QED
        BY <2>3, <2>4
<1>8. CASE PumpReads
    <2>1. cur \in Transfer /\ state[cur] = "live"
        BY <1>8, InsideWriter DEF PumpReads, Running
    <2>2. UNCHANGED <<len, state, sent, cur>> /\ io' = "write" /\ io = "pump"
          /\ remaining' = [remaining EXCEPT ![cur] = @ - Got]
        BY <1>8 DEF PumpReads
    <2>3. Got \in Nat
        BY <2>1, LengthAssumption, ChunkAssumption DEF StreamInv, TypeOK, TransferTypes, Got, Least
    <2>4. CASE u = cur
        <3>1. remaining'[u] = remaining[u] - Got
            BY <1>t, <2>2, <2>4
        <3>2. remaining[u] \in Nat /\ len[u] \in Nat /\ remaining[u] <= len[u]
            BY <1>0, <1>t, LengthAssumption DEF AmountsOf
        <3>3. remaining'[u] <= len'[u]
            BY <2>2, <2>3, <3>1, <3>2
        <3> QED
            BY <2>1, <2>2, <2>4, <3>3 DEF AmountsOf
    <2>5. CASE u # cur
        <3>1. remaining'[u] = remaining[u]
            BY <1>t, <2>2, <2>5
        <3> QED
            BY <1>0, <2>2, <2>5, <3>1 DEF AmountsOf
    <2> QED
        BY <2>4, <2>5
<1>9. CASE WriteBuffered \/ WriteDrained
    <2>1. cur \in Transfer /\ state[cur] = "live"
        BY <1>9, InsideWriter DEF WriteBuffered, WriteDrained, WriteAccepted, Running
    <2>2. /\ UNCHANGED <<len, remaining, state, cur>> /\ io = "write"
          /\ sent' = [sent EXCEPT ![cur] = len[cur] - remaining[cur]]
        BY <1>9 DEF WriteBuffered, WriteDrained, WriteAccepted, EnterPump
    <2>3. CASE u = cur
        <3>1. sent'[u] = len[u] - remaining[u]
            BY <1>t, <2>2, <2>3
        <3> QED
            BY <1>0, <2>1, <2>2, <2>3, <3>1 DEF AmountsOf
    <2>4. CASE u # cur
        <3>1. sent'[u] = sent[u]
            BY <1>t, <2>2, <2>4
        <3> QED
            BY <1>0, <2>2, <2>4, <3>1 DEF AmountsOf
    <2> QED
        BY <2>3, <2>4
<1>10. CASE SocketCloses
    <2>1. state'[u] = state[u] \/ state'[u] \notin {"none", "live"}
        BY <1>t, <1>10 DEF SocketCloses, Finish
    <2> QED
        BY <1>1, <1>10, <2>1 DEF SocketCloses
<1>11. CASE UNCHANGED vars
    BY <1>1, <1>11
<1> QED
    BY <1>2, <1>3, <1>4, <1>5, <1>6, <1>7, <1>8, <1>9, <1>10, <1>11
    DEF Next, WorkerStep, Returns, LoopStep, PumpStep

(* The loop's thread and what it is inside of. *)
LEMMA InsideKept == StreamInv /\ [Next]_vars => OneFrame' /\ DrivenIsLive'
<1> SUFFICES ASSUME StreamInv, [Next]_vars PROVE OneFrame' /\ DrivenIsLive'
    OBVIOUS
<1>0. OneFrame /\ DrivenIsLive
    BY DEF StreamInv
<1>t. /\ handedOff \in [Transfer -> BOOLEAN] /\ pumping \in [Transfer -> BOOLEAN]
      /\ state \in [Transfer -> {"none", "live", "finished", "destroyed"}]
      /\ (io # "idle" => cur \in Transfer)
    BY DEF StreamInv, TypeOK, TransferTypes
<1>1. ASSUME UNCHANGED <<ioVars, pumping, onwrite>>,
             io # "idle" => handedOff'[cur] /\ state'[cur] = "live"
      PROVE  OneFrame' /\ DrivenIsLive'
    BY <1>0, <1>1 DEF OneFrame, DrivenIsLive, Driving
<1>2. ASSUME io' = "idle", frames' = 0, \A t \in Transfer : ~pumping'[t]
      PROVE  OneFrame' /\ DrivenIsLive'
    BY <1>2 DEF OneFrame, DrivenIsLive, Driving
<1>3. ASSUME io = "idle" PROVE frames = 0 /\ \A t \in Transfer : ~pumping[t]
    BY <1>3, <1>0 DEF OneFrame, Driving
<1>4. ASSUME io \in {"pump", "write", "written"}, LeavePump PROVE OneFrame' /\ DrivenIsLive'
    <2>1. frames = 1 /\ frames' = 0 /\ io' = "idle"
        BY <1>0, <1>4 DEF OneFrame, Driving, LeavePump
    <2>2. \A t \in Transfer : ~pumping'[t]
        BY <1>0, <1>t, <1>4 DEF OneFrame, Driving, LeavePump
    <2> QED
        BY <1>2, <2>1, <2>2
<1>5. ASSUME NEW t \in Transfer, Dispatch(t) \/ SendRefused(t) \/ Returns(t) \/ TaskEnds(t)
      PROVE  OneFrame' /\ DrivenIsLive'
    BY <1>0, <1>1, <1>5 DEF Dispatch, SendRefused, TaskEnds, Returns, HandlerReturns,
                            HandlerThrows, RouteLooks, DrivenIsLive
<1>6. ASSUME NEW t \in Transfer, SendPrepares(t) \/ SendThrows(t) \/ SendPosts(t)
      PROVE  OneFrame' /\ DrivenIsLive'
    <2>1. ~handedOff[t]
        BY <1>6 DEF SendPrepares, SendThrows, SendPosts, WorkerMoves, StreamInv, Phases, PhaseOf,
                    Fresh, Prepared
    <2>2. ASSUME io # "idle" PROVE handedOff'[cur] /\ state'[cur] = "live"
        <3>1. cur \in Transfer /\ cur # t /\ handedOff[cur] /\ state[cur] = "live"
            BY <1>0, <1>t, <2>1, <2>2 DEF DrivenIsLive
        <3>2. handedOff'[cur] = handedOff[cur]
            BY <1>t, <1>6, <3>1 DEF SendPrepares, SendThrows, SendPosts
        <3>3. state'[cur] = state[cur]
            BY <1>t, <1>6, <3>1 DEF SendPrepares, SendThrows, SendPosts, Finish
        <3> QED
            BY <3>1, <3>2, <3>3
    <2>3. UNCHANGED <<ioVars, pumping, onwrite>>
        BY <1>6 DEF SendPrepares, SendThrows, SendPosts
    <2> QED
        BY <1>1, <2>2, <2>3
<1>7. ASSUME NEW t \in Transfer, StartDisconnected(t) \/ StartEmpty(t) \/ Cleanup(t)
      PROVE  OneFrame' /\ DrivenIsLive'
    <2>1. io = "idle" /\ UNCHANGED <<ioVars, pumping>>
        BY <1>7 DEF StartDisconnected, StartEmpty, Cleanup, Takes
    <2> QED
        BY <1>2, <1>3, <2>1
<1>8. ASSUME NEW t \in Transfer, StartStreaming(t) PROVE OneFrame' /\ DrivenIsLive'
    <2>1. Takes("start", t)
        BY <1>8 DEF StartStreaming
    <2>2. Running(t)
        BY <2>1, BeginningTaken
    <2> QED
        BY <1>3, <1>8, <2>1, <2>2 DEF StartStreaming, Takes, Running, OneFrame, DrivenIsLive,
                                      Driving
<1>9. ASSUME NEW t \in Transfer, NEW caller, EnterPump(t, caller), UNCHANGED <<callbacks, task, state>>,
             caller = "idle" => frames = 0 /\ (\A u \in Transfer : ~pumping[u]),
             caller = "written" => t = cur /\ io = "write",
             caller \in {"idle", "written"}, handedOff[t],
             state[t] # "finished" => state[t] = "live" /\ onwrite = t
      PROVE  OneFrame' /\ DrivenIsLive'
    <2>1. CASE caller = "idle"
        <3>1. CASE state[t] = "finished"
            BY <1>2, <1>9, <2>1, <3>1 DEF EnterPump
        <3>2. CASE state[t] # "finished"
            <4>1. /\ io' = "pump" /\ cur' = t /\ frames' = 1
                  /\ pumping' = [pumping EXCEPT ![t] = TRUE]
                BY <1>9, <2>1, <3>2 DEF EnterPump
            <4>2. \A u \in Transfer : pumping'[u] <=> u = t
                BY <1>t, <1>9, <2>1, <4>1
            <4> QED
                BY <1>9, <3>2, <4>1, <4>2 DEF OneFrame, DrivenIsLive, Driving
        <3> QED
            BY <3>1, <3>2
    <2>2. CASE caller = "written"
        <3>1. pumping[t]
            BY <1>0, <1>9, <2>2 DEF OneFrame, Driving
        <3>2. io' = "written" /\ UNCHANGED <<cur, frames, pumping>>
            BY <1>9, <2>2, <3>1 DEF EnterPump
        <3> QED
            BY <1>0, <1>9, <2>2, <3>2 DEF OneFrame, DrivenIsLive, Driving
    <2> QED
        BY <1>9, <2>1, <2>2
<1>10. CASE HeadersFail \/ HeadersBuffered
    <2>1. io' = "idle" /\ io = "headers" /\ UNCHANGED <<frames, pumping>>
        BY <1>10 DEF HeadersFail, HeadersBuffered
    <2>2. frames = 0 /\ \A t \in Transfer : ~pumping[t]
        BY <1>0, <2>1 DEF OneFrame, Driving
    <2> QED
        BY <1>2, <2>1, <2>2
<1>11. CASE HeadersDrained
    <2>1. /\ io = "headers" /\ EnterPump(cur, "idle") /\ UNCHANGED <<callbacks, task, state>>
        BY <1>11 DEF HeadersDrained
    <2>2. frames = 0 /\ \A t \in Transfer : ~pumping[t]
        BY <1>0, <2>1 DEF OneFrame, Driving
    <2>3. cur \in Transfer /\ handedOff[cur] /\ state[cur] = "live" /\ onwrite = cur
        BY <2>1, InsideWriter DEF Running
    <2> QED
        BY <1>9, <2>1, <2>2, <2>3
<1>12. CASE PumpStops \/ PumpDisconnected \/ PumpReadsNothing \/ WriteFails \/ PumpEnds
    BY <1>4, <1>12 DEF PumpStops, PumpDisconnected, PumpReadsNothing, WriteFails, PumpEnds,
                       PumpFailsOn
<1>13. CASE PumpReads \/ PumpGoesOn \/ WriteBuffered
    <2>1. /\ io \in {"pump", "write", "written"} /\ io' \in {"pump", "write", "written"}
          /\ UNCHANGED <<cur, frames, pumping, handedOff, state, onwrite>>
        BY <1>13 DEF PumpReads, PumpGoesOn, WriteBuffered, WriteAccepted
    <2> QED
        BY <1>0, <2>1 DEF OneFrame, DrivenIsLive, Driving
<1>14. CASE WriteDrained
    <2>1. io = "write" /\ EnterPump(cur, "written") /\ UNCHANGED <<callbacks, task, state>>
        BY <1>14 DEF WriteDrained, WriteAccepted
    <2>2. cur \in Transfer /\ handedOff[cur] /\ state[cur] = "live" /\ onwrite = cur
        BY <2>1, InsideWriter DEF Running
    <2> QED
        BY <1>9, <2>1, <2>2
<1>15. CASE SocketDrains
    <2>1. io = "idle" /\ UNCHANGED <<callbacks, task, state>>
        BY <1>15 DEF SocketDrains
    <2>2. CASE onwrite = None
        <3>1. UNCHANGED <<ioVars, pumping>>
            BY <1>15, <2>2 DEF SocketDrains
        <3> QED
            BY <1>2, <1>3, <2>1, <3>1
    <2>3. CASE onwrite # None
        <3>1. EnterPump(onwrite, "idle")
            BY <1>15, <2>3 DEF SocketDrains
        <3>2. onwrite \in Transfer /\ TakenOver(onwrite) /\ handedOff[onwrite]
            BY <2>3 DEF StreamInv, TypeOK, TransferTypes, Callbacks, TakenOver
        <3>3. state[onwrite] \in {"live", "finished"}
            BY <3>2, HandedOffPhase DEF StreamInv, HandedOff, Running, Failed, Served
        <3> QED
            BY <1>3, <1>9, <2>1, <3>1, <3>2, <3>3
    <2> QED
        BY <2>2, <2>3
<1>16. CASE SocketCloses
    <2>1. io = "idle" /\ UNCHANGED <<ioVars, pumping>>
        BY <1>16 DEF SocketCloses
    <2> QED
        BY <1>2, <1>3, <2>1
<1>17. CASE Disconnect \/ UNCHANGED vars
    BY <1>0, <1>1, <1>17 DEF Disconnect, DrivenIsLive
<1> QED
    BY <1>5, <1>6, <1>7, <1>8, <1>10, <1>11, <1>12, <1>13, <1>14, <1>15, <1>16, <1>17
    DEF Next, WorkerStep, Returns, LoopStep, PumpStep

-----------------------------------------------------------------------------
LEMMA StreamInvInit == Init => StreamInv
<1> SUFFICES ASSUME Init PROVE StreamInv
    OBVIOUS
<1>1. TypeOK
    <2>1. <<>> \in Seq(Event) /\ <<>> \in Seq(BOOLEAN) /\ 0 \in 0 .. MaxLen
        BY LengthAssumption, EmptySeq
    <2>2. loop \in Seq(Event) /\ reports \in [Transfer -> Seq(BOOLEAN)]
        BY <2>1 DEF Init
    <2>3. /\ len \in [Transfer -> 0 .. MaxLen] /\ remaining \in [Transfer -> 0 .. MaxLen]
          /\ avail \in [Transfer -> 0 .. MaxLen] /\ sent \in [Transfer -> 0 .. MaxLen]
        BY <2>1 DEF Init
    <2> QED
        BY <2>2, <2>3 DEF Init, TypeOK, ResponseTypes, TransferTypes
<1>2. OneFrame /\ DrivenIsLive /\ Callbacks
    BY DEF Init, OneFrame, Driving, DrivenIsLive, Callbacks
<1>3. Phases /\ Amounts /\ OneOpen
    BY LengthAssumption
    DEF Init, Phases, PhaseOf, Fresh, Ended, Amounts, AmountsOf, OneOpen, Open
<1>4. EventsInOrder /\ LiveIsDriven
    BY EmptySeq DEF Init, EventsInOrder, LiveIsDriven
<1>5. Counts
    <2>1. {t \in Transfer : Started(t)} = {} /\ Live = {} /\ FailedOnce = {}
        BY DEF Init, Started, Live, FailedOnce
    <2> QED
        BY <2>1, FS_EmptySet DEF Init, Counts
<1> QED
    BY <1>1, <1>2, <1>3, <1>4, <1>5 DEF StreamInv

LEMMA StreamInvKept == StreamInv /\ [Next]_vars => StreamInv'
BY StreamTypes, InsideKept, PhasesKept, AmountsKept, OneOpenKept, CallbacksKept, EventsKept,
   DrivenKept, CountsKept
   DEF StreamInv

(* The transfers of a connection always satisfy the invariant above. *)
THEOREM StreamInvariant == Spec => []StreamInv
BY StreamInvInit, StreamInvKept, PTL DEF Spec

(* Tasks, events and transfers keep their types; in particular activeCount *)
(* never goes below zero, and what is left to read never below what the    *)
(* client was promised less what it was sent.                              *)
THEOREM TypeCorrect == Spec => []TypeOK
<1>1. StreamInv => TypeOK
    BY DEF StreamInv
<1> QED
    BY <1>1, StreamInvariant, PTL

(* pump() never gets a second frame on the stack: a write that drains at   *)
(* once calls onwrite from inside pump(), which finds "pumping" set.       *)
THEOREM PumpIsNotNested == Spec => []NoPumpInPump
<1>1. StreamInv => NoPumpInPump
    BY DEF StreamInv, OneFrame, NoPumpInPump
<1> QED
    BY <1>1, StreamInvariant, PTL

(* Every send() reports exactly once, and activeCount and errorCount are   *)
(* the numbers of transfers in flight and of transfers that failed.        *)
THEOREM EverySendReportsOnce == Spec => []ReportedOnce
<1>1. StreamInv => ReportedOnce
    <2> SUFFICES ASSUME StreamInv PROVE ReportedOnce
        OBVIOUS
    <2>1. active = Cardinality({t \in Transfer : state[t] = "live"})
          /\ errors = Cardinality({t \in Transfer : Started(t) /\ reports[t] = <<FALSE>>})
        BY DEF StreamInv, Counts, Live, FailedOnce
    <2>2. ASSUME NEW t \in Transfer
          PROVE  /\ wpc[t] \in {"none", "opening", "prepared"} \/ state[t] = "live" => reports[t] = <<>>
                 /\ wpc[t] \in {"returned", "ending", "done"} /\ state[t] # "live" => Len(reports[t]) = 1
        <3>1. PhaseOf(t) /\ wpc[t] \in {"none", "opening", "prepared", "returned", "ending", "done"}
            BY DEF StreamInv, TypeOK, TransferTypes, Phases
        <3> QED
            BY <3>1, Reports
            DEF PhaseOf, Fresh, Prepared, Kept, HandedOff, Running, Failed, Served
    <2> QED
        BY <2>1, <2>2 DEF ReportedOnce
<1> QED
    BY <1>1, StreamInvariant, PTL

(* Unless a handler threw after send(), a response is ended at most once,  *)
(* by the route or by the transfer, and by the transfer only when the      *)
(* whole body was accepted; a success is only reported of such a response. *)
THEOREM ResponseEndedOnceAndWhole == Spec => []EndedOnceAndWhole
<1>1. StreamInv => EndedOnceAndWhole
    <2> SUFFICES ASSUME StreamInv, NEW t \in Transfer
                 PROVE  /\ ~thrown =>
                            /\ ends[t] <= 1
                            /\ TakenOver(t) /\ ends[t] = 1 =>
                                    sent[t] = len[t] /\ reports[t] = <<TRUE>>
                        /\ reports[t] = <<TRUE>> => ends[t] >= 1 /\ sent[t] = len[t]
        BY DEF EndedOnceAndWhole
    <2>1. /\ PhaseOf(t) /\ wpc[t] \in {"none", "opening", "prepared", "returned", "ending", "done"}
          /\ ends[t] \in Nat
        BY DEF StreamInv, TypeOK, TransferTypes, Phases
    <2>2. <<>> # <<TRUE>> /\ <<FALSE>> # <<TRUE>>
        BY Reports
    <2>3. \/ Fresh(t) \/ Prepared(t) \/ Running(t) \/ Failed(t) \/ Served(t)
          \/ Kept(t) /\ (Ended(t, 0) \/ Ended(t, 1))
        BY <2>1 DEF PhaseOf, HandedOff
    <2>4. CASE Fresh(t) \/ Prepared(t) \/ Running(t)
        <3>1. reports[t] = <<>> /\ Ended(t, 0)
            BY <2>4 DEF Fresh, Prepared, Running
        <3> QED
            BY <2>2, <3>1 DEF Ended
    <2>5. CASE Failed(t)
        BY <2>2, <2>5 DEF Failed, Ended
    <2>6. CASE Served(t)
        BY <2>6 DEF Served, Ended
    <2>7. CASE Kept(t) /\ (Ended(t, 0) \/ Ended(t, 1))
        BY <2>2, <2>7 DEF Kept, Ended
    <2> QED
        BY <2>3, <2>4, <2>5, <2>6, <2>7
<1> QED
    BY <1>1, StreamInvariant, PTL

(* A transfer that is under way, its first event taken, holds onwrite and  *)
(* onclose: no cleanup of an earlier one can have cleared them.            *)
THEOREM CallbacksStayInstalled == Spec => []CallbacksInstalled
<1>1. StreamInv => CallbacksInstalled
    <2> SUFFICES ASSUME StreamInv, NEW t \in Transfer, handedOff[t], state[t] = "live",
                        ~(\E i \in 1 .. Len(loop) : loop[i].of = t)
                 PROVE  onwrite = t /\ onclose = t
        BY DEF CallbacksInstalled
    <2>1. Driven(t)
        BY RunningIsDriven DEF StreamInv
    <2>2. loop # <<>> => Len(loop) \in 1 .. Len(loop)
        BY EmptySeq, LenProperties DEF StreamInv, TypeOK, TransferTypes
    <2>3. onwrite = t
        BY <2>1, <2>2 DEF Driven
    <2> QED
        BY <2>3 DEF StreamInv, Callbacks
<1> QED
    BY <1>1, StreamInvariant, PTL

(* As long as events can be posted, ownership of the writer ends in an     *)
(* event of its own or in a send() that failed, never inside a callback.   *)
THEOREM ReleasedInItsOwnEvent == Spec => ReleasedOutsideCallbacks
<1>1. StreamInv /\ [Next]_vars =>
        [\A t \in Transfer :
            owned[t] /\ ~owned'[t] => ~attached \/ wpc[t] = "prepared" \/ Takes("cleanup", t)]_vars
    <2> SUFFICES ASSUME StreamInv, Next, NEW t \in Transfer, owned[t], ~owned'[t], attached
                 PROVE  wpc[t] = "prepared" \/ Takes("cleanup", t)
        OBVIOUS
    <2>0. owned \in [Transfer -> BOOLEAN]
        BY DEF StreamInv, TypeOK, TransferTypes
    <2>1. CASE UNCHANGED owned
        BY <2>1
    <2>2. ASSUME NEW u \in Transfer, SendPrepares(u) PROVE FALSE
        BY <2>0, <2>2 DEF SendPrepares
    <2>3. ASSUME NEW u \in Transfer, SendThrows(u) PROVE wpc[t] = "prepared"
        BY <2>0, <2>3 DEF SendThrows, WorkerMoves
    <2>4. ASSUME NEW u \in Transfer, Cleanup(u) PROVE Takes("cleanup", t)
        BY <2>0, <2>4 DEF Cleanup
    <2>5. ASSUME NEW u, NEW success, NEW rest, Finish(u, success, rest) PROVE UNCHANGED owned
        BY <2>5 DEF Finish
    <2>6. ASSUME NEW u \in Transfer,
                 Dispatch(u) \/ SendRefused(u) \/ SendPosts(u) \/ Returns(u) \/ TaskEnds(u)
                    \/ StartDisconnected(u) \/ StartEmpty(u) \/ StartStreaming(u)
          PROVE  UNCHANGED owned
        BY <2>5, <2>6 DEF Dispatch, SendRefused, SendPosts, TaskEnds, Returns, HandlerReturns,
                          HandlerThrows, RouteLooks, StartDisconnected, StartEmpty,
                          StartStreaming
    <2>7. ASSUME PumpStep \/ SocketDrains \/ SocketCloses \/ Disconnect PROVE UNCHANGED owned
        BY <2>5, <2>7
        DEF PumpStep, SocketDrains, SocketCloses, Disconnect, HeadersFail, HeadersBuffered,
            HeadersDrained, PumpStops, PumpDisconnected, PumpReadsNothing, PumpFailsOn, PumpReads,
            WriteFails, WriteBuffered, WriteDrained, WriteAccepted, PumpEnds, PumpGoesOn
    <2> QED
        BY <2>1, <2>2, <2>3, <2>4, <2>6, <2>7 DEF Next, WorkerStep, Returns, LoopStep
<1> QED
    BY <1>1, StreamInvariant, PTL DEF Spec, ReleasedOutsideCallbacks

-----------------------------------------------------------------------------
(* What is left of TransferEnds and WriterReleased without fairness.       *)
UnderWay(t) == handedOff[t] /\ state[t] = "live"

(* Nothing to do for the loop's thread: then the writer has bytes to give  *)
(* to the peer, or its close is still to be handled.                       *)
PeerAwaited ==
    /\ closeSeen => ~connected
    /\ io # "idle" => ~closeSeen
    /\ \A t \in Transfer : UnderWay(t) /\ io = "idle" /\ loop = <<>> =>
                             IF connected THEN buffered ELSE ~closeSeen

AwaitInv == StreamInv /\ PeerAwaited

(* Steps the code has left for a transfer, SocketDrains apart.             *)
StepsOfPosition == [idle |-> 0, pump |-> 1, headers |-> 2, written |-> 2, write |-> 3]
StepsOfSocket == IF closeSeen THEN 0 ELSE IF connected THEN 2 ELSE 1
StepsLeft(t) ==
    4 * (remaining[t] + Len(loop)) + StepsOfPosition[io] + StepsOfSocket

Nearer(t) == StepsLeft(t) \in Nat /\ StepsLeft(t)' \in Nat /\ StepsLeft(t)' < StepsLeft(t)

(* Somebody has a step to take for a download under way.                   *)
TransferNeverStranded ==
    \A t \in Transfer : UnderWay(t) =>
        \/ io # "idle" /\ cur = t
        \/ \E u \in Transfer : \E kind \in {"start", "empty", "cleanup"} : Takes(kind, u)
        \/ connected /\ buffered /\ onwrite = t
        \/ ~connected /\ ~closeSeen /\ onclose = t

(* No step of the code puts the end of a download off.                     *)
OnlyDrainsPutOff ==
    [][\A t \in Transfer : UnderWay(t) /\ UnderWay(t)' =>
        Nearer(t) \/ SocketDrains \/ \E u \in Transfer : Returns(u) \/ TaskEnds(u)]_vars

(* What still owns the writer after finish() has its cleanup on the way.   *)
CleanupPosted ==
    \A t \in Transfer : state[t] = "finished" /\ owned[t] =>
        \E i \in 1 .. Len(loop) : loop[i] = EventOf("cleanup", t)

LEMMA OnlyOneUnderWay ==
    ASSUME StreamInv, NEW t \in Transfer, UnderWay(t)
    PROVE  /\ \A u \in Transfer : Open(u) => u = t
           /\ \A u \in Transfer : UnderWay(u) => u = t
           /\ io # "idle" => cur = t
           /\ loop = <<>> => onwrite = t /\ onclose = t
           /\ ResponseOpen \/ thrown
           /\ wpc[t] \in {"returned", "ending", "done"}
<1>1. \A u \in Transfer : UnderWay(u) => Open(u) /\ Driven(u)
    BY RunningIsDriven DEF StreamInv, UnderWay
<1>2. \A u \in Transfer : Open(u) => u = t
    BY <1>1 DEF StreamInv, OneOpen
<1>3. io # "idle" => cur \in Transfer /\ Open(cur)
    BY InsideWriter
<1>4. loop = <<>> => onwrite = t /\ onclose = t
    BY <1>1 DEF Driven, StreamInv, Callbacks
<1>5. (ResponseOpen \/ thrown) /\ wpc[t] \in {"returned", "ending", "done"}
    <2>1. TakenOver(t) /\ Running(t)
        BY RunningIsDriven DEF StreamInv, UnderWay, TakenOver
    <2>2. wpc[t] \in {"returned", "ending", "done"}
        BY <2>1, HandedOffPhase DEF StreamInv
    <2> QED
        BY <2>1, <2>2 DEF ResponseOpen, Running, Ended
<1> QED
    BY <1>1, <1>2, <1>3, <1>4, <1>5

(* Nobody is under way any more once a transfer has been finished. *)
LEMMA FinishedIsOver ==
    ASSUME StreamInv, NEW t \in Transfer, UnderWay(t), UNCHANGED handedOff,
           NEW success, NEW rest, Finish(t, success, rest)
    PROVE  \A u \in Transfer : ~UnderWay(u)'
<1>1. state' = [state EXCEPT ![t] = "finished"]
    BY DEF Finish, UnderWay
<1>2. state \in [Transfer -> {"none", "live", "finished", "destroyed"}]
    BY DEF StreamInv, TypeOK, TransferTypes
<1> QED
    BY <1>1, <1>2, OnlyOneUnderWay DEF UnderWay

LEMMA SendsLeaveUnderWay ==
    ASSUME StreamInv, NEW u \in Transfer,
           Dispatch(u) \/ SendRefused(u) \/ SendPrepares(u) \/ SendThrows(u) \/ SendPosts(u)
    PROVE  \A t \in Transfer : ~UnderWay(t)
<1>1. CASE Dispatch(u)
    BY <1>1, OnlyOneUnderWay DEF Dispatch
<1>2. CASE SendRefused(u) \/ SendPrepares(u) \/ SendThrows(u) \/ SendPosts(u)
    <2>1. wpc[u] \in {"opening", "prepared"}
        BY <1>2 DEF SendRefused, SendPrepares, SendThrows, SendPosts, WorkerMoves
    <2>2. Open(u)
        BY <2>1 DEF Open
    <2> QED
        BY <2>1, <2>2, OnlyOneUnderWay
<1> QED
    BY <1>1, <1>2

LEMMA AwaitInit == Init => PeerAwaited
BY DEF Init, PeerAwaited, UnderWay

LEMMA AwaitKept == StreamInv /\ StreamInv' /\ PeerAwaited /\ [Next]_vars => PeerAwaited'
<1> SUFFICES ASSUME StreamInv, StreamInv', PeerAwaited, [Next]_vars PROVE PeerAwaited'
    OBVIOUS
<1>t. /\ state \in [Transfer -> {"none", "live", "finished", "destroyed"}]
      /\ handedOff \in [Transfer -> BOOLEAN]
      /\ connected \in BOOLEAN /\ closeSeen \in BOOLEAN /\ buffered \in BOOLEAN
      /\ loop \in Seq(Event)
    BY DEF StreamInv, TypeOK, TransferTypes
<1>c. (closeSeen => ~connected) /\ (io # "idle" => ~closeSeen)
    BY DEF PeerAwaited
<1>u. ASSUME NEW u \in Transfer, UnderWay(u)', loop' = <<>> PROVE onwrite' = u /\ onclose' = u
    <2>1. LiveIsDriven' /\ Callbacks'
        BY DEF StreamInv
    <2> QED
        BY <1>u, <2>1 DEF LiveIsDriven, Driven, UnderWay, Callbacks
<1>p. ASSUME UNCHANGED <<connected, closeSeen>>, io' # "idle", ~closeSeen PROVE PeerAwaited'
    BY <1>c, <1>p DEF PeerAwaited
<1>f. ASSUME UNCHANGED <<connected, closeSeen>>, io' = "idle", \A u \in Transfer : ~UnderWay(u)'
      PROVE  PeerAwaited'
    BY <1>c, <1>f DEF PeerAwaited
<1>1. ASSUME NEW t \in Transfer, WorkerStep(t) \/ Dispatch(t) PROVE PeerAwaited'
    <2>1. UNCHANGED <<connected, closeSeen, io, buffered>>
        BY <1>1 DEF WorkerStep, Dispatch, SendRefused, SendPrepares, SendThrows, SendPosts,
                    TaskEnds, Returns, HandlerReturns, HandlerThrows, RouteLooks
    <2>2. ASSUME NEW u \in Transfer, UnderWay(u)', loop' = <<>> PROVE UnderWay(u) /\ loop = <<>>
        <3>1. CASE Dispatch(t) \/ SendRefused(t) \/ Returns(t) \/ TaskEnds(t)
            BY <2>2, <3>1 DEF Dispatch, SendRefused, TaskEnds, Returns, HandlerReturns,
                              HandlerThrows, RouteLooks, UnderWay
        <3>2. CASE SendPrepares(t)
            <4>1. ~handedOff[t]
                BY <3>2 DEF SendPrepares, WorkerMoves, StreamInv, Phases, PhaseOf, Fresh
            <4> QED
                BY <1>t, <2>2, <3>2, <4>1 DEF SendPrepares, UnderWay
        <3>3. CASE SendThrows(t)
            BY <1>t, <2>2, <3>3 DEF SendThrows, UnderWay
        <3>4. CASE SendPosts(t)
            <4>1. onwrite' = u /\ onwrite' = onwrite
                BY <1>u, <2>2, <3>4 DEF SendPosts
            <4>2. u # t
                <5>1. ~handedOff[t] /\ (onwrite # None => handedOff[onwrite])
                    BY <3>4 DEF SendPosts, WorkerMoves, StreamInv, Phases, PhaseOf, Prepared,
                                Callbacks, TakenOver
                <5>2. u # None
                    BY NoneAssumption
                <5> QED
                    BY <4>1, <5>1, <5>2
            <4>3. UnderWay(u)
                BY <1>t, <2>2, <3>4, <4>2 DEF SendPosts, Finish, UnderWay
            <4> QED
                BY <4>3, <3>4, SendsLeaveUnderWay
        <3> QED
            BY <1>1, <3>1, <3>2, <3>3, <3>4 DEF WorkerStep, Returns
    <2> QED
        BY <2>1, <2>2 DEF PeerAwaited
<1>2. ASSUME NEW t \in Transfer, StartDisconnected(t) \/ StartEmpty(t) PROVE PeerAwaited'
    <2>1. UnderWay(t)
        BY <1>2, BeginningTaken DEF StartDisconnected, StartEmpty, Running, UnderWay
    <2>2. PICK success \in BOOLEAN, rest \in {Tail(loop)} : Finish(t, success, rest)
        BY <1>2 DEF StartDisconnected, StartEmpty
    <2>3. UNCHANGED <<connected, closeSeen, handedOff>> /\ io' = "idle"
        BY <1>2 DEF StartDisconnected, StartEmpty, Takes
    <2> QED
        BY <1>f, <2>1, <2>2, <2>3, FinishedIsOver
<1>3. ASSUME NEW t \in Transfer, StartStreaming(t) PROVE PeerAwaited'
    BY <1>c, <1>p, <1>3 DEF StartStreaming
<1>4. ASSUME NEW t \in Transfer, Cleanup(t) PROVE PeerAwaited'
    <2>1. UNCHANGED <<connected, closeSeen, io>> /\ onwrite' = None
        BY <1>4 DEF Cleanup
    <2>2. ASSUME NEW u \in Transfer, UnderWay(u)', loop' = <<>> PROVE FALSE
        BY <1>u, <2>1, <2>2, NoneAssumption
    <2> QED
        BY <1>c, <2>1, <2>2 DEF PeerAwaited
<1>5. CASE HeadersFail \/ PumpDisconnected \/ PumpReadsNothing \/ WriteFails \/ PumpEnds
    <2>1. cur \in Transfer /\ UnderWay(cur)
        BY <1>5, InsideWriter
        DEF HeadersFail, PumpDisconnected, PumpReadsNothing, WriteFails, PumpFailsOn, PumpEnds,
            Running, UnderWay
    <2>2. PICK success \in BOOLEAN : Finish(cur, success, loop)
        BY <1>5 DEF HeadersFail, PumpDisconnected, PumpReadsNothing, WriteFails, PumpFailsOn,
                    PumpEnds
    <2>3. UNCHANGED <<connected, closeSeen, handedOff>>
        BY <1>5 DEF HeadersFail, PumpDisconnected, PumpReadsNothing, WriteFails, PumpFailsOn,
                    PumpEnds
    <2>4. \A u \in Transfer : ~UnderWay(u)'
        BY <2>1, <2>2, <2>3, FinishedIsOver
    <2>5. ~closeSeen
        BY <1>c, <1>5
        DEF HeadersFail, PumpDisconnected, PumpReadsNothing, WriteFails, PumpFailsOn, PumpEnds
    <2> QED
        BY <1>c, <2>3, <2>4, <2>5 DEF PeerAwaited
<1>6. CASE HeadersBuffered
    BY <1>c, <1>6 DEF HeadersBuffered, PeerAwaited
<1>7. CASE HeadersDrained
    <2>1. state[cur] = "live" /\ ~pumping[cur]
        BY <1>7 DEF HeadersDrained, StreamInv, OneFrame, Driving, DrivenIsLive, TypeOK,
                    TransferTypes
    <2> QED
        BY <1>c, <1>p, <1>7, <2>1 DEF HeadersDrained, EnterPump
<1>8. CASE PumpStops
    <2>1. state[cur] = "live"
        BY <1>8 DEF PumpStops, StreamInv, DrivenIsLive
    <2> QED
        BY <1>c, <1>8, <2>1 DEF PumpStops, PeerAwaited
<1>9. CASE PumpReads \/ WriteBuffered \/ PumpGoesOn
    BY <1>c, <1>p, <1>9 DEF PumpReads, WriteBuffered, WriteAccepted, PumpGoesOn
<1>10. CASE WriteDrained
    <2>1. io' \in {"written", "pump"} /\ io = "write" /\ UNCHANGED <<connected, closeSeen>>
        BY <1>10 DEF WriteDrained, WriteAccepted, EnterPump
    <2> QED
        BY <1>c, <1>p, <2>1
<1>11. CASE SocketDrains
    <2>1. io = "idle" /\ connected /\ ~closeSeen
        BY <1>c, <1>11 DEF SocketDrains
    <2>2. UNCHANGED <<connected, closeSeen, loop, onwrite, handedOff, state>>
        BY <1>11 DEF SocketDrains
    <2>3. ASSUME NEW u \in Transfer, UnderWay(u)', loop' = <<>> PROVE io' # "idle"
        <3>1. onwrite = u /\ state[u] = "live" /\ u # None
            BY <1>u, <2>2, <2>3, NoneAssumption DEF UnderWay
        <3>2. ~pumping[u]
            BY <2>1 DEF StreamInv, OneFrame, Driving
        <3>3. EnterPump(u, "idle")
            BY <1>11, <3>1 DEF SocketDrains
        <3> QED
            BY <3>1, <3>2, <3>3 DEF EnterPump
    <2> QED
        BY <2>1, <2>2, <2>3 DEF PeerAwaited
<1>12. CASE SocketCloses
    <2>1. UNCHANGED <<connected, io, onclose, handedOff>> /\ io = "idle" /\ ~connected
        BY <1>12 DEF SocketCloses
    <2>2. ASSUME NEW u \in Transfer, UnderWay(u)', loop' = <<>> PROVE FALSE
        <3>1. onclose = u /\ u # None
            BY <1>u, <2>1, <2>2, NoneAssumption
        <3>2. Finish(u, FALSE, loop)
            BY <1>12, <3>1 DEF SocketCloses
        <3>3. state'[u] = "finished"
            BY <1>t, <3>2 DEF Finish
        <3> QED
            BY <2>2, <3>3 DEF UnderWay
    <2> QED
        BY <2>1, <2>2 DEF PeerAwaited
<1>13. CASE Disconnect
    BY <1>c, <1>13 DEF Disconnect, PeerAwaited
<1>14. CASE UNCHANGED vars
    BY <1>14 DEF PeerAwaited, UnderWay
<1> QED
    BY <1>1, <1>2, <1>3, <1>4, <1>5, <1>6, <1>7, <1>8, <1>9, <1>10, <1>11, <1>12, <1>13, <1>14
    DEF Next, LoopStep, PumpStep

LEMMA AwaitInvariant == Spec => []AwaitInv
<1>1. Init => AwaitInv
    BY StreamInvInit, AwaitInit DEF AwaitInv
<1>2. AwaitInv /\ [Next]_vars => AwaitInv'
    BY StreamInvKept, AwaitKept DEF AwaitInv
<1> QED
    BY <1>1, <1>2, PTL DEF Spec

(* A download under way is never left to nobody: the loop's thread is in   *)
(* its pump(), or has an event to take, or the peer has bytes to read and  *)
(* onwrite then goes on, or the close is still to come and onclose ends    *)
(* it.  In particular no onwrite is lost while pump() ignores it.          *)
THEOREM DownloadNeverStranded == Spec => []TransferNeverStranded
<1>1. AwaitInv => TransferNeverStranded
    <2> SUFFICES ASSUME AwaitInv, NEW t \in Transfer, UnderWay(t), io = "idle"
                 PROVE  \/ \E u \in Transfer : \E kind \in {"start", "empty", "cleanup"} :
                                Takes(kind, u)
                        \/ connected /\ buffered /\ onwrite = t
                        \/ ~connected /\ ~closeSeen /\ onclose = t
        BY OnlyOneUnderWay DEF TransferNeverStranded, AwaitInv
    <2>1. CASE loop = <<>>
        BY <2>1, OnlyOneUnderWay DEF AwaitInv, PeerAwaited
    <2>2. CASE loop # <<>>
        <3>1. Head(loop) \in Event
            BY <2>2, HeadTailProperties DEF AwaitInv, StreamInv, TypeOK, TransferTypes
        <3>2. Head(loop) = EventOf(Head(loop).kind, Head(loop).of)
            BY <3>1 DEF Event, EventOf
        <3> QED
            BY <2>2, <3>1, <3>2 DEF Takes, Event
    <2> QED
        BY <2>1, <2>2
<1> QED
    BY <1>1, AwaitInvariant, PTL

LEMMA CleanupTakes ==
    ASSUME StreamInv, NEW t \in Transfer, Cleanup(t)
    PROVE  Len(loop') = Len(loop) - 1 /\ Len(loop) \in Nat \ {0}
<1>1. loop \in Seq(Event) /\ loop # <<>> /\ loop' = Tail(loop)
    BY DEF Cleanup, Takes, StreamInv, TypeOK, TransferTypes
<1> QED
    BY <1>1, EmptySeq, LenProperties, HeadTailProperties

LEMMA StepsAreANumber ==
    ASSUME NEW bytes \in Nat, NEW events \in Nat, NEW position \in Nat, NEW socketSteps \in Nat
    PROVE  4 * (bytes + events) + position + socketSteps \in Nat
OBVIOUS

(* Every step of the code brings the end of a download nearer, of which    *)
(* StepsLeft says how far it can be; only a peer that takes what is        *)
(* buffered sends the loop's thread into pump() once more.  Tasks of the   *)
(* requests before it may still end.                                       *)
THEOREM OnlyThePeerPutsOff == Spec => OnlyDrainsPutOff
<1>1. AwaitInv /\ AwaitInv' /\ [Next]_vars =>
        [\A t \in Transfer : UnderWay(t) /\ UnderWay(t)' =>
            Nearer(t) \/ SocketDrains \/ \E u \in Transfer : Returns(u) \/ TaskEnds(u)]_vars
    <2> SUFFICES ASSUME AwaitInv, AwaitInv', Next, NEW t \in Transfer, UnderWay(t), UnderWay(t)',
                        ~SocketDrains, \A u \in Transfer : ~(Returns(u) \/ TaskEnds(u))
                 PROVE  Nearer(t)
        OBVIOUS
    <2>i. StreamInv /\ StreamInv' /\ PeerAwaited
        BY DEF AwaitInv
    <2>t. /\ remaining \in [Transfer -> 0 .. MaxLen] /\ avail \in [Transfer -> 0 .. MaxLen]
          /\ remaining[t] \in Nat /\ avail[t] \in Nat /\ remaining'[t] \in Nat
          /\ Len(loop) \in Nat /\ Len(loop') \in Nat /\ loop \in Seq(Event)
          /\ io \in {"idle", "headers", "pump", "write", "written"}
          /\ io' \in {"idle", "headers", "pump", "write", "written"}
          /\ connected \in BOOLEAN /\ closeSeen \in BOOLEAN
        <3>1. loop \in Seq(Event) /\ loop' \in Seq(Event)
            BY <2>i DEF StreamInv, TypeOK, TransferTypes, Event
        <3>2. Len(loop) \in Nat /\ Len(loop') \in Nat
            BY <3>1, LenProperties
        <3>3. /\ remaining[t] \in 0 .. MaxLen /\ avail[t] \in 0 .. MaxLen
              /\ remaining'[t] \in 0 .. MaxLen
            BY <2>i DEF StreamInv, TypeOK, TransferTypes
        <3>4. 0 .. MaxLen \subseteq Nat
            BY LengthAssumption
        <3>5. /\ io \in {"idle", "headers", "pump", "write", "written"}
              /\ io' \in {"idle", "headers", "pump", "write", "written"}
            BY <2>i DEF StreamInv, TypeOK, TransferTypes
        <3> QED
            BY <2>i, <3>1, <3>2, <3>3, <3>4, <3>5 DEF StreamInv, TypeOK, TransferTypes
    <2>p. /\ StepsOfPosition[io] \in Nat /\ StepsOfPosition[io'] \in Nat
          /\ StepsOfSocket \in Nat /\ StepsOfSocket' \in Nat
        BY <2>t DEF StepsOfPosition, StepsOfSocket
    <2>n. Nearer(t) <=> 4 * (remaining'[t] + Len(loop')) + StepsOfPosition[io'] + StepsOfSocket'
                            < 4 * (remaining[t] + Len(loop)) + StepsOfPosition[io] + StepsOfSocket
        <3>1. /\ 4 * (remaining[t] + Len(loop)) + StepsOfPosition[io] + StepsOfSocket \in Nat
              /\ 4 * (remaining'[t] + Len(loop')) + StepsOfPosition[io'] + StepsOfSocket' \in Nat
            BY <2>t, <2>p, StepsAreANumber
        <3> QED
            BY <3>1 DEF Nearer, StepsLeft
    <2>u. /\ \A u \in Transfer : Open(u) => u = t
          /\ io # "idle" => cur = t
          /\ \A u \in Transfer : ~(Dispatch(u) \/ SendRefused(u) \/ SendPrepares(u)
                                        \/ SendThrows(u) \/ SendPosts(u))
        BY <2>i, OnlyOneUnderWay, SendsLeaveUnderWay
    <2>f. ASSUME UNCHANGED handedOff, NEW u \in Transfer, UnderWay(u),
                 NEW success, NEW rest, Finish(u, success, rest)
          PROVE  FALSE
        BY <2>i, <2>f, FinishedIsOver
    <2>s. ASSUME UNCHANGED <<connected, closeSeen>> PROVE StepsOfSocket' = StepsOfSocket
        BY <2>s DEF StepsOfSocket
    <2>1. ASSUME NEW u \in Transfer, LoopStep(u) PROVE Nearer(t)
        <3>1. CASE StartDisconnected(u) \/ StartEmpty(u)
            <4>1. UnderWay(u)
                BY <2>i, <3>1, BeginningTaken DEF StartDisconnected, StartEmpty, Running, UnderWay
            <4> QED
                BY <2>f, <3>1, <4>1 DEF StartDisconnected, StartEmpty
        <3>2. CASE StartStreaming(u)
            <4>1. Tail(loop) = <<>> /\ loop # <<>>
                BY <2>i, <3>2, BeginningTaken DEF StartStreaming, Takes
            <4>2. Len(loop') = 0 /\ Len(loop) >= 1
                <5>1. Len(loop) # 0
                    BY <2>t, <4>1, EmptySeq
                <5>2. loop' = <<>> /\ Len(<<>>) = 0
                    BY <3>2, <4>1 DEF StartStreaming
                <5> QED
                    BY <2>t, <5>1, <5>2
            <4>3. /\ StepsOfPosition[io] = 0 /\ StepsOfPosition[io'] = 2
                  /\ UNCHANGED <<remaining, connected, closeSeen>>
                BY <3>2 DEF StartStreaming, Takes, StepsOfPosition
            <4> QED
                BY <2>t, <2>p, <2>n, <2>s, <4>2, <4>3
        <3>3. CASE Cleanup(u)
            <4>1. UNCHANGED <<remaining, connected, closeSeen, io>>
                BY <3>3 DEF Cleanup
            <4>2. Len(loop') = Len(loop) - 1
                BY <2>i, <3>3, CleanupTakes
            <4>3. StepsOfPosition[io'] = StepsOfPosition[io]
                BY <4>1 DEF StepsOfPosition
            <4> QED
                BY <2>t, <2>p, <2>n, <2>s, <4>1, <4>2, <4>3
        <3> QED
            BY <2>1, <3>1, <3>2, <3>3 DEF LoopStep
    <2>2. CASE HeadersFail \/ PumpDisconnected \/ PumpReadsNothing \/ WriteFails \/ PumpEnds
        <3>1. cur = t
            BY <2>2, <2>u
            DEF HeadersFail, PumpDisconnected, PumpReadsNothing, WriteFails, PumpFailsOn, PumpEnds
        <3>2. PICK success \in BOOLEAN : Finish(cur, success, loop)
            BY <2>2
            DEF HeadersFail, PumpDisconnected, PumpReadsNothing, WriteFails, PumpFailsOn, PumpEnds
        <3>3. UNCHANGED handedOff
            BY <2>2
            DEF HeadersFail, PumpDisconnected, PumpReadsNothing, WriteFails, PumpFailsOn, PumpEnds
        <3> QED
            BY <2>f, <3>1, <3>2, <3>3
    <2>3. ASSUME UNCHANGED <<connected, closeSeen, loop, remaining>>,
                 StepsOfPosition[io'] < StepsOfPosition[io]
          PROVE  Nearer(t)
        BY <2>t, <2>p, <2>n, <2>s, <2>3
    <2>4. CASE HeadersBuffered
        BY <2>3, <2>4 DEF HeadersBuffered, StepsOfPosition
    <2>5. CASE HeadersDrained
        <3>1. io = "headers" /\ io' \in {"pump", "idle"}
            BY <2>5 DEF HeadersDrained, EnterPump
        <3>2. UNCHANGED <<connected, closeSeen, loop, remaining>>
            BY <2>5 DEF HeadersDrained
        <3>3. StepsOfPosition[io'] < StepsOfPosition[io]
            BY <3>1 DEF StepsOfPosition
        <3> QED
            BY <2>3, <3>2, <3>3
    <2>6. CASE PumpStops
        <3>1. io = "pump" /\ io' = "idle"
            BY <2>i, <2>6 DEF PumpStops, LeavePump, StreamInv, OneFrame, Driving
        <3>2. UNCHANGED <<connected, closeSeen, loop, remaining>>
            BY <2>6 DEF PumpStops
        <3>3. StepsOfPosition[io'] < StepsOfPosition[io]
            BY <3>1 DEF StepsOfPosition
        <3> QED
            BY <2>3, <3>2, <3>3
    <2>7. CASE PumpReads
        <3>1. cur = t /\ Got > 0
            BY <2>7, <2>u DEF PumpReads
        <3>2. Got \in Nat
            BY <2>t, <3>1, ChunkAssumption DEF Got, Least
        <3>3. remaining'[t] = remaining[t] - Got
            BY <2>7, <2>t, <3>1 DEF PumpReads
        <3>4. UNCHANGED <<connected, closeSeen, loop>> /\ io = "pump" /\ io' = "write"
            BY <2>7 DEF PumpReads
        <3>5. StepsOfPosition[io] = 1 /\ StepsOfPosition[io'] = 3
            BY <3>4 DEF StepsOfPosition
        <3> HIDE DEF Got
        <3> QED
            BY <2>t, <2>p, <2>n, <2>s, <3>1, <3>2, <3>3, <3>4, <3>5
    <2>8. CASE WriteBuffered \/ WriteDrained
        <3>1. io = "write" /\ io' \in {"written", "pump"}
            BY <2>8 DEF WriteBuffered, WriteDrained, WriteAccepted, EnterPump
        <3>2. UNCHANGED <<connected, closeSeen, loop, remaining>>
            BY <2>8 DEF WriteBuffered, WriteDrained, WriteAccepted
        <3>3. StepsOfPosition[io'] < StepsOfPosition[io]
            BY <3>1 DEF StepsOfPosition
        <3> QED
            BY <2>3, <3>2, <3>3
    <2>9. CASE PumpGoesOn
        BY <2>3, <2>9 DEF PumpGoesOn, StepsOfPosition
    <2>10. CASE SocketCloses
        <3>1. /\ UNCHANGED <<connected, remaining, io, handedOff>>
              /\ ~connected /\ ~closeSeen /\ closeSeen'
            BY <2>10 DEF SocketCloses
        <3>2. UNCHANGED loop
            <4>1. CASE onclose = None
                BY <2>10, <4>1 DEF SocketCloses
            <4>2. CASE onclose # None
                <5>1. /\ onclose \in Transfer /\ TakenOver(onclose)
                      /\ handedOff[onclose]
                    BY <2>i, <4>2 DEF StreamInv, TypeOK, TransferTypes, Callbacks, TakenOver
                <5>2. Finish(onclose, FALSE, loop)
                    BY <2>10, <4>2 DEF SocketCloses
                <5>3. state[onclose] \in {"live", "finished"}
                    BY <2>i, <5>1, HandedOffPhase DEF StreamInv, HandedOff, Running, Failed, Served
                <5>4. state[onclose] # "live"
                    BY <2>f, <3>1, <5>1, <5>2 DEF UnderWay
                <5> QED
                    BY <5>2, <5>3, <5>4 DEF Finish
            <4> QED
                BY <4>1, <4>2
        <3>3. StepsOfPosition[io'] = StepsOfPosition[io] /\ StepsOfSocket' < StepsOfSocket
            BY <2>t, <3>1 DEF StepsOfSocket, PeerAwaited, AwaitInv
        <3> QED
            BY <2>t, <2>p, <2>n, <3>1, <3>2, <3>3
    <2>11. CASE Disconnect
        <3>1. /\ UNCHANGED <<closeSeen, loop, remaining, io>>
              /\ connected /\ ~connected'
            BY <2>11 DEF Disconnect
        <3>2. StepsOfPosition[io'] = StepsOfPosition[io] /\ StepsOfSocket' < StepsOfSocket
            BY <2>t, <3>1 DEF StepsOfSocket, PeerAwaited, AwaitInv
        <3> QED
            BY <2>t, <2>p, <2>n, <3>1, <3>2
    <2> QED
        BY <2>u, <2>1, <2>2, <2>4, <2>5, <2>6, <2>7, <2>8, <2>9, <2>10, <2>11
        DEF Next, WorkerStep, Returns, PumpStep
<1> QED
    BY <1>1, AwaitInvariant, PTL DEF Spec, OnlyDrainsPutOff

LEMMA CleanupInit == Init => CleanupPosted
BY DEF Init, CleanupPosted

LEMMA LastPosted ==
    ASSUME loop \in Seq(Event), NEW e \in Event, loop' = Append(loop, e)
    PROVE  /\ \E i \in 1 .. Len(loop') : loop'[i] = e
           /\ \A i \in 1 .. Len(loop) : i \in 1 .. Len(loop') /\ loop'[i] = loop[i]
<1>1. /\ Len(loop') = Len(loop) + 1 /\ Len(loop) \in Nat
      /\ loop'[Len(loop) + 1] = e
      /\ \A i \in 1 .. Len(loop) : loop'[i] = loop[i]
    BY AppendProperties, LenProperties
<1>2. Len(loop) + 1 \in 1 .. Len(loop')
    BY <1>1
<1>3. \A i \in 1 .. Len(loop) : i \in 1 .. Len(loop')
    BY <1>1
<1> QED
    BY <1>1, <1>2, <1>3

LEMMA CleanupKept == StreamInv /\ CleanupPosted /\ [Next]_vars => CleanupPosted'
<1> SUFFICES ASSUME StreamInv, CleanupPosted, [Next]_vars,
                    NEW t \in Transfer, state'[t] = "finished", owned'[t]
             PROVE  \E i \in 1 .. Len(loop') : loop'[i] = EventOf("cleanup", t)
    BY DEF CleanupPosted
<1> DEFINE Posted == \E i \in 1 .. Len(loop) : loop[i] = EventOf("cleanup", t)
           PostedNow == \E i \in 1 .. Len(loop') : loop'[i] = EventOf("cleanup", t)
<1>t. /\ loop \in Seq(Event) /\ EventOf("cleanup", t) \in Event
      /\ state \in [Transfer -> {"none", "live", "finished", "destroyed"}]
      /\ owned \in [Transfer -> BOOLEAN]
    BY DEF StreamInv, TypeOK, TransferTypes, EventOf, Event
<1>0. state[t] = "finished" /\ owned[t] => Posted
    BY DEF CleanupPosted
<1>s. ASSUME state'[t] = state[t], owned'[t] = owned[t], loop' = loop PROVE PostedNow
    BY <1>0, <1>s
<1>f. ASSUME NEW u \in Transfer, NEW success, Finish(u, success, loop) PROVE PostedNow
    <2>1. CASE state[u] = "finished"
        BY <1>s, <1>f, <2>1 DEF Finish
    <2>2. CASE state[u] # "finished" /\ t = u
        <3>1. attached /\ loop' = Append(loop, EventOf("cleanup", t))
            BY <1>t, <1>f, <2>2 DEF Finish
        <3> QED
            BY <1>t, <3>1, LastPosted
    <2>3. CASE state[u] # "finished" /\ t # u
        <3>1. state'[t] = state[t] /\ owned'[t] = owned[t]
            BY <1>t, <1>f, <2>3 DEF Finish
        <3>2. Posted
            BY <1>0, <3>1
        <3>3. loop' = loop \/ loop' = Append(loop, EventOf("cleanup", u))
            BY <1>f, <2>3 DEF Finish
        <3>4. EventOf("cleanup", u) \in Event
            BY DEF EventOf, Event
        <3> QED
            BY <1>t, <3>2, <3>3, <3>4, LastPosted
    <2> QED
        BY <2>1, <2>2, <2>3
<1>1. ASSUME NEW u \in Transfer, Dispatch(u) \/ SendRefused(u) \/ Returns(u) \/ TaskEnds(u)
      PROVE  PostedNow
    BY <1>s, <1>1 DEF Dispatch, SendRefused, TaskEnds, Returns, HandlerReturns, HandlerThrows,
                      RouteLooks
<1>2. ASSUME NEW u \in Transfer, SendPrepares(u) \/ SendThrows(u) PROVE PostedNow
    <2>1. t # u
        BY <1>t, <1>2 DEF SendPrepares, SendThrows
    <2> QED
        BY <1>t, <1>s, <1>2, <2>1 DEF SendPrepares, SendThrows
<1>3. ASSUME NEW u \in Transfer, SendPosts(u) PROVE PostedNow
    <2>1. CASE ~attached
        BY <1>f, <1>3, <2>1 DEF SendPosts
    <2>2. CASE attached
        <3>1. state'[t] = state[t] /\ owned'[t] = owned[t]
            BY <1>3, <2>2 DEF SendPosts
        <3>2. Posted
            BY <1>0, <3>1
        <3>3. PICK e \in Event : loop' = Append(loop, e)
            BY <1>3, <2>2 DEF SendPosts, EventOf, Event
        <3> QED
            BY <1>t, <3>2, <3>3, LastPosted
    <2> QED
        BY <2>1, <2>2
<1>4. ASSUME NEW u \in Transfer, StartDisconnected(u) \/ StartEmpty(u) \/ StartStreaming(u)
      PROVE  PostedNow
    <2>1. Running(u) /\ Tail(loop) = <<>> /\ loop # <<>> /\ Begins(Head(loop))
        <3>1. Takes("start", u) \/ Takes("empty", u)
            BY <1>4 DEF StartDisconnected, StartEmpty, StartStreaming
        <3>2. Running(u) /\ Tail(loop) = <<>>
            BY <3>1, BeginningTaken
        <3>3. loop # <<>> /\ Begins(Head(loop))
            BY <3>1 DEF Takes, EventOf, Begins
        <3> QED
            BY <3>2, <3>3
    <2>2. ~Posted
        <3>1. Len(loop) = 1
            <4>1. Len(Tail(loop)) = Len(loop) - 1 /\ Len(loop) \in Nat
                BY <1>t, <2>1, HeadTailProperties, LenProperties
            <4>2. Len(Tail(loop)) = 0
                BY <2>1, EmptySeq
            <4> QED
                BY <4>1, <4>2
        <3>2. ASSUME NEW i \in 1 .. Len(loop) PROVE loop[i].kind # "cleanup"
            <4>1. i = 1 /\ loop[1] = Head(loop)
                BY <1>t, <3>1
            <4> QED
                BY <2>1, <4>1 DEF Begins
        <3> QED
            BY <3>2 DEF EventOf
    <2>3. CASE StartStreaming(u)
        <3>1. state'[t] = state[t] /\ owned'[t] = owned[t]
            BY <2>3 DEF StartStreaming
        <3> QED
            BY <1>0, <2>2, <3>1
    <2>4. CASE StartDisconnected(u) \/ StartEmpty(u)
        <3>1. PICK success \in BOOLEAN : Finish(u, success, <<>>)
            BY <2>1, <2>4 DEF StartDisconnected, StartEmpty
        <3>2. t = u
            BY <1>t, <1>0, <2>2, <3>1 DEF Finish
        <3>3. attached /\ loop' = Append(<<>>, EventOf("cleanup", t))
            BY <1>t, <2>1, <3>1, <3>2 DEF Finish, Running
        <3>4. <<>> \in Seq(Event) /\ Len(<<>>) = 0
            BY EmptySeq
        <3>5. Len(loop') = 1 /\ loop'[1] = EventOf("cleanup", t)
            BY <1>t, <3>3, <3>4, AppendProperties
        <3> QED
            BY <3>5
    <2> QED
        BY <1>4, <2>3, <2>4
<1>5. ASSUME NEW u \in Transfer, Cleanup(u) PROVE PostedNow
    <2>1. /\ t # u /\ state'[t] = state[t] /\ owned'[t] = owned[t]
          /\ loop # <<>> /\ loop' = Tail(loop) /\ Head(loop) = EventOf("cleanup", u)
        BY <1>t, <1>5 DEF Cleanup, Takes
    <2>2. PICK i \in 1 .. Len(loop) : loop[i] = EventOf("cleanup", t)
        BY <1>0, <2>1
    <2>3. /\ Len(loop) \in Nat /\ loop[1] = Head(loop)
          /\ Len(loop') = Len(loop) - 1
          /\ \A j \in 1 .. Len(loop') : loop'[j] = loop[j + 1]
        BY <1>t, <2>1, LenProperties, HeadTailProperties
    <2>4. i # 1
        <3>1. EventOf("cleanup", t).of = t /\ EventOf("cleanup", u).of = u
            BY DEF EventOf
        <3>2. ASSUME i = 1 PROVE EventOf("cleanup", t) = EventOf("cleanup", u)
            <4>1. loop[1] = EventOf("cleanup", t)
                BY <2>2, <3>2
            <4> QED
                BY <2>1, <2>3, <4>1
        <3> QED
            BY <2>1, <3>1, <3>2
    <2>5. i - 1 \in 1 .. Len(loop') /\ (i - 1) + 1 = i
        BY <2>3, <2>4
    <2>6. loop'[i - 1] = EventOf("cleanup", t)
        BY <2>2, <2>3, <2>5
    <2> QED
        BY <2>5, <2>6
<1>6. CASE HeadersFail \/ PumpDisconnected \/ PumpReadsNothing \/ WriteFails \/ PumpEnds
    <2>1. cur \in Transfer
        BY <1>6, InsideWriter
        DEF HeadersFail, PumpDisconnected, PumpReadsNothing, WriteFails, PumpFailsOn, PumpEnds
    <2>2. PICK success \in BOOLEAN : Finish(cur, success, loop)
        BY <1>6 DEF HeadersFail, PumpDisconnected, PumpReadsNothing, WriteFails, PumpFailsOn,
                    PumpEnds
    <2> QED
        BY <1>f, <2>1, <2>2
<1>7. CASE SocketCloses
    <2>1. CASE onclose = None
        BY <1>s, <1>7, <2>1 DEF SocketCloses
    <2>2. CASE onclose # None
        BY <1>f, <1>7, <2>2 DEF SocketCloses, StreamInv, TypeOK, TransferTypes
    <2> QED
        BY <2>1, <2>2
<1>8. CASE HeadersBuffered \/ HeadersDrained \/ PumpStops \/ PumpReads \/ PumpGoesOn
            \/ WriteBuffered \/ WriteDrained \/ SocketDrains \/ Disconnect \/ UNCHANGED vars
    BY <1>s, <1>8 DEF HeadersBuffered, HeadersDrained, PumpStops, PumpReads, PumpGoesOn,
                      WriteBuffered, WriteDrained, WriteAccepted, SocketDrains, Disconnect
<1> QED
    BY <1>1, <1>2, <1>3, <1>4, <1>5, <1>6, <1>7, <1>8 DEF Next, WorkerStep, Returns, LoopStep,
                                                          PumpStep

(* The cycle of writer and transfer is broken in the end: while a finished *)
(* transfer owns the writer, the event that lets go of it is in the loop's *)
(* queue, also if the connection was detached meanwhile.                   *)
THEOREM WriterIsLetGo == Spec => []CleanupPosted
BY CleanupInit, CleanupKept, StreamInvariant, PTL DEF Spec

-----------------------------------------------------------------------------
(* What the handler is promised.  A prepared transfer is on its way.       *)
PhaseFor(t) ==
    IF reports[t] # <<>> THEN IF reports[t] = <<TRUE>> THEN "success" ELSE "failure"
    ELSE IF Started(t) THEN "sending" ELSE "new"

StreamPhase == [t \in Transfer |-> PhaseFor(t)]
StreamOwed == [t \in Transfer |-> len[t] - sent[t]]

Contract == INSTANCE FileTransfer WITH phase <- StreamPhase, owed <- StreamOwed

(* The chunk that WriteBody() is given is not yet among the units sent.    *)
ChunkIsNew == io = "write" => sent[cur] < len[cur] - remaining[cur]

ContractInv == StreamInv /\ ChunkIsNew

LEMMA SentByWrites ==
    ASSUME Next, ~WriteBuffered, ~WriteDrained
    PROVE  UNCHANGED sent
<1>1. ASSUME NEW t \in Transfer, Dispatch(t) \/ WorkerStep(t) \/ LoopStep(t) PROVE UNCHANGED sent
    BY <1>1
    DEF Dispatch, WorkerStep, SendRefused, SendPrepares, SendThrows, SendPosts, TaskEnds, Returns,
        HandlerReturns, HandlerThrows, RouteLooks,
        LoopStep, StartDisconnected, StartEmpty, StartStreaming, Cleanup
<1>2. CASE PumpStep
    BY <1>2
    DEF PumpStep, HeadersFail, HeadersBuffered, HeadersDrained, PumpStops, PumpDisconnected,
        PumpReadsNothing, PumpFailsOn, PumpReads, WriteFails, PumpEnds, PumpGoesOn
<1>3. CASE SocketDrains \/ SocketCloses \/ Disconnect
    BY <1>3 DEF SocketDrains, SocketCloses, Disconnect
<1> QED
    BY <1>1, <1>2, <1>3 DEF Next

LEMMA ChunkKept == ContractInv /\ [Next]_vars => ChunkIsNew'
<1> SUFFICES ASSUME ContractInv, [Next]_vars, io' = "write"
             PROVE  sent'[cur'] < len'[cur'] - remaining'[cur']
    BY DEF ChunkIsNew
<1>i. StreamInv /\ ChunkIsNew
    BY DEF ContractInv
<1>1. ASSUME io = "write", UNCHANGED <<cur, sent, len, remaining>>
      PROVE  sent'[cur'] < len'[cur'] - remaining'[cur']
    BY <1>i, <1>1 DEF ChunkIsNew
<1>2. ASSUME NEW t \in Transfer, Dispatch(t) \/ WorkerStep(t)
      PROVE  sent'[cur'] < len'[cur'] - remaining'[cur']
    <2>1. UNCHANGED <<io, cur>>
        BY <1>2 DEF Dispatch, WorkerStep, SendRefused, SendPrepares, SendThrows, SendPosts,
                    TaskEnds, Returns, HandlerReturns, HandlerThrows, RouteLooks
    <2>2. UnderWay(cur) /\ cur \in Transfer
        BY <1>i, <2>1, InsideWriter DEF Running, UnderWay
    <2>3. Returns(t) \/ TaskEnds(t)
        BY <1>i, <1>2, <2>2, SendsLeaveUnderWay DEF WorkerStep, Returns
    <2> QED
        BY <1>1, <2>1, <2>3 DEF TaskEnds, Returns, HandlerReturns, HandlerThrows, RouteLooks
<1>3. ASSUME NEW t \in Transfer, LoopStep(t) PROVE FALSE
    BY <1>3 DEF LoopStep, StartDisconnected, StartEmpty, StartStreaming, Cleanup, Takes
<1>4. CASE PumpReads
    <2>1. /\ UNCHANGED <<cur, len, sent>> /\ io = "pump" /\ Got > 0 /\ state[cur] # "finished"
          /\ remaining' = [remaining EXCEPT ![cur] = @ - Got]
        BY <1>4 DEF PumpReads
    <2>2. cur \in Transfer /\ state[cur] = "live"
        BY <1>i, <2>1, InsideWriter DEF Running
    <2>3. sent[cur] = len[cur] - remaining[cur]
        BY <1>i, <2>1, <2>2 DEF StreamInv, Amounts, AmountsOf
    <2>4. remaining[cur] \in Int /\ len[cur] \in Int /\ Got \in Int
        BY <1>i, <2>2, LengthAssumption, ChunkAssumption
        DEF StreamInv, TypeOK, TransferTypes, Got, Least
    <2>5. remaining'[cur'] = remaining[cur] - Got
        BY <1>i, <2>1, <2>2 DEF StreamInv, TypeOK, TransferTypes
    <2> HIDE DEF Got
    <2> QED
        BY <2>1, <2>3, <2>4, <2>5
<1>5. CASE PumpStep /\ ~PumpReads
    <2>1. io' # "write"
        BY <1>5
        DEF PumpStep, HeadersFail, HeadersBuffered, HeadersDrained, EnterPump, PumpStops,
            LeavePump, PumpDisconnected, PumpReadsNothing, PumpFailsOn, WriteFails, WriteBuffered,
            WriteDrained, PumpEnds, PumpGoesOn
    <2> QED
        BY <2>1
<1>6. CASE SocketDrains
    BY <1>6 DEF SocketDrains, EnterPump
<1>7. CASE SocketCloses \/ Disconnect \/ UNCHANGED vars
    <2>1. io = "write" /\ UNCHANGED <<cur, sent, len, remaining>>
        BY <1>7 DEF SocketCloses, Disconnect
    <2> QED
        BY <1>1, <2>1
<1> QED
    BY <1>2, <1>3, <1>4, <1>5, <1>6, <1>7 DEF Next

(* From what becomes of one transfer to what becomes of them all. *)
LEMMA PhaseMoves ==
    ASSUME NEW t \in Transfer, NEW to, PhaseFor(t)' = to,
           \A u \in Transfer : u # t => reports'[u] = reports[u] /\ state'[u] = state[u]
    PROVE  StreamPhase' = [StreamPhase EXCEPT ![t] = to]
BY DEF StreamPhase, PhaseFor, Started

LEMMA OwedMoves ==
    ASSUME NEW t \in Transfer, NEW units, len'[t] - sent'[t] = units,
           \A u \in Transfer : u # t => len'[u] = len[u] /\ sent'[u] = sent[u]
    PROVE  /\ StreamOwed' = [StreamOwed EXCEPT ![t] = units]
           /\ StreamOwed'[t] = units
BY DEF StreamOwed

LEMMA ContractStands ==
    ASSUME UNCHANGED <<reports, state, len, sent>>
    PROVE  UNCHANGED <<StreamPhase, StreamOwed>>
BY DEF StreamPhase, StreamOwed, PhaseFor, Started

LEMMA ReportEnds ==
    ASSUME StreamInv, NEW t \in Transfer, NEW success \in BOOLEAN, reports[t] = <<>>,
           reports' = [reports EXCEPT ![t] = Append(@, success)],
           \A u \in Transfer : u # t => state'[u] = state[u],
           UNCHANGED <<len, sent>>,
           success => sent[t] = len[t]
    PROVE  Contract!Next
<1>1. /\ reports \in [Transfer -> Seq(BOOLEAN)] /\ len[t] \in Int
    BY LengthAssumption DEF StreamInv, TypeOK, TransferTypes
<1>2. reports'[t] = <<success>> /\ reports'[t] # <<>>
    BY <1>1
<1>3. \A u \in Transfer : u # t => reports'[u] = reports[u]
    BY <1>1
<1>4. StreamPhase[t] \in {"new", "sending"}
    BY DEF StreamPhase, PhaseFor
<1>5. UNCHANGED StreamOwed
    BY DEF StreamOwed
<1>6. CASE success
    <2>1. PhaseFor(t)' = "success"
        BY <1>2, <1>6 DEF PhaseFor
    <2>2. StreamPhase' = [StreamPhase EXCEPT ![t] = "success"]
        BY <1>3, <2>1, PhaseMoves
    <2>3. StreamOwed[t] = 0
        BY <1>1, <1>6 DEF StreamOwed
    <2>4. Contract!Succeed(t)
        BY <1>4, <1>5, <2>2, <2>3 DEF Contract!Succeed, Contract!Moves
    <2> QED
        BY <2>4 DEF Contract!Next
<1>7. CASE ~success
    <2>1. reports'[t] # <<TRUE>>
        BY <1>2, <1>7, Reports
    <2>2. PhaseFor(t)' = "failure"
        BY <1>2, <2>1 DEF PhaseFor
    <2>3. StreamPhase' = [StreamPhase EXCEPT ![t] = "failure"]
        BY <1>3, <2>2, PhaseMoves
    <2>4. Contract!Fail(t)
        BY <1>4, <1>5, <2>3 DEF Contract!Fail, Contract!Moves
    <2> QED
        BY <2>4 DEF Contract!Next
<1> QED
    BY <1>6, <1>7

LEMMA ContractSteps ==
    ContractInv /\ [Next]_vars => [Contract!Next]_Contract!contract
<1> SUFFICES ASSUME ContractInv, [Next]_vars
             PROVE  Contract!Next \/ UNCHANGED <<StreamPhase, StreamOwed>>
    BY DEF Contract!contract
<1>i. StreamInv /\ ChunkIsNew
    BY DEF ContractInv
<1>t. /\ state \in [Transfer -> {"none", "live", "finished", "destroyed"}]
      /\ len \in [Transfer -> 0 .. MaxLen] /\ remaining \in [Transfer -> 0 .. MaxLen]
      /\ sent \in [Transfer -> 0 .. MaxLen]
    BY <1>i DEF StreamInv, TypeOK, TransferTypes
<1>n. 0 .. MaxLen \subseteq Nat
    BY LengthAssumption
<1>1. CASE WriteBuffered \/ WriteDrained
    <2>1. /\ io = "write" /\ sent' = [sent EXCEPT ![cur] = len[cur] - remaining[cur]]
          /\ UNCHANGED <<len, state, reports>>
        BY <1>1 DEF WriteBuffered, WriteDrained, WriteAccepted
    <2>2. cur \in Transfer /\ Running(cur)
        BY <1>i, <2>1, InsideWriter
    <2>3. sent[cur] < len[cur] - remaining[cur]
        BY <1>i, <2>1 DEF ChunkIsNew
    <2>4. len[cur] \in Int /\ remaining[cur] \in Nat /\ sent[cur] \in Int
        BY <1>t, <1>n, <2>2
    <2>5. len'[cur] - sent'[cur] = remaining[cur]
        BY <1>t, <2>1, <2>2, <2>4
    <2>6. \A u \in Transfer : u # cur => len'[u] = len[u] /\ sent'[u] = sent[u]
        BY <1>t, <2>1
    <2>7. /\ StreamOwed' = [StreamOwed EXCEPT ![cur] = remaining[cur]]
          /\ StreamOwed'[cur] = remaining[cur]
        BY <2>2, <2>5, <2>6, OwedMoves
    <2>8. remaining[cur] < StreamOwed[cur]
        BY <2>2, <2>3, <2>4 DEF StreamOwed
    <2>9. StreamPhase[cur] = "sending" /\ UNCHANGED StreamPhase
        BY <2>1, <2>2 DEF StreamPhase, PhaseFor, Started, Running
    <2>10. Contract!Accept(cur)
        BY <2>4, <2>7, <2>8, <2>9 DEF Contract!Accept, Contract!Owes
    <2> QED
        BY <2>2, <2>10 DEF Contract!Next
<1>2. ASSUME UNCHANGED sent, Quiet PROVE UNCHANGED <<StreamPhase, StreamOwed>>
    BY <1>2, ContractStands DEF Quiet
<1>3. ASSUME NEW t \in Transfer,
             Dispatch(t) \/ Returns(t) \/ TaskEnds(t) \/ StartStreaming(t) \/ Cleanup(t)
      PROVE  UNCHANGED <<StreamPhase, StreamOwed>>
    BY <1>3, ContractStands DEF Dispatch, TaskEnds, Returns, HandlerReturns, HandlerThrows,
                                RouteLooks, StartStreaming, Cleanup
<1>4. ASSUME NEW t \in Transfer, SendRefused(t) PROVE Contract!Next
    <2>1. reports[t] = <<>>
        BY <1>i, <1>4 DEF SendRefused, WorkerMoves, StreamInv, Phases, PhaseOf, Fresh
    <2> QED
        BY <1>i, <1>4, <2>1, ReportEnds DEF SendRefused
<1>5. ASSUME NEW t \in Transfer, SendThrows(t) PROVE Contract!Next
    <2>1. reports[t] = <<>>
        BY <1>i, <1>5 DEF SendThrows, WorkerMoves, StreamInv, Phases, PhaseOf, Prepared
    <2>2. \A u \in Transfer : u # t => state'[u] = state[u]
        BY <1>t, <1>5 DEF SendThrows
    <2> QED
        BY <1>i, <1>5, <2>1, <2>2, ReportEnds DEF SendThrows, Report
<1>6. ASSUME NEW t \in Transfer, SendPosts(t)
      PROVE  Contract!Next \/ UNCHANGED <<StreamPhase, StreamOwed>>
    <2>1. CASE attached
        BY <1>6, <2>1, ContractStands DEF SendPosts
    <2>2. CASE ~attached
        <3>1. reports[t] = <<>> /\ state[t] = "live"
            BY <1>i, <1>6 DEF SendPosts, WorkerMoves, StreamInv, Phases, PhaseOf, Prepared
        <3>2. /\ Report(t, FALSE) /\ state' = [state EXCEPT ![t] = "finished"]
              /\ UNCHANGED <<len, sent>>
            BY <1>6, <2>2, <3>1 DEF SendPosts, Finish
        <3>3. \A u \in Transfer : u # t => state'[u] = state[u]
            BY <1>t, <3>2
        <3> QED
            BY <1>i, <3>1, <3>2, <3>3, ReportEnds DEF Report
    <2> QED
        BY <2>1, <2>2
<1>7. ASSUME NEW t \in Transfer, SendPrepares(t) PROVE Contract!Next
    <2>1. state[t] = "none" /\ reports[t] = <<>> /\ sent[t] = 0
        BY <1>i, <1>7
        DEF SendPrepares, WorkerMoves, StreamInv, Phases, PhaseOf, Fresh, Amounts, AmountsOf
    <2>2. PICK n \in 0 .. MaxLen : len' = [len EXCEPT ![t] = n]
        BY <1>7 DEF SendPrepares
    <2>3. state' = [state EXCEPT ![t] = "live"] /\ UNCHANGED <<sent, reports>>
        BY <1>7 DEF SendPrepares
    <2>4. len'[t] - sent'[t] = n /\ n \in Nat
        BY <1>t, <2>1, <2>2, <2>3
    <2>5. /\ StreamOwed' = [StreamOwed EXCEPT ![t] = n]
          /\ StreamOwed'[t] = n
        BY <1>t, <2>2, <2>3, <2>4, OwedMoves
    <2>6. PhaseFor(t)' = "sending"
        BY <1>t, <2>1, <2>3 DEF PhaseFor, Started
    <2>7. StreamPhase' = [StreamPhase EXCEPT ![t] = "sending"]
        BY <1>t, <2>3, <2>6, PhaseMoves
    <2>8. StreamPhase[t] = "new"
        BY <2>1 DEF StreamPhase, PhaseFor, Started
    <2>9. Contract!Promise(t)
        BY <2>4, <2>5, <2>7, <2>8 DEF Contract!Promise, Contract!Moves, Contract!Owes
    <2> QED
        BY <2>9 DEF Contract!Next
<1>8. ASSUME NEW t \in Transfer, NEW success \in BOOLEAN, Completes(t, success)
      PROVE  Contract!Next
    <2>1. reports[t] = <<>> /\ (success => sent[t] = len[t]) /\ UNCHANGED <<len, sent>>
        BY <1>8 DEF Completes, Running
    <2>2. reports' = [reports EXCEPT ![t] = Append(@, success)]
        BY <1>8 DEF Completes, Report
    <2>3. \A u \in Transfer : u # t => state'[u] = state[u]
        BY <1>t, <1>8 DEF Completes
    <2> QED
        BY <1>i, <2>1, <2>2, <2>3, ReportEnds
<1>9. CASE UNCHANGED vars
    BY <1>9, ContractStands
<1>10. ASSUME Next, ~WriteBuffered, ~WriteDrained
       PROVE  Contract!Next \/ UNCHANGED <<StreamPhase, StreamOwed>>
    <2>1. UNCHANGED sent
        BY <1>10, SentByWrites
    <2>2. Quiet \/ \E t \in Transfer : StepOf(t)
        BY <1>i, Steps
    <2> QED
        BY <1>2, <1>3, <1>4, <1>5, <1>6, <1>7, <1>8, <2>1, <2>2 DEF StepOf
<1> QED
    BY <1>1, <1>9, <1>10

(* StreamTransfer does what FileTransfer promises its callers.             *)
THEOREM StreamKeepsContract == Spec => Contract!Spec
<1>1. Init => Contract!Init
    <2>1. ASSUME Init PROVE \A t \in Transfer : PhaseFor(t) = "new" /\ len[t] - sent[t] = 0
        BY <2>1 DEF Init, PhaseFor, Started
    <2> QED
        BY <2>1 DEF Contract!Init, StreamPhase, StreamOwed
<1>2. Init => ContractInv
    BY StreamInvInit DEF ContractInv, ChunkIsNew, Init
<1>3. ContractInv /\ [Next]_vars => ContractInv'
    BY StreamInvKept, ChunkKept DEF ContractInv
<1> QED
    BY <1>1, <1>2, <1>3, ContractSteps, PTL DEF Spec, Contract!Spec
===============================================================================
