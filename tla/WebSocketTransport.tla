-------------------------- MODULE WebSocketTransport --------------------------
(***************************************************************************)
(* WebSocketTransport: like TcpTransport a client of the library with a    *)
(* queue of received messages, but it replaces a connection without        *)
(* closing it, does not clear m_connected then, gives a slow connection    *)
(* attempt up without ending it, and its onopen callback reads m_client.   *)
(* Steps are as in TcpTransport; m_packetQueue is m_messageQueue here.     *)
(***************************************************************************)
EXTENDS ClientCalls

Init == Begun

-----------------------------------------------------------------------------
(* First critical section: the client is made anew if disconnect() took it. *)
Check(p) ==
    /\ pc[p] = "check"
    /\ IF client
       THEN UNCHANGED <<library, transport>>
       ELSE /\ Replace
            /\ client' = TRUE /\ connected' = FALSE /\ failed' = FALSE
            /\ current' = NoHost
    /\ Goto(p, "reconnect")
    /\ UNCHANGED <<packets, call, calls, closing, reported>>

(* Second critical section, in which the client may be gone again. *)
NoClient(p) ==
    /\ pc[p] = "reconnect"
    /\ ~client
    /\ Fail(p, "failed")
    /\ reported' = reported \ {p}
    /\ UNCHANGED <<library, transport, packets, closing>>

\* Deliberate fault: an open connection is used whoever its peer is.
AnyConnectionWillDo(h) == ~connected

NeedsConnection(h) == ~connected \/ current # h

KeepConnection(p) ==
    /\ pc[p] = "reconnect"
    /\ client
    /\ ~NeedsConnection(Request(p).host)
    /\ Goto(p, "connecting")
    /\ reported' = reported \ {p}
    /\ UNCHANGED <<library, transport, packets, call, calls, closing>>

\* Deliberate fault: what was received before stays in the queue.
MessagesKept == UNCHANGED packets

EmptyQueue == packets' = <<>>

(* Another connection is needed: the queue is emptied, while the old connection
   is still there and the callbacks go on. *)
ClearOld(p) ==
    /\ pc[p] = "reconnect"
    /\ client
    /\ NeedsConnection(Request(p).host)
    /\ EmptyQueue
    /\ Goto(p, "opening")
    /\ UNCHANGED <<library, transport, call, calls, closing, reported>>

(* What is set before open() is called, whether it succeeds or not. *)
PrepareToOpen(h) ==
    /\ current' = h
    /\ failed' = FALSE

(* open() fails at once, with the old connection kept or given up. *)
OpenFails(p) ==
    /\ pc[p] = "opening"
    /\ PrepareToOpen(Request(p).host)
    /\ \/ UNCHANGED <<channel, inbox>>
       \/ channel' = ChannelClosed /\ inbox' = CloseReported
    /\ Fail(p, "unopened")
    /\ reported' = reported \ {p}
    /\ UNCHANGED <<running, client, connected, packets, closing>>

(* open() begins to connect; the loss of the old connection may be reported. *)
Open(p) ==
    /\ pc[p] = "opening"
    /\ PrepareToOpen(Request(p).host)
    /\ channel' = NewChannel(channel.no + 1, Request(p).host)
    /\ inbox' \in {inbox, CloseReported}
    /\ Goto(p, "connecting")
    /\ reported' = reported \ {p}
    /\ UNCHANGED <<running, client, connected, packets, call, calls, closing>>

-----------------------------------------------------------------------------
(* The loop that waits for the connection sleeps before it looks at anything
   but m_connected. *)
FallAsleep(p) ==
    /\ pc[p] = "connecting"
    /\ ~connected
    /\ Goto(p, "asleep")
    /\ UNCHANGED <<library, transport, packets, call, calls, closing, reported>>

ConnectionSeen(p) ==
    /\ pc[p] \in {"connecting", "asleep"}
    /\ connected
    /\ pc[p] = "asleep" => ~failed
    /\ Goto(p, "connected")
    /\ reported' = reported \ {p}
    /\ UNCHANGED <<library, transport, packets, call, calls, closing>>

(* The failure is believed even if the connection is there by now. *)
ConnectionFailed(p) ==
    /\ pc[p] = "asleep"
    /\ failed
    /\ Fail(p, "refused")
    /\ reported' = reported \ {p}
    /\ UNCHANGED <<library, transport, packets, closing>>

\* Deliberate fault: the wait goes on after the timeout was reported.
ConnectTimeoutGoesOn(p) ==
    /\ pc[p] = "asleep"
    /\ ~failed
    /\ calls' = [calls EXCEPT ![call[p]].verdict = "timeout"]
    /\ Goto(p, "connecting")
    /\ UNCHANGED <<library, transport, packets, call, closing, reported>>

(* The time is up; the attempt is left to itself. *)
ConnectTimeout(p) ==
    /\ pc[p] = "asleep"
    /\ ~failed
    /\ Fail(p, "timeout")
    /\ reported' = reported \ {p}
    /\ UNCHANGED <<library, transport, packets, closing>>

ConnectionDetected(p) ==
    /\ pc[p] = "asleep"
    /\ ~failed
    /\ client /\ IsUp
    /\ Goto(p, "detected")
    /\ reported' = reported \ {p}
    /\ UNCHANGED <<library, transport, packets, call, calls, closing>>

StoreDetected(p) ==
    /\ pc[p] = "detected"
    /\ connected' = TRUE
    /\ Goto(p, "connected")
    /\ UNCHANGED <<library, client, failed, current, packets, call, calls, closing, reported>>

(* The flag read again, without the mutex. *)
ConnectionLost(p) ==
    /\ pc[p] = "connected"
    /\ ~connected
    /\ Fail(p, "failed")
    /\ UNCHANGED <<library, transport, packets, closing, reported>>

ConnectionKept(p) ==
    /\ pc[p] = "connected"
    /\ connected
    /\ Goto(p, "send")
    /\ UNCHANGED <<library, transport, packets, call, calls, closing, reported>>

-----------------------------------------------------------------------------
(* A request with an empty body only waits for a message. *)
SendNothing(p) ==
    /\ pc[p] = "send"
    /\ Goto(p, "receive")
    /\ UNCHANGED <<library, transport, packets, call, calls, closing, reported>>

ClientGone(p) ==
    /\ pc[p] = "send"
    /\ ~client
    /\ Fail(p, "failed")
    /\ UNCHANGED <<library, transport, packets, closing, reported>>

Send(p) ==
    /\ pc[p] = "send"
    /\ client /\ IsUp
    /\ channel' = [channel EXCEPT !.wire = Append(@, call[p])]
    /\ calls' = [calls EXCEPT ![call[p]].sentOn = channel.no,
                              ![call[p]].reached = channel.peer]
    /\ Goto(p, "receive")
    /\ UNCHANGED <<inbox, running, transport, packets, call, closing, reported>>

SendFails(p) ==
    /\ pc[p] = "send"
    /\ client /\ ~IsUp
    /\ Goto(p, "sendfailed")
    /\ UNCHANGED <<library, transport, packets, call, calls, closing, reported>>

(* The flag is cleared outside the mutex, for whatever connection there is. *)
StoreSendFailed(p) ==
    /\ pc[p] = "sendfailed"
    /\ connected' = FALSE
    /\ Fail(p, "failed")
    /\ Report
    /\ UNCHANGED <<library, client, failed, current, packets, closing>>

-----------------------------------------------------------------------------
(* receiveResponse(): the connection and the queue are looked at in one
   critical section, left only to wait, and waited for once. *)
NotConnected(p) ==
    /\ pc[p] = "receive"
    /\ ~connected
    /\ Fail(p, "unanswered")
    /\ UNCHANGED <<library, transport, packets, closing, reported>>

\* Deliberate fault: the message stays in the queue.
Peeked == UNCHANGED packets

(* The oldest message leaves the queue. *)
Popped == packets' = Tail(packets)

Take(p) ==
    /\ pc[p] \in {"receive", "waiting"}
    /\ pc[p] = "receive" => connected
    /\ packets # <<>>
    /\ Popped
    /\ calls' = [calls EXCEPT ![call[p]].verdict = "ok",
                              ![call[p]].got = Head(packets).of,
                              ![call[p]].age = Head(packets).age]
    /\ Goto(p, "idle")
    /\ call' = [call EXCEPT ![p] = 0]
    /\ UNCHANGED <<library, transport, closing, reported>>

WaitForMessage(p) ==
    /\ pc[p] = "receive"
    /\ connected
    /\ packets = <<>>
    /\ Goto(p, "waiting")
    /\ UNCHANGED <<library, transport, packets, call, calls, closing, reported>>

(* The time is up, or the wait ended early with no message. *)
GiveUp(p) ==
    /\ pc[p] = "waiting"
    /\ Fail(p, "unanswered")
    /\ UNCHANGED <<library, transport, packets, closing, reported>>

-----------------------------------------------------------------------------
(* disconnect(): it closes the client it has moved out, but waits for the
   client's loop only when it destroys it on return. *)
Disconnect ==
    /\ closer = "idle"
    /\ disconnects < MaxDisconnects
    /\ disconnects' = disconnects + 1
    /\ IF client THEN MoveOut ELSE UNCHANGED library
    /\ client' = FALSE
    /\ connected' = FALSE
    /\ failed' = TRUE
    /\ current' = NoHost
    /\ closer' = "clear"
    /\ Report
    /\ UNCHANGED <<packets, callers, calls, stopped>>

ClearMessages ==
    /\ closer = "clear"
    /\ packets' = <<>>
    /\ closer' = "return"
    /\ UNCHANGED <<library, transport, callers, calls, stopped, disconnects, reported>>

\* Deliberate fault: the moved client is not destroyed before the return.
DisconnectLeaksClient ==
    /\ closer = "return"
    /\ closer' = "idle"
    /\ UNCHANGED <<library, transport, packets, callers, calls, stopped, disconnects, reported>>

DisconnectReturns ==
    /\ closer = "return"
    /\ running["moved"] = Idle
    /\ closer' = "idle"
    /\ UNCHANGED <<library, transport, packets, callers, calls, stopped, disconnects, reported>>

-----------------------------------------------------------------------------
(* The callbacks set up by setupClientCallbacks(), run by loop l. *)
OnOpen(l) ==
    /\ running[l].kind = "up"
    /\ connected' = TRUE
    /\ Continues(l, EventOf("up2"))
    /\ UNCHANGED <<client, failed, current, packets, callers, calls, closing, reported>>

(* Timeouts are set on the client's channel: m_client is tested and read again
   by the loop's thread, which holds no mutex. *)
OnOpenTestsClient(l) ==
    /\ running[l].kind = "up2"
    /\ Continues(l, IF client THEN EventOf("up3") ELSE Idle)
    /\ UNCHANGED <<transport, packets, callers, calls, closing, reported>>

OnOpenReadsClient(l) ==
    /\ running[l].kind = "up3"
    /\ Continues(l, IF client THEN Idle ELSE EventOf("crashed"))
    /\ UNCHANGED <<transport, packets, callers, calls, closing, reported>>

OnClose(l) ==
    /\ running[l].kind = "lost"
    /\ connected' = FALSE
    /\ Continues(l, EventOf("lost2"))
    /\ Report
    /\ UNCHANGED <<client, failed, current, packets, callers, calls, closing>>

OnCloseFails(l) ==
    /\ running[l].kind = "lost2"
    /\ failed' = TRUE
    /\ Continues(l, Idle)
    /\ Report
    /\ UNCHANGED <<client, connected, current, packets, callers, calls, closing>>

OnMessage(l) ==
    /\ running[l].kind = "packet"
    /\ Queued(l)
    /\ Continues(l, Idle)
    /\ UNCHANGED <<transport, callers, calls, closing, reported>>

-----------------------------------------------------------------------------
LockedStep(p) ==
    /\ ClientMutexFree
    /\ \/ Check(p) \/ NoClient(p) \/ KeepConnection(p) \/ ClearOld(p)
       \/ ConnectionSeen(p) \/ ConnectionFailed(p) \/ FallAsleep(p) \/ ConnectTimeout(p)
       \/ ConnectionDetected(p) \/ ClientGone(p) \/ Send(p) \/ SendFails(p)

(* What was begun with the mutex, and what is done without it. *)
UnlockedStep(p) ==
    \/ OpenFails(p) \/ Open(p)
    \/ StoreDetected(p) \/ ConnectionLost(p) \/ ConnectionKept(p)
    \/ SendNothing(p) \/ StoreSendFailed(p)
    \/ NotConnected(p) \/ Take(p) \/ WaitForMessage(p) \/ GiveUp(p)

CloserStep == ClearMessages \/ DisconnectReturns

Callback(l) ==
    \/ OnOpen(l) \/ OnOpenTestsClient(l) \/ OnOpenReadsClient(l)
    \/ OnClose(l) \/ OnCloseFails(l) \/ OnMessage(l)

LibraryStep ==
    /\ External \/ LoopCalls
    /\ UNCHANGED <<transport, packets, callers, calls, closing, reported>>

Next ==
    /\ ~Crashed
    /\ \/ \E p \in Caller, h \in Host \cup {NoHost} : Begin(p, h)
       \/ \E p \in Caller : LockedStep(p) \/ UnlockedStep(p)
       \/ (ClientMutexFree /\ Disconnect) \/ CloserStep
       \/ \E l \in Loop : Callback(l)
       \/ LibraryStep

Spec == Init /\ [][Next]_vars
=============================================================================
