----------------------------- MODULE TcpTransport -----------------------------
(***************************************************************************)
(* TcpTransport: callers that send requests over one connection and wait   *)
(* for their answers, a thread that calls disconnect(), and the callbacks  *)
(* of the library's loop.                                                  *)
(*                                                                         *)
(* A step is a critical section of m_clientMutex or m_bufferMutex, or one  *)
(* access outside of them.  The mutexes are implicit: only m_clientMutex   *)
(* is ever kept over two steps (ClientMutexFree): in a reconnection, which *)
(* empties the queue before it replaces the socket, and when it is found   *)
(* that the connection is up.  Otherwise what a callback stores amid a     *)
(* critical section has the effect it has before or after it.  Timeouts    *)
(* are a choice of the waiting thread.                                     *)
(***************************************************************************)
EXTENDS ClientCalls

Init == Begun

-----------------------------------------------------------------------------
\* Deliberate fault: what was received before stays in the queue.
DisconnectKeepsPackets ==
    /\ connected' = (connected /\ ~client)
    /\ inbox' = CloseReported
    /\ UNCHANGED packets

(* What disconnectInternal() does to the flag, the connection's events and, last,
   the queue; it also closes the connection and forgets the peer. *)
DisconnectInternal ==
    /\ connected' = (connected /\ ~client)
    /\ inbox' = CloseReported
    /\ packets' = <<>>

\* Deliberate fault: an open connection is used whoever its peer is.
AnyConnectionWillDo(h) == ~connected

(* needReconnect. *)
NeedsConnection(h) == ~connected \/ current # h

(* First critical section: what the call has to do. *)
Check(p) ==
    /\ pc[p] = "check"
    /\ Goto(p, IF ~client THEN "recreate"
               ELSE IF NeedsConnection(Request(p).host) THEN "reconnect"
               ELSE "connecting")
    /\ UNCHANGED <<library, transport, packets, call, calls, closing, reported>>

(* The client is made anew, also if another caller has just done so: what that
   one has connected is lost then, with m_connectFailed as it happens to be. *)
Recreate(p) ==
    /\ pc[p] = "recreate"
    /\ Replace
    /\ client' = TRUE
    /\ connected' = FALSE
    /\ Goto(p, "reconnect")
    /\ Report
    /\ UNCHANGED <<failed, current, packets, call, calls, closing>>

(* disconnect() has moved the client away since the check, and m_client is null
   when setConnectTimeout() is called on it. *)
ReconnectWithoutClient(p) ==
    /\ pc[p] = "reconnect"
    /\ ~client
    /\ Goto(p, "crashed")
    /\ reported' = reported \ {p}
    /\ UNCHANGED <<library, transport, packets, call, calls, closing>>

\* Deliberate fault: the flag of the last attempt is left as it is.
KeepFailure == UNCHANGED failed

(* A new attempt to connect: the failure of the last one is forgotten. *)
ForgetFailure == failed' = FALSE

(* The old connection is closed and the queue emptied; the callbacks go on. *)
CloseOld(p) ==
    /\ pc[p] = "reconnect"
    /\ client
    /\ DisconnectInternal
    /\ channel' = ChannelClosed
    /\ current' = NoHost
    /\ Goto(p, "opening")
    /\ UNCHANGED <<running, client, failed, call, calls, closing, reported>>

(* createsocket() fails. *)
NoSocket(p) ==
    /\ pc[p] = "opening"
    /\ ForgetFailure
    /\ Fail(p, "failed")
    /\ reported' = reported \ {p}
    /\ UNCHANGED <<library, client, connected, current, packets, closing>>

Reconnect(p) ==
    /\ pc[p] = "opening"
    /\ ForgetFailure
    /\ channel' = NewChannel(channel.no + 1, Request(p).host)
    /\ current' = Request(p).host
    /\ Goto(p, "connecting")
    /\ reported' = reported \ {p}
    /\ UNCHANGED <<inbox, running, client, connected, packets, call, calls, closing>>

-----------------------------------------------------------------------------
(* The loop that waits for the connection, in a critical section left only
   while asleep: its first test, and a wake-up with the tests that follow. *)
ConnectionSeen(p) ==
    /\ pc[p] \in {"connecting", "asleep"}
    /\ connected
    /\ Goto(p, "connected")
    /\ reported' = reported \ {p}
    /\ UNCHANGED <<library, transport, packets, call, calls, closing>>

ConnectionFailed(p) ==
    /\ pc[p] \in {"connecting", "asleep"}
    /\ ~connected /\ failed
    /\ pc[p] = "asleep" => ~(client /\ IsUp)
    /\ Fail(p, "refused")
    /\ reported' = reported \ {p}
    /\ UNCHANGED <<library, transport, packets, closing>>

FallAsleep(p) ==
    /\ pc[p] = "connecting"
    /\ ~connected /\ ~failed
    /\ Goto(p, "asleep")
    /\ UNCHANGED <<library, transport, packets, call, calls, closing, reported>>

\* Deliberate fault: the wait goes on after the timeout was reported.
ConnectTimeoutGoesOn(p) ==
    /\ pc[p] = "asleep"
    /\ DisconnectInternal
    /\ channel' = ChannelClosed
    /\ current' = NoHost
    /\ calls' = [calls EXCEPT ![call[p]].verdict = "timeout"]
    /\ Goto(p, "connecting")
    /\ UNCHANGED <<running, client, failed, call, closing, reported>>

(* The time is up: the wait ends whatever the flags say, for every caller. *)
ConnectTimeout(p) ==
    /\ pc[p] = "asleep"
    /\ DisconnectInternal
    /\ channel' = ChannelClosed
    /\ current' = NoHost
    /\ Fail(p, "timeout")
    /\ reported' = (reported \cup Waiting) \ {p}
    /\ UNCHANGED <<running, client, failed, closing>>

(* The library says the connection is up, the callback may not have run. The
   test and the store are two accesses; the callback may run in between. *)
ConnectionDetected(p) ==
    /\ pc[p] = "asleep"
    /\ client /\ IsUp
    /\ Goto(p, "detected")
    /\ reported' = reported \ {p}
    /\ UNCHANGED <<library, transport, packets, call, calls, closing>>

StoreDetected(p) ==
    /\ pc[p] = "detected"
    /\ connected' = TRUE
    /\ Goto(p, "connected")
    /\ UNCHANGED <<library, client, failed, current, packets, call, calls, closing, reported>>

(* The flag read again, without the mutex: before the request is sent, after. *)
ConnectionLost(p) ==
    /\ pc[p] \in {"connected", "sent", "receive"}
    /\ ~connected
    /\ Fail(p, IF pc[p] = "connected" THEN "failed" ELSE "unanswered")
    /\ UNCHANGED <<library, transport, packets, closing, reported>>

ConnectionKept(p) ==
    /\ pc[p] \in {"connected", "sent", "receive"}
    /\ connected
    /\ Goto(p, CASE pc[p] = "connected" -> "send"
                 [] pc[p] = "sent" -> "settle"
                 [] pc[p] = "receive" -> "take")
    /\ UNCHANGED <<library, transport, packets, call, calls, closing, reported>>

-----------------------------------------------------------------------------
(* Sending, in one critical section with the test for the client. *)
ClientGone(p) ==
    /\ pc[p] = "send"
    /\ ~client
    /\ Fail(p, "failed")
    /\ UNCHANGED <<library, transport, packets, closing, reported>>

Send(p) ==
    /\ pc[p] = "send"
    /\ client /\ IsUp
    /\ channel' = [channel EXCEPT !.wire = Append(@, call[p])]
    /\ calls' = [calls EXCEPT ![call[p]].sentOn = channel.no,
                              ![call[p]].reached = channel.peer]
    /\ Goto(p, "sent")
    /\ UNCHANGED <<inbox, running, transport, packets, call, closing, reported>>

SendFails(p) ==
    /\ pc[p] = "send"
    /\ client /\ ~IsUp
    /\ Goto(p, "sendfailed")
    /\ UNCHANGED <<library, transport, packets, call, calls, closing, reported>>

(* The flag is cleared outside the mutex, for whatever connection there is. *)
StoreSendFailed(p) ==
    /\ pc[p] = "sendfailed"
    /\ connected' = FALSE
    /\ Fail(p, "failed")
    /\ Report
    /\ UNCHANGED <<library, client, failed, current, packets, closing>>

(* Timeouts of the request are set on the client's channel: m_client is tested
   and read again, both without the mutex. *)
TestClient(p) ==
    /\ pc[p] = "settle"
    /\ Goto(p, IF client THEN "channel" ELSE "receive")
    /\ UNCHANGED <<library, transport, packets, call, calls, closing, reported>>

ReadChannel(p) ==
    /\ pc[p] = "channel"
    /\ Goto(p, IF client THEN "receive" ELSE "crashed")
    /\ UNCHANGED <<library, transport, packets, call, calls, closing, reported>>

-----------------------------------------------------------------------------
(* receiveResponseWithTimeout(), after its test of the connection. *)
(* The timeout is 0 or negative. *)
NoTimeToReceive(p) ==
    /\ pc[p] = "receive"
    /\ connected
    /\ Fail(p, "unanswered")
    /\ UNCHANGED <<library, transport, packets, closing, reported>>

\* Deliberate fault: the packet stays in the queue.
Peeked == UNCHANGED packets

(* The oldest packet leaves the queue. *)
Popped == packets' = Tail(packets)

(* The first packet is taken, at once or after the one wait there is. *)
Take(p) ==
    /\ pc[p] \in {"take", "waiting"}
    /\ packets # <<>>
    /\ Popped
    /\ calls' = [calls EXCEPT ![call[p]].verdict = "ok",
                              ![call[p]].got = Head(packets).of,
                              ![call[p]].age = Head(packets).age]
    /\ Goto(p, "idle")
    /\ call' = [call EXCEPT ![p] = 0]
    /\ UNCHANGED <<library, transport, closing, reported>>

(* The packet taken is too short for its length field: a peer's fault. *)
TakeInvalid(p) ==
    /\ pc[p] \in {"take", "waiting"}
    /\ packets # <<>>
    /\ Popped
    /\ Fail(p, "unanswered")
    /\ UNCHANGED <<library, transport, closing, reported>>

WaitForPacket(p) ==
    /\ pc[p] = "take"
    /\ packets = <<>>
    /\ Goto(p, "waiting")
    /\ UNCHANGED <<library, transport, packets, call, calls, closing, reported>>

(* The time is up, even if a packet has just come, or the wait ended early with
   none: it is not repeated when another caller was faster, the queue was
   cleared or the wake-up was spurious. *)
GiveUp(p) ==
    /\ pc[p] = "waiting"
    /\ Fail(p, "unanswered")
    /\ UNCHANGED <<library, transport, packets, closing, reported>>

-----------------------------------------------------------------------------
(* disconnect(). *)
(* First critical section: callbacks off, the client moved out. *)
Disconnect ==
    /\ closer = "idle"
    /\ disconnects < MaxDisconnects
    /\ disconnects' = disconnects + 1
    /\ IF client THEN MoveOut ELSE UNCHANGED library
    /\ stopped' = (client /\ current # NoHost)
    /\ client' = FALSE
    /\ connected' = FALSE
    /\ failed' = TRUE
    /\ current' = NoHost
    /\ closer' = "stop"
    /\ Report
    /\ UNCHANGED <<packets, callers, calls>>

(* stop() waits for the client's loop; it is skipped if no peer is recorded. *)
StopClient ==
    /\ closer = "stop"
    /\ stopped => running["moved"] = Idle
    /\ closer' = "clear"
    /\ UNCHANGED <<library, transport, packets, callers, calls, stopped, disconnects, reported>>

ClearPackets ==
    /\ closer = "clear"
    /\ packets' = <<>>
    /\ closer' = "return"
    /\ UNCHANGED <<library, transport, callers, calls, stopped, disconnects, reported>>

\* Deliberate fault: the moved client is not destroyed before the return.
DisconnectLeaksClient ==
    /\ closer = "return"
    /\ closer' = "idle"
    /\ UNCHANGED <<library, transport, packets, callers, calls, stopped, disconnects, reported>>

(* The moved client is destroyed on return. *)
DisconnectReturns ==
    /\ closer = "return"
    /\ running["moved"] = Idle
    /\ closer' = "idle"
    /\ UNCHANGED <<library, transport, packets, callers, calls, stopped, disconnects, reported>>

-----------------------------------------------------------------------------
(* The callbacks set up by setupClient(), run by loop l. *)
OnConnected(l) ==
    /\ running[l].kind = "up"
    /\ connected' = TRUE
    /\ Continues(l, Idle)
    /\ UNCHANGED <<client, failed, current, packets, callers, calls, closing, reported>>

OnDisconnected(l) ==
    /\ running[l].kind = "lost"
    /\ connected' = FALSE
    /\ Continues(l, EventOf("lost2"))
    /\ Report
    /\ UNCHANGED <<client, failed, current, packets, callers, calls, closing>>

OnDisconnectedFails(l) ==
    /\ running[l].kind = "lost2"
    /\ failed' = TRUE
    /\ Continues(l, Idle)
    /\ Report
    /\ UNCHANGED <<client, connected, current, packets, callers, calls, closing>>

OnMessage(l) ==
    /\ running[l].kind = "packet"
    /\ Queued(l)
    /\ Continues(l, Idle)
    /\ UNCHANGED <<transport, callers, calls, closing, reported>>

-----------------------------------------------------------------------------
LockedStep(p) ==
    /\ ClientMutexFree
    /\ \/ Check(p) \/ Recreate(p) \/ ReconnectWithoutClient(p) \/ CloseOld(p)
       \/ ConnectionSeen(p) \/ ConnectionFailed(p) \/ FallAsleep(p) \/ ConnectTimeout(p)
       \/ ConnectionDetected(p) \/ ClientGone(p) \/ Send(p) \/ SendFails(p)

(* What was begun with the mutex, and what is done without it. *)
UnlockedStep(p) ==
    \/ NoSocket(p) \/ Reconnect(p)
    \/ StoreDetected(p) \/ ConnectionLost(p) \/ ConnectionKept(p) \/ StoreSendFailed(p)
    \/ TestClient(p) \/ ReadChannel(p) \/ NoTimeToReceive(p)
    \/ Take(p) \/ TakeInvalid(p) \/ WaitForPacket(p) \/ GiveUp(p)

CloserStep == StopClient \/ ClearPackets \/ DisconnectReturns

Callback(l) ==
    OnConnected(l) \/ OnDisconnected(l) \/ OnDisconnectedFails(l) \/ OnMessage(l)

LibraryStep ==
    /\ External \/ LoopCalls
    /\ UNCHANGED <<transport, packets, callers, calls, closing, reported>>

Next ==
    /\ ~Crashed
    /\ \/ \E p \in Caller, h \in Host \cup {NoHost} : Begin(p, h)
       \/ \E p \in Caller : LockedStep(p) \/ UnlockedStep(p)
       \/ (ClientMutexFree /\ Disconnect) \/ CloserStep
       \/ \E l \in Loop : Callback(l)
       \/ LibraryStep

Spec == Init /\ [][Next]_vars

-----------------------------------------------------------------------------
(* A call that meets disconnect() finds the client gone and returns an error,
   as sendRequest() does with "Client destroyed during send". *)
NoNullClient == ~Crashed
=============================================================================
