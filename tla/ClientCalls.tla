----------------------------- MODULE ClientCalls ------------------------------
(***************************************************************************)
(* What the two transports with a receive queue, TcpTransport and          *)
(* WebSocketTransport, have in common: the members they keep, their        *)
(* callers, the calls made so far, and what a caller may count on.         *)
(***************************************************************************)
EXTENDS HvClient, FiniteSets

CONSTANTS
    Caller,        \* threads that call sendRequest() and receiveResponse()
    MaxCalls,      \* bound: calls made by all of them
    MaxDisconnects \* bound: calls of disconnect()

ASSUME CallsAssumption == MaxCalls \in Nat
ASSUME DisconnectsAssumption == MaxDisconnects \in Nat

VARIABLES
    client,      \* m_client is not null
    connected,   \* m_connected
    failed,      \* m_connectFailed
    current,     \* m_currentHost and m_currentPort, m_currentUrl
    packets,     \* m_packetQueue, m_messageQueue
    pc, call,    \* position of each caller, its call in calls
    calls,       \* every call made, with how it ended (history)
    closer,      \* position of the thread that calls disconnect()
    stopped,     \* needStop of its call
    disconnects, \* number of its calls
    reported     \* callers waiting for a connection that has been reported
                 \* closed or lost, or was destroyed with its client, since
                 \* they last looked at it (history)

transport == <<client, connected, failed, current>>
callers == <<pc, call>>
closing == <<closer, stopped, disconnects>>
vars == <<library, transport, packets, callers, calls, closing, reported>>

\* A call: host is NoHost for a receiveResponse(); "alone" as long as no other
\* call overlaps it; the connection it was sent on (0 if it was not) and that
\* connection's peer; whose answer it got, and for which connection the queue had
\* last been emptied when that was put into it.
\* "unopened" is the verdict if the library refuses to open a connection and
\* the old one, if there is one, may be kept.
Verdict == {"open", "ok", "refused", "timeout", "unopened", "failed", "unanswered"}
Call == [host : Host \cup {NoHost}, alone : BOOLEAN, sentOn : Nat,
         reached : Host \cup {NoHost}, verdict : Verdict, got : Nat, age : Nat]
Packet == [of : Nat, age : Nat]

Begun ==
    /\ LibraryInit
    /\ client = TRUE
    /\ connected = FALSE /\ failed = FALSE
    /\ current = NoHost
    /\ packets = <<>>
    /\ pc = [p \in Caller |-> "idle"]
    /\ call = [p \in Caller |-> 0]
    /\ calls = <<>>
    /\ closer = "idle" /\ stopped = FALSE /\ disconnects = 0
    /\ reported = {}

-----------------------------------------------------------------------------
(* Steps of a caller. *)
Goto(p, next) == pc' = [pc EXCEPT ![p] = next]
Request(p) == calls[call[p]]

(* The connection is reported closed or lost, or goes with its client, while they
   wait for it. *)
Waiting ==
    {p \in Caller : pc[p] \in {"recreate", "reconnect", "opening", "connecting", "asleep"}}
Report == reported' = reported \cup Waiting

(* A return with -1. *)
Fail(p, how) ==
    /\ Goto(p, "idle")
    /\ calls' = [calls EXCEPT ![call[p]].verdict = how]
    /\ call' = [call EXCEPT ![p] = 0]

(* A call begins, of sendRequest() or of receiveResponse(). *)
Begin(p, h) ==
    /\ pc[p] = "idle"
    /\ Len(calls) < MaxCalls
    /\ LET others == {call[q] : q \in {q \in Caller : pc[q] # "idle"}}
           overlapped == [i \in 1 .. Len(calls) |->
               [calls[i] EXCEPT !.alone = @ /\ i \notin others]]
       IN calls' = Append(overlapped,
              [host |-> h, alone |-> others = {}, sentOn |-> 0, reached |-> NoHost,
               verdict |-> "open", got |-> 0, age |-> 0])
    /\ call' = [call EXCEPT ![p] = Len(calls) + 1]
    /\ Goto(p, IF h = NoHost THEN "receive" ELSE "check")
    /\ UNCHANGED <<library, transport, packets, closing, reported>>

(* A null client ends the process. *)
Crashed ==
    \/ \E p \in Caller : pc[p] = "crashed"
    \/ \E l \in Loop : running[l].kind = "crashed"

(* Who has emptied the queue keeps the mutex until the new connection is made
   (or not), and so does ConnectionDetected between its two accesses. *)
ClientMutexFree == \A p \in Caller : pc[p] \notin {"opening", "detected"}

(* The connection the queue was last emptied for: the next one while it is being
   made.  The callbacks go on, and what the loop still has of the old connection
   comes into the queue for the new one. *)
EmptiedFor ==
    IF \E p \in Caller : pc[p] = "opening" THEN channel.no + 1 ELSE channel.no

(* A callback puts an answer into the queue. *)
Queued(l) == packets' = Append(packets, [of |-> running[l].of, age |-> EmptiedFor])

-----------------------------------------------------------------------------
(* Types: library and transport hold what their declarations say, and a call
   that has ended is an ended call. *)
TypeOK ==
    /\ LibraryType
    /\ client \in BOOLEAN /\ connected \in BOOLEAN /\ failed \in BOOLEAN
    /\ current \in Host \cup {NoHost}
    /\ packets \in Seq(Packet)
    /\ calls \in Seq(Call) /\ Len(calls) <= MaxCalls
    /\ pc \in [Caller -> {"idle", "check", "recreate", "reconnect", "opening", "connecting",
                          "asleep", "detected", "connected", "send", "sendfailed", "sent", "settle",
                          "channel", "receive", "take", "waiting", "crashed"}]
    /\ call \in [Caller -> 0 .. Len(calls)]
    /\ \A p \in Caller : pc[p] # "idle" => call[p] # 0 /\ Request(p).verdict = "open"
    /\ closer \in {"idle", "stop", "clear", "return"}
    /\ stopped \in BOOLEAN
    /\ disconnects \in 0 .. MaxDisconnects
    /\ reported \subseteq Waiting

(* A request that no other call overlapped goes to the peer its URL names,
   though the connection is reused from call to call, made anew for another
   peer and may be dropped by disconnect() at any time - unless an earlier call
   could not open a connection and kept the old one. *)
RightPeer ==
    \A i \in 1 .. Len(calls) :
        calls[i].alone /\ calls[i].sentOn # 0 /\ calls[i].reached # calls[i].host
            => \E j \in 1 .. i : calls[j].verdict = "unopened"

GivenUp(i) ==
    calls[i].sentOn # 0 /\ calls[i].verdict \notin {"open", "ok"}

(* Answers carry nothing that says whose they are: no answer is handed out
   twice, and a request gets its own as long as no calls have overlapped and no
   earlier request was given up after it was sent - whatever connections were
   lost and made in between. *)
AnswersInStep ==
    /\ \A i, j \in 1 .. Len(calls) :
           calls[i].got # 0 /\ calls[i].got = calls[j].got => i = j
    /\ \A i \in 1 .. Len(calls) :
           calls[i].sentOn # 0 /\ calls[i].verdict = "ok" /\ calls[i].got # i
               => \E j \in 1 .. Len(calls) :
                      ~calls[j].alone \/ (j < i /\ GivenUp(j))

(* What was in the queue when it was emptied to make a connection is never taken
   for the answer to a request sent on that.  It is emptied before the old
   connection is replaced: what that one still delivers from then on is queued
   again, and may be taken. *)
FreshAnswers ==
    \A i \in 1 .. Len(calls) :
        calls[i].verdict = "ok" => calls[i].age >= calls[i].sentOn

(* A request fails as "refused" only if the connection was reported closed or
   lost, or was destroyed with its client, since the call looked at it or made
   it: m_connectFailed alone, left over from an earlier attempt, refuses nothing. *)
RefusalIsRecent ==
    [][\A p \in Caller :
          pc[p] # "idle" /\ pc'[p] = "idle" /\ calls'[call[p]].verdict = "refused"
              => p \in reported]_vars

(* Once disconnect() has returned no callback of the client it took away is
   running, so the transport may be destroyed; a new client is made by the next
   request only. *)
NothingRunsAfterDisconnect ==
    ~client /\ closer = "idle" => \A l \in Loop : running[l] = Idle
=============================================================================
