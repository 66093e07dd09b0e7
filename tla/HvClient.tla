------------------------------- MODULE HvClient -------------------------------
(***************************************************************************)
(* The client object of the event-loop library as a transport uses it: one *)
(* connection (its channel), and a loop thread that calls the transport's  *)
(* callbacks.  The library is not part of the repository; this is what the *)
(* code of the transports counts on:                                       *)
(*  - a new socket replaces the client's connection, and closing one is    *)
(*    asked for from another thread: the loop may still deliver what it    *)
(*    has read, and reports the close like a loss;                         *)
(*  - callbacks run one at a time, in the order of the events;             *)
(*  - callbacks taken off the client are not called any more, but one that *)
(*    is running then runs to its end;                                     *)
(*  - stop() and the client's destructor wait for the loop's thread;       *)
(*  - the peer answers the requests of a connection in order, each at most *)
(*    once, and neither it nor the network is obliged to do anything.      *)
(***************************************************************************)
EXTENDS Naturals, Sequences

CONSTANTS
    Host,   \* the peers, a host with its port each
    NoHost  \* no peer

ASSUME HostAssumption == NoHost \notin Host

VARIABLES
    channel,  \* the client's connection: its number, peer, status and the
              \* requests sent on it that are not answered
    inbox,    \* events of the client the loop has not yet handled
    running   \* callback being run: by the present client's loop ("own"),
              \* by that of a client moved out of the transport ("moved")

library == <<channel, inbox, running>>

Loop == {"own", "moved"}

\* An event, and also the rest of the callback that handles it: a callback
\* for a lost connection has two stores, the second is "lost2"; one for a new
\* connection may go on to read the client ("up2", "up3", "crashed").
Event == [kind : {"up", "up2", "up3", "packet", "lost", "lost2", "crashed", "none"}, of : Nat]
EventOf(kind) == [kind |-> kind, of |-> 0]
Idle == EventOf("none")

Channel == [no : Nat, peer : Host \cup {NoHost},
            status : {"none", "connecting", "up"}, wire : Seq(Nat)]

\* A connection that is gone has lost its peer and what was sent on it.
NoChannel(no) == [no |-> no, peer |-> NoHost, status |-> "none", wire |-> <<>>]
NewChannel(no, h) == [no |-> no, peer |-> h, status |-> "connecting", wire |-> <<>>]

LibraryType ==
    /\ channel \in Channel
    /\ inbox \in Seq(Event)
    /\ running \in [Loop -> Event]

LibraryInit ==
    /\ channel = NoChannel(0)
    /\ inbox = <<>>
    /\ running = [l \in Loop |-> Idle]

Alive == channel.status \in {"connecting", "up"}

(* isConnected() of the client. *)
IsUp == channel.status = "up"

ChannelClosed == NoChannel(channel.no)

(* closesocket(): the loop will report the loss of the connection. *)
CloseReported == IF Alive THEN Append(inbox, EventOf("lost")) ELSE inbox

-----------------------------------------------------------------------------
(* What the network and the peer may do. *)
Established ==
    /\ channel.status = "connecting"
    /\ channel' = [channel EXCEPT !.status = "up"]
    /\ inbox' = Append(inbox, EventOf("up"))
    /\ UNCHANGED running

Lost ==
    /\ Alive
    /\ channel' = ChannelClosed
    /\ inbox' = CloseReported
    /\ UNCHANGED running

Answered ==
    /\ IsUp /\ channel.wire # <<>>
    /\ channel' = [channel EXCEPT !.wire = Tail(@)]
    /\ inbox' = Append(inbox, [kind |-> "packet", of |-> Head(channel.wire)])
    /\ UNCHANGED running

External == Established \/ Lost \/ Answered

(* The loop of the present client calls the callback of its next event. *)
LoopCalls ==
    /\ running["own"] = Idle
    /\ inbox # <<>>
    /\ running' = [running EXCEPT !["own"] = Head(inbox)]
    /\ inbox' = Tail(inbox)
    /\ UNCHANGED channel

(* Loop l is through with the callback, or has rest left to do. *)
Continues(l, rest) ==
    /\ running' = [running EXCEPT ![l] = rest]
    /\ UNCHANGED <<channel, inbox>>

(* Moving the client out of the transport, its callbacks taken off. *)
MoveOut ==
    /\ running' = [own |-> Idle, moved |-> running["own"]]
    /\ channel' = ChannelClosed
    /\ inbox' = <<>>

(* Replacing the client destroys the old one, whose loop has to end. *)
Replace ==
    /\ running["own"] = Idle
    /\ channel' = ChannelClosed
    /\ inbox' = <<>>
    /\ UNCHANGED running
=============================================================================
