----------------------------- MODULE MCTransports -----------------------------
(***************************************************************************)
(* The four client transports on small instances: kind says which of them  *)
(* the callers use.  The two that receive into a queue share the variables *)
(* of ClientCalls, the two that do not have their own.                     *)
(***************************************************************************)
EXTENDS ClientCalls, Integers, TLC

CONSTANTS Milliseconds, MaxHttpCalls

ASSUME MillisecondsAssumption == Milliseconds \subseteq Int
ASSUME HttpCallsAssumption == MaxHttpCalls \in Nat

MCMilliseconds == {-1, 999, 1500, 65536999}

VARIABLES
    kind,
    secure, hasClient, answering, config, context, timeout, \* an HTTP client
    pos, held, limit, verdict, applied, gone, made                \* and its callers

httpVars == <<secure, hasClient, answering, config, context, timeout,
              pos, held, limit, verdict, applied, gone, made>>

Tcp == INSTANCE TcpTransport
WebSocket == INSTANCE WebSocketTransport
Http == INSTANCE HttpTransport
            WITH client <- hasClient, connected <- answering, MaxCalls <- MaxHttpCalls

Init ==
    /\ Http!Init
    /\ \/ kind = "tcp" /\ Tcp!Init
       \/ kind = "websocket" /\ WebSocket!Init
       \/ kind = "http" /\ Begun
    /\ kind # "http" => hasClient /\ ~secure /\ applied = "whole"

Next ==
    /\ \/ kind = "tcp" /\ Tcp!Next /\ UNCHANGED httpVars
       \/ kind = "websocket" /\ WebSocket!Next /\ UNCHANGED httpVars
       \/ kind = "http" /\ Http!Next /\ UNCHANGED vars
    /\ UNCHANGED kind

Spec == Init /\ [][Next]_<<vars, httpVars, kind>>

(* Types of the transport in use. *)
TypesOK == TypeOK /\ Http!TypeOK

(* Whoever shares an HTTP client, receiveResponse() and isConnected() tell *)
(* a caller about the last request it sent as long as nobody has           *)
(* intervened - also after a later request of its own that was refused     *)
(* before it was sent: receiveResponse() then reports the earlier success. *)
AnswersOwnRequest == Http!AnswersOwnRequest

(* setSslConfig() and disconnect() leave a request under way alone, and    *)
(* the settings in use are those last stored.                              *)
UnderItsSettings == Http!UnderItsSettings

(* The limit given to the library is the timeout asked for, in seconds.    *)
TimeoutHonoured == Http!TimeoutHonoured

Interchangeable == Permutations(Caller) \cup Permutations(Host)
=============================================================================
