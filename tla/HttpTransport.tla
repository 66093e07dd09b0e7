---------------------------- MODULE HttpTransport -----------------------------
(***************************************************************************)
(* HttpTransport and HttpsTransport: a synchronous client of the library   *)
(* behind one mutex.  They differ in the schemes they accept and in the    *)
(* SSL settings, which only HttpsTransport has.                            *)
(*                                                                         *)
(* A step is a critical section of m_clientMutex, or what happens between  *)
(* two accesses to a member that is used without it.  The library's client *)
(* is external: send() answers or fails, in its own time, and a context    *)
(* can be made and set or not.                                             *)
(***************************************************************************)
EXTENDS Integers

CONSTANTS
    Caller,        \* threads that use the transport
    Milliseconds,  \* values for timeouts, negative ones included
    MaxCalls       \* bound: calls made by all of them

VARIABLES
    secure,      \* it is an HttpsTransport
    client,      \* m_client is not null
    connected,   \* m_connected
    config,      \* m_sslConfig
    context,     \* the SSL context the client uses
    timeout,     \* m_timeout (m_connectTimeout is treated alike)
    pos,         \* position of each caller
    held,        \* the settings it was given or has read, or is sending under
    limit,       \* the timeout it asked for, and what it gave to the library
    verdict,     \* how its last sendRequest() ended that was sent, until a
                 \* call of another touches the connection (history)
    applied,     \* how the last configureSsl() ended (history)
    gone,        \* disconnect() has returned (history)
    made         \* number of calls begun

transport == <<client, connected, config, context, timeout>>
history == <<verdict, applied, gone, made>>
callers == <<pos, held, limit>>
vars == <<secure, transport, callers, history>>

\* Settings: the certificate files and the protocol version, of which configureSsl()
\* uses the files through pointers into m_sslConfig.
Setting == {<<"file1", "version1">>, <<"file2", "version2">>}
Unconfigured == <<"none", "default">>
Files == {"file1", "file2", "none", "garbage"}
Versions == {"version1", "version2", "default"}
SslConfig == Files \X Versions

\* The library takes a timeout as a uint16_t of seconds.
TwoTo16 == 65536
UInt16 == 0 .. TwoTo16 - 1
Limit == [ms : Int, seconds : UInt16]
NoLimit == [ms |-> 0, seconds |-> 0]

\* The library may fail to make the client, or its first context.
Init ==
    /\ secure \in BOOLEAN
    /\ client \in BOOLEAN /\ connected = FALSE
    /\ config = <<"file1", "version1">>
    /\ \/ applied = "whole" /\ context = config
       \/ applied = "nothing" /\ context = Unconfigured
    /\ timeout = 30000
    /\ pos = [p \in Caller |-> "idle"]
    /\ held = [p \in Caller |-> Unconfigured]
    /\ limit = [p \in Caller |-> NoLimit]
    /\ verdict = [p \in Caller |-> "none"]
    /\ gone = FALSE
    /\ made = 0

-----------------------------------------------------------------------------
Goto(p, from, to) ==
    /\ pos[p] = from
    /\ pos' = [pos EXCEPT ![p] = to]

Returns(p, from) ==
    /\ Goto(p, from, "idle")
    /\ held' = [held EXCEPT ![p] = Unconfigured]
    /\ limit' = [limit EXCEPT ![p] = NoLimit]

(* m_clientMutex is held from one step to the next only there. *)
MutexFree == \A p \in Caller : pos[p] \notin {"sending", "applying", "disconnecting"}

Counted == made < MaxCalls /\ made' = made + 1

(* The call of p has touched the connection, with an answer for p or none. *)
Touched(p, answer) ==
    verdict' = [q \in Caller |-> IF q = p THEN answer ELSE "none"]

(* parseUrl() of either class: what it finds before "://", or what it      *)
(* takes for granted when there is nothing; "bad" stands for no host or no *)
(* number for a port.                                                      *)
HttpScheme(url) == IF url = "none" THEN "http" ELSE url
HttpsScheme(url) == IF url = "none" THEN "https" ELSE url
Scheme(url) == IF secure THEN HttpsScheme(url) ELSE HttpScheme(url)

Accepted == IF secure THEN {"http", "https"} ELSE {"http"}

(* sendRequest() that is turned down before anything is sent: it returns   *)
(* -1, and what is known of the connection stays as it was.                *)
SendRefused(p) ==
    /\ Counted
    /\ MutexFree
    /\ \E url \in {"bad", "none", "http", "https", "other"} :
           ~client \/ Scheme(url) \notin Accepted
    /\ pos[p] = "idle"
    /\ UNCHANGED <<secure, transport, callers, verdict, applied, gone>>

(* Division of int in C++ is towards zero; a uint16_t keeps 16 bits. *)
Quotient(n, d) == IF n >= 0 THEN n \div d ELSE -((-n) \div d)

\* Deliberate fault: the seconds are not limited before they lose their upper bits.
SecondsUnlimited(ms) == Quotient(ms, 1000) % TwoTo16

Seconds(ms) ==
    LET s == Quotient(ms, 1000) IN (IF s < 65535 THEN s ELSE 65535) % TwoTo16

(* The request's timeout, if it has one, or the transport's. *)
LimitFor(ms) ==
    LET wait == IF ms >= 0 THEN ms ELSE timeout
    IN [ms |-> wait, seconds |-> Seconds(wait)]

\* Deliberate fault: the request is sent without the mutex.
SendsUnlocked(p) ==
    /\ Counted
    /\ client
    /\ Goto(p, "idle", "sending")
    /\ \E ms \in Milliseconds : limit' = [limit EXCEPT ![p] = LimitFor(ms)]
    /\ held' = [held EXCEPT ![p] = context]
    /\ UNCHANGED <<secure, transport, verdict, applied, gone>>

(* sendRequest() up to the library's send(), which keeps the mutex.        *)
Sends(p) ==
    /\ Counted
    /\ MutexFree
    /\ client
    /\ Goto(p, "idle", "sending")
    /\ \E ms \in Milliseconds : limit' = [limit EXCEPT ![p] = LimitFor(ms)]
    /\ held' = [held EXCEPT ![p] = context]
    /\ UNCHANGED <<secure, transport, verdict, applied, gone>>

Answered(p) ==
    /\ Returns(p, "sending")
    /\ connected' = TRUE
    /\ Touched(p, "answered")
    /\ UNCHANGED <<secure, client, config, context, timeout, applied, gone, made>>

\* Deliberate fault: a failure leaves the flag as it is.
FailedStillConnected(p) ==
    /\ Returns(p, "sending")
    /\ Touched(p, "failed")
    /\ UNCHANGED <<secure, transport, applied, gone, made>>

(* send() returned an error or threw. *)
Failed(p) ==
    /\ Returns(p, "sending")
    /\ connected' = FALSE
    /\ Touched(p, "failed")
    /\ UNCHANGED <<secure, client, config, context, timeout, applied, gone, made>>

(* What receiveResponse() and isConnected(), also connect(), answer: they  *)
(* take no mutex.                                                          *)
ReceiveSucceeds == connected
IsConnected == connected /\ client

-----------------------------------------------------------------------------
(* disconnect(): the client is gone for good. *)
DisconnectBegins(p) ==
    /\ Counted
    /\ MutexFree
    /\ Goto(p, "idle", "disconnecting")
    /\ client' = FALSE
    /\ Touched(p, "none")
    /\ UNCHANGED <<secure, connected, config, context, timeout, held, limit, applied, gone>>

DisconnectEnds(p) ==
    /\ Goto(p, "disconnecting", "idle")
    /\ connected' = FALSE
    /\ gone' = TRUE
    /\ UNCHANGED <<secure, client, config, context, timeout, held, limit, verdict, applied, made>>

(* setTimeout(); what the other setters store is never used.               *)
SetTimeout(p) ==
    /\ Counted
    /\ MutexFree
    /\ pos[p] = "idle"
    /\ timeout' \in Milliseconds
    /\ UNCHANGED <<secure, client, connected, config, context, callers, verdict, applied, gone>>

-----------------------------------------------------------------------------
(* setSslConfig(): m_sslConfig is assigned without the mutex, ... *)
AssignFiles(p) ==
    /\ secure
    /\ Counted
    /\ Goto(p, "idle", "assigning")
    /\ \E s \in Setting :
        /\ config' = <<s[1], config[2]>>
        /\ held' = [held EXCEPT ![p] = s]
    /\ UNCHANGED <<secure, client, connected, context, timeout, limit, verdict, applied, gone>>

AssignVersion(p) ==
    /\ Goto(p, "assigning", "configure")
    /\ config' = <<config[1], held[p][2]>>
    /\ UNCHANGED <<secure, client, connected, context, timeout, held, limit, history>>

(* ... and applied by configureSsl() under it, if there is a client.       *)
NothingToConfigure(p) ==
    /\ MutexFree
    /\ ~client
    /\ Returns(p, "configure")
    /\ UNCHANGED <<secure, transport, history>>

\* Deliberate fault: the settings are read before the mutex is taken.
ReadsFilesUnlocked(p) ==
    /\ client
    /\ Goto(p, "configure", "applying")
    /\ held' = [held EXCEPT ![p] = config]
    /\ UNCHANGED <<secure, transport, limit, history>>

ReadsFiles(p) ==
    /\ MutexFree
    /\ client
    /\ Goto(p, "configure", "applying")
    /\ held' = [held EXCEPT ![p] = config]
    /\ UNCHANGED <<secure, transport, limit, history>>

\* The files configureSsl() finds through the pointers it took earlier.
FilesSeen(f) == IF config[1] = f THEN {f} ELSE {config[1], f, "garbage"}

(* The context is made of the files, set to the version, and given to the  *)
(* client.  If the files were assigned meanwhile the pointers lead nowhere *)
(* in particular.  The version is lost if it is unknown or the library     *)
(* does not take it, and if the context has to be made in another way; if  *)
(* that fails too, or the client refuses it, the old context stays.        *)
Applies(p) ==
    /\ Returns(p, "applying")
    /\ applied' \in {"whole", "versionless", "nothing"}
    /\ \E f \in FilesSeen(held[p][1]) :
           context' = CASE applied' = "whole" -> <<f, config[2]>>
                        [] applied' = "versionless" -> <<f, "default">>
                        [] OTHER -> context
    /\ UNCHANGED <<secure, client, connected, config, timeout, verdict, gone, made>>

-----------------------------------------------------------------------------
Next ==
    \E p \in Caller :
        \/ SendRefused(p) \/ Sends(p) \/ Answered(p) \/ Failed(p)
        \/ DisconnectBegins(p) \/ DisconnectEnds(p) \/ SetTimeout(p)
        \/ AssignFiles(p) \/ AssignVersion(p)
        \/ NothingToConfigure(p) \/ ReadsFiles(p) \/ Applies(p)

Spec == Init /\ [][Next]_vars

-----------------------------------------------------------------------------
(* Types: the transport's members, its callers and what they work with.    *)
TypeOK ==
    /\ secure \in BOOLEAN /\ client \in BOOLEAN /\ connected \in BOOLEAN
    /\ config \in SslConfig /\ context \in SslConfig
    /\ timeout \in Milliseconds \cup {30000}
    /\ pos \in [Caller -> {"idle", "sending", "disconnecting",
                           "assigning", "configure", "applying"}]
    /\ held \in [Caller -> SslConfig]
    /\ limit \in [Caller -> Limit]
    /\ verdict \in [Caller -> {"none", "answered", "failed"}]
    /\ applied \in {"whole", "versionless", "nothing"}
    /\ gone \in BOOLEAN
    /\ made \in 0 .. MaxCalls

(* receiveResponse() and isConnected() share one flag with every caller:   *)
(* they say how the caller's own last request that was sent has ended, as  *)
(* long as no other call has touched the connection since, and no for good *)
(* once disconnect() has returned, whatever was under way then.  A request *)
(* turned down before it was sent does not count: although it returned -1, *)
(* they go on telling of the success, or failure, of the one before it.    *)
AnswersOwnRequest ==
    /\ \A p \in Caller :
        /\ verdict[p] = "answered" => ReceiveSucceeds /\ IsConnected
        /\ verdict[p] = "failed" => ~ReceiveSucceeds
    /\ gone => ~ReceiveSucceeds /\ ~IsConnected

(* A request runs to its end on a client that is not destroyed, under the  *)
(* context it began with; and when no settings are being changed, that     *)
(* context holds the settings last stored, though threads store them       *)
(* without the mutex - unless the library did not take them.               *)
UnderItsSettings ==
    /\ \A p \in Caller : pos[p] = "sending" => client /\ context = held[p]
    /\ client /\ applied = "whole"
       /\ (\A p \in Caller : pos[p] \notin {"assigning", "configure", "applying"})
           => context = config

(* The limit given to the library is never longer than what was asked for, *)
(* and shorter by less than a second unless it is the longest there is;    *)
(* below one second that makes it 0.  A negative default is not covered.   *)
TimeoutHonoured ==
    \A p \in Caller :
        pos[p] = "sending" /\ limit[p].ms >= 0 =>
            LET kept == limit[p].seconds * 1000
            IN /\ kept <= limit[p].ms
               /\ limit[p].seconds < 65535 => limit[p].ms - kept < 1000
===============================================================================
