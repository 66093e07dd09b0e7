--------------------------- MODULE TransportsProofs ---------------------------
(***************************************************************************)
(* Theorems about the four client transports, for any callers, peers,      *)
(* timeouts and numbers of calls.                                          *)
(***************************************************************************)
EXTENDS MCTransports, SequenceTheorems, TLAPS

-----------------------------------------------------------------------------
(* HttpTransport and HttpsTransport.  The inductive invariant: one thread  *)
(* has the mutex, ...                                                      *)
HasMutex(p) == pos[p] \in {"sending", "applying", "disconnecting"}
OneHasMutex == \A p, q \in Caller : HasMutex(p) /\ HasMutex(q) => p = q

(* ... the client of a transport that was disconnected is gone, ...        *)
GoneForGood == gone \/ (\E p \in Caller : pos[p] = "disconnecting") => ~hasClient

(* ... and the files being applied are those stored, unless another thread *)
(* is changing them.                                                       *)
Configuring(p) == pos[p] \in {"assigning", "configure", "applying"}
FilesStored ==
    \A p \in Caller :
        pos[p] = "applying" /\ (\A q \in Caller : Configuring(q) => q = p)
            => held[p][1] = config[1]

HttpInv ==
    /\ Http!TypeOK
    /\ OneHasMutex /\ GoneForGood /\ FilesStored
    /\ AnswersOwnRequest /\ UnderItsSettings /\ TimeoutHonoured

USE DEF Http!transport, Http!callers, Http!history, Http!vars, httpVars

LEMMA SecondsType == \A w \in Int : Http!Seconds(w) \in Http!UInt16
<1>1. ASSUME NEW s \in Int PROVE s % Http!TwoTo16 \in Http!UInt16
    <2>1. Http!TwoTo16 \in Int /\ Http!TwoTo16 > 0
        BY DEF Http!TwoTo16
    <2>2. s % Http!TwoTo16 \in 0 .. Http!TwoTo16 - 1
        BY <2>1
    <2> QED
        BY <2>2 DEF Http!UInt16
<1>2. ASSUME NEW w \in Int PROVE Http!Quotient(w, 1000) \in Int
    <2>1. w \div 1000 \in Int
        OBVIOUS
    <2>2. PICK v \in Int : v = -w
        OBVIOUS
    <2>3. PICK q \in Int : q = v \div 1000
        OBVIOUS
    <2>4. -q \in Int
        OBVIOUS
    <2> QED
        BY <2>1, <2>2, <2>3, <2>4 DEF Http!Quotient
<1>3. ASSUME NEW w \in Int PROVE Http!Seconds(w) \in Http!UInt16
    <2>1. PICK s \in Int : s = Http!Quotient(w, 1000)
        BY <1>2
    <2>2. PICK n \in Int : n = IF s < 65535 THEN s ELSE 65535
        OBVIOUS
    <2>3. Http!Seconds(w) = n % Http!TwoTo16
        BY <2>1, <2>2 DEF Http!Seconds
    <2> QED
        BY <1>1, <2>3
<1> QED
    BY <1>3

LEMMA NoLimitType == Http!NoLimit \in Http!Limit
<1>1. Http!TwoTo16 \in Int /\ Http!TwoTo16 > 0
    BY DEF Http!TwoTo16
<1>2. 0 \in Http!UInt16
    BY <1>1 DEF Http!UInt16
<1> QED
    BY <1>2 DEF Http!NoLimit, Http!Limit

LEMMA LimitType ==
    ASSUME Http!TypeOK, NEW ms \in Milliseconds
    PROVE  Http!LimitFor(ms) \in Http!Limit
<1>1. ms \in Int /\ timeout \in Int
    BY MillisecondsAssumption DEF Http!TypeOK
<1> QED
    BY <1>1, SecondsType DEF Http!LimitFor, Http!Limit

LEMMA LimitHonoured ==
    ASSUME NEW ms \in Int, ms >= 0
    PROVE  /\ Http!Seconds(ms) * 1000 <= ms
           /\ Http!Seconds(ms) < 65535 => ms - Http!Seconds(ms) * 1000 < 1000
<1>1. Http!Quotient(ms, 1000) = ms \div 1000
    BY DEF Http!Quotient
<1>2. PICK s \in Int : s = ms \div 1000 /\ s >= 0 /\ s * 1000 <= ms /\ ms - s * 1000 < 1000
    OBVIOUS
<1>3. Http!Seconds(ms) = IF s < 65535 THEN s ELSE 65535
    BY <1>1, <1>2 DEF Http!Seconds, Http!TwoTo16
<1> QED
    BY <1>2, <1>3

LEMMA HttpInit == Http!Init => HttpInv
<1> SUFFICES ASSUME Http!Init PROVE HttpInv
    OBVIOUS
<1>1. Http!TypeOK
    <2>1. Http!NoLimit \in Http!Limit /\ Http!Unconfigured \in Http!SslConfig
          /\ <<"file1", "version1">> \in Http!SslConfig
        BY NoLimitType DEF Http!Unconfigured, Http!SslConfig, Http!Files, Http!Versions
    <2>2. config \in Http!SslConfig /\ context \in Http!SslConfig
          /\ applied \in {"whole", "versionless", "nothing"}
        BY <2>1 DEF Http!Init
    <2>3. /\ pos \in [Caller -> {"idle", "sending", "disconnecting",
                                "assigning", "configure", "applying"}]
          /\ held \in [Caller -> Http!SslConfig] /\ limit \in [Caller -> Http!Limit]
          /\ verdict \in [Caller -> {"none", "answered", "failed"}]
        BY <2>1 DEF Http!Init
    <2>4. secure \in BOOLEAN /\ hasClient \in BOOLEAN /\ answering = FALSE /\ gone = FALSE
        BY DEF Http!Init
    <2>5. timeout \in Milliseconds \cup {30000} /\ made \in 0 .. MaxHttpCalls
        BY HttpCallsAssumption DEF Http!Init
    <2>6. answering \in BOOLEAN /\ gone \in BOOLEAN
        BY <2>4
    <2> QED
        BY <2>2, <2>3, <2>4, <2>5, <2>6 DEF Http!TypeOK
<1>2. OneHasMutex /\ GoneForGood /\ FilesStored
    BY DEF Http!Init, OneHasMutex, HasMutex, GoneForGood, FilesStored
<1>3. AnswersOwnRequest /\ UnderItsSettings /\ TimeoutHonoured
    BY DEF Http!Init, AnswersOwnRequest, Http!AnswersOwnRequest, UnderItsSettings,
           Http!UnderItsSettings, TimeoutHonoured, Http!TimeoutHonoured
<1> QED
    BY <1>1, <1>2, <1>3 DEF HttpInv

LEMMA HttpTypes == Http!TypeOK /\ [Http!Next]_httpVars => Http!TypeOK'
<1> SUFFICES ASSUME Http!TypeOK, [Http!Next]_httpVars PROVE Http!TypeOK'
    OBVIOUS
<1>a. Http!NoLimit \in Http!Limit
    BY NoLimitType
<1>b. Http!Unconfigured \in Http!SslConfig
    BY DEF Http!Unconfigured, Http!SslConfig, Http!Files, Http!Versions
<1>c. \A f \in Http!Files, v \in Http!Versions : <<f, v>> \in Http!SslConfig
    BY DEF Http!SslConfig
<1>d. \A s \in Http!SslConfig : s[1] \in Http!Files /\ s[2] \in Http!Versions
    BY DEF Http!SslConfig
<1>1. CASE UNCHANGED httpVars
    BY <1>1 DEF Http!TypeOK
<1>e. ASSUME NEW p \in Caller, NEW from, Http!Returns(p, from)
      PROVE  /\ held' \in [Caller -> Http!SslConfig] /\ limit' \in [Caller -> Http!Limit]
             /\ pos' \in [Caller -> {"idle", "sending", "disconnecting",
                                    "assigning", "configure", "applying"}]
    <2>1. held' \in [Caller -> Http!SslConfig]
        BY <1>e, <1>b DEF Http!Returns, Http!TypeOK
    <2>2. limit' \in [Caller -> Http!Limit]
        BY <1>e, <1>a DEF Http!Returns, Http!TypeOK
    <2> QED
        BY <1>e, <2>1, <2>2 DEF Http!Returns, Http!Goto, Http!TypeOK
<1>f. Http!Counted => made' \in 0 .. MaxHttpCalls
    BY HttpCallsAssumption DEF Http!Counted, Http!TypeOK
<1>2. ASSUME NEW p \in Caller, Http!SendRefused(p) PROVE Http!TypeOK'
    BY <1>2, <1>f DEF Http!SendRefused, Http!TypeOK
<1>3. ASSUME NEW p \in Caller, Http!Sends(p) PROVE Http!TypeOK'
    <2>1. PICK ms \in Milliseconds : limit' = [limit EXCEPT ![p] = Http!LimitFor(ms)]
        BY <1>3 DEF Http!Sends
    <2>2. limit' \in [Caller -> Http!Limit]
        BY <2>1, LimitType DEF Http!TypeOK
    <2>3. held' \in [Caller -> Http!SslConfig]
        BY <1>3 DEF Http!Sends, Http!TypeOK
    <2> QED
        BY <1>3, <2>2, <2>3, <1>f DEF Http!Sends, Http!Goto, Http!TypeOK
<1>4. ASSUME NEW p \in Caller, Http!Answered(p) \/ Http!Failed(p) PROVE Http!TypeOK'
    <2>1. answering' \in BOOLEAN /\ verdict' \in [Caller -> {"none", "answered", "failed"}]
        BY <1>4 DEF Http!Answered, Http!Failed, Http!Touched
    <2>2. /\ UNCHANGED <<secure, hasClient, config, context, timeout, applied, gone, made>>
          /\ Http!Returns(p, "sending")
        BY <1>4 DEF Http!Answered, Http!Failed
    <2>3. secure' \in BOOLEAN /\ hasClient' \in BOOLEAN /\ gone' \in BOOLEAN
        BY <2>2 DEF Http!TypeOK
    <2>4. config' \in Http!SslConfig /\ context' \in Http!SslConfig
          /\ timeout' \in Milliseconds \cup {30000}
          /\ applied' \in {"whole", "versionless", "nothing"} /\ made' \in 0 .. MaxHttpCalls
        BY <2>2 DEF Http!TypeOK
    <2>5. /\ held' \in [Caller -> Http!SslConfig] /\ limit' \in [Caller -> Http!Limit]
          /\ pos' \in [Caller -> {"idle", "sending", "disconnecting",
                                 "assigning", "configure", "applying"}]
        BY <1>e, <2>2
    <2> QED
        BY <2>1, <2>3, <2>4, <2>5 DEF Http!TypeOK
<1>5. ASSUME NEW p \in Caller, Http!DisconnectBegins(p) \/ Http!DisconnectEnds(p)
      PROVE  Http!TypeOK'
    <2>1. hasClient' \in BOOLEAN /\ answering' \in BOOLEAN /\ gone' \in BOOLEAN
        <3>1. /\ hasClient' = hasClient \/ hasClient' = FALSE
              /\ answering' = answering \/ answering' = FALSE
              /\ gone' = gone \/ gone' = TRUE
            BY <1>5 DEF Http!DisconnectBegins, Http!DisconnectEnds
        <3>2. hasClient \in BOOLEAN /\ answering \in BOOLEAN /\ gone \in BOOLEAN
            BY DEF Http!TypeOK
        <3> QED
            BY <3>1, <3>2
    <2>2. verdict' \in [Caller -> {"none", "answered", "failed"}]
        BY <1>5 DEF Http!DisconnectBegins, Http!DisconnectEnds, Http!Touched, Http!TypeOK
    <2>3. made' \in 0 .. MaxHttpCalls
        BY <1>5, <1>f DEF Http!DisconnectBegins, Http!DisconnectEnds, Http!TypeOK
    <2>4. pos' \in [Caller -> {"idle", "sending", "disconnecting",
                              "assigning", "configure", "applying"}]
        BY <1>5 DEF Http!DisconnectBegins, Http!DisconnectEnds, Http!Goto, Http!TypeOK
    <2>5. UNCHANGED <<secure, config, context, timeout, held, limit, applied>>
        BY <1>5 DEF Http!DisconnectBegins, Http!DisconnectEnds
    <2> QED
        BY <2>1, <2>2, <2>3, <2>4, <2>5 DEF Http!TypeOK
<1>6. ASSUME NEW p \in Caller, Http!SetTimeout(p) PROVE Http!TypeOK'
    BY <1>6, <1>f DEF Http!SetTimeout, Http!TypeOK
<1>7. ASSUME NEW p \in Caller, Http!AssignFiles(p) PROVE Http!TypeOK'
    <2>1. PICK s \in Http!Setting :
              config' = <<s[1], config[2]>> /\ held' = [held EXCEPT ![p] = s]
        BY <1>7 DEF Http!AssignFiles
    <2>2. s \in Http!SslConfig
        BY DEF Http!Setting, Http!SslConfig, Http!Files, Http!Versions
    <2>3. config' \in Http!SslConfig /\ held' \in [Caller -> Http!SslConfig]
        BY <2>1, <2>2, <1>c, <1>d DEF Http!TypeOK
    <2> QED
        BY <1>7, <2>3, <1>f DEF Http!AssignFiles, Http!Goto, Http!TypeOK
<1>8. ASSUME NEW p \in Caller, Http!AssignVersion(p) PROVE Http!TypeOK'
    <2>1. config' \in Http!SslConfig
        BY <1>8, <1>c, <1>d DEF Http!AssignVersion, Http!TypeOK
    <2> QED
        BY <1>8, <2>1 DEF Http!AssignVersion, Http!Goto, Http!TypeOK
<1>9. ASSUME NEW p \in Caller, Http!NothingToConfigure(p) \/ Http!ReadsFiles(p)
      PROVE  Http!TypeOK'
    BY <1>9, <1>e DEF Http!NothingToConfigure, Http!ReadsFiles, Http!Goto, Http!TypeOK
<1>10. ASSUME NEW p \in Caller, Http!Applies(p) PROVE Http!TypeOK'
    <2>1. PICK f \in Http!FilesSeen(held[p][1]) :
              context' = CASE applied' = "whole" -> <<f, config[2]>>
                           [] applied' = "versionless" -> <<f, "default">>
                           [] OTHER -> context
        BY <1>10 DEF Http!Applies
    <2>2. f \in Http!Files
        BY <1>d DEF Http!FilesSeen, Http!Files, Http!TypeOK
    <2>3. "default" \in Http!Versions
        BY DEF Http!Versions
    <2>4. context' \in Http!SslConfig
        BY <2>1, <2>2, <2>3, <1>c, <1>d DEF Http!TypeOK
    <2> QED
        BY <1>10, <2>4, <1>e DEF Http!Applies, Http!TypeOK
<1> QED
    BY <1>1, <1>2, <1>3, <1>4, <1>5, <1>6, <1>7, <1>8, <1>9, <1>10 DEF Http!Next

(* What a step does to the position of its caller, and to those of others. *)
LEMMA HttpMoves ==
    ASSUME Http!TypeOK, NEW p \in Caller, NEW from, NEW to,
           Http!Goto(p, from, to)
    PROVE  /\ pos[p] = from /\ pos'[p] = to
           /\ \A q \in Caller : q # p => pos'[q] = pos[q]
BY DEF Http!TypeOK, Http!Goto

LEMMA HttpMutexKept ==
    ASSUME HttpInv, [Http!Next]_httpVars
    PROVE  OneHasMutex' /\ GoneForGood'
<1> USE DEF HttpInv, OneHasMutex, HasMutex, GoneForGood
<1>1. CASE UNCHANGED httpVars
    BY <1>1
<1>2. ASSUME NEW p \in Caller, Http!SendRefused(p) \/ Http!SetTimeout(p)
      PROVE  OneHasMutex' /\ GoneForGood'
    BY <1>2 DEF Http!SendRefused, Http!SetTimeout
<1>3. ASSUME NEW p \in Caller, Http!Sends(p) \/ Http!ReadsFiles(p)
      PROVE  OneHasMutex' /\ GoneForGood'
    BY <1>3, HttpMoves DEF Http!Sends, Http!ReadsFiles, Http!MutexFree
<1>4. ASSUME NEW p \in Caller, Http!Answered(p) \/ Http!Failed(p) \/ Http!NothingToConfigure(p)
      PROVE  OneHasMutex' /\ GoneForGood'
    BY <1>4, HttpMoves DEF Http!Answered, Http!Failed, Http!NothingToConfigure, Http!Returns
<1>5. ASSUME NEW p \in Caller, Http!DisconnectBegins(p) PROVE OneHasMutex' /\ GoneForGood'
    BY <1>5, HttpMoves DEF Http!DisconnectBegins, Http!MutexFree
<1>6. ASSUME NEW p \in Caller, Http!DisconnectEnds(p) PROVE OneHasMutex' /\ GoneForGood'
    BY <1>6, HttpMoves DEF Http!DisconnectEnds
<1>7. ASSUME NEW p \in Caller, Http!AssignFiles(p) \/ Http!AssignVersion(p)
      PROVE  OneHasMutex' /\ GoneForGood'
    BY <1>7, HttpMoves DEF Http!AssignFiles, Http!AssignVersion
<1>8. ASSUME NEW p \in Caller, Http!Applies(p) PROVE OneHasMutex' /\ GoneForGood'
    BY <1>8, HttpMoves DEF Http!Applies, Http!Returns
<1> QED
    BY <1>1, <1>2, <1>3, <1>4, <1>5, <1>6, <1>7, <1>8 DEF Http!Next

LEMMA HttpAnswersKept ==
    ASSUME HttpInv, [Http!Next]_httpVars
    PROVE  AnswersOwnRequest'
<1> USE DEF AnswersOwnRequest, Http!AnswersOwnRequest, Http!ReceiveSucceeds, Http!IsConnected
<1>a. \A p \in Caller : pos[p] = "sending" => hasClient
    BY DEF HttpInv, UnderItsSettings, Http!UnderItsSettings
<1>b. AnswersOwnRequest /\ (gone => ~hasClient)
      /\ \A p \in Caller : pos[p] = "disconnecting" => ~hasClient
    BY DEF HttpInv, GoneForGood
<1>1. CASE UNCHANGED <<hasClient, answering, verdict, gone>>
    BY <1>1, <1>b
<1>2. ASSUME NEW p \in Caller, Http!SendRefused(p) PROVE AnswersOwnRequest'
    BY <1>2, <1>b DEF Http!SendRefused
<1>3. ASSUME NEW p \in Caller, Http!Answered(p) \/ Http!Failed(p) PROVE AnswersOwnRequest'
    BY <1>3, <1>a, <1>b
    DEF Http!Answered, Http!Failed, Http!Returns, Http!Goto, Http!Touched
<1>4. ASSUME NEW p \in Caller, Http!DisconnectBegins(p) PROVE AnswersOwnRequest'
    BY <1>4, <1>b DEF Http!DisconnectBegins, Http!Touched
<1>5. ASSUME NEW p \in Caller, Http!DisconnectEnds(p) PROVE AnswersOwnRequest'
    BY <1>5, <1>b DEF Http!DisconnectEnds, Http!Goto
<1> QED
    BY <1>1, <1>2, <1>3, <1>4, <1>5
    DEF Http!Next, Http!Sends, Http!SetTimeout, Http!AssignFiles, Http!AssignVersion,
        Http!NothingToConfigure, Http!ReadsFiles, Http!Applies

LEMMA HttpFilesKept ==
    ASSUME HttpInv, [Http!Next]_httpVars
    PROVE  FilesStored'
<1> USE DEF FilesStored, Configuring
<1>t. Http!TypeOK /\ FilesStored /\ OneHasMutex /\ held \in [Caller -> Http!SslConfig]
    BY DEF HttpInv, Http!TypeOK
<1>1. CASE UNCHANGED httpVars
    BY <1>1, <1>t
<1>2. ASSUME NEW p \in Caller, Http!SendRefused(p) \/ Http!SetTimeout(p) PROVE FilesStored'
    BY <1>2, <1>t DEF Http!SendRefused, Http!SetTimeout
<1>3. ASSUME NEW p \in Caller, Http!Sends(p) PROVE FilesStored'
    BY <1>3, <1>t, HttpMoves DEF Http!Sends
<1>4. ASSUME NEW p \in Caller, Http!ReadsFiles(p) PROVE FilesStored'
    <2>1. UNCHANGED config /\ held' = [held EXCEPT ![p] = config]
        BY <1>4 DEF Http!ReadsFiles
    <2>2. Http!MutexFree /\ Http!Goto(p, "configure", "applying")
        BY <1>4 DEF Http!ReadsFiles
    <2> QED
        BY <2>1, <2>2, <1>t, HttpMoves DEF Http!MutexFree
<1>5. ASSUME NEW p \in Caller, Http!Answered(p) \/ Http!Failed(p) PROVE FilesStored'
    BY <1>5, <1>t, HttpMoves DEF Http!Answered, Http!Failed, Http!Returns
<1>6. ASSUME NEW p \in Caller, Http!NothingToConfigure(p) PROVE FilesStored'
    BY <1>6, <1>t, HttpMoves DEF Http!NothingToConfigure, Http!Returns, Http!MutexFree
<1>7. ASSUME NEW p \in Caller, Http!DisconnectBegins(p) \/ Http!DisconnectEnds(p)
      PROVE  FilesStored'
    BY <1>7, <1>t, HttpMoves DEF Http!DisconnectBegins, Http!DisconnectEnds
<1>8. ASSUME NEW p \in Caller, Http!AssignFiles(p) \/ Http!AssignVersion(p) PROVE FilesStored'
    BY <1>8, <1>t, HttpMoves DEF Http!AssignFiles, Http!AssignVersion
<1>9. ASSUME NEW p \in Caller, Http!Applies(p) PROVE FilesStored'
    <2>1. pos[p] = "applying" /\ pos'[p] = "idle" /\ UNCHANGED config
          /\ \A q \in Caller : q # p => pos'[q] = pos[q]
        BY <1>9, <1>t, HttpMoves DEF Http!Applies, Http!Returns
    <2>2. \A q \in Caller : pos'[q] # "applying"
        BY <1>t, <2>1 DEF OneHasMutex, HasMutex
    <2> QED
        BY <2>2
<1> QED
    BY <1>1, <1>2, <1>3, <1>4, <1>5, <1>6, <1>7, <1>8, <1>9 DEF Http!Next

(* The context of a request, and the one that is in use.                   *)
LEMMA HttpSettingsKept ==
    ASSUME HttpInv, [Http!Next]_httpVars
    PROVE  UnderItsSettings'
<1> USE DEF UnderItsSettings, Http!UnderItsSettings
<1>t. Http!TypeOK /\ UnderItsSettings /\ OneHasMutex /\ held \in [Caller -> Http!SslConfig]
    BY DEF HttpInv, Http!TypeOK
<1>1. CASE UNCHANGED httpVars
    BY <1>1, <1>t
<1>2. ASSUME NEW p \in Caller, Http!SendRefused(p) \/ Http!SetTimeout(p)
      PROVE  UnderItsSettings'
    BY <1>2, <1>t DEF Http!SendRefused, Http!SetTimeout
<1>3. ASSUME NEW p \in Caller, Http!Sends(p) PROVE UnderItsSettings'
    BY <1>3, <1>t, HttpMoves DEF Http!Sends
<1>4. ASSUME NEW p \in Caller, Http!ReadsFiles(p) PROVE UnderItsSettings'
    BY <1>4, <1>t, HttpMoves DEF Http!ReadsFiles, Http!MutexFree
<1>5. ASSUME NEW p \in Caller, Http!Answered(p) \/ Http!Failed(p) PROVE UnderItsSettings'
    BY <1>5, <1>t, HttpMoves DEF Http!Answered, Http!Failed, Http!Returns
<1>6. ASSUME NEW p \in Caller, Http!NothingToConfigure(p) PROVE UnderItsSettings'
    BY <1>6, <1>t, HttpMoves DEF Http!NothingToConfigure, Http!Returns, Http!MutexFree
<1>7. ASSUME NEW p \in Caller, Http!DisconnectBegins(p) PROVE UnderItsSettings'
    BY <1>7, <1>t, HttpMoves DEF Http!DisconnectBegins, Http!MutexFree
<1>8. ASSUME NEW p \in Caller, Http!DisconnectEnds(p) PROVE UnderItsSettings'
    BY <1>8, <1>t, HttpMoves DEF Http!DisconnectEnds
<1>9. ASSUME NEW p \in Caller, Http!AssignFiles(p) \/ Http!AssignVersion(p)
      PROVE  UnderItsSettings'
    BY <1>9, <1>t, HttpMoves DEF Http!AssignFiles, Http!AssignVersion
<1>10. ASSUME NEW p \in Caller, Http!Applies(p) PROVE UnderItsSettings'
    <2>1. /\ pos[p] = "applying" /\ pos'[p] = "idle" /\ UNCHANGED <<config, hasClient>>
          /\ \A q \in Caller : q # p => pos'[q] = pos[q]
        BY <1>10, <1>t, HttpMoves DEF Http!Applies, Http!Returns
    <2>2. \A q \in Caller : pos'[q] # "sending"
        BY <1>t, <2>1 DEF OneHasMutex, HasMutex
    <2>3. ASSUME applied' = "whole",
                 \A q \in Caller : pos'[q] \notin {"assigning", "configure", "applying"}
          PROVE  context' = config'
        <3>1. held[p][1] = config[1]
            BY <2>1, <2>3 DEF HttpInv, FilesStored, Configuring
        <3>2. context' = <<config[1], config[2]>>
            BY <1>10, <2>3, <3>1 DEF Http!Applies, Http!FilesSeen
        <3> QED
            BY <2>1, <3>2, <1>t DEF Http!TypeOK, Http!SslConfig
    <2> QED
        BY <2>2, <2>3
<1> QED
    BY <1>1, <1>2, <1>3, <1>4, <1>5, <1>6, <1>7, <1>8, <1>9, <1>10 DEF Http!Next

LEMMA HttpLimitKept ==
    ASSUME HttpInv, [Http!Next]_httpVars
    PROVE  TimeoutHonoured'
<1> DEFINE Honoured(l) ==
        l.ms >= 0 => /\ l.seconds * 1000 <= l.ms
                     /\ l.seconds < 65535 => l.ms - l.seconds * 1000 < 1000
<1>a. TimeoutHonoured <=> \A q \in Caller : pos[q] = "sending" => Honoured(limit[q])
    BY DEF TimeoutHonoured, Http!TimeoutHonoured
<1>b. TimeoutHonoured' <=> \A q \in Caller : pos'[q] = "sending" => Honoured(limit'[q])
    BY DEF TimeoutHonoured, Http!TimeoutHonoured
<1>t. Http!TypeOK /\ TimeoutHonoured /\ limit \in [Caller -> Http!Limit]
    BY DEF HttpInv, Http!TypeOK
<1>1. ASSUME NEW p \in Caller, Http!Sends(p) PROVE TimeoutHonoured'
    <2>1. PICK ms \in Milliseconds : limit' = [limit EXCEPT ![p] = Http!LimitFor(ms)]
        BY <1>1 DEF Http!Sends
    <2>2. Honoured(Http!LimitFor(ms))
        <3>1. PICK w \in Int : Http!LimitFor(ms) = [ms |-> w, seconds |-> Http!Seconds(w)]
            BY <1>t, MillisecondsAssumption DEF Http!LimitFor, Http!TypeOK
        <3> QED
            BY <3>1, LimitHonoured
    <2>3. \A q \in Caller : q # p => pos'[q] = pos[q] /\ limit'[q] = limit[q]
        BY <1>1, <1>t, <2>1, HttpMoves DEF Http!Sends
    <2>4. limit'[p] = Http!LimitFor(ms)
        BY <1>t, <2>1
    <2> HIDE DEF Honoured
    <2> QED
        BY <1>a, <1>b, <1>t, <2>2, <2>3, <2>4
<1>2. ASSUME \A q \in Caller : pos'[q] = "sending" => pos[q] = "sending" /\ limit'[q] = limit[q]
      PROVE  TimeoutHonoured'
    <2> HIDE DEF Honoured
    <2> QED
        BY <1>a, <1>b, <1>t, <1>2
<1>3. ASSUME NEW p \in Caller, Http!Answered(p) \/ Http!Failed(p) \/ Http!NothingToConfigure(p)
                               \/ Http!Applies(p)
      PROVE  TimeoutHonoured'
    BY <1>2, <1>3, <1>t, HttpMoves
    DEF Http!Answered, Http!Failed, Http!NothingToConfigure, Http!Applies, Http!Returns
<1>4. ASSUME NEW p \in Caller, Http!AssignFiles(p) \/ Http!AssignVersion(p) \/ Http!ReadsFiles(p)
                               \/ Http!DisconnectBegins(p) \/ Http!DisconnectEnds(p)
      PROVE  TimeoutHonoured'
    BY <1>2, <1>4, <1>t, HttpMoves
    DEF Http!AssignFiles, Http!AssignVersion, Http!ReadsFiles, Http!DisconnectBegins,
        Http!DisconnectEnds
<1>5. CASE UNCHANGED <<pos, limit>>
    BY <1>2, <1>5
<1> QED
    BY <1>1, <1>3, <1>4, <1>5 DEF Http!Next, Http!SendRefused, Http!SetTimeout

LEMMA HttpInvKept == HttpInv /\ [Http!Next]_httpVars => HttpInv'
BY HttpTypes, HttpMutexKept, HttpFilesKept, HttpAnswersKept, HttpSettingsKept, HttpLimitKept
DEF HttpInv

LEMMA FunctionIsSeq ==
    ASSUME NEW S, NEW n \in Nat, NEW f \in [1 .. n -> S]
    PROVE  f \in Seq(S) /\ Len(f) = n
OBVIOUS

-----------------------------------------------------------------------------
(* TcpTransport and WebSocketTransport.  What a step of either does, as    *)
(* far as their invariants tell: to the caller, ...                        *)
Position == {"idle", "check", "recreate", "reconnect", "opening", "connecting", "asleep",
             "detected", "connected", "send", "sendfailed", "sent", "settle",
             "channel", "receive", "take", "waiting", "crashed"}
Opened == {"connecting", "asleep", "detected", "connected", "send"}
BeforeSend == {"check", "recreate", "reconnect", "opening"} \cup Opened

MovesOn(p) ==
    /\ pc[p] # "idle"
    /\ \E to \in Position \ {"idle"} :
        /\ Goto(p, to)
        /\ to \in BeforeSend => pc[p] \in BeforeSend
        /\ to \in Opened => \/ pc[p] \in Opened /\ UNCHANGED current
                            \/ current' = Request(p).host
        /\ to = "opening" => packets' = <<>> /\ client' /\ \A q \in Caller : pc[q] # "opening"
    /\ UNCHANGED <<call, calls>>

Fails(p) ==
    /\ pc[p] # "idle"
    /\ \E how \in Verdict \ {"open", "ok", "unopened"} : Fail(p, how)

CallersRest == UNCHANGED <<pc, call, calls>>

(* ... to the connection and the queue, ...                                *)
Around == <<client, current, closer>>
Quiet == UNCHANGED <<library, packets, Around>>
Empties == packets' = <<>> /\ UNCHANGED <<library, Around>>

Closes == channel' = ChannelClosed /\ inbox' = CloseReported

GivesUp ==
    /\ Closes
    /\ packets' = <<>>
    /\ current' = NoHost
    /\ UNCHANGED <<running, client, closer>>

Replaces ==
    /\ Replace
    /\ client' = TRUE
    /\ current' \in {current, NoHost}
    /\ UNCHANGED <<packets, closer>>

Opens(p) ==
    /\ pc[p] = "opening" /\ Goto(p, "connecting")
    /\ channel' = NewChannel(channel.no + 1, Request(p).host)
    /\ inbox' \in {inbox, CloseReported}
    /\ current' = Request(p).host
    /\ UNCHANGED <<running, packets, client, closer>>

OpensNothing(p) ==
    /\ pc[p] = "opening"
    /\ Fail(p, "unopened")
    /\ UNCHANGED <<channel, inbox>> \/ Closes
    /\ current' = Request(p).host
    /\ UNCHANGED <<running, packets, client, closer>>

(* ... to both, ...                                                        *)
Sends(p) ==
    /\ pc[p] = "send"
    /\ IsUp
    /\ channel' = [channel EXCEPT !.wire = Append(@, call[p])]
    /\ calls' = [calls EXCEPT ![call[p]].sentOn = channel.no,
                              ![call[p]].reached = channel.peer]
    /\ \E to \in {"sent", "receive"} : Goto(p, to)
    /\ UNCHANGED <<inbox, running, packets, call, Around>>

Pops ==
    /\ packets # <<>>
    /\ packets' = Tail(packets)
    /\ UNCHANGED <<library, Around>>

Takes(p) ==
    /\ pc[p] # "idle"
    /\ Pops
    /\ calls' = [calls EXCEPT ![call[p]].verdict = "ok",
                              ![call[p]].got = Head(packets).of,
                              ![call[p]].age = Head(packets).age]
    /\ Goto(p, "idle")
    /\ call' = [call EXCEPT ![p] = 0]

(* ... or to no caller at all.                                             *)
Disconnects ==
    /\ \/ client /\ MoveOut
       \/ ~client /\ UNCHANGED library
    /\ \A p \in Caller : pc[p] # "opening"
    /\ client' = FALSE
    /\ current' = NoHost
    /\ closer' \in {"stop", "clear"}
    /\ UNCHANGED packets

CloserGoesOn ==
    /\ packets' \in {packets, <<>>}
    /\ closer' \in {"clear", "return"} \/ (closer' = "idle" /\ running["moved"] = Idle)
    /\ UNCHANGED <<library, client, current>>

Receives(l) ==
    /\ running[l].kind = "packet"
    /\ Queued(l)
    /\ Continues(l, Idle)
    /\ UNCHANGED Around

Turns(l) ==
    /\ running[l].kind # "none"
    /\ \E e \in Event : e.kind # "packet" /\ e.of = 0 /\ Continues(l, e)
    /\ UNCHANGED <<packets, Around>>

LibraryMoves ==
    /\ External \/ LoopCalls
    /\ UNCHANGED <<packets, Around>>

Effect ==
    \/ \E p \in Caller, h \in Host \cup {NoHost} : Begin(p, h)
    \/ \E p \in Caller : MovesOn(p) /\ (Quiet \/ Empties \/ GivesUp \/ Replaces \/ Opens(p))
    \/ \E p \in Caller : Fails(p) /\ (Quiet \/ GivesUp \/ Pops)
    \/ \E p \in Caller : OpensNothing(p) \/ Sends(p) \/ Takes(p)
    \/ CallersRest /\ (Disconnects \/ CloserGoesOn \/ LibraryMoves)
    \/ CallersRest /\ \E l \in Loop : Receives(l) \/ Turns(l)

USE DEF transport, callers, closing, vars, library, Around

LEMMA TcpEffect == Tcp!Next => Effect
<1> SUFFICES ASSUME Tcp!Next PROVE Effect
    OBVIOUS
<1> USE DEF Tcp!library, Tcp!transport, Tcp!callers, Tcp!closing, Tcp!Goto, Tcp!Fail, Tcp!Request
<1>1. ASSUME NEW p \in Caller, NEW h \in Host \cup {NoHost}, Tcp!Begin(p, h) PROVE Begin(p, h)
    BY <1>1 DEF Tcp!Begin, Begin, Goto
<1>2. ASSUME NEW p \in Caller,
             \/ Tcp!Check(p) \/ Tcp!ReconnectWithoutClient(p) \/ Tcp!ConnectionSeen(p)
             \/ Tcp!FallAsleep(p) \/ Tcp!ConnectionDetected(p)
      PROVE  MovesOn(p) /\ Quiet
    BY <1>2
    DEF MovesOn, Quiet, Goto, Request, Position, BeforeSend, Opened, Tcp!Check,
        Tcp!NeedsConnection, Tcp!ReconnectWithoutClient, Tcp!ConnectionSeen, Tcp!FallAsleep,
        Tcp!ConnectionDetected
<1>3. ASSUME NEW p \in Caller,
             \/ Tcp!StoreDetected(p) \/ Tcp!ConnectionKept(p) \/ Tcp!SendFails(p)
             \/ Tcp!TestClient(p) \/ Tcp!ReadChannel(p) \/ Tcp!WaitForPacket(p)
      PROVE  MovesOn(p) /\ Quiet
    BY <1>3
    DEF MovesOn, Quiet, Goto, Position, BeforeSend, Opened, Tcp!StoreDetected, Tcp!ConnectionKept,
        Tcp!SendFails, Tcp!TestClient, Tcp!ReadChannel, Tcp!WaitForPacket
<1>4. ASSUME NEW p \in Caller, Tcp!Recreate(p) PROVE MovesOn(p) /\ Replaces
    <2>1. MovesOn(p)
        <3>1. /\ pc[p] = "recreate" /\ Goto(p, "reconnect")
              /\ UNCHANGED <<call, calls>>
            BY <1>4 DEF Goto, Tcp!Recreate
        <3> QED
            BY <3>1 DEF MovesOn, Position, BeforeSend, Opened
    <2>2. Tcp!Replace => Replace
        BY DEF Replace, Idle, EventOf, ChannelClosed, NoChannel, Tcp!Replace, Tcp!Idle,
               Tcp!EventOf, Tcp!ChannelClosed, Tcp!NoChannel
    <2> QED
        BY <1>4, <2>1, <2>2 DEF Replaces, Tcp!Recreate
<1>5. ASSUME NEW p \in Caller, Tcp!Reconnect(p) PROVE MovesOn(p) /\ Opens(p)
    <2>1. /\ pc[p] = "opening" /\ Goto(p, "connecting") /\ UNCHANGED <<call, calls>>
          /\ current' = Request(p).host
        BY <1>5 DEF Goto, Request, Tcp!Reconnect
    <2>2. MovesOn(p)
        BY <2>1 DEF MovesOn, Position, BeforeSend, Opened
    <2>3. Opens(p)
        BY <1>5, <2>1 DEF Opens, NewChannel, Request, Tcp!Reconnect, Tcp!NewChannel
    <2> QED
        BY <2>2, <2>3
<1>6. ASSUME NEW p \in Caller,
             \/ Tcp!ConnectionFailed(p) \/ Tcp!ConnectionLost(p) \/ Tcp!ClientGone(p)
             \/ Tcp!StoreSendFailed(p) \/ Tcp!NoTimeToReceive(p) \/ Tcp!GiveUp(p)
             \/ Tcp!NoSocket(p)
      PROVE  Fails(p) /\ Quiet
    BY <1>6
    DEF Fails, Fail, Quiet, Goto, Verdict, Tcp!ConnectionFailed, Tcp!ConnectionLost,
        Tcp!ClientGone, Tcp!StoreSendFailed, Tcp!NoTimeToReceive, Tcp!GiveUp, Tcp!NoSocket
<1>7. ASSUME NEW p \in Caller, Tcp!ConnectTimeout(p) PROVE Fails(p) /\ GivesUp
    BY <1>7
    DEF Fails, Fail, Goto, Verdict, GivesUp, Closes, ChannelClosed, NoChannel, CloseReported,
        Alive, EventOf, Tcp!ConnectTimeout, Tcp!DisconnectInternal,
        Tcp!ChannelClosed, Tcp!NoChannel, Tcp!CloseReported, Tcp!Alive, Tcp!EventOf
<1>8. ASSUME NEW p \in Caller, Tcp!Send(p) PROVE Sends(p)
    BY <1>8 DEF Sends, Tcp!Send, IsUp, Tcp!IsUp, Goto
<1>9. ASSUME NEW p \in Caller, Tcp!Take(p) PROVE Takes(p)
    BY <1>9 DEF Takes, Pops, Goto, Tcp!Take, Tcp!Popped
<1>10. ASSUME NEW p \in Caller, Tcp!TakeInvalid(p) PROVE Fails(p) /\ Pops
    BY <1>10 DEF Fails, Fail, Pops, Goto, Verdict, Tcp!TakeInvalid, Tcp!Popped
<1>11. ASSUME Tcp!ClientMutexFree, Tcp!Disconnect PROVE CallersRest /\ Disconnects
    BY <1>11
    DEF CallersRest, Disconnects, MoveOut, ChannelClosed, NoChannel, Idle, EventOf,
        Tcp!ClientMutexFree, Tcp!Disconnect, Tcp!MoveOut, Tcp!ChannelClosed, Tcp!NoChannel,
        Tcp!Idle, Tcp!EventOf
<1>12. ASSUME Tcp!CloserStep PROVE CallersRest /\ CloserGoesOn
    BY <1>12
    DEF CallersRest, CloserGoesOn, Idle, EventOf, Tcp!CloserStep, Tcp!StopClient,
        Tcp!ClearPackets, Tcp!DisconnectReturns, Tcp!Idle, Tcp!EventOf
<1>13. ASSUME NEW l \in Loop,
              Tcp!OnConnected(l) \/ Tcp!OnDisconnected(l) \/ Tcp!OnDisconnectedFails(l)
       PROVE  CallersRest /\ Turns(l)
    BY <1>13
    DEF CallersRest, Turns, Continues, Idle, EventOf, Event, Tcp!OnConnected, Tcp!OnDisconnected,
        Tcp!OnDisconnectedFails, Tcp!Continues, Tcp!Idle, Tcp!EventOf
<1>14. ASSUME NEW l \in Loop, Tcp!OnMessage(l) PROVE CallersRest /\ Receives(l)
    BY <1>14
    DEF CallersRest, Receives, Continues, Idle, EventOf, Queued, EmptiedFor, Tcp!OnMessage,
        Tcp!Queued, Tcp!EmptiedFor, Tcp!Continues, Tcp!Idle, Tcp!EventOf
<1>15. ASSUME Tcp!LibraryStep PROVE CallersRest /\ LibraryMoves
    BY <1>15
    DEF CallersRest, LibraryMoves, External, Tcp!LibraryStep, Tcp!External, Tcp!Established,
        Established, Tcp!Lost, Lost, Tcp!Answered, Answered, Tcp!LoopCalls, LoopCalls, Tcp!Alive,
        Alive, Tcp!IsUp, IsUp, Tcp!ChannelClosed, Tcp!NoChannel, ChannelClosed, NoChannel,
        Tcp!CloseReported, CloseReported, Tcp!EventOf, EventOf, Tcp!Idle, Idle
<1>16. ASSUME NEW p \in Caller, Tcp!ClientMutexFree, Tcp!CloseOld(p)
       PROVE  MovesOn(p) /\ GivesUp
    <2>1. /\ pc[p] = "reconnect" /\ Goto(p, "opening") /\ UNCHANGED <<call, calls>>
          /\ packets' = <<>> /\ client' /\ \A q \in Caller : pc[q] # "opening"
        BY <1>16 DEF Goto, Tcp!CloseOld, Tcp!DisconnectInternal, Tcp!ClientMutexFree
    <2>2. MovesOn(p)
        BY <2>1 DEF MovesOn, Position, BeforeSend, Opened
    <2>3. GivesUp
        BY <1>16
        DEF GivesUp, Closes, ChannelClosed, NoChannel, CloseReported, Alive, EventOf,
            Tcp!CloseOld, Tcp!DisconnectInternal, Tcp!ChannelClosed, Tcp!NoChannel,
            Tcp!CloseReported, Tcp!Alive, Tcp!EventOf
    <2> QED
        BY <2>2, <2>3
<1> QED
    BY <1>1, <1>2, <1>3, <1>4, <1>5, <1>6, <1>7, <1>8, <1>9, <1>10, <1>11, <1>12, <1>13, <1>14,
       <1>15, <1>16
    DEF Effect, Tcp!Next, Tcp!LockedStep, Tcp!UnlockedStep, Tcp!Callback, Tcp!Loop, Loop

LEMMA WebSocketEffect == WebSocket!Next => Effect
<1> SUFFICES ASSUME WebSocket!Next PROVE Effect
    OBVIOUS
<1> USE DEF WebSocket!library, WebSocket!transport, WebSocket!callers, WebSocket!closing,
            WebSocket!Goto, WebSocket!Fail, WebSocket!Request
<1>1. ASSUME NEW p \in Caller, NEW h \in Host \cup {NoHost}, WebSocket!Begin(p, h)
      PROVE  Begin(p, h)
    BY <1>1 DEF WebSocket!Begin, Begin, Goto
<1>2. ASSUME NEW p \in Caller,
             \/ WebSocket!KeepConnection(p) \/ WebSocket!FallAsleep(p)
             \/ WebSocket!ConnectionSeen(p) \/ WebSocket!ConnectionDetected(p)
      PROVE  MovesOn(p) /\ Quiet
    BY <1>2
    DEF MovesOn, Quiet, Goto, Request, Position, BeforeSend, Opened, WebSocket!KeepConnection,
        WebSocket!NeedsConnection, WebSocket!ConnectionSeen, WebSocket!FallAsleep,
        WebSocket!ConnectionDetected
<1>3. ASSUME NEW p \in Caller,
             \/ WebSocket!StoreDetected(p) \/ WebSocket!ConnectionKept(p)
             \/ WebSocket!SendNothing(p) \/ WebSocket!SendFails(p) \/ WebSocket!WaitForMessage(p)
      PROVE  MovesOn(p) /\ Quiet
    BY <1>3
    DEF MovesOn, Quiet, Goto, Position, BeforeSend, Opened, WebSocket!StoreDetected,
        WebSocket!ConnectionKept, WebSocket!SendNothing, WebSocket!SendFails,
        WebSocket!WaitForMessage
<1>4. ASSUME NEW p \in Caller, WebSocket!Check(p)
      PROVE  MovesOn(p) /\ (Quiet \/ Replaces)
    <2>1. MovesOn(p)
        <3>1. /\ pc[p] = "check" /\ Goto(p, "reconnect")
              /\ UNCHANGED <<call, calls>>
            BY <1>4 DEF Goto, WebSocket!Check
        <3> QED
            BY <3>1 DEF MovesOn, Position, BeforeSend, Opened
    <2>2. WebSocket!Replace => Replace
        BY DEF Replace, Idle, EventOf, ChannelClosed, NoChannel, WebSocket!Replace,
               WebSocket!Idle, WebSocket!EventOf, WebSocket!ChannelClosed, WebSocket!NoChannel
    <2> QED
        BY <1>4, <2>1, <2>2 DEF Quiet, Replaces, WebSocket!Check
<1>5. ASSUME NEW p \in Caller, WebSocket!Open(p) PROVE MovesOn(p) /\ Opens(p)
    <2>1. /\ pc[p] = "opening" /\ Goto(p, "connecting") /\ UNCHANGED <<call, calls>>
          /\ current' = Request(p).host
        BY <1>5 DEF Goto, Request, WebSocket!Open, WebSocket!PrepareToOpen
    <2>2. MovesOn(p)
        BY <2>1 DEF MovesOn, Position, BeforeSend, Opened
    <2>3. Opens(p)
        BY <1>5, <2>1
        DEF Opens, NewChannel, CloseReported, Alive, EventOf, Request, WebSocket!Open,
            WebSocket!NewChannel, WebSocket!CloseReported, WebSocket!Alive, WebSocket!EventOf
    <2> QED
        BY <2>2, <2>3
<1>6. ASSUME NEW p \in Caller,
             \/ WebSocket!NoClient(p) \/ WebSocket!ConnectionFailed(p)
             \/ WebSocket!ConnectTimeout(p) \/ WebSocket!ConnectionLost(p)
             \/ WebSocket!ClientGone(p) \/ WebSocket!StoreSendFailed(p)
             \/ WebSocket!NotConnected(p) \/ WebSocket!GiveUp(p)
      PROVE  Fails(p) /\ Quiet
    BY <1>6
    DEF Fails, Fail, Quiet, Goto, Verdict, WebSocket!NoClient, WebSocket!ConnectionFailed,
        WebSocket!ConnectTimeout, WebSocket!ConnectionLost, WebSocket!ClientGone,
        WebSocket!StoreSendFailed, WebSocket!NotConnected, WebSocket!GiveUp
<1>7. ASSUME NEW p \in Caller, WebSocket!OpenFails(p) PROVE OpensNothing(p)
    BY <1>7
    DEF OpensNothing, Fail, Goto, Request, Closes, ChannelClosed, NoChannel, CloseReported, Alive,
        EventOf, WebSocket!OpenFails, WebSocket!PrepareToOpen, WebSocket!ChannelClosed,
        WebSocket!NoChannel, WebSocket!CloseReported, WebSocket!Alive, WebSocket!EventOf
<1>8. ASSUME NEW p \in Caller, WebSocket!Send(p) PROVE Sends(p)
    BY <1>8 DEF Sends, WebSocket!Send, IsUp, WebSocket!IsUp, Goto
<1>9. ASSUME NEW p \in Caller, WebSocket!Take(p) PROVE Takes(p)
    BY <1>9 DEF Takes, Pops, Goto, WebSocket!Take, WebSocket!Popped
<1>10. ASSUME WebSocket!ClientMutexFree, WebSocket!Disconnect
       PROVE  CallersRest /\ Disconnects
    BY <1>10
    DEF CallersRest, Disconnects, MoveOut, ChannelClosed, NoChannel, Idle, EventOf,
        WebSocket!ClientMutexFree, WebSocket!Disconnect, WebSocket!MoveOut, WebSocket!ChannelClosed, WebSocket!NoChannel,
        WebSocket!Idle, WebSocket!EventOf
<1>11. ASSUME WebSocket!CloserStep PROVE CallersRest /\ CloserGoesOn
    BY <1>11
    DEF CallersRest, CloserGoesOn, Idle, EventOf, WebSocket!CloserStep,
        WebSocket!ClearMessages, WebSocket!DisconnectReturns, WebSocket!Idle, WebSocket!EventOf
<1>12. ASSUME NEW l \in Loop,
              \/ WebSocket!OnOpen(l) \/ WebSocket!OnOpenTestsClient(l)
              \/ WebSocket!OnOpenReadsClient(l) \/ WebSocket!OnClose(l)
              \/ WebSocket!OnCloseFails(l)
       PROVE  CallersRest /\ Turns(l)
    BY <1>12
    DEF CallersRest, Turns, Continues, Idle, EventOf, Event, WebSocket!OnOpen,
        WebSocket!OnOpenTestsClient, WebSocket!OnOpenReadsClient, WebSocket!OnClose,
        WebSocket!OnCloseFails, WebSocket!Continues, WebSocket!Idle, WebSocket!EventOf
<1>13. ASSUME NEW l \in Loop, WebSocket!OnMessage(l) PROVE CallersRest /\ Receives(l)
    BY <1>13
    DEF CallersRest, Receives, Continues, Idle, EventOf, Queued, EmptiedFor,
        WebSocket!OnMessage, WebSocket!Queued, WebSocket!EmptiedFor, WebSocket!Continues,
        WebSocket!Idle, WebSocket!EventOf
<1>14. ASSUME WebSocket!LibraryStep PROVE CallersRest /\ LibraryMoves
    BY <1>14
    DEF CallersRest, LibraryMoves, External, WebSocket!LibraryStep, WebSocket!External,
        WebSocket!Established, Established, WebSocket!Lost, Lost, WebSocket!Answered, Answered,
        WebSocket!LoopCalls, LoopCalls, WebSocket!Alive, Alive, WebSocket!IsUp, IsUp,
        WebSocket!ChannelClosed, WebSocket!NoChannel, ChannelClosed, NoChannel,
        WebSocket!CloseReported, CloseReported, WebSocket!EventOf, EventOf, WebSocket!Idle, Idle
<1>15. ASSUME NEW p \in Caller, WebSocket!ClientMutexFree, WebSocket!ClearOld(p)
       PROVE  MovesOn(p) /\ Empties
    <2>1. /\ pc[p] = "reconnect" /\ Goto(p, "opening") /\ UNCHANGED <<call, calls>>
          /\ packets' = <<>> /\ client' /\ \A q \in Caller : pc[q] # "opening"
          /\ UNCHANGED <<library, Around>>
        BY <1>15 DEF Goto, WebSocket!ClearOld, WebSocket!EmptyQueue, WebSocket!ClientMutexFree
    <2> QED
        BY <2>1 DEF MovesOn, Empties, Position, BeforeSend, Opened
<1> QED
    BY <1>1, <1>2, <1>3, <1>4, <1>5, <1>6, <1>7, <1>8, <1>9, <1>10, <1>11, <1>12, <1>13, <1>14,
       <1>15
    DEF Effect, WebSocket!Next, WebSocket!LockedStep, WebSocket!UnlockedStep,
        WebSocket!Callback, WebSocket!Loop, Loop

(* What these do to the calls.                                             *)
LEMMA CallReplaced ==
    ASSUME NEW cs \in Seq(Call), NEW c \in 1 .. Len(cs), NEW r \in Call
    PROVE  /\ [cs EXCEPT ![c] = r] \in Seq(Call) /\ Len([cs EXCEPT ![c] = r]) = Len(cs)
           /\ \A i \in 1 .. Len(cs) : i # c => [cs EXCEPT ![c] = r][i] = cs[i]
           /\ [cs EXCEPT ![c] = r][c] = r
BY ExceptSeq

LEMMA CallFields ==
    ASSUME NEW r \in Call
    PROVE  /\ r.host \in Host \cup {NoHost} /\ r.alone \in BOOLEAN /\ r.sentOn \in Nat
           /\ r.reached \in Host \cup {NoHost} /\ r.verdict \in Verdict
           /\ r.got \in Nat /\ r.age \in Nat
BY DEF Call

LEMMA CallFails ==
    ASSUME NEW cs \in Seq(Call), NEW c \in 1 .. Len(cs), NEW how \in Verdict
    PROVE  LET new == [cs EXCEPT ![c].verdict = how]
           IN  /\ new \in Seq(Call) /\ Len(new) = Len(cs)
               /\ \A i \in 1 .. Len(cs) : i # c => new[i] = cs[i]
               /\ new[c].verdict = how /\ new[c].host = cs[c].host
               /\ new[c].alone = cs[c].alone /\ new[c].sentOn = cs[c].sentOn
               /\ new[c].reached = cs[c].reached /\ new[c].got = cs[c].got
               /\ new[c].age = cs[c].age
<1> DEFINE r == [cs[c] EXCEPT !.verdict = how]
<1>1. cs[c] \in Call
    BY ElementOfSeq
<1>2. r \in Call
    BY <1>1 DEF Call
<1>3. /\ r.verdict = how /\ r.host = cs[c].host /\ r.alone = cs[c].alone
      /\ r.sentOn = cs[c].sentOn /\ r.reached = cs[c].reached /\ r.got = cs[c].got
      /\ r.age = cs[c].age
    BY <1>1 DEF Call
<1>4. [cs EXCEPT ![c].verdict = how] = [cs EXCEPT ![c] = r]
    OBVIOUS
<1> HIDE DEF r
<1>5. /\ [cs EXCEPT ![c] = r] \in Seq(Call) /\ Len([cs EXCEPT ![c] = r]) = Len(cs)
      /\ \A i \in 1 .. Len(cs) : i # c => [cs EXCEPT ![c] = r][i] = cs[i]
      /\ [cs EXCEPT ![c] = r][c] = r
    BY <1>2, CallReplaced
<1> QED
    BY <1>3, <1>4, <1>5

(* The invariant's part for callers: each has its call, an open one, ...   *)
CallTypes ==
    /\ calls \in Seq(Call) /\ Len(calls) <= MaxCalls
    /\ pc \in [Caller -> Position]
    /\ call \in [Caller -> 0 .. Len(calls)]

Busy(p) == pc[p] # "idle"

CallsHeld ==
    /\ \A p \in Caller : Busy(p) => call[p] # 0 /\ Request(p).verdict = "open"
    /\ \A p, q \in Caller : Busy(p) /\ Busy(q) /\ call[p] = call[q] => p = q
    /\ \A i \in 1 .. Len(calls) :
           calls[i].verdict = "open" => \E p \in Caller : Busy(p) /\ call[p] = i

(* ... a call that none overlaps is the last and the only one, ...         *)
AloneIsLast ==
    \A p \in Caller : Busy(p) /\ Request(p).alone =>
        call[p] = Len(calls) /\ \A q \in Caller : Busy(q) => q = p

(* ... and a request is sent once.                                         *)
Unsent ==
    \A p \in Caller : pc[p] \in BeforeSend => Request(p).sentOn = 0 /\ Request(p).host \in Host

CallerInv == CallTypes /\ CallsHeld /\ AloneIsLast /\ Unsent

(* The end of a call, with whatever verdict.                               *)
Ends(p) ==
    /\ Busy(p)
    /\ Goto(p, "idle") /\ call' = [call EXCEPT ![p] = 0]
    /\ calls' \in Seq(Call) /\ Len(calls') = Len(calls)
    /\ \A i \in 1 .. Len(calls) : i # call[p] => calls'[i] = calls[i]
    /\ calls'[call[p]].verdict # "open"
    /\ calls'[call[p]].host = Request(p).host /\ calls'[call[p]].alone = Request(p).alone
    /\ calls'[call[p]].sentOn = Request(p).sentOn
    /\ calls'[call[p]].reached = Request(p).reached

LEMMA OwnCall ==
    ASSUME CallerInv, NEW p \in Caller, Busy(p)
    PROVE  call[p] \in 1 .. Len(calls) /\ Request(p) \in Call /\ Len(calls) \in Nat
<1>1. call[p] \in 0 .. Len(calls) /\ call[p] # 0 /\ calls \in Seq(Call)
    BY DEF CallerInv, CallTypes, CallsHeld
<1>2. call[p] \in 1 .. Len(calls) /\ Len(calls) \in Nat
    BY <1>1
<1> QED
    BY <1>1, <1>2, ElementOfSeq DEF Request

LEMMA FailEnds ==
    ASSUME CallerInv, NEW p \in Caller, Busy(p), NEW how \in Verdict \ {"open"}, Fail(p, how)
    PROVE  /\ Ends(p) /\ calls'[call[p]].verdict = how
           /\ calls'[call[p]].got = Request(p).got /\ calls'[call[p]].age = Request(p).age
<1>1. call[p] \in 1 .. Len(calls) /\ calls \in Seq(Call)
    BY OwnCall DEF CallerInv, CallTypes
<1>2. calls' = [calls EXCEPT ![call[p]].verdict = how]
    BY DEF Fail
<1>3. Goto(p, "idle") /\ call' = [call EXCEPT ![p] = 0]
    BY DEF Fail
<1> QED
    BY <1>1, <1>2, <1>3, CallFails DEF Ends, Request

LEMMA TakeEnds ==
    ASSUME CallerInv, packets \in Seq(Packet), NEW p \in Caller, Takes(p)
    PROVE  /\ Ends(p) /\ calls'[call[p]].verdict = "ok"
           /\ calls'[call[p]].got = Head(packets).of /\ calls'[call[p]].age = Head(packets).age
<1>1. call[p] \in 1 .. Len(calls) /\ calls \in Seq(Call) /\ Request(p) \in Call
    BY OwnCall DEF CallerInv, CallTypes, Takes, Busy
<1>2. Head(packets) \in Packet
    BY HeadTailProperties DEF Takes, Pops
<1>3. Head(packets).of \in Nat /\ Head(packets).age \in Nat
    BY <1>2 DEF Packet
<1>4. Goto(p, "idle") /\ call' = [call EXCEPT ![p] = 0] /\ Busy(p)
    BY DEF Takes, Busy
<1> DEFINE r == [Request(p) EXCEPT !.verdict = "ok", !.got = Head(packets).of,
                                   !.age = Head(packets).age]
<1>5. calls' = [calls EXCEPT ![call[p]] = r]
    BY <1>1 DEF Takes, Request
<1>6. /\ r \in Call /\ r.verdict = "ok" /\ r.host = Request(p).host
      /\ r.alone = Request(p).alone /\ r.sentOn = Request(p).sentOn
      /\ r.reached = Request(p).reached
      /\ r.got = Head(packets).of /\ r.age = Head(packets).age
    BY <1>1, <1>3 DEF Call, Verdict
<1> HIDE DEF r
<1> QED
    BY <1>1, <1>4, <1>5, <1>6, CallReplaced DEF Ends

(* A call on its way: what is sent is its request.                         *)
Sent(p) ==
    /\ pc[p] = "send" /\ IsUp
    /\ \E to \in {"sent", "receive"} : Goto(p, to)
    /\ UNCHANGED call
    /\ calls' \in Seq(Call) /\ Len(calls') = Len(calls)
    /\ \A i \in 1 .. Len(calls) : i # call[p] => calls'[i] = calls[i]
    /\ calls'[call[p]].verdict = "open" /\ calls'[call[p]].host = Request(p).host
    /\ calls'[call[p]].alone = Request(p).alone /\ calls'[call[p]].got = Request(p).got
    /\ calls'[call[p]].age = Request(p).age
    /\ calls'[call[p]].sentOn = channel.no /\ calls'[call[p]].reached = channel.peer

LEMMA SendSends ==
    ASSUME CallerInv, channel \in Channel, NEW p \in Caller, Sends(p)
    PROVE  Sent(p)
<1>1. Busy(p)
    BY DEF Sends, Busy
<1>2. call[p] \in 1 .. Len(calls) /\ calls \in Seq(Call) /\ Request(p).verdict = "open"
      /\ Request(p) \in Call
    BY <1>1, OwnCall DEF CallerInv, CallTypes, CallsHeld
<1>3. channel.no \in Nat /\ channel.peer \in Host \cup {NoHost}
    BY DEF Channel
<1> DEFINE r == [Request(p) EXCEPT !.sentOn = channel.no, !.reached = channel.peer]
<1>4. calls' = [calls EXCEPT ![call[p]] = r]
    BY <1>2 DEF Sends, Request
<1>5. /\ pc[p] = "send" /\ IsUp /\ UNCHANGED call
      /\ \E to \in {"sent", "receive"} : Goto(p, to)
    BY DEF Sends
<1>6. /\ r \in Call /\ r.verdict = "open" /\ r.host = Request(p).host
      /\ r.alone = Request(p).alone /\ r.sentOn = channel.no /\ r.reached = channel.peer
      /\ r.got = Request(p).got /\ r.age = Request(p).age
    BY <1>2, <1>3 DEF Call
<1> HIDE DEF r
<1> QED
    BY <1>2, <1>4, <1>5, <1>6, CallReplaced DEF Sent

(* A call begins.                                                          *)
Enters(p, h) ==
    /\ ~Busy(p) /\ Len(calls) < MaxCalls
    /\ calls' \in Seq(Call) /\ Len(calls') = Len(calls) + 1
    /\ \A i \in 1 .. Len(calls) :
           /\ calls'[i].alone => calls[i].alone /\ \A q \in Caller : Busy(q) => call[q] # i
           /\ calls'[i].host = calls[i].host /\ calls'[i].sentOn = calls[i].sentOn
           /\ calls'[i].reached = calls[i].reached /\ calls'[i].verdict = calls[i].verdict
           /\ calls'[i].got = calls[i].got /\ calls'[i].age = calls[i].age
    /\ calls'[Len(calls) + 1].host = h
    /\ calls'[Len(calls) + 1].alone => \A q \in Caller : ~Busy(q)
    /\ calls'[Len(calls) + 1].sentOn = 0 /\ calls'[Len(calls) + 1].verdict = "open"
    /\ calls'[Len(calls) + 1].got = 0
    /\ call' = [call EXCEPT ![p] = Len(calls) + 1]
    /\ Goto(p, IF h = NoHost THEN "receive" ELSE "check")

LEMMA BeginBegins ==
    ASSUME CallerInv, NEW p \in Caller, NEW h \in Host \cup {NoHost}, Begin(p, h)
    PROVE  Enters(p, h)
<1>0. /\ pc[p] = "idle" /\ Len(calls) < MaxCalls
      /\ call' = [call EXCEPT ![p] = Len(calls) + 1]
      /\ Goto(p, IF h = NoHost THEN "receive" ELSE "check")
    BY Zenon DEF Begin
<1> DEFINE others == {call[q] : q \in {q \in Caller : pc[q] # "idle"}}
           new == [host |-> h, alone |-> others = {}, sentOn |-> 0, reached |-> NoHost,
                   verdict |-> "open", got |-> 0, age |-> 0]
           Old(i) == [calls[i] EXCEPT !.alone = calls[i].alone /\ i \notin others]
           overlapped == [i \in 1 .. Len(calls) |-> Old(i)]
<1>1. calls \in Seq(Call) /\ Len(calls) \in Nat
    BY LenProperties DEF CallerInv, CallTypes
<1>2. calls' = Append(overlapped, new)
    BY DEF Begin
<1>3. new \in Call /\ new.host = h /\ new.sentOn = 0 /\ new.verdict = "open" /\ new.got = 0
      /\ new.alone = (others = {})
    <2>1. (others = {}) \in BOOLEAN /\ "open" \in Verdict
        BY DEF Verdict
    <2> HIDE DEF others
    <2> QED
        BY <2>1 DEF Call
<1>4. ASSUME NEW i \in 1 .. Len(calls)
      PROVE  /\ Old(i) \in Call
             /\ Old(i).alone => calls[i].alone /\ i \notin others
             /\ Old(i).host = calls[i].host /\ Old(i).sentOn = calls[i].sentOn
             /\ Old(i).reached = calls[i].reached /\ Old(i).verdict = calls[i].verdict
             /\ Old(i).got = calls[i].got /\ Old(i).age = calls[i].age
    <2>1. calls[i] \in Call
        BY <1>1, ElementOfSeq
    <2>2. PICK b \in BOOLEAN : b = (calls[i].alone /\ i \notin others)
        OBVIOUS
    <2>3. Old(i) = [calls[i] EXCEPT !.alone = b]
        BY <2>2
    <2> HIDE DEF Old, others
    <2> QED
        BY <2>1, <2>2, <2>3 DEF Call
<1> HIDE DEF Old, new
<1>5. overlapped \in [1 .. Len(calls) -> Call]
    BY <1>4
<1>6. overlapped \in Seq(Call) /\ Len(overlapped) = Len(calls)
    BY <1>1, <1>5, FunctionIsSeq
<1>7. \A i \in 1 .. Len(calls) : overlapped[i] = Old(i)
    OBVIOUS
<1> HIDE DEF overlapped
<1>8. /\ calls' \in Seq(Call) /\ Len(calls') = Len(calls) + 1
      /\ \A i \in 1 .. Len(calls) : calls'[i] = Old(i)
      /\ calls'[Len(calls) + 1] = new
    BY <1>1, <1>2, <1>3, <1>6, <1>7, AppendProperties
<1>9. \A i : i \notin others => \A q \in Caller : Busy(q) => call[q] # i
    BY DEF Busy
<1>10. others = {} => \A q \in Caller : ~Busy(q)
    BY DEF Busy
<1> HIDE DEF others
<1>11. /\ ~Busy(p) /\ Len(calls) < MaxCalls
       /\ call' = [call EXCEPT ![p] = Len(calls) + 1]
       /\ Goto(p, IF h = NoHost THEN "receive" ELSE "check")
    BY <1>0, Zenon DEF Busy
<1> QED
    <2>1. \A i \in 1 .. Len(calls) :
             calls'[i].alone => calls[i].alone /\ \A q \in Caller : Busy(q) => call[q] # i
        BY <1>4, <1>8, <1>9
    <2>2. \A i \in 1 .. Len(calls) :
             /\ calls'[i].host = calls[i].host /\ calls'[i].sentOn = calls[i].sentOn
             /\ calls'[i].reached = calls[i].reached /\ calls'[i].verdict = calls[i].verdict
             /\ calls'[i].got = calls[i].got /\ calls'[i].age = calls[i].age
        BY <1>4, <1>8
    <2>3. /\ calls'[Len(calls) + 1].host = h
          /\ calls'[Len(calls) + 1].alone => \A q \in Caller : ~Busy(q)
          /\ calls'[Len(calls) + 1].sentOn = 0 /\ calls'[Len(calls) + 1].verdict = "open"
          /\ calls'[Len(calls) + 1].got = 0
        BY <1>3, <1>8, <1>10
    <2> QED
        BY <1>8, <1>11, <2>1, <2>2, <2>3 DEF Enters

CallerStep ==
    \/ \E p \in Caller, h \in Host \cup {NoHost} : Enters(p, h)
    \/ \E p \in Caller : MovesOn(p) \/ Ends(p) \/ Sent(p)
    \/ CallersRest /\ current' \in {current, NoHost}

LEMMA EffectOnCallers ==
    ASSUME CallerInv, channel \in Channel, packets \in Seq(Packet), Effect
    PROVE  CallerStep
<1>1. ASSUME NEW p \in Caller, NEW h \in Host \cup {NoHost}, Begin(p, h) PROVE CallerStep
    BY <1>1, BeginBegins DEF CallerStep
<1>2. ASSUME NEW p \in Caller, Fails(p) PROVE CallerStep
    <2>1. PICK how \in Verdict \ {"open", "ok", "unopened"} : Fail(p, how)
        BY <1>2 DEF Fails
    <2>2. Busy(p)
        BY <1>2 DEF Fails, Busy
    <2> QED
        BY <2>1, <2>2, FailEnds DEF CallerStep
<1>3. ASSUME NEW p \in Caller, OpensNothing(p) PROVE CallerStep
    <2>1. Fail(p, "unopened") /\ Busy(p) /\ "unopened" \in Verdict \ {"open"}
        BY <1>3 DEF OpensNothing, Busy, Verdict
    <2> QED
        BY <2>1, FailEnds DEF CallerStep
<1>4. ASSUME NEW p \in Caller, Sends(p) \/ Takes(p) PROVE CallerStep
    BY <1>4, SendSends, TakeEnds DEF CallerStep
<1>5. CASE \E p \in Caller : MovesOn(p)
    BY <1>5 DEF CallerStep
<1>6. ASSUME CallersRest, \/ Disconnects \/ CloserGoesOn \/ LibraryMoves
                          \/ \E l \in Loop : Receives(l) \/ Turns(l)
      PROVE  CallerStep
    <2>1. current' \in {current, NoHost}
        BY <1>6 DEF Disconnects, CloserGoesOn, LibraryMoves, Receives, Turns
    <2> QED
        BY <1>6, <2>1 DEF CallerStep
<1> QED
    BY <1>1, <1>2, <1>3, <1>4, <1>5, <1>6 DEF Effect

LEMMA CallersKept == CallerInv /\ CallerStep => CallerInv'
<1> SUFFICES ASSUME CallerInv, CallerStep PROVE CallerInv'
    OBVIOUS
<1>t. /\ calls \in Seq(Call) /\ Len(calls) \in Nat /\ Len(calls) <= MaxCalls
      /\ pc \in [Caller -> Position] /\ call \in [Caller -> 0 .. Len(calls)]
    BY LenProperties DEF CallerInv, CallTypes
<1>h. \A p \in Caller : Busy(p) => call[p] \in 1 .. Len(calls)
    BY OwnCall
<1>1. ASSUME NEW p \in Caller, NEW h \in Host \cup {NoHost}, Enters(p, h) PROVE CallerInv'
    <2> DEFINE n == Len(calls) + 1
    <2>1. /\ pc' = [pc EXCEPT ![p] = IF h = NoHost THEN "receive" ELSE "check"]
          /\ call' = [call EXCEPT ![p] = n]
          /\ calls' \in Seq(Call) /\ Len(calls') = n /\ Len(calls) < MaxCalls
        BY <1>1 DEF Enters, Goto
    <2>2. /\ pc'[p] \in {"receive", "check"} /\ (pc'[p] = "check" => h \in Host)
          /\ call'[p] = n
          /\ \A q \in Caller : q # p => pc'[q] = pc[q] /\ call'[q] = call[q]
        BY <1>t, <2>1
    <2>3. CallTypes'
        <3>1. pc' \in [Caller -> Position]
            BY <1>t, <2>1 DEF Position
        <3>2. call' \in [Caller -> 0 .. n]
            BY <1>t, <2>1
        <3>3. n <= MaxCalls
            BY <1>t, <2>1, CallsAssumption
        <3> QED
            BY <2>1, <3>1, <3>2, <3>3 DEF CallTypes
    <2>4. ~Busy(p) /\ \A q \in Caller : Busy(q) => q # p /\ call[q] # n
        BY <1>1, <1>h, <1>t DEF Enters
    <2>5. \A q \in Caller : Busy(q)' <=> (Busy(q) \/ q = p)
        BY <2>2 DEF Busy
    <2>6. \A i \in 1 .. Len(calls) :
              /\ calls'[i].alone => calls[i].alone /\ \A q \in Caller : Busy(q) => call[q] # i
              /\ calls'[i].host = calls[i].host /\ calls'[i].sentOn = calls[i].sentOn
              /\ calls'[i].verdict = calls[i].verdict
        BY <1>1 DEF Enters
    <2>7. /\ calls'[n].verdict = "open" /\ calls'[n].sentOn = 0 /\ calls'[n].host = h
          /\ calls'[n].alone => \A q \in Caller : ~Busy(q)
        BY <1>1 DEF Enters
    <2>8. n # 0 /\ \A i \in 1 .. n : i = n \/ i \in 1 .. Len(calls)
        BY <1>t
    <2> HIDE DEF n
    <2>9. CallsHeld'
        <3>1. \A q \in Caller : Busy(q)' => call'[q] # 0 /\ calls'[call'[q]].verdict = "open"
            <4>1. \A q \in Caller : Busy(q) => call[q] # 0 /\ calls[call[q]].verdict = "open"
                BY DEF CallerInv, CallsHeld, Request
            <4>2. call'[p] # 0 /\ calls'[call'[p]].verdict = "open"
                BY <2>2, <2>7, <2>8
            <4>3. ASSUME NEW q \in Caller, Busy(q), q # p
                  PROVE  call'[q] # 0 /\ calls'[call'[q]].verdict = "open"
                BY <1>h, <2>2, <2>6, <4>1, <4>3
            <4> QED
                BY <2>4, <2>5, <4>2, <4>3
        <3>2. \A q, r \in Caller : Busy(q)' /\ Busy(r)' /\ call'[q] = call'[r] => q = r
            BY <2>2, <2>4, <2>5 DEF CallerInv, CallsHeld
        <3>3. ASSUME NEW i \in 1 .. Len(calls), calls'[i].verdict = "open"
              PROVE  \E q \in Caller : Busy(q)' /\ call'[q] = i
            <4>1. PICK q \in Caller : Busy(q) /\ call[q] = i
                BY <2>6, <3>3 DEF CallerInv, CallsHeld
            <4> QED
                BY <2>2, <2>4, <2>5, <4>1
        <3>4. Busy(p)' /\ call'[p] = n
            BY <2>2, <2>5
        <3>5. \A i \in 1 .. Len(calls') :
                  calls'[i].verdict = "open" => \E q \in Caller : Busy(q)' /\ call'[q] = i
            BY <2>1, <2>8, <3>3, <3>4
        <3> QED
            BY <3>1, <3>2, <3>5 DEF CallsHeld, Request
    <2>10. AloneIsLast'
        BY <1>h, <2>1, <2>2, <2>4, <2>5, <2>6, <2>7 DEF AloneIsLast, Request
    <2>11. Unsent'
        <3>1. \A q \in Caller : pc[q] \in BeforeSend => Busy(q)
            BY DEF Busy, BeforeSend, Opened
        <3>2. pc'[p] = "receive" => pc'[p] \notin BeforeSend
            BY DEF BeforeSend, Opened
        <3> QED
            BY <1>h, <2>2, <2>4, <2>6, <2>7, <3>1, <3>2 DEF CallerInv, Unsent, Request
    <2> QED
        BY <2>3, <2>9, <2>10, <2>11 DEF CallerInv
<1>2. ASSUME NEW p \in Caller, MovesOn(p) PROVE CallerInv'
    <2>1. PICK to \in Position \ {"idle"} :
              Goto(p, to) /\ (to \in BeforeSend => pc[p] \in BeforeSend)
        BY <1>2 DEF MovesOn
    <2>2. UNCHANGED <<call, calls>> /\ Busy(p)
        BY <1>2 DEF MovesOn, Busy
    <2>3. pc' \in [Caller -> Position] /\ pc'[p] = to
          /\ \A q \in Caller : q # p => pc'[q] = pc[q]
        BY <1>t, <2>1 DEF Goto
    <2>4. \A q \in Caller : Busy(q)' <=> Busy(q)
        BY <2>2, <2>3 DEF Busy
    <2>5. \A q \in Caller : Request(q)' = Request(q)
        BY <2>2 DEF Request
    <2>6. CallTypes'
        BY <1>t, <2>2, <2>3 DEF CallTypes
    <2>7. CallsHeld' /\ AloneIsLast'
        BY <2>2, <2>4, <2>5 DEF CallerInv, CallsHeld, AloneIsLast
    <2>8. Unsent'
        BY <2>1, <2>3, <2>5 DEF CallerInv, Unsent
    <2> QED
        BY <2>6, <2>7, <2>8 DEF CallerInv
<1>3. ASSUME NEW p \in Caller, Ends(p) PROVE CallerInv'
    <2>1. /\ pc' = [pc EXCEPT ![p] = "idle"] /\ call' = [call EXCEPT ![p] = 0]
          /\ calls' \in Seq(Call) /\ Len(calls') = Len(calls) /\ Busy(p)
        BY <1>3 DEF Ends, Goto
    <2>2. /\ pc'[p] = "idle" /\ call'[p] = 0
          /\ \A q \in Caller : q # p => pc'[q] = pc[q] /\ call'[q] = call[q]
        BY <1>t, <2>1
    <2>3. CallTypes'
        <3>1. pc' \in [Caller -> Position]
            BY <1>t, <2>1 DEF Position
        <3>2. call' \in [Caller -> 0 .. Len(calls)]
            BY <1>t, <2>1
        <3> QED
            BY <1>t, <2>1, <3>1, <3>2 DEF CallTypes
    <2>4. \A q \in Caller : Busy(q)' <=> (Busy(q) /\ q # p)
        BY <2>2 DEF Busy
    <2>5. \A q \in Caller : Busy(q) /\ q # p => call[q] # call[p]
        BY <2>1 DEF CallerInv, CallsHeld
    <2>6. \A q \in Caller : Busy(q) /\ q # p => Request(q)' = Request(q)
        BY <1>3, <1>h, <2>2, <2>5 DEF Ends, Request
    <2>7. CallsHeld'
        BY <1>3, <1>h, <2>1, <2>2, <2>4, <2>5, <2>6 DEF CallerInv, CallsHeld, Ends
    <2>8. AloneIsLast'
        BY <2>1, <2>2, <2>4, <2>6 DEF CallerInv, AloneIsLast
    <2>9. Unsent'
        <3>1. \A q \in Caller : pc'[q] \in BeforeSend => Busy(q) /\ q # p /\ pc[q] \in BeforeSend
            BY <2>2 DEF BeforeSend, Opened, Busy
        <3> QED
            BY <2>6, <3>1 DEF CallerInv, Unsent
    <2> QED
        BY <2>3, <2>7, <2>8, <2>9 DEF CallerInv
<1>4. ASSUME NEW p \in Caller, Sent(p) PROVE CallerInv'
    <2>1. PICK to \in {"sent", "receive"} : Goto(p, to)
        BY <1>4 DEF Sent
    <2>2. UNCHANGED call /\ calls' \in Seq(Call) /\ Len(calls') = Len(calls) /\ Busy(p)
        BY <1>4 DEF Sent, Busy
    <2>3. pc'[p] = to /\ \A q \in Caller : q # p => pc'[q] = pc[q]
        BY <1>t, <2>1 DEF Goto
    <2>4. CallTypes'
        <3>1. pc' \in [Caller -> Position]
            BY <1>t, <2>1 DEF Position, Goto
        <3> QED
            BY <1>t, <2>2, <3>1 DEF CallTypes
    <2>5. \A q \in Caller : Busy(q)' <=> Busy(q)
        BY <2>2, <2>3 DEF Busy
    <2>6. \A q \in Caller : Busy(q) /\ q # p => call[q] # call[p]
        BY <2>2 DEF CallerInv, CallsHeld
    <2>7. \A q \in Caller : Busy(q) /\ q # p => Request(q)' = Request(q)
        BY <1>4, <1>h, <2>2, <2>6 DEF Sent, Request
    <2>8. Request(p)'.verdict = "open" /\ Request(p)'.alone = Request(p).alone
        BY <1>4, <2>2 DEF Sent, Request
    <2>9. CallsHeld'
        <3>1. \A i \in 1 .. Len(calls) : calls'[i].verdict = "open" => calls[i].verdict = "open"
            BY <1>4, <2>2 DEF Sent, CallerInv, CallsHeld, Request
        <3> QED
            BY <2>2, <2>5, <2>7, <2>8, <3>1 DEF CallerInv, CallsHeld
    <2>10. AloneIsLast'
        BY <2>2, <2>5, <2>7, <2>8 DEF CallerInv, AloneIsLast
    <2>11. Unsent'
        <3>1. \A q \in Caller : pc'[q] \in BeforeSend => Busy(q) /\ q # p /\ pc[q] \in BeforeSend
            BY <2>1, <2>3 DEF BeforeSend, Opened, Busy
        <3> QED
            BY <2>7, <3>1 DEF CallerInv, Unsent
    <2> QED
        BY <2>4, <2>9, <2>10, <2>11 DEF CallerInv
<1>5. CASE CallersRest
    BY <1>5
    DEF CallersRest, CallerInv, CallTypes, CallsHeld, AloneIsLast, Unsent, Busy, Request
<1> QED
    BY <1>1, <1>2, <1>3, <1>4, <1>5 DEF CallerStep

(* For the connection: what is alive has a peer and a number, ...          *)
LibraryInv ==
    /\ LibraryType
    /\ packets \in Seq(Packet)
    /\ current \in Host \cup {NoHost}
    /\ Alive => channel.no # 0 /\ channel.peer \in Host

LEMMA Reported == inbox \in Seq(Event) => CloseReported \in Seq(Event) /\ Idle \in Event
<1>1. EventOf("lost") \in Event /\ Idle \in Event
    BY DEF EventOf, Idle, Event
<1> QED
    BY <1>1, AppendProperties DEF CloseReported

LEMMA Closed ==
    channel \in Channel =>
        ChannelClosed \in Channel /\ ChannelClosed.status = "none" /\ ChannelClosed.wire = <<>>
        /\ ChannelClosed.no = channel.no
BY EmptySeq DEF ChannelClosed, NoChannel, Channel

LEMMA LibraryKept ==
    ASSUME CallerInv, LibraryInv, Effect
    PROVE  LibraryInv'
<1>t. /\ channel \in Channel /\ inbox \in Seq(Event) /\ running \in [Loop -> Event]
      /\ packets \in Seq(Packet) /\ current \in Host \cup {NoHost}
      /\ Alive => channel.no # 0 /\ channel.peer \in Host
    BY DEF LibraryInv, LibraryType
<1>s. /\ channel.no \in Nat /\ channel.peer \in Host \cup {NoHost} /\ channel.wire \in Seq(Nat)
      /\ channel.status \in {"none", "connecting", "up"}
    BY <1>t DEF Channel
<1>e. <<>> \in Seq(Packet) /\ <<>> \in Seq(Event) /\ <<>> \in Seq(Nat)
    BY EmptySeq
<1>r. Idle \in Event /\ CloseReported \in Seq(Event)
    BY <1>t, Reported
<1>c. ASSUME channel' \in Channel,
             channel'.status = "none" \/ (channel'.no # 0 /\ channel'.peer \in Host),
             inbox' \in Seq(Event), running' \in [Loop -> Event],
             packets' \in Seq(Packet), current' \in Host \cup {NoHost}
      PROVE  LibraryInv'
    BY <1>c DEF LibraryInv, LibraryType, Alive
<1>x. channel.status = "none" \/ (channel.no # 0 /\ channel.peer \in Host)
    BY <1>t, <1>s DEF Alive
<1>1. ASSUME UNCHANGED <<library, current>>, packets' \in Seq(Packet) PROVE LibraryInv'
    BY <1>1, <1>c, <1>t, <1>x
<1>2. CASE GivesUp
    BY <1>2, <1>c, <1>t, <1>e, <1>r, Closed DEF GivesUp, Closes
<1>3. CASE Replaces
    BY <1>3, <1>c, <1>t, <1>e, Closed DEF Replaces, Replace
<1>4. ASSUME NEW p \in Caller, Opens(p) PROVE LibraryInv'
    <2>1. Request(p).host \in Host
        BY <1>4 DEF Opens, CallerInv, Unsent, BeforeSend
    <2>2. channel' = [no |-> channel.no + 1, peer |-> Request(p).host, status |-> "connecting",
                      wire |-> <<>>]
        BY <1>4 DEF Opens, NewChannel
    <2>3. channel' \in Channel /\ channel'.no # 0 /\ channel'.peer \in Host
        BY <2>1, <2>2, <1>s, <1>e DEF Channel
    <2> QED
        BY <1>4, <1>c, <1>t, <1>e, <1>r, <2>1, <2>3 DEF Opens
<1>5. ASSUME NEW p \in Caller, OpensNothing(p) PROVE LibraryInv'
    <2>1. current' \in Host
        BY <1>5 DEF OpensNothing, CallerInv, Unsent, BeforeSend
    <2> QED
        BY <1>5, <1>c, <1>t, <1>x, <1>e, <1>r, <2>1, Closed DEF OpensNothing, Closes
<1>6. ASSUME NEW p \in Caller, Sends(p) PROVE LibraryInv'
    <2>1. call[p] \in Nat
        BY <1>6, OwnCall DEF Sends, Busy
    <2>2. Append(channel.wire, call[p]) \in Seq(Nat)
        BY <1>s, <2>1, AppendProperties
    <2>3. channel' = [channel EXCEPT !.wire = Append(channel.wire, call[p])]
        BY <1>6 DEF Sends
    <2>4. channel' \in Channel /\ channel'.no = channel.no /\ channel'.peer = channel.peer
          /\ channel'.status = channel.status
        BY <1>t, <2>2, <2>3 DEF Channel
    <2> QED
        BY <1>6, <1>c, <1>t, <1>x, <2>4 DEF Sends
<1>7. CASE Pops
    BY <1>7, <1>1, <1>t, HeadTailProperties DEF Pops
<1>8. CASE Disconnects
    <2>1. ASSUME MoveOut PROVE LibraryInv'
        <3>1. running' = [own |-> Idle, moved |-> running["own"]]
            BY <2>1 DEF MoveOut
        <3>2. running' \in [Loop -> Event]
            BY <3>1, <1>t, <1>r DEF Loop
        <3> QED
            BY <1>8, <2>1, <3>2, <1>c, <1>t, <1>e, Closed DEF MoveOut, Disconnects
    <2> QED
        BY <1>8, <2>1, <1>c, <1>t, <1>x DEF Disconnects
<1>9. CASE CloserGoesOn
    BY <1>9, <1>1, <1>t, <1>e DEF CloserGoesOn
<1>10. CASE LibraryMoves
    <2>0. UNCHANGED <<packets, current>>
        BY <1>10 DEF LibraryMoves
    <2>1. CASE Established
        <3>1. EventOf("up") \in Event
            BY DEF EventOf, Event
        <3>2. channel' = [channel EXCEPT !.status = "up"]
            BY <2>1 DEF Established
        <3>3. channel' \in Channel /\ channel'.no = channel.no /\ channel'.peer = channel.peer
            BY <1>t, <3>2 DEF Channel
        <3>4. channel.status # "none"
            BY <2>1 DEF Established
        <3> QED
            BY <2>0, <2>1, <3>1, <3>3, <3>4, <1>c, <1>t, <1>x, AppendProperties DEF Established
    <2>2. CASE Lost
        BY <2>0, <2>2, <1>c, <1>t, <1>r, Closed DEF Lost
    <2>3. CASE Answered
        <3>1. Head(channel.wire) \in Nat /\ Tail(channel.wire) \in Seq(Nat)
            BY <2>3, <1>s, HeadTailProperties DEF Answered
        <3>2. [kind |-> "packet", of |-> Head(channel.wire)] \in Event
            BY <3>1 DEF Event
        <3>3. channel' = [channel EXCEPT !.wire = Tail(channel.wire)]
            BY <2>3 DEF Answered
        <3>4. channel' \in Channel /\ channel'.no = channel.no /\ channel'.peer = channel.peer
              /\ channel'.status = channel.status
            BY <1>t, <3>1, <3>3 DEF Channel
        <3> QED
            BY <2>0, <2>3, <3>2, <3>4, <1>c, <1>t, <1>x, AppendProperties DEF Answered
    <2>4. CASE LoopCalls
        <3>1. Head(inbox) \in Event /\ Tail(inbox) \in Seq(Event)
            BY <2>4, <1>t, HeadTailProperties DEF LoopCalls
        <3>2. running' \in [Loop -> Event]
            BY <2>4, <1>t, <3>1 DEF LoopCalls
        <3> QED
            BY <2>0, <2>4, <3>1, <3>2, <1>c, <1>t, <1>x DEF LoopCalls
    <2> QED
        BY <1>10, <2>1, <2>2, <2>3, <2>4 DEF LibraryMoves, External
<1>11. ASSUME NEW l \in Loop, Receives(l) PROVE LibraryInv'
    <2>1. running' \in [Loop -> Event]
        BY <1>11, <1>t, <1>r DEF Receives, Continues
    <2>2. running[l].of \in Nat
        BY <1>t DEF Event
    <2>3. [of |-> running[l].of, age |-> EmptiedFor] \in Packet
        BY <1>s, <2>2 DEF Packet, EmptiedFor
    <2> QED
        BY <1>11, <1>c, <1>t, <1>x, <2>1, <2>3, AppendProperties DEF Receives, Continues, Queued
<1>12. ASSUME NEW l \in Loop, Turns(l) PROVE LibraryInv'
    <2>1. PICK e \in Event : Continues(l, e)
        BY <1>12 DEF Turns
    <2>2. running' \in [Loop -> Event]
        BY <2>1, <1>t DEF Continues
    <2> QED
        BY <1>12, <1>c, <1>t, <1>x, <2>1, <2>2 DEF Turns, Continues
<1>13. CASE Quiet \/ Empties
    BY <1>13, <1>1, <1>t, <1>e DEF Quiet, Empties
<1>14. ASSUME NEW p \in Caller, NEW h \in Host \cup {NoHost}, Begin(p, h) PROVE LibraryInv'
    BY <1>14, <1>1, <1>t DEF Begin
<1> QED
    BY <1>2, <1>3, <1>4, <1>5, <1>6, <1>7, <1>8, <1>9, <1>10, <1>11, <1>12, <1>13, <1>14
    DEF Effect, Takes

(* ... one caller at a time opens one, having emptied the queue, and has   *)
(* the client for it, ...                                                  *)
OneOpens ==
    \A p \in Caller : pc[p] = "opening" =>
        client /\ \A q \in Caller : pc[q] = "opening" => q = p

LEMMA OpeningBegins ==
    ASSUME CallerInv, CallerStep
    PROVE  \/ \A p \in Caller : pc'[p] = "opening" => pc[p] = "opening"
           \/ \E p \in Caller :
                  /\ packets' = <<>> /\ client'
                  /\ \A q \in Caller : pc'[q] = "opening" => q = p
<1>t. pc \in [Caller -> Position]
    BY DEF CallerInv, CallTypes
<1>1. ASSUME NEW p \in Caller, NEW to, to # "opening", Goto(p, to)
      PROVE  \A q \in Caller : pc'[q] = "opening" => pc[q] = "opening"
    BY <1>t, <1>1 DEF Goto
<1>2. ASSUME NEW p \in Caller, MovesOn(p), Goto(p, "opening")
      PROVE  packets' = <<>> /\ client' /\ \A q \in Caller : pc'[q] = "opening" => q = p
    <2>1. PICK to \in Position \ {"idle"} :
              /\ Goto(p, to)
              /\ to = "opening" => packets' = <<>> /\ client' /\ \A q \in Caller : pc[q] # "opening"
        BY <1>2 DEF MovesOn
    <2>2. to = "opening"
        BY <1>t, <1>2, <2>1 DEF Goto
    <2> QED
        BY <1>t, <1>2, <2>1, <2>2 DEF Goto
<1>3. ASSUME NEW p \in Caller, MovesOn(p)
      PROVE  \/ Goto(p, "opening")
             \/ \A q \in Caller : pc'[q] = "opening" => pc[q] = "opening"
    BY <1>1, <1>3 DEF MovesOn
<1>4. ASSUME NEW p \in Caller, Ends(p) \/ Sent(p) \/ \E h \in Host \cup {NoHost} : Enters(p, h)
      PROVE  \A q \in Caller : pc'[q] = "opening" => pc[q] = "opening"
    BY <1>t, <1>4 DEF Ends, Sent, Enters, Goto
<1> QED
    BY <1>2, <1>3, <1>4 DEF CallerStep, CallersRest

LEMMA OneOpensKept ==
    ASSUME CallerInv, LibraryInv, OneOpens, Effect
    PROVE  OneOpens'
<1>1. CallerStep
    BY EffectOnCallers DEF LibraryInv, LibraryType
<1>2. client' \/ UNCHANGED client \/ (Disconnects /\ CallersRest)
    BY DEF Effect, Begin, Quiet, Empties, GivesUp, Replaces, Opens, Pops, OpensNothing, Sends, Takes,
           CloserGoesOn, LibraryMoves, Receives, Turns
<1>3. CASE Disconnects /\ CallersRest
    BY <1>3 DEF Disconnects, CallersRest, OneOpens
<1>4. CASE client' \/ UNCHANGED client
    BY <1>1, <1>4, OpeningBegins DEF OneOpens
<1> QED
    BY <1>2, <1>3, <1>4

(* ... no client has no connection and runs nothing, ...                   *)
Gone ==
    /\ ~client => channel.status = "none" /\ inbox = <<>> /\ running["own"] = Idle
    /\ closer = "idle" => running["moved"] = Idle

LEMMA GoneKept ==
    ASSUME LibraryInv, OneOpens, Gone, Effect
    PROVE  Gone'
<1>t. /\ channel \in Channel /\ inbox \in Seq(Event) /\ running \in [Loop -> Event]
      /\ "own" \in Loop /\ "moved" \in Loop
    BY DEF LibraryInv, LibraryType, Loop
<1>c. ~client => ~Alive /\ CloseReported = inbox
    BY DEF Gone, CloseReported, Alive
<1>1. ASSUME UNCHANGED <<library, client, closer>> PROVE Gone'
    BY <1>1 DEF Gone
<1>2. CASE GivesUp
    BY <1>2, <1>c, <1>t, Closed DEF GivesUp, Closes, Gone
<1>3. CASE Replaces
    BY <1>3 DEF Replaces, Replace, Gone
<1>4. ASSUME NEW p \in Caller, Opens(p) PROVE Gone'
    BY <1>4 DEF Opens, OneOpens, Gone
<1>5. ASSUME NEW p \in Caller, OpensNothing(p) PROVE Gone'
    BY <1>5, <1>c, <1>t, Closed DEF OpensNothing, Closes, Gone
<1>6. ASSUME NEW p \in Caller, Sends(p) PROVE Gone'
    BY <1>6 DEF Sends, Gone, IsUp
<1>7. CASE Pops
    BY <1>7, <1>1 DEF Pops
<1>8. CASE Disconnects
    BY <1>8, <1>t, Closed DEF Disconnects, MoveOut, Gone
<1>9. CASE CloserGoesOn
    BY <1>9 DEF CloserGoesOn, Gone
<1>10. CASE LibraryMoves
    <2>1. running'["moved"] = running["moved"]
        BY <1>10, <1>t
        DEF LibraryMoves, External, Established, Lost, Answered, LoopCalls
    <2>2. ~client => ~(External \/ LoopCalls)
        BY <1>c DEF External, LoopCalls, Established, Lost, Answered, IsUp, Alive, Gone
    <2> QED
        BY <1>10, <2>1, <2>2 DEF LibraryMoves, External, Gone
<1>11. ASSUME NEW l \in Loop, Receives(l) \/ Turns(l) PROVE Gone'
    <2>1. running[l] # Idle
        BY <1>11 DEF Receives, Turns, Idle, EventOf
    <2>2. \A k \in Loop : running[k] = Idle => running'[k] = Idle
        BY <1>11, <1>t, <2>1 DEF Receives, Turns, Continues
    <2> QED
        BY <1>11, <1>t, <2>2 DEF Receives, Turns, Continues, Gone
<1>12. ASSUME NEW p \in Caller, NEW h \in Host \cup {NoHost}, Begin(p, h) PROVE Gone'
    BY <1>12, <1>1 DEF Begin
<1>13. CASE Quiet \/ Empties
    BY <1>13, <1>1 DEF Quiet, Empties
<1> QED
    BY <1>2, <1>3, <1>4, <1>5, <1>6, <1>7, <1>8, <1>9, <1>10, <1>11, <1>12, <1>13
    DEF Effect, Takes

LEMMA NothingRuns == Gone => NothingRunsAfterDisconnect
BY DEF Gone, NothingRunsAfterDisconnect, Loop

(* How calls go on: what a call that has ended was is for ever.            *)
LEMMA CallsGoOn ==
    ASSUME CallerInv, CallerStep
    PROVE  /\ Len(calls) \in Nat /\ Len(calls') \in {Len(calls), Len(calls) + 1}
           /\ \A i \in 1 .. Len(calls) :
                  /\ calls'[i].host = calls[i].host /\ (calls'[i].alone => calls[i].alone)
                  /\ calls[i].verdict # "open" =>
                         /\ calls'[i].verdict = calls[i].verdict
                         /\ calls'[i].got = calls[i].got /\ calls'[i].age = calls[i].age
                         /\ calls'[i].sentOn = calls[i].sentOn
                  /\ calls'[i].verdict = "open" => calls'[i].got = calls[i].got
                  /\ \/ calls'[i].sentOn = calls[i].sentOn /\ calls'[i].reached = calls[i].reached
                     \/ \E p \in Caller : Sent(p) /\ call[p] = i
           /\ \A i \in 1 .. Len(calls') : i \notin 1 .. Len(calls) =>
                  calls'[i].verdict = "open" /\ calls'[i].sentOn = 0 /\ calls'[i].got = 0
<1>t. calls \in Seq(Call) /\ Len(calls) \in Nat
    BY LenProperties DEF CallerInv, CallTypes
<1>1. ASSUME NEW p \in Caller, NEW h \in Host \cup {NoHost}, Enters(p, h)
      PROVE  /\ Len(calls') = Len(calls) + 1
             /\ \A i \in 1 .. Len(calls) :
                    /\ calls'[i].host = calls[i].host /\ (calls'[i].alone => calls[i].alone)
                    /\ calls'[i].verdict = calls[i].verdict /\ calls'[i].got = calls[i].got
                    /\ calls'[i].age = calls[i].age /\ calls'[i].sentOn = calls[i].sentOn
                    /\ calls'[i].reached = calls[i].reached
             /\ LET n == Len(calls) + 1
                IN  calls'[n].verdict = "open" /\ calls'[n].sentOn = 0 /\ calls'[n].got = 0
    BY <1>1 DEF Enters
<1>2. ASSUME NEW p \in Caller, Ends(p)
      PROVE  /\ Len(calls') = Len(calls)
             /\ \A i \in 1 .. Len(calls) :
                    /\ calls'[i].host = calls[i].host /\ calls'[i].alone = calls[i].alone
                    /\ calls[i].verdict # "open" => calls'[i] = calls[i]
                    /\ calls'[i].verdict = "open" => calls'[i] = calls[i]
                    /\ calls'[i].sentOn = calls[i].sentOn /\ calls'[i].reached = calls[i].reached
    BY <1>2 DEF Ends, Request, CallerInv, CallsHeld, Busy
<1>3. ASSUME NEW p \in Caller, Sent(p)
      PROVE  /\ Len(calls') = Len(calls)
             /\ \A i \in 1 .. Len(calls) :
                    /\ calls'[i].host = calls[i].host /\ calls'[i].alone = calls[i].alone
                    /\ calls[i].verdict # "open" => calls'[i] = calls[i]
                    /\ calls'[i].got = calls[i].got
                    /\ i # call[p] => calls'[i] = calls[i]
    <2>1. Busy(p)
        BY <1>3 DEF Sent, Busy
    <2> QED
        BY <1>3, <2>1 DEF Sent, Request, CallerInv, CallsHeld
<1>4. CASE UNCHANGED calls
    BY <1>t, <1>4
<1>5. CASE \E p \in Caller, h \in Host \cup {NoHost} : Enters(p, h)
    BY <1>t, <1>1, <1>5
<1>6. CASE \E p \in Caller : Ends(p)
    BY <1>t, <1>2, <1>6
<1>7. CASE \E p \in Caller : Sent(p)
    BY <1>t, <1>3, <1>7
<1> QED
    BY <1>4, <1>5, <1>6, <1>7 DEF CallerStep, MovesOn, CallersRest

(* Only taking a packet answers a call.                                    *)
LEMMA EndsOk ==
    ASSUME CallerInv, LibraryInv, Effect, NEW i \in 1 .. Len(calls),
           calls[i].verdict = "open", calls'[i].verdict # "open"
    PROVE  \/ \E p \in Caller : Takes(p) /\ call[p] = i
           \/ /\ calls'[i].verdict # "ok"
              /\ \E p \in Caller : Ends(p) /\ call[p] = i /\ calls'[i].got = calls[i].got
<1>t. channel \in Channel /\ packets \in Seq(Packet) /\ Len(calls) \in Nat
    BY LenProperties DEF LibraryInv, LibraryType, CallerInv, CallTypes
<1>1. ASSUME NEW p \in Caller, NEW h \in Host \cup {NoHost}, Begin(p, h) PROVE FALSE
    BY <1>1, BeginBegins DEF Enters
<1>2. ASSUME NEW p \in Caller, Sends(p) PROVE FALSE
    BY <1>2, <1>t, SendSends DEF Sent
<1>3. ASSUME NEW p \in Caller, NEW how \in Verdict \ {"open", "ok"}, Fail(p, how), pc[p] # "idle"
      PROVE  calls'[i].verdict # "ok" /\ Ends(p) /\ call[p] = i /\ calls'[i].got = calls[i].got
    <2>1. Ends(p) /\ calls'[call[p]].verdict = how /\ calls'[call[p]].got = Request(p).got
        BY <1>3, FailEnds DEF Busy
    <2>2. call[p] = i
        BY <2>1 DEF Ends
    <2> QED
        BY <2>1, <2>2 DEF Request
<1>4. ASSUME NEW p \in Caller, Fails(p) \/ OpensNothing(p)
      PROVE  /\ calls'[i].verdict # "ok"
             /\ \E q \in Caller : Ends(q) /\ call[q] = i /\ calls'[i].got = calls[i].got
    BY <1>3, <1>4 DEF Fails, OpensNothing, Verdict
<1>5. ASSUME NEW p \in Caller, Takes(p) PROVE call[p] = i
    BY <1>5, <1>t, TakeEnds DEF Ends
<1>6. UNCHANGED calls => FALSE
    OBVIOUS
<1> QED
    BY <1>1, <1>2, <1>4, <1>5, <1>6 DEF Effect, MovesOn, CallersRest

(* What is in the queue came since it was emptied for the present          *)
(* connection, or for the next one if that is being opened; and no request *)
(* has been sent on a later one.                                           *)
Fresh ==
    /\ \A k \in 1 .. Len(packets) : packets[k].age >= EmptiedFor
    /\ \A i \in 1 .. Len(calls) : calls[i].sentOn <= channel.no
    /\ FreshAnswers

LEMMA FreshKept ==
    ASSUME CallerInv, LibraryInv, OneOpens, Fresh, Effect
    PROVE  Fresh'
<1>t. /\ channel \in Channel /\ channel.no \in Nat /\ packets \in Seq(Packet)
      /\ Len(packets) \in Nat /\ running \in [Loop -> Event] /\ pc \in [Caller -> Position]
    BY LenProperties DEF LibraryInv, LibraryType, Channel, CallerInv, CallTypes
<1>g. CallerStep
    BY <1>t, EffectOnCallers
<1>n. \A i \in 1 .. Len(calls) : calls[i].sentOn \in Nat
    BY CallFields, ElementOfSeq DEF CallerInv, CallTypes
<1>q. /\ \A k \in 1 .. Len(packets) : packets[k].age >= EmptiedFor
      /\ \A i \in 1 .. Len(calls) : calls[i].sentOn <= channel.no
      /\ \A i \in 1 .. Len(calls) : calls[i].verdict = "ok" => calls[i].age >= calls[i].sentOn
    BY DEF Fresh, FreshAnswers
<1>m. /\ EmptiedFor \in Nat /\ EmptiedFor >= channel.no
      /\ \A k \in 1 .. Len(packets) : packets[k].age \in Nat
    <2>1. EmptiedFor \in {channel.no, channel.no + 1}
        BY DEF EmptiedFor
    <2>2. \A k \in 1 .. Len(packets) : packets[k] \in Packet
        BY <1>t, ElementOfSeq
    <2> QED
        BY <1>t, <2>1, <2>2 DEF Packet
(* The number of the connection changes only when one is opened, ...       *)
<1>1. channel'.no = channel.no \/ \E p \in Caller : Opens(p) /\ channel'.no = channel.no + 1
    <2>1. \/ UNCHANGED channel
          \/ channel' = ChannelClosed
          \/ \E p \in Caller : Opens(p)
          \/ \E w : channel' = [channel EXCEPT !.wire = w]
          \/ channel' = [channel EXCEPT !.status = "up"]
        <3>1. ASSUME NEW p \in Caller, Sends(p)
              PROVE  \E w : channel' = [channel EXCEPT !.wire = w]
            BY <3>1 DEF Sends
        <3>2. CASE LibraryMoves
            BY <3>2 DEF LibraryMoves, External, Established, Lost, Answered, LoopCalls
        <3>3. CASE Disconnects \/ CloserGoesOn \/ Pops \/ GivesUp \/ Replaces \/ Quiet \/ Empties
            BY <3>3 DEF Disconnects, MoveOut, CloserGoesOn, Pops, GivesUp, Closes, Replaces,
                        Replace, Quiet, Empties
        <3>4. ASSUME NEW p \in Caller, NEW h, Begin(p, h) PROVE UNCHANGED channel
            BY <3>4 DEF Begin
        <3>5. ASSUME NEW p \in Caller, OpensNothing(p)
              PROVE  channel' \in {channel, ChannelClosed}
            BY <3>5 DEF OpensNothing, Closes
        <3>6. ASSUME NEW l \in Loop, Receives(l) \/ Turns(l) PROVE UNCHANGED channel
            BY <3>6 DEF Receives, Turns, Continues
        <3> QED
            BY <3>1, <3>2, <3>3, <3>4, <3>5, <3>6 DEF Effect, Takes
    <2>2. /\ ChannelClosed.no = channel.no
          /\ \A w : [channel EXCEPT !.wire = w].no = channel.no
          /\ [channel EXCEPT !.status = "up"].no = channel.no
        BY <1>t DEF ChannelClosed, NoChannel, Channel
    <2>3. ASSUME NEW p \in Caller, Opens(p) PROVE channel'.no = channel.no + 1
        BY <2>3 DEF Opens, NewChannel
    <2> QED
        BY <2>1, <2>2, <2>3
<1>o. channel'.no \in Nat /\ channel'.no >= channel.no
    BY <1>t, <1>1
(* ... and the queue was emptied for that before, ...                      *)
<1>e. packets' = <<>> \/ EmptiedFor' <= EmptiedFor
    <2>1. ASSUME NEW p \in Caller, Opens(p), channel'.no = channel.no + 1
          PROVE  EmptiedFor' = EmptiedFor
        <3>1. pc[p] = "opening" /\ pc' = [pc EXCEPT ![p] = "connecting"]
            BY <2>1 DEF Opens, Goto
        <3>2. \A q \in Caller : pc'[q] # "opening"
            BY <1>t, <3>1 DEF OneOpens
        <3>3. EmptiedFor = channel.no + 1 /\ EmptiedFor' = channel'.no
            BY <3>1, <3>2 DEF EmptiedFor
        <3> QED
            BY <2>1, <3>3
    <2>2. CASE channel'.no = channel.no
        <3>1. ASSUME \A p \in Caller : pc'[p] = "opening" => pc[p] = "opening"
              PROVE  EmptiedFor' <= EmptiedFor
            <4>1. CASE \E p \in Caller : pc'[p] = "opening"
                BY <1>t, <2>2, <3>1, <4>1 DEF EmptiedFor
            <4>2. CASE ~\E p \in Caller : pc'[p] = "opening"
                <5>1. EmptiedFor' = channel.no
                    BY <2>2, <4>2 DEF EmptiedFor
                <5> QED
                    BY <1>t, <1>m, <5>1
            <4> QED
                BY <4>1, <4>2
        <3> QED
            BY <1>g, <3>1, OpeningBegins
    <2> QED
        BY <1>1, <1>m, <2>1, <2>2
(* ... so that what is in it has come since.                               *)
<1>2. \A k \in 1 .. Len(packets') : packets'[k].age >= EmptiedFor'
    <2>0. EmptiedFor' \in Nat
        <3>1. EmptiedFor' \in {channel'.no, channel'.no + 1}
            BY DEF EmptiedFor
        <3> QED
            BY <1>o, <3>1
    <2>1. \/ packets' = packets \/ packets' = <<>>
          \/ packets # <<>> /\ packets' = Tail(packets)
          \/ \E n \in Nat : packets' = Append(packets, [of |-> n, age |-> EmptiedFor])
        <3>1. ASSUME NEW p \in Caller, Opens(p) \/ OpensNothing(p) \/ Sends(p)
              PROVE  UNCHANGED packets
            BY <3>1 DEF Opens, OpensNothing, Sends
        <3>2. CASE LibraryMoves \/ Disconnects \/ CloserGoesOn \/ GivesUp \/ Replaces \/ Quiet \/ Empties
            BY <3>2 DEF LibraryMoves, Disconnects, CloserGoesOn, GivesUp, Replaces, Quiet, Empties
        <3>3. ASSUME NEW p \in Caller, NEW h, Begin(p, h) PROVE UNCHANGED packets
            BY <3>3 DEF Begin
        <3>4. ASSUME NEW l \in Loop, Receives(l)
              PROVE  \E n \in Nat : packets' = Append(packets, [of |-> n, age |-> EmptiedFor])
            BY <3>4, <1>t DEF Receives, Queued, Event
        <3>5. ASSUME NEW l \in Loop, Turns(l) PROVE UNCHANGED packets
            BY <3>5 DEF Turns
        <3>6. CASE Pops
            BY <3>6 DEF Pops
        <3> QED
            BY <3>1, <3>2, <3>3, <3>4, <3>5, <3>6 DEF Effect, Takes
    <2>2. CASE packets' = <<>>
        BY <2>2
    <2>3. SUFFICES ASSUME EmptiedFor' <= EmptiedFor
                   PROVE  \A k \in 1 .. Len(packets') : packets'[k].age >= EmptiedFor
        <3> DEFINE n == EmptiedFor
        <3>1. CASE EmptiedFor' <= n
            <4>1. \A k \in 1 .. Len(packets') : packets'[k].age >= n
                BY <2>3, <3>1
            <4>2. \A k \in 1 .. Len(packets') : packets'[k] \in Packet
                BY LibraryKept, ElementOfSeq DEF LibraryInv
            <4>3. \A k \in 1 .. Len(packets') : packets'[k].age \in Nat
                BY <4>2 DEF Packet
            <4>4. n \in Nat
                BY <1>m
            <4> HIDE DEF n
            <4> QED
                BY <2>0, <3>1, <4>1, <4>3, <4>4
        <3> QED
            BY <1>e, <2>2, <3>1
    <2>4. CASE packets' = packets
        BY <2>4, <1>q
    <2>5. CASE packets # <<>> /\ packets' = Tail(packets)
        <3>1. Len(packets') = Len(packets) - 1
              /\ \A k \in 1 .. Len(packets') : packets'[k] = packets[k + 1]
            BY <2>5, <1>t, HeadTailProperties
        <3>2. \A k \in 1 .. Len(packets') : k + 1 \in 1 .. Len(packets)
            BY <1>t, <3>1
        <3> QED
            BY <1>q, <3>1, <3>2
    <2>6. ASSUME NEW n \in Nat, packets' = Append(packets, [of |-> n, age |-> EmptiedFor])
          PROVE  \A k \in 1 .. Len(packets') : packets'[k].age >= EmptiedFor
        <3>1. [of |-> n, age |-> EmptiedFor] \in Packet
            BY <1>m DEF Packet
        <3>2. /\ Len(packets') = Len(packets) + 1
              /\ \A k \in 1 .. Len(packets) : packets'[k] = packets[k]
              /\ packets'[Len(packets) + 1] = [of |-> n, age |-> EmptiedFor]
            BY <2>6, <3>1, <1>t, AppendProperties
        <3>3. \A k \in 1 .. Len(packets') : k \in 1 .. Len(packets) \/ k = Len(packets) + 1
            BY <1>t, <3>2
        <3>4. packets'[Len(packets) + 1].age >= EmptiedFor
            BY <1>m, <3>2
        <3> QED
            BY <1>q, <3>2, <3>3, <3>4
    <2>7. CASE packets' = <<>>
        BY <2>7
    <2> QED
        BY <2>1, <2>4, <2>5, <2>6, <2>7
<1>3. \A i \in 1 .. Len(calls') : calls'[i].sentOn <= channel'.no
    <2>1. ASSUME NEW i \in 1 .. Len(calls') PROVE calls'[i].sentOn <= channel'.no
        <3>1. CASE i \notin 1 .. Len(calls)
            BY <3>1, <1>o, <1>g, CallsGoOn
        <3>2. CASE i \in 1 .. Len(calls)
            <4>1. calls'[i].sentOn = calls[i].sentOn \/ \E p \in Caller : Sent(p) /\ call[p] = i
                BY <3>2, <1>g, CallsGoOn
            <4>2. ASSUME NEW p \in Caller, Sent(p), call[p] = i
                  PROVE  calls'[i].sentOn = channel.no
                BY <4>2 DEF Sent
            <4>3. calls'[i].sentOn \in {calls[i].sentOn, channel.no}
                BY <4>1, <4>2
            <4> QED
                BY <1>o, <1>t, <1>n, <1>q, <3>2, <4>3
        <3> QED
            BY <3>1, <3>2
    <2> QED
        BY <2>1
<1>4. FreshAnswers'
    <2>1. ASSUME NEW i \in 1 .. Len(calls'), calls'[i].verdict = "ok"
          PROVE  calls'[i].age >= calls'[i].sentOn
        <3>1. i \in 1 .. Len(calls)
            BY <2>1, <1>g, CallsGoOn
        <3>2. CASE calls[i].verdict # "open"
            <4>1. calls'[i].age = calls[i].age /\ calls[i].verdict = "ok"
                  /\ calls'[i].sentOn = calls[i].sentOn
                BY <2>1, <3>1, <3>2, <1>g, CallsGoOn
            <4> QED
                BY <3>1, <4>1, <1>q
        <3>3. CASE calls[i].verdict = "open"
            <4>1. PICK p \in Caller : Takes(p) /\ call[p] = i
                BY <2>1, <3>1, <3>3, EndsOk
            <4>2. calls'[i].age = Head(packets).age /\ calls'[i].sentOn = calls[i].sentOn
                BY <4>1, <1>t, TakeEnds DEF Ends, Request
            <4>3. Head(packets).age >= EmptiedFor /\ Head(packets).age \in Nat
                <5>1. packets # <<>>
                    BY <4>1 DEF Takes, Pops
                <5>2. Head(packets) = packets[1] /\ 1 \in 1 .. Len(packets)
                    BY <1>t, <5>1
                <5> QED
                    BY <1>m, <1>q, <5>2
            <4> QED
                BY <3>1, <4>2, <4>3, <1>m, <1>q, <1>t, <1>n
        <3> QED
            BY <3>2, <3>3
    <2> QED
        BY <2>1 DEF FreshAnswers
<1> QED
    BY <1>2, <1>3, <1>4 DEF Fresh

(* While every connection asked for was opened, the peer recorded is that  *)
(* of the connection; and a caller nobody overlaps has not lost its own.   *)
NoneUnopened == \A i \in 1 .. Len(calls) : calls[i].verdict # "unopened"

Peers ==
    /\ NoneUnopened /\ Alive => channel.peer = current
    /\ \A p \in Caller : pc[p] \in Opened /\ Request(p).alone =>
           current \in {Request(p).host, NoHost}
    /\ RightPeer

LEMMA PeersKept ==
    ASSUME CallerInv, LibraryInv, Gone, Peers, Effect
    PROVE  Peers'
<1>t. /\ channel \in Channel /\ packets \in Seq(Packet) /\ pc \in [Caller -> Position]
      /\ Len(calls) \in Nat /\ call \in [Caller -> 0 .. Len(calls)]
    BY LenProperties DEF LibraryInv, LibraryType, CallerInv, CallTypes
<1>g. CallerStep
    BY <1>t, EffectOnCallers
<1>f. ASSUME NEW j \in 1 .. Len(calls), calls[j].verdict # "open"
      PROVE  j \in 1 .. Len(calls') /\ calls'[j].verdict = calls[j].verdict
    BY <1>f, <1>g, CallsGoOn
<1>o. \A p \in Caller : pc[p] \in Opened => Busy(p)
    BY DEF Opened, Busy
<1>1. ASSUME NoneUnopened', Alive' PROVE channel'.peer = current'
    <2>1. NoneUnopened
        BY <1>1, <1>f DEF NoneUnopened
    <2>2. CASE UNCHANGED <<channel, current>>
        BY <1>1, <2>1, <2>2 DEF Peers, Alive
    <2>3. ASSUME channel' = ChannelClosed PROVE FALSE
        BY <1>1, <1>t, <2>3, Closed DEF Alive
    <2>4. ASSUME NEW p \in Caller, OpensNothing(p) PROVE FALSE
        <3>1. Busy(p) /\ Fail(p, "unopened") /\ "unopened" \in Verdict \ {"open"}
            BY <2>4 DEF OpensNothing, Busy, Verdict
        <3>2. call[p] \in 1 .. Len(calls) /\ Ends(p) /\ calls'[call[p]].verdict = "unopened"
            BY <3>1, FailEnds, OwnCall
        <3>3. call[p] \in 1 .. Len(calls')
            BY <3>2 DEF Ends
        <3> QED
            BY <1>1, <3>2, <3>3 DEF NoneUnopened
    <2>5. ASSUME NEW p \in Caller, Opens(p) PROVE channel'.peer = current'
        BY <2>5 DEF Opens, NewChannel
    <2>6. ASSUME NEW p \in Caller, Sends(p) PROVE channel'.peer = current'
        <3>1. channel' = [channel EXCEPT !.wire = Append(channel.wire, call[p])]
              /\ Alive /\ UNCHANGED current
            BY <2>6 DEF Sends, IsUp, Alive
        <3> QED
            BY <1>t, <2>1, <3>1 DEF Peers, Channel
    <2>7. CASE LibraryMoves
        <3>1. UNCHANGED current /\ (External \/ LoopCalls)
            BY <2>7 DEF LibraryMoves
        <3>2. CASE Established \/ Answered
            BY <1>t, <2>1, <3>1, <3>2 DEF Established, Answered, Peers, Channel, IsUp, Alive
        <3>3. CASE Lost
            BY <3>3, <2>3 DEF Lost
        <3>4. CASE LoopCalls
            BY <3>1, <3>4, <2>2 DEF LoopCalls
        <3> QED
            BY <3>1, <3>2, <3>3, <3>4 DEF External
    <2>8. CASE Disconnects
        BY <2>8, <2>3, <1>1 DEF Disconnects, MoveOut, Gone, Alive
    <2>9. CASE GivesUp \/ Replaces
        BY <2>9, <2>3 DEF GivesUp, Closes, Replaces, Replace
    <2>10. CASE Quiet \/ Empties \/ Pops \/ CloserGoesOn
        BY <2>10, <2>2 DEF Quiet, Empties, Pops, CloserGoesOn
    <2>11. ASSUME NEW l \in Loop, Receives(l) \/ Turns(l) PROVE channel'.peer = current'
        BY <2>11, <2>2 DEF Receives, Turns, Continues
    <2>12. ASSUME NEW p \in Caller, NEW h, Begin(p, h) PROVE channel'.peer = current'
        BY <2>12, <2>2 DEF Begin
    <2> QED
        BY <2>4, <2>5, <2>6, <2>7, <2>8, <2>9, <2>10, <2>11, <2>12 DEF Effect, Takes
<1>2. ASSUME NEW q \in Caller, pc'[q] \in Opened, Request(q)'.alone
      PROVE  current' \in {Request(q)'.host, NoHost}
    <2>1. ASSUME NEW p \in Caller, NEW h \in Host \cup {NoHost}, Enters(p, h) PROVE FALSE
        <3>1. q # p
            BY <2>1, <1>t, <1>2 DEF Enters, Goto, Opened
        <3>2. pc[q] = pc'[q] /\ call'[q] = call[q] /\ Busy(q)
            BY <2>1, <1>t, <1>2, <1>o, <3>1 DEF Enters, Goto
        <3>3. call[q] \in 1 .. Len(calls)
            BY <3>2, OwnCall
        <3> QED
            BY <2>1, <1>2, <3>2, <3>3 DEF Enters, Request
    <2>2. ASSUME NEW p \in Caller, MovesOn(p) PROVE current' \in {Request(q)'.host, NoHost}
        <3>1. PICK to \in Position :
                  /\ Goto(p, to)
                  /\ to \in Opened => \/ pc[p] \in Opened /\ UNCHANGED current
                                      \/ current' = Request(p).host
            BY <2>2 DEF MovesOn
        <3>2. Request(q)' = Request(q) /\ Busy(p)
            BY <2>2 DEF MovesOn, Request, Busy
        <3>3. CASE q = p
            <4>1. to \in Opened
                BY <1>2, <1>t, <3>1, <3>3 DEF Goto
            <4> QED
                BY <1>2, <3>1, <3>2, <3>3, <4>1 DEF Peers
        <3>4. ASSUME q # p PROVE FALSE
            <4>1. Busy(q)
                BY <1>2, <1>t, <1>o, <3>1, <3>4 DEF Goto
            <4> QED
                BY <1>2, <3>2, <3>4, <4>1 DEF CallerInv, AloneIsLast
        <3> QED
            BY <3>3, <3>4
    <2>3. ASSUME NEW p \in Caller, Ends(p) \/ Sent(p) PROVE FALSE
        <3>1. Busy(p) /\ \E to \in {"idle", "sent", "receive"} : Goto(p, to)
            BY <2>3 DEF Ends, Sent, Busy
        <3>2. q # p /\ pc'[q] = pc[q] /\ Busy(q)
            BY <1>2, <1>t, <1>o, <3>1 DEF Goto, Opened
        <3>3. call[q] # call[p] /\ call[q] \in 1 .. Len(calls)
            BY <3>1, <3>2, OwnCall DEF CallerInv, CallsHeld
        <3>4. Request(q)' = Request(q)
            BY <2>3, <1>t, <3>2, <3>3 DEF Ends, Sent, Request
        <3> QED
            BY <1>2, <3>1, <3>2, <3>4 DEF CallerInv, AloneIsLast
    <2>4. CASE CallersRest /\ current' \in {current, NoHost}
        BY <1>2, <2>4 DEF CallersRest, Peers, Request
    <2> QED
        BY <1>g, <2>1, <2>2, <2>3, <2>4 DEF CallerStep
<1>3. RightPeer'
    <2>1. ASSUME NEW i \in 1 .. Len(calls'), calls'[i].alone, calls'[i].sentOn # 0,
                 calls'[i].reached # calls'[i].host
          PROVE  \E j \in 1 .. i : calls'[j].verdict = "unopened"
        <3>1. i \in 1 .. Len(calls) /\ calls[i].alone /\ calls'[i].host = calls[i].host
            BY <2>1, <1>g, CallsGoOn
        <3>2. \E j \in 1 .. i : j \in 1 .. Len(calls) /\ calls[j].verdict = "unopened"
            <4>1. CASE calls'[i].sentOn = calls[i].sentOn /\ calls'[i].reached = calls[i].reached
                BY <1>t, <2>1, <3>1, <4>1 DEF Peers, RightPeer
            <4>2. ASSUME NEW p \in Caller, Sent(p), call[p] = i
                  PROVE  \E j \in 1 .. i : j \in 1 .. Len(calls) /\ calls[j].verdict = "unopened"
                <5>1. pc[p] \in Opened /\ Busy(p) /\ Alive /\ calls'[i].reached = channel.peer
                    BY <4>2 DEF Sent, Opened, Busy, IsUp, Alive
                <5>2. current \in {calls[i].host, NoHost} /\ i = Len(calls)
                    BY <3>1, <4>2, <5>1 DEF Peers, Request, CallerInv, AloneIsLast
                <5>3. channel.peer \in Host
                    BY <5>1 DEF LibraryInv
                <5>4. ~NoneUnopened
                    BY <2>1, <3>1, <5>1, <5>2, <5>3, HostAssumption DEF Peers
                <5> QED
                    BY <5>2, <5>4 DEF NoneUnopened
            <4> QED
                BY <3>1, <4>1, <4>2, <1>g, CallsGoOn
        <3> QED
            BY <3>2, <1>f
    <2> QED
        BY <2>1 DEF RightPeer
<1> QED
    BY <1>1, <1>2, <1>3 DEF Peers

(* A call's number is at one place at a time, from its being sent to its   *)
(* being handed out: in the connection, an event, a callback, the queue    *)
(* or a call that has got it.                                              *)
Holds(a, k, n) ==
    \/ a = "wire" /\ k \in 1 .. Len(channel.wire) /\ channel.wire[k] = n
    \/ a = "inbox" /\ k \in 1 .. Len(inbox) /\ inbox[k].of = n
    \/ a \in Loop /\ k = 1 /\ running[a].of = n
    \/ a = "queue" /\ k \in 1 .. Len(packets) /\ packets[k].of = n
    \/ a = "got" /\ k \in 1 .. Len(calls) /\ calls[k].got = n

NumberedEvent == {e \in Event : e.kind = "packet" => e.of # 0}
NumberedPacket == {m \in Packet : m.of # 0}

Numbered ==
    /\ channel.wire \in Seq(Nat \ {0})
    /\ inbox \in Seq(NumberedEvent)
    /\ running \in [Loop -> NumberedEvent]
    /\ packets \in Seq(NumberedPacket)

AllSent ==
    \A a, k, n : n # 0 /\ Holds(a, k, n) => n \in 1 .. Len(calls) /\ calls[n].sentOn # 0

OnePlace ==
    \A a, b, j, k, n : n # 0 /\ Holds(a, j, n) /\ Holds(b, k, n) => a = b /\ j = k

(* Until calls overlap, what is still on its way is the answer to the call *)
(* that waits, or some call no later than its own was given up.            *)
AllAlone == \A i \in 1 .. Len(calls) : calls[i].alone

InOrder ==
    \A a, k, n : n # 0 /\ a # "got" /\ Holds(a, k, n) /\ AllAlone =>
        calls[n].verdict = "open" \/ \E j \in 1 .. n : GivenUp(j)

InStep == Numbered /\ AllSent /\ OnePlace /\ InOrder /\ AnswersInStep

Thins == \A a, k, n : n # 0 /\ Holds(a, k, n)' => Holds(a, k, n)

GotKept ==
    \A i \in 1 .. Len(calls') :
        calls'[i].got # 0 => i \in 1 .. Len(calls) /\ calls'[i].got = calls[i].got

LEMMA LibraryThins ==
    ASSUME inbox \in Seq(Event), packets \in Seq(Packet), GotKept,
           channel'.wire \in {channel.wire, <<>>},
           \/ inbox' \in {inbox, <<>>}
           \/ \E e \in Event : e.of = 0 /\ inbox' = Append(inbox, e),
           \A l \in Loop : running'[l].of \in {running[l].of, 0},
           packets' \in {packets, <<>>}
    PROVE  Thins
<1>1. ASSUME NEW k \in 1 .. Len(inbox'), inbox'[k].of # 0
      PROVE  k \in 1 .. Len(inbox) /\ inbox'[k].of = inbox[k].of
    <2>1. CASE inbox' \in {inbox, <<>>}
        BY <1>1, <2>1
    <2>2. ASSUME NEW e \in Event, e.of = 0, inbox' = Append(inbox, e)
          PROVE  k \in 1 .. Len(inbox) /\ inbox'[k].of = inbox[k].of
        BY <1>1, <2>2, AppendProperties
    <2> QED
        BY <2>1, <2>2
<1>2. ASSUME NEW a, NEW k, NEW n, n # 0, Holds(a, k, n)' PROVE Holds(a, k, n)
    <2>1. CASE a = "wire"
        BY <1>2, <2>1 DEF Holds, Loop
    <2>2. CASE a = "inbox"
        BY <1>1, <1>2, <2>2 DEF Holds, Loop
    <2>3. CASE a \in Loop
        BY <1>2, <2>3 DEF Holds, Loop
    <2>4. CASE a = "queue"
        BY <1>2, <2>4 DEF Holds, Loop
    <2>5. CASE a = "got"
        BY <1>2, <2>5 DEF Holds, Loop, GotKept
    <2> QED
        BY <1>2, <2>1, <2>2, <2>3, <2>4, <2>5 DEF Holds
<1> QED
    BY <1>2 DEF Thins

(* What a step moves from place to place.                                  *)
Flows ==
    \/ Thins /\ packets' \in {packets, <<>>}
    \/ \E p \in Caller : Sends(p) \/ Takes(p)
    \/ /\ GotKept
       /\ \/ Pops
          \/ (Answered \/ LoopCalls \/ MoveOut) /\ UNCHANGED packets
          \/ \E l \in Loop : Receives(l)

LEMMA GotByTaking ==
    ASSUME CallerInv, LibraryInv, Effect, \A p \in Caller : ~Takes(p)
    PROVE  GotKept
<1>g. CallerStep
    BY EffectOnCallers DEF LibraryInv, LibraryType
<1>1. ASSUME NEW i \in 1 .. Len(calls'), calls'[i].got # 0, i \notin 1 .. Len(calls)
      PROVE  FALSE
    BY <1>1, <1>g, CallsGoOn
<1>2. ASSUME NEW i \in 1 .. Len(calls) PROVE calls'[i].got = calls[i].got
    <2>1. CASE calls[i].verdict # "open" \/ calls'[i].verdict = "open"
        BY <2>1, <1>g, CallsGoOn
    <2>2. CASE calls[i].verdict = "open" /\ calls'[i].verdict # "open"
        BY <2>2, EndsOk
    <2> QED
        BY <2>1, <2>2
<1> QED
    BY <1>1, <1>2 DEF GotKept

LEMMA NumberedKept ==
    ASSUME CallerInv, LibraryInv, Numbered, Effect
    PROVE  Numbered'
<1>t. /\ channel \in Channel /\ inbox \in Seq(NumberedEvent) /\ running \in [Loop -> NumberedEvent]
      /\ packets \in Seq(NumberedPacket) /\ channel.wire \in Seq(Nat \ {0}) /\ channel.no \in Nat
    BY DEF LibraryInv, LibraryType, Numbered, Channel
<1>e. <<>> \in Seq(NumberedPacket) /\ <<>> \in Seq(NumberedEvent) /\ <<>> \in Seq(Nat \ {0})
    BY EmptySeq
<1>r. Idle \in NumberedEvent /\ CloseReported \in Seq(NumberedEvent)
    <2>1. EventOf("lost") \in NumberedEvent /\ Idle \in NumberedEvent
        BY DEF EventOf, Idle, Event, NumberedEvent
    <2> QED
        BY <1>t, <2>1, AppendProperties DEF CloseReported
<1>d. ChannelClosed.wire = <<>>
    BY DEF ChannelClosed, NoChannel
<1>c. ASSUME channel'.wire \in Seq(Nat \ {0}), inbox' \in Seq(NumberedEvent),
             running' \in [Loop -> NumberedEvent], packets' \in Seq(NumberedPacket)
      PROVE  Numbered'
    BY <1>c DEF Numbered
<1>1. ASSUME UNCHANGED library, packets' \in Seq(NumberedPacket) PROVE Numbered'
    BY <1>1, <1>c, <1>t
<1>2. CASE GivesUp \/ Replaces
    BY <1>2, <1>c, <1>d, <1>t, <1>e, <1>r DEF GivesUp, Closes, Replaces, Replace
<1>3. ASSUME NEW p \in Caller, Opens(p) PROVE Numbered'
    BY <1>3, <1>c, <1>t, <1>e, <1>r DEF Opens, NewChannel
<1>4. ASSUME NEW p \in Caller, OpensNothing(p) PROVE Numbered'
    BY <1>4, <1>c, <1>d, <1>t, <1>e, <1>r DEF OpensNothing, Closes
<1>5. ASSUME NEW p \in Caller, Sends(p) PROVE Numbered'
    <2>1. call[p] \in Nat \ {0}
        BY <1>5, OwnCall DEF Sends, Busy
    <2>2. channel'.wire = Append(channel.wire, call[p])
        BY <1>5, <1>t DEF Sends, Channel
    <2>3. channel'.wire \in Seq(Nat \ {0})
        BY <1>t, <2>1, <2>2, AppendProperties
    <2> QED
        BY <1>5, <1>c, <1>t, <2>3 DEF Sends
<1>6. CASE Pops
    BY <1>6, <1>1, <1>t, HeadTailProperties DEF Pops
<1>7. CASE Disconnects
    <2>1. MoveOut => running' \in [Loop -> NumberedEvent]
        BY <1>t, <1>r DEF MoveOut, Loop
    <2> QED
        BY <1>7, <2>1, <1>c, <1>d, <1>t, <1>e DEF Disconnects, MoveOut
<1>8. CASE CloserGoesOn
    BY <1>8, <1>1, <1>t, <1>e DEF CloserGoesOn
<1>9. CASE LibraryMoves
    <2>0. UNCHANGED packets
        BY <1>9 DEF LibraryMoves
    <2>1. CASE Established
        <3>1. EventOf("up") \in NumberedEvent
            BY DEF EventOf, Event, NumberedEvent
        <3>2. channel'.wire = channel.wire
            BY <2>1, <1>t DEF Established, Channel
        <3> QED
            BY <2>0, <2>1, <3>1, <3>2, <1>c, <1>t, AppendProperties DEF Established
    <2>2. CASE Lost
        BY <2>0, <2>2, <1>c, <1>d, <1>t, <1>e, <1>r DEF Lost
    <2>3. CASE Answered
        <3>1. Head(channel.wire) \in Nat \ {0} /\ Tail(channel.wire) \in Seq(Nat \ {0})
            BY <2>3, <1>t, HeadTailProperties DEF Answered
        <3>2. [kind |-> "packet", of |-> Head(channel.wire)] \in NumberedEvent
            BY <3>1 DEF Event, NumberedEvent
        <3>3. channel'.wire = Tail(channel.wire)
            BY <2>3, <1>t DEF Answered, Channel
        <3> QED
            BY <2>0, <2>3, <3>1, <3>2, <3>3, <1>c, <1>t, AppendProperties DEF Answered
    <2>4. CASE LoopCalls
        <3>1. Head(inbox) \in NumberedEvent /\ Tail(inbox) \in Seq(NumberedEvent)
            BY <2>4, <1>t, HeadTailProperties DEF LoopCalls
        <3>2. running' \in [Loop -> NumberedEvent]
            BY <2>4, <1>t, <3>1 DEF LoopCalls
        <3> QED
            BY <2>0, <2>4, <3>1, <3>2, <1>c, <1>t DEF LoopCalls
    <2> QED
        BY <1>9, <2>1, <2>2, <2>3, <2>4 DEF LibraryMoves, External
<1>10. ASSUME NEW l \in Loop, Receives(l) PROVE Numbered'
    <2>1. running' \in [Loop -> NumberedEvent]
        BY <1>10, <1>t, <1>r DEF Receives, Continues
    <2>2. running[l].of \in Nat \ {0}
        BY <1>10, <1>t DEF Event, NumberedEvent, Receives
    <2>3. [of |-> running[l].of, age |-> EmptiedFor] \in NumberedPacket
        BY <1>t, <2>2 DEF Packet, NumberedPacket, EmptiedFor
    <2> QED
        BY <1>10, <1>c, <1>t, <2>1, <2>3, AppendProperties DEF Receives, Continues, Queued
<1>11. ASSUME NEW l \in Loop, Turns(l) PROVE Numbered'
    <2>1. PICK e \in Event : e.kind # "packet" /\ Continues(l, e)
        BY <1>11 DEF Turns
    <2>2. running' \in [Loop -> NumberedEvent]
        BY <2>1, <1>t DEF Continues, NumberedEvent
    <2> QED
        BY <1>11, <1>c, <1>t, <2>1, <2>2 DEF Turns, Continues
<1>12. CASE Quiet \/ Empties \/ \E p \in Caller, h \in Host \cup {NoHost} : Begin(p, h)
    BY <1>12, <1>1, <1>t, <1>e DEF Quiet, Empties, Begin
<1> QED
    BY <1>2, <1>3, <1>4, <1>5, <1>6, <1>7, <1>8, <1>9, <1>10, <1>11, <1>12 DEF Effect, Takes

LEMMA EffectFlows ==
    ASSUME CallerInv, LibraryInv, Effect
    PROVE  Flows
<1>t. /\ channel \in Channel /\ inbox \in Seq(Event) /\ packets \in Seq(Packet)
      /\ running \in [Loop -> Event]
    BY DEF LibraryInv, LibraryType
<1> SUFFICES ASSUME \A p \in Caller : ~Takes(p) PROVE Flows
    BY DEF Flows
<1>g. GotKept
    BY GotByTaking
<1>d. ChannelClosed.wire = <<>> /\ Idle.of = 0
    BY DEF ChannelClosed, NoChannel, Idle, EventOf
<1>r. inbox' = CloseReported =>
          inbox' \in {inbox, <<>>} \/ \E e \in Event : e.of = 0 /\ inbox' = Append(inbox, e)
    <2>1. EventOf("lost") \in Event /\ EventOf("lost").of = 0
        BY DEF EventOf, Event
    <2> QED
        BY <2>1 DEF CloseReported
<1>n. ASSUME channel'.wire \in {channel.wire, <<>>},
             inbox' \in {inbox, <<>>} \/ \E e \in Event : e.of = 0 /\ inbox' = Append(inbox, e),
             \A l \in Loop : running'[l].of \in {running[l].of, 0},
             packets' \in {packets, <<>>}
      PROVE  Flows
    BY <1>n, <1>g, <1>t, LibraryThins DEF Flows
<1>1. ASSUME UNCHANGED library, packets' \in {packets, <<>>} PROVE Flows
    BY <1>1, <1>n
<1>2. CASE GivesUp \/ Replaces
    BY <1>2, <1>n, <1>d, <1>r DEF GivesUp, Closes, Replaces, Replace
<1>3. ASSUME NEW p \in Caller, Opens(p) PROVE Flows
    BY <1>3, <1>n, <1>r DEF Opens, NewChannel
<1>4. ASSUME NEW p \in Caller, OpensNothing(p) PROVE Flows
    BY <1>4, <1>n, <1>d, <1>r DEF OpensNothing, Closes
<1>5. CASE Pops \/ \E l \in Loop : Receives(l)
    BY <1>5, <1>g DEF Flows
<1>6. ASSUME NEW p \in Caller, Sends(p) PROVE Flows
    BY <1>6 DEF Flows
<1>7. CASE Disconnects
    BY <1>7, <1>1, <1>g DEF Disconnects, Flows
<1>8. CASE CloserGoesOn \/ Quiet \/ Empties
    BY <1>8, <1>1 DEF CloserGoesOn, Quiet, Empties
<1>9. CASE LibraryMoves
    <2>0. UNCHANGED packets
        BY <1>9 DEF LibraryMoves
    <2>1. CASE Established
        <3>1. EventOf("up") \in Event /\ EventOf("up").of = 0
            BY DEF EventOf, Event
        <3>2. channel'.wire = channel.wire /\ inbox' = Append(inbox, EventOf("up"))
              /\ UNCHANGED running
            BY <2>1, <1>t DEF Established, Channel
        <3> QED
            BY <2>0, <3>1, <3>2, <1>n
    <2>2. CASE Lost
        BY <2>0, <2>2, <1>n, <1>d, <1>r DEF Lost
    <2>3. CASE Answered \/ LoopCalls
        BY <2>0, <2>3, <1>g DEF Flows
    <2> QED
        BY <1>9, <2>1, <2>2, <2>3 DEF LibraryMoves, External
<1>10. ASSUME NEW l \in Loop, Turns(l) PROVE Flows
    <2>1. PICK e \in Event : e.of = 0 /\ Continues(l, e)
        BY <1>10 DEF Turns
    <2>2. \A k \in Loop : running'[k].of \in {running[k].of, 0}
        BY <2>1, <1>t DEF Continues
    <2> QED
        BY <1>10, <1>n, <2>1, <2>2 DEF Turns, Continues
<1>11. CASE \E p \in Caller, h \in Host \cup {NoHost} : Begin(p, h)
    BY <1>11, <1>1 DEF Begin
<1> QED
    BY <1>2, <1>3, <1>4, <1>5, <1>6, <1>7, <1>8, <1>9, <1>10, <1>11 DEF Effect

(* Where what is somewhere after a step was before it.                     *)
CameFrom ==
    \A a, k, n : n # 0 /\ Holds(a, k, n)' =>
        \/ \E b, j : Holds(b, j, n) /\ (b = "got" => a = "got")
        \/ \E p \in Caller : Sends(p) /\ n = call[p]

LEMMA OnePlaceKept ==
    ASSUME CallerInv, LibraryInv, AllSent, OnePlace, Flows
    PROVE  OnePlace' /\ CameFrom
<1>t. /\ channel \in Channel /\ inbox \in Seq(Event) /\ running \in [Loop -> Event]
      /\ packets \in Seq(Packet) /\ channel.wire \in Seq(Nat)
      /\ Loop = {"own", "moved"} /\ calls \in Seq(Call) /\ Len(calls) \in Nat
    BY LenProperties DEF LibraryInv, LibraryType, Channel, Loop, CallerInv, CallTypes
<1>u. \A a, b, j, k, n : n # 0 /\ Holds(a, j, n) /\ Holds(b, k, n) => a = b /\ j = k
    BY DEF OnePlace
<1>z. Idle.of = 0
    BY DEF Idle, EventOf
<1>g. GotKept => \A k, n : n # 0 /\ Holds("got", k, n)' => Holds("got", k, n)
    BY DEF GotKept, Holds, Loop
<1>1. CASE Thins
    BY <1>1, <1>u DEF Thins, OnePlace, CameFrom
<1>2. ASSUME NEW p \in Caller, Sends(p) PROVE OnePlace' /\ CameFrom
    <2>1. Sent(p) /\ channel'.wire = Append(channel.wire, call[p])
          /\ UNCHANGED <<inbox, running, packets>>
        BY <1>2, <1>t, SendSends DEF Sends, Channel
    <2>2. call[p] \in 1 .. Len(calls) /\ calls[call[p]].sentOn = 0
        BY <1>2, OwnCall DEF Sends, Busy, CallerInv, Unsent, BeforeSend, Opened, Request
    <2>3. \A a, k : ~Holds(a, k, call[p])
        BY <2>2 DEF AllSent
    <2>4. \A i \in 1 .. Len(calls') : i \in 1 .. Len(calls) /\ calls'[i].got = calls[i].got
        BY <2>1, <1>t DEF Sent, Request
    <2>5. ASSUME NEW a, NEW k, NEW n, n # 0, Holds(a, k, n)'
          PROVE  Holds(a, k, n) \/ (a = "wire" /\ k = Len(channel.wire) + 1 /\ n = call[p])
        <3>1. CASE a = "wire"
            <4>1. \A i \in 1 .. Len(channel'.wire) :
                      \/ i \in 1 .. Len(channel.wire) /\ channel'.wire[i] = channel.wire[i]
                      \/ i = Len(channel.wire) + 1 /\ channel'.wire[i] = call[p]
                BY <1>t, <2>1, <2>2, AppendProperties
            <4>2. k \in 1 .. Len(channel'.wire) /\ channel'.wire[k] = n
                BY <2>5, <3>1 DEF Holds, Loop
            <4> QED
                BY <3>1, <4>1, <4>2 DEF Holds
        <3>2. CASE a = "got"
            BY <2>4, <2>5, <3>2, <1>g DEF GotKept
        <3>3. CASE a \in {"inbox", "queue"} \cup Loop
            BY <2>1, <2>5, <3>3 DEF Holds, Loop
        <3> QED
            BY <2>5, <3>1, <3>2, <3>3 DEF Holds
    <2>6. OnePlace'
        BY <1>u, <2>3, <2>5 DEF OnePlace
    <2>7. CameFrom
        BY <1>2, <2>5 DEF CameFrom
    <2> QED
        BY <2>6, <2>7
<1>3. ASSUME packets # <<>>, packets' = Tail(packets)
      PROVE  \A k, n : Holds("queue", k, n)' => k \in Nat \ {0} /\ Holds("queue", k + 1, n)
    <2>1. Len(packets) \in Nat /\ Len(packets') = Len(packets) - 1
          /\ \A k \in 1 .. Len(packets') : packets'[k] = packets[k + 1]
        BY <1>3, <1>t, HeadTailProperties, LenProperties
    <2>2. \A k \in 1 .. Len(packets') : k \in Nat \ {0} /\ k + 1 \in 1 .. Len(packets)
        BY <2>1
    <2> QED
        BY <2>1, <2>2 DEF Holds, Loop
<1>4. ASSUME NEW p \in Caller, Takes(p) PROVE OnePlace' /\ CameFrom
    <2>1. /\ Pops /\ Ends(p) /\ calls'[call[p]].got = Head(packets).of
        BY <1>4, <1>t, TakeEnds DEF Takes
    <2>2. /\ packets # <<>> /\ packets' = Tail(packets)
          /\ UNCHANGED <<channel, inbox, running>>
        BY <2>1 DEF Pops
    <2>3. Head(packets) = packets[1] /\ 1 \in 1 .. Len(packets)
        BY <1>t, <2>2
    <2>4. ASSUME NEW a, NEW k, NEW n, n # 0, Holds(a, k, n)'
          PROVE  \/ a = "queue" /\ k \in Nat \ {0} /\ Holds("queue", k + 1, n)
                 \/ a # "queue" /\ Holds(a, k, n) /\ (a = "got" => k # call[p])
                 \/ a = "got" /\ k = call[p] /\ Holds("queue", 1, n)
        <3>1. CASE a = "queue"
            BY <1>3, <2>2, <2>4, <3>1
        <3>2. CASE a = "got"
            <4>1. k \in 1 .. Len(calls') /\ calls'[k].got = n
                BY <2>4, <3>2 DEF Holds, Loop
            <4>2. CASE k = call[p]
                BY <2>1, <2>3, <3>2, <4>1, <4>2 DEF Holds
            <4>3. CASE k # call[p]
                BY <2>1, <3>2, <4>1, <4>3 DEF Ends, Holds
            <4> QED
                BY <4>2, <4>3
        <3>3. CASE a \in {"wire", "inbox"} \cup Loop
            BY <2>2, <2>4, <3>3 DEF Holds, Loop
        <3> QED
            BY <2>4, <3>1, <3>2, <3>3 DEF Holds
    <2>5. ASSUME NEW a, NEW b, NEW j, NEW k, NEW n, n # 0, Holds(a, j, n)', Holds(b, k, n)'
          PROVE  a = b /\ j = k
        BY <2>4, <2>5, <1>u
    <2>6. OnePlace'
        BY <2>5 DEF OnePlace
    <2>7. CameFrom
        BY <2>4 DEF CameFrom
    <2> QED
        BY <2>6, <2>7
<1>5. CASE GotKept /\ Pops
    <2>2. /\ packets # <<>> /\ packets' = Tail(packets)
          /\ UNCHANGED <<channel, inbox, running>>
        BY <1>5 DEF Pops
    <2>3. ASSUME NEW a, NEW k, NEW n, n # 0, Holds(a, k, n)'
          PROVE  \/ a = "queue" /\ k \in Nat \ {0} /\ Holds("queue", k + 1, n)
                 \/ a # "queue" /\ Holds(a, k, n)
        <3>1. CASE a = "queue"
            BY <1>3, <2>2, <2>3, <3>1
        <3>2. CASE a = "got"
            BY <1>5, <1>g, <2>3, <3>2
        <3>3. CASE a \in {"wire", "inbox"} \cup Loop
            BY <2>2, <2>3, <3>3 DEF Holds, Loop
        <3> QED
            BY <2>3, <3>1, <3>2, <3>3 DEF Holds
    <2>4. ASSUME NEW a, NEW b, NEW j, NEW k, NEW n, n # 0, Holds(a, j, n)', Holds(b, k, n)'
          PROVE  a = b /\ j = k
        BY <2>3, <2>4, <1>u
    <2>5. OnePlace'
        BY <2>4 DEF OnePlace
    <2>6. CameFrom
        BY <2>3 DEF CameFrom
    <2> QED
        BY <2>5, <2>6
<1>6. CASE GotKept /\ Answered /\ UNCHANGED packets
    <2>1. /\ channel.wire # <<>> /\ channel'.wire = Tail(channel.wire)
          /\ inbox' = Append(inbox, [kind |-> "packet", of |-> Head(channel.wire)])
          /\ UNCHANGED running
        BY <1>6, <1>t DEF Answered, Channel
    <2>2. /\ Len(channel'.wire) = Len(channel.wire) - 1 /\ Len(channel.wire) \in Nat
          /\ \A k \in 1 .. Len(channel'.wire) : channel'.wire[k] = channel.wire[k + 1]
          /\ Head(channel.wire) = channel.wire[1] /\ 1 \in 1 .. Len(channel.wire)
          /\ Head(channel.wire) \in Nat
        BY <2>1, <1>t, HeadTailProperties, LenProperties
    <2>3. \A k \in 1 .. Len(channel'.wire) : k \in Nat \ {0} /\ k + 1 \in 1 .. Len(channel.wire)
        BY <2>2
    <2>4. [kind |-> "packet", of |-> Head(channel.wire)] \in Event
        BY <2>2 DEF Event
    <2>5. \A k \in 1 .. Len(inbox') :
              \/ k \in 1 .. Len(inbox) /\ inbox'[k] = inbox[k]
              \/ k = Len(inbox) + 1 /\ inbox'[k].of = Head(channel.wire)
        BY <2>1, <2>4, <1>t, AppendProperties
    <2>n. \A i \in 1 .. Len(inbox) : i # Len(inbox) + 1
        BY <1>t
    <2>6. ASSUME NEW a, NEW k, NEW n, n # 0, Holds(a, k, n)'
          PROVE  \/ a = "wire" /\ k \in Nat \ {0} /\ Holds("wire", k + 1, n)
                 \/ a = "inbox" /\ k = Len(inbox) + 1 /\ Holds("wire", 1, n)
                 \/ a # "wire" /\ Holds(a, k, n)
        <3>1. CASE a = "wire"
            BY <2>2, <2>3, <2>6, <3>1 DEF Holds, Loop
        <3>2. CASE a = "inbox"
            BY <2>2, <2>5, <2>6, <3>2 DEF Holds, Loop
        <3>3. CASE a = "got"
            BY <1>6, <1>g, <2>6, <3>3
        <3>4. CASE a \in {"queue"} \cup Loop
            BY <1>6, <2>1, <2>6, <3>4 DEF Holds, Loop
        <3> QED
            BY <2>6, <3>1, <3>2, <3>3, <3>4 DEF Holds
    <2>7. ASSUME NEW a, NEW b, NEW j, NEW k, NEW n, n # 0, Holds(a, j, n)', Holds(b, k, n)'
          PROVE  a = b /\ j = k
        BY <2>6, <2>7, <1>u
    <2>8. OnePlace'
        BY <2>7 DEF OnePlace
    <2>9. CameFrom
        BY <2>6 DEF CameFrom
    <2> QED
        BY <2>8, <2>9
<1>7. CASE GotKept /\ LoopCalls /\ UNCHANGED packets
    <2>1. /\ inbox # <<>> /\ inbox' = Tail(inbox) /\ UNCHANGED channel
          /\ running' = [running EXCEPT !["own"] = Head(inbox)]
        BY <1>7 DEF LoopCalls
    <2>2. /\ Len(inbox') = Len(inbox) - 1 /\ Len(inbox) \in Nat
          /\ \A k \in 1 .. Len(inbox') : inbox'[k] = inbox[k + 1]
          /\ Head(inbox) = inbox[1] /\ 1 \in 1 .. Len(inbox)
        BY <2>1, <1>t, HeadTailProperties, LenProperties
    <2>3. \A k \in 1 .. Len(inbox') : k \in Nat \ {0} /\ k + 1 \in 1 .. Len(inbox)
        BY <2>2
    <2>4. running'["own"] = inbox[1] /\ running'["moved"] = running["moved"]
        BY <2>1, <2>2, <1>t
    <2>5. ASSUME NEW a, NEW k, NEW n, n # 0, Holds(a, k, n)'
          PROVE  \/ a = "inbox" /\ k \in Nat \ {0} /\ Holds("inbox", k + 1, n)
                 \/ a = "own" /\ k = 1 /\ Holds("inbox", 1, n)
                 \/ a \notin {"inbox", "own"} /\ Holds(a, k, n)
        <3>1. CASE a = "inbox"
            BY <2>2, <2>3, <2>5, <3>1 DEF Holds, Loop
        <3>2. CASE a \in Loop
            BY <2>2, <2>4, <2>5, <3>2 DEF Holds, Loop
        <3>3. CASE a = "got"
            BY <1>7, <1>g, <2>5, <3>3
        <3>4. CASE a \in {"wire", "queue"}
            BY <1>7, <2>1, <2>5, <3>4 DEF Holds, Loop
        <3> QED
            BY <2>5, <3>1, <3>2, <3>3, <3>4 DEF Holds
    <2>6. ASSUME NEW a, NEW b, NEW j, NEW k, NEW n, n # 0, Holds(a, j, n)', Holds(b, k, n)'
          PROVE  a = b /\ j = k
        BY <2>5, <2>6, <1>u
    <2>7. OnePlace'
        BY <2>6 DEF OnePlace
    <2>8. CameFrom
        BY <2>5 DEF CameFrom
    <2> QED
        BY <2>7, <2>8
<1>8. CASE GotKept /\ MoveOut /\ UNCHANGED packets
    <2>1. /\ channel'.wire = <<>> /\ inbox' = <<>>
          /\ running'["own"] = Idle /\ running'["moved"] = running["own"]
        BY <1>8 DEF MoveOut, ChannelClosed, NoChannel
    <2>2. ASSUME NEW a, NEW k, NEW n, n # 0, Holds(a, k, n)'
          PROVE  \/ a = "moved" /\ k = 1 /\ Holds("own", 1, n)
                 \/ a \notin {"moved", "own"} /\ Holds(a, k, n)
        <3>1. CASE a \in {"wire", "inbox"}
            BY <2>1, <2>2, <3>1 DEF Holds, Loop
        <3>2. CASE a \in Loop
            BY <1>z, <2>1, <2>2, <3>2 DEF Holds, Loop
        <3>3. CASE a = "got"
            BY <1>8, <1>g, <2>2, <3>3
        <3>4. CASE a = "queue"
            BY <1>8, <2>2, <3>4 DEF Holds, Loop
        <3> QED
            BY <2>2, <3>1, <3>2, <3>3, <3>4 DEF Holds
    <2>3. ASSUME NEW a, NEW b, NEW j, NEW k, NEW n, n # 0, Holds(a, j, n)', Holds(b, k, n)'
          PROVE  a = b /\ j = k
        BY <2>2, <2>3, <1>u
    <2>4. OnePlace'
        BY <2>3 DEF OnePlace
    <2>5. CameFrom
        BY <2>2 DEF CameFrom
    <2> QED
        BY <2>4, <2>5
<1>9. ASSUME GotKept, NEW l \in Loop, Receives(l) PROVE OnePlace' /\ CameFrom
    <2>1. /\ packets' = Append(packets, [of |-> running[l].of, age |-> EmptiedFor])
          /\ running' = [running EXCEPT ![l] = Idle] /\ UNCHANGED <<channel, inbox>>
        BY <1>9 DEF Receives, Continues, Queued
    <2>2. [of |-> running[l].of, age |-> EmptiedFor] \in Packet
        <3>1. running[l].of \in Nat /\ channel.no \in Nat
            BY <1>t DEF Event, Channel
        <3> QED
            BY <3>1 DEF Packet, EmptiedFor
    <2>3. \A k \in 1 .. Len(packets') :
              \/ k \in 1 .. Len(packets) /\ packets'[k] = packets[k]
              \/ k = Len(packets) + 1 /\ packets'[k].of = running[l].of
        BY <2>1, <2>2, <1>t, AppendProperties
    <2>n. \A i \in 1 .. Len(packets) : i # Len(packets) + 1
        BY <1>t
    <2>4. running'[l].of = 0 /\ \A k \in Loop : k # l => running'[k] = running[k]
        BY <1>t, <1>z, <2>1
    <2>5. ASSUME NEW a, NEW k, NEW n, n # 0, Holds(a, k, n)'
          PROVE  \/ a = "queue" /\ k = Len(packets) + 1 /\ Holds(l, 1, n)
                 \/ a # l /\ Holds(a, k, n)
        <3>1. CASE a = "queue"
            BY <1>t, <2>3, <2>5, <3>1 DEF Holds, Loop
        <3>2. CASE a \in Loop
            BY <2>4, <2>5, <3>2 DEF Holds, Loop
        <3>3. CASE a = "got"
            BY <1>9, <1>g, <2>5, <3>3, <1>t
        <3>4. CASE a \in {"wire", "inbox"}
            BY <2>1, <2>5, <3>4 DEF Holds, Loop
        <3> QED
            BY <2>5, <3>1, <3>2, <3>3, <3>4 DEF Holds
    <2>6. ASSUME NEW a, NEW b, NEW j, NEW k, NEW n, n # 0, Holds(a, j, n)', Holds(b, k, n)'
          PROVE  a = b /\ j = k
        BY <2>5, <2>6, <1>u
    <2>7. OnePlace'
        BY <2>6 DEF OnePlace
    <2>8. CameFrom
        BY <2>5, <1>t DEF CameFrom
    <2> QED
        BY <2>7, <2>8
<1> QED
    BY <1>1, <1>2, <1>4, <1>5, <1>6, <1>7, <1>8, <1>9 DEF Flows

LEMMA InStepKept ==
    ASSUME CallerInv, LibraryInv, InStep, Effect
    PROVE  InStep'
<1>t. channel \in Channel /\ packets \in Seq(Packet) /\ Len(calls) \in Nat
    BY LenProperties DEF LibraryInv, LibraryType, CallerInv, CallTypes
<1>g. CallerStep
    BY <1>t, EffectOnCallers
<1>p. OnePlace' /\ CameFrom
    BY EffectFlows, OnePlaceKept DEF InStep
<1>1. Numbered'
    BY NumberedKept DEF InStep
(* How the calls have gone on.                                             *)
<1>l. \A i \in 1 .. Len(calls) : i \in 1 .. Len(calls')
    BY <1>t, <1>g, CallsGoOn
<1>a. /\ \A j \in 1 .. Len(calls) : ~calls[j].alone => ~calls'[j].alone
      /\ AllAlone' => AllAlone
    BY <1>l, <1>g, CallsGoOn DEF AllAlone
<1>u. \A j \in 1 .. Len(calls) : GivenUp(j) => GivenUp(j)'
    BY <1>g, CallsGoOn DEF GivenUp
<1>c. ASSUME NEW p \in Caller, Sends(p)
      PROVE  call[p] \in 1 .. Len(calls) /\ calls'[call[p]].sentOn # 0
             /\ calls'[call[p]].verdict = "open"
    <2>1. Sent(p) /\ Busy(p)
        BY <1>c, <1>t, SendSends DEF Sends, Busy
    <2>2. channel.no # 0
        BY <2>1 DEF Sent, LibraryInv, IsUp, Alive
    <2> QED
        BY <2>1, <2>2, OwnCall DEF Sent
<1>s. \A n \in 1 .. Len(calls) : calls[n].sentOn # 0 => calls'[n].sentOn # 0
    <2>1. ASSUME NEW n \in 1 .. Len(calls), calls[n].sentOn # 0 PROVE calls'[n].sentOn # 0
        <3>1. ASSUME NEW p \in Caller, Sent(p), call[p] = n PROVE FALSE
            BY <2>1, <3>1 DEF Sent, CallerInv, Unsent, BeforeSend, Opened, Request
        <3> QED
            BY <2>1, <3>1, <1>g, CallsGoOn
    <2> QED
        BY <2>1
<1>2. AllSent'
    <2>1. ASSUME NEW a, NEW k, NEW n, n # 0, Holds(a, k, n)'
          PROVE  n \in 1 .. Len(calls') /\ calls'[n].sentOn # 0
        <3>1. ASSUME NEW b, NEW j, Holds(b, j, n)
              PROVE  n \in 1 .. Len(calls') /\ calls'[n].sentOn # 0
            BY <2>1, <3>1, <1>l, <1>s DEF InStep, AllSent
        <3> QED
            BY <2>1, <3>1, <1>p, <1>c, <1>l DEF CameFrom
    <2> QED
        BY <2>1 DEF AllSent
(* An answer is taken, and it is not the caller's own.                     *)
<1>w. ASSUME AllAlone, NEW p \in Caller, Takes(p), Head(packets).of # call[p]
      PROVE  call[p] = Len(calls) /\ \E j \in 1 .. Len(calls) : j < call[p] /\ GivenUp(j)
    <2> DEFINE m == Head(packets).of
    <2>1. packets # <<>> /\ Busy(p)
        BY <1>w DEF Takes, Pops, Busy
    <2>2. Head(packets) = packets[1] /\ 1 \in 1 .. Len(packets) /\ Head(packets) \in NumberedPacket
        BY <2>1, <1>t, HeadTailProperties DEF InStep, Numbered
    <2>3. m # 0 /\ Holds("queue", 1, m)
        BY <2>2 DEF Holds, NumberedPacket
    <2>4. m \in 1 .. Len(calls) /\ (calls[m].verdict = "open" \/ \E j \in 1 .. m : GivenUp(j))
        BY <1>w, <2>3 DEF InStep, AllSent, InOrder
    <2>5. call[p] \in 1 .. Len(calls) /\ call[p] = Len(calls)
          /\ \A q \in Caller : Busy(q) => q = p
        BY <1>w, <2>1, OwnCall DEF CallerInv, AloneIsLast, AllAlone, Request
    <2>6. calls[m].verdict # "open"
        BY <1>w, <2>4, <2>5 DEF CallerInv, CallsHeld
    <2>7. PICK j \in 1 .. m : GivenUp(j)
        BY <2>4, <2>6
    <2> HIDE DEF m
    <2>8. m # call[p]
        BY <1>w DEF m
    <2>9. j \in 1 .. Len(calls) /\ j < call[p]
        BY <1>t, <2>4, <2>5, <2>7, <2>8
    <2> QED
        BY <2>5, <2>7, <2>9
<1>3. InOrder'
    <2>1. ASSUME NEW a, NEW k, NEW n, n # 0, a # "got", Holds(a, k, n)', AllAlone',
                 calls'[n].verdict # "open"
          PROVE  \E j \in 1 .. n : GivenUp(j)'
        <3>0. AllAlone
            BY <2>1, <1>a
        <3>1. ASSUME NEW p \in Caller, Sends(p), n = call[p] PROVE FALSE
            BY <1>c, <2>1, <3>1
        <3>2. PICK b, j : Holds(b, j, n) /\ b # "got"
            BY <2>1, <3>1, <1>p DEF CameFrom
        <3>3. n \in 1 .. Len(calls) /\ calls[n].sentOn # 0
              /\ (calls[n].verdict = "open" \/ \E i \in 1 .. n : GivenUp(i))
            BY <2>1, <3>0, <3>2 DEF InStep, AllSent, InOrder
        <3>4. \A i \in 1 .. n : i \in 1 .. Len(calls)
            BY <3>3, <1>t
        <3>5. CASE \E i \in 1 .. n : GivenUp(i)
            BY <3>4, <3>5, <1>u
        <3>6. CASE calls[n].verdict = "open" /\ calls'[n].verdict # "ok"
            <4>1. calls'[n].sentOn # 0
                BY <3>3, <1>s
            <4>2. GivenUp(n)' /\ n \in 1 .. n
                BY <2>1, <3>3, <3>6, <4>1, <1>t DEF GivenUp
            <4> QED
                BY <4>2
        <3>7. CASE calls[n].verdict = "open" /\ calls'[n].verdict = "ok"
            <4>1. PICK p \in Caller : Takes(p) /\ call[p] = n
                BY <3>3, <3>7, EndsOk
            <4>2. calls'[n].got = Head(packets).of
                BY <4>1, <1>t, TakeEnds
            <4>3. CASE Head(packets).of = n
                <5>1. Holds("got", n, n)'
                    BY <3>3, <4>2, <4>3, <1>l DEF Holds
                <5> QED
                    BY <2>1, <5>1, <1>p DEF OnePlace
            <4>4. CASE Head(packets).of # n
                <5>1. n = Len(calls) /\ \E i \in 1 .. Len(calls) : i < n /\ GivenUp(i)
                    BY <3>0, <4>1, <4>4, <1>w
                <5> QED
                    BY <5>1, <1>u
            <4> QED
                BY <4>3, <4>4
        <3> QED
            BY <3>3, <3>5, <3>6, <3>7
    <2> QED
        BY <2>1 DEF InOrder
<1>4. AnswersInStep'
    <2>1. ASSUME NEW i \in 1 .. Len(calls'), NEW j \in 1 .. Len(calls'),
                 calls'[i].got # 0, calls'[i].got = calls'[j].got
          PROVE  i = j
        <3>1. PICK n : n = calls'[i].got
            OBVIOUS
        <3>2. Holds("got", i, n)' /\ Holds("got", j, n)'
            BY <2>1, <3>1 DEF Holds
        <3> QED
            BY <2>1, <3>1, <3>2, <1>p DEF OnePlace
    <2>2. ASSUME NEW i \in 1 .. Len(calls'), calls'[i].sentOn # 0, calls'[i].verdict = "ok",
                 calls'[i].got # i
          PROVE  \E j \in 1 .. Len(calls') : ~calls'[j].alone \/ (j < i /\ GivenUp(j)')
        <3>1. i \in 1 .. Len(calls)
            BY <2>2, <1>g, CallsGoOn
        <3>2. CASE calls[i].verdict # "open"
            <4>1. calls[i].sentOn # 0 /\ calls[i].verdict = "ok" /\ calls[i].got # i
                BY <2>2, <3>1, <3>2, <1>g, CallsGoOn
            <4>2. PICK j \in 1 .. Len(calls) : ~calls[j].alone \/ (j < i /\ GivenUp(j))
                BY <3>1, <4>1 DEF InStep, AnswersInStep
            <4> QED
                BY <4>2, <1>l, <1>a, <1>u
        <3>3. CASE calls[i].verdict = "open"
            <4>1. PICK p \in Caller : Takes(p) /\ call[p] = i
                BY <2>2, <3>1, <3>3, EndsOk
            <4>2. Head(packets).of # call[p]
                BY <2>2, <4>1, <1>t, TakeEnds
            <4>3. CASE AllAlone
                <5>1. PICK j \in 1 .. Len(calls) : j < call[p] /\ GivenUp(j)
                    BY <4>1, <4>2, <4>3, <1>w
                <5> QED
                    BY <4>1, <5>1, <1>l, <1>u
            <4>4. CASE ~AllAlone
                BY <4>4, <1>l, <1>a DEF AllAlone
            <4> QED
                BY <4>3, <4>4
        <3> QED
            BY <3>2, <3>3
    <2> QED
        BY <2>1, <2>2 DEF AnswersInStep
<1> QED
    BY <1>1, <1>2, <1>3, <1>4, <1>p DEF InStep

-----------------------------------------------------------------------------
(* The other members, and what is reported to those that wait.  Whoever    *)
(* will find that the connection has failed has been told so.              *)
Waits == {"recreate", "reconnect", "opening", "connecting", "asleep"}

Members ==
    /\ client \in BOOLEAN /\ connected \in BOOLEAN /\ failed \in BOOLEAN
    /\ closer \in {"idle", "stop", "clear", "return"}
    /\ stopped \in BOOLEAN
    /\ disconnects \in 0 .. MaxDisconnects
    /\ reported \subseteq Waiting

(* Nobody looks while the old connection is replaced.                      *)
NoneOpening == \A p \in Caller : pc[p] # "opening"

FailureSeen(p) ==
    failed /\ NoneOpening /\ (pc[p] = "asleep" \/ (pc[p] = "connecting" /\ ~connected))

FailureReported == \A p \in Caller : FailureSeen(p) => p \in reported

(* What a step does to them: nothing, ...                                  *)
Silent ==
    /\ UNCHANGED <<connected, failed, reported>>
    /\ \/ UNCHANGED pc
       \/ \E p \in Caller, to \in Position :
              /\ pc[p] # "opening" /\ Goto(p, to)
              /\ pc[p] \in Waits => to \in Waits
              /\ to = "asleep" => pc[p] = "connecting" /\ ~connected
              /\ to = "connecting" => connected

(* ... a caller looks at the connection, ...                               *)
Looks(p) ==
    /\ UNCHANGED <<connected, failed>>
    /\ reported' = reported \ {p}
    /\ pc[p] # "opening"
    /\ \E to \in Position \ {"asleep"} : Goto(p, to) /\ (to = "connecting" => connected)

(* ... or starts anew, ...                                                 *)
StartsAnew(p) ==
    /\ failed' = FALSE
    /\ \E to \in Position : Goto(p, to)
    /\ \/ reported' = reported \ {p}
       \/ reported' = (reported \cup Waiting) \ {p}
       \/ reported' = reported /\ pc[p] \notin Waits

(* ... all that wait are told, or the connection is up, ...                *)
Tells ==
    \/ UNCHANGED pc /\ Report
    \/ \E p \in Caller, to \in Position \ {"asleep", "connecting"} :
           /\ pc[p] # "opening" /\ Goto(p, to)
           /\ \/ Report /\ (pc[p] \in Waits => to \in Waits)
              \/ reported' = (reported \cup Waiting) \ {p}

Connects ==
    /\ connected' = TRUE
    /\ UNCHANGED <<failed, reported>>
    /\ \/ UNCHANGED pc
       \/ \E p \in Caller : pc[p] = "detected" /\ Goto(p, "connected")

(* ... or the old connection is closed to be replaced.                     *)
ClosesOld(p) ==
    /\ pc[p] = "reconnect" /\ Goto(p, "opening")
    /\ UNCHANGED <<failed, reported>>

Flags ==
    \/ Silent \/ Tells \/ Connects
    \/ \E p \in Caller : Looks(p) \/ StartsAnew(p) \/ ClosesOld(p)

Plain ==
    /\ client' \in {client, TRUE, FALSE}
    /\ connected' \in {connected, TRUE, FALSE} \/ connected' = (connected /\ ~client)
    /\ failed' \in {failed, TRUE, FALSE}
    /\ closer' \in {closer, "stop", "clear", "return", "idle"}
    /\ stopped' = stopped \/ stopped' = (client /\ current # NoHost)
    /\ \/ disconnects' = disconnects
       \/ disconnects < MaxDisconnects /\ disconnects' = disconnects + 1

LEMMA MembersKept ==
    ASSUME pc \in [Caller -> Position], Members, FailureReported, Flags, Plain
    PROVE  Members' /\ FailureReported'
<1>1. client' \in BOOLEAN /\ failed' \in BOOLEAN
    <2>1. client \in BOOLEAN /\ failed \in BOOLEAN
        BY DEF Members
    <2>2. client' \in {client, TRUE, FALSE} /\ failed' \in {failed, TRUE, FALSE}
        BY DEF Plain
    <2> QED
        BY <2>1, <2>2
<1>2. connected' \in BOOLEAN /\ stopped' \in BOOLEAN
    <2>1. connected \in BOOLEAN /\ stopped \in BOOLEAN
        BY DEF Members
    <2>2. /\ connected' \in {connected, TRUE, FALSE} \/ connected' = (connected /\ ~client)
          /\ stopped' = stopped \/ stopped' = (client /\ current # NoHost)
        BY DEF Plain
    <2>3. (connected /\ ~client) \in BOOLEAN /\ (client /\ current # NoHost) \in BOOLEAN
        OBVIOUS
    <2> QED
        BY <2>1, <2>2, <2>3
<1>3. closer' \in {"idle", "stop", "clear", "return"} /\ disconnects' \in 0 .. MaxDisconnects
    BY DisconnectsAssumption DEF Members, Plain
<1>4. reported' \subseteq Waiting'
    <2>1. \A p \in Caller : p \in Waiting <=> pc[p] \in Waits
        BY DEF Waiting, Waits
    <2>2. \A p \in Caller : p \in Waiting' <=> pc'[p] \in Waits
        BY DEF Waiting, Waits
    <2>3. reported \subseteq Waiting /\ Waiting \subseteq Caller
        BY DEF Members, Waiting
    <2>4. CASE Silent \/ Connects
        BY <2>1, <2>2, <2>3, <2>4 DEF Silent, Connects, Goto, Waits
    <2>5. ASSUME NEW p \in Caller, Looks(p) \/ StartsAnew(p) PROVE reported' \subseteq Waiting'
        <3>1. \A q \in Caller : q # p => pc'[q] = pc[q]
            BY <2>5 DEF Looks, StartsAnew, Goto
        <3> QED
            BY <2>1, <2>2, <2>3, <2>5, <3>1 DEF Looks, StartsAnew
    <2>6. CASE Tells
        <3>1. CASE UNCHANGED pc /\ Report
            BY <2>1, <2>2, <2>3, <3>1 DEF Report
        <3>2. ASSUME NEW p \in Caller, NEW to \in Position, Goto(p, to),
                     \/ Report /\ (pc[p] \in Waits => to \in Waits)
                     \/ reported' = (reported \cup Waiting) \ {p}
              PROVE  reported' \subseteq Waiting'
            <4>1. pc'[p] = to /\ \A q \in Caller : q # p => pc'[q] = pc[q]
                BY <3>2 DEF Goto
            <4> QED
                BY <2>1, <2>2, <2>3, <3>2, <4>1 DEF Report
        <3> QED
            BY <2>6, <3>1, <3>2 DEF Tells
    <2>7. ASSUME NEW p \in Caller, ClosesOld(p) PROVE reported' \subseteq Waiting'
        BY <2>1, <2>2, <2>3, <2>7 DEF ClosesOld, Goto, Waits
    <2> QED
        BY <2>4, <2>5, <2>6, <2>7 DEF Flags
<1>5. FailureReported'
    <2>1. CASE Silent
        <3>1. CASE UNCHANGED <<connected, failed, reported, pc>>
            BY <3>1 DEF FailureReported, FailureSeen, NoneOpening
        <3>2. ASSUME NEW p \in Caller, NEW to \in Position, pc[p] # "opening", Goto(p, to),
                     to = "asleep" => pc[p] = "connecting" /\ ~connected,
                     to = "connecting" => connected,
                     UNCHANGED <<connected, failed, reported>>
              PROVE  FailureReported'
            <4>1. pc'[p] = to /\ \A q \in Caller : q # p => pc'[q] = pc[q]
                BY <3>2 DEF Goto
            <4>2. \A q \in Caller : FailureSeen(q)' => FailureSeen(q)
                BY <3>2, <4>1 DEF FailureSeen, NoneOpening
            <4> QED
                BY <3>2, <4>2 DEF FailureReported
        <3> QED
            BY <2>1, <3>1, <3>2 DEF Silent
    <2>2. ASSUME NEW p \in Caller, Looks(p) PROVE FailureReported'
        <3>1. ~FailureSeen(p)' /\ \A q \in Caller : q # p /\ FailureSeen(q)' => FailureSeen(q)
            BY <2>2 DEF Looks, Goto, FailureSeen, NoneOpening
        <3> QED
            BY <2>2, <3>1 DEF Looks, FailureReported
    <2>3. ASSUME NEW p \in Caller, StartsAnew(p) PROVE FailureReported'
        BY <2>3 DEF StartsAnew, FailureReported, FailureSeen
    <2>4. CASE Connects
        <3>1. \A q \in Caller : FailureSeen(q)' => FailureSeen(q)
            BY <2>4 DEF Connects, Goto, FailureSeen, NoneOpening
        <3> QED
            BY <2>4, <3>1 DEF Connects, FailureReported
    <2>5. CASE Tells
        <3>1. CASE UNCHANGED pc /\ Report
            BY <3>1 DEF Report, Waiting, FailureReported, FailureSeen
        <3>2. ASSUME NEW p \in Caller, NEW to \in Position \ {"asleep", "connecting"}, Goto(p, to),
                     Report \/ reported' = (reported \cup Waiting) \ {p}
              PROVE  FailureReported'
            <4>1. ~FailureSeen(p)' /\ \A q \in Caller : q # p /\ FailureSeen(q)' => q \in Waiting
                BY <3>2 DEF Goto, FailureSeen, Waiting
            <4> QED
                BY <3>2, <4>1 DEF Report, FailureReported
        <3> QED
            BY <2>5, <3>1, <3>2 DEF Tells
    <2>6. ASSUME NEW p \in Caller, ClosesOld(p) PROVE FailureReported'
        <3>1. pc'[p] = "opening"
            BY <2>6 DEF ClosesOld, Goto
        <3> QED
            BY <3>1 DEF FailureReported, FailureSeen, NoneOpening
    <2> QED
        BY <2>1, <2>2, <2>3, <2>4, <2>5, <2>6 DEF Flags
<1> QED
    BY <1>1, <1>2, <1>3, <1>4, <1>5 DEF Members

(* Only a caller that has seen the failure is refused.                     *)
RefusedAsSeen ==
    \A p \in Caller :
        pc[p] # "idle" /\ pc'[p] = "idle" /\ calls'[call[p]].verdict = "refused"
            => FailureSeen(p)

LEMMA NotRefused ==
    ASSUME CallerInv, packets \in Seq(Packet),
           \/ UNCHANGED pc
           \/ \E p \in Caller, to \in Position \ {"idle"} : Goto(p, to)
           \/ \E p \in Caller : pc[p] # "idle" /\
                  \E how \in Verdict \ {"open", "refused"} : Fail(p, how)
           \/ \E p \in Caller : Takes(p)
    PROVE  RefusedAsSeen
<1>t. pc \in [Caller -> Position]
    BY DEF CallerInv, CallTypes
<1>1. ASSUME NEW p \in Caller, Ends(p), calls'[call[p]].verdict # "refused" PROVE RefusedAsSeen
    BY <1>t, <1>1 DEF Ends, Goto, RefusedAsSeen
<1>2. ASSUME NEW p \in Caller, pc[p] # "idle", NEW how \in Verdict \ {"open", "refused"},
             Fail(p, how)
      PROVE  RefusedAsSeen
    BY <1>1, <1>2, FailEnds DEF Busy
<1>3. ASSUME NEW p \in Caller, Takes(p) PROVE RefusedAsSeen
    BY <1>1, <1>3, TakeEnds
<1>4. ASSUME NEW p \in Caller, NEW to \in Position \ {"idle"}, Goto(p, to) PROVE RefusedAsSeen
    BY <1>t, <1>4 DEF Goto, RefusedAsSeen
<1>5. CASE UNCHANGED pc
    BY <1>5 DEF RefusedAsSeen
<1> QED
    BY <1>2, <1>3, <1>4, <1>5

LEMMA TcpFlags ==
    ASSUME CallerInv, packets \in Seq(Packet), Tcp!Next
    PROVE  Flags /\ Plain /\ RefusedAsSeen
<1> USE DEF Tcp!library, Tcp!transport, Tcp!callers, Tcp!closing, Tcp!Goto, Tcp!Fail, Tcp!Request,
            Tcp!Report, Tcp!Waiting
<1>t. pc \in [Caller -> Position]
    BY DEF CallerInv, CallTypes
<1>1. ASSUME NEW p \in Caller, NEW h \in Host \cup {NoHost}, Tcp!Begin(p, h)
      PROVE  Flags /\ Plain /\ RefusedAsSeen
    <2>1. \E to \in {"receive", "check"} : Goto(p, to)
        BY <1>1 DEF Tcp!Begin, Goto
    <2>2. UNCHANGED <<transport, closing, reported>> /\ pc[p] = "idle"
        BY <1>1 DEF Tcp!Begin
    <2>3. Silent /\ Plain
        BY <2>1, <2>2 DEF Silent, Plain, Position, Waits
    <2>4. RefusedAsSeen
        BY <2>1, NotRefused DEF Position
    <2> QED
        BY <2>3, <2>4 DEF Flags
<1>2. ASSUME NEW p \in Caller,
             \/ Tcp!Check(p) \/ Tcp!FallAsleep(p) \/ Tcp!ConnectionKept(p) \/ Tcp!SendFails(p)
             \/ Tcp!TestClient(p) \/ Tcp!ReadChannel(p) \/ Tcp!WaitForPacket(p) \/ Tcp!Send(p)
      PROVE  Flags /\ Plain /\ RefusedAsSeen
    <2>1. \E to \in Position \ {"idle"} :
              /\ pc[p] # "opening" /\ Goto(p, to)
              /\ pc[p] \in Waits => to \in Waits
              /\ to = "asleep" => pc[p] = "connecting" /\ ~connected
              /\ to = "connecting" => connected
        BY <1>2
        DEF Goto, Position, Waits, Tcp!Check, Tcp!NeedsConnection, Tcp!FallAsleep,
            Tcp!ConnectionKept, Tcp!SendFails, Tcp!TestClient, Tcp!ReadChannel,
            Tcp!WaitForPacket, Tcp!Send
    <2>2. UNCHANGED <<transport, closing, reported>>
        BY <1>2
        DEF Tcp!Check, Tcp!FallAsleep, Tcp!ConnectionKept, Tcp!SendFails, Tcp!TestClient,
            Tcp!ReadChannel, Tcp!WaitForPacket, Tcp!Send
    <2>3. Silent /\ Plain
        BY <2>1, <2>2 DEF Silent, Plain
    <2>4. RefusedAsSeen
        BY <2>1, NotRefused
    <2> QED
        BY <2>3, <2>4 DEF Flags
<1>3. ASSUME NEW p \in Caller, Tcp!Recreate(p) PROVE Flags /\ Plain /\ RefusedAsSeen
    <2>1. pc[p] = "recreate" /\ Goto(p, "reconnect") /\ Report
          /\ UNCHANGED <<failed, closing>> /\ client' = TRUE /\ connected' = FALSE
        BY <1>3 DEF Goto, Report, Waiting, Tcp!Recreate
    <2>2. "reconnect" \in Position \ {"idle", "asleep", "connecting"} /\ "reconnect" \in Waits
        BY DEF Position, Waits
    <2>3. Tells /\ Plain
        BY <2>1, <2>2 DEF Tells, Plain
    <2>4. RefusedAsSeen
        BY <2>1, <2>2, NotRefused
    <2> QED
        BY <2>3, <2>4 DEF Flags
<1>4. ASSUME NEW p \in Caller,
             \/ Tcp!ReconnectWithoutClient(p) \/ Tcp!ConnectionSeen(p)
             \/ Tcp!ConnectionDetected(p)
      PROVE  Flags /\ Plain /\ RefusedAsSeen
    <2>1. \E to \in {"crashed", "connected", "detected"} : Goto(p, to)
        BY <1>4
        DEF Goto, Tcp!ReconnectWithoutClient, Tcp!ConnectionSeen, Tcp!ConnectionDetected
    <2>2. pc[p] # "opening" /\ UNCHANGED <<transport, closing>> /\ reported' = reported \ {p}
        BY <1>4
        DEF Tcp!ReconnectWithoutClient, Tcp!ConnectionSeen, Tcp!ConnectionDetected
    <2>3. Looks(p) /\ Plain
        BY <2>1, <2>2 DEF Looks, Plain, Position
    <2>4. RefusedAsSeen
        BY <2>1, NotRefused DEF Position
    <2> QED
        BY <2>3, <2>4 DEF Flags
<1>5. ASSUME NEW p \in Caller, Tcp!ClientMutexFree, Tcp!ConnectionFailed(p)
      PROVE  Flags /\ Plain /\ RefusedAsSeen
    <2>1. /\ FailureSeen(p) /\ pc[p] # "opening" /\ Goto(p, "idle")
          /\ UNCHANGED <<transport, closing>> /\ reported' = reported \ {p}
        BY <1>5 DEF FailureSeen, NoneOpening, Goto, Tcp!ClientMutexFree, Tcp!ConnectionFailed
    <2>2. Looks(p) /\ Plain
        BY <2>1 DEF Looks, Plain, Position
    <2>3. RefusedAsSeen
        BY <2>1, <1>t DEF RefusedAsSeen, Goto
    <2> QED
        BY <2>2, <2>3 DEF Flags
<1>6. ASSUME NEW p \in Caller, Tcp!Reconnect(p) \/ Tcp!NoSocket(p)
      PROVE  Flags /\ Plain /\ RefusedAsSeen
    <2>1. /\ failed' = FALSE /\ UNCHANGED <<client, connected, closing>>
          /\ \E to \in {"idle", "connecting"} : Goto(p, to)
          /\ reported' = reported \ {p}
        BY <1>6 DEF Goto, Tcp!Reconnect, Tcp!NoSocket, Tcp!ForgetFailure
    <2>2. StartsAnew(p) /\ Plain
        BY <2>1 DEF StartsAnew, Plain, Position
    <2>3. Goto(p, "connecting") \/ (pc[p] # "idle" /\ Fail(p, "failed"))
        BY <1>6 DEF Goto, Fail, Tcp!Reconnect, Tcp!NoSocket
    <2>4. RefusedAsSeen
        BY <2>3, NotRefused DEF Position, Verdict
    <2> QED
        BY <2>2, <2>4 DEF Flags
<1>7. ASSUME NEW p \in Caller, Tcp!ConnectTimeout(p) PROVE Flags /\ Plain /\ RefusedAsSeen
    <2>1. /\ pc[p] = "asleep" /\ Fail(p, "timeout") /\ reported' = (reported \cup Waiting) \ {p}
          /\ UNCHANGED <<client, failed, closing>> /\ connected' = (connected /\ ~client)
        BY <1>7 DEF Fail, Goto, Waiting, Tcp!ConnectTimeout, Tcp!DisconnectInternal
    <2>2. "idle" \in Position \ {"asleep", "connecting"}
          /\ "timeout" \in Verdict \ {"open", "refused"}
        BY DEF Position, Verdict
    <2>3. Tells /\ Plain
        BY <2>1, <2>2 DEF Tells, Plain, Fail
    <2>4. RefusedAsSeen
        BY <2>1, <2>2, NotRefused
    <2> QED
        BY <2>3, <2>4 DEF Flags
<1>8. ASSUME NEW p \in Caller, Tcp!StoreDetected(p) PROVE Flags /\ Plain /\ RefusedAsSeen
    <2>1. /\ pc[p] = "detected" /\ connected' = TRUE /\ Goto(p, "connected")
          /\ UNCHANGED <<client, failed, closing, reported>>
        BY <1>8 DEF Goto, Tcp!StoreDetected
    <2>2. Connects /\ Plain
        BY <2>1 DEF Connects, Plain
    <2>3. RefusedAsSeen
        BY <2>1, NotRefused DEF Position
    <2> QED
        BY <2>2, <2>3 DEF Flags
<1>9. ASSUME NEW p \in Caller,
             \/ Tcp!ConnectionLost(p) \/ Tcp!ClientGone(p) \/ Tcp!NoTimeToReceive(p)
             \/ Tcp!GiveUp(p) \/ Tcp!TakeInvalid(p) \/ Tcp!Take(p)
      PROVE  Flags /\ Plain /\ RefusedAsSeen
    <2>1. /\ pc[p] \notin Waits \cup {"idle"} /\ Goto(p, "idle")
          /\ UNCHANGED <<transport, closing, reported>>
        BY <1>9
        DEF Waits, Goto, Tcp!ConnectionLost, Tcp!ClientGone, Tcp!NoTimeToReceive, Tcp!GiveUp,
            Tcp!TakeInvalid, Tcp!Take
    <2>2. Silent /\ Plain
        BY <2>1 DEF Silent, Plain, Position, Waits
    <2>3. Takes(p) \/ \E how \in Verdict \ {"open", "refused"} : Fail(p, how)
        BY <1>9
        DEF Takes, Pops, Fail, Goto, Verdict, Tcp!ConnectionLost, Tcp!ClientGone,
            Tcp!NoTimeToReceive, Tcp!GiveUp, Tcp!TakeInvalid, Tcp!Take, Tcp!Popped
    <2>4. RefusedAsSeen
        BY <2>1, <2>3, NotRefused
    <2> QED
        BY <2>2, <2>4 DEF Flags
<1>10. ASSUME NEW p \in Caller, Tcp!StoreSendFailed(p) PROVE Flags /\ Plain /\ RefusedAsSeen
    <2>1. /\ pc[p] = "sendfailed" /\ Fail(p, "failed") /\ Report /\ connected' = FALSE
          /\ UNCHANGED <<client, failed, closing>>
        BY <1>10 DEF Fail, Goto, Report, Waiting, Tcp!StoreSendFailed
    <2>2. "idle" \in Position \ {"asleep", "connecting"} /\ "sendfailed" \notin Waits
          /\ "failed" \in Verdict \ {"open", "refused"}
        BY DEF Position, Waits, Verdict
    <2>3. Tells /\ Plain
        BY <2>1, <2>2 DEF Tells, Plain, Fail
    <2>4. RefusedAsSeen
        BY <2>1, <2>2, NotRefused
    <2> QED
        BY <2>3, <2>4 DEF Flags
<1>11. CASE Tcp!Disconnect
    <2>1. /\ UNCHANGED pc /\ Report /\ client' = FALSE /\ connected' = FALSE /\ failed' = TRUE
          /\ closer' = "stop" /\ stopped' = (client /\ current # NoHost)
          /\ disconnects < MaxDisconnects /\ disconnects' = disconnects + 1
        BY <1>11 DEF Report, Waiting, Tcp!Disconnect
    <2>2. Tells /\ Plain
        BY <2>1 DEF Tells, Plain
    <2> QED
        BY <2>1, <2>2, NotRefused DEF Flags
<1>12. CASE Tcp!CloserStep \/ Tcp!LibraryStep
    <2>1. /\ UNCHANGED <<pc, connected, failed, reported, client, stopped, disconnects>>
          /\ closer' \in {closer, "clear", "return", "idle"}
        BY <1>12
        DEF Tcp!CloserStep, Tcp!StopClient, Tcp!ClearPackets, Tcp!DisconnectReturns,
            Tcp!LibraryStep
    <2>2. Silent /\ Plain
        BY <2>1 DEF Silent, Plain
    <2> QED
        BY <2>1, <2>2, NotRefused DEF Flags
<1>13. ASSUME NEW l \in Loop, Tcp!Callback(l) PROVE Flags /\ Plain /\ RefusedAsSeen
    <2>1. UNCHANGED <<pc, client, closing>>
        BY <1>13
        DEF Tcp!Callback, Tcp!OnConnected, Tcp!OnDisconnected, Tcp!OnDisconnectedFails,
            Tcp!OnMessage
    <2>2. \/ UNCHANGED <<connected, failed, reported>>
          \/ connected' = TRUE /\ UNCHANGED <<failed, reported>>
          \/ connected' = FALSE /\ UNCHANGED failed /\ Report
          \/ failed' = TRUE /\ UNCHANGED connected /\ Report
        BY <1>13
        DEF Report, Waiting, Tcp!Callback, Tcp!OnConnected, Tcp!OnDisconnected,
            Tcp!OnDisconnectedFails, Tcp!OnMessage
    <2>3. Flags /\ Plain
        BY <2>1, <2>2 DEF Flags, Silent, Tells, Connects, Plain
    <2> QED
        BY <2>1, <2>3, NotRefused
<1>14. ASSUME NEW p \in Caller, Tcp!CloseOld(p) PROVE Flags /\ Plain /\ RefusedAsSeen
    <2>1. /\ pc[p] = "reconnect" /\ Goto(p, "opening") /\ UNCHANGED <<failed, reported>>
          /\ connected' = (connected /\ ~client) /\ UNCHANGED <<client, closing>>
        BY <1>14 DEF Goto, Tcp!CloseOld, Tcp!DisconnectInternal
    <2>2. "opening" \in Position \ {"idle", "asleep", "connecting"} /\ "opening" \in Waits
        BY DEF Position, Waits
    <2>3. ClosesOld(p) /\ Plain
        BY <2>1 DEF ClosesOld, Plain
    <2>4. RefusedAsSeen
        BY <2>1, <2>2, NotRefused
    <2> QED
        BY <2>3, <2>4 DEF Flags
<1> QED
    BY <1>1, <1>2, <1>3, <1>4, <1>5, <1>6, <1>7, <1>8, <1>9, <1>10, <1>11, <1>12, <1>13, <1>14
    DEF Tcp!Next, Tcp!LockedStep, Tcp!UnlockedStep, Tcp!Loop, Loop

LEMMA WebSocketFlags ==
    ASSUME CallerInv, packets \in Seq(Packet), WebSocket!Next
    PROVE  Flags /\ Plain /\ RefusedAsSeen
<1> USE DEF WebSocket!library, WebSocket!transport, WebSocket!callers, WebSocket!closing,
            WebSocket!Goto, WebSocket!Fail, WebSocket!Request, WebSocket!Report,
            WebSocket!Waiting
<1>t. pc \in [Caller -> Position]
    BY DEF CallerInv, CallTypes
<1>1. ASSUME NEW p \in Caller, NEW h \in Host \cup {NoHost}, WebSocket!Begin(p, h)
      PROVE  Flags /\ Plain /\ RefusedAsSeen
    <2>1. \E to \in {"receive", "check"} : Goto(p, to)
        BY <1>1 DEF WebSocket!Begin, Goto
    <2>2. UNCHANGED <<transport, closing, reported>> /\ pc[p] = "idle"
        BY <1>1 DEF WebSocket!Begin
    <2>3. Silent /\ Plain
        BY <2>1, <2>2 DEF Silent, Plain, Position, Waits
    <2>4. RefusedAsSeen
        BY <2>1, NotRefused DEF Position
    <2> QED
        BY <2>3, <2>4 DEF Flags
<1>2. ASSUME NEW p \in Caller,
             \/ WebSocket!FallAsleep(p) \/ WebSocket!ConnectionKept(p)
             \/ WebSocket!SendNothing(p) \/ WebSocket!Send(p) \/ WebSocket!SendFails(p)
             \/ WebSocket!WaitForMessage(p)
      PROVE  Flags /\ Plain /\ RefusedAsSeen
    <2>1. \E to \in Position \ {"idle"} :
              /\ pc[p] # "opening" /\ Goto(p, to)
              /\ pc[p] \in Waits => to \in Waits
              /\ to = "asleep" => pc[p] = "connecting" /\ ~connected
              /\ to = "connecting" => connected
        BY <1>2
        DEF Goto, Position, Waits, WebSocket!FallAsleep, WebSocket!ConnectionKept,
            WebSocket!SendNothing, WebSocket!Send, WebSocket!SendFails,
            WebSocket!WaitForMessage
    <2>2. UNCHANGED <<transport, closing, reported>>
        BY <1>2
        DEF WebSocket!FallAsleep, WebSocket!ConnectionKept, WebSocket!SendNothing,
            WebSocket!Send, WebSocket!SendFails, WebSocket!WaitForMessage
    <2>3. Silent /\ Plain
        BY <2>1, <2>2 DEF Silent, Plain
    <2>4. RefusedAsSeen
        BY <2>1, NotRefused
    <2> QED
        BY <2>3, <2>4 DEF Flags
<1>3. ASSUME NEW p \in Caller, WebSocket!Check(p) PROVE Flags /\ Plain /\ RefusedAsSeen
    <2>1. pc[p] = "check" /\ Goto(p, "reconnect") /\ UNCHANGED <<closing, reported>>
        BY <1>3 DEF Goto, WebSocket!Check
    <2>2. \/ UNCHANGED transport
          \/ client' = TRUE /\ connected' = FALSE /\ failed' = FALSE
        BY <1>3 DEF WebSocket!Check
    <2>3. "reconnect" \in Position \ {"idle"} /\ "reconnect" \in Waits /\ "check" \notin Waits
        BY DEF Position, Waits
    <2>4. Plain
        BY <2>1, <2>2 DEF Plain
    <2>5. RefusedAsSeen
        BY <2>1, <2>3, NotRefused
    <2>6. CASE UNCHANGED transport
        <3>1. UNCHANGED <<connected, failed, reported>>
            BY <2>1, <2>6
        <3>2. Silent
            BY <2>1, <2>3, <3>1 DEF Silent
        <3> QED
            BY <2>4, <2>5, <3>2 DEF Flags
    <2>7. CASE failed' = FALSE
        <3>1. reported' = reported /\ pc[p] \notin Waits
            BY <2>1, <2>3
        <3>2. StartsAnew(p)
            BY <2>1, <2>3, <2>7, <3>1 DEF StartsAnew
        <3> QED
            BY <2>4, <2>5, <3>2 DEF Flags
    <2> QED
        BY <2>2, <2>6, <2>7
<1>4. ASSUME NEW p \in Caller,
             \/ WebSocket!KeepConnection(p) \/ WebSocket!ConnectionSeen(p)
             \/ WebSocket!ConnectionDetected(p)
      PROVE  Flags /\ Plain /\ RefusedAsSeen
    <2>1. \E to \in {"connecting", "connected", "detected"} :
              Goto(p, to) /\ (to = "connecting" => connected)
        BY <1>4
        DEF Goto, WebSocket!KeepConnection, WebSocket!NeedsConnection,
            WebSocket!ConnectionSeen, WebSocket!ConnectionDetected
    <2>2. pc[p] # "opening" /\ UNCHANGED <<transport, closing>> /\ reported' = reported \ {p}
        BY <1>4
        DEF WebSocket!KeepConnection, WebSocket!ConnectionSeen, WebSocket!ConnectionDetected
    <2>3. Looks(p) /\ Plain
        BY <2>1, <2>2 DEF Looks, Plain, Position
    <2>4. RefusedAsSeen
        BY <2>1, NotRefused DEF Position
    <2> QED
        BY <2>3, <2>4 DEF Flags
<1>5. ASSUME NEW p \in Caller, WebSocket!ClientMutexFree, WebSocket!ConnectionFailed(p)
      PROVE  Flags /\ Plain /\ RefusedAsSeen
    <2>1. /\ FailureSeen(p) /\ pc[p] # "opening" /\ Goto(p, "idle")
          /\ UNCHANGED <<transport, closing>> /\ reported' = reported \ {p}
        BY <1>5 DEF FailureSeen, NoneOpening, Goto, WebSocket!ClientMutexFree,
                    WebSocket!ConnectionFailed
    <2>2. Looks(p) /\ Plain
        BY <2>1 DEF Looks, Plain, Position
    <2>3. RefusedAsSeen
        BY <2>1, <1>t DEF RefusedAsSeen, Goto
    <2> QED
        BY <2>2, <2>3 DEF Flags
<1>6. ASSUME NEW p \in Caller, WebSocket!Open(p) \/ WebSocket!OpenFails(p)
      PROVE  Flags /\ Plain /\ RefusedAsSeen
    <2>1. /\ failed' = FALSE /\ UNCHANGED <<client, connected, closing>>
          /\ \E to \in {"idle", "connecting"} : Goto(p, to)
          /\ reported' = reported \ {p}
        BY <1>6 DEF Goto, WebSocket!Open, WebSocket!OpenFails, WebSocket!PrepareToOpen
    <2>2. StartsAnew(p) /\ Plain
        BY <2>1 DEF StartsAnew, Plain, Position
    <2>3. Goto(p, "connecting") \/ (pc[p] # "idle" /\ Fail(p, "unopened"))
        BY <1>6 DEF Goto, Fail, WebSocket!Open, WebSocket!OpenFails
    <2>4. RefusedAsSeen
        BY <2>3, NotRefused DEF Position, Verdict
    <2> QED
        BY <2>2, <2>4 DEF Flags
<1>7. ASSUME NEW p \in Caller, WebSocket!NoClient(p) \/ WebSocket!ConnectTimeout(p)
      PROVE  Flags /\ Plain /\ RefusedAsSeen
    <2>1. /\ Fail(p, "timeout") \/ Fail(p, "failed")
          /\ reported' = reported \ {p} /\ UNCHANGED <<transport, closing>>
        BY <1>7 DEF Fail, Goto, WebSocket!NoClient, WebSocket!ConnectTimeout
    <2>2. pc[p] \notin {"idle", "opening"}
        BY <1>7 DEF WebSocket!NoClient, WebSocket!ConnectTimeout
    <2>3. "idle" \in Position \ {"asleep", "connecting"}
          /\ {"timeout", "failed"} \subseteq Verdict \ {"open", "refused"}
        BY DEF Position, Verdict
    <2>4. Looks(p) /\ Plain
        BY <2>1, <2>2, <2>3 DEF Looks, Plain, Fail
    <2>5. RefusedAsSeen
        BY <2>1, <2>2, <2>3, NotRefused
    <2> QED
        BY <2>4, <2>5 DEF Flags
<1>8. ASSUME NEW p \in Caller, WebSocket!StoreDetected(p) PROVE Flags /\ Plain /\ RefusedAsSeen
    <2>1. /\ pc[p] = "detected" /\ connected' = TRUE /\ Goto(p, "connected")
          /\ UNCHANGED <<client, failed, closing, reported>>
        BY <1>8 DEF Goto, WebSocket!StoreDetected
    <2>2. Connects /\ Plain
        BY <2>1 DEF Connects, Plain
    <2>3. RefusedAsSeen
        BY <2>1, NotRefused DEF Position
    <2> QED
        BY <2>2, <2>3 DEF Flags
<1>9. ASSUME NEW p \in Caller,
             \/ WebSocket!ConnectionLost(p) \/ WebSocket!ClientGone(p)
             \/ WebSocket!NotConnected(p) \/ WebSocket!GiveUp(p) \/ WebSocket!Take(p)
      PROVE  Flags /\ Plain /\ RefusedAsSeen
    <2>1. /\ pc[p] \notin Waits \cup {"idle"} /\ Goto(p, "idle")
          /\ UNCHANGED <<transport, closing, reported>>
        BY <1>9
        DEF Waits, Goto, WebSocket!ConnectionLost, WebSocket!ClientGone,
            WebSocket!NotConnected, WebSocket!GiveUp, WebSocket!Take
    <2>2. Silent /\ Plain
        BY <2>1 DEF Silent, Plain, Position, Waits
    <2>3. Takes(p) \/ \E how \in Verdict \ {"open", "refused"} : Fail(p, how)
        BY <1>9
        DEF Takes, Pops, Fail, Goto, Verdict, WebSocket!ConnectionLost, WebSocket!ClientGone,
            WebSocket!NotConnected, WebSocket!GiveUp, WebSocket!Take, WebSocket!Popped
    <2>4. RefusedAsSeen
        BY <2>1, <2>3, NotRefused
    <2> QED
        BY <2>2, <2>4 DEF Flags
<1>10. ASSUME NEW p \in Caller, WebSocket!StoreSendFailed(p)
       PROVE  Flags /\ Plain /\ RefusedAsSeen
    <2>1. /\ pc[p] = "sendfailed" /\ Fail(p, "failed") /\ Report /\ connected' = FALSE
          /\ UNCHANGED <<client, failed, closing>>
        BY <1>10 DEF Fail, Goto, Report, Waiting, WebSocket!StoreSendFailed
    <2>2. "idle" \in Position \ {"asleep", "connecting"} /\ "sendfailed" \notin Waits
          /\ "failed" \in Verdict \ {"open", "refused"}
        BY DEF Position, Waits, Verdict
    <2>3. Tells /\ Plain
        BY <2>1, <2>2 DEF Tells, Plain, Fail
    <2>4. RefusedAsSeen
        BY <2>1, <2>2, NotRefused
    <2> QED
        BY <2>3, <2>4 DEF Flags
<1>11. CASE WebSocket!Disconnect
    <2>1. /\ UNCHANGED <<pc, stopped>> /\ Report
          /\ client' = FALSE /\ connected' = FALSE /\ failed' = TRUE /\ closer' = "clear"
          /\ disconnects < MaxDisconnects /\ disconnects' = disconnects + 1
        BY <1>11 DEF Report, Waiting, WebSocket!Disconnect
    <2>2. Tells /\ Plain
        BY <2>1 DEF Tells, Plain
    <2> QED
        BY <2>1, <2>2, NotRefused DEF Flags
<1>12. CASE WebSocket!CloserStep \/ WebSocket!LibraryStep
    <2>1. /\ UNCHANGED <<pc, connected, failed, reported, client, stopped, disconnects>>
          /\ closer' \in {closer, "clear", "return", "idle"}
        BY <1>12
        DEF WebSocket!CloserStep, WebSocket!ClearMessages, WebSocket!DisconnectReturns,
            WebSocket!LibraryStep
    <2>2. Silent /\ Plain
        BY <2>1 DEF Silent, Plain
    <2> QED
        BY <2>1, <2>2, NotRefused DEF Flags
<1>13. ASSUME NEW l \in Loop, WebSocket!Callback(l) PROVE Flags /\ Plain /\ RefusedAsSeen
    <2>1. UNCHANGED <<pc, client, closing>>
        BY <1>13
        DEF WebSocket!Callback, WebSocket!OnOpen, WebSocket!OnOpenTestsClient,
            WebSocket!OnOpenReadsClient, WebSocket!OnClose, WebSocket!OnCloseFails,
            WebSocket!OnMessage
    <2>2. \/ UNCHANGED <<connected, failed, reported>>
          \/ connected' = TRUE /\ UNCHANGED <<failed, reported>>
          \/ connected' = FALSE /\ UNCHANGED failed /\ Report
          \/ failed' = TRUE /\ UNCHANGED connected /\ Report
        BY <1>13
        DEF Report, Waiting, WebSocket!Callback, WebSocket!OnOpen,
            WebSocket!OnOpenTestsClient, WebSocket!OnOpenReadsClient, WebSocket!OnClose,
            WebSocket!OnCloseFails, WebSocket!OnMessage
    <2>3. Flags /\ Plain
        BY <2>1, <2>2 DEF Flags, Silent, Tells, Connects, Plain
    <2> QED
        BY <2>1, <2>3, NotRefused
<1>14. ASSUME NEW p \in Caller, WebSocket!ClearOld(p)
       PROVE  Flags /\ Plain /\ RefusedAsSeen
    <2>1. /\ pc[p] = "reconnect" /\ Goto(p, "opening")
          /\ UNCHANGED <<transport, closing, reported>>
        BY <1>14 DEF Goto, WebSocket!ClearOld
    <2>2. ClosesOld(p) /\ Plain
        BY <2>1 DEF ClosesOld, Plain
    <2>3. RefusedAsSeen
        BY <2>1, NotRefused DEF Position
    <2> QED
        BY <2>2, <2>3 DEF Flags
<1> QED
    BY <1>1, <1>2, <1>3, <1>4, <1>5, <1>6, <1>7, <1>8, <1>9, <1>10, <1>11, <1>12, <1>13, <1>14
    DEF WebSocket!Next, WebSocket!LockedStep, WebSocket!UnlockedStep, WebSocket!Loop, Loop

-----------------------------------------------------------------------------
(* The inductive invariant of the two transports, and of all of them.      *)
ClientInv ==
    /\ CallerInv /\ LibraryInv /\ OneOpens /\ Gone /\ Fresh /\ Peers /\ InStep
    /\ Members /\ FailureReported

LEMMA ClientTypes == ClientInv => TypeOK
BY DEF ClientInv, CallerInv, CallTypes, CallsHeld, Busy, Position, LibraryInv, Members, TypeOK

LEMMA ClientInit == Begun => ClientInv
<1> SUFFICES ASSUME Begun PROVE ClientInv
    OBVIOUS
<1> USE DEF Begun
<1>e. /\ <<>> \in Seq(Call) /\ <<>> \in Seq(Packet) /\ <<>> \in Seq(Event) /\ <<>> \in Seq(Nat)
      /\ <<>> \in Seq(NumberedEvent) /\ <<>> \in Seq(NumberedPacket) /\ <<>> \in Seq(Nat \ {0})
    BY EmptySeq
<1>1. CallerInv
    <2>1. pc \in [Caller -> Position] /\ call \in [Caller -> 0 .. Len(calls)]
        BY DEF Position
    <2>2. Len(calls) <= MaxCalls /\ calls \in Seq(Call)
        BY <1>e, CallsAssumption
    <2>3. \A p \in Caller : ~Busy(p) /\ pc[p] \notin BeforeSend
        BY DEF Busy, BeforeSend, Opened
    <2> QED
        BY <2>1, <2>2, <2>3 DEF CallerInv, CallTypes, CallsHeld, AloneIsLast, Unsent
<1>i. /\ channel = [no |-> 0, peer |-> NoHost, status |-> "none", wire |-> <<>>]
      /\ inbox = <<>> /\ running = [l \in Loop |-> Idle]
    BY DEF LibraryInit, NoChannel
<1>l. Idle \in NumberedEvent /\ Idle \in Event
    BY DEF Idle, EventOf, Event, NumberedEvent
<1>2. LibraryInv
    <2>1. channel \in Channel /\ ~Alive
        BY <1>e, <1>i DEF Channel, Alive
    <2>2. running \in [Loop -> Event]
        BY <1>i, <1>l
    <2> QED
        BY <1>e, <1>i, <2>1, <2>2 DEF LibraryInv, LibraryType
<1>3. OneOpens /\ Gone
    BY <1>i DEF OneOpens, Gone, Loop
<1>4. Fresh /\ AnswersInStep /\ RightPeer
    BY DEF Fresh, FreshAnswers, AnswersInStep, RightPeer
<1>5. Peers
    <2>1. ~Alive
        BY <1>i DEF Alive
    <2> QED
        BY <1>4, <2>1 DEF Peers, Opened
<1>6. InStep
    <2>1. Numbered
        BY <1>e, <1>i, <1>l DEF Numbered
    <2>2. \A a, k, n : n # 0 => ~Holds(a, k, n)
        BY <1>i DEF Holds, Idle, EventOf
    <2> QED
        BY <1>4, <2>1, <2>2 DEF InStep, AllSent, OnePlace, InOrder
<1>7. Members
    <2>1. client \in BOOLEAN /\ connected \in BOOLEAN /\ failed \in BOOLEAN /\ stopped \in BOOLEAN
        OBVIOUS
    <2>2. /\ closer \in {"idle", "stop", "clear", "return"}
          /\ disconnects \in 0 .. MaxDisconnects
          /\ reported \subseteq Waiting
        BY DisconnectsAssumption
    <2> QED
        BY <2>1, <2>2 DEF Members
<1>8. FailureReported
    BY DEF FailureReported, FailureSeen
<1> QED
    BY <1>1, <1>2, <1>3, <1>4, <1>5, <1>6, <1>7, <1>8 DEF ClientInv

LEMMA ClientKept ==
    ASSUME ClientInv, Tcp!Next \/ WebSocket!Next
    PROVE  ClientInv' /\ RefusedAsSeen
<1>t. pc \in [Caller -> Position] /\ packets \in Seq(Packet) /\ channel \in Channel
    BY DEF ClientInv, CallerInv, CallTypes, LibraryInv, LibraryType
<1>1. Effect
    BY TcpEffect, WebSocketEffect
<1>2. Flags /\ Plain /\ RefusedAsSeen
    BY <1>t, TcpFlags, WebSocketFlags DEF ClientInv
<1>3. CallerInv'
    BY <1>t, <1>1, EffectOnCallers, CallersKept DEF ClientInv
<1>4. LibraryInv' /\ OneOpens' /\ Gone' /\ Fresh' /\ Peers' /\ InStep'
    BY <1>1, LibraryKept, OneOpensKept, GoneKept, FreshKept, PeersKept, InStepKept DEF ClientInv
<1>5. Members' /\ FailureReported'
    BY <1>t, <1>2, MembersKept DEF ClientInv
<1> QED
    BY <1>2, <1>3, <1>4, <1>5 DEF ClientInv

LEMMA ClientStays == ClientInv /\ UNCHANGED vars => ClientInv'
<1> SUFFICES ASSUME ClientInv, UNCHANGED vars PROVE ClientInv'
    OBVIOUS
<1>1. CallerInv'
    BY DEF ClientInv, CallerInv, CallTypes, CallsHeld, AloneIsLast, Unsent, Busy, Request
<1>2. LibraryInv' /\ OneOpens' /\ Gone'
    BY DEF ClientInv, LibraryInv, LibraryType, Alive, OneOpens, Gone
<1>3. Fresh'
    BY DEF ClientInv, Fresh, EmptiedFor, FreshAnswers
<1>4. Peers'
    BY DEF ClientInv, Peers, NoneUnopened, RightPeer, Alive, Request
<1>5. InStep'
    <2>1. \A a, k, n : Holds(a, k, n)' <=> Holds(a, k, n)
        BY DEF Holds
    <2>2. AllSent' /\ OnePlace'
        BY <2>1 DEF ClientInv, InStep, AllSent, OnePlace
    <2>3. InOrder'
        BY <2>1 DEF ClientInv, InStep, InOrder, AllAlone, GivenUp
    <2> QED
        BY <2>2, <2>3 DEF ClientInv, InStep, Numbered, AnswersInStep, GivenUp
<1>6. Members' /\ FailureReported'
    BY DEF ClientInv, Members, Waiting, FailureReported, FailureSeen, NoneOpening
<1> QED
    BY <1>1, <1>2, <1>3, <1>4, <1>5, <1>6 DEF ClientInv

-----------------------------------------------------------------------------
(* All four transports keep their invariants, whichever is in use, for any *)
(* callers, peers, timeouts and bounds: TcpTransport.cpp,                  *)
(* WebSocketTransport.cpp, HttpTransport.cpp.                              *)
TransportsInv == ClientInv /\ HttpInv

LEMMA InitiallyInv == Init => TransportsInv
<1> SUFFICES ASSUME Init PROVE TransportsInv
    OBVIOUS
<1>1. Begun
    BY DEF Init, Begun, LibraryInit, NoChannel, Idle, EventOf, Loop,
           Tcp!Init, Tcp!Begun, Tcp!LibraryInit, Tcp!NoChannel, Tcp!Idle, Tcp!EventOf, Tcp!Loop,
           WebSocket!Init, WebSocket!Begun, WebSocket!LibraryInit, WebSocket!NoChannel,
           WebSocket!Idle, WebSocket!EventOf, WebSocket!Loop
<1> QED
    BY <1>1, ClientInit, HttpInit DEF Init, TransportsInv

(* A step keeps the invariant, and refuses only who has been told why.     *)
LEMMA InvKept ==
    ASSUME TransportsInv, [Next]_<<vars, httpVars, kind>>
    PROVE  /\ TransportsInv'
           /\ \A p \in Caller :
                  pc[p] # "idle" /\ pc'[p] = "idle" /\ calls'[call[p]].verdict = "refused"
                      => p \in reported
<1>1. HttpInv'
    <2>1. [Http!Next]_httpVars
        BY DEF Next
    <2> QED
        BY <2>1, HttpInvKept DEF TransportsInv
<1>2. CASE Tcp!Next \/ WebSocket!Next
    BY <1>1, <1>2, ClientKept DEF TransportsInv, ClientInv, RefusedAsSeen, FailureReported
<1>3. CASE UNCHANGED vars
    BY <1>1, <1>3, ClientStays DEF TransportsInv
<1> QED
    BY <1>2, <1>3 DEF Next

THEOREM TransportsInvariant == Spec => []TransportsInv
<1>1. TransportsInv /\ [Next]_<<vars, httpVars, kind>> => TransportsInv'
    BY InvKept
<1> QED
    BY <1>1, InitiallyInv, PTL DEF Spec

(* Every member of the four classes keeps its type, and a call that has    *)
(* ended is an ended call.                                                 *)
THEOREM TransportsTypes == Spec => []TypesOK
<1>1. TransportsInv => TypesOK
    BY ClientTypes DEF TransportsInv, HttpInv, TypesOK
<1> QED
    BY <1>1, TransportsInvariant, PTL

(* TcpTransport and WebSocketTransport: a request no other call overlaps   *)
(* goes to the peer its URL names, ...                                     *)
THEOREM RequestsReachTheirPeer == Spec => []RightPeer
<1>1. TransportsInv => RightPeer
    BY DEF TransportsInv, ClientInv, Peers
<1> QED
    BY <1>1, TransportsInvariant, PTL

(* ... no answer is handed out twice, and until calls overlap or a sent    *)
(* request is given up each gets its own, ...                              *)
THEOREM AnswersKeepStep == Spec => []AnswersInStep
<1>1. TransportsInv => AnswersInStep
    BY DEF TransportsInv, ClientInv, InStep
<1> QED
    BY <1>1, TransportsInvariant, PTL

(* ... what was in the queue when it was emptied answers nothing, ...      *)
THEOREM AnswersAreFresh == Spec => []FreshAnswers
<1>1. TransportsInv => FreshAnswers
    BY DEF TransportsInv, ClientInv, Fresh
<1> QED
    BY <1>1, TransportsInvariant, PTL

(* ... once disconnect() has returned no callback of the client runs, ...  *)
THEOREM DisconnectLeavesNothing == Spec => []NothingRunsAfterDisconnect
<1>1. TransportsInv => NothingRunsAfterDisconnect
    BY NothingRuns DEF TransportsInv, ClientInv
<1> QED
    BY <1>1, TransportsInvariant, PTL

(* ... and a call is refused only if it has been told of a failure since   *)
(* it last looked.                                                         *)
THEOREM RefusalsAreRecent == Spec => RefusalIsRecent
<1>1. TransportsInv /\ [Next]_<<vars, httpVars, kind>> =>
          [\A p \in Caller :
               pc[p] # "idle" /\ pc'[p] = "idle" /\ calls'[call[p]].verdict = "refused"
                   => p \in reported]_vars
    BY InvKept
<1> QED
    BY <1>1, TransportsInvariant, PTL DEF Spec, RefusalIsRecent

(* HttpTransport and HttpsTransport: a caller is told about the last       *)
(* request it sent as long as nobody has intervened, ...                   *)
THEOREM AnswersAreOwn == Spec => []AnswersOwnRequest
<1>1. TransportsInv => AnswersOwnRequest
    BY DEF TransportsInv, HttpInv
<1> QED
    BY <1>1, TransportsInvariant, PTL

(* ... a request keeps the settings it was made under, ...                 *)
THEOREM SettingsAreKept == Spec => []UnderItsSettings
<1>1. TransportsInv => UnderItsSettings
    BY DEF TransportsInv, HttpInv
<1> QED
    BY <1>1, TransportsInvariant, PTL

(* ... and is never given longer than the timeout asked for, nor a second  *)
(* less, unless that is more than 16 bits of seconds hold.                 *)
THEOREM TimeoutsAreHonoured == Spec => []TimeoutHonoured
<1>1. TransportsInv => TimeoutHonoured
    BY DEF TransportsInv, HttpInv
<1> QED
    BY <1>1, TransportsInvariant, PTL
===============================================================================
