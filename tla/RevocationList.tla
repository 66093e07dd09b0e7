---------------------------- MODULE RevocationList ----------------------------
(***************************************************************************)
(* The list of revoked tokens JwtUtil keeps, as revoke(), cleanup() and    *)
(* loadEntries() change it and verify() asks it, and what a restart leaves *)
(* of it: the entries a persistence callback has stored.                   *)
(*                                                                         *)
(* A critical section of s_blacklistMutex is a step.  verify() looks at    *)
(* the times of a token in one step and at the list in another.  Signing   *)
(* and encoding are left out: a token is one sign() has made.              *)
(***************************************************************************)
EXTENDS Integers, FiniteSets

CONSTANTS
    Token, NoToken,
    Verifier,       \* threads in verify()
    Lifetimes,      \* values of expireSeconds
    MaxEntries,     \* values of s_maxEntries, not positive ones for no limit
    DefaultEntries, \* the value it starts with
    StartTimes,     \* values of setStartTimeSeconds(), not positive ones for none
    MaxNow,         \* bound: seconds
    MaxRestarts     \* bound

ASSUME TokenAssumption == NoToken \notin Token
ASSUME LifetimesAssumption == Lifetimes \subseteq Int
ASSUME StartTimesAssumption == StartTimes \subseteq Int
ASSUME BoundsAssumption == MaxNow \in Nat \ {0} /\ MaxRestarts \in Nat

VARIABLES
    now,          \* nowSeconds(), the system clock
    iat, exp,     \* of each token, 0 before it is signed
    blacklist,    \* the tokens in s_blacklist
    maxEntries, persist, startTime, \* the other static members
    stored,       \* entries the callback has made persistent
    verifying,    \* the token each verifier has come half way with
    revokedThen,  \* it had been revoked before (history)
    revoked,      \* tokens revoke() has returned for (history)
    evicted,      \* those that had to leave the list before they expired (history)
    forgotten,    \* those lost in a restart and not loaded again (history)
    lapsed,       \* those that left the list because they had expired (history)
    restarts

settings == <<maxEntries, persist, startTime>>
verifiers == <<verifying, revokedThen>>
listHistory == <<revoked, evicted, forgotten, lapsed>>
listVars == <<now, iat, exp, blacklist, settings, stored, verifiers, listHistory, restarts>>

Signed(t) == exp[t] # 0

\* The time is never 0, and as a start time 0 is none.
ListInit ==
    /\ now = 1
    /\ iat = [t \in Token |-> 0] /\ exp = [t \in Token |-> 0]
    /\ blacklist = {}
    /\ maxEntries = DefaultEntries /\ persist = FALSE /\ startTime = 0
    /\ stored = {}
    /\ verifying = [v \in Verifier |-> NoToken]
    /\ revokedThen = [v \in Verifier |-> FALSE]
    /\ revoked = {} /\ evicted = {} /\ forgotten = {} /\ lapsed = {}
    /\ restarts = 0

-----------------------------------------------------------------------------
Sign(t) ==
    /\ ~Signed(t)
    /\ iat' = [iat EXCEPT ![t] = now]
    /\ \E s \in Lifetimes : exp' = [exp EXCEPT ![t] = now + s]
    /\ UNCHANGED <<now, blacklist, settings, stored, verifiers, listHistory, restarts>>

\* Deliberate fault: an entry is dropped a second too early.
ExpiredEarly == {t \in blacklist : exp[t] <= now + 1}

Expired == {t \in blacklist : exp[t] <= now}

\* Sets of entries that may be evicted from kept to make room for one more: as
\* many as necessary, those that expire first.
Evictable(kept) ==
    LET surplus == IF maxEntries > 0 THEN Cardinality(kept) - maxEntries + 1 ELSE 0
    IN {out \in SUBSET kept :
          /\ Cardinality(out) = IF surplus > 0 THEN surplus ELSE 0
          /\ \A t \in out, u \in kept \ out : exp[t] <= exp[u]}

(* Those the history takes for expired, whatever revoke() and cleanup() do. *)
OutOfTime == {t \in blacklist : exp[t] <= now}

(* revoke(), whose callback may store the entry or throw.  Room is made    *)
(* also for a token that is in the list already.                           *)
Revoke(t) ==
    /\ Signed(t)
    /\ \E out \in Evictable(blacklist \ Expired) :
        /\ blacklist' = ((blacklist \ Expired) \ out) \cup {t}
        /\ evicted' = (evicted \cup out) \ {t}
    /\ revoked' = revoked \cup {t}
    /\ forgotten' = forgotten \ {t}
    /\ lapsed' = (lapsed \cup OutOfTime) \ {t}
    /\ stored' \in {stored} \cup (IF persist THEN {stored \cup {t}} ELSE {})
    /\ UNCHANGED <<now, iat, exp, settings, verifiers, restarts>>

Cleanup ==
    /\ Expired # {}
    /\ blacklist' = blacklist \ Expired
    /\ lapsed' = lapsed \cup OutOfTime
    /\ UNCHANGED <<now, iat, exp, settings, stored, verifiers, revoked, evicted, forgotten,
                   restarts>>

\* Deliberate fault: the limit is kept when entries are loaded.
LoadWithinLimit ==
    /\ stored # {}
    /\ \E taken \in SUBSET stored :
        /\ Cardinality(taken) <= maxEntries
        /\ blacklist' = blacklist \cup taken
    /\ evicted' = evicted \ stored
    /\ forgotten' = forgotten \ stored
    /\ lapsed' = lapsed \ stored
    /\ UNCHANGED <<now, iat, exp, settings, stored, verifiers, revoked, restarts>>

(* loadEntries() with what was stored, regardless of the limit. *)
LoadEntries ==
    /\ stored # {}
    /\ blacklist' = blacklist \cup stored
    /\ evicted' = evicted \ stored
    /\ forgotten' = forgotten \ stored
    /\ lapsed' = lapsed \ stored
    /\ UNCHANGED <<now, iat, exp, settings, stored, verifiers, revoked, restarts>>

(* setMaxEntries(), which removes nothing, setPersistCallback() and        *)
(* setStartTimeSeconds(), which takes any time, past or to come.            *)
SetUp ==
    /\ \/ maxEntries' \in MaxEntries /\ UNCHANGED <<persist, startTime>>
       \/ persist' \in BOOLEAN /\ UNCHANGED <<maxEntries, startTime>>
       \/ startTime' \in StartTimes /\ UNCHANGED <<maxEntries, persist>>
    /\ UNCHANGED <<now, iat, exp, blacklist, stored, verifiers, listHistory, restarts>>

-----------------------------------------------------------------------------
(* Restarting is to end the sessions of before, if the start time is set.  *)
SignedBeforeStart(t) == startTime > 0 /\ iat[t] > 0 /\ iat[t] < startTime

(* verify(): the token has not expired and is not from before the start... *)
VerifyTimes(v, t) ==
    /\ verifying[v] = NoToken
    /\ Signed(t) /\ now < exp[t]
    /\ ~SignedBeforeStart(t)
    /\ verifying' = [verifying EXCEPT ![v] = t]
    /\ revokedThen' = [revokedThen EXCEPT ![v] = t \in revoked]
    /\ UNCHANGED <<now, iat, exp, blacklist, settings, stored, listHistory, restarts>>

(* ... and is accepted if it is not in the list. *)
Accepts(v) == verifying[v] # NoToken /\ verifying[v] \notin blacklist

VerifyList(v) ==
    /\ verifying[v] # NoToken
    /\ verifying' = [verifying EXCEPT ![v] = NoToken]
    /\ revokedThen' = [revokedThen EXCEPT ![v] = FALSE]
    /\ UNCHANGED <<now, iat, exp, blacklist, settings, stored, listHistory, restarts>>

(* The clock goes on, or is set back. *)
SetClock ==
    /\ now' \in 1 .. MaxNow
    /\ now' # now
    /\ UNCHANGED <<iat, exp, blacklist, settings, stored, verifiers, listHistory, restarts>>

(* The process ends and is started again. *)
Restart ==
    /\ restarts < MaxRestarts /\ restarts' = restarts + 1
    /\ blacklist' = {}
    /\ maxEntries' = DefaultEntries /\ persist' = FALSE /\ startTime' = 0
    /\ verifying' = [v \in Verifier |-> NoToken]
    /\ revokedThen' = [v \in Verifier |-> FALSE]
    /\ forgotten' = forgotten \cup blacklist
    /\ UNCHANGED <<now, iat, exp, stored, revoked, evicted, lapsed>>

ListNext ==
    \/ \E t \in Token : Sign(t) \/ Revoke(t)
    \/ Cleanup \/ LoadEntries \/ SetUp
    \/ \E v \in Verifier : (\E t \in Token : VerifyTimes(v, t)) \/ VerifyList(v)
    \/ SetClock \/ Restart

ListSpec == ListInit /\ [][ListNext]_listVars

-----------------------------------------------------------------------------
(* Types of the list, the static members and the verifiers. *)
ListTypeOK ==
    /\ now \in 1 .. MaxNow
    /\ iat \in [Token -> Nat] /\ exp \in [Token -> Int]
    /\ blacklist \subseteq Token /\ stored \subseteq Token
    /\ maxEntries \in MaxEntries \cup {DefaultEntries}
    /\ persist \in BOOLEAN /\ startTime \in StartTimes \cup {0}
    /\ verifying \in [Verifier -> Token \cup {NoToken}]
    /\ revokedThen \in [Verifier -> BOOLEAN]
    /\ revoked \subseteq Token /\ evicted \subseteq Token
    /\ forgotten \subseteq Token /\ lapsed \subseteq Token
    /\ restarts \in 0 .. MaxRestarts

(* A token for which revoke() had returned when verify() began is accepted *)
(* only if it had to leave the list for others, if a restart has lost it   *)
(* since - not, if it was stored and the stored entries were loaded - or   *)
(* if it had expired when it was taken from the list: between the two      *)
(* looks verify() takes, or earlier and the clock has been set back.       *)
RevokedStaysOut ==
    \A v \in Verifier :
        Accepts(v) /\ revokedThen[v] => verifying[v] \in evicted \cup forgotten \cup lapsed
===============================================================================
