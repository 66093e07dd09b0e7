------------------------------- MODULE Snowflake ------------------------------
(***************************************************************************)
(* IdUtil::generateSnowflakeId(): every thread has a SnowflakeGenerator of *)
(* its own, made when it asks for its first id.                            *)
(*                                                                         *)
(* A step of a thread is a reading of the system clock and what follows up *)
(* to the next one.  The clock is external: it advances, and may be set    *)
(* back.  An id is the triple the bits are put together from.              *)
(***************************************************************************)
EXTENDS Integers, Sequences

CONSTANTS
    Thread,
    MaxSequence,  \* MAX_SEQUENCE
    MaxWait,      \* MAX_WAIT_COUNT
    IdSpace,      \* 32, the number of datacenter ids and of worker ids
    HostHashes,   \* what getHostMacHash() may return, negative values included
    ThreadHash,   \* the hash of each thread's id
    CustomIds,    \* pairs initSnowflake() may be called with
    MaxTime,      \* bound: the latest time
    MaxIds        \* bound: calls of each thread

ASSUME SequenceAssumption == MaxSequence \in Nat \ {0}
ASSUME WaitAssumption == MaxWait \in Nat \ {0}
ASSUME IdSpaceAssumption == IdSpace \in Nat \ {0}
ASSUME BoundAssumption == MaxTime \in Nat /\ MaxIds \in Nat
ASSUME HashAssumption ==
    HostHashes \subseteq Int /\ ThreadHash \in [Thread -> Nat] /\ CustomIds \subseteq Int \X Int

VARIABLES
    clock,      \* the system clock
    hostHash,   \* of this host
    custom,     \* s_customDatacenterId, s_customWorkerId
    generator,  \* each thread's: none, or its ids; m_sequence, m_lastTimestamp
    waits,      \* readings in the loop that waits for the next millisecond, or
                \* NotWaiting
    last,       \* the last id of each thread, as <<time, sequence>> (history)
    excused,    \* since then a call of the thread has returned 0, or the clock
                \* was set back (history)
    issued,     \* ids each thread was given (history)
    asked       \* calls each thread has made

snowHistory == <<last, excused, issued>>
snowVars == <<clock, hostHash, custom, generator, waits, snowHistory, asked>>

NotWaiting == -1
NoGenerator == [datacenter |-> -1, worker |-> -1, sequence |-> 0, lastTime |-> -1]
NoId == <<-1, 0>>
Time == 0 .. MaxTime
Generator == [datacenter : 0 .. IdSpace - 1, worker : 0 .. IdSpace - 1,
              sequence : 0 .. MaxSequence, lastTime : Time]

SnowInit ==
    /\ clock = 0
    /\ hostHash \in HostHashes
    /\ custom = <<-1, -1>>
    /\ generator = [t \in Thread |-> NoGenerator]
    /\ waits = [t \in Thread |-> NotWaiting]
    /\ last = [t \in Thread |-> NoId]
    /\ excused = [t \in Thread |-> FALSE]
    /\ issued = [t \in Thread |-> 0]
    /\ asked = [t \in Thread |-> 0]

-----------------------------------------------------------------------------
(* The remainder of int64_t in C++ has the sign of the dividend. *)
Remainder(n, d) == IF n >= 0 THEN n % d ELSE -((-n) % d)

(* getHostMacHash(): the host's name and its first hardware address, as a  *)
(* number of 64 bits that is taken to have a sign.                         *)
HostMacHash == hostHash

DatacenterId == IF custom[1] >= 0 THEN custom[1] % IdSpace ELSE Remainder(HostMacHash, IdSpace)
WorkerId(t) == IF custom[2] >= 0 THEN custom[2] % IdSpace ELSE ThreadHash[t] % IdSpace

\* Deliberate fault: the constructor does not check its arguments.
AnyId(dc, worker) == TRUE

(* What the constructor lets pass; it throws otherwise. *)
ValidIds(dc, worker) == dc \in 0 .. IdSpace - 1 /\ worker \in 0 .. IdSpace - 1

NewGenerator(t) ==
    [datacenter |-> DatacenterId, worker |-> WorkerId(t), sequence |-> 0, lastTime |-> -1]

HasGenerator(t) == generator[t] # NoGenerator
GeneratorOf(t) == IF HasGenerator(t) THEN generator[t] ELSE NewGenerator(t)

Asks(t) ==
    /\ waits[t] = NotWaiting
    /\ asked[t] < MaxIds
    /\ asked' = [asked EXCEPT ![t] = @ + 1]
    /\ UNCHANGED <<clock, hostHash, custom>>

(* An exception leaves the thread without a generator. *)
Throws(t) ==
    /\ Asks(t)
    /\ ~HasGenerator(t) /\ ~ValidIds(DatacenterId, WorkerId(t))
    /\ UNCHANGED <<generator, waits, snowHistory>>

Issues(t, g, time, sequence) ==
    /\ generator' = [generator EXCEPT ![t] = [g EXCEPT !.sequence = sequence, !.lastTime = time]]
    /\ waits' = [waits EXCEPT ![t] = NotWaiting]
    /\ last' = [last EXCEPT ![t] = <<time, sequence>>]
    /\ excused' = [excused EXCEPT ![t] = FALSE]
    /\ issued' = [issued EXCEPT ![t] = @ + 1]

Returns0(t) ==
    /\ waits' = [waits EXCEPT ![t] = NotWaiting]
    /\ excused' = [excused EXCEPT ![t] = TRUE]
    /\ UNCHANGED <<generator, last, issued>>

(* nextId() in a millisecond of its own. *)
NewMillisecond(t) ==
    /\ Asks(t)
    /\ LET g == GeneratorOf(t)
       IN /\ ValidIds(g.datacenter, g.worker)
          /\ clock # g.lastTime
          /\ Issues(t, g, clock, 0)

\* Deliberate fault: the sequence is not counted up, so an id is repeated.
SequenceStays(t) ==
    /\ Asks(t)
    /\ HasGenerator(t) /\ clock = generator[t].lastTime
    /\ Issues(t, generator[t], clock, generator[t].sequence)

(* The same millisecond as last time. *)
SameMillisecond(t) ==
    /\ Asks(t)
    /\ HasGenerator(t) /\ clock = generator[t].lastTime
    /\ generator[t].sequence < MaxSequence
    /\ Issues(t, generator[t], clock, generator[t].sequence + 1)

(* The sequence is used up: it is 0 while the thread waits, and stays 0 if *)
(* it gives up.                                                            *)
SequenceUsedUp(t) ==
    /\ Asks(t)
    /\ HasGenerator(t) /\ clock = generator[t].lastTime
    /\ generator[t].sequence = MaxSequence
    /\ generator' = [generator EXCEPT ![t].sequence = 0]
    /\ waits' = [waits EXCEPT ![t] = 0]
    /\ UNCHANGED snowHistory

(* The waiting: a reading of the clock, which ends it if the next          *)
(* millisecond has begun, ...                                              *)
WaitEnds(t) ==
    /\ waits[t] # NotWaiting
    /\ clock > generator[t].lastTime
    /\ Issues(t, generator[t], clock, 0)
    /\ UNCHANGED <<clock, hostHash, custom, asked>>

(* ... or if the clock was set back, or it was the last of MaxWait; there  *)
(* is no pause between two of them.                                        *)
WaitFails(t) ==
    /\ waits[t] # NotWaiting
    /\ \/ clock < generator[t].lastTime
       \/ clock = generator[t].lastTime /\ waits[t] + 1 = MaxWait
    /\ Returns0(t)
    /\ UNCHANGED <<clock, hostHash, custom, asked>>

WaitGoesOn(t) ==
    /\ waits[t] # NotWaiting
    /\ clock = generator[t].lastTime /\ waits[t] + 1 < MaxWait
    /\ waits' = [waits EXCEPT ![t] = @ + 1]
    /\ UNCHANGED <<clock, hostHash, custom, generator, snowHistory, asked>>

-----------------------------------------------------------------------------
InitSnowflake ==
    /\ custom' \in CustomIds
    /\ UNCHANGED <<clock, hostHash, generator, waits, snowHistory, asked>>

(* The clock goes on, or is set back. *)
Tick ==
    /\ clock' \in Time
    /\ clock' # clock
    /\ excused' = IF clock' > clock THEN excused ELSE [t \in Thread |-> TRUE]
    /\ UNCHANGED <<hostHash, custom, generator, waits, last, issued, asked>>

SnowNext ==
    \/ \E t \in Thread :
        \/ Throws(t) \/ NewMillisecond(t) \/ SameMillisecond(t) \/ SequenceUsedUp(t)
        \/ WaitEnds(t) \/ WaitFails(t) \/ WaitGoesOn(t)
    \/ InitSnowflake \/ Tick

SnowSpec == SnowInit /\ [][SnowNext]_snowVars

-----------------------------------------------------------------------------
(* Types: a generator that exists has ids the constructor accepts.         *)
SnowTypeOK ==
    /\ clock \in Time
    /\ hostHash \in HostHashes
    /\ custom \in Int \X Int
    /\ generator \in [Thread -> Generator \cup {NoGenerator}]
    /\ waits \in [Thread -> {NotWaiting} \cup 0 .. MaxWait - 1]
    /\ last \in [Thread -> (Time \cup {-1}) \X (0 .. MaxSequence)]
    /\ excused \in [Thread -> BOOLEAN]
    /\ issued \in [Thread -> Nat]
    /\ asked \in [Thread -> 0 .. MaxIds]

Before(a, b) == a[1] < b[1] \/ (a[1] = b[1] /\ a[2] < b[2])

(* Every id a thread is given is above the one it was given before, also   *)
(* across the end of a millisecond's sequence: it is not the same and not  *)
(* an older one.  Excused are a call that returned 0 in between, for then  *)
(* the sequence starts again in the same millisecond and ids are repeated, *)
(* and a clock that was set back.                                          *)
IdsIncrease ==
    [][\A t \in Thread :
        issued'[t] # issued[t] /\ ~excused[t] => Before(last[t], last'[t])]_snowVars
===============================================================================
