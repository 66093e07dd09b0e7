---------------------------- MODULE ServicesProofs ----------------------------
(***************************************************************************)
(* Theorems about the three services of MCServices, each by itself and for *)
(* any values of its constants: by how much a queue may pass the limit of  *)
(* its FlowController, that a thread's ids increase, and that a token that *)
(* was revoked is accepted for the known reasons only.                     *)
(***************************************************************************)
EXTENDS MCServices, FiniteSetTheorems, TLAPS

(***************************************************************************)
(* FlowControl, for any finite sets of threads and any limits.             *)
(***************************************************************************)
Pushed == {p \in Producer : producing[p] = "pushed"}
Popped == {c \in Consumer : consuming[c] = "popped"}

(* The counters are behind the queue by what its users have yet to count.  *)
Accounts ==
    /\ pushCount + Cardinality(Pushed) = items + popped
    /\ popCount + Cardinality(Popped) = popped

(* The producers that have seen room, or may still see it, under a limit   *)
(* that is k higher: their look at the queue is on the way.                *)
MayPush(k) ==
    {p \in Producer :
        \/ producing[p] = "pushing"
        \/ producing[p] \in {"asking", "counted"} /\ guess[p] < highest + k
        \/ producing[p] = "sizing" /\ pushes[p] < popped + highest + k}

(* If they all push, the queue passes that limit by less than the number   *)
(* of producers.                                                           *)
RoomFor(k) == items + Cardinality(MayPush(k)) < highest + k + Cardinality(Producer)

FlowInv ==
    /\ FlowTypeOK
    /\ Accounts
    /\ maxQueueSize <= highest
    /\ Producer # {} => \A k \in Nat : RoomFor(k)

-----------------------------------------------------------------------------
LEMMA SmallerSet ==
    ASSUME NEW S, IsFiniteSet(S), NEW T, T \subseteq S
    PROVE  /\ IsFiniteSet(T)
           /\ Cardinality(T) \in Nat /\ Cardinality(S) \in Nat
           /\ Cardinality(T) <= Cardinality(S)
BY FS_Subset, FS_CardinalityType

LEMMA OneMore ==
    ASSUME NEW S, IsFiniteSet(S), NEW x, x \notin S, NEW T, T = S \cup {x}
    PROVE  /\ Cardinality(S) \in Nat
           /\ Cardinality(T) = Cardinality(S) + 1
BY FS_AddElement, FS_CardinalityType

LEMMA PartsOfWhole ==
    ASSUME NEW W, IsFiniteSet(W), NEW S, NEW T,
           S \subseteq W, T \subseteq W, S \cap T = {}
    PROVE  Cardinality(S) + Cardinality(T) <= Cardinality(W)
<1>1. IsFiniteSet(S) /\ IsFiniteSet(T)
    BY SmallerSet
<1>2. Cardinality(S \cup T) = Cardinality(S) + Cardinality(T) - Cardinality(S \cap T)
    BY <1>1, FS_Union
<1>3. Cardinality(S \cap T) = 0
    BY FS_EmptySet
<1>4. Cardinality(S \cup T) <= Cardinality(W)
    BY SmallerSet
<1> QED
    BY <1>1, <1>2, <1>3, <1>4, FS_CardinalityType

LEMMA Raised ==
    ASSUME NEW a \in Nat, NEW b \in Nat, a <= b
    PROVE  \E n \in Nat : b = a + n
<1>1. b - a \in Nat
    OBVIOUS
<1>2. b = a + (b - a)
    OBVIOUS
<1> QED
    BY <1>1, <1>2

LEMMA FiniteParts ==
    /\ IsFiniteSet(Pushed) /\ IsFiniteSet(Popped)
    /\ Cardinality(Pushed) \in Nat /\ Cardinality(Popped) \in Nat
    /\ Cardinality(Producer) \in Nat
    /\ \A k : IsFiniteSet(MayPush(k)) /\ Cardinality(MayPush(k)) \in Nat
<1>1. Pushed \subseteq Producer /\ Popped \subseteq Consumer
    BY DEF Pushed, Popped
<1>2. \A k : MayPush(k) \subseteq Producer
    BY DEF MayPush
<1> QED
    BY <1>1, <1>2, SmallerSet, ThreadsAssumption, FS_CardinalityType

-----------------------------------------------------------------------------
LEMMA FlowInvInit == FlowInit => FlowInv
<1> SUFFICES ASSUME FlowInit PROVE FlowInv
    OBVIOUS
<1>1. FlowTypeOK
    BY LimitsAssumption DEF FlowInit, FlowTypeOK
<1>2. Pushed = {} /\ Popped = {} /\ \A k \in Nat : MayPush(k) = {}
    BY DEF FlowInit, Pushed, Popped, MayPush
<1>3. Accounts
    BY <1>2, FS_EmptySet DEF FlowInit, Accounts
<1>4. maxQueueSize <= highest
    BY <1>1, LimitsAssumption DEF FlowInit, FlowTypeOK
<1>5. ASSUME Producer # {}, NEW k \in Nat PROVE RoomFor(k)
    <2>1. Cardinality(Producer) \in Nat /\ Cardinality(Producer) # 0
        BY <1>5, ThreadsAssumption, FS_EmptySet, FS_CardinalityType
    <2> QED
        BY <2>1, <1>1, <1>2, FS_EmptySet, LimitsAssumption DEF FlowInit, FlowTypeOK, RoomFor
<1> QED
    BY <1>1, <1>3, <1>4, <1>5 DEF FlowInv

LEMMA FlowTypes == FlowTypeOK /\ [FlowNext]_flowVars => FlowTypeOK'
<1> SUFFICES ASSUME FlowTypeOK, [FlowNext]_flowVars PROVE FlowTypeOK'
    OBVIOUS
<1> USE LimitsAssumption DEF FlowTypeOK
<1>1. ASSUME NEW p \in Producer, SizeLoadsPushes(p) \/ SizeLoadsPops(p) PROVE FlowTypeOK'
    <2>1. Difference(pushes[p], popCount) \in Nat
        BY DEF Difference
    <2> QED
        BY <1>1, <2>1 DEF SizeLoadsPushes, SizeLoadsPops, Produces, lockfree, controller, statistics
<1>2. ASSUME NEW p \in Producer, CountAttempt(p) PROVE FlowTypeOK'
    BY <1>2 DEF CountAttempt, Produces, lockfree, controller
<1>3. ASSUME NEW p \in Producer, Granted(p) \/ Refused(p) \/ CountDrop(p) \/ CountTotalDrop(p)
      PROVE  FlowTypeOK'
    BY <1>3 DEF Granted, Refused, CountDrop, CountTotalDrop, Produces, lockfree, controller,
                statistics
<1>4. ASSUME NEW p \in Producer, Push(p) \/ CountPush(p) PROVE FlowTypeOK'
    BY <1>4 DEF Push, CountPush, Produces, controller, statistics
<1>5. ASSUME NEW c \in Consumer, Pop(c) \/ CountPop(c) PROVE FlowTypeOK'
    BY <1>5 DEF Pop, CountPop, controller, statistics, producers
<1>6. CASE ResetDropCount
    BY <1>6 DEF ResetDropCount, lockfree, controller, producers
<1>7. CASE SetLimit
    BY <1>7 DEF SetLimit, lockfree, statistics, producers
<1>8. CASE UNCHANGED flowVars
    BY <1>8 DEF flowVars, lockfree, controller, statistics, producers
<1> QED
    BY <1>1, <1>2, <1>3, <1>4, <1>5, <1>6, <1>7, <1>8 DEF FlowNext

LEMMA AccountsKept ==
    FlowTypeOK /\ Accounts /\ [FlowNext]_flowVars => Accounts'
<1> SUFFICES ASSUME FlowTypeOK, Accounts, [FlowNext]_flowVars PROVE Accounts'
    OBVIOUS
<1>0. /\ items \in Nat /\ pushCount \in Nat /\ popCount \in Nat /\ popped \in Nat
      /\ IsFiniteSet(Pushed) /\ IsFiniteSet(Popped)
      /\ Cardinality(Pushed) \in Nat /\ Cardinality(Popped) \in Nat
    BY FiniteParts DEF FlowTypeOK
<1>1. ASSUME Pushed' = Pushed, Popped' = Popped, UNCHANGED lockfree PROVE Accounts'
    BY <1>1 DEF Accounts, lockfree
<1>2. ASSUME NEW p \in Producer, Push(p) PROVE Accounts'
    <2>1. p \notin Pushed /\ Pushed' = Pushed \cup {p} /\ Popped' = Popped
        BY <1>2 DEF Push, Produces, Pushed, Popped, FlowTypeOK
    <2>2. Cardinality(Pushed') = Cardinality(Pushed) + 1
        BY <2>1, <1>0, OneMore
    <2> QED
        BY <2>1, <2>2, <1>0, <1>2 DEF Push, Accounts
<1>3. ASSUME NEW p \in Producer, CountPush(p) PROVE Accounts'
    <2>1. p \in Pushed /\ Pushed' = Pushed \ {p} /\ Popped' = Popped
        BY <1>3 DEF CountPush, Produces, Pushed, Popped, FlowTypeOK
    <2>2. Cardinality(Pushed') = Cardinality(Pushed) - 1
        BY <2>1, <1>0, FS_RemoveElement
    <2> QED
        BY <2>1, <2>2, <1>0, <1>3 DEF CountPush, Accounts
<1>4. ASSUME NEW c \in Consumer, Pop(c) PROVE Accounts'
    <2>1. c \notin Popped /\ Popped' = Popped \cup {c} /\ Pushed' = Pushed
        BY <1>4 DEF Pop, Pushed, Popped, producers, FlowTypeOK
    <2>2. Cardinality(Popped') = Cardinality(Popped) + 1
        BY <2>1, <1>0, OneMore
    <2> QED
        BY <2>1, <2>2, <1>0, <1>4 DEF Pop, Accounts
<1>5. ASSUME NEW c \in Consumer, CountPop(c) PROVE Accounts'
    <2>1. c \in Popped /\ Popped' = Popped \ {c} /\ Pushed' = Pushed
        BY <1>5 DEF CountPop, Pushed, Popped, producers, FlowTypeOK
    <2>2. Cardinality(Popped') = Cardinality(Popped) - 1
        BY <2>1, <1>0, FS_RemoveElement
    <2> QED
        BY <2>1, <2>2, <1>0, <1>5 DEF CountPop, Accounts
<1>6. ASSUME NEW p \in Producer, SizeLoadsPushes(p) \/ SizeLoadsPops(p) \/ CountAttempt(p)
      PROVE  Accounts'
    BY <1>1, <1>6 DEF SizeLoadsPushes, SizeLoadsPops, CountAttempt, Produces, Pushed, Popped,
                      FlowTypeOK
<1>7. ASSUME NEW p \in Producer, Granted(p) \/ Refused(p) \/ CountDrop(p) \/ CountTotalDrop(p)
      PROVE  Accounts'
    BY <1>1, <1>7 DEF Granted, Refused, CountDrop, CountTotalDrop, Produces, Pushed, Popped,
                      FlowTypeOK
<1>8. CASE ResetDropCount \/ SetLimit \/ UNCHANGED flowVars
    BY <1>1, <1>8 DEF ResetDropCount, SetLimit, flowVars, producers, Pushed, Popped
<1> QED
    BY <1>2, <1>3, <1>4, <1>5, <1>6, <1>7, <1>8 DEF FlowNext

LEMMA LimitKnown ==
    FlowTypeOK /\ maxQueueSize <= highest /\ [FlowNext]_flowVars
        => maxQueueSize' <= highest' /\ highest <= highest'
<1> SUFFICES ASSUME FlowTypeOK, maxQueueSize <= highest, [FlowNext]_flowVars
             PROVE  maxQueueSize' <= highest' /\ highest <= highest'
    OBVIOUS
<1>1. CASE SetLimit
    BY <1>1, LimitsAssumption DEF SetLimit, FlowTypeOK
<1>2. CASE UNCHANGED controller
    BY <1>2, LimitsAssumption DEF controller, FlowTypeOK
<1> QED
    BY <1>1, <1>2 DEF FlowNext, flowVars, SizeLoadsPushes, SizeLoadsPops, CountAttempt, Granted,
        Refused, CountDrop, CountTotalDrop, Push, CountPush, Pop, CountPop, ResetDropCount

-----------------------------------------------------------------------------
(* The room for a limit that is k higher, after each kind of step.         *)
LEMMA RoomStep ==
    ASSUME FlowInv, [FlowNext]_flowVars, Producer # {}, NEW k \in Nat
    PROVE  RoomFor(k)'
<1> DEFINE Numbers == /\ items \in Nat /\ popped \in Nat /\ highest \in Nat
                      /\ maxQueueSize \in Nat /\ pushCount \in Nat /\ popCount \in Nat
<1>0. /\ Numbers /\ items' \in Nat /\ highest' \in Nat /\ FlowTypeOK
      /\ maxQueueSize <= highest /\ popCount <= popped
      /\ Cardinality(Pushed) \in Nat /\ Cardinality(Producer) \in Nat
      /\ \A n \in Nat : RoomFor(n) /\ IsFiniteSet(MayPush(n)) /\ Cardinality(MayPush(n)) \in Nat
    <2>1. FlowTypeOK /\ FlowTypeOK'
        BY FlowTypes DEF FlowInv
    <2>2. Numbers /\ items' \in Nat /\ highest' \in Nat
        BY <2>1, LimitsAssumption DEF FlowTypeOK
    <2> QED
        BY <2>1, <2>2, FiniteParts DEF FlowInv, Accounts
<1> HIDE DEF Numbers
<1>1. ASSUME MayPush(k)' \subseteq MayPush(k), items' = items, highest' = highest
      PROVE  RoomFor(k)'
    <2>1. /\ Cardinality(MayPush(k)') \in Nat
          /\ Cardinality(MayPush(k)') <= Cardinality(MayPush(k))
        BY <1>0, <1>1, SmallerSet
    <2>2. RoomFor(k)
        BY <1>0
    <2> QED
        BY <2>1, <2>2, <1>0, <1>1 DEF RoomFor, Numbers
(* Who begins to look sees at most what is in the queue and not counted.   *)
<1>2. ASSUME NEW p \in Producer, SizeLoadsPushes(p) PROVE RoomFor(k)'
    <2>1. CASE pushCount < popped + highest + k
        <3>1. MayPush(k)' \cap Pushed = {}
            BY <1>0, <1>2 DEF SizeLoadsPushes, Produces, MayPush, Pushed, FlowTypeOK
        <3>2. MayPush(k)' \subseteq Producer /\ Pushed \subseteq Producer
            BY DEF MayPush, Pushed
        <3>3. Cardinality(MayPush(k)') + Cardinality(Pushed) <= Cardinality(Producer)
            BY <3>1, <3>2, PartsOfWhole, ThreadsAssumption
        <3>4. Cardinality(MayPush(k)') \in Nat
            BY <3>2, SmallerSet, ThreadsAssumption
        <3>5. pushCount + Cardinality(Pushed) = items + popped
            BY DEF FlowInv, Accounts
        <3>6. items' = items /\ highest' = highest
            BY <1>2 DEF SizeLoadsPushes, lockfree, controller
        <3> QED
            BY <3>3, <3>4, <3>5, <3>6, <2>1, <1>0 DEF RoomFor, Numbers
    <2>2. CASE ~(pushCount < popped + highest + k)
        BY <2>2, <1>0, <1>1, <1>2
           DEF SizeLoadsPushes, Produces, MayPush, FlowTypeOK, lockfree, controller
    <2> QED
        BY <2>1, <2>2
<1>3. ASSUME NEW p \in Producer, SizeLoadsPops(p) PROVE RoomFor(k)'
    <2>1. /\ pushes[p] \in Nat
          /\ guess'[p] < highest + k => pushes[p] < popped + highest + k
        BY <1>0, <1>3 DEF SizeLoadsPops, Difference, FlowTypeOK, Numbers
    <2> QED
        BY <2>1, <1>0, <1>1, <1>3
           DEF SizeLoadsPops, Produces, MayPush, FlowTypeOK, lockfree, controller
<1>4. ASSUME NEW p \in Producer, CountAttempt(p) PROVE RoomFor(k)'
    BY <1>0, <1>1, <1>4
       DEF CountAttempt, Produces, MayPush, FlowTypeOK, lockfree, controller
<1>5. ASSUME NEW p \in Producer, Granted(p) PROVE RoomFor(k)'
    <2>1. guess[p] \in Nat /\ guess[p] < highest + k
        BY <1>0, <1>5 DEF Granted, CanPush, FlowTypeOK, Numbers
    <2> QED
        BY <2>1, <1>0, <1>1, <1>5
           DEF Granted, Produces, MayPush, FlowTypeOK, lockfree, controller
<1>6. ASSUME NEW p \in Producer, Refused(p) \/ CountDrop(p) PROVE RoomFor(k)'
    BY <1>0, <1>1, <1>6
       DEF Refused, CountDrop, Produces, MayPush, FlowTypeOK, lockfree, controller
<1>7. ASSUME NEW p \in Producer, CountTotalDrop(p) \/ CountPush(p) PROVE RoomFor(k)'
    BY <1>0, <1>1, <1>7
       DEF CountTotalDrop, CountPush, Produces, MayPush, FlowTypeOK, lockfree, controller
<1>8. ASSUME NEW p \in Producer, Push(p) PROVE RoomFor(k)'
    <2>1. p \in MayPush(k) /\ MayPush(k)' = MayPush(k) \ {p}
        BY <1>0, <1>8 DEF Push, Produces, MayPush, FlowTypeOK, controller
    <2>2. Cardinality(MayPush(k)') = Cardinality(MayPush(k)) - 1
        BY <2>1, <1>0, FS_RemoveElement
    <2>3. RoomFor(k) /\ items' = items + 1 /\ highest' = highest
        BY <1>0, <1>8 DEF Push, controller
    <2> QED
        BY <2>2, <2>3, <1>0 DEF RoomFor, Numbers
(* A pop makes room, and lets one more be seen.                            *)
<1>9. ASSUME NEW c \in Consumer, Pop(c) PROVE RoomFor(k)'
    <2>1. MayPush(k)' \subseteq MayPush(k + 1)
        BY <1>0, <1>9 DEF Pop, MayPush, FlowTypeOK, Numbers, producers, controller
    <2>2. /\ Cardinality(MayPush(k)') \in Nat
          /\ Cardinality(MayPush(k)') <= Cardinality(MayPush(k + 1))
        BY <2>1, <1>0, SmallerSet
    <2>3. RoomFor(k + 1) /\ items = items' + 1 /\ highest' = highest
        BY <1>0, <1>9 DEF Pop, Numbers, controller
    <2> QED
        BY <2>2, <2>3, <1>0 DEF RoomFor, Numbers
<1>10. ASSUME NEW c \in Consumer, CountPop(c) PROVE RoomFor(k)'
    BY <1>0, <1>1, <1>10 DEF CountPop, MayPush, producers, controller
<1>11. CASE ResetDropCount \/ UNCHANGED flowVars
    BY <1>0, <1>1, <1>11
       DEF ResetDropCount, flowVars, MayPush, producers, lockfree, controller
(* A limit raised by n is one that was n higher.                           *)
<1>12. CASE SetLimit
    <2>1. PICK n \in Nat : highest' = highest + n
        <3>1. highest <= highest'
            BY LimitKnown DEF FlowInv
        <3>2. highest \in Nat /\ highest' \in Nat
            BY <1>0 DEF Numbers
        <3> QED
            BY <3>1, <3>2, Raised
    <2>2. MayPush(k)' = MayPush(k + n)
        BY <2>1, <1>0, <1>12 DEF SetLimit, MayPush, FlowTypeOK, Numbers, producers, lockfree
    <2>3. RoomFor(k + n) /\ items' = items
        BY <2>1, <1>0, <1>12 DEF SetLimit, lockfree
    <2> QED
        BY <2>1, <2>2, <2>3, <1>0 DEF RoomFor, Numbers
<1> QED
    BY <1>2, <1>3, <1>4, <1>5, <1>6, <1>7, <1>8, <1>9, <1>10, <1>11, <1>12 DEF FlowNext

-----------------------------------------------------------------------------
LEMMA FlowInvNext == FlowInv /\ [FlowNext]_flowVars => FlowInv'
<1> SUFFICES ASSUME FlowInv, [FlowNext]_flowVars PROVE FlowInv'
    OBVIOUS
<1>1. FlowTypeOK'
    BY FlowTypes DEF FlowInv
<1>2. Accounts'
    BY AccountsKept DEF FlowInv
<1>3. maxQueueSize' <= highest'
    BY LimitKnown DEF FlowInv
<1>4. Producer # {} => \A k \in Nat : RoomFor(k)'
    BY RoomStep
<1> QED
    BY <1>1, <1>2, <1>3, <1>4 DEF FlowInv

(* The counters of LockfreeQueue differ from its contents by the           *)
(* increments under way, and room is kept for every producer that may      *)
(* still push because of an older look at the queue.                       *)
THEOREM QueueAccountedFor == FlowSpec => []FlowInv
BY FlowInvInit, FlowInvNext, PTL DEF FlowSpec

(* Whatever the producers, consumers and limits, FlowController lets a     *)
(* queue pass the highest limit that was set by no more than one element   *)
(* for each producer but the first.                                        *)
THEOREM OverrunStaysBounded == FlowSpec => []OverrunBounded
<1>1. FlowInv => OverrunBounded
    <2> SUFFICES ASSUME FlowInv, Producer # {}
                 PROVE  items <= highest + Cardinality(Producer) - 1
        BY DEF OverrunBounded
    <2>1. RoomFor(0)
        BY DEF FlowInv
    <2> QED
        BY <2>1, FiniteParts, LimitsAssumption DEF RoomFor, FlowInv, FlowTypeOK
<1> QED
    BY <1>1, QueueAccountedFor, PTL

-----------------------------------------------------------------------------
(***************************************************************************)
(* Snowflake, for any threads, hashes, clocks and lengths of the sequence. *)
(***************************************************************************)
(* What a generator remembers of the last id, as long as nothing excuses   *)
(* it: the id itself, or while it waits for the next millisecond only the  *)
(* time; and the clock has not fallen behind that.                         *)
RemembersLast(t) ==
    /\ ~HasGenerator(t) => last[t] = NoId /\ waits[t] = NotWaiting
    /\ HasGenerator(t) /\ ~excused[t] =>
        /\ clock >= generator[t].lastTime
        /\ last[t][1] = generator[t].lastTime
        /\ waits[t] = NotWaiting => last[t][2] = generator[t].sequence

SnowInv ==
    /\ SnowTypeOK
    /\ \A t \in Thread : RemembersLast(t)

-----------------------------------------------------------------------------
LEMMA GeneratorsDiffer == NoGenerator \notin Generator
BY DEF NoGenerator, Generator, Time

(* A generator, or one just made for a thread that had none.               *)
Made == [datacenter : 0 .. IdSpace - 1, worker : 0 .. IdSpace - 1,
         sequence : 0 .. MaxSequence, lastTime : Time \cup {-1}]

LEMMA GeneratorMade ==
    ASSUME SnowTypeOK, NEW t \in Thread
    PROVE  /\ HasGenerator(t) => generator[t] \in Generator /\ generator[t] \in Made
           /\ LET g == GeneratorOf(t) IN ValidIds(g.datacenter, g.worker) => g \in Made
<1>1. HasGenerator(t) => generator[t] \in Generator /\ generator[t] \in Made
    BY DEF SnowTypeOK, HasGenerator, Generator, Made
<1>2. ASSUME ~HasGenerator(t) PROVE GeneratorOf(t) = NewGenerator(t)
    BY <1>2 DEF GeneratorOf
<1>3. LET g == NewGenerator(t) IN ValidIds(g.datacenter, g.worker) => g \in Made
    BY SequenceAssumption DEF NewGenerator, ValidIds, Made
<1> QED
    BY <1>1, <1>2, <1>3 DEF GeneratorOf

(* The step of one thread leaves the others alone. *)
LEMMA IssueStep ==
    ASSUME SnowInv, NEW t \in Thread, NEW g \in Made, NEW sequence \in 0 .. MaxSequence,
           Issues(t, g, clock, sequence), UNCHANGED <<clock, hostHash, custom>>,
           asked' \in [Thread -> 0 .. MaxIds]
    PROVE  SnowInv'
<1> USE DEF SnowInv
<1> DEFINE h == [g EXCEPT !.sequence = sequence, !.lastTime = clock]
<1>1. h \in Generator /\ h.lastTime = clock /\ h.sequence = sequence
    BY DEF Generator, Made, SnowTypeOK
<1>2. SnowTypeOK'
    <2>1. generator' \in [Thread -> Generator \cup {NoGenerator}]
        BY <1>1 DEF Issues, SnowTypeOK
    <2>2. last' \in [Thread -> (Time \cup {-1}) \X (0 .. MaxSequence)]
        BY DEF Issues, SnowTypeOK
    <2>3. waits' \in [Thread -> {NotWaiting} \cup 0 .. MaxWait - 1]
        BY DEF Issues, SnowTypeOK
    <2>4. excused' \in [Thread -> BOOLEAN]
        BY DEF Issues, SnowTypeOK
    <2>5. issued' \in [Thread -> Nat]
        BY DEF Issues, SnowTypeOK
    <2> QED
        BY <2>1, <2>2, <2>3, <2>4, <2>5 DEF SnowTypeOK
<1>3. RemembersLast(t)'
    <2>1. generator'[t] = h /\ last'[t] = <<clock, sequence>>
        BY DEF Issues, SnowTypeOK
    <2>2. generator'[t] # NoGenerator
        BY <2>1, <1>1, GeneratorsDiffer
    <2> HIDE DEF h
    <2> QED
        BY <2>1, <2>2, <1>1 DEF RemembersLast, HasGenerator, SnowTypeOK, Time
<1>4. ASSUME NEW u \in Thread, u # t PROVE RemembersLast(u)'
    BY <1>4 DEF Issues, SnowTypeOK, RemembersLast, HasGenerator
<1> QED
    BY <1>2, <1>3, <1>4

LEMMA SnowInvInit == SnowInit => SnowInv
<1> SUFFICES ASSUME SnowInit PROVE SnowInv
    OBVIOUS
<1>1. SnowTypeOK
    BY SequenceAssumption, WaitAssumption, BoundAssumption
       DEF SnowInit, SnowTypeOK, Time, NoId, NotWaiting
<1>2. \A t \in Thread : RemembersLast(t)
    BY DEF SnowInit, RemembersLast, HasGenerator
<1> QED
    BY <1>1, <1>2 DEF SnowInv

LEMMA AskTypes ==
    ASSUME SnowTypeOK, NEW t \in Thread, Asks(t)
    PROVE  asked' \in [Thread -> 0 .. MaxIds] /\ UNCHANGED <<clock, hostHash, custom>>
BY BoundAssumption DEF SnowTypeOK, Asks

LEMMA NextIdKeeps ==
    ASSUME SnowInv, NEW t \in Thread,
           NewMillisecond(t) \/ SameMillisecond(t) \/ WaitEnds(t)
    PROVE  SnowInv'
<1> USE DEF SnowInv
<1>1. CASE NewMillisecond(t)
    <2> DEFINE g == GeneratorOf(t)
    <2>1. g \in Made
        BY <1>1, GeneratorMade DEF NewMillisecond
    <2>2. Asks(t) /\ Issues(t, g, clock, 0)
        BY <1>1 DEF NewMillisecond
    <2> HIDE DEF g
    <2> QED
        BY <2>1, <2>2, AskTypes, IssueStep, SequenceAssumption
<1>2. CASE SameMillisecond(t)
    <2>1. generator[t] \in Made
        BY <1>2, GeneratorMade DEF SameMillisecond
    <2>2. generator[t].sequence + 1 \in 0 .. MaxSequence
        BY <2>1, <1>2, SequenceAssumption DEF SameMillisecond, Made
    <2>3. Asks(t) /\ Issues(t, generator[t], clock, generator[t].sequence + 1)
        BY <1>2 DEF SameMillisecond
    <2> QED
        BY <2>1, <2>2, <2>3, AskTypes, IssueStep
<1>3. CASE WaitEnds(t)
    <2>1. HasGenerator(t)
        BY <1>3 DEF WaitEnds, RemembersLast
    <2>2. generator[t] \in Made
        BY <2>1, GeneratorMade
    <2>3. asked' \in [Thread -> 0 .. MaxIds]
        BY <1>3 DEF WaitEnds, SnowTypeOK
    <2> QED
        BY <1>3, <2>2, <2>3, IssueStep, SequenceAssumption DEF WaitEnds
<1> QED
    BY <1>1, <1>2, <1>3

LEMMA WaitKeeps ==
    ASSUME SnowInv, NEW t \in Thread,
           SequenceUsedUp(t) \/ WaitFails(t) \/ WaitGoesOn(t) \/ Throws(t)
    PROVE  SnowInv'
<1> USE DEF SnowInv
<1>1. CASE SequenceUsedUp(t)
    <2> DEFINE h == [generator[t] EXCEPT !.sequence = 0]
    <2>1. HasGenerator(t) /\ generator[t] \in Generator
        BY <1>1, GeneratorMade DEF SequenceUsedUp
    <2>2. h \in Generator /\ h.lastTime = generator[t].lastTime
        BY <2>1, SequenceAssumption DEF Generator
    <2>3. generator'[t] = h /\ waits'[t] = 0
        BY <1>1 DEF SequenceUsedUp, snowHistory, SnowTypeOK
    <2>4. SnowTypeOK'
        <3>1. generator' \in [Thread -> Generator \cup {NoGenerator}]
            BY <1>1, <2>2 DEF SequenceUsedUp, snowHistory, SnowTypeOK
        <3>2. waits' \in [Thread -> {NotWaiting} \cup 0 .. MaxWait - 1]
            BY <1>1, WaitAssumption DEF SequenceUsedUp, snowHistory, SnowTypeOK
        <3> QED
            BY <3>1, <3>2, <1>1, AskTypes DEF SequenceUsedUp, snowHistory, SnowTypeOK
    <2>5. RemembersLast(t)'
        <3>1. generator'[t] # NoGenerator
            BY <2>2, <2>3, GeneratorsDiffer
        <3> HIDE DEF h
        <3> QED
            BY <3>1, <2>1, <2>2, <2>3, <1>1, AskTypes
               DEF SequenceUsedUp, snowHistory, RemembersLast, HasGenerator, NotWaiting
    <2>6. ASSUME NEW u \in Thread, u # t PROVE RemembersLast(u)'
        BY <2>6, <1>1, AskTypes
           DEF SequenceUsedUp, snowHistory, RemembersLast, HasGenerator, SnowTypeOK
    <2> QED
        BY <2>4, <2>5, <2>6
<1>2. CASE WaitFails(t)
    <2>1. SnowTypeOK'
        BY <1>2 DEF WaitFails, Returns0, SnowTypeOK
    <2>2. ASSUME NEW u \in Thread PROVE RemembersLast(u)'
        BY <2>2, <1>2 DEF WaitFails, Returns0, RemembersLast, HasGenerator, SnowTypeOK
    <2> QED
        BY <2>1, <2>2
<1>3. CASE WaitGoesOn(t)
    <2>1. waits[t] + 1 \in 0 .. MaxWait - 1
        BY <1>3, WaitAssumption DEF WaitGoesOn, snowHistory, SnowTypeOK, NotWaiting
    <2>2. SnowTypeOK'
        BY <2>1, <1>3 DEF WaitGoesOn, snowHistory, SnowTypeOK
    <2>3. ASSUME NEW u \in Thread PROVE RemembersLast(u)'
        BY <2>1, <2>3, <1>3, WaitAssumption
           DEF WaitGoesOn, snowHistory, RemembersLast, HasGenerator, SnowTypeOK, NotWaiting
    <2> QED
        BY <2>2, <2>3
<1>4. CASE Throws(t)
    <2>1. SnowTypeOK'
        BY <1>4, AskTypes DEF Throws, snowHistory, SnowTypeOK
    <2>2. \A u \in Thread : RemembersLast(u)'
        BY <1>4, AskTypes DEF Throws, snowHistory, RemembersLast, HasGenerator
    <2> QED
        BY <2>1, <2>2
<1> QED
    BY <1>1, <1>2, <1>3, <1>4

LEMMA SnowInvNext == SnowInv /\ [SnowNext]_snowVars => SnowInv'
<1> SUFFICES ASSUME SnowInv, [SnowNext]_snowVars PROVE SnowInv'
    OBVIOUS
<1>1. CASE InitSnowflake
    BY <1>1, HashAssumption
       DEF InitSnowflake, snowHistory, SnowInv, SnowTypeOK, RemembersLast, HasGenerator
<1>2. CASE Tick
    <2>1. SnowTypeOK'
        BY <1>2 DEF Tick, SnowInv, SnowTypeOK
    <2>2. ASSUME NEW t \in Thread PROVE RemembersLast(t)'
        <3>1. /\ clock \in Int /\ clock' \in Int
              /\ HasGenerator(t) => generator[t].lastTime \in Int
            BY <2>1, GeneratorMade DEF SnowInv, SnowTypeOK, Time, Generator
        <3> QED
            BY <3>1, <1>2 DEF Tick, SnowInv, RemembersLast, HasGenerator
    <2> QED
        BY <2>1, <2>2 DEF SnowInv
<1>3. CASE UNCHANGED snowVars
    BY <1>3 DEF snowVars, snowHistory, SnowInv, SnowTypeOK, RemembersLast, HasGenerator
<1> QED
    BY <1>1, <1>2, <1>3, NextIdKeeps, WaitKeeps DEF SnowNext

LEMMA NextIdIsAbove ==
    ASSUME SnowInv, [SnowNext]_snowVars, NEW t \in Thread,
           issued'[t] # issued[t], ~excused[t]
    PROVE  Before(last[t], last'[t])
<1> USE DEF SnowInv
<1>0. /\ last[t][1] \in Int /\ clock \in Int /\ clock >= 0
      /\ HasGenerator(t) => generator[t].lastTime \in Int /\ generator[t].sequence \in Int
    BY GeneratorMade DEF SnowTypeOK, Time, Generator
<1>1. CASE NewMillisecond(t)
    <2>1. last'[t] = <<clock, 0>> /\ clock # GeneratorOf(t).lastTime
        BY <1>1 DEF NewMillisecond, Issues, SnowTypeOK
    <2>2. last[t][1] < clock
        BY <2>1, <1>0, <1>1 DEF NewMillisecond, GeneratorOf, RemembersLast, NoId
    <2> QED
        BY <2>1, <2>2 DEF Before
<1>2. CASE SameMillisecond(t)
    <2>1. last'[t] = <<clock, generator[t].sequence + 1>>
        BY <1>2 DEF SameMillisecond, Issues, SnowTypeOK
    <2>2. last[t][1] = clock /\ last[t][2] = generator[t].sequence
        BY <1>2 DEF SameMillisecond, RemembersLast, Asks
    <2> QED
        BY <2>1, <2>2, <1>0, <1>2 DEF Before, SameMillisecond
<1>3. CASE WaitEnds(t)
    <2>1. last'[t] = <<clock, 0>> /\ clock > generator[t].lastTime
        BY <1>3 DEF WaitEnds, Issues, SnowTypeOK
    <2>2. last[t][1] = generator[t].lastTime
        BY <1>3 DEF WaitEnds, RemembersLast
    <2> QED
        BY <2>1, <2>2, <1>0 DEF Before
<1>4. ASSUME NEW u \in Thread, u # t,
             NewMillisecond(u) \/ SameMillisecond(u) \/ WaitEnds(u)
      PROVE  FALSE
    BY <1>4 DEF NewMillisecond, SameMillisecond, WaitEnds, Issues, SnowTypeOK
<1> QED
    BY <1>1, <1>2, <1>3, <1>4
       DEF SnowNext, Throws, SequenceUsedUp, WaitFails, Returns0, WaitGoesOn,
           InitSnowflake, Tick, snowVars, snowHistory

-----------------------------------------------------------------------------
(* Generators and the history keep their types, and a generator remembers  *)
(* its thread's last id unless that is excused.                            *)
THEOREM GeneratorsRemember == SnowSpec => []SnowInv
BY SnowInvInit, SnowInvNext, PTL DEF SnowSpec

(* For any number of threads, any clock and any length of the sequence,    *)
(* every id a thread is given is above the one it was given before, but    *)
(* for a call that returned 0 in between or a clock that was set back.     *)
THEOREM ThreadsIdsIncrease == SnowSpec => IdsIncrease
<1>1. SnowInv /\ [SnowNext]_snowVars
        => [\A t \in Thread :
              issued'[t] # issued[t] /\ ~excused[t] => Before(last[t], last'[t])]_snowVars
    BY NextIdIsAbove
<1> QED
    BY <1>1, GeneratorsRemember, PTL DEF SnowSpec, IdsIncrease

-----------------------------------------------------------------------------
(***************************************************************************)
(* RevocationList, for any tokens, verifiers, limits and lifetimes.        *)
(***************************************************************************)
(* Where a revoked token may be: in the list, or out of it because there   *)
(* was no room, because of a restart, or because it had expired.           *)
Excluded(t) == t \in blacklist \cup evicted \cup forgotten \cup lapsed

ListInv ==
    /\ ListTypeOK
    /\ \A t \in revoked : Signed(t) /\ Excluded(t)
    /\ \A v \in Verifier : revokedThen[v] => verifying[v] \in revoked

-----------------------------------------------------------------------------
LEMMA ListInvInit == ListInit => ListInv
<1> SUFFICES ASSUME ListInit PROVE ListInv
    OBVIOUS
<1>1. now \in 1 .. MaxNow /\ restarts \in 0 .. MaxRestarts
    BY BoundsAssumption DEF ListInit
<1>2. iat \in [Token -> Nat] /\ exp \in [Token -> Int]
    BY DEF ListInit
<1>3. verifying \in [Verifier -> Token \cup {NoToken}] /\ revokedThen \in [Verifier -> BOOLEAN]
    BY DEF ListInit
<1>4. ListTypeOK
    BY <1>1, <1>2, <1>3 DEF ListInit, ListTypeOK
<1> QED
    BY <1>4 DEF ListInit, ListInv

LEMMA SignKeeps ==
    ASSUME ListInv, NEW t \in Token, Sign(t)
    PROVE  ListInv'
<1>1. ListTypeOK'
    <2>1. now \in Nat /\ \A s \in Lifetimes : now + s \in Int
        BY LifetimesAssumption DEF ListInv, ListTypeOK
    <2>2. iat' \in [Token -> Nat] /\ exp' \in [Token -> Int]
        BY <2>1 DEF Sign, ListInv, ListTypeOK
    <2> QED
        BY <2>2 DEF Sign, settings, verifiers, listHistory, ListInv, ListTypeOK
<1>2. t \notin revoked
    BY DEF Sign, ListInv
<1>3. ASSUME NEW u \in revoked PROVE (Signed(u) /\ Excluded(u))'
    <2>1. u # t /\ exp'[u] = exp[u]
        BY <1>2, <1>3 DEF Sign, ListInv, ListTypeOK
    <2> QED
        BY <2>1 DEF Sign, listHistory, ListInv, Signed, Excluded
<1> QED
    BY <1>1, <1>3 DEF Sign, verifiers, listHistory, ListInv

LEMMA RevokeKeeps ==
    ASSUME ListInv, NEW t \in Token, Revoke(t)
    PROVE  ListInv'
<1>1. PICK out \in Evictable(blacklist \ Expired) :
        /\ blacklist' = ((blacklist \ Expired) \ out) \cup {t}
        /\ evicted' = (evicted \cup out) \ {t}
    BY DEF Revoke
<1>2. out \subseteq blacklist
    BY DEF Evictable
<1>3. ListTypeOK'
    <2>1. blacklist' \subseteq Token /\ evicted' \subseteq Token
        BY <1>1, <1>2 DEF ListInv, ListTypeOK
    <2>2. revoked' \subseteq Token /\ forgotten' \subseteq Token /\ stored' \subseteq Token
        BY DEF Revoke, ListInv, ListTypeOK
    <2>3. lapsed' \subseteq Token
        BY DEF Revoke, OutOfTime, ListInv, ListTypeOK
    <2> QED
        BY <2>1, <2>2, <2>3 DEF Revoke, settings, verifiers, ListInv, ListTypeOK
<1>4. ASSUME NEW u \in revoked' PROVE (Signed(u) /\ Excluded(u))'
    <2>1. CASE u = t
        BY <2>1, <1>1 DEF Revoke, Signed, Excluded
    <2>2. CASE u # t
        <3>1. u \in revoked /\ Signed(u) /\ Excluded(u)
            BY <2>2 DEF Revoke, ListInv
        <3>2. u \in blacklist \ Expired => u \in blacklist' \cup evicted'
            BY <2>2, <1>1
        <3>3. u \in Expired => u \in lapsed'
            BY <2>2 DEF Revoke, Expired, OutOfTime
        <3> QED
            BY <2>2, <3>1, <3>2, <3>3, <1>1 DEF Revoke, Signed, Excluded
    <2> QED
        BY <2>1, <2>2
<1>5. \A v \in Verifier : revokedThen'[v] => verifying'[v] \in revoked'
    BY DEF Revoke, verifiers, ListInv
<1> QED
    BY <1>3, <1>4, <1>5 DEF ListInv

LEMMA CleanupKeeps == ListInv /\ Cleanup => ListInv'
<1> SUFFICES ASSUME ListInv, Cleanup PROVE ListInv'
    OBVIOUS
<1>1. ListTypeOK'
    BY DEF Cleanup, Expired, OutOfTime, settings, verifiers, ListInv, ListTypeOK
<1>2. ASSUME NEW u \in revoked PROVE (Signed(u) /\ Excluded(u))'
    BY <1>2 DEF Cleanup, Expired, OutOfTime, ListInv, Signed, Excluded
<1> QED
    BY <1>1, <1>2 DEF Cleanup, verifiers, ListInv

LEMMA LoadKeeps == ListInv /\ LoadEntries => ListInv'
<1> SUFFICES ASSUME ListInv, LoadEntries PROVE ListInv'
    OBVIOUS
<1>1. ListTypeOK'
    BY DEF LoadEntries, settings, verifiers, ListInv, ListTypeOK
<1>2. ASSUME NEW u \in revoked PROVE (Signed(u) /\ Excluded(u))'
    BY <1>2 DEF LoadEntries, ListInv, Signed, Excluded
<1> QED
    BY <1>1, <1>2 DEF LoadEntries, verifiers, ListInv

LEMMA SetUpKeeps == ListInv /\ SetUp => ListInv'
<1> SUFFICES ASSUME ListInv, SetUp PROVE ListInv'
    OBVIOUS
<1>1. startTime' \in StartTimes \cup {0}
    BY DEF SetUp, ListInv, ListTypeOK
<1>2. maxEntries' \in MaxEntries \cup {DefaultEntries}
    BY DEF SetUp, ListInv, ListTypeOK
<1>3. persist' \in BOOLEAN
    BY DEF SetUp, ListInv, ListTypeOK
<1>4. ListTypeOK'
    BY <1>1, <1>2, <1>3 DEF SetUp, verifiers, listHistory, ListInv, ListTypeOK
<1> QED
    BY <1>4 DEF SetUp, verifiers, listHistory, ListInv, Signed, Excluded

LEMMA VerifyKeeps ==
    ASSUME ListInv, NEW v \in Verifier,
           (\E t \in Token : VerifyTimes(v, t)) \/ VerifyList(v)
    PROVE  ListInv'
<1>1. verifying' \in [Verifier -> Token \cup {NoToken}]
    BY DEF VerifyTimes, VerifyList, ListInv, ListTypeOK
<1>2. revokedThen' \in [Verifier -> BOOLEAN]
    <2>1. revokedThen \in [Verifier -> BOOLEAN]
        BY DEF ListInv, ListTypeOK
    <2>2. ASSUME NEW b \in BOOLEAN, revokedThen' = [revokedThen EXCEPT ![v] = b]
          PROVE  revokedThen' \in [Verifier -> BOOLEAN]
        BY <2>1, <2>2
    <2>3. ASSUME NEW t \in Token, VerifyTimes(v, t)
          PROVE  revokedThen' \in [Verifier -> BOOLEAN]
        <3>1. (t \in revoked) \in BOOLEAN
            OBVIOUS
        <3> QED
            BY <2>2, <2>3, <3>1 DEF VerifyTimes
    <2>4. CASE VerifyList(v)
        BY <2>2, <2>4 DEF VerifyList
    <2> QED
        BY <2>3, <2>4
<1>3. ListTypeOK'
    BY <1>1, <1>2 DEF VerifyTimes, VerifyList, settings, listHistory, ListInv, ListTypeOK
<1>4. \A u \in Verifier : revokedThen'[u] => verifying'[u] \in revoked'
    <2>1. /\ verifying \in [Verifier -> Token \cup {NoToken}] /\ revokedThen \in [Verifier -> BOOLEAN]
          /\ \A u \in Verifier : revokedThen[u] => verifying[u] \in revoked
        BY DEF ListInv, ListTypeOK
    <2>2. ASSUME NEW t \in Token, VerifyTimes(v, t)
          PROVE  \A u \in Verifier : revokedThen'[u] => verifying'[u] \in revoked'
        <3>1. /\ verifying' = [verifying EXCEPT ![v] = t] /\ revoked' = revoked
              /\ revokedThen' = [revokedThen EXCEPT ![v] = t \in revoked]
            BY <2>2 DEF VerifyTimes, listHistory
        <3> QED
            BY <2>1, <3>1
    <2>3. CASE VerifyList(v)
        <3>1. /\ verifying' = [verifying EXCEPT ![v] = NoToken] /\ revoked' = revoked
              /\ revokedThen' = [revokedThen EXCEPT ![v] = FALSE]
            BY <2>3 DEF VerifyList, listHistory
        <3> QED
            BY <2>1, <3>1
    <2> QED
        BY <2>2, <2>3
<1> QED
    BY <1>3, <1>4 DEF VerifyTimes, VerifyList, listHistory, ListInv, Signed, Excluded

LEMMA TimeKeeps == ListInv /\ SetClock => ListInv'
<1> SUFFICES ASSUME ListInv, SetClock PROVE ListInv'
    OBVIOUS
<1>1. now' \in 1 .. MaxNow
    BY DEF SetClock
<1>2. ListTypeOK'
    BY <1>1 DEF SetClock, settings, verifiers, listHistory, ListInv, ListTypeOK
<1>3. ASSUME NEW u \in revoked PROVE (Signed(u) /\ Excluded(u))'
    BY <1>3 DEF SetClock, listHistory, ListInv, Signed, Excluded
<1> QED
    BY <1>2, <1>3 DEF SetClock, verifiers, listHistory, ListInv

LEMMA RestartKeeps == ListInv /\ Restart => ListInv'
<1> SUFFICES ASSUME ListInv, Restart PROVE ListInv'
    OBVIOUS
<1>1. restarts' \in 0 .. MaxRestarts
    BY BoundsAssumption DEF Restart, ListInv, ListTypeOK
<1>2. verifying' \in [Verifier -> Token \cup {NoToken}] /\ revokedThen' \in [Verifier -> BOOLEAN]
    BY DEF Restart
<1>3. blacklist' \subseteq Token /\ forgotten' \subseteq Token
    BY DEF Restart, ListInv, ListTypeOK
<1>4. ListTypeOK'
    BY <1>1, <1>2, <1>3 DEF Restart, ListInv, ListTypeOK
<1>5. ASSUME NEW u \in revoked PROVE (Signed(u) /\ Excluded(u))'
    BY DEF Restart, ListInv, Signed, Excluded
<1> QED
    BY <1>4, <1>5 DEF Restart, ListInv

-----------------------------------------------------------------------------
LEMMA ListInvNext == ListInv /\ [ListNext]_listVars => ListInv'
<1>1. ListInv /\ UNCHANGED listVars => ListInv'
    BY DEF listVars, settings, verifiers, listHistory, ListInv, ListTypeOK, Signed, Excluded
<1> QED
    BY <1>1, SignKeeps, RevokeKeeps, CleanupKeeps, LoadKeeps, SetUpKeeps, VerifyKeeps,
       TimeKeeps, RestartKeeps DEF ListNext

(* The list and its history keep their types, and of each revoked token it *)
(* is known where it is.                                                   *)
THEOREM RevokedAccountedFor == ListSpec => []ListInv
BY ListInvInit, ListInvNext, PTL DEF ListSpec

(* For any number of tokens, verifiers, restarts and any limits, a token   *)
(* revoked before verify() began is accepted only if it had to leave the   *)
(* list for others, was lost in a restart, or had expired when it was      *)
(* taken from the list, whatever the clock has done before and since.      *)
THEOREM RevokedStayOut == ListSpec => []RevokedStaysOut
<1>1. ListInv => RevokedStaysOut
    BY DEF ListInv, RevokedStaysOut, Accepts, Excluded
<1> QED
    BY <1>1, RevokedAccountedFor, PTL

-----------------------------------------------------------------------------
(***************************************************************************)
(* The three together, as they are model-checked.                          *)
(***************************************************************************)

LEMMA ServicesInit == Init => FlowInit /\ SnowInit /\ ListInit
BY DEF Init

LEMMA ServicesNext == [Next]_<<flowVars, snowVars, listVars, kind>> =>
                          /\ [FlowNext]_flowVars /\ [SnowNext]_snowVars /\ [ListNext]_listVars
BY DEF Next

(* Each service behaves there as it does by itself, so that what is proved *)
(* of it holds of the model that is checked: the services share nothing.   *)
THEOREM ServicesShareNothing == Spec => FlowSpec /\ SnowSpec /\ ListSpec
BY ServicesInit, ServicesNext, PTL DEF Spec, FlowSpec, SnowSpec, ListSpec

(* The counters, ids and lists of all three keep their types.              *)
THEOREM ServicesTyped == Spec => []ServicesTypesOK
<1>1. FlowInv /\ SnowInv /\ ListInv => ServicesTypesOK
    BY DEF FlowInv, SnowInv, ListInv, ServicesTypesOK
<1> QED
    BY <1>1, ServicesShareNothing, QueueAccountedFor, GeneratorsRemember, RevokedAccountedFor, PTL
===============================================================================
