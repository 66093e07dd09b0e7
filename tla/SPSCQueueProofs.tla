---------------------------- MODULE SPSCQueueProofs ---------------------------
(***************************************************************************)
(* Theorems about SPSCQueue for every capacity, every set of items and any *)
(* number of calls: no slot is raced for, and the ring is a bounded FIFO.  *)
(***************************************************************************)
EXTENDS SPSCQueue, SequenceTheorems, TLAPS

USE DEF shared, counters, producer, consumer

(* What keeps the two threads apart.  A producer past its test for a full  *)
(* ring still has room, because the consumer only frees slots; a consumer  *)
(* past its test for an empty ring still has an item, because the producer *)
(* only adds; and the slot about to be published holds the pushed item.    *)
RoleInv ==
    /\ ppc \in {"write", "publish"} => Successor(writePos) # readPos
    /\ cpc \in {"read", "publish"} => readPos # writePos
    /\ ppc = "publish" => buffer[writePos] = pitem

IInv == TypeOK /\ RoleInv

LEMMA RingArithmetic ==
    /\ \A i \in Index : Successor(i) \in Index
    /\ 0 \in Index
BY CapacityAssumption DEF Index, Successor

LEMMA IInvInit == Init => IInv
BY RingArithmetic, CapacityAssumption DEF Init, IInv, TypeOK, RoleInv

LEMMA IInvProducer ==
    ASSUME IInv, Producer
    PROVE  IInv'
<1> USE CapacityAssumption, RingArithmetic DEF IInv, TypeOK, RoleInv, Index, Successor
<1>1. ASSUME NEW v \in Value, PushBegin(v)
      PROVE  IInv'
    BY <1>1 DEF PushBegin, PushBeginUnless
<1>2. CASE PushRefuse
    BY <1>2 DEF PushRefuse
<1>3. CASE PushWrite
    BY <1>3 DEF PushWrite
<1>4. CASE PushPublish
    BY <1>4 DEF PushPublish
<1>5. CASE PushCount
    BY <1>5 DEF PushCount
<1> QED
    BY <1>1, <1>2, <1>3, <1>4, <1>5 DEF Producer

LEMMA IInvConsumer ==
    ASSUME IInv, Consumer
    PROVE  IInv'
<1> USE CapacityAssumption, RingArithmetic DEF IInv, TypeOK, RoleInv, Index, Successor
<1>1. CASE PopBegin
    BY <1>1 DEF PopBegin
<1>2. CASE PopRead
    BY <1>2 DEF PopRead
<1>3. CASE PopPublish
    BY <1>3 DEF PopPublish
<1>4. CASE PopCount
    BY <1>4 DEF PopCount
<1> QED
    BY <1>1, <1>2, <1>3, <1>4 DEF Consumer

THEOREM InductiveInvariant == Spec => []IInv
<1>1. IInv /\ UNCHANGED vars => IInv'
    BY DEF IInv, TypeOK, RoleInv, vars
<1>2. IInv /\ [Next]_vars => IInv'
    BY <1>1, IInvProducer, IInvConsumer DEF Next
<1> QED
    BY <1>2, IInvInit, PTL DEF Spec

(* The queue's state and both threads' locals keep their types. *)
THEOREM TypeCorrect == Spec => []TypeOK
<1>1. IInv => TypeOK
    BY DEF IInv
<1> QED
    BY <1>1, InductiveInvariant, PTL

(* The producer never writes the slot the consumer is moving out of. *)
THEOREM SlotsAreNotRaced == Spec => []NoSlotRace
<1>1. IInv => NoSlotRace
    BY DEF IInv, RoleInv, NoSlotRace
<1> QED
    BY <1>1, InductiveInvariant, PTL

-----------------------------------------------------------------------------
(* How the number of items follows the two positions. *)
LEMMA OccupiedProperties ==
    ASSUME IInv
    PROVE  /\ Occupied \in 0 .. (Capacity - 1)
           /\ Occupied = 0 <=> readPos = writePos
           /\ Occupied = Capacity - 1 <=> Successor(writePos) = readPos
           /\ \A i \in 1 .. Occupied : SlotOf(i) \in Index /\ SlotOf(i) # writePos
           /\ \A i \in 2 .. Occupied : SlotOf(i) # readPos
           /\ SlotOf(1) = readPos
           /\ SlotOf(Occupied + 1) = writePos
BY CapacityAssumption DEF IInv, TypeOK, Index, Occupied, Successor, SlotOf

LEMMA OccupiedAfterPush ==
    ASSUME IInv, Successor(writePos) # readPos,
           writePos' = Successor(writePos), readPos' = readPos
    PROVE  /\ Occupied' = Occupied + 1
           /\ \A i \in Nat : SlotOf(i)' = SlotOf(i)
BY CapacityAssumption DEF IInv, TypeOK, Index, Occupied, Successor, SlotOf

LEMMA OccupiedAfterPop ==
    ASSUME IInv, readPos # writePos,
           readPos' = Successor(readPos), writePos' = writePos
    PROVE  /\ Occupied' = Occupied - 1
           /\ \A i \in 1 .. Occupied' : SlotOf(i)' = SlotOf(i + 1)
BY CapacityAssumption DEF IInv, TypeOK, Index, Occupied, Successor, SlotOf

LEMMA OccupiedUnchanged ==
    ASSUME UNCHANGED <<readPos, writePos>>
    PROVE  Occupied' = Occupied /\ \A i \in Nat : SlotOf(i)' = SlotOf(i)
BY DEF Occupied, SlotOf

(* The counters add up, whenever they are read. *)
THEOREM StatisticsAddUp == Spec => []CountersAgree
<1>1. Init => CountersAgree
    BY DEF Init, CountersAgree, Occupied
<1>2. IInv /\ CountersAgree /\ [Next]_vars => CountersAgree'
    <2> SUFFICES ASSUME IInv, CountersAgree, [Next]_vars
                 PROVE  CountersAgree'
        OBVIOUS
    <2>0. Occupied \in Nat /\ pushCount \in Nat /\ popCount \in Nat
        BY OccupiedProperties, CapacityAssumption DEF IInv, TypeOK
    <2>1. CASE PushPublish
        <3>1. Occupied' = Occupied + 1
            BY <2>1, OccupiedAfterPush DEF PushPublish, IInv, RoleInv
        <3> QED
            BY <2>0, <2>1, <3>1 DEF PushPublish, CountersAgree
    <2>2. CASE PopPublish
        <3>1. Occupied' = Occupied - 1
            BY <2>2, OccupiedAfterPop DEF PopPublish, IInv, RoleInv
        <3> QED
            BY <2>0, <2>2, <3>1 DEF PopPublish, CountersAgree
    <2>3. CASE UNCHANGED <<readPos, writePos>> /\ [Next]_vars
        <3>1. Occupied' = Occupied
            BY <2>3, OccupiedUnchanged
        <3>2. ASSUME NEW v \in Value, PushBegin(v)
              PROVE  CountersAgree'
            BY <2>0, <3>1, <3>2 DEF PushBegin, PushBeginUnless, CountersAgree
        <3>3. CASE PushRefuse \/ PushWrite \/ PushCount
            BY <2>0, <3>1, <3>3 DEF PushRefuse, PushWrite, PushCount, CountersAgree
        <3>4. CASE PopBegin \/ PopRead \/ PopCount
            BY <2>0, <3>1, <3>4 DEF PopBegin, PopRead, PopCount, CountersAgree
        <3>5. CASE UNCHANGED vars
            BY <3>1, <3>5 DEF vars, CountersAgree
        <3> QED
            BY <2>1, <2>2, <3>2, <3>3, <3>4, <3>5 DEF Next, Producer, Consumer
    <2>4. UNCHANGED <<readPos, writePos>> \/ PushPublish \/ PopPublish
        BY DEF Next, Producer, Consumer, vars, PushBegin, PushBeginUnless, PushRefuse,
               PushWrite, PushCount, PopBegin, PopRead, PopCount
    <2> QED
        BY <2>1, <2>2, <2>3, <2>4
<1> QED
    BY <1>1, <1>2, InductiveInvariant, PTL DEF Spec

-----------------------------------------------------------------------------
(* The refinement: each step of the ring is one step of the FIFO, or none. *)
Item(i) == IF i = 1 /\ cpc = "publish" THEN citem ELSE buffer[SlotOf(i)]

LEMMA AppendAsFunction ==
    ASSUME NEW S, NEW s \in Seq(S), NEW e \in S
    PROVE  Append(s, e) = [i \in 1 .. (Len(s) + 1) |-> IF i = Len(s) + 1 THEN e ELSE s[i]]
<1> DEFINE r == Append(s, e)
<1>1. r \in Seq(S) /\ Len(r) = Len(s) + 1
    BY AppendProperties
<1>2. \A i \in 1 .. (Len(s) + 1) : r[i] = IF i = Len(s) + 1 THEN e ELSE s[i]
    BY AppendProperties
<1>3. r \in [1 .. Len(r) -> S]
    BY <1>1, LenProperties
<1> QED
    BY <1>1, <1>2, <1>3

LEMMA TailAsFunction ==
    ASSUME NEW S, NEW s \in Seq(S), s # <<>>
    PROVE  Tail(s) = [i \in 1 .. (Len(s) - 1) |-> s[i + 1]]
<1> DEFINE r == Tail(s)
<1>1. r \in Seq(S) /\ Len(r) = Len(s) - 1 /\ Len(s) \in Nat
    BY HeadTailProperties
<1>2. \A i \in 1 .. (Len(s) - 1) : r[i] = s[i + 1]
    BY <1>1, HeadTailProperties
<1>3. r \in [1 .. Len(r) -> S]
    BY <1>1, LenProperties
<1> QED
    BY <1>1, <1>2, <1>3

LEMMA ContentsIsSequence ==
    ASSUME IInv
    PROVE  /\ Contents \in Seq(Value \cup {None})
           /\ Len(Contents) = Occupied
           /\ \A i \in 1 .. Occupied : Contents[i] = Item(i)
<1>1. \A i \in 1 .. Occupied : Item(i) \in Value \cup {None}
    BY OccupiedProperties DEF IInv, TypeOK, Item
<1>2. Contents = [i \in 1 .. Occupied |-> Item(i)]
    BY DEF Contents, Item
<1>3. Occupied \in Nat
    BY OccupiedProperties, CapacityAssumption
<1> QED
    BY <1>1, <1>2, <1>3

(* Contents stands still when its length and each of its items do. *)
LEMMA ContentsUnchanged ==
    ASSUME Occupied' = Occupied, \A i \in 1 .. Occupied : Item(i)' = Item(i)
    PROVE  Contents' = Contents
<1>1. Contents = [i \in 1 .. Occupied |-> Item(i)]
    BY DEF Contents, Item
<1>2. Contents' = [i \in 1 .. Occupied' |-> Item(i)']
    BY DEF Contents, Item
<1> QED
    BY <1>1, <1>2

LEMMA RefinesInit == Init => Fifo!Init
<1> SUFFICES ASSUME Init PROVE Fifo!Init
    OBVIOUS
<1>1. Occupied = 0
    BY DEF Init, Occupied
<1>2. Contents = <<>>
    BY <1>1 DEF Contents
<1> QED
    BY <1>2 DEF Init, Fifo!Init

LEMMA RefinesPushPublish ==
    ASSUME IInv, IInv', PushPublish
    PROVE  Fifo!Enqueue(pitem) /\ pitem \in Value
<1>1. /\ Successor(writePos) # readPos /\ buffer[writePos] = pitem /\ pitem \in Value
      /\ UNCHANGED <<buffer, cpc, citem, taken, dropCount, readPos>>
    BY DEF IInv, TypeOK, RoleInv, PushPublish
<1>2. /\ Occupied' = Occupied + 1 /\ Occupied \in Nat
      /\ \A i \in Nat : SlotOf(i)' = SlotOf(i)
    BY <1>1, OccupiedAfterPush, OccupiedProperties, CapacityAssumption DEF PushPublish
<1>3. Occupied < Capacity - 1
    BY <1>1, OccupiedProperties, CapacityAssumption
<1>4. \A i \in 1 .. Occupied : Item(i)' = Item(i)
    BY <1>1, <1>2 DEF Item
<1>5. PICK n \in Nat : n = Occupied + 1
    BY <1>2
<1>6. Item(n)' = pitem
    <2>1. SlotOf(n)' = writePos
        BY <1>2, <1>5, OccupiedProperties
    <2>2. n = 1 => cpc # "publish"
        BY <1>2, <1>5, OccupiedProperties DEF IInv, TypeOK, RoleInv
    <2> QED
        BY <1>1, <2>1, <2>2 DEF Item
<1>7. Contents' = Append(Contents, pitem)
    <2>1. Contents' = [i \in 1 .. n |-> Item(i)']
        BY <1>2, <1>5 DEF Contents, Item
    <2>2. Append(Contents, pitem) = [i \in 1 .. n |-> IF i = n THEN pitem ELSE Item(i)]
        <3>1. Append(Contents, pitem)
                = [i \in 1 .. n |-> IF i = n THEN pitem ELSE Contents[i]]
            BY <1>1, <1>5, ContentsIsSequence, AppendAsFunction
        <3>2. \A i \in 1 .. n : i # n => Contents[i] = Item(i)
            BY <1>2, <1>5, ContentsIsSequence
        <3> QED
            BY <3>1, <3>2
    <2>3. \A i \in 1 .. n : Item(i)' = IF i = n THEN pitem ELSE Item(i)
        BY <1>2, <1>4, <1>5, <1>6
    <2> QED
        BY <2>1, <2>2, <2>3
<1> QED
    BY <1>1, <1>3, <1>7, ContentsIsSequence DEF Fifo!Enqueue, PushPublish

LEMMA RefinesPopPublish ==
    ASSUME IInv, PopPublish
    PROVE  Fifo!Dequeue
<1>1. /\ readPos # writePos /\ cpc = "publish" /\ cpc' = "count" /\ taken' = citem
      /\ UNCHANGED <<buffer, writePos, dropCount, ppc>>
    BY DEF IInv, RoleInv, PopPublish
<1>2. /\ Occupied' = Occupied - 1 /\ Occupied \in Nat /\ Occupied # 0
      /\ \A i \in 1 .. Occupied' : SlotOf(i)' = SlotOf(i + 1)
    BY <1>1, OccupiedAfterPop, OccupiedProperties, CapacityAssumption DEF PopPublish
<1>3. /\ Contents \in Seq(Value \cup {None}) /\ Len(Contents) = Occupied
      /\ \A i \in 1 .. Occupied : Contents[i] = Item(i)
    BY ContentsIsSequence
<1>4. Contents # <<>> /\ Head(Contents) = citem
    BY <1>1, <1>2, <1>3 DEF Item
<1>5. Contents' = Tail(Contents)
    <2>1. Contents' = [i \in 1 .. Occupied' |-> Item(i)']
        BY DEF Contents, Item
    <2>2. Tail(Contents) = [i \in 1 .. (Occupied - 1) |-> Item(i + 1)]
        <3>1. Tail(Contents) = [i \in 1 .. (Occupied - 1) |-> Contents[i + 1]]
            BY <1>3, <1>4, TailAsFunction
        <3>2. \A i \in 1 .. (Occupied - 1) : Contents[i + 1] = Item(i + 1)
            BY <1>2, <1>3
        <3> QED
            BY <3>1, <3>2
    <2>3. \A i \in 1 .. Occupied' : Item(i)' = Item(i + 1)
        BY <1>1, <1>2 DEF Item
    <2> QED
        BY <1>2, <2>1, <2>2, <2>3
<1> QED
    BY <1>1, <1>4, <1>5 DEF Fifo!Dequeue

LEMMA RefinesRefusal ==
    ASSUME IInv, NEW v \in Value, PushBegin(v), Successor(writePos) = readPos
    PROVE  Fifo!Refuse
<1>1. UNCHANGED <<buffer, writePos, readPos, dropCount, cpc, citem, taken>>
    BY DEF PushBegin, PushBeginUnless
<1>2. ppc = "idle" /\ ppc' = "refuse" /\ dropCount \in Nat
    BY DEF PushBegin, PushBeginUnless, IInv, TypeOK
<1>3. Contents' = Contents
    BY <1>1 DEF Contents, Occupied, SlotOf
<1>4. Len(Contents) = Capacity - 1
    BY ContentsIsSequence, OccupiedProperties
<1> QED
    BY <1>1, <1>2, <1>3, <1>4 DEF Fifo!Refuse

(* Writing the free slot, and moving the oldest item out of its slot, do   *)
(* not show in the contents.                                               *)
LEMMA StuttersOnSlotAccess ==
    ASSUME IInv, PushWrite \/ PopRead
    PROVE  UNCHANGED <<Contents, taken, dropCount, ppc = "refuse">>
<1>1. UNCHANGED <<readPos, writePos, taken, dropCount, ppc = "refuse">>
    BY DEF PushWrite, PopRead
<1>2. Occupied' = Occupied /\ \A i \in Nat : SlotOf(i)' = SlotOf(i)
    BY <1>1, OccupiedUnchanged
<1>3. ASSUME NEW i \in 1 .. Occupied
      PROVE  Item(i)' = Item(i)
    <2>0. i \in Nat /\ SlotOf(i)' = SlotOf(i) /\ SlotOf(i) \in Index
        BY <1>2, OccupiedProperties
    <2>1. CASE PushWrite
        <3>1. SlotOf(i) # writePos /\ buffer' = [buffer EXCEPT ![writePos] = pitem]
            BY <2>1, OccupiedProperties DEF PushWrite
        <3> QED
            BY <2>0, <2>1, <3>1 DEF IInv, TypeOK, PushWrite, Item
    <2>2. CASE PopRead /\ i = 1
        BY <2>0, <2>2, OccupiedProperties DEF PopRead, Item
    <2>3. CASE PopRead /\ i # 1
        <3>1. SlotOf(i) # readPos /\ buffer' = [buffer EXCEPT ![readPos] = None]
            BY <2>3, OccupiedProperties, CapacityAssumption DEF PopRead
        <3> QED
            BY <2>0, <2>3, <3>1 DEF IInv, TypeOK, PopRead, Item
    <2> QED
        BY <2>1, <2>2, <2>3
<1> QED
    BY <1>1, <1>2, <1>3, ContentsUnchanged

(* The ring is a bounded FIFO of Capacity - 1 places, for every capacity   *)
(* and every interleaving of the producer and the consumer.                *)
THEOREM RingImplementsFifo == Spec => ImplementsFifo
<1>1. IInv /\ IInv' /\ [Next]_vars => [Fifo!Next]_(Fifo!fifoVars)
    <2> SUFFICES ASSUME IInv, IInv', [Next]_vars
                 PROVE  Fifo!Next \/ UNCHANGED Fifo!fifoVars
        OBVIOUS
    <2> USE DEF Fifo!fifoVars
    <2>1. CASE PushPublish
        BY <2>1, RefinesPushPublish DEF Fifo!Next
    <2>2. CASE PopPublish
        BY <2>2, RefinesPopPublish DEF Fifo!Next
    <2>3. ASSUME NEW v \in Value, PushBegin(v)
          PROVE  Fifo!Next \/ UNCHANGED Fifo!fifoVars
        <3>1. CASE Successor(writePos) = readPos
            BY <2>3, <3>1, RefinesRefusal DEF Fifo!Next
        <3>2. CASE Successor(writePos) # readPos
            BY <2>3, <3>2 DEF PushBegin, PushBeginUnless, Contents, Occupied, SlotOf
        <3> QED
            BY <3>1, <3>2
    <2>4. CASE PushRefuse
        <3>1. UNCHANGED <<Contents, taken>>
            BY <2>4 DEF PushRefuse, Contents, Occupied, SlotOf
        <3>2. UNCHANGED (dropCount + (IF ppc = "refuse" THEN 1 ELSE 0))
            BY <2>4 DEF PushRefuse, IInv, TypeOK
        <3> QED
            BY <3>1, <3>2
    <2>5. CASE PushWrite \/ PopRead
        BY <2>5, StuttersOnSlotAccess
    <2>6. CASE PushCount
        BY <2>6 DEF PushCount, Contents, Occupied, SlotOf
    <2>7. CASE PopBegin \/ PopCount
        BY <2>7 DEF PopBegin, PopCount, Contents, Occupied, SlotOf
    <2>8. CASE UNCHANGED vars
        BY <2>8 DEF vars, Contents, Occupied, SlotOf
    <2> QED
        BY <2>1, <2>2, <2>3, <2>4, <2>5, <2>6, <2>7, <2>8 DEF Next, Producer, Consumer
<1> QED
    BY <1>1, RefinesInit, InductiveInvariant, PTL DEF Spec, ImplementsFifo, Fifo!Spec
===============================================================================
