------------------------------ MODULE SPSCQueue -------------------------------
(***************************************************************************)
(* SPSCQueue<T>: a ring buffer shared without a lock by one thread that    *)
(* calls push() and one that calls pop().  A step is one access of a       *)
(* shared variable: a load or store of a position, a read or write of a    *)
(* slot, an update of a counter.  A thread's loads of its own position are *)
(* not steps, nobody else writes it.  The release store of a position and  *)
(* the acquire load that reads it order the slot accesses, so the steps    *)
(* interleave as written.                                                  *)
(*                                                                         *)
(* clear() is a loop of pop() calls by the consumer and so is covered.     *)
(***************************************************************************)
EXTENDS Integers, Sequences

CONSTANTS
    Value,      \* the items
    Capacity,   \* m_capacity
    MaxPushes,  \* bound: calls of push()
    None        \* no item: an unset local, a slot never written or moved from

ASSUME CapacityAssumption == Capacity \in Nat \ {0}
ASSUME MaxPushesAssumption == MaxPushes \in Nat
ASSUME NoneAssumption == None \notin Value

VARIABLES
    buffer,                           \* m_buffer
    writePos, readPos,                \* m_writePos, m_readPos
    pushCount, popCount, dropCount,   \* m_pushCount, m_popCount, m_dropCount
    ppc, pitem,   \* producer: position in push(), its argument
    cpc, citem,   \* consumer: position in pop(), the item moved out so far
    taken         \* what the last successful pop() returned (history)

shared == <<buffer, writePos, readPos>>
counters == <<pushCount, popCount, dropCount>>
producer == <<ppc, pitem>>
consumer == <<cpc, citem, taken>>
vars == <<shared, counters, producer, consumer>>

Index == 0 .. (Capacity - 1)

(* Deliberate fault: the position is not masked. *)
SuccessorUnmasked(i) == i + 1

(* (i + 1) & m_mask: RingCapacity shows that the mask wraps like this. *)
Successor(i) == IF i + 1 = Capacity THEN 0 ELSE i + 1

(* The constructor; new T[m_capacity] holds nothing a client pushed. *)
Init ==
    /\ buffer = [i \in Index |-> None]
    /\ writePos = 0 /\ readPos = 0
    /\ pushCount = 0 /\ popCount = 0 /\ dropCount = 0
    /\ ppc = "idle" /\ pitem = None
    /\ cpc = "idle" /\ citem = None
    /\ taken = None

-----------------------------------------------------------------------------
(* push(item): m_readPos is loaded and the test for a full ring decided.   *)
PushBeginUnless(v, full) ==
    /\ ppc = "idle"
    /\ pushCount + dropCount < MaxPushes
    /\ pitem' = v
    /\ ppc' = IF full THEN "refuse" ELSE "write"
    /\ UNCHANGED <<shared, counters, consumer>>

(* Deliberate fault: the slot kept free to tell full from empty is used.   *)
PushBeginUsingAllSlots(v) == PushBeginUnless(v, FALSE)

PushBegin(v) == PushBeginUnless(v, Successor(writePos) = readPos)

(* Deliberate fault: a refused push is counted as a push as well.          *)
PushRefuseCounted ==
    /\ ppc = "refuse" /\ ppc' = "idle"
    /\ dropCount' = dropCount + 1
    /\ pushCount' = pushCount + 1
    /\ pitem' = None
    /\ UNCHANGED <<shared, popCount, consumer>>

(* return false *)
PushRefuse ==
    /\ ppc = "refuse" /\ ppc' = "idle"
    /\ dropCount' = dropCount + 1
    /\ pitem' = None
    /\ UNCHANGED <<shared, pushCount, popCount, consumer>>

(* m_buffer[currentWrite] = item *)
PushWrite ==
    /\ ppc = "write" /\ ppc' = "publish"
    /\ buffer' = [buffer EXCEPT ![writePos] = pitem]
    /\ UNCHANGED <<writePos, readPos, counters, pitem, consumer>>

PushPublish ==
    /\ ppc = "publish" /\ ppc' = "count"
    /\ writePos' = Successor(writePos)
    /\ UNCHANGED <<buffer, readPos, counters, pitem, consumer>>

PushCount ==
    /\ ppc = "count" /\ ppc' = "idle"
    /\ pushCount' = pushCount + 1
    /\ pitem' = None
    /\ UNCHANGED <<shared, popCount, dropCount, consumer>>

-----------------------------------------------------------------------------
(* Deliberate fault: the test for an empty ring is forgotten.              *)
PopBeginUnchecked ==
    /\ cpc = "idle" /\ cpc' = "read"
    /\ UNCHANGED <<shared, counters, producer, citem, taken>>

(* pop(item): m_writePos is loaded; an empty ring returns false at once,   *)
(* which changes nothing.                                                  *)
PopBegin ==
    /\ cpc = "idle" /\ cpc' = "read"
    /\ readPos # writePos
    /\ UNCHANGED <<shared, counters, producer, citem, taken>>

(* item = std::move(m_buffer[currentRead]) *)
PopRead ==
    /\ cpc = "read" /\ cpc' = "publish"
    /\ citem' = buffer[readPos]
    /\ buffer' = [buffer EXCEPT ![readPos] = None]
    /\ UNCHANGED <<writePos, readPos, counters, producer, taken>>

PopPublish ==
    /\ cpc = "publish" /\ cpc' = "count"
    /\ readPos' = Successor(readPos)
    /\ taken' = citem
    /\ citem' = None
    /\ UNCHANGED <<buffer, writePos, counters, producer>>

PopCount ==
    /\ cpc = "count" /\ cpc' = "idle"
    /\ popCount' = popCount + 1
    /\ UNCHANGED <<shared, pushCount, dropCount, producer, citem, taken>>

-----------------------------------------------------------------------------
Producer == (\E v \in Value : PushBegin(v)) \/ PushRefuse \/ PushWrite \/ PushPublish \/ PushCount
Consumer == PopBegin \/ PopRead \/ PopPublish \/ PopCount

Next == Producer \/ Consumer

Spec == Init /\ [][Next]_vars

-----------------------------------------------------------------------------
(* size(), when both positions are read at one moment. *)
Occupied ==
    IF writePos >= readPos THEN writePos - readPos ELSE (Capacity - readPos) + writePos

(* The slot of the i-th oldest item. *)
SlotOf(i) ==
    IF readPos + (i - 1) < Capacity THEN readPos + (i - 1) ELSE readPos + (i - 1) - Capacity

(* Type correctness of the queue's state and of both threads' locals. *)
TypeOK ==
    /\ buffer \in [Index -> Value \cup {None}]
    /\ writePos \in Index /\ readPos \in Index
    /\ pushCount \in Nat /\ popCount \in Nat /\ dropCount \in Nat
    /\ ppc \in {"idle", "refuse", "write", "publish", "count"}
    /\ pitem \in Value \cup {None}
    /\ ppc # "idle" => pitem \in Value
    /\ cpc \in {"idle", "read", "publish", "count"}
    /\ citem \in Value \cup {None}
    /\ taken \in Value \cup {None}

(* No data race on a slot: the producer never writes the slot from which   *)
(* the consumer is moving an item out, though neither takes a lock.        *)
NoSlotRace == ppc = "write" /\ cpc = "read" => writePos # readPos

(* The statistics add up at any moment: what was pushed was popped or is   *)
(* still inside, up to the increments that lag behind their position.      *)
CountersAgree ==
    pushCount + (IF ppc = "count" THEN 1 ELSE 0) =
        popCount + (IF cpc = "count" THEN 1 ELSE 0) + Occupied

(* The queue is a FIFO of Capacity - 1 places.  A push takes effect when   *)
(* its position is published, a refusal when the full ring is seen, a pop  *)
(* when its position is published; until then the item being moved out is  *)
(* still the oldest one inside.                                            *)
Contents ==
    [i \in 1 .. Occupied |->
        IF i = 1 /\ cpc = "publish" THEN citem ELSE buffer[SlotOf(i)]]

Fifo == INSTANCE BoundedFifo WITH
    Bound <- Capacity - 1,
    queue <- Contents,
    refused <- dropCount + (IF ppc = "refuse" THEN 1 ELSE 0)

(* SPSCQueue implements BoundedFifo: no item is lost, duplicated,          *)
(* reordered or read before it was written, and none is refused while      *)
(* there is room.                                                          *)
ImplementsFifo == Fifo!Spec
===============================================================================
