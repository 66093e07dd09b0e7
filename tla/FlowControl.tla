----------------------------- MODULE FlowControl ------------------------------
(***************************************************************************)
(* A LockfreeQueue that several producers fill under a FlowController and  *)
(* several consumers empty: each producer asks the queue for its size,     *)
(* tryPush() of the controller for permission, and pushes.                 *)
(*                                                                         *)
(* The queue of the library is external: it is not of fixed size, so a     *)
(* push never fails, and push and pop take effect at once.  What is in it  *)
(* does not matter here, only how much.  Counters are atomic, each access  *)
(* is a step of its own; 64 bits do not overflow.                          *)
(***************************************************************************)
EXTENDS Naturals, FiniteSets

CONSTANTS
    Producer, Consumer, \* threads
    Limits,             \* values of m_maxQueueSize
    MaxAttempts         \* bound: calls of tryPush()

ASSUME LimitsAssumption == Limits \subseteq Nat
ASSUME ThreadsAssumption == IsFiniteSet(Producer) /\ IsFiniteSet(Consumer)

VARIABLES
    items,                \* elements in the library's queue
    pushCount, popCount,  \* counters of LockfreeQueue
    maxQueueSize, dropOnFull,               \* of the controller
    attempts, dropCount, totalDrops,        \* and its counters
    producing,  \* position of each producer,
    pushes,     \* the pushCount it has read,
    guess,      \* and the size computed from it
    consuming,  \* position of each consumer
    popped,     \* elements popped so far (history)
    highest     \* highest limit so far (history)

lockfree == <<items, pushCount, popCount, popped>>
controller == <<maxQueueSize, dropOnFull, highest>>
statistics == <<attempts, dropCount, totalDrops>>
producers == <<producing, pushes, guess>>
flowVars == <<lockfree, controller, statistics, producers, consuming>>

FlowInit ==
    /\ items = 0 /\ pushCount = 0 /\ popCount = 0
    /\ popped = 0
    /\ maxQueueSize \in Limits /\ dropOnFull \in BOOLEAN
    /\ highest = maxQueueSize
    /\ attempts = 0 /\ dropCount = 0 /\ totalDrops = 0
    /\ producing = [p \in Producer |-> "idle"]
    /\ pushes = [p \in Producer |-> 0]
    /\ guess = [p \in Producer |-> 0]
    /\ consuming = [c \in Consumer |-> "idle"]

-----------------------------------------------------------------------------
Produces(p, from, to) ==
    /\ producing[p] = from
    /\ producing' = [producing EXCEPT ![p] = to]

(* LockfreeQueue::size(): two loads, and the difference if it is positive. *)
SizeLoadsPushes(p) ==
    /\ Produces(p, "idle", "sizing")
    /\ pushes' = [pushes EXCEPT ![p] = pushCount]
    /\ UNCHANGED <<lockfree, controller, statistics, guess, consuming>>

Difference(m, n) == IF m > n THEN m - n ELSE 0

SizeLoadsPops(p) ==
    /\ Produces(p, "sizing", "asking")
    /\ guess' = [guess EXCEPT ![p] = Difference(pushes[p], popCount)]
    /\ pushes' = [pushes EXCEPT ![p] = 0]
    /\ UNCHANGED <<lockfree, controller, statistics, consuming>>

CanPush(size) == size < maxQueueSize

(* FlowController::tryPush(): the attempt is counted, ... *)
CountAttempt(p) ==
    /\ attempts < MaxAttempts
    /\ Produces(p, "asking", "counted")
    /\ attempts' = attempts + 1
    /\ UNCHANGED <<lockfree, controller, dropCount, totalDrops, pushes, guess, consuming>>

(* ... granted, ... *)
Granted(p) ==
    /\ CanPush(guess[p])
    /\ Produces(p, "counted", "pushing")
    /\ guess' = [guess EXCEPT ![p] = 0]
    /\ UNCHANGED <<lockfree, controller, statistics, pushes, consuming>>

(* ... refused, ... *)
Refused(p) ==
    /\ ~CanPush(guess[p]) /\ ~dropOnFull
    /\ Produces(p, "counted", "idle")
    /\ guess' = [guess EXCEPT ![p] = 0]
    /\ UNCHANGED <<lockfree, controller, statistics, pushes, consuming>>

(* ... or recorded as a drop, in two counters. *)
CountDrop(p) ==
    /\ ~CanPush(guess[p]) /\ dropOnFull
    /\ Produces(p, "counted", "dropping")
    /\ guess' = [guess EXCEPT ![p] = 0]
    /\ dropCount' = dropCount + 1
    /\ UNCHANGED <<lockfree, controller, attempts, totalDrops, pushes, consuming>>

CountTotalDrop(p) ==
    /\ Produces(p, "dropping", "idle")
    /\ totalDrops' = totalDrops + 1
    /\ UNCHANGED <<lockfree, controller, attempts, dropCount, pushes, guess, consuming>>

(* LockfreeQueue::push(): the element is in before it is counted. *)
Push(p) ==
    /\ Produces(p, "pushing", "pushed")
    /\ items' = items + 1
    /\ UNCHANGED <<pushCount, popCount, popped, controller, statistics, pushes, guess, consuming>>

\* Deliberate fault: a push is not counted, as pushes that fail are not.
CountNoPush(p) ==
    /\ Produces(p, "pushed", "idle")
    /\ UNCHANGED <<lockfree, controller, statistics, pushes, guess, consuming>>

CountPush(p) ==
    /\ Produces(p, "pushed", "idle")
    /\ pushCount' = pushCount + 1
    /\ UNCHANGED <<items, popCount, popped, controller, statistics, pushes, guess, consuming>>

-----------------------------------------------------------------------------
(* LockfreeQueue::pop(), which clear() repeats until it fails.             *)
Pop(c) ==
    /\ consuming[c] = "idle" /\ items > 0
    /\ consuming' = [consuming EXCEPT ![c] = "popped"]
    /\ items' = items - 1
    /\ popped' = popped + 1
    /\ UNCHANGED <<pushCount, popCount, controller, statistics, producers>>

CountPop(c) ==
    /\ consuming[c] = "popped"
    /\ consuming' = [consuming EXCEPT ![c] = "idle"]
    /\ popCount' = popCount + 1
    /\ UNCHANGED <<items, pushCount, popped, controller, statistics, producers>>

(* resetDropCount(), at any time. *)
ResetDropCount ==
    /\ dropCount # 0 /\ dropCount' = 0
    /\ UNCHANGED <<lockfree, controller, attempts, totalDrops, producers, consuming>>

(* setMaxQueueSize() and setDropOnFull(), at any time as well.             *)
SetLimit ==
    /\ maxQueueSize' \in Limits
    /\ dropOnFull' \in BOOLEAN
    /\ highest' = IF maxQueueSize' > highest THEN maxQueueSize' ELSE highest
    /\ UNCHANGED <<lockfree, statistics, producers, consuming>>

FlowNext ==
    \/ \E p \in Producer :
        \/ SizeLoadsPushes(p) \/ SizeLoadsPops(p)
        \/ CountAttempt(p) \/ Granted(p) \/ Refused(p) \/ CountDrop(p) \/ CountTotalDrop(p)
        \/ Push(p) \/ CountPush(p)
    \/ \E c \in Consumer : Pop(c) \/ CountPop(c)
    \/ ResetDropCount \/ SetLimit

FlowSpec == FlowInit /\ [][FlowNext]_flowVars

-----------------------------------------------------------------------------
(* Types of the queue, the controller and the threads that use them.       *)
FlowTypeOK ==
    /\ items \in Nat /\ pushCount \in Nat /\ popCount \in Nat
    /\ popped \in Nat
    /\ maxQueueSize \in Limits /\ highest \in Limits /\ dropOnFull \in BOOLEAN
    /\ attempts \in Nat /\ dropCount \in Nat /\ totalDrops \in Nat
    /\ producing \in [Producer -> {"idle", "sizing", "asking", "counted",
                                   "pushing", "pushed", "dropping"}]
    /\ pushes \in [Producer -> Nat]
    /\ guess \in [Producer -> Nat]
    /\ consuming \in [Consumer -> {"idle", "popped"}]

(* The controller is told a size that was never exact: two counters read   *)
(* one after the other, both behind the queue.  Still the queue passes the *)
(* highest limit that was set by no more than one element for each         *)
(* producer but the first.                                                 *)
OverrunBounded == Producer # {} => items <= highest + Cardinality(Producer) - 1
===============================================================================
