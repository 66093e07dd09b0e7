--------------------------- MODULE ThreadPoolProofs ---------------------------
(***************************************************************************)
(* Theorems about ThreadPool, for any set of tasks and threads, any        *)
(* arguments of start(), any queue limit and any bounds.                   *)
(***************************************************************************)
EXTENDS ThreadPool, TLAPS

USE DEF poolVars, workerVars, supVars, ctlVars

(* An index below an argument of start() is a worker id. *)
LEMMA SlotBelow ==
    ASSUME NEW n \in WorkerCounts, NEW k \in Nat, k < n
    PROVE  k \in Slot
<1>1. k \in 0 .. (n - 1)
    BY CountsAssumption
<1> QED
    BY <1>1 DEF Slot

LEMMA TypeOKInit == Init => TypeOK
<1> SUFFICES ASSUME Init PROVE TypeOK
    OBVIOUS
<1>1. tasks \in Seq(Task) /\ finished \in Seq(Slot)
    BY DEF Init
<1>2. /\ starts \in 0 .. MaxStarts /\ interrupts \in 0 .. MaxInterrupts
      /\ cursor \in Nat
    BY BoundsAssumption DEF Init
<1>3. \A t \in Thread : wpc[t] = "run" <=> wtask[t] # None
    BY DEF Init
<1> QED
    BY <1>1, <1>2, <1>3
       DEF Init, TypeOK, WorkerPC, SupervisorPC, ControllerPC, SubmitPC

(* The steps of submit() keep the types. *)
LEMMA TypeOKSubmit ==
    ASSUME TypeOK, NEW a \in Task, SubmitCheck(a) \/ SubmitStep(a)
    PROVE  TypeOK'
<1>1. CASE SubmitCheck(a)
    BY <1>1 DEF TypeOK, SubmitCheck, SubmitPC
<1>2. CASE SubmitPush(a)
    <2>1. tasks' \in Seq(Task)
        <3>1. tasks' = tasks \/ tasks' = Append(tasks, a)
            BY <1>2 DEF SubmitPush, SubmitPushUnlessFull
        <3>2. tasks \in Seq(Task)
            BY DEF TypeOK
        <3> QED
            BY <3>1, <3>2
    <2>2. sub' \in [Task -> SubmitPC]
        BY <1>2 DEF TypeOK, SubmitPush, SubmitPushUnlessFull, SubmitPC
    <2> QED
        BY <1>2, <2>1, <2>2 DEF TypeOK, SubmitPush, SubmitPushUnlessFull
<1>3. CASE SubmitNotify(a)
    <2>1. CASE Waiting = {}
        BY <1>3, <2>1 DEF TypeOK, SubmitNotify, SubmitPC
    <2>2. CASE Waiting # {}
        <3>1. PICK t \in Waiting : wpc' = [wpc EXCEPT ![t] = "woken"]
            BY <1>3, <2>2 DEF SubmitNotify
        <3> QED
            BY <1>3, <3>1 DEF TypeOK, SubmitNotify, Waiting, SubmitPC, WorkerPC
    <2> QED
        BY <2>1, <2>2
<1> QED
    BY <1>1, <1>2, <1>3 DEF SubmitStep

(* The steps of a worker thread keep the types. *)
LEMMA TypeOKWorker ==
    ASSUME TypeOK, NEW t \in Thread,
           WorkerStep(t) \/ WorkerSpuriousWakeup(t) \/ WorkerInterrupted(t)
    PROVE  TypeOK'
<1> USE DEF TypeOK, WorkerMoves, WorkerPC
<1>1. CASE WorkerLoop(t)
    BY <1>1 DEF WorkerLoop
<1>2. CASE WorkerBlock(t)
    BY <1>2 DEF WorkerBlock
<1>3. CASE WorkerWait(t)
    BY <1>3 DEF WorkerWait
<1>4. CASE WorkerQuit(t)
    BY <1>4 DEF WorkerQuit
<1>5. CASE WorkerTake(t)
    BY <1>5, NoneAssumption DEF WorkerTake
<1>6. CASE WorkerFinishTask(t)
    BY <1>6, NoneAssumption DEF WorkerFinishTask
<1>7. CASE WorkerExit(t)
    BY <1>7 DEF WorkerExit, SupervisorPC
<1>8. CASE WorkerSpuriousWakeup(t)
    BY <1>8 DEF WorkerSpuriousWakeup
<1>9. CASE WorkerInterrupted(t)
    BY <1>9, BoundsAssumption DEF WorkerInterrupted
<1> QED
    BY <1>1, <1>2, <1>3, <1>4, <1>5, <1>6, <1>7, <1>8, <1>9 DEF WorkerStep

(* Starting a thread in slot k, and a join of slot k, keep the types of    *)
(* the three variables they change.                                        *)
LEMMA TypeOKSpawn ==
    ASSUME TypeOK, NEW k \in Slot, SpawnInto(k)
    PROVE  /\ slots' \in [Slot -> Thread \cup {None}]
           /\ wpc' \in [Thread -> WorkerPC]
           /\ wslot' \in [Thread -> Slot \cup {0}]
           /\ \A t \in Thread : wpc'[t] # "none" => wslot'[t] \in Slot
           /\ \A t \in Thread : wpc'[t] = "run" <=> wpc[t] = "run"
BY DEF TypeOK, SpawnInto, WorkerPC

LEMMA TypeOKJoin ==
    ASSUME TypeOK, NEW k \in Slot, JoinReturns(k)
    PROVE  /\ slots' \in [Slot -> Thread \cup {None}]
           /\ wpc' \in [Thread -> WorkerPC]
           /\ \A t \in Thread : wpc'[t] # "none" => wpc[t] # "none"
           /\ \A t \in Thread : wpc'[t] = "run" <=> wpc[t] = "run"
BY DEF TypeOK, JoinReturns, WorkerPC

(* The steps of the supervisor keep the types. *)
LEMMA TypeOKSupervisor ==
    ASSUME TypeOK, SupervisorStep \/ SupervisorSpuriousWakeup
    PROVE  TypeOK'
<1> USE DEF SupervisorMoves, SupervisorPC
<1>1. CASE SupervisorLoop
    BY <1>1 DEF TypeOK, SupervisorLoop
<1>2. CASE SupervisorBlock
    BY <1>2 DEF TypeOK, SupervisorBlock
<1>3. CASE SupervisorWait
    BY <1>3 DEF TypeOK, SupervisorWait
<1>4. CASE SupervisorQuit
    BY <1>4 DEF TypeOK, SupervisorQuit
<1>5. CASE SupervisorTakeId
    BY <1>5 DEF TypeOK, SupervisorTakeId
<1>6. CASE SupervisorJoin
    <2>1. sid \in Slot /\ JoinReturns(sid)
        BY <1>6 DEF TypeOK, SupervisorJoin
    <2> QED
        BY <1>6, <2>1, TypeOKJoin DEF TypeOK, SupervisorJoin
<1>7. CASE SupervisorRespawn
    <2>1. sid \in Slot /\ SpawnInto(sid)
        BY <1>7 DEF TypeOK, SupervisorRespawn
    <2> QED
        BY <1>7, <2>1, TypeOKSpawn DEF TypeOK, SupervisorRespawn
<1>8. CASE SupervisorSpuriousWakeup
    BY <1>8 DEF TypeOK, SupervisorSpuriousWakeup
<1> QED
    BY <1>1, <1>2, <1>3, <1>4, <1>5, <1>6, <1>7, <1>8 DEF SupervisorStep

(* The calls of start() and stop() keep the types. *)
LEMMA TypeOKCalls ==
    ASSUME TypeOK, StopCall \/ \E n \in WorkerCounts : StartCall(n)
    PROVE  TypeOK'
<1>1. CASE StopCall
    BY <1>1 DEF TypeOK, StopCall, CtlMoves, ControllerPC
<1>2. ASSUME NEW n \in WorkerCounts, StartCall(n)
      PROVE  TypeOK'
    <2>1. starts' \in 0 .. MaxStarts
        BY <1>2, BoundsAssumption DEF TypeOK, StartCall
    <2>2. ctl' \in ControllerPC /\ ctl' # "join_workers" /\ ctl' # "spawn"
        BY <1>2 DEF TypeOK, StartCall, CtlMoves, ControllerPC
    <2> QED
        BY <1>2, <2>1, <2>2 DEF TypeOK, StartCall
<1> QED
    BY <1>1, <1>2

(* The later steps of start() and stop() keep the types. *)
LEMMA TypeOKController ==
    ASSUME TypeOK, ControllerStep
    PROVE  TypeOK'
<1> USE DEF CtlMoves, ControllerPC
<1>1. CASE NotifyWorkers
    BY <1>1 DEF TypeOK, NotifyWorkers, WorkerPC
<1>2. CASE NotifySupervisor
    BY <1>2, CountsAssumption DEF TypeOK, NotifySupervisor, SupervisorPC
<1>3. CASE JoinWorker
    <2>1. cursor \in Slot
        BY <1>3, SlotBelow DEF TypeOK, JoinWorker
    <2>2. JoinReturns(cursor)
        BY <1>3 DEF JoinWorker
    <2> QED
        BY <1>3, <2>1, <2>2, TypeOKJoin, CountsAssumption DEF TypeOK, JoinWorker
<1>4. CASE JoinedWorkers
    BY <1>4 DEF TypeOK, JoinedWorkers
<1>5. CASE JoinSupervisor
    BY <1>5 DEF TypeOK, JoinSupervisor, SupervisorMoves, SupervisorPC
<1>6. CASE Arm
    BY <1>6, CountsAssumption DEF TypeOK, Arm, WorkerPC
<1>7. CASE SpawnWorker
    <2>1. cursor \in Slot
        BY <1>7, SlotBelow DEF TypeOK, SpawnWorker
    <2>2. SpawnInto(cursor)
        BY <1>7 DEF SpawnWorker
    <2> QED
        BY <1>7, <2>1, <2>2, TypeOKSpawn, CountsAssumption DEF TypeOK, SpawnWorker
<1>8. CASE SpawnSupervisor
    BY <1>8 DEF TypeOK, SpawnSupervisor, SupervisorMoves, SupervisorPC
<1> QED
    BY <1>1, <1>2, <1>3, <1>4, <1>5, <1>6, <1>7, <1>8 DEF ControllerStep

(* Every variable of the pool keeps its shape, and the loops of start()    *)
(* and stop() stay within m_workers.                                       *)
THEOREM TypeCorrect == Spec => []TypeOK
<1>1. TypeOK /\ [Next]_vars => TypeOK'
    <2> SUFFICES ASSUME TypeOK, [Next]_vars PROVE TypeOK'
        OBVIOUS
    <2>1. CASE UNCHANGED vars
        BY <2>1 DEF TypeOK, vars
    <2> QED
        BY <2>1, TypeOKSubmit, TypeOKWorker, TypeOKSupervisor, TypeOKCalls,
           TypeOKController DEF Next
<1> QED
    BY <1>1, TypeOKInit, PTL DEF Spec

-----------------------------------------------------------------------------
(* What the two queue operations do to the set of elements of a sequence   *)
(* without duplicates.                                                     *)
Occurs(a, s) == \E i \in 1 .. Len(s) : s[i] = a
Injective(s) == \A i, j \in 1 .. Len(s) : s[i] = s[j] => i = j

LEMMA PushedElements ==
    ASSUME NEW S, NEW s \in Seq(S), NEW a \in S, ~Occurs(a, s), Injective(s)
    PROVE  /\ \A b : Occurs(b, Append(s, a)) <=> Occurs(b, s) \/ b = a
           /\ Injective(Append(s, a))
<1> DEFINE r == Append(s, a)
<1>1. /\ Len(r) = Len(s) + 1 /\ Len(s) \in Nat
      /\ \A i \in 1 .. Len(s) : r[i] = s[i]
      /\ r[Len(s) + 1] = a
    OBVIOUS
<1> HIDE DEF r
<1>2. \A b : Occurs(b, r) <=> Occurs(b, s) \/ b = a
    BY <1>1 DEF Occurs
<1>3. Injective(r)
    BY <1>1 DEF Occurs, Injective
<1> QED
    BY <1>2, <1>3 DEF r

LEMMA PoppedElements ==
    ASSUME NEW S, NEW s \in Seq(S), s # <<>>, Injective(s)
    PROVE  /\ Head(s) \in S /\ Occurs(Head(s), s)
           /\ \A b : Occurs(b, Tail(s)) <=> Occurs(b, s) /\ b # Head(s)
           /\ Injective(Tail(s))
<1> DEFINE r == Tail(s)
<1>1. /\ Len(s) \in Nat /\ Len(s) > 0 /\ Len(r) = Len(s) - 1
      /\ \A i \in 1 .. Len(r) : r[i] = s[i + 1]
      /\ Head(s) = s[1] /\ s[1] \in S
    OBVIOUS
<1> HIDE DEF r
<1>2. ASSUME NEW b, Occurs(b, r)
      PROVE  Occurs(b, s) /\ b # s[1]
    BY <1>1, <1>2 DEF Occurs, Injective
<1>3. ASSUME NEW b, Occurs(b, s), b # s[1]
      PROVE  Occurs(b, r)
    <2>1. PICK i \in 1 .. Len(s) : s[i] = b
        BY <1>3 DEF Occurs
    <2>2. i - 1 \in 1 .. Len(r) /\ r[i - 1] = b
        BY <1>1, <1>3, <2>1
    <2> QED
        BY <2>2 DEF Occurs
<1>4. Injective(r)
    BY <1>1 DEF Injective
<1>5. Occurs(s[1], s)
    BY <1>1 DEF Occurs
<1> QED
    BY <1>1, <1>2, <1>3, <1>4, <1>5 DEF r

-----------------------------------------------------------------------------
(* The steps that move a task; every other step leaves the queue, the      *)
(* calls of submit() and the tasks in the workers' hands alone.            *)
TaskStep ==
    \/ \E a \in Task : SubmitCheck(a) \/ SubmitPush(a) \/ SubmitNotify(a)
    \/ \E t \in Thread : WorkerTake(t) \/ WorkerFinishTask(t)

LEMMA TasksMoveByTaskSteps ==
    ASSUME [Next]_vars
    PROVE  TaskStep \/ UNCHANGED <<tasks, sub, wtask, done>>
<1>1. CASE UNCHANGED vars
    BY <1>1 DEF vars
<1>2. ASSUME NEW a \in Task, SubmitCheck(a) \/ SubmitStep(a)
      PROVE  TaskStep
    BY <1>2 DEF SubmitStep, TaskStep
<1>3. ASSUME NEW t \in Thread,
             WorkerStep(t) \/ WorkerSpuriousWakeup(t) \/ WorkerInterrupted(t)
      PROVE  TaskStep \/ UNCHANGED <<tasks, sub, wtask, done>>
    BY <1>3 DEF WorkerStep, WorkerLoop, WorkerBlock, WorkerWait, WorkerQuit, WorkerExit,
                WorkerSpuriousWakeup, WorkerInterrupted, TaskStep
<1>4. CASE SupervisorStep \/ SupervisorSpuriousWakeup
    BY <1>4 DEF SupervisorStep, SupervisorLoop, SupervisorBlock, SupervisorWait,
                SupervisorQuit, SupervisorTakeId, SupervisorJoin, SupervisorRespawn,
                SupervisorSpuriousWakeup
<1>5. CASE StopCall \/ \E n \in WorkerCounts : StartCall(n)
    BY <1>5 DEF StopCall, StartCall
<1>6. CASE ControllerStep
    BY <1>6 DEF ControllerStep, NotifyWorkers, NotifySupervisor, JoinWorker, JoinedWorkers,
                JoinSupervisor, Arm, SpawnWorker, SpawnSupervisor
<1> QED
    BY <1>1, <1>2, <1>3, <1>4, <1>5, <1>6 DEF Next

(* m_tasks stays within a configured limit, whatever the interleaving of   *)
(* submit() calls, workers, stop() and start().                            *)
THEOREM QueueStaysBounded == Spec => []QueueBounded
<1>1. Init => QueueBounded
    BY QueueAssumption DEF Init, QueueBounded
<1>2. TypeOK /\ QueueBounded /\ [Next]_vars => QueueBounded'
    <2> SUFFICES ASSUME TypeOK, QueueBounded, [Next]_vars
                 PROVE  QueueBounded'
        OBVIOUS
    <2>0. tasks \in Seq(Task)
        BY DEF TypeOK
    <2>1. CASE UNCHANGED <<tasks, sub, wtask, done>>
        BY <2>1 DEF QueueBounded
    <2>2. ASSUME NEW a \in Task, SubmitPush(a)
          PROVE  QueueBounded'
        BY <2>0, <2>2, QueueAssumption DEF SubmitPush, SubmitPushUnlessFull, QueueBounded
    <2>3. ASSUME NEW t \in Thread, WorkerTake(t)
          PROVE  QueueBounded'
        BY <2>0, <2>3, QueueAssumption DEF WorkerTake, QueueBounded
    <2>4. ASSUME NEW a \in Task, SubmitCheck(a) \/ SubmitNotify(a)
          PROVE  QueueBounded'
        BY <2>4 DEF SubmitCheck, SubmitNotify, QueueBounded
    <2>5. ASSUME NEW t \in Thread, WorkerFinishTask(t)
          PROVE  QueueBounded'
        BY <2>5 DEF WorkerFinishTask, QueueBounded
    <2> QED
        BY <2>1, <2>2, <2>3, <2>4, <2>5, TasksMoveByTaskSteps DEF TaskStep
<1> QED
    BY <1>1, <1>2, TypeCorrect, PTL DEF Spec

-----------------------------------------------------------------------------
(* TaskAccounting is inductive: one lemma for each step that moves a task. *)
LEMMA AccountingSubmitPush ==
    ASSUME TypeOK, TaskAccounting, NEW a \in Task, SubmitPush(a)
    PROVE  TaskAccounting'
<1>1. CASE tasks' = tasks /\ sub' = [sub EXCEPT ![a] = "refused"]
    <2>1. /\ \A b \in Task : Queued(b)' <=> Queued(b)
          /\ \A b \in Task : Running(b)' <=> Running(b)
        BY <1>1 DEF SubmitPush, SubmitPushUnlessFull, Queued, Running
    <2>2. /\ \A b \in Task : Accepted(b)' <=> Accepted(b)
        BY <1>1 DEF SubmitPush, SubmitPushUnlessFull, Accepted, TypeOK
    <2> QED
        BY <1>1, <2>1, <2>2 DEF SubmitPush, SubmitPushUnlessFull, TaskAccounting, TypeOK
<1>2. CASE tasks' = Append(tasks, a) /\ sub' = [sub EXCEPT ![a] = "notifying"]
    <2>1. /\ ~Queued(a) /\ ~Running(a) /\ a \notin done
          /\ sub[a] = "entering" /\ UNCHANGED <<wtask, done>>
        BY <1>2 DEF TaskAccounting, SubmitPush, SubmitPushUnlessFull, Accepted
    <2>2. tasks \in Seq(Task) /\ ~Occurs(a, tasks) /\ Injective(tasks)
        BY <2>1 DEF TypeOK, TaskAccounting, Queued, Occurs, Injective
    <2>3. /\ \A b : Occurs(b, tasks)' <=> Occurs(b, tasks) \/ b = a
          /\ Injective(tasks)'
        BY <1>2, <2>2, PushedElements DEF Occurs, Injective
    <2>4. \A b : Queued(b)' <=> Queued(b) \/ b = a
        BY <2>3 DEF Occurs, Queued
    <2>5. \A b : Running(b)' <=> Running(b)
        BY <2>1 DEF Running
    <2>6. \A b \in Task : Accepted(b)' <=> Accepted(b) \/ b = a
        BY <1>2 DEF TypeOK, Accepted
    <2> QED
        BY <2>1, <2>3, <2>4, <2>5, <2>6 DEF TaskAccounting, Injective
<1> QED
    BY <1>1, <1>2 DEF SubmitPush, SubmitPushUnlessFull

LEMMA AccountingSubmitOther ==
    ASSUME TypeOK, TaskAccounting, NEW a \in Task, SubmitCheck(a) \/ SubmitNotify(a)
    PROVE  TaskAccounting'
<1>1. \A b \in Task : Accepted(b)' <=> Accepted(b)
    BY DEF TypeOK, SubmitCheck, SubmitNotify, Accepted
<1>2. UNCHANGED <<tasks, wtask, done>>
    BY DEF SubmitCheck, SubmitNotify
<1> QED
    BY <1>1, <1>2 DEF TaskAccounting, Queued, Running

LEMMA AccountingTake ==
    ASSUME TypeOK, TaskAccounting, NEW t \in Thread, WorkerTake(t)
    PROVE  TaskAccounting'
<1> DEFINE a == Head(tasks)
<1>1. /\ tasks \in Seq(Task) /\ tasks # <<>> /\ Injective(tasks)
      /\ tasks' = Tail(tasks) /\ wtask' = [wtask EXCEPT ![t] = a]
      /\ wtask[t] = None /\ UNCHANGED <<sub, done>>
    BY DEF TypeOK, TaskAccounting, Injective, WorkerTake, WorkerMoves
<1>2. a \in Task /\ Queued(a)
    BY <1>1, PoppedElements DEF Occurs, Queued
<1>3. ~Running(a) /\ a \notin done
    BY <1>2 DEF TaskAccounting
<1>4. \A b : Queued(b)' <=> Queued(b) /\ b # a
    BY <1>1, PoppedElements DEF Occurs, Queued
<1>5. Injective(tasks)'
    BY <1>1, PoppedElements DEF Injective
<1> HIDE DEF a
<1>6. \A b \in Task : Running(b)' <=> Running(b) \/ b = a
    BY <1>1, <1>2, NoneAssumption DEF TypeOK, Running
<1>7. \A u, v \in Thread : wtask'[u] = wtask'[v] /\ wtask'[u] # None => u = v
    BY <1>1, <1>3 DEF TypeOK, TaskAccounting, Running
<1>8. \A b \in Task : Accepted(b)' <=> Accepted(b)
    BY <1>1 DEF Accepted
<1> QED
    BY <1>1, <1>2, <1>3, <1>4, <1>5, <1>6, <1>7, <1>8 DEF TaskAccounting, Injective

LEMMA AccountingFinish ==
    ASSUME TypeOK, TaskAccounting, NEW t \in Thread, WorkerFinishTask(t)
    PROVE  TaskAccounting'
<1> DEFINE a == wtask[t]
<1>1. /\ a \in Task /\ Running(a)
      /\ wtask' = [wtask EXCEPT ![t] = None] /\ done' = done \cup {a}
      /\ UNCHANGED <<tasks, sub>>
    BY DEF TypeOK, WorkerFinishTask, WorkerMoves, Running
<1>2. \A b \in Task : Running(b)' <=> Running(b) /\ b # a
    BY <1>1, NoneAssumption DEF TypeOK, TaskAccounting, Running
<1>3. \A u, v \in Thread : wtask'[u] = wtask'[v] /\ wtask'[u] # None => u = v
    BY <1>1 DEF TypeOK, TaskAccounting
<1>4. /\ \A b : Queued(b)' <=> Queued(b)
      /\ \A b : Accepted(b)' <=> Accepted(b)
    BY <1>1 DEF Queued, Accepted
<1> QED
    BY <1>1, <1>2, <1>3, <1>4 DEF TaskAccounting

(* No task is lost, and none runs twice: whatever workers are interrupted, *)
(* however submit(), stop(), start() and the supervisor interleave.        *)
THEOREM NoTaskLostOrRunTwice == Spec => []TaskAccounting
<1>1. Init => TaskAccounting
    BY NoneAssumption DEF Init, TaskAccounting, Accepted, Queued, Running
<1>2. TypeOK /\ TaskAccounting /\ [Next]_vars => TaskAccounting'
    <2> SUFFICES ASSUME TypeOK, TaskAccounting, [Next]_vars
                 PROVE  TaskAccounting'
        OBVIOUS
    <2>1. CASE UNCHANGED <<tasks, sub, wtask, done>>
        BY <2>1 DEF TaskAccounting, Accepted, Queued, Running
    <2>2. CASE TaskStep
        BY <2>2, AccountingSubmitPush, AccountingSubmitOther, AccountingTake,
           AccountingFinish DEF TaskStep
    <2> QED
        BY <2>1, <2>2, TasksMoveByTaskSteps
<1> QED
    BY <1>1, <1>2, TypeCorrect, PTL DEF Spec

-----------------------------------------------------------------------------
(* Handles and threads, as long as no worker ever ended by itself: each    *)
(* thread is held by its slot, ...                                         *)
Held ==
    /\ \A t \in Thread : wpc[t] # "none" => slots[wslot[t]] = t
    /\ \A k \in Slot : slots[k] # None => wpc[slots[k]] # "none" /\ wslot[slots[k]] = k
    /\ \A k \in Slot : k >= numWorkers => slots[k] = None

AllJoined == \A k \in Slot : slots[k] = None

(* ... no thread leaves a pool that runs, ...                              *)
NobodyLeaves ==
    /\ running => spc # "exited" /\ \A t \in Thread : wpc[t] \notin {"exit", "exited"}
    /\ spc # "respawn"
    /\ spc = "join" => sid < numWorkers

(* ... and start() and stop() have joined and spawned as far as they got.  *)
CallProgress ==
    /\ ctl \notin {"idle", "spawn"} => ~running
    /\ ctl = "join_workers" => \A k \in Slot : k < cursor => slots[k] = None
    /\ ctl = "join_supervisor" => AllJoined
    /\ ctl = "arm" \/ (ctl = "idle" /\ ~running) => AllJoined /\ spc = "none"
    /\ ctl = "spawn" => running /\ spc = "none" /\ \A k \in Slot : slots[k] # None <=> k < cursor
    /\ ctl = "idle" /\ running => /\ spc # "none"
                                  /\ \A k \in Slot : k < numWorkers => slots[k] # None

(* A pool that runs has workers to come, and none of them goes to sleep    *)
(* with work in the queue.                                                 *)
Awake(t) == wpc[t] \in {"loop", "lock", "woken", "run"}
Workers ==
    /\ ctl \in {"arm", "spawn"} => pending > 0
    /\ running => numWorkers > 0
    /\ \A t \in Thread : wpc[t] = "blocking" => tasks = <<>>

SomeoneAwake ==
    running /\ tasks # <<>> /\ (ctl = "spawn" => cursor > 0)
        => (\E t \in Thread : Awake(t)) \/ (\E a \in Task : sub[a] = "notifying")

PoolInv ==
    /\ TypeOK /\ Workers
    /\ interrupts = 0 => Held /\ NobodyLeaves /\ CallProgress /\ SomeoneAwake

LEMMA PoolInvInit == Init => PoolInv
<1> SUFFICES ASSUME Init PROVE PoolInv
    OBVIOUS
<1>1. Workers /\ SomeoneAwake
    BY DEF Init, Workers, SomeoneAwake
<1>2. Held /\ NobodyLeaves /\ CallProgress
    BY DEF Init, Held, NobodyLeaves, CallProgress, AllJoined
<1> QED
    BY <1>1, <1>2, TypeOKInit DEF PoolInv

LEMMA WorkersKept == TypeOK /\ Workers /\ [Next]_vars => Workers'
<1> SUFFICES ASSUME TypeOK, Workers, [Next]_vars PROVE Workers'
    OBVIOUS
<1> USE DEF Workers
<1>t. wpc \in [Thread -> WorkerPC]
    BY DEF TypeOK
<1>1. CASE UNCHANGED vars
    BY <1>1 DEF vars
<1>2. ASSUME NEW a \in Task, SubmitCheck(a) \/ SubmitStep(a) PROVE Workers'
    <2>1. UNCHANGED <<running, numWorkers, ctl, pending>>
        BY <1>2 DEF SubmitCheck, SubmitStep, SubmitPush, SubmitPushUnlessFull, SubmitNotify
    <2>2. CASE SubmitPush(a)
        BY <2>1, <2>2 DEF SubmitPush, SubmitPushUnlessFull, TasksMutexFree
    <2>3. CASE SubmitCheck(a)
        BY <2>1, <2>3 DEF SubmitCheck
    <2>4. CASE SubmitNotify(a)
        <3>1. tasks' = tasks /\ \A t \in Thread : wpc'[t] = "blocking" => wpc[t] = "blocking"
            BY <1>t, <2>4 DEF SubmitNotify
        <3> QED
            BY <2>1, <3>1
    <2> QED
        BY <1>2, <2>2, <2>3, <2>4 DEF SubmitStep
<1>3. ASSUME NEW t \in Thread, WorkerBlock(t) PROVE Workers'
    BY <1>t, <1>3 DEF WorkerBlock, WorkerMoves
<1>4. ASSUME NEW t \in Thread, WorkerTake(t) PROVE Workers'
    BY <1>t, <1>4 DEF WorkerTake, WorkerMoves
<1>5. ASSUME NEW t \in Thread, WorkerLoop(t) \/ WorkerWait(t) \/ WorkerQuit(t) \/ WorkerFinishTask(t)
                \/ WorkerExit(t) \/ WorkerSpuriousWakeup(t) \/ WorkerInterrupted(t)
      PROVE  Workers'
    <2>1. UNCHANGED <<running, numWorkers, ctl, pending, tasks>>
        BY <1>5 DEF WorkerLoop, WorkerWait, WorkerQuit, WorkerFinishTask, WorkerExit,
                    WorkerSpuriousWakeup, WorkerInterrupted
    <2>2. \A u \in Thread : wpc'[u] = "blocking" => wpc[u] = "blocking"
        BY <1>t, <1>5 DEF WorkerLoop, WorkerWait, WorkerQuit, WorkerFinishTask, WorkerExit,
                          WorkerSpuriousWakeup, WorkerInterrupted, WorkerMoves
    <2> QED
        BY <2>1, <2>2
<1>6. CASE SupervisorStep \/ SupervisorSpuriousWakeup
    <2>1. UNCHANGED <<running, numWorkers, ctl, pending, tasks>>
        BY <1>6 DEF SupervisorStep, SupervisorLoop, SupervisorBlock, SupervisorWait,
                    SupervisorQuit, SupervisorTakeId, SupervisorJoin, SupervisorRespawn,
                    SupervisorSpuriousWakeup
    <2>2. \A u \in Thread : wpc'[u] = "blocking" => wpc[u] = "blocking"
        BY <1>t, <1>6
        DEF SupervisorStep, SupervisorLoop, SupervisorBlock, SupervisorWait,
            SupervisorQuit, SupervisorTakeId, SupervisorJoin, SupervisorRespawn,
            SupervisorSpuriousWakeup, JoinReturns, SpawnInto
    <2> QED
        BY <2>1, <2>2
<1>7. CASE StopCall
    BY <1>7 DEF StopCall, CtlMoves
<1>8. ASSUME NEW n \in WorkerCounts, StartCall(n) PROVE Workers'
    BY <1>8 DEF StartCall, CtlMoves
<1>9. CASE JoinSupervisor \/ Arm \/ SpawnSupervisor
    BY <1>t, <1>9 DEF JoinSupervisor, Arm, SpawnSupervisor, CtlMoves
<1>10. CASE NotifyWorkers \/ NotifySupervisor \/ JoinWorker \/ JoinedWorkers \/ SpawnWorker
    <2>1. UNCHANGED <<running, numWorkers, pending, tasks>>
        BY <1>10 DEF NotifyWorkers, NotifySupervisor, JoinWorker, JoinedWorkers, SpawnWorker
    <2>2. ctl' \in {"arm", "spawn"} => ctl' = ctl
        BY <1>10 DEF NotifyWorkers, NotifySupervisor, JoinWorker, JoinedWorkers, SpawnWorker, CtlMoves
    <2>3. \A u \in Thread : wpc'[u] = "blocking" => wpc[u] = "blocking"
        BY <1>t, <1>10 DEF NotifyWorkers, NotifySupervisor, JoinWorker, JoinedWorkers, SpawnWorker,
                           JoinReturns, SpawnInto
    <2> QED
        BY <2>1, <2>2, <2>3
<1> QED
    BY <1>1, <1>2, <1>3, <1>4, <1>5, <1>6, <1>7, <1>8, <1>9, <1>10
    DEF Next, WorkerStep, ControllerStep

-----------------------------------------------------------------------------
(* The invariant while no worker ended by itself. *)
Orderly == Held /\ NobodyLeaves /\ CallProgress

LEMMA NoThreadLeft ==
    ASSUME TypeOK, Held, AllJoined
    PROVE  \A t \in Thread : wpc[t] = "none"
BY NoneAssumption DEF TypeOK, Held, AllJoined

(* A step that leaves the handles and the set of threads alone.            *)
LEMMA HeldSame ==
    ASSUME TypeOK, Held, UNCHANGED <<slots, wslot, numWorkers>>,
           \A t \in Thread : wpc'[t] = "none" <=> wpc[t] = "none"
    PROVE  Held'
BY NoneAssumption DEF TypeOK, Held

LEMMA OrderlySubmit ==
    ASSUME TypeOK, Orderly, NEW a \in Task, SubmitCheck(a) \/ SubmitStep(a)
    PROVE  Orderly'
<1>1. /\ UNCHANGED <<slots, wslot, numWorkers, running, spc, sid, ctl, cursor>>
      /\ \A t \in Thread : wpc'[t] = wpc[t] \/ (wpc[t] = "waiting" /\ wpc'[t] = "woken")
    BY DEF TypeOK, SubmitCheck, SubmitStep, SubmitPush, SubmitPushUnlessFull, SubmitNotify,
           Waiting
<1>2. Held'
    BY <1>1, HeldSame DEF Orderly
<1> QED
    BY <1>1, <1>2 DEF Orderly, NobodyLeaves, CallProgress, AllJoined

LEMMA OrderlyWorker ==
    ASSUME TypeOK, Orderly, NEW t \in Thread, WorkerStep(t) \/ WorkerSpuriousWakeup(t)
    PROVE  Orderly'
<1>0. wpc \in [Thread -> WorkerPC] /\ (wpc[t] # "none" => wslot[t] \in Slot)
    BY DEF TypeOK
<1>1. /\ UNCHANGED <<slots, wslot, numWorkers, running, sid, ctl, cursor>>
      /\ \A u \in Thread : u # t => wpc'[u] = wpc[u]
    BY <1>0
    DEF WorkerStep, WorkerLoop, WorkerBlock, WorkerWait, WorkerQuit, WorkerTake,
        WorkerFinishTask, WorkerExit, WorkerSpuriousWakeup, WorkerMoves
<1>2. wpc[t] # "none" /\ wpc'[t] # "none"
    <2>1. wpc[t] = "exit" => Owned(t)
        BY <1>0 DEF Orderly, Held, Owned
    <2> QED
        BY <1>0, <2>1
        DEF WorkerStep, WorkerLoop, WorkerBlock, WorkerWait, WorkerQuit, WorkerTake,
            WorkerFinishTask, WorkerExit, WorkerSpuriousWakeup, WorkerMoves
<1>3. running => wpc'[t] \notin {"exit", "exited"}
    BY <1>0
    DEF Orderly, NobodyLeaves, WorkerStep, WorkerLoop, WorkerBlock, WorkerWait, WorkerQuit,
        WorkerTake, WorkerFinishTask, WorkerExit, WorkerSpuriousWakeup, WorkerMoves
<1>4. spc' = spc \/ (spc = "waiting" /\ spc' = "lock")
    BY DEF WorkerStep, WorkerLoop, WorkerBlock, WorkerWait, WorkerQuit, WorkerTake,
           WorkerFinishTask, WorkerExit, WorkerSpuriousWakeup
<1>5. Held'
    BY <1>1, <1>2, HeldSame DEF Orderly
<1>6. NobodyLeaves'
    BY <1>1, <1>3, <1>4 DEF Orderly, NobodyLeaves
<1>7. CallProgress'
    BY <1>1, <1>4 DEF Orderly, CallProgress, AllJoined
<1> QED
    BY <1>5, <1>6, <1>7 DEF Orderly

(* A join gives back a slot and its thread; the others stay as they are.   *)
LEMMA HeldJoin ==
    ASSUME TypeOK, Held, NEW k \in Slot, JoinReturns(k), UNCHANGED <<wslot, numWorkers>>
    PROVE  /\ Held'
           /\ slots'[k] = None
           /\ \A j \in Slot : j # k => slots'[j] = slots[j]
           /\ \A t \in Thread : wpc'[t] = wpc[t] \/ wpc'[t] = "none"
<1>t. /\ slots \in [Slot -> Thread \cup {None}] /\ wpc \in [Thread -> WorkerPC]
      /\ \A t \in Thread : wpc[t] # "none" => wslot[t] \in Slot
    BY DEF TypeOK
<1>1. CASE slots[k] = None /\ UNCHANGED <<slots, wpc>>
    BY <1>1, HeldSame
<1>2. CASE slots[k] # None /\ wpc' = [wpc EXCEPT ![slots[k]] = "none"]
            /\ slots' = [slots EXCEPT ![k] = None]
    <2>1. PICK u \in Thread : u = slots[k]
        BY <1>t, <1>2
    <2>2. wpc'[u] = "none" /\ \A t \in Thread : t # u => wpc'[t] = wpc[t]
        BY <1>t, <1>2, <2>1
    <2>3. slots'[k] = None /\ \A j \in Slot : j # k => slots'[j] = slots[j]
        BY <1>t, <1>2
    <2>4. ASSUME NEW t \in Thread, wpc'[t] # "none" PROVE slots'[wslot'[t]] = t
        <3>1. t # u /\ wpc[t] # "none" /\ wslot[t] \in Slot /\ slots[wslot[t]] = t
            BY <1>t, <2>2, <2>4 DEF Held
        <3>2. wslot[t] # k
            BY <2>1, <3>1
        <3> QED
            BY <2>3, <3>1, <3>2
    <2>5. ASSUME NEW j \in Slot, slots'[j] # None
          PROVE  wpc'[slots'[j]] # "none" /\ wslot'[slots'[j]] = j
        <3>1. j # k /\ slots'[j] = slots[j] /\ slots[j] \in Thread
            BY <1>t, <2>3, <2>5
        <3>2. wpc[slots[j]] # "none" /\ wslot[slots[j]] = j /\ wslot[u] = k
            BY <1>2, <2>1, <2>5, <3>1 DEF Held
        <3> QED
            BY <2>2, <3>1, <3>2
    <2>6. \A j \in Slot : j >= numWorkers' => slots'[j] = None
        BY <2>3 DEF Held
    <2> QED
        BY <2>2, <2>3, <2>4, <2>5, <2>6 DEF Held
<1> QED
    BY <1>1, <1>2 DEF JoinReturns

LEMMA HeldSpawn ==
    ASSUME TypeOK, Held, NEW k \in Slot, SpawnInto(k), UNCHANGED numWorkers,
           k < numWorkers, slots[k] = None
    PROVE  /\ Held'
           /\ slots'[k] # None
           /\ \A j \in Slot : j # k => slots'[j] = slots[j]
           /\ \A t \in Thread : wpc'[t] = wpc[t] \/ wpc'[t] = "loop"
           /\ \E t \in Thread : wpc'[t] = "loop"
<1>t. /\ slots \in [Slot -> Thread \cup {None}] /\ wpc \in [Thread -> WorkerPC]
      /\ wslot \in [Thread -> Slot \cup {0}] /\ numWorkers \in Nat /\ k \in Int
      /\ \A t \in Thread : wpc[t] # "none" => wslot[t] \in Slot
    BY CountsAssumption DEF TypeOK, Slot
<1>1. PICK u \in Thread : /\ wpc[u] = "none" /\ wpc' = [wpc EXCEPT ![u] = "loop"]
                          /\ wslot' = [wslot EXCEPT ![u] = k]
                          /\ slots' = [slots EXCEPT ![k] = u]
    BY DEF SpawnInto
<1>2. wpc'[u] = "loop" /\ wslot'[u] = k /\ \A t \in Thread : t # u => wpc'[t] = wpc[t] /\ wslot'[t] = wslot[t]
    BY <1>t, <1>1
<1>3. slots'[k] = u /\ u # None /\ \A j \in Slot : j # k => slots'[j] = slots[j]
    BY <1>t, <1>1, NoneAssumption
<1>4. ASSUME NEW t \in Thread, wpc'[t] # "none" PROVE slots'[wslot'[t]] = t
    <2>1. CASE t = u
        BY <1>2, <1>3, <2>1
    <2>2. CASE t # u
        <3>1. wslot[t] \in Slot /\ slots[wslot[t]] = t /\ wslot'[t] = wslot[t]
            BY <1>t, <1>2, <1>4, <2>2 DEF Held
        <3>2. wslot[t] # k
            BY <3>1, NoneAssumption
        <3> QED
            BY <1>3, <3>1, <3>2
    <2> QED
        BY <2>1, <2>2
<1>5. ASSUME NEW j \in Slot, slots'[j] # None
      PROVE  wpc'[slots'[j]] # "none" /\ wslot'[slots'[j]] = j
    <2>1. CASE j = k
        BY <1>2, <1>3, <2>1
    <2>2. CASE j # k
        <3>1. slots'[j] = slots[j] /\ slots[j] \in Thread
            BY <1>t, <1>3, <1>5, <2>2
        <3>2. wpc[slots[j]] # "none" /\ wslot[slots[j]] = j
            BY <1>5, <3>1 DEF Held
        <3> QED
            BY <1>1, <1>2, <3>1, <3>2
    <2> QED
        BY <2>1, <2>2
<1>6. \A j \in Slot : j >= numWorkers' => slots'[j] = None
    <2> SUFFICES ASSUME NEW j \in Slot, j >= numWorkers PROVE slots'[j] = None
        OBVIOUS
    <2>1. j # k
        BY <1>t
    <2> QED
        BY <1>3, <2>1 DEF Held
<1> QED
    BY <1>2, <1>3, <1>4, <1>5, <1>6 DEF Held

(* The supervisor never spawns: an id it takes is one that a worker of an  *)
(* earlier run left, and its join returns only after the pool was stopped. *)
LEMMA OrderlySupervisor ==
    ASSUME TypeOK, Orderly, SupervisorStep \/ SupervisorSpuriousWakeup
    PROVE  Orderly'
<1>1. CASE SupervisorJoin
    <2>1. sid \in Slot /\ sid < numWorkers /\ JoinReturns(sid) /\ spc = "join"
        BY <1>1 DEF TypeOK, Orderly, NobodyLeaves, SupervisorJoin, SupervisorMoves
    <2>2. UNCHANGED <<wslot, numWorkers, running, ctl, cursor, sid>>
        BY <1>1 DEF SupervisorJoin
    <2>3. /\ Held' /\ slots'[sid] = None
          /\ \A j \in Slot : j # sid => slots'[j] = slots[j]
          /\ \A t \in Thread : wpc'[t] = wpc[t] \/ wpc'[t] = "none"
        BY <2>1, <2>2, HeldJoin DEF Orderly
    <2>4. ~running
        <3> SUFFICES ASSUME running PROVE FALSE
            OBVIOUS
        <3>1. slots[sid] # None
            BY <2>1 DEF Orderly, CallProgress
        <3>2. slots[sid] \in Thread /\ wpc[slots[sid]] = "exited"
            BY <2>1, <3>1 DEF TypeOK, JoinReturns
        <3> QED
            BY <3>2 DEF Orderly, NobodyLeaves
    <2>5. spc' = "exited"
        BY <1>1, <2>4 DEF SupervisorJoin, SupervisorMoves
    <2>6. NobodyLeaves'
        BY <2>2, <2>4, <2>5 DEF NobodyLeaves
    <2>7. CallProgress'
        <3>1. \A j \in Slot : slots[j] = None => slots'[j] = None
            BY <2>3
        <3> QED
            BY <2>1, <2>2, <2>4, <2>5, <3>1 DEF Orderly, CallProgress, AllJoined
    <2> QED
        BY <2>3, <2>6, <2>7 DEF Orderly
<1>2. CASE SupervisorRespawn
    BY <1>2 DEF SupervisorRespawn, SupervisorMoves, Orderly, NobodyLeaves
<1>3. CASE SupervisorLoop \/ SupervisorBlock \/ SupervisorWait \/ SupervisorQuit
            \/ SupervisorTakeId \/ SupervisorSpuriousWakeup
    <2>1. UNCHANGED <<slots, wpc, wslot, numWorkers, running, ctl, cursor>>
        BY <1>3 DEF SupervisorLoop, SupervisorBlock, SupervisorWait, SupervisorQuit,
                    SupervisorTakeId, SupervisorSpuriousWakeup
    <2>2. /\ spc \notin {"none"} /\ spc' \notin {"none", "respawn"}
          /\ running => spc' # "exited"
          /\ spc' = "join" => sid' < numWorkers
        BY <1>3 DEF SupervisorLoop, SupervisorBlock, SupervisorWait, SupervisorQuit,
                    SupervisorTakeId, SupervisorSpuriousWakeup, SupervisorMoves
    <2>3. Held'
        BY <2>1, HeldSame DEF Orderly
    <2>4. NobodyLeaves'
        BY <2>1, <2>2 DEF Orderly, NobodyLeaves
    <2>5. CallProgress'
        BY <2>1, <2>2 DEF Orderly, CallProgress, AllJoined
    <2> QED
        BY <2>3, <2>4, <2>5 DEF Orderly
<1> QED
    BY <1>1, <1>2, <1>3 DEF SupervisorStep

LEMMA OrderlyCalls ==
    ASSUME TypeOK, Orderly, StopCall \/ \E n \in WorkerCounts : StartCall(n)
    PROVE  Orderly'
<1>1. /\ UNCHANGED <<slots, wpc, wslot, numWorkers, spc, sid>> /\ ~running' /\ ctl = "idle"
      /\ ctl' = "notify_workers" \/ (ctl' = "arm" /\ ~running)
    BY DEF StopCall, StartCall, CtlMoves
<1>2. Held'
    BY <1>1, HeldSame DEF Orderly
<1>3. NobodyLeaves'
    BY <1>1 DEF Orderly, NobodyLeaves
<1>4. CallProgress'
    BY <1>1 DEF Orderly, CallProgress, AllJoined
<1> QED
    BY <1>2, <1>3, <1>4 DEF Orderly

LEMMA OrderlyController ==
    ASSUME TypeOK, Workers, Orderly, ControllerStep
    PROVE  Orderly'
<1>t. /\ numWorkers \in Nat /\ cursor \in Nat /\ pending \in Nat
      /\ \A k \in Slot : k \in Nat
    BY CountsAssumption DEF TypeOK, Slot
<1>1. CASE NotifyWorkers \/ NotifySupervisor
    <2>1. /\ UNCHANGED <<slots, wslot, numWorkers, running, sid>>
          /\ \A t \in Thread : wpc'[t] = wpc[t] \/ (wpc[t] = "waiting" /\ wpc'[t] = "woken")
        BY <1>1 DEF NotifyWorkers, NotifySupervisor
    <2>2. /\ ctl \in {"notify_workers", "notify_supervisor"} /\ (ctl' = "join_workers" => cursor' = 0)
          /\ ctl' \in {"notify_supervisor", "join_workers"}
          /\ spc' = spc \/ spc' = "lock"
        BY <1>1 DEF NotifyWorkers, NotifySupervisor, CtlMoves
    <2>3. Held'
        BY <2>1, HeldSame DEF Orderly
    <2>4. NobodyLeaves'
        BY <2>1, <2>2 DEF Orderly, NobodyLeaves, CallProgress
    <2>5. CallProgress'
        BY <1>t, <2>1, <2>2 DEF Orderly, CallProgress
    <2> QED
        BY <2>3, <2>4, <2>5 DEF Orderly
<1>2. CASE JoinWorker
    <2>1. /\ ctl = "join_workers" /\ ctl' = ctl /\ cursor < numWorkers /\ JoinReturns(cursor)
          /\ cursor' = cursor + 1
          /\ UNCHANGED <<wslot, numWorkers, running, spc, sid>>
        BY <1>2 DEF JoinWorker
    <2>2. cursor \in Slot
        BY <2>1, SlotBelow DEF TypeOK
    <2>3. /\ Held' /\ slots'[cursor] = None
          /\ \A j \in Slot : j # cursor => slots'[j] = slots[j]
          /\ \A t \in Thread : wpc'[t] = wpc[t] \/ wpc'[t] = "none"
        BY <2>1, <2>2, HeldJoin DEF Orderly
    <2>4. NobodyLeaves'
        BY <2>1, <2>3 DEF Orderly, NobodyLeaves
    <2>5. \A k \in Slot : k < cursor' => slots'[k] = None
        <3> SUFFICES ASSUME NEW k \in Slot, k < cursor + 1, k # cursor PROVE slots'[k] = None
            BY <2>1, <2>3
        <3>1. k < cursor
            BY <1>t
        <3> QED
            BY <2>1, <2>3, <3>1 DEF Orderly, CallProgress
    <2>6. CallProgress'
        BY <2>1, <2>5 DEF Orderly, CallProgress
    <2> QED
        BY <2>3, <2>4, <2>6 DEF Orderly
<1>3. CASE JoinedWorkers
    <2>1. /\ ctl = "join_workers" /\ ctl' = "join_supervisor" /\ cursor = numWorkers
          /\ UNCHANGED <<slots, wpc, wslot, numWorkers, running, spc, sid>>
        BY <1>3 DEF JoinedWorkers, CtlMoves
    <2>2. AllJoined
        BY <1>t, <2>1 DEF Orderly, Held, CallProgress, AllJoined
    <2>3. Held'
        BY <2>1, HeldSame DEF Orderly
    <2>4. NobodyLeaves'
        BY <2>1 DEF Orderly, NobodyLeaves
    <2>5. CallProgress'
        BY <2>1, <2>2 DEF Orderly, CallProgress, AllJoined
    <2> QED
        BY <2>3, <2>4, <2>5 DEF Orderly
<1>4. CASE JoinSupervisor
    <2>1. /\ ctl = "join_supervisor" /\ ctl' \in {"arm", "idle"} /\ spc' = "none"
          /\ UNCHANGED <<slots, wpc, wslot, numWorkers, running, sid>>
        BY <1>4 DEF JoinSupervisor, CtlMoves, SupervisorMoves
    <2>2. AllJoined /\ ~running
        BY <2>1 DEF Orderly, CallProgress
    <2>3. Held'
        BY <2>1, HeldSame DEF Orderly
    <2>4. NobodyLeaves'
        BY <2>1 DEF Orderly, NobodyLeaves
    <2>5. CallProgress'
        BY <2>1, <2>2 DEF CallProgress, AllJoined
    <2> QED
        BY <2>3, <2>4, <2>5 DEF Orderly
<1>5. CASE Arm
    <2>1. /\ ctl = "arm" /\ ctl' = "spawn" /\ running' = TRUE /\ cursor' = 0
          /\ slots' = [k \in Slot |-> None]
          /\ wpc' = [t \in Thread |-> IF wpc[t] = "exited" THEN "none" ELSE wpc[t]]
          /\ UNCHANGED <<wslot, spc, sid>>
        BY <1>5 DEF Arm, CtlMoves
    <2>2. AllJoined /\ spc = "none" /\ \A t \in Thread : wpc[t] = "none"
        BY <2>1, NoThreadLeft DEF Orderly, CallProgress
    <2>3. \A t \in Thread : wpc'[t] = "none"
        BY <2>1, <2>2
    <2>4. Held'
        BY <2>1, <2>3 DEF Held
    <2>5. NobodyLeaves'
        BY <2>1, <2>2, <2>3 DEF NobodyLeaves
    <2>6. CallProgress'
        BY <1>t, <2>1, <2>2 DEF CallProgress
    <2> QED
        BY <2>4, <2>5, <2>6 DEF Orderly
<1>6. CASE SpawnWorker
    <2>1. /\ ctl = "spawn" /\ ctl' = ctl /\ cursor < pending /\ SpawnInto(cursor)
          /\ cursor' = cursor + 1 /\ numWorkers = pending
          /\ UNCHANGED <<numWorkers, running, spc, sid>>
        BY <1>6 DEF SpawnWorker, TypeOK
    <2>2. cursor \in Slot
        BY <2>1, SlotBelow DEF TypeOK
    <2>3. slots[cursor] = None /\ running /\ spc = "none"
        BY <1>t, <2>1, <2>2 DEF Orderly, CallProgress
    <2>4. /\ Held' /\ slots'[cursor] # None
          /\ \A j \in Slot : j # cursor => slots'[j] = slots[j]
          /\ \A t \in Thread : wpc'[t] = wpc[t] \/ wpc'[t] = "loop"
        BY <2>1, <2>2, <2>3, HeldSpawn DEF Orderly
    <2>5. NobodyLeaves'
        BY <2>1, <2>4 DEF Orderly, NobodyLeaves
    <2>6. ASSUME NEW k \in Slot PROVE slots'[k] # None <=> k < cursor'
        <3>1. CASE k = cursor
            BY <1>t, <2>1, <2>4, <3>1
        <3>2. CASE k # cursor
            <4>1. k < cursor <=> k < cursor + 1
                BY <1>t, <3>2
            <4> QED
                BY <2>1, <2>4, <3>2, <4>1 DEF Orderly, CallProgress
        <3> QED
            BY <3>1, <3>2
    <2>7. CallProgress'
        BY <2>1, <2>3, <2>6 DEF CallProgress
    <2> QED
        BY <2>4, <2>5, <2>7 DEF Orderly
<1>7. CASE SpawnSupervisor
    <2>1. /\ ctl = "spawn" /\ ctl' = "idle" /\ spc' = "loop" /\ cursor = numWorkers
          /\ UNCHANGED <<slots, wpc, wslot, numWorkers, running, sid>>
        BY <1>7 DEF SpawnSupervisor, CtlMoves, SupervisorMoves, TypeOK
    <2>2. Held'
        BY <2>1, HeldSame DEF Orderly
    <2>3. NobodyLeaves'
        BY <2>1 DEF Orderly, NobodyLeaves
    <2>4. CallProgress'
        BY <2>1 DEF Orderly, CallProgress
    <2> QED
        BY <2>2, <2>3, <2>4 DEF Orderly
<1> QED
    BY <1>1, <1>2, <1>3, <1>4, <1>5, <1>6, <1>7 DEF ControllerStep

-----------------------------------------------------------------------------
(* A worker that is started and not asleep, or about to be. *)
LEMMA WorkerThere ==
    ASSUME TypeOK, Workers, Orderly, running, tasks # <<>>, ctl = "spawn" => cursor > 0
    PROVE  \E t \in Thread : Awake(t) \/ wpc[t] = "waiting"
<1>1. 0 \in Slot /\ 0 < numWorkers
    <2>1. numWorkers \in WorkerCounts /\ numWorkers > 0
        BY CountsAssumption DEF Workers, TypeOK
    <2> QED
        BY <2>1, SlotBelow, CountsAssumption
<1>2. ctl \in {"idle", "spawn"}
    BY DEF Orderly, CallProgress
<1>3. slots[0] # None
    BY <1>1, <1>2 DEF Orderly, CallProgress
<1>4. slots[0] \in Thread /\ wpc[slots[0]] # "none" /\ wpc[slots[0]] \in WorkerPC
    BY <1>1, <1>3 DEF TypeOK, Orderly, Held
<1>5. wpc[slots[0]] \notin {"blocking", "exit", "exited"}
    BY <1>4 DEF Workers, Orderly, NobodyLeaves
<1> QED
    BY <1>4, <1>5 DEF WorkerPC, Awake

LEMMA AwakeKept ==
    ASSUME TypeOK, Workers, Orderly, SomeoneAwake, [Next]_vars, interrupts' = 0, interrupts = 0
    PROVE  SomeoneAwake'
<1> SUFFICES ASSUME running', tasks' # <<>>, ctl' = "spawn" => cursor' > 0
             PROVE  (\E t \in Thread : Awake(t)') \/ (\E a \in Task : sub'[a] = "notifying")
    BY DEF SomeoneAwake
<1>t. /\ wpc \in [Thread -> WorkerPC] /\ sub \in [Task -> SubmitPC] /\ tasks \in Seq(Task)
    BY DEF TypeOK
<1>1. ASSUME UNCHANGED <<running, tasks, ctl, cursor, sub>>,
             \A t \in Thread : Awake(t) => Awake(t)'
      PROVE  (\E t \in Thread : Awake(t)') \/ (\E a \in Task : sub'[a] = "notifying")
    BY <1>1 DEF SomeoneAwake
<1>2. ASSUME NEW a \in Task, SubmitCheck(a)
      PROVE  (\E t \in Thread : Awake(t)') \/ (\E b \in Task : sub'[b] = "notifying")
    <2>1. /\ UNCHANGED <<running, tasks, ctl, cursor, wpc>>
          /\ \A b \in Task : sub[b] = "notifying" => sub'[b] = "notifying"
        BY <1>t, <1>2 DEF SubmitCheck
    <2> QED
        BY <2>1 DEF SomeoneAwake, Awake
<1>3. ASSUME NEW a \in Task, SubmitPush(a)
      PROVE  (\E t \in Thread : Awake(t)') \/ (\E b \in Task : sub'[b] = "notifying")
    <2>1. CASE sub' = [sub EXCEPT ![a] = "notifying"]
        BY <1>t, <2>1
    <2>2. CASE sub' = [sub EXCEPT ![a] = "refused"] /\ tasks' = tasks
        <3>1. /\ UNCHANGED <<running, ctl, cursor, wpc>>
              /\ \A b \in Task : sub[b] = "notifying" => sub'[b] = "notifying"
            BY <1>t, <1>3, <2>2 DEF SubmitPush, SubmitPushUnlessFull
        <3> QED
            BY <2>2, <3>1 DEF SomeoneAwake, Awake
    <2> QED
        BY <1>3, <2>1, <2>2 DEF SubmitPush, SubmitPushUnlessFull
<1>4. ASSUME NEW a \in Task, SubmitNotify(a) PROVE \E t \in Thread : Awake(t)'
    <2>1. PICK t \in Thread : Awake(t) \/ wpc[t] = "waiting"
        BY <1>4, WorkerThere DEF SubmitNotify
    <2>2. CASE Waiting = {}
        <3>1. wpc[t] # "waiting" /\ wpc' = wpc
            BY <1>4, <2>2 DEF SubmitNotify, Waiting
        <3> QED
            BY <2>1, <3>1 DEF Awake
    <2>3. CASE Waiting # {}
        <3>1. PICK u \in Waiting : wpc' = [wpc EXCEPT ![u] = "woken"]
            BY <1>4, <2>3 DEF SubmitNotify
        <3> QED
            BY <1>t, <3>1 DEF Waiting, Awake
    <2> QED
        BY <2>2, <2>3
<1>5. ASSUME NEW t \in Thread, WorkerStep(t) \/ WorkerSpuriousWakeup(t)
      PROVE  (\E u \in Thread : Awake(u)') \/ (\E b \in Task : sub'[b] = "notifying")
    <2>1. CASE WorkerTake(t)
        BY <1>t, <2>1 DEF WorkerTake, WorkerMoves, Awake
    <2>2. CASE WorkerFinishTask(t) \/ WorkerSpuriousWakeup(t) \/ WorkerLoop(t)
        BY <1>t, <2>2 DEF WorkerFinishTask, WorkerSpuriousWakeup, WorkerLoop, WorkerMoves, Awake
    <2>3. CASE WorkerBlock(t)
        BY <2>3 DEF WorkerBlock
    <2>4. CASE WorkerWait(t)
        BY <2>4 DEF WorkerWait, WorkerMoves, Workers
    <2>5. CASE WorkerQuit(t)
        BY <2>5 DEF WorkerQuit
    <2>6. CASE WorkerExit(t)
        BY <2>6 DEF WorkerExit, WorkerMoves, Orderly, NobodyLeaves
    <2> QED
        BY <1>5, <2>1, <2>2, <2>3, <2>4, <2>5, <2>6 DEF WorkerStep
<1>6. ASSUME SupervisorStep \/ SupervisorSpuriousWakeup
      PROVE  (\E t \in Thread : Awake(t)') \/ (\E a \in Task : sub'[a] = "notifying")
    <2>1. UNCHANGED <<running, tasks, ctl, cursor, sub>>
        BY <1>6 DEF SupervisorStep, SupervisorLoop, SupervisorBlock, SupervisorWait,
                    SupervisorQuit, SupervisorTakeId, SupervisorJoin, SupervisorRespawn,
                    SupervisorSpuriousWakeup
    <2>2. \A t \in Thread : Awake(t) => Awake(t)'
        BY <1>t, <1>6
        DEF SupervisorStep, SupervisorLoop, SupervisorBlock, SupervisorWait, SupervisorQuit,
            SupervisorTakeId, SupervisorJoin, SupervisorRespawn, SupervisorSpuriousWakeup,
            JoinReturns, SpawnInto, Awake
    <2> QED
        BY <1>1, <2>1, <2>2
<1>7. ASSUME StopCall \/ (\E n \in WorkerCounts : StartCall(n)) \/ Arm PROVE FALSE
    BY <1>7 DEF StopCall, StartCall, Arm, CtlMoves
<1>8. ASSUME NotifyWorkers \/ NotifySupervisor \/ JoinWorker \/ JoinedWorkers \/ JoinSupervisor
      PROVE  FALSE
    BY <1>8 DEF NotifyWorkers, NotifySupervisor, JoinWorker, JoinedWorkers, JoinSupervisor,
                CtlMoves, Orderly, CallProgress
<1>9. ASSUME SpawnWorker PROVE \E t \in Thread : Awake(t)'
    BY <1>t, <1>9 DEF SpawnWorker, SpawnInto, Awake
<1>10. ASSUME SpawnSupervisor
       PROVE  (\E t \in Thread : Awake(t)') \/ (\E a \in Task : sub'[a] = "notifying")
    <2>1. cursor > 0 /\ UNCHANGED <<running, tasks, sub, wpc>>
        BY <1>10 DEF SpawnSupervisor, CtlMoves, Workers
    <2> QED
        BY <2>1 DEF SomeoneAwake, Awake
<1>11. ASSUME UNCHANGED vars
       PROVE  (\E t \in Thread : Awake(t)') \/ (\E a \in Task : sub'[a] = "notifying")
    BY <1>1, <1>11 DEF vars, Awake
<1>12. ASSUME NEW t \in Thread, WorkerInterrupted(t) PROVE FALSE
    BY <1>12 DEF WorkerInterrupted
<1> QED
    BY <1>2, <1>3, <1>4, <1>5, <1>6, <1>7, <1>8, <1>9, <1>10, <1>11, <1>12
    DEF Next, SubmitStep, ControllerStep

LEMMA PoolInvKept == PoolInv /\ [Next]_vars /\ TypeOK' => PoolInv'
<1> SUFFICES ASSUME PoolInv, [Next]_vars, TypeOK' PROVE PoolInv'
    OBVIOUS
<1>1. TypeOK /\ Workers /\ Workers'
    BY WorkersKept DEF PoolInv
<1>2. ASSUME interrupts' = 0 PROVE interrupts = 0
    <2>1. ASSUME NEW t \in Thread, WorkerInterrupted(t) PROVE FALSE
        <3>1. interrupts \in Nat /\ interrupts' = interrupts + 1
            BY <1>1, <2>1, BoundsAssumption DEF TypeOK, WorkerInterrupted
        <3> QED
            BY <1>2, <3>1
    <2>2. CASE UNCHANGED vars
        BY <1>2, <2>2 DEF vars
    <2>3. CASE Next
        BY <1>2, <2>1, <2>3
        DEF Next, SubmitCheck, SubmitStep, SubmitPush, SubmitPushUnlessFull, SubmitNotify,
            WorkerStep, WorkerLoop, WorkerBlock, WorkerWait, WorkerQuit, WorkerTake,
            WorkerFinishTask, WorkerExit, WorkerSpuriousWakeup, SupervisorStep, SupervisorLoop,
            SupervisorBlock, SupervisorWait, SupervisorQuit, SupervisorTakeId, SupervisorJoin,
            SupervisorRespawn, SupervisorSpuriousWakeup, StopCall, StartCall, ControllerStep,
            NotifyWorkers, NotifySupervisor, JoinWorker, JoinedWorkers, JoinSupervisor, Arm,
            SpawnWorker, SpawnSupervisor
    <2> QED
        BY <2>2, <2>3
<1>3. ASSUME interrupts' = 0 PROVE Orderly' /\ SomeoneAwake'
    <2>1. interrupts = 0 /\ Orderly /\ SomeoneAwake
        BY <1>2, <1>3 DEF PoolInv, Orderly
    <2>2. SomeoneAwake'
        BY <1>1, <1>3, <2>1, AwakeKept
    <2>3. ASSUME NEW t \in Thread, WorkerInterrupted(t) PROVE FALSE
        BY <1>3, <2>1, <2>3 DEF WorkerInterrupted
    <2>4. CASE UNCHANGED vars
        <3>1. /\ UNCHANGED <<slots, wpc, wslot, numWorkers, running, spc, sid, ctl, cursor>>
            BY <2>4 DEF vars
        <3>2. Held'
            BY <1>1, <2>1, <3>1, HeldSame DEF Orderly
        <3>3. NobodyLeaves'
            BY <2>1, <3>1 DEF Orderly, NobodyLeaves
        <3>4. CallProgress'
            BY <2>1, <3>1 DEF Orderly, CallProgress, AllJoined
        <3> QED
            BY <2>2, <3>2, <3>3, <3>4 DEF Orderly
    <2>5. CASE Next
        <3>1. ASSUME NEW a \in Task, SubmitCheck(a) \/ SubmitStep(a) PROVE Orderly'
            BY <1>1, <2>1, <3>1, OrderlySubmit
        <3>2. ASSUME NEW t \in Thread, WorkerStep(t) \/ WorkerSpuriousWakeup(t) PROVE Orderly'
            BY <1>1, <2>1, <3>2, OrderlyWorker
        <3>3. ASSUME SupervisorStep \/ SupervisorSpuriousWakeup PROVE Orderly'
            BY <1>1, <2>1, <3>3, OrderlySupervisor
        <3>4. ASSUME StopCall \/ \E n \in WorkerCounts : StartCall(n) PROVE Orderly'
            BY <1>1, <2>1, <3>4, OrderlyCalls
        <3>5. ASSUME ControllerStep PROVE Orderly'
            BY <1>1, <2>1, <3>5, OrderlyController
        <3> QED
            BY <2>2, <2>3, <2>5, <3>1, <3>2, <3>3, <3>4, <3>5 DEF Next
    <2> QED
        BY <2>2, <2>4, <2>5
<1> QED
    BY <1>1, <1>3 DEF PoolInv, Orderly

(* The pool always satisfies the invariant above: worker threads and the   *)
(* queue in any run, and, until a worker is interrupted, handles, threads  *)
(* and the progress of start() and stop() agree and a waker is on its way. *)
THEOREM PoolInvariant == Spec => []PoolInv
BY PoolInvInit, PoolInvKept, TypeCorrect, PTL DEF Spec

(* Without interrupted workers stop() joins every thread of the pool: when *)
(* it has returned none is left to run a task or to touch the pool, and    *)
(* the ids that an earlier run left in m_finishedIds make no difference.   *)
THEOREM StopLeavesNoThread == Spec => []StopJoinsAllUnlessInterrupted
<1>1. PoolInv => StopJoinsAllUnlessInterrupted
    <2> SUFFICES ASSUME PoolInv, interrupts = 0, ctl = "idle", ~running
                 PROVE  LiveThreads = {} /\ spc = "none"
        BY DEF StopJoinsAllUnlessInterrupted, StopJoinsAll
    <2>1. TypeOK /\ Held /\ AllJoined /\ spc = "none"
        BY DEF PoolInv, CallProgress
    <2>2. \A t \in Thread : wpc[t] = "none"
        BY <2>1, NoThreadLeft
    <2> QED
        BY <2>1, <2>2 DEF LiveThreads
<1> QED
    BY <1>1, PoolInvariant, PTL

(* No lost wake-up: with every push notified and work in the queue, some   *)
(* worker is awake and will look at the queue again.                       *)
THEOREM NoWakeUpIsLost == Spec => []NoSleepWithWork
<1>1. PoolInv => NoSleepWithWork
    BY DEF PoolInv, SomeoneAwake, Awake, NoSleepWithWork
<1> QED
    BY <1>1, PoolInvariant, PTL

-----------------------------------------------------------------------------
(* To its clients the pool is a TaskQueue: the flag and the queue are its  *)
(* own, and what became of a task can be told from submit(), the workers   *)
(* and the history of what was done.                                       *)
TaskStatus(a) ==
    CASE a \in done -> "done"
      [] Running(a) -> "running"
      [] Queued(a) -> "queued"
      [] sub[a] = "refused" -> "refused"
      [] OTHER -> "new"

Status == [a \in Task |-> TaskStatus(a)]

Promise == INSTANCE TaskQueue WITH
    Limit <- MaxQueueSize, open <- running, queue <- tasks, status <- Status

LEMMA StatusSame ==
    ASSUME NEW b \in Task, sub'[b] = "refused" <=> sub[b] = "refused",
           b \in done' <=> b \in done, Queued(b)' <=> Queued(b), Running(b)' <=> Running(b)
    PROVE  Status'[b] = Status[b]
BY DEF Status, TaskStatus

(* One task's status changes, everybody else's stays. *)
LEMMA StatusMoves ==
    ASSUME NEW a \in Task, NEW to, Status'[a] = to, \A b \in Task : b # a => Status'[b] = Status[b]
    PROVE  Status' = [Status EXCEPT ![a] = to]
BY DEF Status

LEMMA PromiseInit == Init => Promise!Init
<1> SUFFICES ASSUME Init PROVE Promise!Init
    OBVIOUS
<1>1. ASSUME NEW a \in Task PROVE Status[a] = "new"
    BY NoneAssumption DEF Init, Status, TaskStatus, Queued, Running
<1>2. Status = [a \in Task |-> "new"]
    BY <1>1 DEF Status
<1> QED
    BY <1>2 DEF Init, Promise!Init

LEMMA PromiseSubmitCheck ==
    ASSUME TypeOK, TaskAccounting, NEW a \in Task, SubmitCheck(a)
    PROVE  Promise!Refuse(a) \/ UNCHANGED <<running, tasks, Status>>
<1>1. /\ UNCHANGED <<running, tasks, wtask, done>>
      /\ sub[a] = "idle" /\ sub' = [sub EXCEPT ![a] = IF running THEN "entering" ELSE "refused"]
    BY DEF SubmitCheck
<1>2. \A b \in Task : (Queued(b)' <=> Queued(b)) /\ (Running(b)' <=> Running(b))
    BY <1>1 DEF Queued, Running
<1>3. CASE running
    <2>1. \A b \in Task : sub'[b] = "refused" <=> sub[b] = "refused"
        BY <1>1, <1>3 DEF TypeOK
    <2>2. \A b \in Task : Status'[b] = Status[b]
        BY <1>1, <1>2, <2>1, StatusSame
    <2> QED
        BY <1>1, <2>2 DEF Status
<1>4. CASE ~running
    <2>1. sub'[a] = "refused" /\ \A b \in Task : b # a => sub'[b] = sub[b]
        BY <1>1, <1>4 DEF TypeOK
    <2>2. ~Queued(a) /\ ~Running(a) /\ a \notin done
        BY <1>1 DEF TaskAccounting, Accepted
    <2>3. Status[a] = "new" /\ Status'[a] = "refused"
        BY <1>1, <1>2, <2>1, <2>2 DEF Status, TaskStatus
    <2>4. Status' = [Status EXCEPT ![a] = "refused"]
        BY <1>1, <1>2, <2>1, <2>3, StatusSame, StatusMoves
    <2> QED
        BY <1>1, <1>4, <2>3, <2>4 DEF Promise!Refuse, Promise!Becomes
<1> QED
    BY <1>3, <1>4

LEMMA PromiseSubmitPush ==
    ASSUME TypeOK, TaskAccounting, NEW a \in Task, SubmitPush(a)
    PROVE  Promise!Accept(a) \/ Promise!Refuse(a)
<1>1. sub[a] = "entering" /\ UNCHANGED <<running, wtask, done>> /\ tasks \in Seq(Task)
    BY DEF SubmitPush, SubmitPushUnlessFull, TypeOK
<1>2. ~Queued(a) /\ ~Running(a) /\ a \notin done
    BY <1>1 DEF TaskAccounting, Accepted
<1>3. \A b \in Task : Running(b)' <=> Running(b)
    BY <1>1 DEF Running
<1>4. Status[a] = "new"
    BY <1>1, <1>2 DEF Status, TaskStatus
<1>5. CASE MaxQueueSize > 0 /\ Len(tasks) >= MaxQueueSize
    <2>1. tasks' = tasks /\ sub' = [sub EXCEPT ![a] = "refused"]
        BY <1>5 DEF SubmitPush, SubmitPushUnlessFull
    <2>2. sub'[a] = "refused" /\ \A b \in Task : b # a => sub'[b] = sub[b]
        BY <2>1 DEF TypeOK
    <2>3. \A b \in Task : Queued(b)' <=> Queued(b)
        BY <2>1 DEF Queued
    <2>4. Status'[a] = "refused"
        BY <1>1, <1>2, <1>3, <2>2, <2>3 DEF Status, TaskStatus
    <2>5. Status' = [Status EXCEPT ![a] = "refused"]
        BY <1>1, <1>3, <2>2, <2>3, <2>4, StatusSame, StatusMoves
    <2> QED
        BY <1>1, <1>4, <1>5, <2>1, <2>5 DEF Promise!Refuse, Promise!Full, Promise!Becomes
<1>6. CASE ~(MaxQueueSize > 0 /\ Len(tasks) >= MaxQueueSize)
    <2>1. tasks' = Append(tasks, a) /\ sub' = [sub EXCEPT ![a] = "notifying"]
        BY <1>6 DEF SubmitPush, SubmitPushUnlessFull
    <2>2. \A b \in Task : sub'[b] = "refused" <=> sub[b] = "refused"
        BY <1>1, <2>1 DEF TypeOK
    <2>3. ~Occurs(a, tasks) /\ Injective(tasks)
        BY <1>2 DEF TaskAccounting, Queued, Occurs, Injective
    <2>4. \A b \in Task : Queued(b)' <=> Queued(b) \/ b = a
        BY <1>1, <2>1, <2>3, PushedElements DEF Occurs, Queued
    <2>5. Status'[a] = "queued"
        <3>1. sub'[a] # "refused"
            BY <1>1, <2>2
        <3>2. Queued(a)' /\ ~Running(a)' /\ a \notin done'
            BY <1>1, <1>2, <1>3, <2>4
        <3> QED
            BY <3>1, <3>2 DEF Status, TaskStatus
    <2>6. Status' = [Status EXCEPT ![a] = "queued"]
        BY <1>1, <1>3, <2>2, <2>4, <2>5, StatusSame, StatusMoves
    <2> QED
        BY <1>1, <1>4, <1>6, <2>1, <2>6 DEF Promise!Accept, Promise!Full, Promise!Becomes
<1> QED
    BY <1>5, <1>6

LEMMA PromiseTake ==
    ASSUME TypeOK, TaskAccounting, NEW t \in Thread, WorkerTake(t)
    PROVE  Promise!Start
<1>1. /\ running /\ tasks \in Seq(Task) /\ tasks # <<>> /\ Injective(tasks)
      /\ tasks' = Tail(tasks) /\ wtask' = [wtask EXCEPT ![t] = Head(tasks)]
      /\ wtask[t] = None /\ UNCHANGED <<running, sub, done>>
    BY DEF TypeOK, TaskAccounting, Injective, WorkerTake, WorkerMoves
<1>2. PICK a \in Task : a = Head(tasks)
    BY <1>1, PoppedElements
<1>3. Queued(a) /\ \A b \in Task : Queued(b)' <=> Queued(b) /\ b # a
    <2>1. /\ Occurs(Head(tasks), tasks)
          /\ \A b : Occurs(b, Tail(tasks)) <=> Occurs(b, tasks) /\ b # Head(tasks)
        BY <1>1, PoppedElements
    <2> QED
        BY <1>1, <1>2, <2>1 DEF Occurs, Queued
<1>4. ~Running(a) /\ a \notin done /\ sub[a] # "refused"
    BY <1>3 DEF TaskAccounting, Accepted
<1>5. \A b \in Task : Running(b)' <=> Running(b) \/ b = a
    BY <1>1, <1>2, NoneAssumption DEF TypeOK, Running
<1>6. Status[a] = "queued" /\ Status'[a] = "running"
    <2>1. Running(a)' /\ ~Queued(a)' /\ a \notin done' /\ sub'[a] # "refused"
        BY <1>1, <1>3, <1>4, <1>5
    <2> QED
        BY <1>3, <1>4, <2>1 DEF Status, TaskStatus
<1>7. Status' = [Status EXCEPT ![a] = "running"]
    BY <1>1, <1>3, <1>5, <1>6, StatusSame, StatusMoves
<1> QED
    BY <1>1, <1>2, <1>6, <1>7 DEF Promise!Start, Promise!Becomes

LEMMA PromiseFinish ==
    ASSUME TypeOK, TaskAccounting, NEW t \in Thread, WorkerFinishTask(t)
    PROVE  \E a \in Task : Promise!Finish(a)
<1>1. PICK a \in Task : a = wtask[t]
    BY DEF TypeOK, WorkerFinishTask, WorkerMoves
<1>2. /\ Running(a) /\ wtask' = [wtask EXCEPT ![t] = None] /\ done' = done \cup {a}
      /\ UNCHANGED <<running, tasks, sub>>
    BY <1>1 DEF WorkerFinishTask, Running
<1>3. \A b \in Task : b # a => (Running(b)' <=> Running(b))
    BY <1>1, <1>2, NoneAssumption DEF TypeOK, Running
<1>4. \A b \in Task : Queued(b)' <=> Queued(b)
    BY <1>2 DEF Queued
<1>5. a \notin done /\ ~Queued(a) /\ sub[a] # "refused"
    BY <1>2 DEF TaskAccounting, Accepted
<1>6. Status[a] = "running" /\ Status'[a] = "done"
    <2>1. ~Running(a)'
        BY <1>1, <1>2, NoneAssumption DEF TypeOK, TaskAccounting, Running
    <2>2. a \in done' /\ ~Queued(a)' /\ sub'[a] # "refused"
        BY <1>2, <1>4, <1>5
    <2> QED
        BY <1>2, <1>5, <2>1, <2>2 DEF Status, TaskStatus
<1>7. Status' = [Status EXCEPT ![a] = "done"]
    BY <1>2, <1>3, <1>4, <1>6, StatusSame, StatusMoves
<1> QED
    BY <1>2, <1>6, <1>7 DEF Promise!Finish, Promise!Becomes

(* The pool keeps the promise of TaskQueue: across restarts and interrupted *)
(* workers, tasks start in the order in which submit() took them, each one  *)
(* once and never in a stopped pool, and submit() refuses a task only if    *)
(* the pool is stopped or its queue is full.                                *)
THEOREM PoolImplementsTaskQueue == Spec => Promise!Spec
<1>1. TypeOK /\ TypeOK' /\ TaskAccounting /\ [Next]_vars => [Promise!Next]_(Promise!queueVars)
    <2> SUFFICES ASSUME TypeOK, TypeOK', TaskAccounting, [Next]_vars
                 PROVE  Promise!Next \/ UNCHANGED <<running, tasks, Status>>
        BY DEF Promise!queueVars
    <2>1. CASE UNCHANGED <<tasks, sub, wtask, done>>
        <3>1. \A b \in Task : Status'[b] = Status[b]
            BY <2>1, StatusSame DEF Queued, Running
        <3>2. Status' = Status
            BY <3>1 DEF Status
        <3>3. running \in BOOLEAN /\ running' \in BOOLEAN
            BY DEF TypeOK
        <3>4. running' = running \/ running' = ~running
            BY <3>3
        <3> QED
            BY <2>1, <3>2, <3>4 DEF Promise!Next, Promise!OpenOrClose
    <2>2. ASSUME NEW a \in Task, SubmitCheck(a) \/ SubmitPush(a)
          PROVE  Promise!Next \/ UNCHANGED <<running, tasks, Status>>
        BY <2>2, PromiseSubmitCheck, PromiseSubmitPush DEF Promise!Next
    <2>3. ASSUME NEW a \in Task, SubmitNotify(a) PROVE UNCHANGED <<running, tasks, Status>>
        <3>1. /\ UNCHANGED <<running, tasks, wtask, done>>
              /\ \A b \in Task : sub'[b] = "refused" <=> sub[b] = "refused"
            BY <2>3 DEF SubmitNotify, TypeOK
        <3>2. \A b \in Task : Status'[b] = Status[b]
            BY <3>1, StatusSame DEF Queued, Running
        <3> QED
            BY <3>1, <3>2 DEF Status
    <2>4. ASSUME NEW t \in Thread, WorkerTake(t) \/ WorkerFinishTask(t) PROVE Promise!Next
        BY <2>4, PromiseTake, PromiseFinish DEF Promise!Next
    <2> QED
        BY <2>1, <2>2, <2>3, <2>4, TasksMoveByTaskSteps DEF TaskStep
<1> QED
    BY <1>1, PromiseInit, TypeCorrect, NoTaskLostOrRunTwice, PTL DEF Spec, Promise!Spec
===============================================================================
