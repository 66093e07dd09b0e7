------------------------------ MODULE StopProofs ------------------------------
(***************************************************************************)
(* Why a stop() of the pool returns, unless a thread was between the test  *)
(* of its wait predicate and its wait when m_running was cleared: from     *)
(* then on nobody goes to sleep, some thread always has a step to take,    *)
(* and each step leads down a well-founded order.  These are the safety    *)
(* facts behind StopReturnsUnlessBlocking, for any number of threads, of   *)
(* restarts and of interrupted workers; fairness is all they leave out.    *)
(***************************************************************************)
EXTENDS ThreadPoolProofs

USE DEF poolVars, workerVars, supVars, ctlVars

(* A stop() is in progress, be it one that start() begins with.            *)
Stopping == ctl \in {"notify_workers", "notify_supervisor", "join_workers", "join_supervisor"}

(* A handle is that of a thread that is not joined yet, and of one only.   *)
HandlesLive ==
    /\ \A k \in Slot : slots[k] # None => wpc[slots[k]] # "none"
    /\ \A j, k \in Slot : slots[j] = slots[k] /\ slots[j] # None => j = k

(* The flag and the supervisor at each position of start() and stop().     *)
Phases ==
    /\ Stopping => ~running /\ spc # "none"
    /\ ctl = "arm" => ~running
    /\ ctl = "spawn" => running
    /\ ctl \in {"arm", "spawn"} => spc = "none"
    /\ ctl = "idle" => (running <=> spc # "none")

StopInv == TypeOK /\ HandlesLive /\ Phases

(* Nobody is between predicate and wait, and whom stop() has notified is   *)
(* awake.  At "notify_workers" this is the premise of                      *)
(* StopReturnsUnlessBlocking.                                              *)
Calm ==
    /\ Stopping /\ TasksMutexFree /\ FinishedMutexFree
    /\ ctl # "notify_workers" => Waiting = {}
    /\ ctl \in {"join_workers", "join_supervisor"} => spc # "waiting"

(* What the guards of the steps ask for at each position.  Thread ids do   *)
(* not run out in the code, so a respawn is always possible.               *)
Joinable(k) == slots[k] = None \/ wpc[slots[k]] = "exited"

WorkerCanMove(t) ==
    \/ wpc[t] \in {"loop", "run"}
    \/ wpc[t] \in {"lock", "woken"} /\ TasksMutexFree /\ ~running
    \/ wpc[t] = "exit" /\ FinishedMutexFree

SupervisorCanMove ==
    \/ spc \in {"loop", "respawn"}
    \/ spc = "lock" /\ ~running
    \/ spc = "join" /\ Joinable(sid)

StopCanMove ==
    \/ ctl \in {"notify_workers", "notify_supervisor"}
    \/ ctl = "join_workers" /\ cursor < numWorkers /\ Joinable(cursor)
    \/ ctl = "join_workers" /\ cursor = numWorkers
    \/ ctl = "join_supervisor" /\ spc = "exited"

(* While stop() is calm, some thread of the pool or stop() can go on.      *)
SomebodyCanMove == Calm => StopCanMove \/ SupervisorCanMove \/ \E t \in Thread : WorkerCanMove(t)

(* How far each of them is from its end. *)
SupervisorRank ==
    CASE spc = "none" -> 0
      [] spc = "exited" -> 1
      [] spc \in {"loop", "lock", "join"} -> 2
      [] OTHER -> 3

WorkerRank(t) ==
    CASE wpc[t] = "none" -> 0
      [] wpc[t] = "exited" -> 1
      [] wpc[t] = "exit" -> 2
      [] wpc[t] \in {"loop", "lock", "woken"} -> 3
      [] OTHER -> 4

StopRank ==
    CASE ctl = "notify_workers" -> numWorkers + 3
      [] ctl = "notify_supervisor" -> numWorkers + 2
      [] ctl = "join_workers" -> numWorkers - cursor + 1
      [] OTHER -> 0

(* The supervisor gets nearer its end, which may start a last thread; or   *)
(* it stays where it is, nobody falls back, and somebody gets nearer.      *)
Downwards ==
    \/ SupervisorRank' < SupervisorRank
    \/ /\ SupervisorRank' = SupervisorRank
       /\ StopRank' <= StopRank
       /\ \A t \in Thread : WorkerRank(t)' <= WorkerRank(t)
       /\ StopRank' < StopRank \/ \E t \in Thread : WorkerRank(t)' < WorkerRank(t)

-----------------------------------------------------------------------------
(* The invariant. *)
LEMMA HandlesSame ==
    ASSUME TypeOK, HandlesLive, UNCHANGED slots,
           \A t \in Thread : wpc'[t] = "none" => wpc[t] = "none"
    PROVE  HandlesLive'
BY DEF TypeOK, HandlesLive

LEMMA HandlesJoin ==
    ASSUME TypeOK, HandlesLive, NEW k \in Slot, JoinReturns(k)
    PROVE  HandlesLive'
<1>t. slots \in [Slot -> Thread \cup {None}] /\ wpc \in [Thread -> WorkerPC]
    BY DEF TypeOK
<1>1. CASE slots[k] = None /\ UNCHANGED <<slots, wpc>>
    BY <1>1, HandlesSame
<1>2. CASE slots[k] # None /\ wpc' = [wpc EXCEPT ![slots[k]] = "none"]
            /\ slots' = [slots EXCEPT ![k] = None]
    <2>1. slots'[k] = None /\ \A j \in Slot : j # k => slots'[j] = slots[j]
        BY <1>t, <1>2
    <2>2. \A t \in Thread : t # slots[k] => wpc'[t] = wpc[t]
        BY <1>t, <1>2
    <2>3. ASSUME NEW j \in Slot, slots'[j] # None PROVE wpc'[slots'[j]] # "none"
        <3>1. j # k /\ slots'[j] = slots[j] /\ slots[j] \in Thread
            BY <1>t, <2>1, <2>3
        <3>2. slots[j] # slots[k] /\ wpc[slots[j]] # "none"
            BY <1>2, <2>3, <3>1 DEF HandlesLive
        <3> QED
            BY <2>2, <3>1, <3>2
    <2>4. ASSUME NEW i \in Slot, NEW j \in Slot, slots'[i] = slots'[j], slots'[i] # None
          PROVE  i = j
        BY <2>1, <2>4 DEF HandlesLive
    <2> QED
        BY <2>3, <2>4 DEF HandlesLive
<1> QED
    BY <1>1, <1>2 DEF JoinReturns

LEMMA HandlesSpawn ==
    ASSUME TypeOK, HandlesLive, NEW k \in Slot, SpawnInto(k)
    PROVE  HandlesLive'
<1>t. slots \in [Slot -> Thread \cup {None}] /\ wpc \in [Thread -> WorkerPC]
    BY DEF TypeOK
<1>1. PICK u \in Thread : /\ wpc[u] = "none" /\ wpc' = [wpc EXCEPT ![u] = "loop"]
                          /\ slots' = [slots EXCEPT ![k] = u]
    BY DEF SpawnInto
<1>2. slots'[k] = u /\ \A j \in Slot : j # k => slots'[j] = slots[j]
    BY <1>t, <1>1
<1>3. wpc'[u] = "loop" /\ \A t \in Thread : t # u => wpc'[t] = wpc[t]
    BY <1>t, <1>1
<1>4. \A j \in Slot : slots[j] # u
    BY <1>1, NoneAssumption DEF HandlesLive
<1>5. ASSUME NEW j \in Slot, slots'[j] # None PROVE wpc'[slots'[j]] # "none"
    <2>1. CASE j = k
        BY <1>2, <1>3, <2>1
    <2>2. CASE j # k
        <3>1. slots'[j] = slots[j] /\ slots[j] \in Thread /\ slots[j] # u
            BY <1>t, <1>2, <1>4, <1>5, <2>2
        <3>2. wpc[slots[j]] # "none"
            BY <1>5, <3>1 DEF HandlesLive
        <3> QED
            BY <1>3, <3>1, <3>2
    <2> QED
        BY <2>1, <2>2
<1>6. ASSUME NEW i \in Slot, NEW j \in Slot, slots'[i] = slots'[j], slots'[i] # None
      PROVE  i = j
    BY <1>2, <1>4, <1>6 DEF HandlesLive
<1> QED
    BY <1>5, <1>6 DEF HandlesLive

(* A step of submit() or of a worker changes nothing of stop()'s, wakes    *)
(* the supervisor at most, and drops no thread that has a handle.          *)
LEMMA ClientEffect ==
    ASSUME TypeOK, NEW a \in Task, SubmitCheck(a) \/ SubmitStep(a)
    PROVE  /\ UNCHANGED <<running, slots, ctl, cursor, numWorkers, spc, finished>>
           /\ UNCHANGED wpc \/ \E t \in Thread : wpc[t] = "waiting" /\ wpc' = [wpc EXCEPT ![t] = "woken"]
BY DEF SubmitCheck, SubmitStep, SubmitPush, SubmitPushUnlessFull, SubmitNotify, Waiting

LEMMA WorkerEffect ==
    ASSUME TypeOK, NEW t \in Thread,
           WorkerStep(t) \/ WorkerSpuriousWakeup(t) \/ WorkerInterrupted(t)
    PROVE  /\ UNCHANGED <<running, slots, ctl, cursor, numWorkers>>
           /\ spc' = spc \/ (spc = "waiting" /\ spc' = "lock")
           /\ \A u \in Thread : u # t => wpc'[u] = wpc[u]
           /\ \/ wpc[t] = "loop" /\ wpc'[t] = (IF running THEN "lock" ELSE "exit")
              \/ wpc[t] \in {"lock", "woken"} /\ running /\ wpc'[t] \in {"blocking", "run"}
              \/ wpc[t] \in {"lock", "woken"} /\ ~running /\ wpc'[t] = "exit"
              \/ wpc[t] = "blocking" /\ wpc'[t] = "waiting"
              \/ wpc[t] = "run" /\ wpc'[t] = "loop"
              \/ wpc[t] = "exit" /\ wpc'[t] = (IF Owned(t) THEN "exited" ELSE "none")
              \/ wpc[t] \in {"waiting", "woken"} /\ wpc'[t] = "exit"
              \/ wpc[t] = "waiting" /\ wpc'[t] = "woken"
<1>t. wpc \in [Thread -> WorkerPC]
    BY DEF TypeOK
<1>1. CASE WorkerLoop(t) \/ WorkerBlock(t) \/ WorkerWait(t) \/ WorkerQuit(t)
    BY <1>t, <1>1 DEF WorkerLoop, WorkerBlock, WorkerWait, WorkerQuit, WorkerMoves
<1>2. CASE WorkerTake(t) \/ WorkerFinishTask(t)
    BY <1>t, <1>2 DEF WorkerTake, WorkerFinishTask, WorkerMoves
<1>3. CASE WorkerExit(t)
    BY <1>t, <1>3 DEF WorkerExit, WorkerMoves
<1>4. CASE WorkerSpuriousWakeup(t) \/ WorkerInterrupted(t)
    BY <1>t, <1>4 DEF WorkerSpuriousWakeup, WorkerInterrupted, WorkerMoves
<1> QED
    BY <1>1, <1>2, <1>3, <1>4 DEF WorkerStep

LEMMA SupervisorEffect ==
    ASSUME TypeOK, SupervisorStep \/ SupervisorSpuriousWakeup
    PROVE  /\ UNCHANGED <<running, ctl, cursor, numWorkers>>
           /\ \/ /\ UNCHANGED <<slots, wpc>>
                 /\ \/ spc = "loop" /\ spc' = (IF running THEN "lock" ELSE "exited")
                    \/ spc = "lock" /\ ~running /\ spc' = "exited"
                    \/ spc = "lock" /\ running /\ spc' \in {"blocking", "join", "loop"}
                    \/ spc = "blocking" /\ spc' = "waiting"
                    \/ spc = "waiting" /\ spc' = "lock"
              \/ /\ spc = "join" /\ spc' = (IF running THEN "respawn" ELSE "exited")
                 /\ sid \in Slot /\ JoinReturns(sid)
              \/ spc = "respawn" /\ spc' = "loop" /\ sid \in Slot /\ SpawnInto(sid)
<1>1. CASE SupervisorLoop \/ SupervisorBlock \/ SupervisorWait \/ SupervisorQuit
    BY <1>1 DEF SupervisorLoop, SupervisorBlock, SupervisorWait, SupervisorQuit, SupervisorMoves
<1>2. CASE SupervisorTakeId \/ SupervisorSpuriousWakeup
    BY <1>2 DEF SupervisorTakeId, SupervisorSpuriousWakeup, SupervisorMoves
<1>3. CASE SupervisorJoin \/ SupervisorRespawn
    <2>1. spc \in {"join", "respawn"} => sid \in Slot
        BY DEF TypeOK
    <2> QED
        BY <1>3, <2>1 DEF SupervisorJoin, SupervisorRespawn, SupervisorMoves
<1> QED
    BY <1>1, <1>2, <1>3 DEF SupervisorStep

(* What start() and stop() do at each of their positions. *)
LEMMA StopEffect ==
    ASSUME TypeOK, ControllerStep
    PROVE  \/ /\ ctl = "notify_workers" /\ ctl' = "notify_supervisor"
              /\ wpc' = [t \in Thread |-> IF wpc[t] = "waiting" THEN "woken" ELSE wpc[t]]
              /\ UNCHANGED <<running, slots, numWorkers, spc>>
           \/ /\ ctl = "notify_supervisor" /\ ctl' = "join_workers" /\ cursor' = 0
              /\ spc' = IF spc = "waiting" THEN "lock" ELSE spc
              /\ UNCHANGED <<running, slots, numWorkers, wpc>>
           \/ /\ ctl = "join_workers" /\ ctl' = ctl /\ cursor < numWorkers /\ cursor' = cursor + 1
              /\ cursor \in Slot /\ JoinReturns(cursor)
              /\ UNCHANGED <<running, numWorkers, spc>>
           \/ /\ ctl = "join_workers" /\ ctl' = "join_supervisor" /\ cursor = numWorkers
              /\ UNCHANGED <<running, slots, numWorkers, wpc, spc>>
           \/ /\ ctl = "join_supervisor" /\ ctl' \in {"arm", "idle"}
              /\ spc = "exited" /\ spc' = "none"
              /\ UNCHANGED <<running, slots, numWorkers, wpc>>
           \/ /\ ctl = "arm" /\ ctl' = "spawn" /\ running' = TRUE
              /\ slots' = [k \in Slot |-> None] /\ UNCHANGED spc
           \/ /\ ctl = "spawn" /\ ctl' = ctl /\ cursor \in Slot /\ SpawnInto(cursor)
              /\ UNCHANGED <<running, spc>>
           \/ /\ ctl = "spawn" /\ ctl' = "idle" /\ spc' = "loop"
              /\ UNCHANGED <<running, slots, wpc>>
<1>1. CASE NotifyWorkers \/ NotifySupervisor
    BY <1>1 DEF NotifyWorkers, NotifySupervisor, CtlMoves
<1>2. CASE JoinWorker
    <2>1. cursor < numWorkers
        BY <1>2 DEF JoinWorker
    <2>2. numWorkers \in WorkerCounts
        BY <2>1 DEF TypeOK
    <2>3. cursor \in Slot
        BY <2>1, <2>2, SlotBelow DEF TypeOK
    <2> QED
        BY <1>2, <2>3 DEF JoinWorker
<1>3. CASE JoinedWorkers \/ JoinSupervisor
    BY <1>3 DEF JoinedWorkers, JoinSupervisor, CtlMoves, SupervisorMoves
<1>4. CASE Arm
    BY <1>4 DEF Arm, CtlMoves
<1>5. CASE SpawnWorker
    <2>1. cursor < pending
        BY <1>5 DEF SpawnWorker
    <2>2. pending \in WorkerCounts
        BY <2>1 DEF TypeOK
    <2>3. cursor \in Slot
        BY <2>1, <2>2, SlotBelow DEF TypeOK
    <2> QED
        BY <1>5, <2>3 DEF SpawnWorker
<1>6. CASE SpawnSupervisor
    BY <1>6 DEF SpawnSupervisor, CtlMoves, SupervisorMoves
<1> QED
    BY <1>1, <1>2, <1>3, <1>4, <1>5, <1>6 DEF ControllerStep

LEMMA StopInvKept == StopInv /\ [Next]_vars /\ TypeOK' => StopInv'
<1> SUFFICES ASSUME StopInv, [Next]_vars, TypeOK' PROVE HandlesLive' /\ Phases'
    BY DEF StopInv
<1>0. TypeOK /\ HandlesLive /\ Phases
    BY DEF StopInv
<1>t. wpc \in [Thread -> WorkerPC] /\ slots \in [Slot -> Thread \cup {None}]
    BY <1>0 DEF TypeOK
<1>1. ASSUME NEW a \in Task, SubmitCheck(a) \/ SubmitStep(a) PROVE HandlesLive' /\ Phases'
    <2>1. /\ UNCHANGED <<running, slots, ctl, spc>>
          /\ UNCHANGED wpc \/ \E t \in Thread : wpc' = [wpc EXCEPT ![t] = "woken"]
        BY <1>0, <1>1, ClientEffect
    <2>2. \A t \in Thread : wpc'[t] = "none" => wpc[t] = "none"
        BY <1>t, <2>1
    <2>3. HandlesLive'
        BY <1>0, <2>1, <2>2, HandlesSame
    <2> QED
        BY <1>0, <2>1, <2>3 DEF Phases, Stopping
<1>2. ASSUME NEW t \in Thread, WorkerStep(t) \/ WorkerSpuriousWakeup(t) \/ WorkerInterrupted(t)
      PROVE  HandlesLive' /\ Phases'
    <2>1. /\ UNCHANGED <<running, slots, ctl>>
          /\ spc' = spc \/ (spc = "waiting" /\ spc' = "lock")
          /\ \A u \in Thread : u # t => wpc'[u] = wpc[u]
          /\ wpc'[t] = "none" => ~Owned(t)
        BY <1>0, <1>2, WorkerEffect
    <2>2. HandlesLive'
        <3>1. ASSUME NEW k \in Slot, slots'[k] # None PROVE wpc'[slots'[k]] # "none"
            <4>1. slots'[k] = slots[k] /\ slots[k] \in Thread /\ wpc[slots[k]] # "none"
                BY <1>0, <1>t, <2>1, <3>1 DEF HandlesLive
            <4>2. CASE slots[k] = t
                BY <2>1, <4>1, <4>2 DEF Owned
            <4>3. CASE slots[k] # t
                BY <2>1, <4>1, <4>3
            <4> QED
                BY <4>2, <4>3
        <3> QED
            BY <1>0, <2>1, <3>1 DEF HandlesLive
    <2> QED
        BY <1>0, <2>1, <2>2 DEF Phases, Stopping
<1>3. ASSUME SupervisorStep \/ SupervisorSpuriousWakeup PROVE HandlesLive' /\ Phases'
    <2>1. UNCHANGED <<running, ctl>> /\ spc # "none" /\ spc' # "none"
        BY <1>0, <1>3, SupervisorEffect
    <2>2. Phases'
        BY <1>0, <2>1 DEF Phases, Stopping
    <2>3. \/ UNCHANGED <<slots, wpc>>
          \/ sid \in Slot /\ JoinReturns(sid)
          \/ sid \in Slot /\ SpawnInto(sid)
        BY <1>0, <1>3, SupervisorEffect
    <2>4. HandlesLive'
        BY <1>0, <2>3, HandlesSame, HandlesJoin, HandlesSpawn
    <2> QED
        BY <2>2, <2>4
<1>4. ASSUME StopCall \/ \E n \in WorkerCounts : StartCall(n) PROVE HandlesLive' /\ Phases'
    <2>1. /\ UNCHANGED <<slots, wpc, spc>> /\ ctl = "idle" /\ ~running'
          /\ ctl' = IF running THEN "notify_workers" ELSE "arm"
        BY <1>4 DEF StopCall, StartCall, CtlMoves
    <2>2. HandlesLive'
        BY <1>0, <2>1, HandlesSame
    <2> QED
        BY <1>0, <2>1, <2>2 DEF Phases, Stopping
<1>5. ASSUME ControllerStep PROVE HandlesLive' /\ Phases'
    <2>1. Phases'
        <3>1. running \in BOOLEAN
            BY <1>0 DEF TypeOK
        <3>2. \/ Stopping /\ Stopping' /\ running' = running /\ spc' \in {spc, "lock"}
              \/ Stopping /\ ctl' \in {"arm", "idle"} /\ running' = running /\ spc' = "none"
              \/ ctl = "arm" /\ ctl' = "spawn" /\ running' = TRUE /\ spc' = spc
              \/ ctl = "spawn" /\ ctl' = "spawn" /\ running' = running /\ spc' = spc
              \/ ctl = "spawn" /\ ctl' = "idle" /\ running' = running /\ spc' = "loop"
            BY <1>0, <1>5, StopEffect DEF Stopping
        <3> QED
            BY <1>0, <3>1, <3>2 DEF Phases, Stopping
    <2>2. \/ UNCHANGED slots /\ \A t \in Thread : wpc'[t] = "none" => wpc[t] = "none"
          \/ cursor \in Slot /\ (JoinReturns(cursor) \/ SpawnInto(cursor))
          \/ slots' = [k \in Slot |-> None]
        BY <1>0, <1>5, StopEffect
    <2>3. slots' = [k \in Slot |-> None] => HandlesLive'
        BY DEF HandlesLive
    <2>4. HandlesLive'
        BY <1>0, <2>2, <2>3, HandlesSame, HandlesJoin, HandlesSpawn
    <2> QED
        BY <2>1, <2>4
<1>6. CASE UNCHANGED vars
    BY <1>0, <1>6 DEF vars, HandlesLive, Phases, Stopping
<1> QED
    BY <1>1, <1>2, <1>3, <1>4, <1>5, <1>6 DEF Next

(* In any run, interrupted workers or not: a handle stands for one thread  *)
(* that is not joined yet, m_running is clear from the moment stop() takes *)
(* over until start() arms the pool again, and the supervisor is there     *)
(* just when the pool runs or a stop() has yet to join it.                 *)
THEOREM HandlesAndPhases == Spec => []StopInv
<1>1. Init => HandlesLive /\ Phases
    BY DEF Init, HandlesLive, Phases, Stopping
<1>2. Init => StopInv
    BY <1>1, TypeOKInit DEF StopInv
<1> QED
    BY <1>2, StopInvKept, TypeCorrect, PTL DEF Spec

-----------------------------------------------------------------------------
(* Whatever is left to join can still move. *)
LEMMA Moves ==
    ASSUME StopInv, Calm
    PROVE  StopCanMove \/ SupervisorCanMove \/ \E t \in Thread : WorkerCanMove(t)
<1>0. TypeOK /\ HandlesLive /\ ~running /\ spc # "none"
    BY DEF StopInv, Phases, Calm
<1>t. wpc \in [Thread -> WorkerPC] /\ slots \in [Slot -> Thread \cup {None}]
    BY <1>0 DEF TypeOK
<1>1. ASSUME NEW k \in Slot, ctl # "notify_workers", ~Joinable(k)
      PROVE  \E t \in Thread : WorkerCanMove(t)
    <2>1. slots[k] \in Thread /\ wpc[slots[k]] \notin {"none", "exited"}
        BY <1>0, <1>t, <1>1 DEF Joinable, HandlesLive
    <2>2. PICK t \in Thread : t = slots[k]
        BY <2>1
    <2>3. wpc[t] \in WorkerPC \ {"none", "exited", "waiting", "blocking"}
        BY <1>t, <1>1, <2>1, <2>2 DEF Calm, Waiting, TasksMutexFree
    <2>4. WorkerCanMove(t)
        BY <1>0, <2>3 DEF WorkerPC, Calm, WorkerCanMove
    <2> QED
        BY <2>4
<1>2. CASE ctl \in {"notify_workers", "notify_supervisor"}
    BY <1>2 DEF StopCanMove
<1>3. CASE ctl = "join_workers"
    <2>1. cursor \in Nat /\ numWorkers \in WorkerCounts \cup {0} /\ cursor <= numWorkers
        BY <1>0, <1>3 DEF TypeOK
    <2>2. cursor = numWorkers \/ cursor < numWorkers
        BY <2>1, CountsAssumption
    <2>3. CASE cursor = numWorkers
        BY <1>3, <2>3 DEF StopCanMove
    <2>4. CASE cursor < numWorkers
        <3>1. numWorkers \in WorkerCounts
            BY <2>1, <2>4
        <3>2. cursor \in Slot
            BY <2>1, <2>4, <3>1, SlotBelow
        <3> QED
            BY <1>1, <1>3, <2>4, <3>2 DEF StopCanMove
    <2> QED
        BY <2>2, <2>3, <2>4
<1>4. CASE ctl = "join_supervisor"
    <2>1. spc \in {"loop", "lock", "join", "respawn", "exited"}
        BY <1>0, <1>4 DEF TypeOK, SupervisorPC, Calm, FinishedMutexFree
    <2>2. CASE spc = "exited"
        BY <1>4, <2>2 DEF StopCanMove
    <2>3. CASE spc \in {"loop", "lock", "respawn"}
        BY <1>0, <2>3 DEF SupervisorCanMove
    <2>4. CASE spc = "join"
        <3>1. sid \in Slot
            BY <1>0, <2>4 DEF TypeOK
        <3> QED
            BY <1>1, <1>4, <2>4, <3>1 DEF SupervisorCanMove
    <2> QED
        BY <2>1, <2>2, <2>3, <2>4
<1> QED
    BY <1>2, <1>3, <1>4 DEF Calm, Stopping

(* No deadlock of stop() and the pool: as long as nobody is between his    *)
(* wait predicate and his wait, stop() can join the next thread, or that   *)
(* thread (or the supervisor) has a step to take.                          *)
THEOREM StopIsNeverStuck == Spec => []SomebodyCanMove
<1>1. StopInv => SomebodyCanMove
    BY Moves DEF SomebodyCanMove
<1> QED
    BY <1>1, HandlesAndPhases, PTL

-----------------------------------------------------------------------------
(* Once stop() is calm it stays so until it returns. *)
LEMMA CalmKept ==
    ASSUME StopInv, Calm, [Next]_vars
    PROVE  Calm' \/ ctl' \in {"arm", "idle"}
<1>0. TypeOK /\ ~running /\ Stopping /\ spc # "blocking" /\ \A u \in Thread : wpc[u] # "blocking"
    BY DEF StopInv, Phases, Calm, TasksMutexFree, FinishedMutexFree
<1>t. wpc \in [Thread -> WorkerPC]
    BY <1>0 DEF TypeOK
<1>1. ASSUME ctl' = ctl, \A u \in Thread : wpc'[u] # "blocking" /\ (wpc'[u] = "waiting" => wpc[u] = "waiting"),
             spc' # "blocking", spc' = "waiting" => spc = "waiting"
      PROVE  Calm'
    BY <1>1 DEF Calm, Stopping, TasksMutexFree, FinishedMutexFree, Waiting
<1>2. ASSUME NEW a \in Task, SubmitCheck(a) \/ SubmitStep(a) PROVE Calm'
    <2>1. /\ UNCHANGED <<ctl, spc>>
          /\ UNCHANGED wpc \/ \E t \in Thread : wpc' = [wpc EXCEPT ![t] = "woken"]
        BY <1>0, <1>2, ClientEffect
    <2>2. \A u \in Thread : wpc'[u] = wpc[u] \/ wpc'[u] = "woken"
        BY <1>t, <2>1
    <2> QED
        BY <1>0, <1>1, <2>1, <2>2
<1>3. ASSUME NEW t \in Thread, WorkerStep(t) \/ WorkerSpuriousWakeup(t) \/ WorkerInterrupted(t)
      PROVE  Calm'
    <2>1. ctl' = ctl /\ (spc' = spc \/ spc' = "lock") /\ \A u \in Thread : u # t => wpc'[u] = wpc[u]
        BY <1>0, <1>3, WorkerEffect
    <2>2. wpc'[t] \in {"exit", "loop", "exited", "none", "woken"}
        BY <1>0, <1>3, WorkerEffect
    <2>3. \A u \in Thread : wpc'[u] # "blocking" /\ (wpc'[u] = "waiting" => wpc[u] = "waiting")
        BY <1>0, <2>1, <2>2
    <2> QED
        BY <1>0, <1>1, <2>1, <2>3
<1>4. ASSUME SupervisorStep \/ SupervisorSpuriousWakeup PROVE Calm'
    <2>1. ctl' = ctl /\ spc' \in {"exited", "lock", "loop"}
        BY <1>0, <1>4, SupervisorEffect
    <2>2. UNCHANGED wpc \/ (\E k \in Slot : JoinReturns(k)) \/ \E k \in Slot : SpawnInto(k)
        BY <1>0, <1>4, SupervisorEffect
    <2>3. \A u \in Thread : wpc'[u] \in {wpc[u], "none", "loop"}
        BY <1>t, <2>2 DEF JoinReturns, SpawnInto
    <2> QED
        BY <1>0, <1>1, <2>1, <2>3
<1>5. ASSUME StopCall \/ \E n \in WorkerCounts : StartCall(n) PROVE FALSE
    BY <1>0, <1>5 DEF StopCall, StartCall, CtlMoves, Stopping
<1>6. ASSUME ControllerStep PROVE Calm' \/ ctl' \in {"arm", "idle"}
    <2>1. CASE /\ ctl = "notify_workers" /\ ctl' = "notify_supervisor"
               /\ wpc' = [u \in Thread |-> IF wpc[u] = "waiting" THEN "woken" ELSE wpc[u]]
               /\ spc' = spc
        BY <1>0, <2>1 DEF Calm, Stopping, TasksMutexFree, FinishedMutexFree, Waiting
    <2>2. CASE /\ ctl = "notify_supervisor" /\ ctl' = "join_workers" /\ wpc' = wpc
               /\ spc' = IF spc = "waiting" THEN "lock" ELSE spc
        BY <1>0, <2>2 DEF Calm, Stopping, TasksMutexFree, FinishedMutexFree, Waiting
    <2>3. CASE /\ ctl = "join_workers" /\ ctl' = ctl /\ cursor \in Slot /\ JoinReturns(cursor)
               /\ spc' = spc
        <3>1. \A u \in Thread : wpc'[u] \in {wpc[u], "none"}
            BY <1>t, <2>3 DEF JoinReturns
        <3> QED
            BY <1>0, <1>1, <2>3, <3>1
    <2>4. CASE ctl = "join_workers" /\ ctl' = "join_supervisor" /\ UNCHANGED <<wpc, spc>>
        BY <2>4 DEF Calm, Stopping, TasksMutexFree, FinishedMutexFree, Waiting
    <2>5. CASE ctl = "join_supervisor" /\ ctl' \in {"arm", "idle"}
        BY <2>5
    <2>6. ctl \notin {"arm", "spawn"}
        BY <1>0 DEF Stopping
    <2> QED
        BY <1>0, <1>6, <2>1, <2>2, <2>3, <2>4, <2>5, <2>6, StopEffect
<1>7. CASE UNCHANGED vars
    BY <1>0, <1>1, <1>7 DEF vars
<1> QED
    BY <1>2, <1>3, <1>4, <1>5, <1>6, <1>7 DEF Next

(* From a stop() that finds nobody between predicate and wait, no step     *)
(* puts a thread to sleep until stop() has joined them all: no push, no    *)
(* spurious wake-up, no interruption and no thread started meanwhile.      *)
THEOREM NobodyFallsAsleep == Spec => [][Calm => Calm' \/ ctl' \in {"arm", "idle"}]_vars
<1>1. StopInv /\ [Next]_vars => [Calm => Calm' \/ ctl' \in {"arm", "idle"}]_vars
    BY CalmKept
<1> QED
    BY <1>1, HandlesAndPhases, PTL DEF Spec

LEMMA WorkerRankBelow ==
    ASSUME NEW t \in Thread
    PROVE  WorkerRank(t) \in 0 .. 4
BY DEF WorkerRank

LEMMA NobodyBack ==
    ASSUME \A t \in Thread : wpc'[t] = wpc[t]
    PROVE  \A t \in Thread : WorkerRank(t)' = WorkerRank(t)
BY DEF WorkerRank

LEMMA OneNearer ==
    ASSUME NEW t \in Thread, \A u \in Thread : u # t => wpc'[u] = wpc[u],
           WorkerRank(t)' < WorkerRank(t)
    PROVE  /\ \A u \in Thread : WorkerRank(u)' <= WorkerRank(u)
           /\ \E u \in Thread : WorkerRank(u)' < WorkerRank(u)
<1>1. ASSUME NEW u \in Thread PROVE WorkerRank(u)' <= WorkerRank(u)
    <2>1. CASE u = t
        BY <2>1, WorkerRankBelow DEF WorkerRank
    <2>2. CASE u # t
        <3>1. wpc'[u] = wpc[u]
            BY <2>2
        <3>2. WorkerRank(u)' = WorkerRank(u)
            BY <3>1 DEF WorkerRank
        <3> QED
            BY <3>2, WorkerRankBelow
    <2> QED
        BY <2>1, <2>2
<1> QED
    BY <1>1

LEMMA Descends ==
    ASSUME StopInv, Calm, Calm', [Next]_vars
    PROVE  UNCHANGED <<ctl, cursor, spc, wpc>> \/ Downwards
<1>0. /\ TypeOK /\ ~running /\ Stopping /\ spc # "blocking" /\ Stopping'
      /\ \A u \in Thread : wpc[u] # "blocking"
    BY DEF StopInv, Phases, Calm, TasksMutexFree, FinishedMutexFree
<1>t. /\ wpc \in [Thread -> WorkerPC] /\ slots \in [Slot -> Thread \cup {None}]
      /\ cursor \in Nat /\ numWorkers \in Nat /\ spc \in SupervisorPC
    BY <1>0, CountsAssumption DEF TypeOK
<1>s. StopRank \in Int /\ SupervisorRank \in Int
    BY <1>t DEF StopRank, SupervisorRank
(* The supervisor gets nearer. *)
<1>1. ASSUME SupervisorRank' < SupervisorRank PROVE Downwards
    BY <1>1 DEF Downwards
(* One worker gets nearer, nothing else moves. *)
<1>2. ASSUME NEW t \in Thread, \A u \in Thread : u # t => wpc'[u] = wpc[u],
             WorkerRank(t)' < WorkerRank(t), UNCHANGED <<ctl, cursor, numWorkers, spc>>
      PROVE  Downwards
    <2>1. StopRank' = StopRank /\ SupervisorRank' = SupervisorRank
        BY <1>2 DEF StopRank, SupervisorRank
    <2> QED
        BY <1>2, <1>s, <2>1, OneNearer DEF Downwards
<1>w. spc = "waiting" /\ spc' = "lock" => SupervisorRank' < SupervisorRank
    BY DEF SupervisorRank
<1>3. ASSUME NEW a \in Task, SubmitCheck(a) \/ SubmitStep(a)
      PROVE  UNCHANGED <<ctl, cursor, spc, wpc>> \/ Downwards
    <2>1. UNCHANGED <<ctl, cursor, numWorkers, spc>>
        BY <1>0, <1>3, ClientEffect
    <2>2. ASSUME NEW t \in Thread, wpc[t] = "waiting", wpc' = [wpc EXCEPT ![t] = "woken"]
          PROVE  Downwards
        <3>1. wpc'[t] = "woken" /\ \A u \in Thread : u # t => wpc'[u] = wpc[u]
            BY <1>t, <2>2
        <3>2. WorkerRank(t)' < WorkerRank(t)
            BY <2>2, <3>1 DEF WorkerRank
        <3> QED
            BY <1>2, <2>1, <3>1, <3>2
    <2> QED
        BY <1>0, <1>3, <2>1, <2>2, ClientEffect
<1>4. ASSUME NEW t \in Thread, WorkerStep(t) \/ WorkerSpuriousWakeup(t) \/ WorkerInterrupted(t)
      PROVE  Downwards
    <2>1. /\ UNCHANGED <<ctl, cursor, numWorkers>>
          /\ spc' = spc \/ (spc = "waiting" /\ spc' = "lock")
          /\ \A u \in Thread : u # t => wpc'[u] = wpc[u]
        BY <1>0, <1>4, WorkerEffect
    <2>2. \/ wpc[t] \in {"loop", "lock", "woken", "waiting"} /\ wpc'[t] = "exit"
          \/ wpc[t] = "run" /\ wpc'[t] = "loop"
          \/ wpc[t] = "exit" /\ wpc'[t] \in {"exited", "none"}
          \/ wpc[t] = "waiting" /\ wpc'[t] = "woken"
        BY <1>0, <1>4, WorkerEffect
    <2>3. WorkerRank(t)' < WorkerRank(t)
        BY <2>2 DEF WorkerRank
    <2> QED
        BY <1>1, <1>2, <1>w, <2>1, <2>3
<1>5. ASSUME SupervisorStep \/ SupervisorSpuriousWakeup PROVE Downwards
    <2>1. \/ spc \in {"loop", "lock", "join"} /\ spc' = "exited"
          \/ spc = "waiting" /\ spc' = "lock"
          \/ spc = "respawn" /\ spc' = "loop"
        BY <1>0, <1>5, SupervisorEffect
    <2>2. SupervisorRank' < SupervisorRank
        BY <2>1 DEF SupervisorRank
    <2> QED
        BY <1>1, <2>2
<1>6. ASSUME StopCall \/ \E n \in WorkerCounts : StartCall(n) PROVE FALSE
    BY <1>0, <1>6 DEF StopCall, StartCall, CtlMoves, Stopping
(* A join: stop() gets nearer, and so does the thread that is joined. *)
<1>7. ASSUME ctl = "join_workers", ctl' = ctl, cursor < numWorkers, cursor' = cursor + 1,
             cursor \in Slot, JoinReturns(cursor), UNCHANGED <<numWorkers, spc>>
      PROVE  Downwards
    <2>1. StopRank = numWorkers - cursor + 1 /\ StopRank' = numWorkers - (cursor + 1) + 1
        BY <1>7 DEF StopRank
    <2>2. SupervisorRank' = SupervisorRank
        BY <1>7 DEF SupervisorRank
    <2>3. ASSUME NEW t \in Thread PROVE WorkerRank(t)' <= WorkerRank(t)
        <3>1. wpc'[t] \in {wpc[t], "none"}
            BY <1>7, <1>t DEF JoinReturns
        <3> QED
            BY <3>1 DEF WorkerRank
    <2> QED
        BY <1>t, <2>1, <2>2, <2>3 DEF Downwards
<1>8. ASSUME ctl = "notify_workers", ctl' = "notify_supervisor",
             wpc' = [t \in Thread |-> IF wpc[t] = "waiting" THEN "woken" ELSE wpc[t]],
             UNCHANGED <<numWorkers, spc>>
      PROVE  Downwards
    <2>1. StopRank = numWorkers + 3 /\ StopRank' = numWorkers + 2
        BY <1>8 DEF StopRank
    <2>2. SupervisorRank' = SupervisorRank
        BY <1>8 DEF SupervisorRank
    <2>3. ASSUME NEW t \in Thread PROVE WorkerRank(t)' <= WorkerRank(t)
        <3>1. wpc'[t] = wpc[t] \/ (wpc[t] = "waiting" /\ wpc'[t] = "woken")
            BY <1>8
        <3> QED
            BY <3>1 DEF WorkerRank
    <2> QED
        BY <1>t, <2>1, <2>2, <2>3 DEF Downwards
<1>9. ASSUME UNCHANGED <<numWorkers, wpc>>, spc' = spc \/ (spc = "waiting" /\ spc' = "lock"),
             \/ ctl = "notify_supervisor" /\ ctl' = "join_workers" /\ cursor' = 0
             \/ ctl = "join_workers" /\ ctl' = "join_supervisor" /\ cursor = numWorkers
      PROVE  Downwards
    <2>1. StopRank' < StopRank /\ StopRank' \in Int
        BY <1>9, <1>t DEF StopRank
    <2>2. \A t \in Thread : WorkerRank(t)' <= WorkerRank(t)
        BY <1>9, NobodyBack, WorkerRankBelow
    <2>3. CASE spc' = spc
        <3>1. SupervisorRank' = SupervisorRank
            BY <2>3 DEF SupervisorRank
        <3> QED
            BY <1>s, <2>1, <2>2, <3>1 DEF Downwards
    <2> QED
        BY <1>1, <1>9, <1>w, <2>3
<1>10. ASSUME ControllerStep PROVE Downwards
    <2>1. ctl \notin {"arm", "spawn"} /\ ctl' \notin {"arm", "idle"}
        BY <1>0 DEF Stopping
    <2> QED
        BY <1>0, <1>7, <1>8, <1>9, <1>10, <2>1, StopEffect
<1> QED
    BY <1>3, <1>4, <1>5, <1>6, <1>10 DEF Next, vars

(* Each step of the pool or of stop() brings stop() nearer its return in a *)
(* well-founded order: first the supervisor, then workers and stop()       *)
(* together.  With finitely many threads there are finitely many steps,    *)
(* whatever clients submit and however often a thread is interrupted.      *)
THEOREM StopComesToAnEnd ==
    Spec => [][Calm /\ Calm' => UNCHANGED <<ctl, cursor, spc, wpc>> \/ Downwards]_vars
<1>1. StopInv /\ [Next]_vars => [Calm /\ Calm' => UNCHANGED <<ctl, cursor, spc, wpc>> \/ Downwards]_vars
    BY Descends
<1> QED
    BY <1>1, HandlesAndPhases, PTL DEF Spec
===============================================================================
