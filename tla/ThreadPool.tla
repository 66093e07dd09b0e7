------------------------------ MODULE ThreadPool ------------------------------
(***************************************************************************)
(* SupervisedThreadPool: worker threads that take tasks from one bounded   *)
(* queue, a supervisor that replaces a worker whose thread ended, and the  *)
(* start() / stop() / submit() calls of the threads that use the pool.     *)
(*                                                                         *)
(* Every thread advances one atomic step at a time.  A step is a maximal   *)
(* piece of code that reads or writes shared state once: a critical        *)
(* section, an access of the atomic flag m_running, a join that succeeds.  *)
(* The two mutexes are not variables: a thread that sits inside a critical *)
(* section between two steps is one whose program position is "blocking"   *)
(* (it has tested its wait predicate and has not yet released the mutex in *)
(* condition_variable::wait), and every other critical section is a single *)
(* step whose guard says that nobody is there.                             *)
(***************************************************************************)
EXTENDS Integers, Sequences, FiniteSets

CONSTANTS
    Task,           \* the tasks clients submit, each one at most once
    Thread,         \* identities of worker threads, reused after a join
    WorkerCounts,   \* the arguments start() may be called with
    MaxQueueSize,   \* m_maxQueueSize, 0 for "no limit"
    MaxStarts,      \* bound: calls of start()
    MaxInterrupts,  \* bound: workers that end by boost::thread_interrupted
    None            \* no thread, no task

ASSUME CountsAssumption == WorkerCounts \subseteq Nat
ASSUME QueueAssumption == MaxQueueSize \in Nat
ASSUME BoundsAssumption == MaxStarts \in Nat /\ MaxInterrupts \in Nat
ASSUME NoneAssumption == None \notin Task \cup Thread

VARIABLES
    running,     \* m_running
    numWorkers,  \* m_numWorkers, also m_workers.size() once start() returned
    slots,       \* m_workers: worker id -> joinable handle, or None
    tasks,       \* m_tasks
    finished,    \* m_finishedIds
    wpc,         \* program position of each worker thread
    wslot,       \* workerId argument of each worker thread
    wtask,       \* the local variable "task" of each worker thread
    spc,         \* program position of the supervisor
    sid,         \* the local variable "id" of the supervisor
    ctl,         \* position of the thread that calls start() and stop()
    pending,     \* numWorkers argument of the start() in progress, else 0
    cursor,      \* loop index of start() and stop()
    sub,         \* progress of the submit() call of each task
    done,        \* tasks whose execution ended (history)
    starts,      \* calls of start() so far (bounded by MaxStarts)
    interrupts   \* workers interrupted so far (bounded by MaxInterrupts)

poolVars == <<running, numWorkers, slots, tasks, finished>>
workerVars == <<wpc, wslot, wtask>>
supVars == <<spc, sid>>
ctlVars == <<ctl, pending, cursor, starts>>
vars == <<poolVars, workerVars, supVars, ctlVars, sub, done, interrupts>>

WorkerPC == {"none", "loop", "lock", "blocking", "waiting", "woken", "run", "exit", "exited"}
SupervisorPC == {"none", "loop", "lock", "blocking", "waiting", "join", "respawn", "exited"}
ControllerPC == {"idle", "notify_workers", "notify_supervisor", "join_workers",
                 "join_supervisor", "arm", "spawn"}
SubmitPC == {"idle", "entering", "notifying", "accepted", "refused"}
Slot == UNION {0 .. (n - 1) : n \in WorkerCounts}

Init ==
    /\ running = FALSE
    /\ numWorkers = 0
    /\ slots = [k \in Slot |-> None]
    /\ tasks = <<>>
    /\ finished = <<>>
    /\ wpc = [t \in Thread |-> "none"]
    /\ wslot = [t \in Thread |-> 0]
    /\ wtask = [t \in Thread |-> None]
    /\ spc = "none"
    /\ sid = 0
    /\ ctl = "idle"
    /\ pending = 0
    /\ cursor = 0
    /\ sub = [a \in Task |-> "idle"]
    /\ done = {}
    /\ starts = 0
    /\ interrupts = 0

-----------------------------------------------------------------------------
(* m_tasksMutex is free when no worker is about to wait on m_tasksCond,    *)
(* m_finishedMutex when the supervisor is not about to wait.               *)
TasksMutexFree == \A t \in Thread : wpc[t] # "blocking"
FinishedMutexFree == spc # "blocking"

Owned(t) == \E k \in Slot : slots[k] = t
Waiting == {t \in Thread : wpc[t] = "waiting"}

(* boost::thread(&workerLoop, this, k), stored in m_workers[k]. *)
SpawnInto(k) ==
    \E t \in Thread :
        /\ wpc[t] = "none"
        /\ wpc' = [wpc EXCEPT ![t] = "loop"]
        /\ wslot' = [wslot EXCEPT ![t] = k]
        /\ slots' = [slots EXCEPT ![k] = t]

(* A join of m_workers[k] returns: the handle is no longer joinable, or    *)
(* its thread has ended, and then the handle is released.                  *)
JoinReturns(k) ==
    \/ /\ slots[k] = None
       /\ UNCHANGED <<slots, wpc>>
    \/ /\ slots[k] # None
       /\ wpc[slots[k]] = "exited"
       /\ wpc' = [wpc EXCEPT ![slots[k]] = "none"]
       /\ slots' = [slots EXCEPT ![k] = None]

-----------------------------------------------------------------------------
(* submit(task): the flag is read without the lock ... *)
SubmitCheck(a) ==
    /\ sub[a] = "idle"
    /\ sub' = [sub EXCEPT ![a] = IF running THEN "entering" ELSE "refused"]
    /\ UNCHANGED <<poolVars, workerVars, supVars, ctlVars, done, interrupts>>

(* ... then, in the critical section, the bound is tested and the task is  *)
(* queued or refused.  The flag is not read again.                         *)
SubmitPushUnlessFull(a, full) ==
    /\ sub[a] = "entering"
    /\ TasksMutexFree
    /\ IF full
       THEN /\ sub' = [sub EXCEPT ![a] = "refused"]
            /\ UNCHANGED tasks
       ELSE /\ sub' = [sub EXCEPT ![a] = "notifying"]
            /\ tasks' = Append(tasks, a)
    /\ UNCHANGED <<running, numWorkers, slots, finished>>
    /\ UNCHANGED <<workerVars, supVars, ctlVars, done, interrupts>>

(* Deliberate fault: a queue one longer than the bound. *)
SubmitPushOffByOne(a) == SubmitPushUnlessFull(a, MaxQueueSize > 0 /\ Len(tasks) > MaxQueueSize)

SubmitPush(a) == SubmitPushUnlessFull(a, MaxQueueSize > 0 /\ Len(tasks) >= MaxQueueSize)

(* Deliberate fault: the push wakes nobody. *)
SubmitSilently(a) ==
    /\ sub[a] = "notifying"
    /\ sub' = [sub EXCEPT ![a] = "accepted"]
    /\ UNCHANGED <<poolVars, workerVars, supVars, ctlVars, done, interrupts>>

(* m_tasksCond.notify_one() after the mutex is released. *)
SubmitNotify(a) ==
    /\ sub[a] = "notifying"
    /\ sub' = [sub EXCEPT ![a] = "accepted"]
    /\ IF Waiting = {}
       THEN UNCHANGED wpc
       ELSE \E t \in Waiting : wpc' = [wpc EXCEPT ![t] = "woken"]
    /\ UNCHANGED <<poolVars, wslot, wtask, supVars, ctlVars, done, interrupts>>

SubmitStep(a) == SubmitPush(a) \/ SubmitNotify(a)

-----------------------------------------------------------------------------
WorkerMoves(t, from, to) ==
    /\ wpc[t] \in from
    /\ wpc' = [wpc EXCEPT ![t] = to]

(* The test of the outer while loop. *)
WorkerLoop(t) ==
    /\ WorkerMoves(t, {"loop"}, IF running THEN "lock" ELSE "exit")
    /\ UNCHANGED <<poolVars, wslot, wtask, supVars, ctlVars, sub, done, interrupts>>

(* The mutex is acquired, at first or on the way out of wait(), and the    *)
(* predicate of the inner loop is tested: nothing to do and still running. *)
WorkerBlock(t) ==
    /\ TasksMutexFree
    /\ tasks = <<>> /\ running
    /\ WorkerMoves(t, {"lock", "woken"}, "blocking")
    /\ UNCHANGED <<poolVars, wslot, wtask, supVars, ctlVars, sub, done, interrupts>>

(* wait() puts the thread to sleep and releases the mutex. *)
WorkerWait(t) ==
    /\ WorkerMoves(t, {"blocking"}, "waiting")
    /\ UNCHANGED <<poolVars, wslot, wtask, supVars, ctlVars, sub, done, interrupts>>

(* Out of the inner loop with the pool stopped: break, whatever is queued. *)
WorkerQuit(t) ==
    /\ TasksMutexFree
    /\ ~running
    /\ WorkerMoves(t, {"lock", "woken"}, "exit")
    /\ UNCHANGED <<poolVars, wslot, wtask, supVars, ctlVars, sub, done, interrupts>>

(* Deliberate fault: the front task is copied and never popped. *)
WorkerTakeWithoutPop(t) ==
    /\ TasksMutexFree
    /\ running /\ tasks # <<>>
    /\ WorkerMoves(t, {"lock", "woken"}, "run")
    /\ wtask' = [wtask EXCEPT ![t] = Head(tasks)]
    /\ UNCHANGED <<poolVars, wslot, supVars, ctlVars, sub, done, interrupts>>

(* Out of the inner loop with the pool running: the front task is taken. *)
WorkerTake(t) ==
    /\ TasksMutexFree
    /\ running /\ tasks # <<>>
    /\ WorkerMoves(t, {"lock", "woken"}, "run")
    /\ wtask' = [wtask EXCEPT ![t] = Head(tasks)]
    /\ tasks' = Tail(tasks)
    /\ UNCHANGED <<running, numWorkers, slots, finished, wslot>>
    /\ UNCHANGED <<supVars, ctlVars, sub, done, interrupts>>

(* task() returns, or throws and the exception is swallowed. *)
WorkerFinishTask(t) ==
    /\ WorkerMoves(t, {"run"}, "loop")
    /\ done' = done \cup {wtask[t]}
    /\ wtask' = [wtask EXCEPT ![t] = None]
    /\ UNCHANGED <<poolVars, wslot, supVars, ctlVars, sub, interrupts>>

(* Deliberate fault: pushFinished() does not notify the supervisor. *)
WorkerExitSilently(t) ==
    /\ FinishedMutexFree
    /\ WorkerMoves(t, {"exit"}, IF Owned(t) THEN "exited" ELSE "none")
    /\ finished' = Append(finished, wslot[t])
    /\ UNCHANGED <<running, numWorkers, slots, tasks, wslot, wtask, supVars>>
    /\ UNCHANGED <<ctlVars, sub, done, interrupts>>

(* ~ExitNotify() calls pushFinished(id), then the thread function returns. *)
(* Nobody will join a thread whose handle is gone: it simply ends.         *)
WorkerExit(t) ==
    /\ FinishedMutexFree
    /\ WorkerMoves(t, {"exit"}, IF Owned(t) THEN "exited" ELSE "none")
    /\ finished' = Append(finished, wslot[t])
    /\ spc' = IF spc = "waiting" THEN "lock" ELSE spc
    /\ UNCHANGED <<running, numWorkers, slots, tasks, wslot, wtask, sid>>
    /\ UNCHANGED <<ctlVars, sub, done, interrupts>>

WorkerStep(t) ==
    \/ WorkerLoop(t) \/ WorkerBlock(t) \/ WorkerWait(t) \/ WorkerQuit(t)
    \/ WorkerTake(t) \/ WorkerFinishTask(t) \/ WorkerExit(t)

(* The environment: a spurious wake-up, or boost::thread_interrupted       *)
(* thrown out of wait(), the one exception with which a worker thread can  *)
(* end without ending the process.                                         *)
WorkerSpuriousWakeup(t) ==
    /\ WorkerMoves(t, {"waiting"}, "woken")
    /\ UNCHANGED <<poolVars, wslot, wtask, supVars, ctlVars, sub, done, interrupts>>

WorkerInterrupted(t) ==
    /\ interrupts < MaxInterrupts
    /\ interrupts' = interrupts + 1
    /\ WorkerMoves(t, {"waiting", "woken"}, "exit")
    /\ UNCHANGED <<poolVars, wslot, wtask, supVars, ctlVars, sub, done>>

-----------------------------------------------------------------------------
SupervisorMoves(from, to) == spc = from /\ spc' = to

SupervisorLoop ==
    /\ SupervisorMoves("loop", IF running THEN "lock" ELSE "exited")
    /\ sid' = 0
    /\ UNCHANGED <<poolVars, workerVars, ctlVars, sub, done, interrupts>>

SupervisorBlock ==
    /\ finished = <<>> /\ running
    /\ SupervisorMoves("lock", "blocking")
    /\ UNCHANGED <<poolVars, workerVars, sid, ctlVars, sub, done, interrupts>>

SupervisorWait ==
    /\ SupervisorMoves("blocking", "waiting")
    /\ UNCHANGED <<poolVars, workerVars, sid, ctlVars, sub, done, interrupts>>

SupervisorQuit ==
    /\ ~running
    /\ SupervisorMoves("lock", "exited")
    /\ UNCHANGED <<poolVars, workerVars, sid, ctlVars, sub, done, interrupts>>

(* The front of m_finishedIds is popped; an id beyond m_workers.size() is  *)
(* skipped.                                                                *)
SupervisorTakeId ==
    /\ running /\ finished # <<>>
    /\ SupervisorMoves("lock", IF Head(finished) < numWorkers THEN "join" ELSE "loop")
    /\ sid' = Head(finished)
    /\ finished' = Tail(finished)
    /\ UNCHANGED <<running, numWorkers, slots, tasks, workerVars, ctlVars, sub, done, interrupts>>

(* m_workers[id].join() returns and m_running is read again. *)
SupervisorJoin ==
    /\ SupervisorMoves("join", IF running THEN "respawn" ELSE "exited")
    /\ JoinReturns(sid)
    /\ UNCHANGED <<running, numWorkers, tasks, finished, wslot, wtask, sid>>
    /\ UNCHANGED <<ctlVars, sub, done, interrupts>>

(* m_workers[id] = boost::thread(...): the flag may have changed since. *)
SupervisorRespawn ==
    /\ SupervisorMoves("respawn", "loop")
    /\ SpawnInto(sid)
    /\ UNCHANGED <<running, numWorkers, tasks, finished, wtask, sid>>
    /\ UNCHANGED <<ctlVars, sub, done, interrupts>>

SupervisorStep ==
    \/ SupervisorLoop \/ SupervisorBlock \/ SupervisorWait \/ SupervisorQuit
    \/ SupervisorTakeId \/ SupervisorJoin \/ SupervisorRespawn

SupervisorSpuriousWakeup ==
    /\ SupervisorMoves("waiting", "lock")
    /\ UNCHANGED <<poolVars, workerVars, sid, ctlVars, sub, done, interrupts>>

-----------------------------------------------------------------------------
CtlMoves(from, to) == ctl = from /\ ctl' = to

(* stop() on a running pool: m_running is cleared without any mutex.  On a *)
(* stopped pool it returns at once.                                        *)
StopCall ==
    /\ running
    /\ running' = FALSE
    /\ CtlMoves("idle", "notify_workers")
    /\ UNCHANGED <<numWorkers, slots, tasks, finished, workerVars, supVars>>
    /\ UNCHANGED <<pending, cursor, starts, sub, done, interrupts>>

(* start(n), n > 0, begins with a stop(). *)
StartCall(n) ==
    /\ n > 0
    /\ starts < MaxStarts
    /\ starts' = starts + 1
    /\ pending' = n
    /\ running' = FALSE
    /\ CtlMoves("idle", IF running THEN "notify_workers" ELSE "arm")
    /\ UNCHANGED <<numWorkers, slots, tasks, finished, workerVars, supVars>>
    /\ UNCHANGED <<cursor, sub, done, interrupts>>

(* Deliberate fault: notify_one() in place of notify_all(). *)
NotifyOneWorker ==
    /\ CtlMoves("notify_workers", "notify_supervisor")
    /\ IF Waiting = {}
       THEN UNCHANGED wpc
       ELSE \E t \in Waiting : wpc' = [wpc EXCEPT ![t] = "woken"]
    /\ UNCHANGED <<poolVars, wslot, wtask, supVars>>
    /\ UNCHANGED <<pending, cursor, starts, sub, done, interrupts>>

NotifyWorkers ==
    /\ CtlMoves("notify_workers", "notify_supervisor")
    /\ wpc' = [t \in Thread |-> IF wpc[t] = "waiting" THEN "woken" ELSE wpc[t]]
    /\ UNCHANGED <<poolVars, wslot, wtask, supVars>>
    /\ UNCHANGED <<pending, cursor, starts, sub, done, interrupts>>

NotifySupervisor ==
    /\ CtlMoves("notify_supervisor", "join_workers")
    /\ spc' = IF spc = "waiting" THEN "lock" ELSE spc
    /\ cursor' = 0
    /\ UNCHANGED <<poolVars, workerVars, sid, pending, starts, sub, done, interrupts>>

(* Deliberate fault: the join loop runs one index too far. *)
JoinOneTooMany ==
    /\ ctl = "join_workers"
    /\ cursor <= numWorkers
    /\ JoinReturns(cursor)
    /\ cursor' = cursor + 1
    /\ UNCHANGED <<running, numWorkers, tasks, finished, wslot, wtask, supVars>>
    /\ UNCHANGED <<ctl, pending, starts, sub, done, interrupts>>

JoinWorker ==
    /\ ctl = "join_workers"
    /\ cursor < numWorkers
    /\ JoinReturns(cursor)
    /\ cursor' = cursor + 1
    /\ UNCHANGED <<running, numWorkers, tasks, finished, wslot, wtask, supVars>>
    /\ UNCHANGED <<ctl, pending, starts, sub, done, interrupts>>

(* Deliberate fault: the join loop ends one index too early. *)
JoinedAllButOne ==
    /\ cursor >= numWorkers - 1
    /\ CtlMoves("join_workers", "join_supervisor")
    /\ UNCHANGED <<poolVars, workerVars, supVars>>
    /\ UNCHANGED <<pending, cursor, starts, sub, done, interrupts>>

JoinedWorkers ==
    /\ cursor = numWorkers
    /\ CtlMoves("join_workers", "join_supervisor")
    /\ UNCHANGED <<poolVars, workerVars, supVars>>
    /\ UNCHANGED <<pending, cursor, starts, sub, done, interrupts>>

JoinSupervisor ==
    /\ CtlMoves("join_supervisor", IF pending > 0 THEN "arm" ELSE "idle")
    /\ SupervisorMoves("exited", "none")
    /\ cursor' = 0
    /\ UNCHANGED <<poolVars, workerVars, sid, pending, starts, sub, done, interrupts>>

(* start() after its stop(): m_running is set and m_workers.clear() drops  *)
(* the handles, which detaches the threads still behind them.  m_tasks and *)
(* m_finishedIds are kept as the previous run of the pool left them.       *)
Arm ==
    /\ CtlMoves("arm", "spawn")
    /\ running' = TRUE
    /\ numWorkers' = pending
    /\ slots' = [k \in Slot |-> None]
    /\ wpc' = [t \in Thread |-> IF wpc[t] = "exited" THEN "none" ELSE wpc[t]]
    /\ cursor' = 0
    /\ UNCHANGED <<tasks, finished, wslot, wtask, supVars, pending, starts, sub, done, interrupts>>

SpawnWorker ==
    /\ ctl = "spawn"
    /\ cursor < pending
    /\ SpawnInto(cursor)
    /\ cursor' = cursor + 1
    /\ UNCHANGED <<running, numWorkers, tasks, finished, wtask, supVars>>
    /\ UNCHANGED <<ctl, pending, starts, sub, done, interrupts>>

SpawnSupervisor ==
    /\ cursor = pending
    /\ CtlMoves("spawn", "idle")
    /\ SupervisorMoves("none", "loop")
    /\ pending' = 0
    /\ cursor' = 0
    /\ UNCHANGED <<poolVars, workerVars, sid, starts, sub, done, interrupts>>

(* What a call of start() or stop() does once it has begun. *)
ControllerStep ==
    \/ NotifyWorkers \/ NotifySupervisor \/ JoinWorker \/ JoinedWorkers
    \/ JoinSupervisor \/ Arm \/ SpawnWorker \/ SpawnSupervisor

-----------------------------------------------------------------------------
Next ==
    \/ \E a \in Task : SubmitCheck(a) \/ SubmitStep(a)
    \/ \E t \in Thread : WorkerStep(t) \/ WorkerSpuriousWakeup(t) \/ WorkerInterrupted(t)
    \/ SupervisorStep \/ SupervisorSpuriousWakeup
    \/ StopCall \/ \E n \in WorkerCounts : StartCall(n)
    \/ ControllerStep

Spec == Init /\ [][Next]_vars

(* A thread that can run does run, and a mutex it asks for again and again *)
(* is granted in the end (strong fairness).  Clients need not submit, nor  *)
(* anybody call start() or stop(); spurious wake-ups and interruptions are *)
(* never owed.                                                             *)
Fairness ==
    /\ \A a \in Task : SF_vars(SubmitStep(a))
    /\ \A t \in Thread : SF_vars(WorkerStep(t))
    /\ SF_vars(SupervisorStep)
    /\ WF_vars(ControllerStep)

FairSpec == Spec /\ Fairness

-----------------------------------------------------------------------------
(* Type correctness: every variable keeps its shape, a worker holds a task *)
(* exactly while it runs one, and the loops of start() and stop() stay     *)
(* within m_workers.                                                       *)
TypeOK ==
    /\ running \in BOOLEAN
    /\ numWorkers \in WorkerCounts \cup {0}
    /\ slots \in [Slot -> Thread \cup {None}]
    /\ tasks \in Seq(Task)
    /\ finished \in Seq(Slot)
    /\ wpc \in [Thread -> WorkerPC]
    /\ wslot \in [Thread -> Slot \cup {0}]
    /\ \A t \in Thread : wpc[t] # "none" => wslot[t] \in Slot
    /\ wtask \in [Thread -> Task \cup {None}]
    /\ \A t \in Thread : wpc[t] = "run" <=> wtask[t] # None
    /\ spc \in SupervisorPC
    /\ sid \in Slot \cup {0}
    /\ spc \in {"join", "respawn"} => sid \in Slot
    /\ ctl \in ControllerPC
    /\ pending \in WorkerCounts \cup {0}
    /\ cursor \in Nat
    /\ ctl = "join_workers" => cursor <= numWorkers
    /\ ctl = "spawn" => cursor <= pending /\ numWorkers = pending
    /\ sub \in [Task -> SubmitPC]
    /\ done \subseteq Task
    /\ starts \in 0 .. MaxStarts
    /\ interrupts \in 0 .. MaxInterrupts

(* m_tasks never grows beyond a configured limit, however many submit()    *)
(* calls race: bound test and push are one critical section.               *)
QueueBounded == MaxQueueSize > 0 => Len(tasks) <= MaxQueueSize

Queued(a) == \E i \in 1 .. Len(tasks) : tasks[i] = a
Running(a) == \E t \in Thread : wtask[t] = a
Accepted(a) == sub[a] \in {"notifying", "accepted"}

(* No task is lost or run twice: a task submit() took is queued, or run by *)
(* one worker, or over, and never two of these, across interrupted         *)
(* workers, stop() and a later start(); a task it refused is nowhere.      *)
TaskAccounting ==
    /\ \A a \in Task : Accepted(a) <=> Queued(a) \/ Running(a) \/ a \in done
    /\ \A a \in Task : Queued(a) => ~Running(a) /\ a \notin done
    /\ \A a \in Task : Running(a) => a \notin done
    /\ \A i, j \in 1 .. Len(tasks) : tasks[i] = tasks[j] => i = j
    /\ \A t, u \in Thread : wtask[t] = wtask[u] /\ wtask[t] # None => t = u

LiveThreads == {t \in Thread : wpc[t] # "none"}

(* When stop() has returned no thread of the pool is left, so none touches *)
(* the pool or runs a task ("join all threads", the comment of stop()).    *)
StopJoinsAll == ctl = "idle" /\ ~running => LiveThreads = {} /\ spc = "none"

(* The same as long as no worker ever ended by itself: ids of workers that *)
(* ended in an earlier run of the pool do no harm to stop().               *)
StopJoinsAllUnlessInterrupted == interrupts = 0 => StopJoinsAll

(* No lost wake-up between submit() and the workers: once every push has   *)
(* been notified, a queued task has a worker that is not asleep.  (A       *)
(* worker interrupted on its way out of wait() takes a wake-up with it;    *)
(* then QueuedTaskRuns says that the task is run all the same.)            *)
NoSleepWithWork ==
    /\ running /\ ctl = "idle" /\ interrupts = 0
    /\ tasks # <<>> /\ \A a \in Task : sub[a] # "notifying"
    => \E t \in Thread : wpc[t] \in {"loop", "lock", "woken", "run"}

(* While the pool runs, a queued task is taken by a worker in the end,     *)
(* though the worker a push woke may be interrupted before it takes it.    *)
QueuedTaskRuns == \A a \in Task : Queued(a) ~> (~Queued(a) \/ ~running)

SlotDead(k) == slots[k] = None \/ wpc[slots[k]] = "exited"

(* While the pool runs, a worker whose thread ended is replaced ("the      *)
(* supervisor starts a new thread", the comment of the class).             *)
DeadWorkerReplaced ==
    \A k \in Slot :
        (running /\ ctl = "idle" /\ k < numWorkers /\ SlotDead(k))
            ~> (~running \/ ~SlotDead(k))

(* stop() returns, having joined every thread of the pool. *)
StopReturns == ctl = "notify_workers" ~> ctl = "idle"

(* stop() returns if no thread was between the test of its wait predicate  *)
(* and its wait when m_running was cleared: nothing else can hold it up.   *)
StopReturnsUnlessBlocking ==
    (ctl = "notify_workers" /\ TasksMutexFree /\ FinishedMutexFree) ~> ctl = "idle"
===============================================================================
