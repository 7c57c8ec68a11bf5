----------------------------- MODULE WorkerPool -----------------------------
(***************************************************************************)
(* src/src/runtime/worker_pool.cpp and worker.cpp: a bounded queue of      *)
(* tasks, the workers that take them and the threads that submit them.     *)
(* The queue is changed under m_mutex, in one step; both notifications     *)
(* happen after the unlock, in a step of their own.  A task is its number  *)
(* and the connection it was made for; running it ends, normally or with   *)
(* an exception, which loop catches.                                       *)
(***************************************************************************)
EXTENDS Naturals, Sequences, FiniteSets

CONSTANTS
    Submitters,         \* threads that call submit and try_submit
    NumWorkers,         \* m_num_workers
    MaxQueueSize,       \* m_max_queue_size
    MaxTasks            \* bound on the number of tasks accepted

ASSUME NumWorkersAssumption == NumWorkers \in Nat \ {0}
ASSUME MaxQueueSizeAssumption == MaxQueueSize \in Nat

VARIABLES
    tasks,          \* m_tasks
    tasksShut,      \* m_shutdown
    accepted,       \* the number of tasks accepted so far
    ended,          \* the tasks that were run or skipped
    wpc,            \* where each worker is in Worker::loop
    running,        \* each worker's m_running
    wtask,          \* the task it has taken
    spc,            \* where each submitter is
    stopper         \* the shutdown call: its step and the worker it is at

workerVars == <<tasks, tasksShut, accepted, ended, wpc, running, wtask, spc, stopper>>
queue == <<tasks, tasksShut, accepted>>
workers == <<wpc, running, wtask>>

Workers == 1..NumWorkers
NoTask == [id |-> 0, conn |-> 0]
WorkersAt(label) == {w \in Workers : wpc[w] = label}
SubmittersAt(label) == {s \in Submitters : spc[s] = label}
GotoW(w, label) == wpc' = [wpc EXCEPT ![w] = label]
GotoS(s, label) == spc' = [spc EXCEPT ![s] = label]

-----------------------------------------------------------------------------
\* start
WorkersInit ==
    /\ tasks = <<>> /\ tasksShut = FALSE /\ accepted = 0 /\ ended = {}
    /\ wpc = [w \in Workers |-> "ready"]
    /\ running = [w \in Workers |-> TRUE]
    /\ wtask = [w \in Workers |-> NoTask]
    /\ spc = [s \in Submitters |-> "out"]
    /\ stopper = [step |-> "none", worker |-> 1]

Full == Len(tasks) >= MaxQueueSize

\* The task goes into the queue; notify_one follows after the unlock.
Push(s, conn) ==
    /\ ~tasksShut
    /\ accepted < MaxTasks
    /\ accepted' = accepted + 1
    /\ tasks' = Append(tasks, [id |-> accepted', conn |-> conn])
    /\ GotoS(s, "notifying")
    /\ UNCHANGED <<tasksShut, ended, workers, stopper>>

Submit(s, conn) == spc[s] = "out" /\ ~Full /\ Push(s, conn)

\* A full queue: submit waits; try_submit returns false and changes nothing,
\* like every submit after the shutdown.
SubmitWait(s) ==
    /\ spc[s] = "out"
    /\ ~tasksShut
    /\ Full
    /\ GotoS(s, "sleeping")
    /\ UNCHANGED <<queue, ended, workers, stopper>>

\* A notified submitter tests again: there is room, or there is none, or the
\* pool is shut down and submit returns false.
SubmitWoken(s, conn) ==
    /\ spc[s] = "woken"
    /\ \/ ~Full /\ Push(s, conn)
       \/ /\ \/ tasksShut /\ GotoS(s, "out")
             \/ ~tasksShut /\ Full /\ GotoS(s, "sleeping")
          /\ UNCHANGED <<queue, ended, workers, stopper>>

\* Seeded fault: submit does not notify the workers.
NotifyTasksNobody(s) ==
    /\ spc[s] = "notifying"
    /\ GotoS(s, "out")
    /\ UNCHANGED <<queue, ended, workers, stopper>>

\* m_cv_tasks.notify_one
NotifyTasks(s) ==
    /\ spc[s] = "notifying"
    /\ GotoS(s, "out")
    /\ \/ WorkersAt("sleeping") = {} /\ UNCHANGED wpc
       \/ \E w \in WorkersAt("sleeping") : GotoW(w, "pulling")
    /\ UNCHANGED <<queue, ended, running, wtask, stopper>>

-----------------------------------------------------------------------------
\* loop: the test of m_running.
LoopTest(w) ==
    /\ wpc[w] = "ready"
    /\ GotoW(w, IF running[w] THEN "pulling" ELSE "stopped")
    /\ UNCHANGED <<queue, ended, running, wtask, spc, stopper>>

\* Seeded fault: front without pop_front.
TakeTaskPeeks(w) ==
    /\ wpc[w] = "pulling"
    /\ tasks # <<>>
    /\ wtask' = [wtask EXCEPT ![w] = Head(tasks)]
    /\ GotoW(w, "taken")
    /\ UNCHANGED <<queue, ended, running, spc, stopper>>

\* wait_for_task takes the first task, also after a shutdown ...
TakeTask(w) ==
    /\ wpc[w] = "pulling"
    /\ tasks # <<>>
    /\ wtask' = [wtask EXCEPT ![w] = Head(tasks)]
    /\ tasks' = Tail(tasks)
    /\ GotoW(w, "taken")
    /\ UNCHANGED <<tasksShut, accepted, ended, running, spc, stopper>>

\* Seeded fault: a worker that finds the queue empty sleeps whatever m_shutdown is.
TakeNothingSleeps(w) ==
    /\ wpc[w] = "pulling"
    /\ tasks = <<>>
    /\ GotoW(w, "sleeping")
    /\ UNCHANGED <<queue, ended, running, wtask, spc, stopper>>

\* Seeded fault: a worker that finds the queue empty leaves its loop.
TakeNothingStops(w) ==
    /\ wpc[w] = "pulling"
    /\ tasks = <<>>
    /\ GotoW(w, "stopped")
    /\ UNCHANGED <<queue, ended, running, wtask, spc, stopper>>

\* ... sleeps while there is none, or returns false.
TakeNothing(w) ==
    /\ wpc[w] = "pulling"
    /\ tasks = <<>>
    /\ GotoW(w, IF tasksShut THEN "ready" ELSE "sleeping")
    /\ UNCHANGED <<queue, ended, running, wtask, spc, stopper>>

\* m_cv_capacity.notify_one
NotifyCapacity(w) ==
    /\ wpc[w] = "taken"
    /\ GotoW(w, "starting")
    /\ \/ SubmittersAt("sleeping") = {} /\ UNCHANGED spc
       \/ \E s \in SubmittersAt("sleeping") : GotoS(s, "woken")
    /\ UNCHANGED <<queue, ended, running, wtask, stopper>>

EndTask(w) ==
    /\ ended' = ended \cup {wtask[w].id}
    /\ wtask' = [wtask EXCEPT ![w] = NoTask]
    /\ GotoW(w, "ready")
    /\ UNCHANGED <<queue, running, spc, stopper>>

\* The task is skipped when its connection's token says so, and run otherwise.
SkipTask(w, isCancelled) == wpc[w] = "starting" /\ isCancelled /\ EndTask(w)

StartTask(w, isCancelled) ==
    /\ wpc[w] = "starting"
    /\ ~isCancelled
    /\ GotoW(w, "running")
    /\ UNCHANGED <<queue, ended, running, wtask, spc, stopper>>

FinishTask(w) == wpc[w] = "running" /\ EndTask(w)

-----------------------------------------------------------------------------
\* shutdown sets m_shutdown, ...
ShutdownTasks ==
    /\ stopper.step = "none"
    /\ tasksShut' = TRUE
    /\ stopper' = [stopper EXCEPT !.step = "notifying"]
    /\ UNCHANGED <<tasks, accepted, ended, workers, spc>>

\* ... notifies everybody on both condition variables, ...
NotifyAll ==
    /\ stopper.step = "notifying"
    /\ stopper' = [stopper EXCEPT !.step = "stopping"]
    /\ wpc' = [w \in Workers |-> IF wpc[w] = "sleeping" THEN "pulling" ELSE wpc[w]]
    /\ spc' = [s \in Submitters |-> IF spc[s] = "sleeping" THEN "woken" ELSE spc[s]]
    /\ UNCHANGED <<queue, ended, running, wtask>>

\* ... and stops one worker after the other: m_running is cleared ...
StopWorker ==
    /\ stopper.step = "stopping"
    /\ running' = [running EXCEPT ![stopper.worker] = FALSE]
    /\ stopper' = [stopper EXCEPT !.step = "joining"]
    /\ UNCHANGED <<queue, ended, wpc, wtask, spc>>

\* ... and the thread is joined.
JoinWorker ==
    /\ stopper.step = "joining"
    /\ wpc[stopper.worker] = "stopped"
    /\ stopper' = IF stopper.worker < NumWorkers
                  THEN [step |-> "stopping", worker |-> stopper.worker + 1]
                  ELSE [stopper EXCEPT !.step = "done"]
    /\ UNCHANGED <<queue, ended, workers, spc>>

-----------------------------------------------------------------------------
Busy == WorkersAt("taken") \cup WorkersAt("starting") \cup WorkersAt("running")

(***************************************************************************)
(* Every accepted task is in exactly one place: once in m_tasks, in the    *)
(* hands of one worker, or behind us, and m_tasks keeps its limit.         *)
(***************************************************************************)
TasksOnce ==
    /\ Len(tasks) <= MaxQueueSize
    /\ \A id \in 1..accepted :
        Cardinality({i \in DOMAIN tasks : tasks[i].id = id})
            + Cardinality({w \in Busy : wtask[w].id = id})
            + Cardinality({id} \cap ended) = 1

(***************************************************************************)
(* No notification is lost, although both are sent after the unlock: while *)
(* a worker sleeps, every queued task has a worker on its way to the queue *)
(* or a submitter about to notify one, and while a submitter sleeps, every *)
(* free place has a submitter on its way or a worker about to notify one.  *)
(***************************************************************************)
WakeupsSuffice ==
    ~tasksShut =>
        /\ WorkersAt("sleeping") # {} =>
            Len(tasks) <= Cardinality(WorkersAt("pulling"))
                            + Cardinality(SubmittersAt("notifying"))
        /\ SubmittersAt("sleeping") # {} =>
            MaxQueueSize <= Len(tasks) + Cardinality(SubmittersAt("woken"))
                            + Cardinality(WorkersAt("taken"))
=============================================================================
