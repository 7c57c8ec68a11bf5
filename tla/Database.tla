------------------------------ MODULE Database ------------------------------
(***************************************************************************)
(* What Database (src/src/api/database.cpp) puts together: the connection  *)
(* pool, the worker pool, and close, which shuts them down one after the   *)
(* other while clients use them.  A client acquires and releases           *)
(* connections and submits tasks, for the connection it holds or for none, *)
(* one call at a time.  A task keeps a plain pointer to its connection,    *)
(* and the worker reads the cancellation token through it.  A submitter    *)
(* has a shared pointer to the worker pool, as ConnectionImpl has; connect *)
(* has none to the connection pool, which close may destroy under it.      *)
(***************************************************************************)
EXTENDS ConnectionPool, WorkerPool

ASSUME SubmittersAreClients == Submitters \subseteq Clients

VARIABLE implGone       \* close has released m_impl

databaseVars == <<poolVars, workerVars, implGone>>

Init == PoolInit /\ WorkersInit /\ implGone = FALSE

\* The connection pool is destroyed with m_impl, or later with the last lease,
\* which has a shared pointer to it.
PoolGone == implGone /\ Holders = {}

InSubmit(c) == c \in Submitters /\ spc[c] # "out"

\* A client that is not inside submit uses the connection pool; once m_impl is
\* gone, connect returns at once.  A client still inside acquire when the pool
\* is destroyed may return, or never ...
UsePool(c) ==
    /\ ~InSubmit(c)
    /\ implGone => cpc[c] # "out"
    /\ PoolStep(c)
    /\ UNCHANGED <<workerVars, implGone>>

\* ... and one that is not inside acquire or release submits tasks.
Submits(c) ==
    /\ cpc[c] \in {"out", "leased"}
    /\ \/ Submit(c, lease[c])
       \/ SubmitWait(c)
       \/ SubmitWoken(c, lease[c])
       \/ NotifyTasks(c)
    /\ UNCHANGED <<poolVars, implGone>>

Work(w) ==
    /\ \/ LoopTest(w)
       \/ TakeTask(w)
       \/ TakeNothing(w)
       \/ NotifyCapacity(w)
       \/ SkipTask(w, wtask[w].conn \in cancelled)
       \/ StartTask(w, wtask[w].conn \in cancelled)
       \/ FinishTask(w)
    /\ UNCHANGED <<poolVars, implGone>>

\* Seeded fault: the connections are closed before the workers are.
CloseConnectionsFirst ==
    \/ (ShutdownPool \/ ShutdownManager) /\ UNCHANGED <<workerVars, implGone>>
    \/ /\ managerShut
       /\ ShutdownTasks \/ NotifyAll \/ StopWorker \/ JoinWorker
       /\ UNCHANGED <<poolVars, implGone>>
    \/ /\ stopper.step = "done" /\ ~implGone
       /\ implGone' = TRUE
       /\ UNCHANGED <<poolVars, workerVars>>

\* close
Close ==
    \/ /\ ShutdownTasks \/ NotifyAll \/ StopWorker \/ JoinWorker
       /\ UNCHANGED <<poolVars, implGone>>
    \/ /\ stopper.step = "done"
       /\ ShutdownPool \/ ShutdownManager
       /\ UNCHANGED <<workerVars, implGone>>
    \/ /\ managerShut /\ ~implGone
       /\ implGone' = TRUE
       /\ UNCHANGED <<poolVars, workerVars>>

Next ==
    \/ \E c \in Clients : UsePool(c)
    \/ \E c \in Submitters : Submits(c)
    \/ \E w \in Workers : Work(w)
    \/ Close

(***************************************************************************)
(* Threads are scheduled: a worker goes on, a close that has begun goes    *)
(* on, and a client goes on inside a call, except in a pool that has been  *)
(* destroyed.  Nobody need call anything, nor give back a connection, and  *)
(* timers need not expire.                                                 *)
(***************************************************************************)
Fairness ==
    /\ \A w \in Workers : WF_databaseVars(Work(w))
    /\ \A c \in Clients :
        WF_databaseVars(/\ UsePool(c) /\ ~PoolGone
                        /\ cpc[c] \in {"woken", "expired", "returning"})
    /\ \A c \in Submitters : WF_databaseVars(Submits(c) /\ InSubmit(c))
    /\ WF_databaseVars(Close /\ stopper.step # "none")

Spec == Init /\ [][Next]_databaseVars
FairSpec == Spec /\ Fairness

-----------------------------------------------------------------------------
(***************************************************************************)
(* A worker that holds a task finds the task's connection alive: the       *)
(* manager or a lease still owns it, because close joins the workers       *)
(* before it closes the connections.                                       *)
(***************************************************************************)
TaskConnectionLives ==
    \A w \in Busy : wtask[w].conn # NoConnection =>
        wtask[w].conn \in connections \cup {lease[c] : c \in Holders}

(***************************************************************************)
(* close returns, however many tasks are queued and whoever waits; nobody  *)
(* stays in submit, and nobody stays in acquire while the pool exists.  A  *)
(* client that close woke, and that has not left acquire when the pool is  *)
(* destroyed, locks a dead mutex: of that one nothing is said              *)
(* (database.cpp:57, :81).                                                 *)
(***************************************************************************)
CloseEndsWaits ==
    stopper.step # "none" ~>
        /\ implGone
        /\ \A c \in Clients :
            /\ ~InSubmit(c)
            /\ cpc[c] \in {"sleeping", "woken", "expired"} => PoolGone

\* A task that submit accepted is run or skipped, unless the pool is shut down.
TasksEnd == \A id \in 1..MaxTasks : accepted >= id ~> id \in ended \/ tasksShut
=============================================================================
