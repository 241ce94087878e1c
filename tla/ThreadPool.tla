----------------------------- MODULE ThreadPool -----------------------------
(***************************************************************************)
(* The thread pool that runs session threads and other jobs (the pool      *)
(* worker, check_queue and the launchers of switch_core_session.c) over    *)
(* the queue of libs/apr-util/misc/apr_queue.c.                            *)
(*                                                                         *)
(* A launcher pushes its job and then counts it: if more jobs are counted  *)
(* than there are workers, it starts one.  A worker that has waited five   *)
(* seconds for nothing leaves if there are more workers than jobs.  A job  *)
(* may last as long as a call, so every job needs a worker of its own.     *)
(***************************************************************************)
EXTENDS Integers, FiniteSets

CONSTANTS Jobs,     \* jobs, each launched once
          Workers,  \* names for worker threads, as many as jobs
          NoJob,
          Spurious  \* may a wait on the condition variable end without a signal?

ASSUME PoolAssumption == /\ IsFiniteSet(Jobs) /\ IsFiniteSet(Workers)
                         /\ Cardinality(Jobs) <= Cardinality(Workers)
                         /\ NoJob \notin Jobs /\ Spurious \in BOOLEAN

VARIABLES
    running, busy,  \* session_manager.running, session_manager.busy
    queued,         \* the jobs in session_manager.thread_queue
    term,           \* the queue is terminated
    launch,         \* where the launcher of a job is
    worker,         \* where a worker is
    job,            \* what it works on
    over,           \* history: the jobs that are counted off
    failed,         \* history: a thread could not be created
    interrupted     \* history: the wait of a worker was interrupted

vars == <<running, busy, queued, term, launch, worker, job, over, failed, interrupted>>

LaunchLabel == {"new", "pushed", "create", "launched"}
WorkerLabel == {"none", "pop", "wait", "woken", "work", "done", "timeup", "intr"}

At(l) == {w \in Workers : worker[w] = l}
Alive == {w \in Workers : worker[w] # "none"}
Creating == {j \in Jobs : launch[j] = "create"}
Pushed == {j \in Jobs : launch[j] # "new"}
Counted == {j \in Jobs : launch[j] \in {"create", "launched"}}

-----------------------------------------------------------------------------
(* Launchers: switch_core_session_thread_pool_launch,                      *)
(* switch_thread_pool_launch_thread, check_queue.                          *)

\* switch_queue_push signals one of the workers that wait.  A terminated queue
\* takes nothing; the launcher goes on all the same.
Push(j) ==
    /\ launch[j] = "new"
    /\ launch' = [launch EXCEPT ![j] = "pushed"]
    /\ queued' = IF term THEN queued ELSE queued \cup {j}
    /\ IF At("wait") = {} \/ term
          THEN UNCHANGED worker
          ELSE \E w \in At("wait") : worker' = [worker EXCEPT ![w] = "woken"]
    /\ UNCHANGED <<running, busy, term, job, over, failed, interrupted>>

\* Mutant of Enough: off by one.
EnoughOrOneShort(r, b) == r + 1 >= b

\* Are there workers for that many jobs?
Enough(r, b) == r >= b

\* The first half of check_queue, under session_manager.mutex.
Count(j) ==
    /\ launch[j] = "pushed"
    /\ busy' = busy + 1
    /\ IF Enough(running, busy')
          THEN running' = running /\ launch' = [launch EXCEPT ![j] = "launched"]
          ELSE running' = running + 1 /\ launch' = [launch EXCEPT ![j] = "create"]
    /\ UNCHANGED <<queued, term, worker, job, over, failed, interrupted>>

\* Its second half: switch_thread_create.
Create(j) ==
    /\ launch[j] = "create"
    /\ launch' = [launch EXCEPT ![j] = "launched"]
    /\ \E w \in At("none") : worker' = [worker EXCEPT ![w] = "pop"]
    /\ UNCHANGED <<running, busy, queued, term, job, over, failed, interrupted>>

\* Mutant of CreateFails: the worker that is not there stays counted.
CreateFailsQuietly(j) ==
    /\ launch[j] = "create"
    /\ launch' = [launch EXCEPT ![j] = "launched"]
    /\ failed' = TRUE
    /\ UNCHANGED <<running, busy, queued, term, worker, job, over, interrupted>>

\* The thread is not created; the job stays in the queue and is counted.
CreateFails(j) ==
    /\ launch[j] = "create"
    /\ launch' = [launch EXCEPT ![j] = "launched"]
    /\ running' = running - 1
    /\ failed' = TRUE
    /\ UNCHANGED <<busy, queued, term, worker, job, over, interrupted>>

-----------------------------------------------------------------------------
(* Workers: switch_core_session_thread_pool_worker, apr_queue_pop_timeout. *)

Move(w, l) ==
    /\ worker' = [worker EXCEPT ![w] = l]
    /\ UNCHANGED <<running, busy, queued, term, launch, job, over, failed, interrupted>>

\* pop_timeout takes a job at once, or when it is woken and finds one.
Take(w) ==
    /\ \/ worker[w] = "pop" /\ ~term
       \/ worker[w] = "woken"
    /\ \E j \in queued :
          /\ queued' = queued \ {j}
          /\ job' = [job EXCEPT ![w] = j]
    /\ worker' = [worker EXCEPT ![w] = "work"]
    /\ UNCHANGED <<running, busy, term, launch, over, failed, interrupted>>

\* The queue is empty: wait on not_empty, for five seconds.
Wait(w) ==
    /\ worker[w] = "pop" /\ queued = {} /\ ~term
    /\ Move(w, "wait")

TimeUp(w) ==
    /\ worker[w] = "wait"
    /\ Move(w, "timeup")

\* The condition variable lets go by itself, as POSIX allows.
SpuriousWake(w) ==
    /\ Spurious /\ worker[w] = "wait"
    /\ Move(w, "woken")

\* Woken, but another worker has taken the job (APR_EINTR), or the queue is
\* terminated (APR_EOF).
Interrupt(w) ==
    /\ \/ worker[w] = "woken" /\ queued = {}
       \/ worker[w] = "pop" /\ term
    /\ worker' = [worker EXCEPT ![w] = "intr"]
    /\ interrupted' = TRUE
    /\ UNCHANGED <<running, busy, queued, term, launch, job, over, failed>>

\* The job returns: a session thread when its call is over.
Finish(w) ==
    /\ worker[w] = "work"
    /\ Move(w, "done")

\* Mutant of Uncount: busy is not reset.
UncountNot(w) ==
    /\ worker[w] = "done"
    /\ over' = over \cup {job[w]}
    /\ job' = [job EXCEPT ![w] = NoJob]
    /\ worker' = [worker EXCEPT ![w] = "pop"]
    /\ UNCHANGED <<running, busy, queued, term, launch, failed, interrupted>>

Uncount(w) ==
    /\ worker[w] = "done"
    /\ busy' = busy - 1
    /\ over' = over \cup {job[w]}
    /\ job' = [job EXCEPT ![w] = NoJob]
    /\ worker' = [worker EXCEPT ![w] = "pop"]
    /\ UNCHANGED <<running, queued, term, launch, failed, interrupted>>

\* Mutant of Superfluous: off by one.
SuperfluousOrLast == running >= busy

\* More workers than jobs.
Superfluous == running > busy

\* Five seconds without a job: one worker too many leaves, another tries again.
Retire(w) ==
    /\ worker[w] = "timeup"
    /\ running' = IF Superfluous THEN running - 1 ELSE running
    /\ worker' = [worker EXCEPT ![w] = IF Superfluous THEN "none" ELSE "pop"]
    /\ UNCHANGED <<busy, queued, term, launch, job, over, failed, interrupted>>

\* A worker whose wait was interrupted leaves, whatever there is to do.
Abandon(w) ==
    /\ worker[w] = "intr"
    /\ running' = running - 1
    /\ worker' = [worker EXCEPT ![w] = "none"]
    /\ UNCHANGED <<busy, queued, term, launch, job, over, failed, interrupted>>

\* switch_core_session_uninit terminates the queue, which wakes every worker.
Terminate ==
    /\ ~term
    /\ term' = TRUE
    /\ worker' = [w \in Workers |-> IF worker[w] = "wait" THEN "woken" ELSE worker[w]]
    /\ UNCHANGED <<running, busy, queued, launch, job, over, failed, interrupted>>

-----------------------------------------------------------------------------
Init ==
    /\ running = 0 /\ busy = 0
    /\ queued = {} /\ term = FALSE
    /\ launch = [j \in Jobs |-> "new"]
    /\ worker = [w \in Workers |-> "none"] /\ job = [w \in Workers |-> NoJob]
    /\ over = {} /\ failed = FALSE /\ interrupted = FALSE

LaunchStep(j) == Count(j) \/ Create(j) \/ CreateFails(j)

WorkerStep(w) ==
    \/ Take(w) \/ Wait(w) \/ TimeUp(w) \/ Interrupt(w) \/ Uncount(w) \/ Retire(w)
    \/ Abandon(w)

\* Nobody works any more and every job has been launched.
Finished ==
    /\ running = 0 /\ \A j \in Jobs : launch[j] = "launched"
    /\ UNCHANGED vars

Next ==
    \/ \E j \in Jobs : Push(j) \/ LaunchStep(j)
    \/ \E w \in Workers : WorkerStep(w) \/ Finish(w) \/ SpuriousWake(w)
    \/ Terminate \/ Finished

Spec == Init /\ [][Next]_vars

\* Threads run and waits time out; a job need never return.
Fairness ==
    /\ \A j \in Jobs : WF_vars(LaunchStep(j))
    /\ \A w \in Workers : WF_vars(WorkerStep(w))

FairSpec == Spec /\ Fairness

-----------------------------------------------------------------------------
(* Properties.                                                             *)

\* Every variable keeps its type; session_manager.running never goes below zero
\* and never above the number of jobs (check_queue, the pool worker).
TypeOK ==
    /\ running \in 0 .. Cardinality(Jobs)
    /\ busy \in -Cardinality(Jobs) .. Cardinality(Jobs)
    /\ queued \subseteq Jobs /\ term \in BOOLEAN
    /\ launch \in [Jobs -> LaunchLabel]
    /\ worker \in [Workers -> WorkerLabel] /\ job \in [Workers -> Jobs \cup {NoJob}]
    /\ over \subseteq Jobs /\ failed \in BOOLEAN /\ interrupted \in BOOLEAN

\* session_manager.running counts the workers that exist or are being created,
\* and busy the jobs that are counted and not over, through every failure,
\* interruption and termination.
CountersExact ==
    /\ running = Cardinality(Alive) + Cardinality(Creating)
    /\ busy = Cardinality(Counted) - Cardinality(over)

Free == {w \in Workers : worker[w] \in {"pop", "wait", "woken", "timeup", "done"}}

\* Every queued job has a worker that is free for it, once its launcher has
\* returned SWITCH_STATUS_SUCCESS.
EachHasAWorker ==
    (~term /\ ~failed /\ \A j \in Jobs : launch[j] \in {"new", "launched"})
        => Cardinality(queued) <= Cardinality(Free)

\* The same, as long as no wait was interrupted.
EnoughWorkers == ~interrupted => EachHasAWorker

\* A launched job starts though no other job ever returns, unless a thread could
\* not be created, a worker was interrupted or the core shuts down.
Served ==
    \A j \in Jobs : (j \in queued) ~> (j \notin queued \/ term \/ failed \/ interrupted)

\* When the jobs are over, the pool shrinks to nothing.
PoolShrinks ==
    (\A j \in Jobs : j \in over) ~> (running = 0)

-----------------------------------------------------------------------------
(* The inductive invariants behind the theorems of ThreadPool_proofs.      *)

\* A job is in one place only: with its launcher, queued, with a worker or over.
PlaceInv ==
    /\ \A w \in Workers : worker[w] \in {"work", "done"} <=> job[w] # NoJob
    /\ \A w, v \in Workers : job[w] = job[v] /\ job[w] # NoJob => w = v
    /\ \A w \in Workers : job[w] \notin queued \cup over
    /\ queued \cap over = {}
    /\ \A j \in Jobs : launch[j] = "new" =>
          j \notin queued \cup over /\ \A w \in Workers : job[w] # j

\* No job is lost before the queue is terminated.
BalanceInv ==
    ~term => Cardinality(queued) + Cardinality(At("work")) + Cardinality(At("done"))
                + Cardinality(over)
             = Cardinality(Pushed)

\* There are as many workers as counted jobs, unless one failed or was interrupted.
RatioInv ==
    /\ ~failed /\ ~interrupted => running >= busy
    /\ At("intr") # {} => interrupted

=============================================================================
