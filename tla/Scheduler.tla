----------------------------- MODULE Scheduler -----------------------------
(***************************************************************************)
(* The task scheduler of the core (switch_scheduler.c): the list of task   *)
(* containers, the thread that scans it for due tasks and frees deleted    *)
(* ones, the threads of SSHF_OWN_THREAD tasks, the clients that add and    *)
(* delete tasks, and the queue of events that only the scanning thread     *)
(* empties.                                                                *)
(*                                                                         *)
(* task_mutex protects the list, but not what the thread of a task does to *)
(* its container.  The mutex is held while the scheduler thread scans and  *)
(* reaps; clients hold it for one step.  The list is a set here: the scan  *)
(* and the reaping visit every container on it, in any order.              *)
(***************************************************************************)
EXTENDS Naturals, FiniteSets

CONSTANTS
    Tasks,          \* the containers that can be allocated
    Clients,        \* threads that add tasks
    NoTask,
    OwnThread,      \* containers added with SSHF_OWN_THREAD
    NoDel,          \* containers added with SSHF_NO_DEL
    Rescheduling,   \* containers whose function sets its next runtime itself
    Group,          \* the group a container is added with
    Epoch,          \* the time at start, in seconds: later than any interval
    MaxTime,        \* the last second of the clock
    Delays,         \* how far from now callers schedule a task
    Intervals,      \* relative times, which make a task repeat
    QueueLen        \* length of the event queue (250000 in the code)

ASSUME TasksAssumption == NoTask \notin Tasks
ASSUME FlagsAssumption == /\ OwnThread \subseteq Tasks /\ NoDel \subseteq Tasks
                          /\ Rescheduling \subseteq Tasks
ASSUME TimeAssumption ==
    /\ Epoch \in Nat \ {0} /\ MaxTime \in Nat /\ Epoch <= MaxTime
    /\ Delays \subseteq Nat /\ Intervals \subseteq 1 .. Epoch - 1
ASSUME QueueAssumption == QueueLen \in Nat \ {0}

\* Where the scheduler thread is.
SchLabel == {"start", "top", "scan", "test", "call", "func", "relock", "gap",
             "reap", "pop", "ended"}

\* Where the own thread of a task is.
OwnLabel == {"none", "born", "func", "end"}

\* Where a client that adds a task is.
PcLabel == {"idle", "asked", "timed", "added", "announced"}

VARIABLES
    now,                  \* the clock, in seconds
    listed, freed,        \* containers on globals.task_list, containers freed
    runtime, repeat,      \* task.runtime and task.repeat of a container
    executed,             \* when its current run began, 0 when it is over
    destroyed, in_thread, running,   \* containers with these members set
    task_thread_running,  \* 0, 1, or 2 for the code's -1: asked to stop
    events,               \* length of globals.event_queue
    sch, todo, tp, seen,  \* scheduler thread: where it is, containers not yet
                          \* visited, the one in hand, the time it read
    final,                \* the argument of task_thread_loop
    own,                  \* threads of tasks
    pc, arg, when, tnow,  \* a client: where it is, its container, the time it
                          \* asked for, the time it read
    pool,                 \* globals.memory_pool: the mutex and the queue exist
    runs,                 \* history: how often a function started, up to 2
    cancelled             \* history: what del_task_id counted as deleted

listVars == <<listed, freed>>
memVars == <<runtime, repeat, executed>>
flagVars == <<destroyed, in_thread, running>>
schVars == <<sch, todo, tp, seen, final>>
pcVars == <<pc, arg, when, tnow>>
histVars == <<runs, cancelled>>
vars == <<now, listVars, memVars, flagVars, task_thread_running, events, schVars,
          own, pcVars, pool, histVars>>

\* globals.task_mutex is free; clients do nothing once it is destroyed.
MutexFree == pool /\ sch \notin {"scan", "test", "reap"}

\* switch_queue_push waits for room.
Push == events < QueueLen /\ events' = events + 1

\* The seconds go by.
Tick ==
    /\ now < MaxTime
    /\ now' = now + 1
    /\ UNCHANGED <<listVars, memVars, flagVars, task_thread_running, events, schVars,
                   own, pcVars, pool, histVars>>

-----------------------------------------------------------------------------
(* switch_scheduler_execute, by the scheduler thread or by the own thread. *)

\* The function of the task begins.
Begin(t) == runs' = [runs EXCEPT ![t] = IF @ < 2 THEN @ + 1 ELSE 2]

\* Mutant of RunsAgain: a task that ran on time runs again.
RunsAgainOnTime(t, next) == next >= executed[t]

RunsAgain(t, next) == next > executed[t]

\* It has returned, and may have set its next runtime: run again later, or not.
Reschedule(t) ==
    \E r \in {runtime[t]} \cup (IF t \in Rescheduling THEN {now + d : d \in Delays} ELSE {}) :
       LET next == IF repeat[t] > 0 THEN now + repeat[t] ELSE r
       IN /\ runtime' = [runtime EXCEPT ![t] = next]
          /\ IF RunsAgain(t, next)
                THEN /\ executed' = [executed EXCEPT ![t] = 0]
                     /\ Push
                     /\ UNCHANGED destroyed
                ELSE /\ destroyed' = destroyed \cup {t}
                     /\ UNCHANGED <<executed, events>>

-----------------------------------------------------------------------------
(* The own thread of a task: task_own_thread, which takes no lock.         *)

OwnCall(t) ==
    /\ own[t] = "born"
    /\ own' = [own EXCEPT ![t] = "func"]
    /\ Begin(t)
    /\ UNCHANGED <<now, listVars, memVars, flagVars, task_thread_running, events,
                   schVars, pcVars, pool, cancelled>>

OwnReturn(t) ==
    /\ own[t] = "func"
    /\ own' = [own EXCEPT ![t] = "end"]
    /\ Reschedule(t)
    /\ UNCHANGED <<now, listVars, repeat, in_thread, running, task_thread_running,
                   schVars, pcVars, pool, histVars>>

\* Mutant of OwnEnd: in_thread is not reset.
OwnEndKeeps(t) ==
    /\ own[t] = "end"
    /\ own' = [own EXCEPT ![t] = "none"]
    /\ UNCHANGED <<now, listVars, memVars, flagVars, task_thread_running, events,
                   schVars, pcVars, pool, histVars>>

\* The last access to the container, after the pool of the thread is destroyed.
OwnEnd(t) ==
    /\ own[t] = "end"
    /\ own' = [own EXCEPT ![t] = "none"]
    /\ in_thread' = in_thread \ {t}
    /\ UNCHANGED <<now, listVars, memVars, destroyed, running, task_thread_running,
                   events, schVars, pcVars, pool, histVars>>

-----------------------------------------------------------------------------
(* The scheduler thread: switch_scheduler_task_thread, task_thread_loop.   *)

\* The thread begins.
Start ==
    /\ sch = "start"
    /\ sch' = "top"
    /\ task_thread_running' = 1
    /\ UNCHANGED <<now, listVars, memVars, flagVars, events, todo, tp, seen, final,
                   own, pcVars, pool, histVars>>

\* One more turn, or the last one, which destroys every task.
Top ==
    /\ sch = "top"
    /\ final' = (task_thread_running # 1)
    /\ IF final'
          THEN sch' = "gap" /\ destroyed' = destroyed \cup listed /\ todo' = {}
          ELSE sch' = "scan" /\ todo' = listed /\ UNCHANGED destroyed
    /\ UNCHANGED <<now, listVars, memVars, in_thread, running, task_thread_running,
                   events, tp, seen, own, pcVars, pool, histVars>>

\* Mutant of Due: a task is due when its second is over.
DueLate(t) == t \notin destroyed /\ now > runtime[t]

Due(t) == t \notin destroyed /\ now >= runtime[t]

\* Is the task deleted, is it due?
Look(t) ==
    /\ sch = "scan" /\ t \in todo
    /\ IF Due(t)
          THEN sch' = "test" /\ tp' = t /\ seen' = now /\ UNCHANGED todo
          ELSE todo' = todo \ {t} /\ UNCHANGED <<sch, tp, seen>>
    /\ UNCHANGED <<now, listVars, memVars, flagVars, task_thread_running, events,
                   final, own, pcVars, pool, histVars>>

\* The scan goes on with the next container.
ScanOn ==
    /\ sch' = "scan" /\ todo' = todo \ {tp} /\ tp' = NoTask /\ seen' = 0
    /\ UNCHANGED final

\* Mutant of Idle: in_thread is not tested.
IdleOrNot == TRUE

Idle == tp \notin in_thread

\* Is it still in its own thread?  If not, run it: in a thread, or here and
\* without the mutex.
Busy ==
    /\ sch = "test" /\ ~Idle
    /\ ScanOn
    /\ UNCHANGED <<now, listVars, memVars, flagVars, task_thread_running, events, own,
                   pcVars, pool, histVars>>

Spawn ==
    /\ sch = "test" /\ Idle /\ tp \in OwnThread
    /\ executed' = [executed EXCEPT ![tp] = seen]
    /\ in_thread' = in_thread \cup {tp}
    /\ own' = [own EXCEPT ![tp] = "born"]
    /\ ScanOn
    /\ UNCHANGED <<now, listVars, runtime, repeat, destroyed, running,
                   task_thread_running, events, pcVars, pool, histVars>>

Pick ==
    /\ sch = "test" /\ Idle /\ tp \notin OwnThread
    /\ executed' = [executed EXCEPT ![tp] = seen]
    /\ running' = running \cup {tp}
    /\ sch' = "call"
    /\ UNCHANGED <<now, listVars, runtime, repeat, destroyed, in_thread,
                   task_thread_running, events, todo, tp, seen, final, own, pcVars,
                   pool, histVars>>

Call ==
    /\ sch = "call"
    /\ sch' = "func"
    /\ Begin(tp)
    /\ UNCHANGED <<now, listVars, memVars, flagVars, task_thread_running, events, todo,
                   tp, seen, final, own, pcVars, pool, cancelled>>

Return ==
    /\ sch = "func"
    /\ sch' = "relock"
    /\ Reschedule(tp)
    /\ UNCHANGED <<now, listVars, repeat, in_thread, running, task_thread_running,
                   todo, tp, seen, final, own, pcVars, pool, histVars>>

\* The mutex again; the scan goes on.  (A task added meanwhile is visited too.)
Relock ==
    /\ sch = "relock"
    /\ ScanOn
    /\ running' = running \ {tp}
    /\ UNCHANGED <<now, listVars, memVars, destroyed, in_thread, task_thread_running,
                   events, own, pcVars, pool, histVars>>

\* End of the scan: the mutex is released and taken again.
ScanEnd ==
    /\ sch = "scan" /\ todo = {}
    /\ sch' = "gap"
    /\ UNCHANGED <<now, listVars, memVars, flagVars, task_thread_running, events, todo,
                   tp, seen, final, own, pcVars, pool, histVars>>

ReapBegin ==
    /\ sch = "gap"
    /\ sch' = "reap" /\ todo' = listed
    /\ UNCHANGED <<now, listVars, memVars, flagVars, task_thread_running, events, tp,
                   seen, final, own, pcVars, pool, histVars>>

\* Mutant of MayReap: own threads are forgotten.
MayReapAny(t) == t \in destroyed

MayReap(t) == t \in destroyed /\ t \notin in_thread

\* A deleted task is unlinked and freed, unless its own thread still runs;
\* its members are gone with it.
Reap(t) ==
    /\ sch = "reap" /\ t \in todo
    /\ todo' = todo \ {t}
    /\ IF MayReap(t)
          THEN /\ Push
               /\ listed' = listed \ {t} /\ freed' = freed \cup {t}
               /\ destroyed' = destroyed \ {t}
               /\ runtime' = [runtime EXCEPT ![t] = 0]
               /\ repeat' = [repeat EXCEPT ![t] = 0]
               /\ executed' = [executed EXCEPT ![t] = 0]
          ELSE UNCHANGED <<events, listVars, memVars, destroyed>>
    /\ UNCHANGED <<now, in_thread, running, task_thread_running, sch, tp, seen, final,
                   own, pcVars, pool, histVars>>

\* The last turn empties the queue and ends the thread.
ReapEnd ==
    /\ sch = "reap" /\ todo = {}
    /\ IF final
          THEN sch' = "ended" /\ events' = 0 /\ task_thread_running' = 0
          ELSE sch' = "pop" /\ UNCHANGED <<events, task_thread_running>>
    /\ UNCHANGED <<now, listVars, memVars, flagVars, todo, tp, seen, final, own,
                   pcVars, pool, histVars>>

Popped == IF events > 0 THEN events - 1 ELSE 0

\* switch_queue_pop_timeout: fire one event, or none within half a second.
Pop ==
    /\ sch = "pop"
    /\ sch' = "top"
    /\ events' = Popped
    /\ UNCHANGED <<now, listVars, memVars, flagVars, task_thread_running, todo, tp,
                   seen, final, own, pcVars, pool, histVars>>

-----------------------------------------------------------------------------
(* Clients.                                                                *)

\* A caller of switch_scheduler_add_task works out the time: so many seconds
\* from now, or an interval.
Ask(c, t) ==
    /\ pc[c] = "idle"
    /\ t \notin listed \cup freed /\ \A d \in Clients : pc[d] # "idle" => arg[d] # t
    /\ \E w \in {now + d : d \in Delays} \cup Intervals : when' = [when EXCEPT ![c] = w]
    /\ arg' = [arg EXCEPT ![c] = t]
    /\ pc' = [pc EXCEPT ![c] = "asked"]
    /\ UNCHANGED <<now, listVars, memVars, flagVars, task_thread_running, events,
                   schVars, own, tnow, pool, histVars>>

\* add_task reads the clock before it takes the mutex.
ReadClock(c) ==
    /\ pc[c] = "asked"
    /\ tnow' = [tnow EXCEPT ![c] = now]
    /\ pc' = [pc EXCEPT ![c] = "timed"]
    /\ UNCHANGED <<now, listVars, memVars, flagVars, task_thread_running, events,
                   schVars, own, arg, when, pool, histVars>>

\* A time that is past is taken for an interval.
Insert(c) ==
    /\ pc[c] = "timed" /\ MutexFree
    /\ LET t == arg[c]
           past == when[c] < tnow[c]
       IN /\ listed' = listed \cup {t}
          /\ repeat' = [repeat EXCEPT ![t] = IF past THEN when[c] ELSE 0]
          /\ runtime' = [runtime EXCEPT ![t] = IF past THEN when[c] + tnow[c] ELSE when[c]]
          /\ todo' = IF sch \in {"call", "func", "relock"} THEN todo \cup {t} ELSE todo
    /\ pc' = [pc EXCEPT ![c] = "added"]
    /\ UNCHANGED <<now, freed, executed, flagVars, task_thread_running, events, sch,
                   tp, seen, final, own, arg, when, tnow, pool, histVars>>

\* The container is read again without the mutex: for the event, for the id.
Announce(c) ==
    /\ pc[c] = "added" /\ pool
    /\ Push
    /\ pc' = [pc EXCEPT ![c] = "announced"]
    /\ UNCHANGED <<now, listVars, memVars, flagVars, task_thread_running, schVars, own,
                   arg, when, tnow, pool, histVars>>

ReturnId(c) ==
    /\ pc[c] = "announced"
    /\ pc' = [pc EXCEPT ![c] = "idle"]
    /\ arg' = [arg EXCEPT ![c] = NoTask]
    /\ when' = [when EXCEPT ![c] = 0]
    /\ tnow' = [tnow EXCEPT ![c] = 0]
    /\ UNCHANGED <<now, listVars, memVars, flagVars, task_thread_running, events,
                   schVars, own, pool, histVars>>

\* Mutant of Deletable: a task that is picked up already is deleted all the same.
DeletableAlways(t) == t \notin NoDel

Deletable(t) == t \notin NoDel /\ t \notin running

\* switch_scheduler_del_task_id, with the id of a task that is on the list.
DelId(t) ==
    /\ MutexFree /\ t \in listed /\ Deletable(t)
    /\ destroyed' = destroyed \cup {t}
    /\ cancelled' = cancelled \cup {t}
    /\ UNCHANGED <<now, listVars, memVars, in_thread, running, task_thread_running,
                   events, schVars, own, pcVars, pool, runs>>

\* switch_scheduler_del_task_group, which does not ask whether a task runs.
DelGroup(g) ==
    /\ MutexFree
    /\ destroyed' = destroyed \cup {t \in listed \ NoDel : Group[t] = g}
    /\ UNCHANGED <<now, listVars, memVars, in_thread, running, task_thread_running,
                   events, schVars, own, pcVars, pool, histVars>>

\* switch_scheduler_task_thread_stop: ask, join, destroy the pool.
Stop ==
    /\ task_thread_running = 1
    /\ task_thread_running' = 2
    /\ UNCHANGED <<now, listVars, memVars, flagVars, events, schVars, own, pcVars,
                   pool, histVars>>

Stopped ==
    /\ sch = "ended" /\ pool
    /\ pool' = FALSE
    /\ UNCHANGED <<now, listVars, memVars, flagVars, task_thread_running, events,
                   schVars, own, pcVars, histVars>>

-----------------------------------------------------------------------------
Init ==
    /\ now = Epoch
    /\ listed = {} /\ freed = {}
    /\ runtime = [t \in Tasks |-> 0] /\ repeat = [t \in Tasks |-> 0]
    /\ executed = [t \in Tasks |-> 0]
    /\ destroyed = {} /\ in_thread = {} /\ running = {}
    /\ task_thread_running = 0 /\ events = 0
    /\ sch = "start" /\ todo = {} /\ tp = NoTask /\ seen = 0 /\ final = FALSE
    /\ own = [t \in Tasks |-> "none"]
    /\ pc = [c \in Clients |-> "idle"] /\ arg = [c \in Clients |-> NoTask]
    /\ when = [c \in Clients |-> 0] /\ tnow = [c \in Clients |-> 0]
    /\ pool = TRUE
    /\ runs = [t \in Tasks |-> 0] /\ cancelled = {}

\* The scheduler thread.
SchStep ==
    \/ Start \/ Top \/ Busy \/ Spawn \/ Pick \/ Call \/ Return \/ Relock \/ ScanEnd
    \/ ReapBegin \/ ReapEnd \/ Pop
    \/ \E t \in Tasks : Look(t) \/ Reap(t)

OwnStep(t) == OwnCall(t) \/ OwnReturn(t) \/ OwnEnd(t)

ClientStep(c) == ReadClock(c) \/ Insert(c) \/ Announce(c) \/ ReturnId(c)

\* The scheduler has stopped, and so have the tasks and whoever can still move.
Finished == ~pool /\ UNCHANGED vars

Next ==
    \/ SchStep \/ Tick \/ Stop \/ Stopped
    \/ \E t \in Tasks : OwnStep(t) \/ DelId(t)
    \/ \E c \in Clients : ClientStep(c) \/ \E t \in Tasks : Ask(c, t)
    \/ \E g \in {Group[t] : t \in Tasks} : DelGroup(g)
    \/ Finished

Spec == Init /\ [][Next]_vars

\* The scheduler thread and the threads of tasks run, and functions of tasks
\* return.  Nothing depends on the progress of clients.
Fairness ==
    /\ WF_vars(SchStep)
    /\ \A t \in OwnThread : WF_vars(OwnStep(t))

FairSpec == Spec /\ Fairness

-----------------------------------------------------------------------------
(* Properties.                                                             *)

\* The scheduler thread has a container in hand.
InHand == sch \in {"test", "call", "func", "relock"}

\* Every variable keeps its type; the event queue never exceeds its length, and
\* whoever has a container in hand (task_thread_loop, add_task) has a real one.
TypeOK ==
    /\ now \in Epoch .. MaxTime
    /\ listed \subseteq Tasks /\ freed \subseteq Tasks
    /\ runtime \in [Tasks -> Nat] /\ repeat \in [Tasks -> Nat]
    /\ executed \in [Tasks -> Nat]
    /\ destroyed \subseteq Tasks /\ in_thread \subseteq Tasks /\ running \subseteq Tasks
    /\ task_thread_running \in 0 .. 2
    /\ events \in 0 .. QueueLen
    /\ sch \in SchLabel /\ todo \subseteq Tasks /\ tp \in Tasks \cup {NoTask}
    /\ InHand => tp \in Tasks
    /\ seen \in Nat /\ final \in BOOLEAN
    /\ own \in [Tasks -> OwnLabel]
    /\ pc \in [Clients -> PcLabel] /\ arg \in [Clients -> Tasks \cup {NoTask}]
    /\ \A c \in Clients : pc[c] # "idle" => arg[c] \in Tasks
    /\ when \in [Clients -> Nat] /\ tnow \in [Clients -> Nat]
    /\ pool \in BOOLEAN
    /\ runs \in [Tasks -> 0 .. 2] /\ cancelled \subseteq Tasks

\* No container is freed while a thread works with it (task_thread_loop,
\* task_own_thread): not the one the scheduler thread has in hand or is still to
\* visit, not the one of an own thread.
NoUseAfterFree ==
    /\ \A t \in Tasks : own[t] # "none" => t \in listed \ freed
    /\ InHand => tp \in listed \ freed
    /\ InHand \/ sch \in {"scan", "reap"} => todo \subseteq listed \ freed

\* A task is never run by two threads at once: a new thread starts only when the
\* last one has let go of the container.
OneThreadPerTask ==
    [][\A t \in Tasks : own'[t] = "born" /\ own[t] # "born" =>
          own[t] = "none" /\ t \notin running]_vars

\* What del_task_id has counted as deleted does not start any more, if the task
\* runs in the scheduler thread (the "running" test of del_task_id).
CancelledNeverStarts ==
    [][\A t \in cancelled \ OwnThread : runs'[t] = runs[t]]_vars

\* A task that neither repeats nor reschedules itself starts once.
Once(t) == t \in listed /\ repeat[t] = 0 /\ t \notin Rescheduling => runs[t] <= 1

\* The task runs once at its time, when it runs in the scheduler thread.
OneShotOnce == \A t \in Tasks \ OwnThread : Once(t)

\* The same of tasks with a thread of their own.
OwnOneShotOnce == \A t \in OwnThread : Once(t)

\* A time that was not past when the caller worked it out is not an interval.
TimeIsTime ==
    \A t \in listed : repeat[t] # 0 => repeat[t] \in Intervals

\* No task stays due for ever without being run, unless it is deleted or the
\* scheduler stops.
DueRuns ==
    \A t \in Tasks :
       []<>~(/\ t \in listed \ destroyed /\ runtime[t] <= now /\ executed[t] = 0
             /\ task_thread_running = 1)

\* What is deleted does not stay on the list for ever, unless the scheduler stops.
DeletedFreed ==
    \A t \in Tasks : []<>~(t \in listed \cap destroyed /\ task_thread_running = 1)

-----------------------------------------------------------------------------
(* The inductive invariants behind the theorems of Scheduler_proofs.       *)

\* Who holds which container: in_thread says that a thread of its own exists,
\* running that the scheduler thread executes it, and both are on the list; a
\* container that a client is about to insert is on nobody's list yet.
UseInv ==
    /\ listed \cap freed = {}
    /\ in_thread \subseteq listed \cap OwnThread
    /\ \A t \in Tasks : own[t] # "none" <=> t \in in_thread
    /\ InHand => tp \in listed
    /\ running = IF sch \in {"call", "func", "relock"} THEN {tp} ELSE {}
    /\ sch \in {"call", "func", "relock"} => tp \notin OwnThread
    /\ InHand \/ sch \in {"scan", "reap"} => todo \subseteq listed
    /\ \A c \in Clients : pc[c] \in {"asked", "timed"} =>
          /\ arg[c] \in Tasks \ (listed \cup freed)
          /\ \A d \in Clients : pc[d] \in {"asked", "timed"} /\ arg[d] = arg[c] => d = c

\* A task that del_task_id counted is out of the hands of the scheduler thread.
CancelInv ==
    \A t \in cancelled \ OwnThread :
       /\ t \in freed \cup (listed \cap destroyed)
       /\ InHand => tp # t

OneShot(t) == t \notin OwnThread \cup Rescheduling /\ repeat[t] = 0

\* A one-shot task has not started, or runs, or is destroyed; when its function
\* returns its runtime is no later than the time at which it was picked up.
OnceInv ==
    /\ \A t \in Tasks \ (listed \cup freed) : runs[t] = 0 /\ t \notin destroyed
    /\ \A t \in listed : OneShot(t) =>
          \/ runs[t] = 0
          \/ runs[t] = 1 /\ (t \in destroyed \/ (sch = "func" /\ tp = t))
    /\ sch = "test" /\ OneShot(tp) => tp \notin destroyed /\ runtime[tp] <= seen
    /\ sch \in {"call", "func"} /\ OneShot(tp) => runtime[tp] <= executed[tp]
    /\ sch = "call" /\ OneShot(tp) => runs[tp] = 0

=============================================================================
