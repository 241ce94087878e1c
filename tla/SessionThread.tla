--------------------------- MODULE SessionThread ---------------------------
(***************************************************************************)
(* One session, the thread that runs its state machine, and the other      *)
(* threads that reach it by uuid to change its state, hang it up or queue  *)
(* work for it (switch_core_state_machine.c, switch_channel.c,             *)
(* switch_core_session.c, switch_core_rwlock.c).                           *)
(*                                                                         *)
(* The session thread holds session->mutex for as long as it is awake and  *)
(* channel->thread_mutex while it goes to sleep, sleeps and wakes.  Other  *)
(* threads only ever try these two, for the length of one write or one     *)
(* signal, so who holds them follows from where the session thread is.     *)
(***************************************************************************)
EXTENDS ChannelStates, FiniteSets

CONSTANTS
    Callers,        \* threads other than the session thread
    Nobody,         \* the owner of a free mutex
    Endpoint,       \* the one of them that runs the endpoint of the channel
    Targets,        \* states that callers and applications redirect to
    Causes,         \* hangup causes that callers and applications give
    QueueLen,       \* length of the session's queues (SWITCH_EVENT_QUEUE_LEN)
    NewLoops,       \* turns the thread spends in CS_NEW before it gives up
    EarlyHangup     \* CF_EARLY_HANGUP: handlers run inside hangup

ASSUME CallersAssumption == Endpoint \in Callers /\ Nobody \notin Callers
ASSUME TargetsAssumption == Targets \subseteq Redirect
ASSUME QueueLenAssumption == QueueLen \in Nat \ {0}
ASSUME NewLoopsAssumption == NewLoops \in Nat \ {0}
ASSUME EarlyHangupAssumption == EarlyHangup \in BOOLEAN

NoCause == "NONE"
AbandonCause == "WRONG_CALL_STATE"
Cause == Causes \cup {NoCause, AbandonCause}

Flag == {"OCF_HANGUP", "CF_REPORTING", "SSF_THREAD_RUNNING",
         "SSF_THREAD_STARTED", "SSF_HANGUP", "SSF_DESTROYED"}

\* Where the session thread is.
StLabel == {"unborn", "start", "top", "enter", "handle", "settle", "abandon",
            "lock", "check", "parse", "wait", "asleep", "woken", "drain", "hungup",
            "reported", "leave", "unhash", "free", "dead"}

Lapse == {"retries", "inline", "left"}

\* Where a caller is.
PcLabel == {"idle", "held", "set", "write", "hup_flag", "hup_test",
            "hup_state", "hup_cause", "hup_launch", "wake", "release"}

VARIABLES
    state,          \* channel->state
    running_state,  \* channel->running_state
    cause,          \* channel->hangup_cause
    flags,          \* the channel and session flags that are set
    queue,          \* events, messages and signal data due and not processed
    readers,        \* callers that hold session->rwlock for reading
    state_mutex,    \* the caller that holds channel->state_mutex
    hash_mutex,     \* the caller that holds runtime.session_hash_mutex
    st, cur,        \* the session thread: where it is, the state it handles
    new_loops,      \* turns in CS_NEW that are left
    pc, target,     \* a caller: where it is, the state it asks for
    why,            \* a caller: the cause it hangs up with
    asked,          \* history: the cause of the hangup that was accepted
    cdr,            \* history: the cause the hangup handlers recorded
    hangups,        \* history: how often the hangup handlers ran
    reports,        \* history: how often the reporting handlers ran
    crashed,        \* history: the assertion of set_state failed, an abort
    missed          \* history: what may have gone past the thread since it took
                    \* thread_mutex: a wakeup whose retries ran out, a change of
                    \* state made by queued work, work that a parse left behind

chVars == <<state, running_state, cause, flags>>
lockVars == <<readers, state_mutex, hash_mutex>>
stVars == <<st, cur, new_loops, missed>>
callVars == <<pc, target, why>>
histVars == <<asked, cdr, hangups, reports>>
vars == <<chVars, queue, lockVars, stVars, callVars, histVars, crashed>>

-----------------------------------------------------------------------------
(* The locks of the session thread, its reference and its table entry.     *)

\* session->mutex is locked from the start of switch_core_session_run to its
\* end, except while the thread waits for the condition variable.
MutexHeld == st \notin {"unborn", "start", "asleep", "woken", "leave",
                        "unhash", "free", "dead"}

\* channel->thread_mutex is locked, and CF_THREAD_SLEEPING set, around the
\* last look at the state and the wait.
ThreadMutexHeld == st \in {"check", "parse", "wait", "asleep", "woken"}

InTable == st \notin {"free", "dead"}
Freed == st = "dead"

-----------------------------------------------------------------------------
(* What the session thread does to the channel, in one step because it     *)
(* owns session->mutex: its trylocks succeed and its wakeups go nowhere.   *)

\* The assertion at the end of set_state: the change is neither refused nor in
\* the table, and the channel is still up.
InvalidChange(s, t) == ~Refused(s, t) /\ ~ValidChange(s, t) /\ ~Down(s)

\* switch_channel_set_state(t) by the session thread.
StSetState(t) ==
    /\ state_mutex = Nobody
    /\ state' = IF ~Refused(state, t) /\ ValidChange(state, t) THEN t ELSE state
    /\ crashed' = (crashed \/ InvalidChange(state, t))
    /\ UNCHANGED <<cause, flags, asked, cdr, hangups>>

\* Mutant of FirstHangup: any customer may hang up.
AnyHangup == TRUE

\* OCF_HANGUP is tested and set under state_mutex: one per customer.
FirstHangup == "OCF_HANGUP" \notin flags

\* switch_channel_hangup(c) by the session thread: one per customer.  With
\* CF_EARLY_HANGUP it ends with a run of the hangup handlers.
StHangup(c) ==
    LET first == FirstHangup /\ ~Down(state)
        early == first /\ EarlyHangup
    IN /\ state_mutex = Nobody
       /\ state' = IF first THEN CS_HANGUP ELSE state
       /\ cause' = IF first THEN c ELSE cause
       /\ asked' = IF first THEN c ELSE asked
       /\ cdr' = IF early THEN c ELSE cdr
       /\ hangups' = IF early THEN hangups + 1 ELSE hangups
       /\ flags' = flags \cup {"OCF_HANGUP"}
                         \cup (IF early THEN {"SSF_HANGUP"} ELSE {})
       /\ UNCHANGED crashed

\* What was queued is processed until left of it remain, and may itself
\* transfer the call or hang it up.
Process(left) ==
    /\ queue' = left
    /\ \/ UNCHANGED <<state, cause, flags, asked, cdr, hangups, crashed>>
       \/ /\ queue > 0
          /\ \/ \E t \in Targets : StSetState(t)
             \/ \E c \in Causes : StHangup(c)

\* switch_ivr_parse_all_messages: the events among what is queued stay.
ParseMessages == \E left \in 0 .. queue : Process(left)

\* switch_ivr_parse_all_events: messages, signal data and events, of which the
\* first that fails (an invalid command, CF_BREAK), CF_EVENT_LOCK or media that
\* is not up ends the loop and leaves the rest in the queue.
ParseAll == \E left \in 0 .. queue : Process(left)

-----------------------------------------------------------------------------
(* The session thread: switch_core_session_thread, switch_core_session_run *)

\* The session thread moves on and changes nothing else.
StGoto(l) ==
    /\ st' = l
    /\ UNCHANGED <<chVars, queue, lockVars, cur, new_loops, missed, callVars, histVars, crashed>>

\* The thread begins: flag and lock.
Start ==
    /\ st = "start"
    /\ st' = "top"
    /\ flags' = flags \cup {"SSF_THREAD_RUNNING"}
    /\ UNCHANGED <<state, running_state, cause, queue, lockVars, cur, new_loops, missed,
                   callVars, histVars, crashed>>

\* Top of the loop: is there a state to enter?  (CF_BLOCK_STATE delays this
\* step; hangup clears the flag, so the delay ends with the call at the latest.)
Top ==
    /\ st = "top"
    /\ cur' = state
    /\ st' = IF state # running_state \/ Down(state) THEN "enter" ELSE "settle"
    /\ UNCHANGED <<chVars, queue, lockVars, new_loops, missed, callVars, histVars, crashed>>

\* set_running_state, parse_all_messages.
Enter ==
    /\ st = "enter"
    /\ state_mutex = Nobody
    /\ running_state' = cur
    /\ ParseMessages
    /\ st' = "handle"
    /\ UNCHANGED <<lockVars, cur, new_loops, missed, callVars, reports>>

\* A handler of the endpoint or of an application changes the state.
AppChange ==
    /\ st = "handle" /\ cur \in Working
    /\ \/ \E t \in Targets : StSetState(t)
       \/ \E c \in Causes : StHangup(c)
    /\ UNCHANGED <<running_state, queue, lockVars, stVars, callVars, reports>>

\* The standard handler, which runs only if the state is still the one that
\* the thread entered.
StandardChange ==
    /\ st = "handle" /\ cur \in Working /\ state = cur
    /\ \/ \E t \in StandardTargets(cur) : StSetState(t)
       \/ \E c \in Causes : cur \in StandardHangup /\ StHangup(c)
    /\ UNCHANGED <<running_state, queue, lockVars, stVars, callVars, reports>>

\* The handlers of a state of the call return, or CS_NEW, which has none.
HandlerReturn ==
    /\ st = "handle" /\ cur < CS_HANGUP
    /\ StGoto("settle")

\* switch_core_session_hangup_state(session, SWITCH_TRUE).
HangupState ==
    /\ st = "handle" /\ cur = CS_HANGUP
    /\ st' = "hungup"
    /\ cdr' = IF "SSF_HANGUP" \in flags THEN cdr ELSE cause
    /\ hangups' = IF "SSF_HANGUP" \in flags THEN hangups ELSE hangups + 1
    /\ flags' = flags \cup {"SSF_HANGUP"}
    /\ UNCHANGED <<state, running_state, cause, queue, lockVars, cur, new_loops, missed,
                   callVars, asked, reports, crashed>>

ToReporting ==
    /\ st = "hungup"
    /\ st' = "settle"
    /\ StSetState(CS_REPORTING)
    /\ UNCHANGED <<running_state, queue, lockVars, cur, new_loops, missed, callVars, reports>>

\* switch_core_session_reporting_state, once per session.
ReportingState ==
    /\ st = "handle" /\ cur = CS_REPORTING
    /\ st' = "reported"
    /\ reports' = IF "CF_REPORTING" \in flags THEN reports ELSE reports + 1
    /\ flags' = flags \cup {"CF_REPORTING"}
    /\ UNCHANGED <<state, running_state, cause, queue, lockVars, cur, new_loops, missed,
                   callVars, asked, cdr, hangups, crashed>>

\* CS_DESTROY ends switch_core_session_run.
ToDestroy ==
    /\ st = "reported"
    /\ state_mutex = Nobody
    /\ st' = "leave"
    /\ state' = IF ValidChange(state, CS_DESTROY) THEN CS_DESTROY ELSE state
    /\ flags' = flags \ {"SSF_THREAD_RUNNING"}
    /\ UNCHANGED <<running_state, cause, queue, lockVars, cur, new_loops, missed,
                   callVars, histVars, crashed>>

\* The state is settled: look at the queues before going to sleep.  In CS_NEW
\* the thread does not sleep but counts its turns, and at last hangs up.
Settle ==
    /\ st = "settle"
    /\ \/ /\ state # running_state
          /\ st' = "top"
          /\ UNCHANGED <<state, cause, flags, queue, new_loops, histVars, crashed>>
       \/ /\ state = running_state /\ state = CS_NEW /\ new_loops > 0
          /\ st' = IF new_loops = 1 THEN "abandon" ELSE "top"
          /\ new_loops' = new_loops - 1
          /\ ParseAll
          /\ UNCHANGED reports
       \/ /\ state = running_state /\ state # CS_NEW
          /\ st' = "lock"
          /\ ParseAll
          /\ UNCHANGED <<new_loops, reports>>
    /\ UNCHANGED <<running_state, lockVars, cur, missed, callVars>>

\* The last turn in CS_NEW ends with a hangup, whatever was parsed in it.
Abandon ==
    /\ st = "abandon"
    /\ st' = "top"
    /\ StHangup(AbandonCause)
    /\ UNCHANGED <<running_state, queue, lockVars, cur, new_loops, missed, callVars, reports>>

\* switch_channel_state_thread_lock and CF_THREAD_SLEEPING.
Lock ==
    /\ st = "lock"
    /\ st' = IF state = running_state THEN "check" ELSE "drain"
    /\ missed' = {}
    /\ UNCHANGED <<chVars, queue, lockVars, cur, new_loops, callVars, histVars, crashed>>

\* The last look at the state before the wait.
Check ==
    /\ st = "check"
    /\ StGoto(IF state = running_state THEN "parse" ELSE "drain")

\* The last look at the queues; what it leaves or changes is not looked at.
Parse ==
    /\ st = "parse"
    /\ st' = "wait"
    /\ ParseAll
    /\ missed' = missed \cup {l \in {"inline"} : state' # state}
                       \cup {l \in {"left"} : queue' > 0}
    /\ UNCHANGED <<running_state, lockVars, cur, new_loops, callVars, reports>>

\* switch_thread_cond_wait releases session->mutex and sleeps; it may also
\* return without a signal.
Wait ==
    /\ st = "wait"
    /\ StGoto("asleep")

Spurious ==
    /\ st = "asleep"
    /\ StGoto("woken")

\* Awake: session->mutex again, thread_mutex released.
Woken ==
    /\ st = "woken"
    /\ StGoto("drain")

\* The queues once more, then the top of the loop.
Drain ==
    /\ st = "drain"
    /\ st' = "top"
    /\ ParseAll
    /\ UNCHANGED <<running_state, lockVars, cur, new_loops, missed, callVars, reports>>

\* Mutant of NoReaders: the write lock does not wait.
ReadersIgnored == TRUE

NoReaders == readers = {}

\* The write lock waits for every reader; then SSF_DESTROYED keeps new ones out.
Leave ==
    /\ st = "leave"
    /\ NoReaders
    /\ st' = "unhash"
    /\ flags' = flags \cup {"SSF_DESTROYED"}
    /\ UNCHANGED <<state, running_state, cause, queue, lockVars, cur, new_loops, missed,
                   callVars, histVars, crashed>>

\* switch_core_session_perform_destroy: out of the table, then the destroy
\* handlers and the memory pool.
Unhash ==
    /\ st = "unhash"
    /\ hash_mutex = Nobody
    /\ StGoto("free")

Free ==
    /\ st = "free"
    /\ st' = "dead"
    /\ running_state' = CS_DESTROY
    /\ UNCHANGED <<state, cause, flags, queue, lockVars, cur, new_loops, missed,
                   callVars, histVars, crashed>>

-----------------------------------------------------------------------------
(* The other threads.  A caller finds the session by uuid, does one thing  *)
(* to it and releases it.                                                  *)

\* Mutant of NeverLaunched: a thread that has come and gone is forgotten.
NotRunning == "SSF_THREAD_RUNNING" \notin flags

NeverLaunched == flags \cap {"SSF_THREAD_RUNNING", "SSF_THREAD_STARTED"} = {}

\* switch_core_session_thread_launch, by the creator of the session.
LaunchThread ==
    /\ NeverLaunched
    /\ st' = "start"
    /\ flags' = flags \cup {"SSF_THREAD_RUNNING", "SSF_THREAD_STARTED"}

Launch ==
    /\ LaunchThread
    /\ UNCHANGED <<state, running_state, cause, queue, lockVars, cur, new_loops, missed,
                   callVars, histVars, crashed>>

\* The caller moves on and changes nothing else.
CallerGoto(c, l) ==
    /\ pc' = [pc EXCEPT ![c] = l]
    /\ UNCHANGED <<chVars, queue, lockVars, stVars, target, why, histVars, crashed>>

\* switch_core_session_locate: the table's mutex and switch_core_session_read_lock.
Locate(c) ==
    /\ pc[c] = "idle" /\ InTable /\ hash_mutex = Nobody
    /\ "SSF_DESTROYED" \notin flags /\ ~Down(state)
    /\ readers' = readers \cup {c}
    /\ pc' = [pc EXCEPT ![c] = "held"]
    /\ UNCHANGED <<chVars, queue, state_mutex, hash_mutex, stVars, target, why,
                   histVars, crashed>>

\* read_lock refuses a dead channel, but pings its thread if that sleeps: the
\* wakeup runs with the table's mutex and the read lock held.
Ping(c) ==
    /\ pc[c] = "idle" /\ InTable /\ hash_mutex = Nobody
    /\ Down(state) /\ ThreadMutexHeld
    /\ readers' = readers \cup {c}
    /\ hash_mutex' = c
    /\ pc' = [pc EXCEPT ![c] = "wake"]
    /\ UNCHANGED <<chVars, queue, state_mutex, stVars, target, why, histVars, crashed>>

\* switch_core_session_force_locate, read_lock_hangup: dead channels too.
ForceLocate(c) ==
    /\ pc[c] = "idle" /\ InTable /\ hash_mutex = Nobody
    /\ "SSF_DESTROYED" \notin flags /\ Down(state)
    /\ readers' = readers \cup {c}
    /\ pc' = [pc EXCEPT ![c] = "held"]
    /\ UNCHANGED <<chVars, queue, state_mutex, hash_mutex, stVars, target, why,
                   histVars, crashed>>

\* switch_core_session_rwunlock; the caller's local variables go out of scope.
Release(c) ==
    /\ pc[c] \in {"held", "release"}
    /\ readers' = readers \ {c}
    /\ hash_mutex' = IF hash_mutex = c THEN Nobody ELSE hash_mutex
    /\ pc' = [pc EXCEPT ![c] = "idle"]
    /\ target' = [target EXCEPT ![c] = CS_INIT]
    /\ why' = [why EXCEPT ![c] = NoCause]
    /\ UNCHANGED <<chVars, queue, state_mutex, stVars, histVars, crashed>>

MayInit(c) == c = Endpoint /\ state = CS_NEW

\* Ask for a change of state: a transfer, park, bridge...  The endpoint inits a
\* channel that it sees to be new.
AskChange(c) ==
    /\ pc[c] = "held"
    /\ pc' = [pc EXCEPT ![c] = "set"]
    /\ \/ \E t \in Targets : target' = [target EXCEPT ![c] = t]
       \/ MayInit(c) /\ target' = [target EXCEPT ![c] = CS_INIT]
    /\ UNCHANGED <<chVars, queue, lockVars, stVars, why, histVars, crashed>>

\* switch_channel_perform_set_state up to the transition table.
SetState(c) ==
    /\ pc[c] = "set" /\ state_mutex = Nobody
    /\ LET ok == ~Refused(state, target[c]) /\ ValidChange(state, target[c])
       IN /\ pc' = [pc EXCEPT ![c] = IF ok THEN "write" ELSE "release"]
          /\ state_mutex' = IF ok THEN c ELSE Nobody
    /\ crashed' = (crashed \/ InvalidChange(state, target[c]))
    /\ UNCHANGED <<chVars, queue, readers, hash_mutex, stVars, target, why, histVars>>

\* careful_set: with thread_mutex, or session->mutex, or after 100 tries without
\* either, so that in the end nothing holds up the write.
Write(c) ==
    /\ pc[c] = "write"
    /\ state' = target[c]
    /\ pc' = [pc EXCEPT ![c] = "wake"]
    /\ UNCHANGED <<running_state, cause, flags, queue, lockVars, stVars, target, why,
                   histVars, crashed>>

\* Mutant of BeatThem: content with a thread that has not fallen asleep yet.
BeatThemNearly == st # "asleep"

\* The thread has yet to take thread_mutex, and will look after it has.
BeatThem == ~ThreadMutexHeld

\* switch_core_session_wake_session_thread: signal if session->mutex is free; if
\* not, be content with a thread that is beaten to it; if it is not, try again,
\* and after ten tries leave it at that.
Wake(c) ==
    /\ pc[c] = "wake"
    /\ st' = IF st = "asleep" THEN "woken" ELSE st
    /\ missed' = missed \cup {l \in {"retries"} : MutexHeld /\ ~BeatThem}
    /\ pc' = [pc EXCEPT ![c] = "release"]
    /\ state_mutex' = IF state_mutex = c THEN Nobody ELSE state_mutex
    /\ UNCHANGED <<chVars, queue, readers, hash_mutex, cur, new_loops, target, why,
                   histVars, crashed>>

QueueHasRoom == queue < QueueLen

\* switch_core_session_queue_event, queue_message, queue_signal_data.  A full
\* queue drops an event; a message that does not fit still wakes the thread.
\* (queue_signal_data would wait for room instead; the wait is left out.)
Enqueue(c) ==
    /\ pc[c] = "held"
    /\ \/ /\ QueueHasRoom
          /\ queue' = queue + 1
          /\ pc' = [pc EXCEPT ![c] = "wake"]
       \/ /\ ~QueueHasRoom
          /\ queue' = queue
          /\ \E l \in {"wake", "release"} : pc' = [pc EXCEPT ![c] = l]
    /\ UNCHANGED <<chVars, lockVars, stVars, target, why, histVars, crashed>>

\* switch_channel_perform_hangup, which has the caller's cause in hand.
Hangup(c) ==
    /\ pc[c] = "held"
    /\ \E w \in Causes : why' = [why EXCEPT ![c] = w]
    /\ pc' = [pc EXCEPT ![c] = "hup_flag"]
    /\ UNCHANGED <<chVars, queue, lockVars, stVars, target, histVars, crashed>>

\* "One per customer": test and set OCF_HANGUP under state_mutex.
HangupFlag(c) ==
    /\ pc[c] = "hup_flag" /\ state_mutex = Nobody
    /\ LET first == FirstHangup
       IN /\ pc' = [pc EXCEPT ![c] = IF first THEN "hup_test" ELSE "release"]
          /\ asked' = IF first THEN why[c] ELSE asked
    /\ flags' = flags \cup {"OCF_HANGUP"}
    /\ UNCHANGED <<state, running_state, cause, queue, lockVars, stVars, target, why,
                   cdr, hangups, reports, crashed>>

HangupTest(c) ==
    /\ pc[c] = "hup_test"
    /\ CallerGoto(c, IF Down(state) THEN "release" ELSE "hup_state")

HangupWrite(c) ==
    /\ pc[c] = "hup_state" /\ state_mutex = Nobody
    /\ state' = CS_HANGUP
    /\ pc' = [pc EXCEPT ![c] = "hup_cause"]
    /\ UNCHANGED <<running_state, cause, flags, queue, lockVars, stVars, target, why,
                   histVars, crashed>>

HangupCause(c) ==
    /\ pc[c] = "hup_cause"
    /\ cause' = why[c]
    /\ pc' = [pc EXCEPT ![c] = "hup_launch"]
    /\ UNCHANGED <<state, running_state, flags, queue, lockVars, stVars, target, why,
                   histVars, crashed>>

\* A session whose thread never ran gets one now, to run the hangup; the
\* creation of the thread may fail.
HangupLaunch(c) ==
    /\ pc[c] = "hup_launch"
    /\ \/ LaunchThread
       \/ UNCHANGED <<st, flags>>
    /\ pc' = [pc EXCEPT ![c] = "wake"]
    /\ UNCHANGED <<state, running_state, cause, queue, lockVars, cur, new_loops, missed,
                   target, why, histVars, crashed>>

-----------------------------------------------------------------------------
Init ==
    /\ state = CS_NEW /\ running_state = CS_NONE /\ cause = NoCause
    /\ flags = {} /\ queue = 0
    /\ readers = {} /\ state_mutex = Nobody /\ hash_mutex = Nobody
    /\ st = "unborn" /\ cur = CS_NEW /\ new_loops = NewLoops
    /\ pc = [c \in Callers |-> "idle"]
    /\ target = [c \in Callers |-> CS_INIT]
    /\ why = [c \in Callers |-> NoCause]
    /\ asked = NoCause /\ cdr = NoCause /\ hangups = 0 /\ reports = 0
    /\ crashed = FALSE /\ missed = {}

\* The steps the session thread takes whatever the call does.
StStep ==
    \/ Start \/ Top \/ Enter \/ HangupState \/ ToReporting \/ ReportingState
    \/ ToDestroy \/ Settle \/ Abandon \/ Lock \/ Check \/ Parse \/ Wait \/ Woken \/ Drain
    \/ Leave \/ Unhash \/ Free

\* The steps of a caller that has begun.
CallerStep(c) ==
    \/ Release(c) \/ AskChange(c) \/ SetState(c) \/ Write(c) \/ Wake(c)
    \/ Enqueue(c) \/ Hangup(c) \/ HangupFlag(c) \/ HangupTest(c)
    \/ HangupWrite(c) \/ HangupCause(c) \/ HangupLaunch(c)

\* The session is gone and so are its callers.
Finished ==
    /\ Freed /\ \A c \in Callers : pc[c] = "idle"
    /\ UNCHANGED vars

Next ==
    \/ StStep \/ AppChange \/ StandardChange \/ HandlerReturn \/ Spurious \/ Launch
    \/ \E c \in Callers : CallerStep(c) \/ Locate(c) \/ Ping(c) \/ ForceLocate(c)
    \/ Finished

Spec == Init /\ [][Next]_vars

\* The scheduler runs every thread that can run; a handler returns once its
\* channel has left the state it handles (switch_channel_ready is false); and
\* callers stop asking for a dead session by force, since readers that overlap
\* for ever keep the write lock of a reader-preferring rwlock waiting.
Fairness ==
    /\ WF_vars(StStep)
    /\ WF_vars(HandlerReturn /\ state # running_state)
    /\ \A c \in Callers : WF_vars(CallerStep(c))
    /\ <>[][\A c \in Callers : ~ForceLocate(c)]_vars

FairSpec == Spec /\ Fairness

-----------------------------------------------------------------------------
(* Properties.                                                             *)

\* Every variable keeps its type; the queue never exceeds QueueLen (trypush) and
\* new_loops never goes below zero (switch_core_session_run).
TypeOK ==
    /\ state \in ChannelState
    /\ running_state \in ChannelState \cup {CS_NONE}
    /\ cause \in Cause
    /\ flags \subseteq Flag
    /\ queue \in 0 .. QueueLen
    /\ readers \subseteq Callers
    /\ state_mutex \in Callers \cup {Nobody}
    /\ hash_mutex \in Callers \cup {Nobody}
    /\ st \in StLabel
    /\ cur \in ChannelState
    /\ new_loops \in 0 .. NewLoops
    /\ pc \in [Callers -> PcLabel]
    /\ target \in [Callers -> Redirect \cup {CS_INIT}]
    /\ why \in [Callers -> Cause]
    /\ asked \in Cause /\ cdr \in Cause
    /\ hangups \in Nat /\ reports \in Nat
    /\ crashed \in BOOLEAN /\ missed \subseteq Lapse

\* A caller that has yet to wake the thread.
Waking(c) == pc[c] \in {"hup_cause", "hup_launch", "wake"}

\* No lost wakeup (wake_session_thread, careful_set, the wait of session_run):
\* if no caller ran out of retries, the thread never sleeps through a change of
\* state unless a caller is still about to wake it.  Violated by the code: the last
\* parse may change the state, and nobody looks again.
NoLostWakeup ==
    st = "asleep" /\ state # running_state /\ "retries" \notin missed
        => \E c \in Callers : Waking(c)

\* What holds instead: if the thread sleeps while its state has changed or work is
\* queued, then a caller is about to wake it, or one ran out of its ten tries
\* while the thread held its mutexes, or the work of its last parse changed the
\* state itself, or that parse stopped and left work behind.  No other order of
\* the look, the parse, the wait, the write and the wakeup loses one.
WakeupsAccounted ==
    st = "asleep" =>
       \/ \E c \in Callers : Waking(c)
       \/ "retries" \in missed
       \/ /\ state # running_state => "inline" \in missed
          /\ queue > 0 => "left" \in missed

\* The memory of the session outlives every caller that holds a read lock on
\* it (locate, rwunlock, write_lock, perform_destroy).
NoUseAfterFree == st \in {"free", "dead"} => \A c \in Callers : pc[c] = "idle"

\* The assertion of perform_set_state fails only for the endpoint that tests for
\* CS_NEW and sets CS_INIT in two steps, and only when the channel was moved on
\* between the two: no redirect, handler or queued work ever makes a change that
\* the table of set_state does not allow.
OnlyInitAborts ==
    [][crashed' /\ ~crashed =>
          \E c \in Callers : /\ c = Endpoint /\ pc[c] = "set" /\ pc'[c] = "release"
                             /\ target[c] = CS_INIT /\ state \in Working]_vars

\* The cause recorded by the hangup handlers (variable hangup_cause, and so the
\* CDR) is the cause of the hangup that was accepted.
CauseRecorded == "SSF_HANGUP" \in flags => cdr = asked

\* What is left of it, since perform_hangup stores the cause after CS_HANGUP can
\* be seen: the handlers record the cause of the hangup that was accepted or
\* none, never that of a hangup that came second; and the channel of a session
\* that is freed has the accepted one.
CauseKept ==
    /\ cdr \in {NoCause, asked}
    /\ Freed => cause = asked

\* Asleep through a change of state, for one of the two reasons there are.
Overslept ==
    st = "asleep" /\ state # running_state /\ missed \cap {"retries", "inline"} # {}


\* The session thread is launched once: a hangup that finds the thread already
\* gone does not start another (thread_launch, perform_hangup).
LaunchedOnce == [][st' = "start" /\ st # "start" => st = "unborn"]_vars

\* Under all interleavings of the session thread, redirects, hangups, lookups
\* and queued work, the channel lives the life of ChannelLife.
Life == INSTANCE ChannelLife WITH gone <- Freed
LivesChannelLife == Life!LifeSpec

-----------------------------------------------------------------------------
(* The inductive invariants behind the theorems of SessionThread_proofs.   *)

\* No lost wakeup, from the moment the thread has looked for the last time.
WakeInv ==
    /\ st \in {"parse", "wait", "asleep"} /\ state # running_state
          => \/ \E c \in Callers : Waking(c)
             \/ "retries" \in missed
             \/ st # "parse" /\ "inline" \in missed
    /\ st \in {"wait", "asleep"} /\ queue > 0
          => \/ \E c \in Callers : Waking(c)
             \/ missed \cap {"retries", "left"} # {}

\* A read lock is held from locate to rwunlock, and none survives the write lock.
LockInv ==
    /\ readers = {c \in Callers : pc[c] # "idle"}
    /\ st \in {"unhash", "free", "dead"} => readers = {}
    /\ st \in {"unhash", "free", "dead"} <=> "SSF_DESTROYED" \in flags

\* SSF_THREAD_STARTED is never cleared.
LaunchInv == st # "unborn" <=> "SSF_THREAD_STARTED" \in flags

\* Who may still change the state: the one caller that won the hangup, and the
\* one that holds state_mutex and has checked its change.
ChangeInv ==
    /\ Down(state) => "OCF_HANGUP" \in flags
    /\ \A c \in Callers :
          pc[c] \in {"hup_test", "hup_state"} => "OCF_HANGUP" \in flags /\ ~Down(state)
    /\ \A c, d \in Callers :
          pc[c] \in {"hup_test", "hup_state"} /\ pc[d] \in {"hup_test", "hup_state"} => c = d
    /\ \A c \in Callers :
          pc[c] = "write" => /\ state_mutex = c
                             /\ ~Refused(state, target[c])
                             /\ ValidChange(state, target[c])

\* How far the session thread is in the end of the call.
PhaseInv ==
    /\ hangups = IF "SSF_HANGUP" \in flags THEN 1 ELSE 0
    /\ reports = IF "CF_REPORTING" \in flags THEN 1 ELSE 0
    /\ "SSF_HANGUP" \in flags => Down(state)
    /\ "CF_REPORTING" \in flags => state > CS_HANGUP
    /\ state > CS_HANGUP => "SSF_HANGUP" \in flags
    /\ st \in {"enter", "handle"} => cur <= CS_REPORTING /\ (Down(cur) => state = cur)
    /\ st = "hungup" => state = CS_HANGUP /\ "SSF_HANGUP" \in flags
    /\ st = "reported" => state = CS_REPORTING /\ "CF_REPORTING" \in flags
    /\ state = CS_DESTROY <=> st \in {"leave", "unhash", "free", "dead"}

\* A hangup that was accepted carries the one cause that was asked for, and
\* until it has stored it somebody is about to.
CauseInv ==
    /\ cause \in {NoCause, asked} /\ cdr \in {NoCause, asked}
    /\ "OCF_HANGUP" \notin flags => asked = NoCause
    /\ \A c \in Callers :
          pc[c] \in {"hup_test", "hup_state", "hup_cause"} =>
             why[c] = asked /\ "OCF_HANGUP" \in flags
    /\ Down(state) => cause = asked \/ \E c \in Callers : pc[c] = "hup_cause"

\* Only the endpoint is ever about to set CS_INIT.
InitInv == \A c \in Callers : pc[c] = "set" /\ target[c] = CS_INIT => c = Endpoint

=============================================================================
