------------------------ MODULE SessionThread_proofs ------------------------
(***************************************************************************)
(* Theorems about SessionThread, for every set of callers, every set of    *)
(* states they redirect to and every queue length.                         *)
(***************************************************************************)
EXTENDS SessionThread, TLAPS

USE CallersAssumption, TargetsAssumption, QueueLenAssumption,
    NewLoopsAssumption, EarlyHangupAssumption

-----------------------------------------------------------------------------
(* Facts about the channel states.                                         *)

\* Every state and target that the specification names is a channel state, and
\* the targets of redirects and of standard handlers are working states.
LEMMA StateFacts ==
    /\ CS_NEW \in ChannelState /\ CS_INIT \in Working
    /\ CS_HANGUP \in ChannelState /\ CS_REPORTING \in ChannelState
    /\ CS_DESTROY \in ChannelState
    /\ Redirect \subseteq Working /\ Working \subseteq ChannelState
    /\ Targets \subseteq Working
    /\ \A s \in ChannelState : StandardTargets(s) \subseteq Redirect
BY DEF ChannelState, Working, Redirect, StandardTargets, CS_NEW, CS_INIT,
       CS_ROUTING, CS_SOFT_EXECUTE, CS_EXECUTE, CS_EXCHANGE_MEDIA, CS_PARK,
       CS_CONSUME_MEDIA, CS_HIBERNATE, CS_RESET, CS_HANGUP, CS_REPORTING,
         CS_DESTROY

-----------------------------------------------------------------------------
(* Type correctness.                                                       *)

\* What the session thread does to the channel keeps the types.
LEMMA StSetStateType ==
    ASSUME TypeOK, NEW t \in ChannelState, StSetState(t)
    PROVE  /\ state' \in ChannelState /\ cause' \in Cause /\ flags' \subseteq Flag
           /\ asked' \in Cause /\ cdr' \in Cause /\ hangups' \in Nat
           /\ crashed' \in BOOLEAN
BY DEF TypeOK, StSetState

\* A hangup by the session thread keeps the types.
LEMMA StHangupType ==
    ASSUME TypeOK, NEW c \in Cause, StHangup(c)
    PROVE  /\ state' \in ChannelState /\ cause' \in Cause /\ flags' \subseteq Flag
           /\ asked' \in Cause /\ cdr' \in Cause /\ hangups' \in Nat
           /\ crashed' \in BOOLEAN
BY StateFacts DEF TypeOK, StHangup, FirstHangup, Flag

\* Queued work keeps the types and the length of the queue.
LEMMA ProcessType ==
    ASSUME TypeOK, NEW left \in 0 .. queue, Process(left)
    PROVE  /\ state' \in ChannelState /\ cause' \in Cause /\ flags' \subseteq Flag
           /\ asked' \in Cause /\ cdr' \in Cause /\ hangups' \in Nat
           /\ crashed' \in BOOLEAN /\ queue' \in 0 .. QueueLen
<1>1. queue' \in 0 .. QueueLen
  BY DEF TypeOK, Process
<1>2. CASE UNCHANGED <<state, cause, flags, asked, cdr, hangups, crashed>>
  BY <1>1, <1>2 DEF TypeOK
<1>3. CASE \E t \in Targets : StSetState(t)
  BY <1>1, <1>3, StSetStateType, StateFacts
<1>4. CASE \E c \in Causes : StHangup(c)
  BY <1>1, <1>4, StHangupType DEF Cause
<1> QED
  BY <1>2, <1>3, <1>4 DEF Process

\* The session thread keeps the types, whatever it runs.
LEMMA StepType == TypeOK /\ [Next]_vars => TypeOK'
<1> SUFFICES ASSUME TypeOK, [Next]_vars PROVE TypeOK'
  OBVIOUS
<1> USE StateFacts
<1>1. CASE Start
  BY <1>1 DEF TypeOK, Start, vars, chVars, lockVars, stVars, callVars, histVars,
         StLabel, Flag
<1>2. CASE Top
  BY <1>2 DEF TypeOK, Top, vars, chVars, lockVars, stVars, callVars, histVars,
         StLabel, Flag
<1>3. CASE HangupState
  BY <1>3 DEF TypeOK, HangupState, vars, chVars, lockVars, stVars, callVars,
         histVars,
         StLabel, Flag
<1>4. CASE ReportingState
  BY <1>4 DEF TypeOK, ReportingState, vars, chVars, lockVars, stVars,
         callVars, histVars,
         StLabel, Flag
<1>5. CASE ToDestroy
  BY <1>5 DEF TypeOK, ToDestroy, vars, chVars, lockVars, stVars, callVars,
         histVars,
         StLabel, Flag
<1>6. CASE Lock
  BY <1>6 DEF TypeOK, Lock, StGoto, vars, chVars, lockVars, stVars, callVars,
         histVars,
         StLabel, Flag
<1>7. CASE Check
  BY <1>7 DEF TypeOK, Check, StGoto, vars, chVars, lockVars, stVars, callVars,
         histVars,
         StLabel, Flag
<1>8. CASE Wait
  BY <1>8 DEF TypeOK, Wait, StGoto, vars, chVars, lockVars, stVars, callVars,
         histVars,
         StLabel, Flag
<1>9. CASE Woken
  BY <1>9 DEF TypeOK, Woken, StGoto, vars, chVars, lockVars, stVars, callVars,
         histVars,
         StLabel, Flag
<1>10. CASE Leave
  BY <1>10 DEF TypeOK, Leave, NoReaders, vars, chVars, lockVars, stVars,
         callVars,
         histVars,
         StLabel, Flag
<1>11. CASE Unhash
  BY <1>11 DEF TypeOK, Unhash, StGoto, vars, chVars, lockVars, stVars,
         callVars, histVars,
         StLabel, Flag
<1>12. CASE Free
  BY <1>12 DEF TypeOK, Free, vars, chVars, lockVars, stVars, callVars, histVars,
         StLabel, Flag
<1>13. CASE HandlerReturn
  BY <1>13 DEF TypeOK, HandlerReturn, StGoto, vars, chVars, lockVars, stVars,
         callVars, histVars,
         StLabel, Flag
<1>14. CASE Spurious
  BY <1>14 DEF TypeOK, Spurious, StGoto, vars, chVars, lockVars, stVars,
         callVars, histVars,
         StLabel, Flag
<1>15. CASE Launch
  BY <1>15 DEF TypeOK, Launch, LaunchThread, NeverLaunched, vars, chVars,
         lockVars, stVars,
         callVars, histVars,
         StLabel, Flag
<1>16. CASE Enter
  <2>1. PICK left \in 0 .. queue : Process(left)
    BY <1>16 DEF Enter, ParseMessages
  <2> QED
    BY <1>16, <2>1, ProcessType DEF TypeOK, Enter, vars, chVars, lockVars,
         stVars, callVars, histVars, StLabel
<1>17. CASE Parse
  <2>1. PICK left \in 0 .. queue : Process(left)
    BY <1>17 DEF Parse, ParseAll
  <2>2. missed' \subseteq Lapse
    BY <1>17 DEF TypeOK, Parse, Lapse
  <2> QED
    BY <1>17, <2>1, <2>2, ProcessType DEF TypeOK, Parse, vars, chVars, lockVars,
         stVars, callVars, histVars, StLabel
<1>18. CASE Drain
  <2>1. PICK left \in 0 .. queue : Process(left)
    BY <1>18 DEF Drain, ParseAll
  <2> QED
    BY <1>18, <2>1, ProcessType DEF TypeOK, Drain, vars, chVars, lockVars,
         stVars, callVars, histVars, StLabel
<1>19. CASE Settle
  <2>1. CASE state # running_state
    BY <1>19, <2>1 DEF TypeOK, Settle, vars, chVars, lockVars, stVars,
         callVars, histVars, StLabel
  <2>2. CASE ParseAll /\ new_loops' \in 0 .. NewLoops
    <3>1. PICK left \in 0 .. queue : Process(left)
      BY <2>2 DEF ParseAll
    <3> QED
      BY <1>19, <2>2, <3>1, ProcessType DEF TypeOK, Settle, vars, chVars,
         lockVars, stVars, callVars, histVars, StLabel
  <2> QED
    BY <1>19, <2>1, <2>2 DEF TypeOK, Settle
<1>20. CASE ToReporting
  BY <1>20, StSetStateType DEF TypeOK, ToReporting, vars, chVars, lockVars,
         stVars, callVars, histVars, StLabel
<1>21. CASE AppChange
  <2>1. CASE \E t \in Working : StSetState(t)
    BY <1>21, <2>1, StSetStateType DEF TypeOK, AppChange, vars, chVars,
         lockVars, stVars, callVars, histVars
  <2>2. CASE \E c \in Cause : StHangup(c)
    BY <1>21, <2>2, StHangupType DEF TypeOK, AppChange, vars, chVars,
         lockVars, stVars, callVars, histVars
  <2> QED
    BY <1>21, <2>1, <2>2 DEF TypeOK, AppChange, Cause
<1>22. CASE StandardChange
  <2>1. CASE \E t \in Working : StSetState(t)
    BY <1>22, <2>1, StSetStateType DEF TypeOK, StandardChange, vars, chVars,
         lockVars, stVars, callVars, histVars
  <2>2. CASE \E c \in Cause : StHangup(c)
    BY <1>22, <2>2, StHangupType DEF TypeOK, StandardChange, vars, chVars,
         lockVars, stVars, callVars, histVars
  <2> QED
    BY <1>22, <2>1, <2>2 DEF TypeOK, StandardChange, Cause
<1>23. ASSUME NEW c \in Callers, Release(c) PROVE TypeOK'
  BY <1>23 DEF TypeOK, Release, vars, chVars, lockVars, stVars, callVars,
         histVars,
         StLabel, PcLabel, Flag, Working, Redirect, Cause
<1>24. ASSUME NEW c \in Callers, AskChange(c) PROVE TypeOK'
  BY <1>24 DEF TypeOK, AskChange, MayInit, vars, chVars, lockVars, stVars,
         callVars,
         histVars,
         StLabel, PcLabel, Flag, Working, Redirect
<1>25. ASSUME NEW c \in Callers, SetState(c) PROVE TypeOK'
  BY <1>25 DEF TypeOK, SetState, vars, chVars, lockVars, stVars, callVars,
         histVars,
         StLabel, PcLabel, Flag
<1>26. ASSUME NEW c \in Callers, Write(c) PROVE TypeOK'
  BY <1>26 DEF TypeOK, Write, vars, chVars, lockVars, stVars, callVars,
         histVars,
         StLabel, PcLabel, Flag, Working, Redirect
<1>27. ASSUME NEW c \in Callers, Wake(c) PROVE TypeOK'
  <2>1. missed' \subseteq Lapse
    BY <1>27 DEF TypeOK, Wake, Lapse
  <2> QED
    BY <1>27, <2>1 DEF TypeOK, Wake, chVars, histVars, StLabel, PcLabel
<1>28. ASSUME NEW c \in Callers, Enqueue(c) PROVE TypeOK'
  BY <1>28 DEF TypeOK, Enqueue, QueueHasRoom, vars, chVars, lockVars, stVars,
         callVars,
         histVars,
         StLabel, PcLabel, Flag
<1>29. ASSUME NEW c \in Callers, Hangup(c) PROVE TypeOK'
  BY <1>29 DEF TypeOK, Hangup, vars, chVars, lockVars, stVars, callVars,
         histVars,
         StLabel, PcLabel, Flag, Cause
<1>30. ASSUME NEW c \in Callers, HangupFlag(c) PROVE TypeOK'
  BY <1>30 DEF TypeOK, HangupFlag, FirstHangup, vars, chVars, lockVars,
         stVars, callVars,
         histVars,
         StLabel, PcLabel, Flag
<1>31. ASSUME NEW c \in Callers, HangupTest(c) PROVE TypeOK'
  BY <1>31 DEF TypeOK, HangupTest, CallerGoto, vars, chVars, lockVars, stVars,
         callVars, histVars,
         StLabel, PcLabel, Flag
<1>32. ASSUME NEW c \in Callers, HangupWrite(c) PROVE TypeOK'
  BY <1>32 DEF TypeOK, HangupWrite, vars, chVars, lockVars, stVars, callVars,
         histVars,
         StLabel, PcLabel, Flag
<1>33. ASSUME NEW c \in Callers, HangupCause(c) PROVE TypeOK'
  BY <1>33 DEF TypeOK, HangupCause, vars, chVars, lockVars, stVars, callVars,
         histVars,
         StLabel, PcLabel, Flag
<1>34. ASSUME NEW c \in Callers, HangupLaunch(c) PROVE TypeOK'
  BY <1>34, ZenonT(30) DEF TypeOK, HangupLaunch, LaunchThread, NeverLaunched, vars,
         chVars, lockVars,
         stVars, callVars, histVars,
         StLabel, PcLabel, Flag
<1>35. ASSUME NEW c \in Callers, Locate(c) PROVE TypeOK'
  BY <1>35 DEF TypeOK, Locate, vars, chVars, lockVars, stVars, callVars,
         histVars,
         StLabel, PcLabel, Flag
<1>36. ASSUME NEW c \in Callers, Ping(c) PROVE TypeOK'
  BY <1>36 DEF TypeOK, Ping, vars, chVars, lockVars, stVars, callVars, histVars,
         StLabel, PcLabel, Flag
<1>37. ASSUME NEW c \in Callers, ForceLocate(c) PROVE TypeOK'
  BY <1>37 DEF TypeOK, ForceLocate, vars, chVars, lockVars, stVars, callVars,
         histVars,
         StLabel, PcLabel, Flag
<1>38. CASE Abandon
  <2>1. AbandonCause \in Cause
    BY DEF Cause
  <2> QED
    BY <1>38, <2>1, StHangupType DEF TypeOK, Abandon, vars, chVars, lockVars,
         stVars, callVars, histVars, StLabel
<1>39. CASE Finished \/ UNCHANGED vars
  BY <1>39 DEF TypeOK, Finished, vars, chVars, lockVars, stVars, callVars,
         histVars
<1> QED
  BY <1>1, <1>2, <1>3, <1>4, <1>5, <1>6, <1>7, <1>8, <1>9, <1>10, <1>11,
         <1>12, <1>13, <1>14, <1>15, <1>16, <1>17, <1>18, <1>19, <1>20, <1>21,
         <1>22, <1>23, <1>24, <1>25, <1>26, <1>27, <1>28, <1>29, <1>30, <1>31,
         <1>32, <1>33, <1>34, <1>35, <1>36, <1>37, <1>38, <1>39
     DEF Next, StStep, CallerStep

\* Every variable of the session keeps its type: in particular the state never
\* leaves the enumeration and the queues never outgrow their length.
THEOREM TypeCorrect == Spec => []TypeOK
<1>1. Init => TypeOK
  <2> SUFFICES ASSUME Init PROVE TypeOK
    OBVIOUS
  <2>1. NoCause \in Cause
    BY DEF Cause
  <2>2. new_loops \in 0 .. NewLoops /\ queue \in 0 .. QueueLen
    BY DEF Init
  <2>3. crashed \in BOOLEAN
    BY DEF Init
  <2> QED
    BY <2>1, <2>2, <2>3, StateFacts DEF Init, TypeOK, StLabel, PcLabel
<1> QED
  BY <1>1, StepType, PTL DEF Spec

-----------------------------------------------------------------------------
(* Lifetime: read locks, destruction and the launch of the thread.         *)

\* The flags that the session thread sets from inside handlers and queued work.
LEMMA StChangeFlags ==
    ASSUME \/ \E t : StSetState(t)
           \/ \E c : StHangup(c)
           \/ \E left : Process(left)
    PROVE  \A f \in {"SSF_DESTROYED", "SSF_THREAD_STARTED", "CF_REPORTING"} :
              f \in flags' <=> f \in flags
BY DEF StSetState, StHangup, FirstHangup, Process

\* Locks and launch are kept by every step.
LEMMA LockStep ==
    TypeOK /\ LockInv /\ LaunchInv /\ [Next]_vars => LockInv' /\ LaunchInv'
<1> SUFFICES ASSUME TypeOK, LockInv, LaunchInv, [Next]_vars
             PROVE  LockInv' /\ LaunchInv'
  OBVIOUS
<1>1. CASE Start
  BY <1>1 DEF TypeOK, LockInv, LaunchInv, Start, vars, chVars, lockVars,
         stVars, callVars, histVars
<1>2. CASE Top
  BY <1>2 DEF TypeOK, LockInv, LaunchInv, Top, vars, chVars, lockVars, stVars,
         callVars, histVars
<1>3. CASE Enter
  BY <1>3, StChangeFlags DEF TypeOK, LockInv, LaunchInv, Enter, ParseMessages,
         vars, chVars, lockVars, stVars, callVars, histVars
<1>4. CASE HangupState
  BY <1>4 DEF TypeOK, LockInv, LaunchInv, HangupState, vars, chVars, lockVars,
         stVars, callVars, histVars
<1>5. CASE ToReporting
  BY <1>5, StChangeFlags DEF TypeOK, LockInv, LaunchInv, ToReporting, vars,
         chVars, lockVars, stVars, callVars, histVars
<1>6. CASE ReportingState
  BY <1>6 DEF TypeOK, LockInv, LaunchInv, ReportingState, vars, chVars,
         lockVars, stVars, callVars, histVars
<1>7. CASE ToDestroy
  BY <1>7 DEF TypeOK, LockInv, LaunchInv, ToDestroy, vars, chVars, lockVars,
         stVars, callVars, histVars
<1>8. CASE Settle
  BY <1>8, StChangeFlags DEF TypeOK, LockInv, LaunchInv, Settle, ParseAll,
         vars, chVars, lockVars, stVars, callVars, histVars
<1>9. CASE Lock
  BY <1>9 DEF TypeOK, LockInv, LaunchInv, Lock, StGoto, vars, chVars,
         lockVars, stVars, callVars, histVars
<1>10. CASE Check
  BY <1>10 DEF TypeOK, LockInv, LaunchInv, Check, StGoto, vars, chVars,
         lockVars, stVars, callVars, histVars
<1>11. CASE Parse
  BY <1>11, StChangeFlags DEF TypeOK, LockInv, LaunchInv, Parse, ParseAll,
         vars, chVars, lockVars, stVars, callVars, histVars
<1>12. CASE Wait
  BY <1>12 DEF TypeOK, LockInv, LaunchInv, Wait, StGoto, vars, chVars,
         lockVars, stVars, callVars, histVars
<1>13. CASE Woken
  BY <1>13 DEF TypeOK, LockInv, LaunchInv, Woken, StGoto, vars, chVars,
         lockVars, stVars, callVars, histVars
<1>14. CASE Drain
  BY <1>14, StChangeFlags DEF TypeOK, LockInv, LaunchInv, Drain, ParseAll,
         vars, chVars, lockVars, stVars, callVars, histVars
<1>15. CASE Leave
  BY <1>15 DEF TypeOK, LockInv, LaunchInv, Leave, NoReaders, vars, chVars,
         lockVars,
         stVars, callVars, histVars
<1>16. CASE Unhash
  BY <1>16 DEF TypeOK, LockInv, LaunchInv, Unhash, StGoto, vars, chVars,
         lockVars, stVars, callVars, histVars
<1>17. CASE Free
  BY <1>17 DEF TypeOK, LockInv, LaunchInv, Free, vars, chVars, lockVars,
         stVars, callVars, histVars
<1>18. CASE AppChange
  BY <1>18, StChangeFlags DEF TypeOK, LockInv, LaunchInv, AppChange, vars,
         chVars, lockVars, stVars, callVars, histVars
<1>19. CASE StandardChange
  BY <1>19, StChangeFlags DEF TypeOK, LockInv, LaunchInv, StandardChange,
         vars, chVars, lockVars, stVars, callVars, histVars
<1>20. CASE HandlerReturn
  BY <1>20 DEF TypeOK, LockInv, LaunchInv, HandlerReturn, StGoto, vars,
         chVars, lockVars, stVars, callVars, histVars
<1>21. CASE Spurious
  BY <1>21 DEF TypeOK, LockInv, LaunchInv, Spurious, StGoto, vars, chVars,
         lockVars, stVars, callVars, histVars
<1>22. CASE Launch
  BY <1>22 DEF TypeOK, LockInv, LaunchInv, Launch, LaunchThread,
         NeverLaunched, vars, chVars,
         lockVars, stVars, callVars, histVars
<1>23. ASSUME NEW c \in Callers, Release(c) PROVE LockInv' /\ LaunchInv'
  BY <1>23 DEF TypeOK, LockInv, LaunchInv, Release, vars, chVars, lockVars,
         stVars, callVars, histVars
<1>24. ASSUME NEW c \in Callers, AskChange(c) PROVE LockInv' /\ LaunchInv'
  BY <1>24 DEF TypeOK, LockInv, LaunchInv, AskChange, MayInit, vars, chVars,
         lockVars,
         stVars, callVars, histVars
<1>25. ASSUME NEW c \in Callers, SetState(c) PROVE LockInv' /\ LaunchInv'
  BY <1>25 DEF TypeOK, LockInv, LaunchInv, SetState, vars, chVars, lockVars,
         stVars, callVars, histVars
<1>26. ASSUME NEW c \in Callers, Write(c) PROVE LockInv' /\ LaunchInv'
  BY <1>26 DEF TypeOK, LockInv, LaunchInv, Write, vars, chVars, lockVars,
         stVars, callVars, histVars
<1>27. ASSUME NEW c \in Callers, Wake(c) PROVE LockInv' /\ LaunchInv'
  BY <1>27 DEF TypeOK, LockInv, LaunchInv, Wake, vars, chVars, lockVars,
         stVars, callVars, histVars
<1>28. ASSUME NEW c \in Callers, Enqueue(c) PROVE LockInv' /\ LaunchInv'
  BY <1>28 DEF TypeOK, LockInv, LaunchInv, Enqueue, QueueHasRoom, vars,
         chVars, lockVars,
         stVars, callVars, histVars
<1>29. ASSUME NEW c \in Callers, Hangup(c) PROVE LockInv' /\ LaunchInv'
  BY <1>29 DEF TypeOK, LockInv, LaunchInv, Hangup, vars, chVars, lockVars,
         stVars, callVars, histVars
<1>30. ASSUME NEW c \in Callers, HangupFlag(c) PROVE LockInv' /\ LaunchInv'
  BY <1>30 DEF TypeOK, LockInv, LaunchInv, HangupFlag, FirstHangup, vars,
         chVars, lockVars,
         stVars, callVars, histVars
<1>31. ASSUME NEW c \in Callers, HangupTest(c) PROVE LockInv' /\ LaunchInv'
  BY <1>31 DEF TypeOK, LockInv, LaunchInv, HangupTest, CallerGoto, vars,
         chVars, lockVars, stVars, callVars, histVars
<1>32. ASSUME NEW c \in Callers, HangupWrite(c) PROVE LockInv' /\ LaunchInv'
  BY <1>32 DEF TypeOK, LockInv, LaunchInv, HangupWrite, vars, chVars,
         lockVars, stVars, callVars, histVars
<1>33. ASSUME NEW c \in Callers, HangupCause(c) PROVE LockInv' /\ LaunchInv'
  BY <1>33 DEF TypeOK, LockInv, LaunchInv, HangupCause, vars, chVars,
         lockVars, stVars, callVars, histVars
<1>34. ASSUME NEW c \in Callers, HangupLaunch(c) PROVE LockInv' /\ LaunchInv'
  BY <1>34 DEF TypeOK, LockInv, LaunchInv, HangupLaunch, LaunchThread,
         NeverLaunched, vars,
         chVars, lockVars, stVars, callVars, histVars
<1>35. ASSUME NEW c \in Callers, Locate(c) PROVE LockInv' /\ LaunchInv'
  BY <1>35 DEF TypeOK, LockInv, LaunchInv, Locate, InTable, vars, chVars,
         lockVars, stVars, callVars, histVars
<1>36. ASSUME NEW c \in Callers, Ping(c) PROVE LockInv' /\ LaunchInv'
  BY <1>36 DEF TypeOK, LockInv, LaunchInv, Ping, InTable, ThreadMutexHeld,
         vars, chVars, lockVars, stVars, callVars, histVars
<1>37. ASSUME NEW c \in Callers, ForceLocate(c) PROVE LockInv' /\ LaunchInv'
  BY <1>37 DEF TypeOK, LockInv, LaunchInv, ForceLocate, InTable, vars, chVars,
         lockVars, stVars, callVars, histVars
<1>38. CASE Abandon
  BY <1>38, StChangeFlags DEF TypeOK, LockInv, LaunchInv, Abandon, vars,
         chVars, lockVars, stVars, callVars, histVars
<1>39. CASE Finished \/ UNCHANGED vars
  BY <1>39 DEF TypeOK, LockInv, LaunchInv, Finished, vars, chVars, lockVars,
         stVars, callVars, histVars
<1> QED
  BY <1>1, <1>2, <1>3, <1>4, <1>5, <1>6, <1>7, <1>8, <1>9, <1>10, <1>11,
         <1>12, <1>13, <1>14, <1>15, <1>16, <1>17, <1>18, <1>19, <1>20, <1>21,
         <1>22, <1>23, <1>24, <1>25, <1>26, <1>27, <1>28, <1>29, <1>30, <1>31,
         <1>32, <1>33, <1>34, <1>35, <1>36, <1>37, <1>38, <1>39
     DEF Next, StStep, CallerStep

\* Read locks are held from locate to rwunlock and none survives the write lock;
\* SSF_DESTROYED and SSF_THREAD_STARTED tell how far the session is.
THEOREM LockCorrect == Spec => [](LockInv /\ LaunchInv)
<1>1. Init => LockInv /\ LaunchInv
  BY DEF Init, LockInv, LaunchInv
<1> QED
  BY <1>1, LockStep, TypeCorrect, PTL DEF Spec

\* The memory of a session is not freed while a caller still holds it: whoever
\* located the session may use it until rwunlock (read_lock, write_lock,
\* perform_destroy).
THEOREM MemorySafe == Spec => []NoUseAfterFree
<1>1. LockInv => NoUseAfterFree
  BY DEF LockInv, NoUseAfterFree
<1> QED
  BY <1>1, LockCorrect, PTL

\* No interleaving of thread_launch and hangup starts a second thread for a
\* session, not even when the first has come and gone.
THEOREM LaunchOnce == Spec => LaunchedOnce
<1>1. ASSUME TypeOK, LaunchInv, [Next]_vars, st' = "start", st # "start"
      PROVE  st = "unborn"
  <2>1. LaunchThread
    BY <1>1 DEF Next, StStep, CallerStep, Start, Top, Enter, HangupState,
         ToReporting, ReportingState, ToDestroy, Settle, Abandon, Lock, Check, Parse,
         Wait,
         Woken, Drain, Leave, NoReaders, Unhash, Free, AppChange,
         StandardChange,
         HandlerReturn, Spurious, Launch, Finished, StGoto, CallerGoto,
         Release, AskChange, MayInit, SetState, Write, Wake, Enqueue,
         QueueHasRoom, Hangup, HangupFlag, FirstHangup,
         HangupTest, HangupWrite, HangupCause, HangupLaunch, Locate, Ping,
         ForceLocate, vars, stVars
  <2> QED
    BY <1>1, <2>1 DEF LaunchInv, LaunchThread, NeverLaunched
<1> QED
  BY <1>1, TypeCorrect, LockCorrect, PTL DEF Spec, LaunchedOnce

-----------------------------------------------------------------------------
(* The life of the channel.                                                *)

\* What a set_state or a hangup by the session thread amounts to.
StEffect ==
    \/ UNCHANGED <<state, flags, hangups>>
    \/ /\ ~Down(state) /\ state_mutex = Nobody
       /\ state' \in Working /\ ValidChange(state, state')
       /\ UNCHANGED <<flags, hangups>>
    \/ /\ ~Down(state) /\ state_mutex = Nobody /\ "OCF_HANGUP" \notin flags
       /\ state' = CS_HANGUP
       /\ \/ flags' = flags \cup {"OCF_HANGUP"} /\ hangups' = hangups
          \/ /\ flags' = flags \cup {"OCF_HANGUP", "SSF_HANGUP"}
             /\ hangups' = hangups + 1

\* A set_state by the session thread to a state of the call has this effect.
LEMMA StSetStateEffect ==
    ASSUME TypeOK, NEW t \in Working, StSetState(t)
    PROVE  StEffect
BY DEF TypeOK, StSetState, StEffect, Refused, Down, Working, ChannelState,
       CS_NEW, CS_INIT, CS_RESET, CS_HANGUP, CS_DESTROY

\* So has a hangup by the session thread.
LEMMA StHangupEffect ==
    ASSUME TypeOK, ChangeInv, NEW c, StHangup(c)
    PROVE  StEffect
<1>1. CASE "OCF_HANGUP" \in flags
  BY <1>1 DEF TypeOK, StHangup, FirstHangup, StEffect
<1>2. CASE "OCF_HANGUP" \notin flags
  BY <1>2 DEF TypeOK, ChangeInv, StHangup, FirstHangup, StEffect
<1> QED
  BY <1>1, <1>2

\* So has queued work.
LEMMA ProcessEffect ==
    ASSUME TypeOK, ChangeInv, NEW left, Process(left)
    PROVE  StEffect
BY StSetStateEffect, StHangupEffect, StateFacts DEF Process, StEffect

\* The order and the validity of changes of state are kept by every step.
LEMMA LifeStep ==
    TypeOK /\ ChangeInv /\ PhaseInv /\ LaunchInv /\ [Next]_vars => ChangeInv' /\ PhaseInv'
<1> SUFFICES ASSUME TypeOK, ChangeInv, PhaseInv, LaunchInv, [Next]_vars
             PROVE  ChangeInv' /\ PhaseInv'
  OBVIOUS
<1> USE DEF Down, Working, ChannelState, CS_NEW, CS_INIT, CS_RESET, CS_HANGUP,
         CS_REPORTING, CS_DESTROY
<1>1. CASE Start
  BY <1>1 DEF TypeOK, ChangeInv, PhaseInv, Start, vars, chVars, lockVars,
         stVars, callVars, histVars
<1>2. CASE Top
  BY <1>2 DEF TypeOK, ChangeInv, PhaseInv, Top, vars, chVars, lockVars,
         stVars, callVars, histVars
<1>3. CASE Enter
  <2>1. StEffect
    BY <1>3, ProcessEffect DEF Enter, ParseMessages
  <2> QED
    BY <1>3, <2>1 DEF TypeOK, ChangeInv, PhaseInv, StEffect, Enter, vars,
         chVars, lockVars, stVars, callVars, histVars
<1>4. CASE HangupState
  BY <1>4 DEF TypeOK, ChangeInv, PhaseInv, HangupState, vars, chVars,
         lockVars, stVars, callVars, histVars
<1>5. CASE ToReporting
  BY <1>5 DEF TypeOK, ChangeInv, PhaseInv, ToReporting, StSetState,
         ValidChange, Refused, vars, chVars, lockVars, stVars, callVars,
         histVars
<1>6. CASE ReportingState
  BY <1>6 DEF TypeOK, ChangeInv, PhaseInv, ReportingState, vars, chVars,
         lockVars, stVars, callVars, histVars
<1>7. CASE ToDestroy
  BY <1>7 DEF TypeOK, ChangeInv, PhaseInv, ToDestroy, ValidChange, vars,
         chVars, lockVars, stVars, callVars, histVars
<1>8. CASE Settle
  <2>1. StEffect
    BY <1>8, ProcessEffect, StHangupEffect
    DEF Settle, ParseAll, StEffect, histVars
  <2> QED
    BY <1>8, <2>1 DEF TypeOK, ChangeInv, PhaseInv, StEffect, Settle, vars,
         chVars, lockVars, stVars, callVars, histVars
<1>9. CASE Lock
  BY <1>9 DEF TypeOK, ChangeInv, PhaseInv, Lock, StGoto, vars, chVars,
         lockVars, stVars, callVars, histVars
<1>10. CASE Check
  BY <1>10 DEF TypeOK, ChangeInv, PhaseInv, Check, StGoto, vars, chVars,
         lockVars, stVars, callVars, histVars
<1>11. CASE Parse
  <2>1. StEffect
    BY <1>11, ProcessEffect DEF Parse, ParseAll
  <2> QED
    BY <1>11, <2>1 DEF TypeOK, ChangeInv, PhaseInv, StEffect, Parse, vars,
         chVars, lockVars, stVars, callVars, histVars
<1>12. CASE Wait
  BY <1>12 DEF TypeOK, ChangeInv, PhaseInv, Wait, StGoto, vars, chVars,
         lockVars, stVars, callVars, histVars
<1>13. CASE Woken
  BY <1>13 DEF TypeOK, ChangeInv, PhaseInv, Woken, StGoto, vars, chVars,
         lockVars, stVars, callVars, histVars
<1>14. CASE Drain
  <2>1. StEffect
    BY <1>14, ProcessEffect DEF Drain, ParseAll
  <2> QED
    BY <1>14, <2>1 DEF TypeOK, ChangeInv, PhaseInv, StEffect, Drain, vars,
         chVars, lockVars, stVars, callVars, histVars
<1>15. CASE Leave
  BY <1>15 DEF TypeOK, ChangeInv, PhaseInv, Leave, NoReaders, vars, chVars,
         lockVars,
         stVars, callVars, histVars
<1>16. CASE Unhash
  BY <1>16 DEF TypeOK, ChangeInv, PhaseInv, Unhash, StGoto, vars, chVars,
         lockVars, stVars, callVars, histVars
<1>17. CASE Free
  BY <1>17 DEF TypeOK, ChangeInv, PhaseInv, Free, vars, chVars, lockVars,
         stVars, callVars, histVars
<1>18. CASE AppChange
  <2>1. StEffect
    BY <1>18, StSetStateEffect, StHangupEffect, StateFacts DEF AppChange
  <2> QED
    BY <1>18, <2>1 DEF TypeOK, ChangeInv, PhaseInv, StEffect, AppChange, vars,
         chVars, lockVars, stVars, callVars, histVars
<1>19. CASE StandardChange
  <2>1. StEffect
    BY <1>19, StSetStateEffect, StHangupEffect, StateFacts DEF TypeOK,
         StandardChange
  <2> QED
    BY <1>19, <2>1 DEF TypeOK, ChangeInv, PhaseInv, StEffect, StandardChange,
         vars, chVars, lockVars, stVars, callVars, histVars
<1>20. CASE HandlerReturn
  BY <1>20 DEF TypeOK, ChangeInv, PhaseInv, HandlerReturn, StGoto, vars,
         chVars, lockVars, stVars, callVars, histVars
<1>21. CASE Spurious
  BY <1>21 DEF TypeOK, ChangeInv, PhaseInv, Spurious, StGoto, vars, chVars,
         lockVars, stVars, callVars, histVars
<1>22. CASE Launch
  BY <1>22 DEF TypeOK, ChangeInv, PhaseInv, LaunchInv, Launch, LaunchThread,
         NeverLaunched,
         vars,
         chVars, lockVars, stVars, callVars, histVars
<1>23. ASSUME NEW c \in Callers, Release(c) PROVE ChangeInv' /\ PhaseInv'
  BY <1>23 DEF TypeOK, ChangeInv, PhaseInv, Release, vars, chVars, lockVars,
         stVars, callVars, histVars
<1>24. ASSUME NEW c \in Callers, AskChange(c) PROVE ChangeInv' /\ PhaseInv'
  BY <1>24 DEF TypeOK, ChangeInv, PhaseInv, AskChange, MayInit, vars, chVars,
         lockVars,
         stVars, callVars, histVars
<1>25. ASSUME NEW c \in Callers, SetState(c) PROVE ChangeInv' /\ PhaseInv'
  BY <1>25 DEF TypeOK, ChangeInv, PhaseInv, SetState, vars, chVars, lockVars,
         stVars, callVars, histVars
<1>26. ASSUME NEW c \in Callers, Write(c) PROVE ChangeInv' /\ PhaseInv'
  <2>1. /\ state_mutex = c /\ state' = target[c] /\ target[c] \in Working
        /\ ~Down(state) /\ ~Down(state')
    BY <1>26 DEF TypeOK, ChangeInv, Write, ValidChange, Refused, Redirect
  <2>2. PhaseInv'
    BY <1>26, <2>1 DEF TypeOK, PhaseInv, Write, lockVars, stVars, histVars
  <2>3. ChangeInv'
    BY <1>26, <2>1 DEF TypeOK, ChangeInv, PcLabel, Write, lockVars, stVars,
         histVars
  <2> QED
    BY <2>2, <2>3
<1>27. ASSUME NEW c \in Callers, Wake(c) PROVE ChangeInv' /\ PhaseInv'
  BY <1>27 DEF TypeOK, ChangeInv, PhaseInv, Wake, vars, chVars, lockVars,
         stVars, callVars, histVars
<1>28. ASSUME NEW c \in Callers, Enqueue(c) PROVE ChangeInv' /\ PhaseInv'
  BY <1>28 DEF TypeOK, ChangeInv, PhaseInv, Enqueue, QueueHasRoom, vars,
         chVars, lockVars,
         stVars, callVars, histVars
<1>29. ASSUME NEW c \in Callers, Hangup(c) PROVE ChangeInv' /\ PhaseInv'
  BY <1>29 DEF TypeOK, ChangeInv, PhaseInv, Hangup, vars, chVars, lockVars,
         stVars, callVars, histVars
<1>30. ASSUME NEW c \in Callers, HangupFlag(c) PROVE ChangeInv' /\ PhaseInv'
  BY <1>30 DEF TypeOK, ChangeInv, PhaseInv, HangupFlag, FirstHangup, vars,
         chVars,
         lockVars, stVars, callVars, histVars
<1>31. ASSUME NEW c \in Callers, HangupTest(c) PROVE ChangeInv' /\ PhaseInv'
  BY <1>31 DEF TypeOK, ChangeInv, PhaseInv, HangupTest, CallerGoto, vars,
         chVars, lockVars, stVars, callVars, histVars
<1>32. ASSUME NEW c \in Callers, HangupWrite(c) PROVE ChangeInv' /\ PhaseInv'
  BY <1>32 DEF TypeOK, ChangeInv, PhaseInv, HangupWrite, vars, chVars,
         lockVars, stVars, callVars, histVars
<1>33. ASSUME NEW c \in Callers, HangupCause(c) PROVE ChangeInv' /\ PhaseInv'
  BY <1>33 DEF TypeOK, ChangeInv, PhaseInv, HangupCause, vars, chVars,
         lockVars, stVars, callVars, histVars
<1>34. ASSUME NEW c \in Callers, HangupLaunch(c) PROVE ChangeInv' /\ PhaseInv'
  BY <1>34 DEF TypeOK, ChangeInv, PhaseInv, LaunchInv, HangupLaunch,
         LaunchThread, NeverLaunched, vars,
         chVars, lockVars, stVars, callVars, histVars
<1>35. ASSUME NEW c \in Callers, Locate(c) PROVE ChangeInv' /\ PhaseInv'
  BY <1>35 DEF TypeOK, ChangeInv, PhaseInv, Locate, vars, chVars, lockVars,
         stVars, callVars, histVars
<1>36. ASSUME NEW c \in Callers, Ping(c) PROVE ChangeInv' /\ PhaseInv'
  BY <1>36 DEF TypeOK, ChangeInv, PhaseInv, Ping, vars, chVars, lockVars,
         stVars, callVars, histVars
<1>37. ASSUME NEW c \in Callers, ForceLocate(c) PROVE ChangeInv' /\ PhaseInv'
  BY <1>37 DEF TypeOK, ChangeInv, PhaseInv, ForceLocate, vars, chVars,
         lockVars, stVars, callVars, histVars
<1>38. CASE Abandon
  <2>1. StEffect
    BY <1>38, StHangupEffect DEF Abandon
  <2> QED
    BY <1>38, <2>1 DEF TypeOK, ChangeInv, PhaseInv, StEffect, Abandon, vars,
         chVars, lockVars, stVars, callVars, histVars
<1>39. CASE Finished \/ UNCHANGED vars
  BY <1>39 DEF TypeOK, ChangeInv, PhaseInv, Finished, vars, chVars, lockVars,
         stVars, callVars, histVars
<1> QED
  BY <1>1, <1>2, <1>3, <1>4, <1>5, <1>6, <1>7, <1>8, <1>9, <1>10, <1>11,
         <1>12, <1>13, <1>14, <1>15, <1>16, <1>17, <1>18, <1>19, <1>20, <1>21,
         <1>22, <1>23, <1>24, <1>25, <1>26, <1>27, <1>28, <1>29, <1>30, <1>31,
         <1>32, <1>33, <1>34, <1>35, <1>36, <1>37, <1>38, <1>39
     DEF Next, StStep, CallerStep

\* One caller at most carries an accepted hangup, and the flags tell how far the
\* end of the call has come.
THEOREM LifeCorrect == Spec => [](ChangeInv /\ PhaseInv)
<1>1. Init => ChangeInv /\ PhaseInv
  BY DEF Init, ChangeInv, PhaseInv, Down, CS_NEW, CS_HANGUP, CS_REPORTING,
         CS_DESTROY
<1> QED
  BY <1>1, LifeStep, TypeCorrect, LockCorrect, PTL DEF Spec

\* The abstract life speaks of the same states.
LEMMA SameStates ==
    /\ Life!CS_NEW = CS_NEW /\ Life!CS_HANGUP = CS_HANGUP
    /\ Life!CS_REPORTING = CS_REPORTING /\ Life!CS_DESTROY = CS_DESTROY
    /\ Life!Working = Working
    /\ \A s : Life!Down(s) <=> Down(s)
    /\ \A s, t : Life!ValidChange(s, t) <=> ValidChange(s, t)
<1> USE DEF Life!CS_NEW, Life!CS_INIT, Life!CS_HIBERNATE, Life!CS_RESET,
         Life!CS_HANGUP, Life!CS_REPORTING, Life!CS_DESTROY,
            CS_NEW, CS_INIT, CS_HIBERNATE, CS_RESET, CS_HANGUP, CS_REPORTING,
         CS_DESTROY,
            Life!Working, Working, Life!Redirect, Redirect
<1>1. \A s : Life!Down(s) <=> Down(s)
  BY DEF Life!Down, Down
<1>2. \A s, t : Life!ValidChange(s, t) <=> ValidChange(s, t)
  BY DEF Life!ValidChange, ValidChange
<1> QED
  BY <1>1, <1>2

\* A change made by the session thread outside the end of the call is a step of
\* the abstract life, or none.
LEMMA StEffectRefines ==
    ASSUME TypeOK, PhaseInv, StEffect, UNCHANGED reports, Freed' = Freed
    PROVE  [Life!LifeNext]_(Life!lifeVars)
<1>1. CASE UNCHANGED <<state, flags, hangups>>
  BY <1>1 DEF Life!lifeVars
<1>2. CASE /\ ~Down(state) /\ state' \in Working /\ ValidChange(state, state')
           /\ UNCHANGED <<flags, hangups>>
  <2>1. Life!Move
    BY <1>2, SameStates DEF Life!Move
  <2> QED
    BY <2>1 DEF Life!LifeNext
<1>3. CASE /\ ~Down(state) /\ state' = CS_HANGUP
           /\ hangups' \in {hangups, hangups + 1}
  <2>1. hangups = 0
    BY <1>3 DEF PhaseInv
  <2>2. Life!End
    BY <1>3, <2>1, SameStates DEF Life!End
  <2> QED
    BY <2>2 DEF Life!LifeNext
<1> QED
  BY <1>1, <1>2, <1>3 DEF StEffect

\* Every step of the session and its callers is a step of the abstract life, or
\* changes nothing of it.
LEMMA StepRefines ==
    ASSUME TypeOK, LaunchInv, ChangeInv, PhaseInv, [Next]_vars
    PROVE  [Life!LifeNext]_(Life!lifeVars)
<1>1. CASE Start
  BY <1>1 DEF Life!lifeVars, Freed, Start, vars, chVars, lockVars, stVars,
         callVars, histVars
<1>2. CASE Top
  BY <1>2 DEF Life!lifeVars, Freed, Top, vars, chVars, lockVars, stVars,
         callVars, histVars
<1>3. CASE Enter
  <2>1. StEffect
    BY <1>3, ProcessEffect DEF Enter, ParseMessages
  <2>2. UNCHANGED reports /\ Freed' = Freed
    BY <1>3 DEF Enter, stVars, histVars, Freed
  <2> QED
    BY <2>1, <2>2, StEffectRefines
<1>4. CASE HangupState
  <2>1. Life!RunHangupHandlers \/ UNCHANGED Life!lifeVars
    BY <1>4, SameStates DEF TypeOK, PhaseInv, HangupState, Flag, Freed,
         Life!RunHangupHandlers,
         Life!lifeVars, chVars, stVars, histVars, CS_HANGUP, CS_REPORTING,
         CS_DESTROY, Down
  <2> QED
    BY <2>1 DEF Life!LifeNext
<1>5. CASE ToReporting
  <2>1. Life!BeginReporting \/ UNCHANGED Life!lifeVars
    BY <1>5, SameStates DEF TypeOK, PhaseInv, ToReporting, StSetState,
         Refused, ValidChange, Freed, Life!BeginReporting,
         Life!lifeVars, chVars, stVars, histVars, CS_HANGUP, CS_REPORTING,
         CS_DESTROY, Down
  <2> QED
    BY <2>1 DEF Life!LifeNext
<1>6. CASE ReportingState
  <2>1. Life!RunReportingHandlers \/ UNCHANGED Life!lifeVars
    BY <1>6, SameStates DEF TypeOK, PhaseInv, ReportingState, Flag, Freed,
         Life!RunReportingHandlers,
         Life!lifeVars, chVars, stVars, histVars, CS_HANGUP, CS_REPORTING,
         CS_DESTROY, Down
  <2> QED
    BY <2>1 DEF Life!LifeNext
<1>7. CASE ToDestroy
  <2>1. Life!Destroy \/ UNCHANGED Life!lifeVars
    BY <1>7, SameStates DEF TypeOK, PhaseInv, ToDestroy, ValidChange, Freed,
         Life!Destroy,
         Life!lifeVars, chVars, stVars, histVars, CS_HANGUP, CS_REPORTING,
         CS_DESTROY, Down
  <2> QED
    BY <2>1 DEF Life!LifeNext
<1>8. CASE Settle
  <2>1. StEffect
    BY <1>8, ProcessEffect, StHangupEffect DEF Settle, ParseAll, StEffect,
         histVars
  <2>2. UNCHANGED reports /\ Freed' = Freed
    BY <1>8 DEF Settle, stVars, histVars, Freed
  <2> QED
    BY <2>1, <2>2, StEffectRefines
<1>9. CASE Lock
  BY <1>9 DEF Life!lifeVars, Freed, Lock, StGoto, vars, chVars, lockVars,
         stVars, callVars, histVars
<1>10. CASE Check
  BY <1>10 DEF Life!lifeVars, Freed, Check, StGoto, vars, chVars, lockVars,
         stVars, callVars, histVars
<1>11. CASE Parse
  <2>1. StEffect
    BY <1>11, ProcessEffect DEF Parse, ParseAll
  <2>2. UNCHANGED reports /\ Freed' = Freed
    BY <1>11 DEF Parse, stVars, histVars, Freed
  <2> QED
    BY <2>1, <2>2, StEffectRefines
<1>12. CASE Wait
  BY <1>12 DEF Life!lifeVars, Freed, Wait, StGoto, vars, chVars, lockVars,
         stVars, callVars, histVars
<1>13. CASE Woken
  BY <1>13 DEF Life!lifeVars, Freed, Woken, StGoto, vars, chVars, lockVars,
         stVars, callVars, histVars
<1>14. CASE Drain
  <2>1. StEffect
    BY <1>14, ProcessEffect DEF Drain, ParseAll
  <2>2. UNCHANGED reports /\ Freed' = Freed
    BY <1>14 DEF Drain, stVars, histVars, Freed
  <2> QED
    BY <2>1, <2>2, StEffectRefines
<1>15. CASE Leave
  BY <1>15 DEF Life!lifeVars, Freed, Leave, NoReaders, vars, chVars, lockVars,
         stVars,
         callVars, histVars
<1>16. CASE Unhash
  BY <1>16 DEF Life!lifeVars, Freed, Unhash, StGoto, vars, chVars, lockVars,
         stVars, callVars, histVars
<1>17. CASE Free
  <2>1. Life!FreeMemory \/ UNCHANGED Life!lifeVars
    BY <1>17, SameStates DEF TypeOK, PhaseInv, Free, chVars, Freed,
         Life!FreeMemory,
         Life!lifeVars, chVars, stVars, histVars, CS_HANGUP, CS_REPORTING,
         CS_DESTROY, Down
  <2> QED
    BY <2>1 DEF Life!LifeNext
<1>18. CASE AppChange
  <2>1. StEffect
    BY <1>18, StSetStateEffect, StHangupEffect, StateFacts DEF AppChange
  <2>2. UNCHANGED reports /\ Freed' = Freed
    BY <1>18 DEF AppChange, stVars, histVars, Freed
  <2> QED
    BY <2>1, <2>2, StEffectRefines
<1>19. CASE StandardChange
  <2>1. StEffect
    BY <1>19, StSetStateEffect, StHangupEffect, StateFacts DEF StandardChange,
         TypeOK
  <2>2. UNCHANGED reports /\ Freed' = Freed
    BY <1>19 DEF StandardChange, stVars, histVars, Freed
  <2> QED
    BY <2>1, <2>2, StEffectRefines
<1>20. CASE HandlerReturn
  BY <1>20 DEF Life!lifeVars, Freed, HandlerReturn, StGoto, vars, chVars,
         lockVars, stVars, callVars, histVars
<1>21. CASE Spurious
  BY <1>21 DEF Life!lifeVars, Freed, Spurious, StGoto, vars, chVars, lockVars,
         stVars, callVars, histVars
<1>22. CASE Launch
  BY <1>22 DEF Life!lifeVars, Freed, Launch, LaunchThread, NeverLaunched,
         LaunchInv, vars,
         chVars, lockVars, stVars, callVars, histVars
<1>23. ASSUME NEW c \in Callers,
         Release(c) PROVE [Life!LifeNext]_(Life!lifeVars)
  BY <1>23 DEF Life!lifeVars, Freed, Release, vars, chVars, lockVars, stVars,
         callVars, histVars
<1>24. ASSUME NEW c \in Callers,
         AskChange(c) PROVE [Life!LifeNext]_(Life!lifeVars)
  BY <1>24 DEF Life!lifeVars, Freed, AskChange, MayInit, vars, chVars, lockVars,
         stVars, callVars, histVars
<1>25. ASSUME NEW c \in Callers,
         SetState(c) PROVE [Life!LifeNext]_(Life!lifeVars)
  BY <1>25 DEF Life!lifeVars, Freed, SetState, vars, chVars, lockVars, stVars,
         callVars, histVars
<1>26. ASSUME NEW c \in Callers, Write(c) PROVE [Life!LifeNext]_(Life!lifeVars)
  <2>1. target[c] \in Working /\ ~Refused(state, target[c])
        /\ ValidChange(state, target[c]) /\ state' = target[c]
    BY <1>26, StateFacts DEF TypeOK, ChangeInv, Write
  <2>2. ~Down(state)
    BY <2>1 DEF TypeOK, Refused, Down, Working, ChannelState, CS_NEW, CS_INIT,
         CS_RESET, CS_HANGUP, CS_DESTROY
  <2>3. Life!Move
    BY <1>26, <2>1, <2>2, SameStates DEF Write, Freed, Life!Move, stVars,
         histVars
  <2> QED
    BY <2>3 DEF Life!LifeNext
<1>27. ASSUME NEW c \in Callers, Wake(c) PROVE [Life!LifeNext]_(Life!lifeVars)
  BY <1>27 DEF Life!lifeVars, Freed, Wake, vars, chVars, lockVars, stVars,
         callVars, histVars
<1>28. ASSUME NEW c \in Callers,
         Enqueue(c) PROVE [Life!LifeNext]_(Life!lifeVars)
  BY <1>28 DEF Life!lifeVars, Freed, Enqueue, QueueHasRoom, vars, chVars,
         lockVars, stVars,
         callVars, histVars
<1>29. ASSUME NEW c \in Callers, Hangup(c) PROVE [Life!LifeNext]_(Life!lifeVars)
  BY <1>29 DEF Life!lifeVars, Freed, Hangup, vars, chVars, lockVars, stVars,
         callVars, histVars
<1>30. ASSUME NEW c \in Callers,
         HangupFlag(c) PROVE [Life!LifeNext]_(Life!lifeVars)
  BY <1>30 DEF Life!lifeVars, Freed, HangupFlag, FirstHangup, vars, chVars,
         lockVars,
         stVars, callVars, histVars
<1>31. ASSUME NEW c \in Callers,
         HangupTest(c) PROVE [Life!LifeNext]_(Life!lifeVars)
  BY <1>31 DEF Life!lifeVars, Freed, HangupTest, CallerGoto, vars, chVars,
         lockVars, stVars, callVars, histVars
<1>32. ASSUME NEW c \in Callers,
         HangupWrite(c) PROVE [Life!LifeNext]_(Life!lifeVars)
  <2>1. Life!End
    BY <1>32, SameStates, StateFacts DEF TypeOK, ChangeInv, PhaseInv,
         HangupWrite, Down, Freed,
         Life!End, stVars, histVars
  <2> QED
    BY <2>1 DEF Life!LifeNext
<1>33. ASSUME NEW c \in Callers,
         HangupCause(c) PROVE [Life!LifeNext]_(Life!lifeVars)
  BY <1>33 DEF Life!lifeVars, Freed, HangupCause, vars, chVars, lockVars,
         stVars, callVars, histVars
<1>34. ASSUME NEW c \in Callers,
         HangupLaunch(c) PROVE [Life!LifeNext]_(Life!lifeVars)
  BY <1>34 DEF Life!lifeVars, Freed, HangupLaunch, LaunchThread,
         NeverLaunched, LaunchInv,
         vars, chVars, lockVars, stVars, callVars, histVars
<1>35. ASSUME NEW c \in Callers, Locate(c) PROVE [Life!LifeNext]_(Life!lifeVars)
  BY <1>35 DEF Life!lifeVars, Freed, Locate, vars, chVars, lockVars, stVars,
         callVars, histVars
<1>36. ASSUME NEW c \in Callers, Ping(c) PROVE [Life!LifeNext]_(Life!lifeVars)
  BY <1>36 DEF Life!lifeVars, Freed, Ping, vars, chVars, lockVars, stVars,
         callVars, histVars
<1>37. ASSUME NEW c \in Callers,
         ForceLocate(c) PROVE [Life!LifeNext]_(Life!lifeVars)
  BY <1>37 DEF Life!lifeVars, Freed, ForceLocate, vars, chVars, lockVars,
         stVars, callVars, histVars
<1>38. CASE Abandon
  <2>1. StEffect
    BY <1>38, StHangupEffect DEF Abandon
  <2>2. UNCHANGED reports /\ Freed' = Freed
    BY <1>38 DEF Abandon, Freed
  <2> QED
    BY <2>1, <2>2, StEffectRefines
<1>39. CASE Finished \/ UNCHANGED vars
  BY <1>39 DEF Life!lifeVars, Freed, Finished, vars, chVars, lockVars, stVars,
         callVars, histVars
<1> QED
  BY <1>1, <1>2, <1>3, <1>4, <1>5, <1>6, <1>7, <1>8, <1>9, <1>10, <1>11,
         <1>12, <1>13, <1>14, <1>15, <1>16, <1>17, <1>18, <1>19, <1>20, <1>21,
         <1>22, <1>23, <1>24, <1>25, <1>26, <1>27, <1>28, <1>29, <1>30, <1>31,
         <1>32, <1>33, <1>34, <1>35, <1>36, <1>37, <1>38, <1>39
     DEF Next, StStep, CallerStep

\* The session, its thread and its callers implement ChannelLife: however
\* redirects, hangups, lookups, queued events and the session thread interleave,
\* the channel changes state only along the table, is hung up once, and then runs
\* hangup handlers, reporting handlers and destruction once each, in this order.
THEOREM Refinement == Spec => LivesChannelLife
<1>1. Init => Life!LifeInit
  BY SameStates DEF Init, Life!LifeInit, Freed
<1> QED
  BY <1>1, StepRefines, TypeCorrect, LockCorrect, LifeCorrect, PTL
     DEF Spec, LivesChannelLife, Life!LifeSpec

-----------------------------------------------------------------------------
(* The assertion of set_state.                                             *)

\* The transition table has every redirect between working states.
LEMMA RedirectValid ==
    \A s \in ChannelState, t \in Redirect : ~InvalidChange(s, t)
BY DEF InvalidChange, ValidChange, Refused, Down, ChannelState, Redirect,
       Working, CS_NEW, CS_INIT, CS_RESET, CS_HANGUP, CS_DESTROY

\* A redirect by the session thread does not fail the assertion.
LEMMA StSetStateSafe ==
    ASSUME TypeOK, NEW t \in Redirect, StSetState(t)
    PROVE  crashed' => crashed
<1>1. ~InvalidChange(state, t)
  BY RedirectValid DEF TypeOK
<1> QED
  BY <1>1 DEF StSetState

\* Neither does queued work.
LEMMA ProcessSafe ==
    ASSUME TypeOK, NEW left, Process(left)
    PROVE  crashed' => crashed
BY StSetStateSafe, TargetsAssumption DEF Process, StHangup

\* Only the endpoint asks for CS_INIT: kept by every step.
LEMMA InitStep ==
    ASSUME TypeOK, InitInv, [Next]_vars
    PROVE  InitInv'
<1>1. CASE StStep \/ AppChange \/ StandardChange \/ HandlerReturn \/ Spurious
           \/ Launch \/ Finished \/ UNCHANGED vars
  <2>1. UNCHANGED <<pc, target>>
    BY <1>1 DEF StStep, Start, Top, Enter, HangupState, ToReporting,
         ReportingState, ToDestroy, Settle, Abandon, Lock, Check, Parse, Wait,
         Woken, Drain, Leave, Unhash, Free, AppChange, StandardChange,
         HandlerReturn, Spurious, Launch, Finished, StGoto, vars, callVars
  <2> QED
    BY <2>1 DEF InitInv
<1>2. ASSUME NEW c \in Callers, AskChange(c) PROVE InitInv'
  BY <1>2 DEF TypeOK, InitInv, AskChange, MayInit, Redirect
<1>3. ASSUME NEW c \in Callers,
             \/ Release(c) \/ SetState(c) \/ Write(c) \/ Wake(c) \/ Enqueue(c)
             \/ Hangup(c) \/ HangupFlag(c) \/ HangupTest(c) \/ HangupWrite(c)
             \/ HangupCause(c) \/ HangupLaunch(c) \/ Locate(c) \/ Ping(c)
             \/ ForceLocate(c)
      PROVE  InitInv'
  <2>1. /\ pc'[c] # "set"
        /\ \A d \in Callers \ {c} : pc'[d] = pc[d] /\ target'[d] = target[d]
    BY <1>3 DEF TypeOK, Release, SetState, Write, Wake, Enqueue, Hangup,
         HangupFlag, HangupTest, HangupWrite, HangupCause, HangupLaunch, Locate,
         Ping, ForceLocate, CallerGoto
  <2> QED
    BY <2>1 DEF InitInv
<1> QED
  BY <1>1, <1>2, <1>3 DEF Next, CallerStep

\* Only the endpoint that has seen a new channel and finds it moved on fails the
\* assertion of perform_set_state: transfers, parks and bridges by uuid, the
\* handlers and queued work only make changes that are in its table.
THEOREM OnlyInitCanAbort == Spec => OnlyInitAborts
<1>1. Init => InitInv
  BY DEF Init, InitInv
<1>2. ASSUME TypeOK, PhaseInv, InitInv, [Next]_vars, crashed', ~crashed
      PROVE  \E c \in Callers : /\ c = Endpoint /\ pc[c] = "set" /\ pc'[c] = "release"
                                /\ target[c] = CS_INIT /\ state \in Working
  <2>1. ~Enter /\ ~Parse /\ ~Drain
    BY <1>2, ProcessSafe DEF Enter, Parse, Drain, ParseMessages, ParseAll
  <2>2. ~Settle
    BY <1>2, ProcessSafe DEF Settle, ParseAll
  <2>3. ~Abandon
    BY <1>2 DEF Abandon, StHangup
  <2>4. ~AppChange
    BY <1>2, StSetStateSafe, TargetsAssumption DEF AppChange, StHangup
  <2>5. ~StandardChange
    BY <1>2, StSetStateSafe, StateFacts DEF TypeOK, StandardChange, StHangup
  <2>6. ~ToReporting
    BY <1>2 DEF ToReporting, StSetState, PhaseInv, InvalidChange, Refused,
         ValidChange, Down, CS_HANGUP, CS_REPORTING
  <2>7. PICK c \in Callers : SetState(c)
    BY <1>2, <2>1, <2>2, <2>3, <2>4, <2>5, <2>6
    DEF Next, StStep, CallerStep, Start, Top, HangupState, ReportingState,
         ToDestroy, Lock, Check, Wait, Woken, Leave, Unhash, Free,
         HandlerReturn, Spurious, Launch, Finished, StGoto, CallerGoto,
         Release, AskChange, Write, Wake, Enqueue, Hangup, HangupFlag,
         HangupTest, HangupWrite, HangupCause, HangupLaunch, Locate, Ping,
         ForceLocate, vars
  <2>8. InvalidChange(state, target[c])
    BY <1>2, <2>7 DEF SetState
  <2>9. target[c] = CS_INIT
    BY <1>2, <2>7, <2>8, RedirectValid DEF TypeOK
  <2>10. state \in Working /\ pc[c] = "set"
    BY <1>2, <2>7, <2>8, <2>9 DEF TypeOK, SetState, InvalidChange, ValidChange,
         Down, Working, ChannelState, CS_NEW, CS_INIT, CS_RESET, CS_HANGUP,
         CS_DESTROY
  <2>11. pc'[c] = "release"
    BY <1>2, <2>7, <2>8 DEF TypeOK, SetState, InvalidChange
  <2> QED
    BY <1>2, <2>9, <2>10, <2>11 DEF InitInv
<1> QED
  BY <1>1, <1>2, InitStep, TypeCorrect, LifeCorrect, PTL DEF Spec, OnlyInitAborts

-----------------------------------------------------------------------------
(* Wakeups.                                                                *)

\* Between its last look at the state and the wait, the session thread holds
\* both mutexes: a waker waits until it sleeps, or its retries run out.
LEMMA WakeStep ==
    TypeOK /\ WakeInv /\ [Next]_vars => WakeInv'
<1> SUFFICES ASSUME TypeOK, WakeInv, [Next]_vars
             PROVE  WakeInv'
  OBVIOUS
<1>1. CASE Start
  BY <1>1 DEF TypeOK, WakeInv, Waking, Start, vars, chVars, lockVars, stVars,
         callVars, histVars
<1>2. CASE Top
  BY <1>2 DEF TypeOK, WakeInv, Waking, Top, vars, chVars, lockVars, stVars,
         callVars, histVars
<1>3. CASE Enter
  BY <1>3 DEF WakeInv, Waking, Enter, stVars, callVars
<1>4. CASE HangupState
  BY <1>4 DEF TypeOK, WakeInv, Waking, HangupState, vars, chVars, lockVars,
         stVars, callVars, histVars
<1>5. CASE ToReporting
  BY <1>5 DEF TypeOK, WakeInv, Waking, ToReporting, vars, chVars, lockVars,
         stVars, callVars, histVars
<1>6. CASE ReportingState
  BY <1>6 DEF TypeOK, WakeInv, Waking, ReportingState, vars, chVars, lockVars,
         stVars, callVars, histVars
<1>7. CASE ToDestroy
  BY <1>7 DEF TypeOK, WakeInv, Waking, ToDestroy, vars, chVars, lockVars,
         stVars, callVars, histVars
<1>8. CASE Settle
  BY <1>8 DEF WakeInv, Waking, Settle, stVars, callVars
<1>9. CASE Lock
  BY <1>9 DEF TypeOK, WakeInv, Waking, Lock, StGoto, vars, chVars, lockVars,
         stVars, callVars, histVars
<1>10. CASE Check
  BY <1>10 DEF TypeOK, WakeInv, Waking, Check, StGoto, vars, chVars, lockVars,
         stVars, callVars, histVars
<1>11. CASE Parse
  <2>1. \/ state' = state
        \/ "inline" \in missed'
    BY <1>11 DEF Parse
  <2>2. queue' > 0 => "left" \in missed'
    BY <1>11 DEF Parse
  <2>3. missed \subseteq missed' /\ st' = "wait" /\ UNCHANGED <<running_state, pc>>
    BY <1>11 DEF Parse, callVars
  <2> QED
    BY <1>11, <2>1, <2>2, <2>3 DEF WakeInv, Waking, Parse
<1>12. CASE Wait
  BY <1>12 DEF TypeOK, WakeInv, Waking, Wait, StGoto, vars, chVars, lockVars,
         stVars, callVars, histVars
<1>13. CASE Woken
  BY <1>13 DEF TypeOK, WakeInv, Waking, Woken, StGoto, vars, chVars, lockVars,
         stVars, callVars, histVars
<1>14. CASE Drain
  BY <1>14 DEF TypeOK, WakeInv, Waking, Drain, vars, chVars, lockVars, stVars,
         callVars, histVars
<1>15. CASE Leave
  BY <1>15 DEF TypeOK, WakeInv, Waking, Leave, NoReaders, vars, chVars,
         lockVars, stVars,
         callVars, histVars
<1>16. CASE Unhash
  BY <1>16 DEF TypeOK, WakeInv, Waking, Unhash, StGoto, vars, chVars,
         lockVars, stVars, callVars, histVars
<1>17. CASE Free
  BY <1>17 DEF TypeOK, WakeInv, Waking, Free, vars, chVars, lockVars, stVars,
         callVars, histVars
<1>18. CASE AppChange
  BY <1>18 DEF WakeInv, Waking, AppChange, stVars, callVars
<1>19. CASE StandardChange
  BY <1>19 DEF WakeInv, Waking, StandardChange, stVars, callVars
<1>20. CASE HandlerReturn
  BY <1>20 DEF TypeOK, WakeInv, Waking, HandlerReturn, StGoto, vars, chVars,
         lockVars, stVars, callVars, histVars
<1>21. CASE Spurious
  BY <1>21 DEF TypeOK, WakeInv, Waking, Spurious, StGoto, vars, chVars,
         lockVars, stVars, callVars, histVars
<1>22. CASE Launch
  BY <1>22 DEF TypeOK, WakeInv, Waking, Launch, LaunchThread, NeverLaunched,
         vars, chVars,
         lockVars, stVars, callVars, histVars
<1>23. ASSUME NEW c \in Callers, Release(c) PROVE WakeInv'
  <2>1. ASSUME NEW d \in Callers, Waking(d) PROVE Waking(d)'
    BY <1>23, <2>1 DEF TypeOK, Waking, Release
  <2> QED
    BY <1>23, <2>1 DEF WakeInv, Release, chVars, stVars
<1>24. ASSUME NEW c \in Callers, AskChange(c) PROVE WakeInv'
  <2>1. ASSUME NEW d \in Callers, Waking(d) PROVE Waking(d)'
    BY <1>24, <2>1 DEF TypeOK, Waking, AskChange, MayInit
  <2> QED
    BY <1>24, <2>1 DEF WakeInv, AskChange, MayInit, chVars, stVars
<1>25. ASSUME NEW c \in Callers, SetState(c) PROVE WakeInv'
  <2>1. ASSUME NEW d \in Callers, Waking(d) PROVE Waking(d)'
    BY <1>25, <2>1 DEF TypeOK, Waking, SetState
  <2> QED
    BY <1>25, <2>1 DEF WakeInv, SetState, chVars, stVars
<1>26. ASSUME NEW c \in Callers, Write(c) PROVE WakeInv'
  <2>1. Waking(c)'
    BY <1>26 DEF TypeOK, Waking, Write
  <2> QED
    BY <2>1 DEF WakeInv
<1>27. ASSUME NEW c \in Callers, Wake(c) PROVE WakeInv'
  <2>1. \/ st' \notin {"parse", "wait", "asleep"}
        \/ "retries" \in missed'
    BY <1>27 DEF TypeOK, Wake, BeatThem, MutexHeld, ThreadMutexHeld
  <2> QED
    BY <2>1 DEF WakeInv
<1>28. ASSUME NEW c \in Callers, Enqueue(c) PROVE WakeInv'
  <2>1. CASE pc' = [pc EXCEPT ![c] = "wake"]
    <3>1. Waking(c)'
      BY <1>28, <2>1 DEF TypeOK, Waking
    <3> QED
      BY <3>1 DEF WakeInv
  <2>2. CASE UNCHANGED queue /\ \E l \in PcLabel : pc' = [pc EXCEPT ![c] = l]
    <3>1. ASSUME NEW d \in Callers, Waking(d) PROVE Waking(d)'
      BY <1>28, <2>2, <3>1 DEF TypeOK, Waking, Enqueue, QueueHasRoom
    <3> QED
      BY <1>28, <2>2, <3>1 DEF WakeInv, Enqueue, QueueHasRoom, chVars, stVars
  <2> QED
    BY <1>28, <2>1, <2>2 DEF Enqueue, QueueHasRoom, PcLabel
<1>29. ASSUME NEW c \in Callers, Hangup(c) PROVE WakeInv'
  <2>1. ASSUME NEW d \in Callers, Waking(d) PROVE Waking(d)'
    BY <1>29, <2>1 DEF TypeOK, Waking, Hangup
  <2> QED
    BY <1>29, <2>1 DEF WakeInv, Hangup, chVars, stVars
<1>30. ASSUME NEW c \in Callers, HangupFlag(c) PROVE WakeInv'
  <2>1. ASSUME NEW d \in Callers, Waking(d) PROVE Waking(d)'
    BY <1>30, <2>1 DEF TypeOK, Waking, HangupFlag, FirstHangup
  <2> QED
    BY <1>30, <2>1 DEF WakeInv, HangupFlag, FirstHangup, chVars, stVars
<1>31. ASSUME NEW c \in Callers, HangupTest(c) PROVE WakeInv'
  <2>1. ASSUME NEW d \in Callers, Waking(d) PROVE Waking(d)'
    BY <1>31, <2>1 DEF TypeOK, Waking, HangupTest, CallerGoto
  <2> QED
    BY <1>31, <2>1 DEF WakeInv, HangupTest, CallerGoto, chVars, stVars
<1>32. ASSUME NEW c \in Callers, HangupWrite(c) PROVE WakeInv'
  <2>1. Waking(c)'
    BY <1>32 DEF TypeOK, Waking, HangupWrite
  <2> QED
    BY <2>1 DEF WakeInv
<1>33. ASSUME NEW c \in Callers, HangupCause(c) PROVE WakeInv'
  <2>1. Waking(c)'
    BY <1>33 DEF TypeOK, Waking, HangupCause
  <2> QED
    BY <2>1 DEF WakeInv
<1>34. ASSUME NEW c \in Callers, HangupLaunch(c) PROVE WakeInv'
  <2>1. Waking(c)'
    BY <1>34 DEF TypeOK, Waking, HangupLaunch
  <2> QED
    BY <2>1 DEF WakeInv
<1>35. ASSUME NEW c \in Callers, Locate(c) PROVE WakeInv'
  <2>1. ASSUME NEW d \in Callers, Waking(d) PROVE Waking(d)'
    BY <1>35, <2>1 DEF TypeOK, Waking, Locate
  <2> QED
    BY <1>35, <2>1 DEF WakeInv, Locate, chVars, stVars
<1>36. ASSUME NEW c \in Callers, Ping(c) PROVE WakeInv'
  <2>1. ASSUME NEW d \in Callers, Waking(d) PROVE Waking(d)'
    BY <1>36, <2>1 DEF TypeOK, Waking, Ping
  <2> QED
    BY <1>36, <2>1 DEF WakeInv, Ping, chVars, stVars
<1>37. ASSUME NEW c \in Callers, ForceLocate(c) PROVE WakeInv'
  <2>1. ASSUME NEW d \in Callers, Waking(d) PROVE Waking(d)'
    BY <1>37, <2>1 DEF TypeOK, Waking, ForceLocate
  <2> QED
    BY <1>37, <2>1 DEF WakeInv, ForceLocate, chVars, stVars
<1>38. CASE Abandon
  BY <1>38 DEF WakeInv, Abandon
<1>39. CASE Finished \/ UNCHANGED vars
  BY <1>39 DEF TypeOK, WakeInv, Waking, Finished, vars, chVars, lockVars,
         stVars, callVars, histVars
<1> QED
  BY <1>1, <1>2, <1>3, <1>4, <1>5, <1>6, <1>7, <1>8, <1>9, <1>10, <1>11,
         <1>12, <1>13, <1>14, <1>15, <1>16, <1>17, <1>18, <1>19, <1>20, <1>21,
         <1>22, <1>23, <1>24, <1>25, <1>26, <1>27, <1>28, <1>29, <1>30, <1>31,
         <1>32, <1>33, <1>34, <1>35, <1>36, <1>37, <1>38, <1>39
     DEF Next, StStep, CallerStep

\* Whatever the session thread, its callers and its queued work do, the thread
\* sleeps through a change of state or queued work only while a caller is on its
\* way to wake it, or when one ran out of its ten tries, or when its own last
\* parse changed the state or left work behind: no other interleaving of
\* session_run, careful_set and wake_session_thread loses a wakeup.
THEOREM WakeupsArrive == Spec => []WakeupsAccounted
<1>1. Init => WakeInv
  BY DEF Init, WakeInv
<1>2. WakeInv => WakeupsAccounted
  BY DEF WakeInv, WakeupsAccounted
<1> QED
  BY <1>1, <1>2, WakeStep, TypeCorrect, PTL DEF Spec

-----------------------------------------------------------------------------
(* The cause of the hangup.                                                *)

\* What a set_state or a hangup by the session thread does to the cause: it
\* leaves it alone, or is the first hangup and stores its own.
CauseEffect ==
    \/ UNCHANGED <<cause, asked, cdr, flags>> /\ (Down(state') => Down(state))
    \/ /\ "OCF_HANGUP" \notin flags /\ "OCF_HANGUP" \in flags'
       /\ cause' = asked' /\ cdr' \in {cdr, asked'}

\* A set_state by the session thread leaves the cause alone.
LEMMA StSetStateCause ==
    ASSUME TypeOK, NEW t \in Working, StSetState(t)
    PROVE  CauseEffect
BY DEF TypeOK, StSetState, CauseEffect, Refused, Down, Working, ChannelState,
       CS_NEW, CS_INIT, CS_RESET, CS_HANGUP, CS_DESTROY

\* A hangup by the session thread that is the first stores its cause at once.
LEMMA StHangupCause ==
    ASSUME TypeOK, ChangeInv, NEW c, StHangup(c)
    PROVE  CauseEffect
<1>1. CASE "OCF_HANGUP" \in flags
  BY <1>1 DEF TypeOK, StHangup, FirstHangup, CauseEffect
<1>2. CASE "OCF_HANGUP" \notin flags
  BY <1>2 DEF TypeOK, ChangeInv, StHangup, FirstHangup, CauseEffect
<1> QED
  BY <1>1, <1>2

\* So does queued work.
LEMMA ProcessCause ==
    ASSUME TypeOK, ChangeInv, NEW left, Process(left)
    PROVE  CauseEffect
BY StSetStateCause, StHangupCause, StateFacts DEF Process, CauseEffect

\* Such a step keeps the invariant, as it does nothing to the callers.
LEMMA EffectKeeps ==
    ASSUME TypeOK, CauseInv, CauseEffect, UNCHANGED callVars
    PROVE  CauseInv'
<1>1. CASE UNCHANGED <<cause, asked, cdr, flags>> /\ (Down(state') => Down(state))
  BY <1>1 DEF CauseInv, callVars
<1>2. CASE /\ "OCF_HANGUP" \notin flags /\ "OCF_HANGUP" \in flags'
           /\ cause' = asked' /\ cdr' \in {cdr, asked'}
  <2>1. cdr = NoCause
    BY <1>2 DEF CauseInv
  <2> QED
    BY <1>2, <2>1 DEF CauseInv, callVars
<1> QED
  BY <1>1, <1>2 DEF CauseEffect

\* Every step keeps the cause of the hangup that was accepted.
LEMMA CauseStep ==
    TypeOK /\ ChangeInv /\ PhaseInv /\ CauseInv /\ [Next]_vars => CauseInv'
<1> SUFFICES ASSUME TypeOK, ChangeInv, PhaseInv, CauseInv, [Next]_vars
             PROVE  CauseInv'
  OBVIOUS
<1> USE DEF Down, Working, ChannelState, CS_NEW, CS_INIT, CS_RESET, CS_HANGUP,
         CS_REPORTING, CS_DESTROY
<1>1. CASE Start
  BY <1>1 DEF TypeOK, ChangeInv, CauseInv, Start, vars, chVars, lockVars,
         stVars, callVars, histVars
<1>2. CASE Top
  BY <1>2 DEF TypeOK, ChangeInv, CauseInv, Top, vars, chVars, lockVars,
         stVars, callVars, histVars
<1>3. CASE Enter
  <2>1. CauseEffect
    BY <1>3, ProcessCause DEF Enter, ParseMessages
  <2> QED
    BY <1>3, <2>1, EffectKeeps DEF Enter
<1>4. CASE HangupState
  BY <1>4 DEF TypeOK, ChangeInv, CauseInv, PhaseInv, HangupState, vars,
         chVars, lockVars, stVars, callVars, histVars
<1>5. CASE ToReporting
  BY <1>5 DEF TypeOK, ChangeInv, CauseInv, PhaseInv, ToReporting, StSetState,
         Refused, ValidChange, vars, chVars, lockVars, stVars, callVars,
         histVars
<1>6. CASE ReportingState
  BY <1>6 DEF TypeOK, ChangeInv, CauseInv, ReportingState, vars, chVars,
         lockVars, stVars, callVars, histVars
<1>7. CASE ToDestroy
  BY <1>7 DEF TypeOK, ChangeInv, CauseInv, PhaseInv, ToDestroy, vars, chVars,
         lockVars, stVars, callVars, histVars
<1>8. CASE Settle
  <2>1. CauseEffect
    BY <1>8, ProcessCause, StHangupCause DEF Settle, ParseAll, CauseEffect,
       histVars
  <2> QED
    BY <1>8, <2>1, EffectKeeps DEF Settle
<1>9. CASE Lock
  BY <1>9 DEF TypeOK, ChangeInv, CauseInv, Lock, StGoto, vars, chVars,
         lockVars, stVars, callVars, histVars
<1>10. CASE Check
  BY <1>10 DEF TypeOK, ChangeInv, CauseInv, Check, StGoto, vars, chVars,
         lockVars, stVars, callVars, histVars
<1>11. CASE Parse
  <2>1. CauseEffect
    BY <1>11, ProcessCause DEF Parse, ParseAll
  <2> QED
    BY <1>11, <2>1, EffectKeeps DEF Parse
<1>12. CASE Wait
  BY <1>12 DEF TypeOK, ChangeInv, CauseInv, Wait, StGoto, vars, chVars,
         lockVars, stVars, callVars, histVars
<1>13. CASE Woken
  BY <1>13 DEF TypeOK, ChangeInv, CauseInv, Woken, StGoto, vars, chVars,
         lockVars, stVars, callVars, histVars
<1>14. CASE Drain
  <2>1. CauseEffect
    BY <1>14, ProcessCause DEF Drain, ParseAll
  <2> QED
    BY <1>14, <2>1, EffectKeeps DEF Drain
<1>15. CASE Leave
  BY <1>15 DEF TypeOK, ChangeInv, CauseInv, Leave, NoReaders, vars, chVars,
         lockVars, stVars, callVars, histVars
<1>16. CASE Unhash
  BY <1>16 DEF TypeOK, ChangeInv, CauseInv, Unhash, StGoto, vars, chVars,
         lockVars, stVars, callVars, histVars
<1>17. CASE Free
  BY <1>17 DEF TypeOK, ChangeInv, CauseInv, Free, vars, chVars, lockVars,
         stVars, callVars, histVars
<1>18. CASE AppChange
  <2>1. CauseEffect
    BY <1>18, StSetStateCause, StHangupCause, StateFacts DEF AppChange, TypeOK
  <2> QED
    BY <1>18, <2>1, EffectKeeps DEF AppChange
<1>19. CASE StandardChange
  <2>1. CauseEffect
    BY <1>19, StSetStateCause, StHangupCause, StateFacts DEF StandardChange, TypeOK
  <2> QED
    BY <1>19, <2>1, EffectKeeps DEF StandardChange
<1>20. CASE HandlerReturn
  BY <1>20 DEF TypeOK, ChangeInv, CauseInv, HandlerReturn, StGoto, vars,
         chVars, lockVars, stVars, callVars, histVars
<1>21. CASE Spurious
  BY <1>21 DEF TypeOK, ChangeInv, CauseInv, Spurious, StGoto, vars, chVars,
         lockVars, stVars, callVars, histVars
<1>22. CASE Launch
  BY <1>22 DEF TypeOK, ChangeInv, CauseInv, Launch, LaunchThread,
         NeverLaunched, vars, chVars, lockVars, stVars, callVars, histVars
<1>23. ASSUME NEW c \in Callers, Release(c) PROVE CauseInv'
  BY <1>23 DEF TypeOK, ChangeInv, CauseInv, Release, vars, chVars, lockVars,
         stVars, callVars, histVars
<1>24. ASSUME NEW c \in Callers, AskChange(c) PROVE CauseInv'
  BY <1>24 DEF TypeOK, ChangeInv, CauseInv, AskChange, MayInit, vars, chVars,
         lockVars, stVars, callVars, histVars
<1>25. ASSUME NEW c \in Callers, SetState(c) PROVE CauseInv'
  BY <1>25 DEF TypeOK, ChangeInv, CauseInv, SetState, vars, chVars, lockVars,
         stVars, callVars, histVars
<1>26. ASSUME NEW c \in Callers, Write(c) PROVE CauseInv'
  BY <1>26, StateFacts DEF TypeOK, ChangeInv, CauseInv, Write, vars, chVars,
         lockVars, stVars, callVars, histVars
<1>27. ASSUME NEW c \in Callers, Wake(c) PROVE CauseInv'
  BY <1>27 DEF TypeOK, ChangeInv, CauseInv, Wake, vars, chVars, lockVars,
         stVars, callVars, histVars
<1>28. ASSUME NEW c \in Callers, Enqueue(c) PROVE CauseInv'
  BY <1>28 DEF TypeOK, ChangeInv, CauseInv, Enqueue, QueueHasRoom, vars,
         chVars, lockVars, stVars, callVars, histVars
<1>29. ASSUME NEW c \in Callers, Hangup(c) PROVE CauseInv'
  BY <1>29 DEF TypeOK, ChangeInv, CauseInv, Hangup, vars, chVars, lockVars,
         stVars, callVars, histVars
<1>30. ASSUME NEW c \in Callers, HangupFlag(c) PROVE CauseInv'
  BY <1>30 DEF TypeOK, ChangeInv, CauseInv, HangupFlag, FirstHangup, vars,
         chVars, lockVars, stVars, callVars, histVars
<1>31. ASSUME NEW c \in Callers, HangupTest(c) PROVE CauseInv'
  BY <1>31 DEF TypeOK, ChangeInv, CauseInv, HangupTest, CallerGoto, vars,
         chVars, lockVars, stVars, callVars, histVars
<1>32. ASSUME NEW c \in Callers, HangupWrite(c) PROVE CauseInv'
  BY <1>32 DEF TypeOK, ChangeInv, CauseInv, HangupWrite, vars, chVars,
         lockVars, stVars, callVars, histVars
<1>33. ASSUME NEW c \in Callers, HangupCause(c) PROVE CauseInv'
  BY <1>33 DEF TypeOK, ChangeInv, CauseInv, HangupCause, vars, chVars,
         lockVars, stVars, callVars, histVars
<1>34. ASSUME NEW c \in Callers, HangupLaunch(c) PROVE CauseInv'
  BY <1>34 DEF TypeOK, ChangeInv, CauseInv, HangupLaunch, LaunchThread,
         NeverLaunched, vars, chVars, lockVars, stVars, callVars, histVars
<1>35. ASSUME NEW c \in Callers, Locate(c) PROVE CauseInv'
  BY <1>35 DEF TypeOK, ChangeInv, CauseInv, Locate, vars, chVars, lockVars,
         stVars, callVars, histVars
<1>36. ASSUME NEW c \in Callers, Ping(c) PROVE CauseInv'
  BY <1>36 DEF TypeOK, ChangeInv, CauseInv, Ping, vars, chVars, lockVars,
         stVars, callVars, histVars
<1>37. ASSUME NEW c \in Callers, ForceLocate(c) PROVE CauseInv'
  BY <1>37 DEF TypeOK, ChangeInv, CauseInv, ForceLocate, vars, chVars,
         lockVars, stVars, callVars, histVars
<1>38. CASE Abandon
  <2>1. CauseEffect
    BY <1>38, StHangupCause DEF Abandon
  <2> QED
    BY <1>38, <2>1, EffectKeeps DEF Abandon
<1>39. CASE Finished \/ UNCHANGED vars
  BY <1>39 DEF TypeOK, ChangeInv, CauseInv, Finished, vars, chVars, lockVars,
         stVars, callVars, histVars
<1> QED
  BY <1>1, <1>2, <1>3, <1>4, <1>5, <1>6, <1>7, <1>8, <1>9, <1>10, <1>11,
         <1>12, <1>13, <1>14, <1>15, <1>16, <1>17, <1>18, <1>19, <1>20, <1>21,
         <1>22, <1>23, <1>24, <1>25, <1>26, <1>27, <1>28, <1>29, <1>30, <1>31,
         <1>32, <1>33, <1>34, <1>35, <1>36, <1>37, <1>38, <1>39
     DEF Next, StStep, CallerStep

\* Whoever hangs up while somebody else does, the CDR has the cause of the hangup
\* that perform_hangup accepted or none, and a session that is freed had the
\* accepted one stored in its channel, for any number of callers and causes.
THEOREM AcceptedCauseKept == Spec => []CauseKept
<1>1. Init => CauseInv
  BY DEF Init, CauseInv, Down, CS_NEW, CS_HANGUP
<1>2. CauseInv /\ PhaseInv /\ NoUseAfterFree => CauseKept
  BY DEF CauseInv, PhaseInv, NoUseAfterFree, CauseKept, Freed, Down, CS_HANGUP,
         CS_DESTROY
<1> QED
  BY <1>1, <1>2, CauseStep, TypeCorrect, LifeCorrect, MemorySafe, PTL DEF Spec

-----------------------------------------------------------------------------
(* What a reader of the channel may conclude from its state.               *)

\* A channel that is hung up never comes back and never repeats a part of its
\* end: its state only goes up, and what the flags OCF_HANGUP, SSF_HANGUP and
\* CF_REPORTING say stays said (switch_channel_perform_set_state has no way out
\* of CS_HANGUP but CS_REPORTING and CS_DESTROY).
THEOREM HangupIsFinal ==
    Spec => [][Down(state) => /\ state' >= state
                              /\ hangups' >= hangups /\ reports' >= reports]_vars
<1>1. ASSUME TypeOK, LaunchInv, ChangeInv, PhaseInv, [Next]_vars, Down(state)
      PROVE  state' >= state /\ hangups' >= hangups /\ reports' >= reports
  <2>1. [Life!LifeNext]_(Life!lifeVars)
    BY <1>1, StepRefines
  <2>2. state \in Nat /\ hangups \in Nat /\ reports \in Nat
    BY <1>1 DEF TypeOK, ChannelState, CS_NEW, CS_DESTROY
  <2> QED
    BY <1>1, <2>1, <2>2, SameStates
       DEF Life!LifeNext, Life!lifeVars, Life!Move, Life!End,
           Life!RunHangupHandlers, Life!BeginReporting,
           Life!RunReportingHandlers, Life!Destroy, Life!FreeMemory, Down,
           CS_HANGUP, CS_REPORTING, CS_DESTROY
<1> QED
  BY <1>1, TypeCorrect, LockCorrect, LifeCorrect, PTL DEF Spec

\* No session is freed unreported: when the memory is given back, the hangup
\* handlers and the reporting handlers have run, each exactly once.
THEOREM FreedAfterReport ==
    Spec => [](Freed => state = CS_DESTROY /\ hangups = 1 /\ reports = 1)
<1> DEFINE Reported == state = CS_DESTROY => reports = 1
<1>1. Init => Reported
  BY DEF Init, CS_NEW, CS_DESTROY
<1>2. ASSUME TypeOK, LaunchInv, ChangeInv, PhaseInv, [Next]_vars, Reported
      PROVE  Reported'
  <2>1. [Life!LifeNext]_(Life!lifeVars)
    BY <1>2, StepRefines
  <2> QED
    BY <1>2, <2>1, SameStates
       DEF Life!LifeNext, Life!lifeVars, Life!Move, Life!End,
           Life!RunHangupHandlers, Life!BeginReporting,
           Life!RunReportingHandlers, Life!Destroy, Life!FreeMemory, Working,
           Redirect, CS_INIT, CS_RESET, CS_HANGUP, CS_REPORTING, CS_DESTROY
<1>3. PhaseInv /\ Reported
         => (Freed => state = CS_DESTROY /\ hangups = 1 /\ reports = 1)
  BY DEF PhaseInv, Freed, CS_DESTROY, CS_HANGUP
<1> QED
  BY <1>1, <1>2, <1>3, TypeCorrect, LockCorrect, LifeCorrect, PTL DEF Spec

=============================================================================
