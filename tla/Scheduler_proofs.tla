-------------------------- MODULE Scheduler_proofs --------------------------
(***************************************************************************)
(* Theorems about Scheduler, for every set of containers and of clients,   *)
(* every choice of flags, delays and intervals, and every queue length.    *)
(***************************************************************************)
EXTENDS Scheduler, TLAPS

USE TasksAssumption, FlagsAssumption, TimeAssumption, QueueAssumption

-----------------------------------------------------------------------------
(* Type correctness.                                                       *)

\* A task that has run is rescheduled within the types.
LEMMA RescheduleType ==
    ASSUME TypeOK, NEW t \in Tasks, Reschedule(t)
    PROVE  /\ runtime' \in [Tasks -> Nat] /\ executed' \in [Tasks -> Nat]
           /\ destroyed' \subseteq Tasks /\ events' \in 0 .. QueueLen
<1> DEFINE R == {runtime[t]} \cup
                (IF t \in Rescheduling THEN {now + d : d \in Delays} ELSE {})
<1>1. now \in Nat /\ R \subseteq Nat
  BY DEF TypeOK
<1>2. PICK r \in R :
        LET next == IF repeat[t] > 0 THEN now + repeat[t] ELSE r
        IN  /\ runtime' = [runtime EXCEPT ![t] = next]
            /\ IF RunsAgain(t, next)
                  THEN /\ executed' = [executed EXCEPT ![t] = 0]
                       /\ Push
                       /\ UNCHANGED destroyed
                  ELSE /\ destroyed' = destroyed \cup {t}
                       /\ UNCHANGED <<executed, events>>
  BY DEF Reschedule, RunsAgain
<1> QED
  BY <1>1, <1>2 DEF TypeOK, Push

\* Every step keeps the types.
LEMMA StepType == TypeOK /\ [Next]_vars => TypeOK'
<1> SUFFICES ASSUME TypeOK, [Next]_vars
             PROVE  TypeOK'
  OBVIOUS
<1>1. CASE Start
  BY <1>1 DEF TypeOK, InHand, Start, SchLabel, vars, listVars, memVars,
         flagVars, schVars, pcVars, histVars
<1>2. CASE Top
  BY <1>2 DEF TypeOK, InHand, Top, SchLabel, vars, listVars, memVars,
         flagVars, schVars, pcVars, histVars
<1>3. CASE Busy
  BY <1>3 DEF TypeOK, InHand, Busy, Idle, ScanOn, SchLabel, vars, listVars,
         memVars,
         flagVars, schVars, pcVars, histVars
<1>4. CASE Spawn
  BY <1>4 DEF TypeOK, InHand, Spawn, Idle, ScanOn, SchLabel, OwnLabel, vars,
         listVars, memVars, flagVars, schVars, pcVars, histVars
<1>5. CASE Pick
  BY <1>5 DEF TypeOK, InHand, Pick, Idle, SchLabel, vars, listVars, memVars,
         flagVars, schVars, pcVars, histVars
<1>6. CASE Call
  BY <1>6 DEF TypeOK, InHand, Call, Begin, SchLabel, vars, listVars, memVars,
         flagVars, schVars, pcVars, histVars
<1>7. CASE Return
  BY <1>7, RescheduleType DEF TypeOK, InHand, Return, SchLabel, vars,
         listVars, memVars, flagVars, schVars, pcVars, histVars
<1>8. CASE Relock
  BY <1>8 DEF TypeOK, InHand, Relock, ScanOn, SchLabel, vars, listVars,
         memVars, flagVars, schVars, pcVars, histVars
<1>9. CASE ScanEnd
  BY <1>9 DEF TypeOK, InHand, ScanEnd, SchLabel, vars, listVars, memVars,
         flagVars, schVars, pcVars, histVars
<1>10. CASE ReapBegin
  BY <1>10 DEF TypeOK, InHand, ReapBegin, SchLabel, vars, listVars, memVars,
         flagVars, schVars, pcVars, histVars
<1>11. CASE ReapEnd
  BY <1>11 DEF TypeOK, InHand, ReapEnd, SchLabel, vars, listVars, memVars,
         flagVars, schVars, pcVars, histVars
<1>12. CASE Pop
  BY <1>12 DEF TypeOK, InHand, Pop, Popped, SchLabel, vars, listVars, memVars,
         flagVars, schVars, pcVars, histVars
<1>13. CASE Tick
  BY <1>13 DEF TypeOK, InHand, Tick, vars, listVars, memVars, flagVars,
         schVars, pcVars, histVars
<1>14. CASE Stop
  BY <1>14 DEF TypeOK, InHand, Stop, vars, listVars, memVars, flagVars,
         schVars, pcVars, histVars
<1>15. CASE Stopped
  BY <1>15 DEF TypeOK, InHand, Stopped, vars, listVars, memVars, flagVars,
         schVars, pcVars, histVars
<1>16. ASSUME NEW t \in Tasks, Look(t) PROVE TypeOK'
  BY <1>16 DEF TypeOK, InHand, Look, Due, SchLabel, vars, listVars, memVars,
         flagVars, schVars, pcVars, histVars
<1>17. ASSUME NEW t \in Tasks, Reap(t) PROVE TypeOK'
  BY <1>17 DEF TypeOK, InHand, Reap, MayReap, Push, vars, listVars, memVars,
         flagVars,
         schVars, pcVars, histVars
<1>18. ASSUME NEW t \in Tasks, OwnCall(t) PROVE TypeOK'
  BY <1>18 DEF TypeOK, InHand, OwnCall, Begin, OwnLabel, vars, listVars,
         memVars, flagVars, schVars, pcVars, histVars
<1>19. ASSUME NEW t \in Tasks, OwnReturn(t) PROVE TypeOK'
  BY <1>19, RescheduleType DEF TypeOK, InHand, OwnReturn, OwnLabel, vars,
         listVars, memVars, flagVars, schVars, pcVars, histVars
<1>20. ASSUME NEW t \in Tasks, OwnEnd(t) PROVE TypeOK'
  BY <1>20 DEF TypeOK, InHand, OwnEnd, OwnLabel, vars, listVars, memVars,
         flagVars, schVars, pcVars, histVars
<1>21. ASSUME NEW t \in Tasks, DelId(t) PROVE TypeOK'
  BY <1>21 DEF TypeOK, InHand, DelId, Deletable, MutexFree, vars, listVars,
         memVars,
         flagVars, schVars, pcVars, histVars
<1>22. ASSUME NEW c \in Clients, ReadClock(c) PROVE TypeOK'
  BY <1>22 DEF TypeOK, InHand, ReadClock, PcLabel, vars, listVars, memVars,
         flagVars, schVars, pcVars, histVars
<1>23. ASSUME NEW c \in Clients, Insert(c) PROVE TypeOK'
  BY <1>23 DEF TypeOK, InHand, Insert, MutexFree, PcLabel, vars, listVars,
         memVars, flagVars, schVars, pcVars, histVars
<1>24. ASSUME NEW c \in Clients, Announce(c) PROVE TypeOK'
  BY <1>24 DEF TypeOK, InHand, Announce, Push, PcLabel, vars, listVars,
         memVars, flagVars, schVars, pcVars, histVars
<1>25. ASSUME NEW c \in Clients, ReturnId(c) PROVE TypeOK'
  BY <1>25 DEF TypeOK, InHand, ReturnId, PcLabel, vars, listVars, memVars,
         flagVars, schVars, pcVars, histVars
<1>26. ASSUME NEW c \in Clients, NEW t \in Tasks, Ask(c, t) PROVE TypeOK'
  <2>1. {now + d : d \in Delays} \cup Intervals \subseteq Nat
    <3>1. now \in Nat /\ Intervals \subseteq Nat
      BY DEF TypeOK
    <3>2. ASSUME NEW d \in Delays PROVE now + d \in Nat
      BY <3>1, <3>2
    <3> QED
      BY <3>1, <3>2
  <2>2. when' \in [Clients -> Nat]
    <3>1. PICK w \in Nat : when' = [when EXCEPT ![c] = w]
      BY <1>26, <2>1 DEF Ask
    <3> QED
      BY <3>1 DEF TypeOK
  <2> QED
    BY <1>26, <2>2 DEF TypeOK, InHand, Ask, PcLabel, vars, listVars, memVars,
         flagVars, schVars, pcVars, histVars
<1>27. ASSUME NEW g, DelGroup(g) PROVE TypeOK'
  BY <1>27 DEF TypeOK, InHand, DelGroup, MutexFree, vars, listVars, memVars,
         flagVars, schVars, pcVars, histVars
<1>28. CASE Finished \/ UNCHANGED vars
  BY <1>28 DEF TypeOK, InHand, Finished, vars, listVars, memVars, flagVars,
         schVars, pcVars, histVars
<1> QED
  BY <1>1, <1>2, <1>3, <1>4, <1>5, <1>6, <1>7, <1>8, <1>9, <1>10, <1>11,
         <1>12, <1>13, <1>14, <1>15, <1>16, <1>17, <1>18, <1>19, <1>20, <1>21,
         <1>22, <1>23, <1>24, <1>25, <1>26, <1>27, <1>28
     DEF Next, SchStep, OwnStep, ClientStep

\* Every variable keeps its type: clock and queue stay within their bounds, and
\* nothing but containers is ever on the list.
THEOREM TypeCorrect == Spec => []TypeOK
<1>1. ASSUME Init PROVE TypeOK
  <2>1. now \in Epoch .. MaxTime /\ events \in 0 .. QueueLen
        /\ task_thread_running \in 0 .. 2 /\ seen \in Nat
    BY <1>1 DEF Init
  <2>2. /\ runtime \in [Tasks -> Nat] /\ repeat \in [Tasks -> Nat]
        /\ executed \in [Tasks -> Nat] /\ runs \in [Tasks -> 0 .. 2]
        /\ when \in [Clients -> Nat] /\ tnow \in [Clients -> Nat]
    BY <1>1 DEF Init
  <2>3. /\ sch \in SchLabel /\ ~InHand
        /\ own \in [Tasks -> OwnLabel] /\ pc \in [Clients -> PcLabel]
        /\ arg \in [Clients -> Tasks \cup {NoTask}]
        /\ \A c \in Clients : pc[c] = "idle"
    BY <1>1 DEF Init, InHand, SchLabel, OwnLabel, PcLabel
  <2> QED
    BY <1>1, <2>1, <2>2, <2>3 DEF Init, TypeOK
<1> QED
  BY <1>1, StepType, PTL DEF Spec

-----------------------------------------------------------------------------
(* Who holds which container.                                              *)

\* Every step keeps the containers in use on the list.
LEMMA UseStep == TypeOK /\ UseInv /\ [Next]_vars => UseInv'
<1> SUFFICES ASSUME TypeOK, UseInv, [Next]_vars
             PROVE  UseInv'
  OBVIOUS
<1>1. CASE Start
  BY <1>1 DEF TypeOK, UseInv, InHand, Start, vars, listVars, memVars,
         flagVars, schVars, pcVars, histVars
<1>2. CASE Top
  BY <1>2 DEF TypeOK, UseInv, InHand, Top, vars, listVars, memVars, flagVars,
         schVars, pcVars, histVars
<1>3. CASE Busy
  BY <1>3 DEF TypeOK, UseInv, InHand, Busy, Idle, ScanOn, vars, listVars,
         memVars,
         flagVars, schVars, pcVars, histVars
<1>4. CASE Spawn
  BY <1>4 DEF TypeOK, UseInv, InHand, Spawn, Idle, ScanOn, vars, listVars,
         memVars,
         flagVars, schVars, pcVars, histVars
<1>5. CASE Pick
  BY <1>5 DEF TypeOK, UseInv, InHand, Pick, Idle, vars, listVars, memVars,
         flagVars,
         schVars, pcVars, histVars
<1>6. CASE Call
  BY <1>6 DEF TypeOK, UseInv, InHand, Call, Begin, vars, listVars, memVars,
         flagVars, schVars, pcVars, histVars
<1>7. CASE Return
  BY <1>7 DEF TypeOK, UseInv, InHand, Return, vars, listVars, memVars,
         flagVars, schVars, pcVars, histVars
<1>8. CASE Relock
  BY <1>8 DEF TypeOK, UseInv, InHand, Relock, ScanOn, vars, listVars, memVars,
         flagVars, schVars, pcVars, histVars
<1>9. CASE ScanEnd
  BY <1>9 DEF TypeOK, UseInv, InHand, ScanEnd, vars, listVars, memVars,
         flagVars, schVars, pcVars, histVars
<1>10. CASE ReapBegin
  BY <1>10 DEF TypeOK, UseInv, InHand, ReapBegin, vars, listVars, memVars,
         flagVars, schVars, pcVars, histVars
<1>11. CASE ReapEnd
  BY <1>11 DEF TypeOK, UseInv, InHand, ReapEnd, vars, listVars, memVars,
         flagVars, schVars, pcVars, histVars
<1>12. CASE Pop
  BY <1>12 DEF TypeOK, UseInv, InHand, Pop, Popped, vars, listVars, memVars,
         flagVars,
         schVars, pcVars, histVars
<1>13. CASE Tick
  BY <1>13 DEF TypeOK, UseInv, InHand, Tick, vars, listVars, memVars,
         flagVars, schVars, pcVars, histVars
<1>14. CASE Stop
  BY <1>14 DEF TypeOK, UseInv, InHand, Stop, vars, listVars, memVars,
         flagVars, schVars, pcVars, histVars
<1>15. CASE Stopped
  BY <1>15 DEF TypeOK, UseInv, InHand, Stopped, vars, listVars, memVars,
         flagVars, schVars, pcVars, histVars
<1>16. ASSUME NEW t \in Tasks, Look(t) PROVE UseInv'
  BY <1>16 DEF TypeOK, UseInv, InHand, Look, Due, vars, listVars, memVars,
         flagVars, schVars, pcVars, histVars
<1>17. ASSUME NEW t \in Tasks, Reap(t) PROVE UseInv'
  BY <1>17 DEF TypeOK, UseInv, InHand, Reap, MayReap, Push, vars, listVars,
         memVars,
         flagVars, schVars, pcVars, histVars
<1>18. ASSUME NEW t \in Tasks, OwnCall(t) PROVE UseInv'
  BY <1>18 DEF TypeOK, UseInv, InHand, OwnCall, Begin, vars, listVars,
         memVars, flagVars, schVars, pcVars, histVars
<1>19. ASSUME NEW t \in Tasks, OwnReturn(t) PROVE UseInv'
  BY <1>19 DEF TypeOK, UseInv, InHand, OwnReturn, vars, listVars, memVars,
         flagVars, schVars, pcVars, histVars
<1>20. ASSUME NEW t \in Tasks, OwnEnd(t) PROVE UseInv'
  BY <1>20 DEF TypeOK, UseInv, InHand, OwnEnd, vars, listVars, memVars,
         flagVars, schVars, pcVars, histVars
<1>21. ASSUME NEW t \in Tasks, DelId(t) PROVE UseInv'
  BY <1>21 DEF TypeOK, UseInv, InHand, DelId, Deletable, MutexFree, vars,
         listVars,
         memVars, flagVars, schVars, pcVars, histVars
<1>22. ASSUME NEW c \in Clients, ReadClock(c) PROVE UseInv'
  BY <1>22 DEF TypeOK, UseInv, InHand, ReadClock, vars, listVars, memVars,
         flagVars, schVars, pcVars, histVars
<1>23. ASSUME NEW c \in Clients, Insert(c) PROVE UseInv'
  BY <1>23 DEF TypeOK, UseInv, InHand, Insert, MutexFree, vars, listVars,
         memVars, flagVars, schVars, pcVars, histVars
<1>24. ASSUME NEW c \in Clients, Announce(c) PROVE UseInv'
  BY <1>24 DEF TypeOK, UseInv, InHand, Announce, Push, vars, listVars,
         memVars, flagVars, schVars, pcVars, histVars
<1>25. ASSUME NEW c \in Clients, ReturnId(c) PROVE UseInv'
  BY <1>25 DEF TypeOK, UseInv, InHand, ReturnId, vars, listVars, memVars,
         flagVars, schVars, pcVars, histVars
<1>26. ASSUME NEW c \in Clients, NEW t \in Tasks, Ask(c, t) PROVE UseInv'
  BY <1>26 DEF TypeOK, UseInv, InHand, Ask, vars, listVars, memVars, flagVars,
         schVars, pcVars, histVars
<1>27. ASSUME NEW g, DelGroup(g) PROVE UseInv'
  BY <1>27 DEF TypeOK, UseInv, InHand, DelGroup, MutexFree, vars, listVars,
         memVars, flagVars, schVars, pcVars, histVars
<1>28. CASE Finished \/ UNCHANGED vars
  BY <1>28 DEF TypeOK, UseInv, InHand, Finished, vars, listVars, memVars,
         flagVars, schVars, pcVars, histVars
<1> QED
  BY <1>1, <1>2, <1>3, <1>4, <1>5, <1>6, <1>7, <1>8, <1>9, <1>10, <1>11,
         <1>12, <1>13, <1>14, <1>15, <1>16, <1>17, <1>18, <1>19, <1>20, <1>21,
         <1>22, <1>23, <1>24, <1>25, <1>26, <1>27, <1>28
     DEF Next, SchStep, OwnStep, ClientStep

\* The containers in use are on the list, whatever clients add and delete.
THEOREM UseCorrect == Spec => []UseInv
<1>1. Init => UseInv
  BY DEF Init, UseInv, InHand
<1> QED
  BY <1>1, UseStep, TypeCorrect, PTL DEF Spec

\* No container is freed under the scheduler thread or under the own thread of
\* its task, though task_own_thread takes no lock: in_thread alone is enough.
THEOREM ContainersLive == Spec => []NoUseAfterFree
<1>1. UseInv => NoUseAfterFree
  BY DEF UseInv, NoUseAfterFree
<1> QED
  BY <1>1, UseCorrect, PTL

\* A task never runs in two threads at once.
THEOREM OneThread == Spec => OneThreadPerTask
<1>1. ASSUME TypeOK, UseInv, [Next]_vars, NEW t \in Tasks, own'[t] = "born",
             own[t] # "born"
      PROVE  own[t] = "none" /\ t \notin running
  <2>1. Spawn /\ tp = t
    BY <1>1 DEF TypeOK, Next, SchStep, OwnStep, ClientStep, Start, Top, Busy,
         Idle,
         Spawn, Idle,
         Pick, Idle, Call, Return, Relock, ScanEnd, ReapBegin, ReapEnd, Pop,
         Popped, Tick,
         Stop,
         Stopped, Look, Due, Reap, MayReap, OwnCall, OwnReturn, OwnEnd, DelId,
         Deletable, ReadClock,
         Insert,
         Announce, ReturnId, Ask, DelGroup, Finished, vars
  <2> QED
    BY <1>1, <2>1 DEF UseInv, Spawn, Idle
<1>2. TypeOK /\ UseInv /\ [Next]_vars =>
        [\A t \in Tasks : own'[t] = "born" /\ own[t] # "born" =>
            own[t] = "none" /\ t \notin running]_vars
  BY <1>1
<1> QED
  BY <1>2, TypeCorrect, UseCorrect, PTL DEF Spec, OneThreadPerTask

-----------------------------------------------------------------------------
(* Deleted tasks.                                                          *)

\* A task that del_task_id counted stays out of the hands of the scheduler.
LEMMA CancelStep == TypeOK /\ UseInv /\ CancelInv /\ [Next]_vars => CancelInv'
<1> SUFFICES ASSUME TypeOK, UseInv, CancelInv, [Next]_vars
             PROVE  CancelInv'
  OBVIOUS
<1>1. CASE Start
  BY <1>1 DEF TypeOK, UseInv, CancelInv, InHand, Start, vars, listVars,
         memVars, flagVars, schVars, pcVars, histVars
<1>2. CASE Top
  BY <1>2 DEF TypeOK, UseInv, CancelInv, InHand, Top, vars, listVars, memVars,
         flagVars, schVars, pcVars, histVars
<1>3. CASE Busy
  BY <1>3 DEF TypeOK, UseInv, CancelInv, InHand, Busy, Idle, ScanOn, vars,
         listVars,
         memVars, flagVars, schVars, pcVars, histVars
<1>4. CASE Spawn
  BY <1>4 DEF TypeOK, UseInv, CancelInv, InHand, Spawn, Idle, ScanOn, vars,
         listVars, memVars, flagVars, schVars, pcVars, histVars
<1>5. CASE Pick
  BY <1>5 DEF TypeOK, UseInv, CancelInv, InHand, Pick, Idle, vars, listVars,
         memVars, flagVars, schVars, pcVars, histVars
<1>6. CASE Call
  BY <1>6 DEF TypeOK, UseInv, CancelInv, InHand, Call, Begin, vars, listVars,
         memVars, flagVars, schVars, pcVars, histVars
<1>7. CASE Return
  <2>1. destroyed \subseteq destroyed'
    BY <1>7 DEF Return, Reschedule, RunsAgain
  <2> QED
    BY <1>7, <2>1 DEF CancelInv, InHand, Return, vars, listVars, memVars,
         flagVars, schVars, pcVars, histVars
<1>8. CASE Relock
  BY <1>8 DEF TypeOK, UseInv, CancelInv, InHand, Relock, ScanOn, vars,
         listVars, memVars, flagVars, schVars, pcVars, histVars
<1>9. CASE ScanEnd
  BY <1>9 DEF TypeOK, UseInv, CancelInv, InHand, ScanEnd, vars, listVars,
         memVars, flagVars, schVars, pcVars, histVars
<1>10. CASE ReapBegin
  BY <1>10 DEF TypeOK, UseInv, CancelInv, InHand, ReapBegin, vars, listVars,
         memVars, flagVars, schVars, pcVars, histVars
<1>11. CASE ReapEnd
  BY <1>11 DEF TypeOK, UseInv, CancelInv, InHand, ReapEnd, vars, listVars,
         memVars, flagVars, schVars, pcVars, histVars
<1>12. CASE Pop
  BY <1>12 DEF TypeOK, UseInv, CancelInv, InHand, Pop, Popped, vars, listVars,
         memVars, flagVars, schVars, pcVars, histVars
<1>13. CASE Tick
  BY <1>13 DEF TypeOK, UseInv, CancelInv, InHand, Tick, vars, listVars,
         memVars, flagVars, schVars, pcVars, histVars
<1>14. CASE Stop
  BY <1>14 DEF TypeOK, UseInv, CancelInv, InHand, Stop, vars, listVars,
         memVars, flagVars, schVars, pcVars, histVars
<1>15. CASE Stopped
  BY <1>15 DEF TypeOK, UseInv, CancelInv, InHand, Stopped, vars, listVars,
         memVars, flagVars, schVars, pcVars, histVars
<1>16. ASSUME NEW t \in Tasks, Look(t) PROVE CancelInv'
  BY <1>16 DEF TypeOK, UseInv, CancelInv, InHand, Look, Due, vars, listVars,
         memVars, flagVars, schVars, pcVars, histVars
<1>17. ASSUME NEW t \in Tasks, Reap(t) PROVE CancelInv'
  BY <1>17 DEF TypeOK, UseInv, CancelInv, InHand, Reap, MayReap, Push, vars,
         listVars,
         memVars, flagVars, schVars, pcVars, histVars
<1>18. ASSUME NEW t \in Tasks, OwnCall(t) PROVE CancelInv'
  BY <1>18 DEF TypeOK, UseInv, CancelInv, InHand, OwnCall, Begin, vars,
         listVars, memVars, flagVars, schVars, pcVars, histVars
<1>19. ASSUME NEW t \in Tasks, OwnReturn(t) PROVE CancelInv'
  <2>1. destroyed \subseteq destroyed'
    BY <1>19 DEF OwnReturn, Reschedule, RunsAgain
  <2> QED
    BY <1>19, <2>1 DEF CancelInv, InHand, OwnReturn, vars, listVars, memVars,
         flagVars, schVars, pcVars, histVars
<1>20. ASSUME NEW t \in Tasks, OwnEnd(t) PROVE CancelInv'
  BY <1>20 DEF TypeOK, UseInv, CancelInv, InHand, OwnEnd, vars, listVars,
         memVars, flagVars, schVars, pcVars, histVars
<1>21. ASSUME NEW t \in Tasks, DelId(t) PROVE CancelInv'
  BY <1>21 DEF TypeOK, UseInv, CancelInv, InHand, DelId, Deletable, MutexFree,
         vars,
         listVars, memVars, flagVars, schVars, pcVars, histVars
<1>22. ASSUME NEW c \in Clients, ReadClock(c) PROVE CancelInv'
  BY <1>22 DEF TypeOK, UseInv, CancelInv, InHand, ReadClock, vars, listVars,
         memVars, flagVars, schVars, pcVars, histVars
<1>23. ASSUME NEW c \in Clients, Insert(c) PROVE CancelInv'
  BY <1>23 DEF TypeOK, UseInv, CancelInv, InHand, Insert, MutexFree, vars,
         listVars, memVars, flagVars, schVars, pcVars, histVars
<1>24. ASSUME NEW c \in Clients, Announce(c) PROVE CancelInv'
  BY <1>24 DEF TypeOK, UseInv, CancelInv, InHand, Announce, Push, vars,
         listVars, memVars, flagVars, schVars, pcVars, histVars
<1>25. ASSUME NEW c \in Clients, ReturnId(c) PROVE CancelInv'
  BY <1>25 DEF TypeOK, UseInv, CancelInv, InHand, ReturnId, vars, listVars,
         memVars, flagVars, schVars, pcVars, histVars
<1>26. ASSUME NEW c \in Clients, NEW t \in Tasks, Ask(c, t) PROVE CancelInv'
  BY <1>26 DEF TypeOK, UseInv, CancelInv, InHand, Ask, vars, listVars,
         memVars, flagVars, schVars, pcVars, histVars
<1>27. ASSUME NEW g, DelGroup(g) PROVE CancelInv'
  BY <1>27 DEF TypeOK, UseInv, CancelInv, InHand, DelGroup, MutexFree, vars,
         listVars, memVars, flagVars, schVars, pcVars, histVars
<1>28. CASE Finished \/ UNCHANGED vars
  BY <1>28 DEF TypeOK, UseInv, CancelInv, InHand, Finished, vars, listVars,
         memVars, flagVars, schVars, pcVars, histVars
<1> QED
  BY <1>1, <1>2, <1>3, <1>4, <1>5, <1>6, <1>7, <1>8, <1>9, <1>10, <1>11,
         <1>12, <1>13, <1>14, <1>15, <1>16, <1>17, <1>18, <1>19, <1>20, <1>21,
         <1>22, <1>23, <1>24, <1>25, <1>26, <1>27, <1>28
     DEF Next, SchStep, OwnStep, ClientStep

\* What del_task_id has counted as deleted does not start any more, if the task
\* runs in the scheduler thread: the scan looks at "destroyed" and picks up under
\* one lock, and del_task_id refuses what is already picked up.
THEOREM CancelIsFinal == Spec => CancelledNeverStarts
<1>1. ASSUME TypeOK, UseInv, CancelInv, [Next]_vars,
         NEW t \in cancelled \ OwnThread
      PROVE  runs'[t] = runs[t]
  <2>1. CASE Call
    BY <1>1, <2>1 DEF TypeOK, CancelInv, InHand, Call, Begin
  <2>2. ASSUME NEW u \in Tasks, OwnCall(u) PROVE runs'[t] = runs[t]
    BY <1>1, <2>2 DEF TypeOK, UseInv, OwnCall, Begin
  <2>3. CASE UNCHANGED runs
    BY <2>3
  <2> QED
    BY <1>1, <2>1, <2>2, <2>3 DEF Next, SchStep, OwnStep, ClientStep, Start,
         Top, Busy, Idle, Spawn,
         Pick, Idle, Return, Relock, ScanEnd, ReapBegin, ReapEnd, Pop, Popped,
         Tick, Stop,
         Stopped, Look, Due, Reap, MayReap, OwnReturn, OwnEnd, DelId,
         Deletable, ReadClock, Insert,
         Announce, ReturnId, Ask, DelGroup, Finished, vars, histVars
<1>2. TypeOK /\ UseInv /\ CancelInv /\ [Next]_vars =>
        [\A t \in cancelled \ OwnThread : runs'[t] = runs[t]]_vars
  BY <1>1
<1>3. Init => CancelInv
  BY DEF Init, CancelInv
<1> QED
  BY <1>2, <1>3, CancelStep, TypeCorrect, UseCorrect, PTL DEF Spec,
         CancelledNeverStarts

-----------------------------------------------------------------------------
(* One-shot tasks.                                                         *)

\* A one-shot task whose runtime is no later than its pick-up is destroyed when
\* its function returns, and rescheduling touches no other task.
LEMMA RescheduleOnce ==
    ASSUME TypeOK, NEW t \in Tasks, Reschedule(t)
    PROVE  /\ OneShot(t) /\ runtime[t] <= executed[t] => destroyed' = destroyed \cup {t}
           /\ destroyed \subseteq destroyed' /\ destroyed' \subseteq destroyed \cup {t}
           /\ \A u \in Tasks \ {t} :
                 runtime'[u] = runtime[u] /\ executed'[u] = executed[u]
BY DEF TypeOK, Reschedule, RunsAgain, OneShot

\* Every step keeps one-shot tasks from starting again.
LEMMA OnceStep == TypeOK /\ UseInv /\ OnceInv /\ [Next]_vars => OnceInv'
<1> SUFFICES ASSUME TypeOK, UseInv, OnceInv, [Next]_vars
             PROVE  OnceInv'
  OBVIOUS
<1>1. CASE Start
  BY <1>1 DEF TypeOK, UseInv, OnceInv, InHand, OneShot, Start, vars, listVars,
         memVars, flagVars, schVars, pcVars, histVars
<1>2. CASE Top
  BY <1>2 DEF TypeOK, UseInv, OnceInv, InHand, OneShot, Top, vars, listVars,
         memVars, flagVars, schVars, pcVars, histVars
<1>3. CASE Busy
  BY <1>3 DEF TypeOK, UseInv, OnceInv, InHand, OneShot, Busy, Idle, ScanOn,
         vars,
         listVars, memVars, flagVars, schVars, pcVars, histVars
<1>4. CASE Spawn
  BY <1>4 DEF TypeOK, UseInv, OnceInv, InHand, OneShot, Spawn, Idle, ScanOn,
         vars,
         listVars, memVars, flagVars, schVars, pcVars, histVars
<1>5. CASE Pick
  BY <1>5 DEF TypeOK, UseInv, OnceInv, InHand, OneShot, Pick, Idle, vars,
         listVars,
         memVars, flagVars, schVars, pcVars, histVars
<1>6. CASE Call
  BY <1>6 DEF TypeOK, UseInv, OnceInv, InHand, OneShot, Call, Begin, vars,
         listVars, memVars, flagVars, schVars, pcVars, histVars
<1>7. CASE Return
  <2>1. tp \in listed /\ Reschedule(tp)
    BY <1>7 DEF UseInv, InHand, Return
  <2> QED
    BY <1>7, <2>1, RescheduleOnce DEF TypeOK, OnceInv, OneShot, Return, vars,
         listVars, memVars, flagVars, schVars, pcVars, histVars
<1>8. CASE Relock
  BY <1>8 DEF TypeOK, UseInv, OnceInv, InHand, OneShot, Relock, ScanOn, vars,
         listVars, memVars, flagVars, schVars, pcVars, histVars
<1>9. CASE ScanEnd
  BY <1>9 DEF TypeOK, UseInv, OnceInv, InHand, OneShot, ScanEnd, vars,
         listVars, memVars, flagVars, schVars, pcVars, histVars
<1>10. CASE ReapBegin
  BY <1>10 DEF TypeOK, UseInv, OnceInv, InHand, OneShot, ReapBegin, vars,
         listVars, memVars, flagVars, schVars, pcVars, histVars
<1>11. CASE ReapEnd
  BY <1>11 DEF TypeOK, UseInv, OnceInv, InHand, OneShot, ReapEnd, vars,
         listVars, memVars, flagVars, schVars, pcVars, histVars
<1>12. CASE Pop
  BY <1>12 DEF TypeOK, UseInv, OnceInv, InHand, OneShot, Pop, Popped, vars,
         listVars,
         memVars, flagVars, schVars, pcVars, histVars
<1>13. CASE Tick
  BY <1>13 DEF TypeOK, UseInv, OnceInv, InHand, OneShot, Tick, vars, listVars,
         memVars, flagVars, schVars, pcVars, histVars
<1>14. CASE Stop
  BY <1>14 DEF TypeOK, UseInv, OnceInv, InHand, OneShot, Stop, vars, listVars,
         memVars, flagVars, schVars, pcVars, histVars
<1>15. CASE Stopped
  BY <1>15 DEF TypeOK, UseInv, OnceInv, InHand, OneShot, Stopped, vars,
         listVars, memVars, flagVars, schVars, pcVars, histVars
<1>16. ASSUME NEW t \in Tasks, Look(t) PROVE OnceInv'
  BY <1>16 DEF TypeOK, UseInv, OnceInv, InHand, OneShot, Look, Due, vars,
         listVars,
         memVars, flagVars, schVars, pcVars, histVars
<1>17. ASSUME NEW t \in Tasks, Reap(t) PROVE OnceInv'
  BY <1>17 DEF TypeOK, UseInv, OnceInv, InHand, OneShot, Reap, MayReap, Push,
         vars,
         listVars, memVars, flagVars, schVars, pcVars, histVars
<1>18. ASSUME NEW t \in Tasks, OwnCall(t) PROVE OnceInv'
  BY <1>18 DEF TypeOK, UseInv, OnceInv, InHand, OneShot, OwnCall, Begin, vars,
         listVars, memVars, flagVars, schVars, pcVars, histVars
<1>19. ASSUME NEW t \in Tasks, OwnReturn(t) PROVE OnceInv'
  <2>1. t \in listed \cap OwnThread /\ Reschedule(t)
    BY <1>19 DEF UseInv, OwnReturn
  <2> QED
    BY <1>19, <2>1, RescheduleOnce DEF TypeOK, UseInv, OnceInv, InHand,
         OneShot, OwnReturn, vars, listVars, memVars, flagVars, schVars,
         pcVars, histVars
<1>20. ASSUME NEW t \in Tasks, OwnEnd(t) PROVE OnceInv'
  BY <1>20 DEF TypeOK, UseInv, OnceInv, InHand, OneShot, OwnEnd, vars,
         listVars, memVars, flagVars, schVars, pcVars, histVars
<1>21. ASSUME NEW t \in Tasks, DelId(t) PROVE OnceInv'
  BY <1>21 DEF TypeOK, UseInv, OnceInv, InHand, OneShot, DelId, Deletable,
         MutexFree,
         vars, listVars, memVars, flagVars, schVars, pcVars, histVars
<1>22. ASSUME NEW c \in Clients, ReadClock(c) PROVE OnceInv'
  BY <1>22 DEF TypeOK, UseInv, OnceInv, InHand, OneShot, ReadClock, vars,
         listVars, memVars, flagVars, schVars, pcVars, histVars
<1>23. ASSUME NEW c \in Clients, Insert(c) PROVE OnceInv'
  BY <1>23 DEF TypeOK, UseInv, OnceInv, InHand, OneShot, Insert, MutexFree,
         vars, listVars, memVars, flagVars, schVars, pcVars, histVars
<1>24. ASSUME NEW c \in Clients, Announce(c) PROVE OnceInv'
  BY <1>24 DEF TypeOK, UseInv, OnceInv, InHand, OneShot, Announce, Push, vars,
         listVars, memVars, flagVars, schVars, pcVars, histVars
<1>25. ASSUME NEW c \in Clients, ReturnId(c) PROVE OnceInv'
  BY <1>25 DEF TypeOK, UseInv, OnceInv, InHand, OneShot, ReturnId, vars,
         listVars, memVars, flagVars, schVars, pcVars, histVars
<1>26. ASSUME NEW c \in Clients, NEW t \in Tasks, Ask(c, t) PROVE OnceInv'
  BY <1>26 DEF TypeOK, UseInv, OnceInv, InHand, OneShot, Ask, vars, listVars,
         memVars, flagVars, schVars, pcVars, histVars
<1>27. ASSUME NEW g, DelGroup(g) PROVE OnceInv'
  BY <1>27 DEF TypeOK, UseInv, OnceInv, InHand, OneShot, DelGroup, MutexFree,
         vars, listVars, memVars, flagVars, schVars, pcVars, histVars
<1>28. CASE Finished \/ UNCHANGED vars
  BY <1>28 DEF TypeOK, UseInv, OnceInv, InHand, OneShot, Finished, vars,
         listVars, memVars, flagVars, schVars, pcVars, histVars
<1> QED
  BY <1>1, <1>2, <1>3, <1>4, <1>5, <1>6, <1>7, <1>8, <1>9, <1>10, <1>11,
         <1>12, <1>13, <1>14, <1>15, <1>16, <1>17, <1>18, <1>19, <1>20, <1>21,
         <1>22, <1>23, <1>24, <1>25, <1>26, <1>27, <1>28
     DEF Next, SchStep, OwnStep, ClientStep

\* A task that runs in the scheduler thread, does not repeat and does not
\* reschedule itself starts at most once, however it is deleted meanwhile.
THEOREM OnceCorrect == Spec => []OneShotOnce
<1>1. Init => OnceInv
  BY DEF Init, OnceInv
<1>2. TypeOK /\ OnceInv => OneShotOnce
  BY DEF TypeOK, OnceInv, OneShotOnce, Once, OneShot
<1> QED
  BY <1>1, <1>2, OnceStep, TypeCorrect, UseCorrect, PTL DEF Spec

=============================================================================
