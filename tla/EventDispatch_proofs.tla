------------------------ MODULE EventDispatch_proofs ------------------------
(***************************************************************************)
(* Proofs about the event system, for any events, nodes, number of         *)
(* dispatch threads and length of the queue.                               *)
(***************************************************************************)
EXTENDS EventDispatch, FiniteSetTheorems, TLAPS

\* What a dispatch thread leaves alone.
Others == UNCHANGED <<firers, stopper, SOFT_MAX_DISPATCH, bounds, binding>>

\* Types of the variables, but for the bounds of the counters.
Types ==
    /\ SYSTEM_RUNNING \in BOOLEAN
    /\ queue \in Seq(Events \cup {NoEvent}) /\ Len(queue) <= bounds
    /\ bounds \in QueueLens
    /\ DISPATCH_THREAD_COUNT \in Int
    /\ SOFT_MAX_DISPATCH \in 1 .. MAX_DISPATCH
    /\ fire \in [Events -> FireLabel]
    /\ thread \in [Threads -> ThreadLabel]
    /\ event \in [Threads -> Events \cup {NoEvent}]
    /\ node \in [Threads -> Nodes \cup {NoNode}]
    /\ todo \in [Threads -> SUBSET Nodes]
    /\ binding \in [Nodes -> {"new", "bound", "freed"}]
    /\ down \in DownLabel /\ x \in Nat
    /\ pushed \in Seq(Events)
    /\ got \in [Nodes -> Seq(Events)]
    /\ \A t \in Threads : thread[t] \in {"deliver", "walk", "call"} => event[t] # NoEvent

\* What push and pop do to the queue.
LEMMA QueueOps ==
    ASSUME queue \in Seq(Events \cup {NoEvent}), Len(queue) <= bounds, bounds \in QueueLens
    PROVE  /\ Room => \A e \in Events \cup {NoEvent} :
                 Append(queue, e) \in Seq(Events \cup {NoEvent}) /\ Len(Append(queue, e)) <= bounds
           /\ queue # <<>> => /\ Tail(queue) \in Seq(Events \cup {NoEvent})
                              /\ Len(Tail(queue)) <= bounds
                              /\ Head(queue) \in Events \cup {NoEvent}
<1> DEFINE E == Events \cup {NoEvent}
<1>1. queue \in Seq(E) /\ Len(queue) \in Nat /\ bounds \in Nat
  BY EventAssumption
<1> HIDE DEF E
<1>2. ASSUME Room, NEW e \in E
      PROVE  Append(queue, e) \in Seq(E) /\ Len(Append(queue, e)) <= bounds
  BY <1>1, <1>2 DEF Room
<1>3. ASSUME queue # <<>>
      PROVE  Tail(queue) \in Seq(E) /\ Len(Tail(queue)) <= bounds /\ Head(queue) \in E
  BY <1>1, <1>3
<1> QED
  BY <1>2, <1>3 DEF E

\* Both ways to unbind unlink some nodes.
LEMMA UnlinkSome ==
    /\ \A n \in Nodes : Unbind(n) =>
          Unlink({n}) /\ UNCHANGED <<firers, dispatchers, stopper, queue, SOFT_MAX_DISPATCH, bounds>>
    /\ \A c : UnbindCallback(c) => \E S \in SUBSET Nodes :
          Unlink(S) /\ UNCHANGED <<firers, dispatchers, stopper, queue, SOFT_MAX_DISPATCH, bounds>>
<1>1. \A c : {n \in Nodes : Callback[n] = c /\ binding[n] = "bound"} \in SUBSET Nodes
  OBVIOUS
<1> QED
  BY <1>1 DEF Unbind, UnbindCallback

-----------------------------------------------------------------------------
(* Types.                                                                  *)

LEMMA StepTypes == ASSUME Types, [Next]_vars PROVE Types'
<1> USE DEF Types
<1>1. ASSUME NEW e \in Events, Fire(e) PROVE Types'
  BY <1>1 DEF Fire, FireLabel, dispatchers, stopper
<1>2. ASSUME NEW e \in Events, Push(e) PROVE Types'
  <2>1. queue' \in Seq(Events \cup {NoEvent}) /\ Len(queue') <= bounds
    <3>1. CASE Room
      <4>1. queue' = Append(queue, e)
        BY <1>2, <3>1 DEF Push, Queued
      <4>2. /\ Append(queue, e) \in Seq(Events \cup {NoEvent})
            /\ Len(Append(queue, e)) <= bounds
        BY <3>1, QueueOps, Zenon
      <4> QED
        BY <4>1, <4>2, Zenon
    <3>2. CASE ~Room
      BY <1>2, <3>2 DEF Push
    <3> QED
      BY <3>1, <3>2
  <2>2. pushed' \in Seq(Events)
    <3>1. Append(pushed, e) \in Seq(Events)
      OBVIOUS
    <3> QED
      BY <1>2, <3>1 DEF Push
  <2>3. fire' \in [Events -> FireLabel]
    BY <1>2 DEF Push, FireLabel
  <2> QED
    BY <1>2, <2>1, <2>2, <2>3 DEF Push, dispatchers, stopper
<1>3. ASSUME NEW e \in Events, PushLoses(e) PROVE Types'
  BY <1>3 DEF PushLoses, FireLabel, dispatchers, stopper
<1>4. ASSUME Launch PROVE Types'
  <2>1. SOFT_MAX_DISPATCH' \in 1 .. MAX_DISPATCH
    BY <1>4, EventAssumption DEF Launch
  <2>2. thread' \in [Threads -> ThreadLabel]
    BY <1>4 DEF Launch, Goto, ThreadLabel
  <2>3. \A t \in Threads : thread'[t] \in {"deliver", "walk", "call"} => thread'[t] = thread[t]
    BY <1>4 DEF Launch, Goto
  <2> QED
    BY <1>4, <2>1, <2>2, <2>3 DEF Launch, firers, stopper
<1>5. ASSUME NEW t \in Threads, ThreadStarts(t), Others PROVE Types'
  BY <1>5 DEF ThreadStarts, Goto, ThreadLabel, Others, firers, stopper
<1>6. ASSUME NEW t \in Threads, Check(t), Others PROVE Types'
  BY <1>6 DEF Check, Goto, ThreadLabel, Others, firers, stopper
<1>7. ASSUME NEW t \in Threads, Pop(t), Others PROVE Types'
  <2>1. queue' \in Seq(Events \cup {NoEvent}) /\ Len(queue') <= bounds
    BY <1>7, QueueOps DEF Pop
  <2>2. event' \in [Threads -> Events \cup {NoEvent}]
    BY <1>7, QueueOps DEF Pop
  <2>3. thread' \in [Threads -> ThreadLabel]
    BY <1>7 DEF Pop, Goto, ThreadLabel
  <2>4. \A s \in Threads : thread'[s] \in {"deliver", "walk", "call"} => event'[s] # NoEvent
    BY <1>7 DEF Pop, Goto
  <2> QED
    BY <1>7, <2>1, <2>2, <2>3, <2>4 DEF Pop, Others, firers, stopper
<1>8. ASSUME NEW t \in Threads, PopFails(t), Others PROVE Types'
  BY <1>8 DEF PopFails, Goto, ThreadLabel, Others, firers, stopper
<1>9. ASSUME NEW t \in Threads, Deliver(t), Others PROVE Types'
  <2>1. todo' \in [Threads -> SUBSET Nodes] /\ event' \in [Threads -> Events \cup {NoEvent}]
    BY <1>9, ZenonT(30) DEF Deliver, Matching
  <2>2. thread' \in [Threads -> ThreadLabel]
    BY <1>9 DEF Deliver, Goto, ThreadLabel
  <2>3. \A s \in Threads : thread'[s] \in {"deliver", "walk", "call"} => event'[s] # NoEvent
    BY <1>9 DEF Deliver, Goto
  <2> QED
    BY <1>9, <2>1, <2>2, <2>3 DEF Deliver, Others, firers, stopper
<1>10. ASSUME NEW t \in Threads, NEW n \in Nodes, Call(t, n), Others PROVE Types'
  <2>1. event[t] \in Events
    BY <1>10 DEF Call
  <2>2. got' \in [Nodes -> Seq(Events)]
    BY <1>10, <2>1 DEF Call
  <2>3. thread' \in [Threads -> ThreadLabel] /\ node' \in [Threads -> Nodes \cup {NoNode}]
    BY <1>10 DEF Call, Goto, ThreadLabel
  <2>4. \A s \in Threads : thread'[s] \in {"deliver", "walk", "call"} => event'[s] # NoEvent
    BY <1>10 DEF Call, Goto
  <2> QED
    BY <1>10, <2>2, <2>3, <2>4 DEF Call, Others, firers, stopper
<1>11. ASSUME NEW t \in Threads, CallReturns(t), Others PROVE Types'
  BY <1>11 DEF CallReturns, Goto, Remaining, ThreadLabel, Others, firers, stopper
<1>12. ASSUME NEW t \in Threads, WalkEnds(t), Others PROVE Types'
  BY <1>12 DEF WalkEnds, Goto, ThreadLabel, Others, firers, stopper
<1>13. ASSUME NEW t \in Threads, ThreadEnds(t), Others PROVE Types'
  BY <1>13 DEF ThreadEnds, Goto, ThreadLabel, Others, firers, stopper
<1>14. ASSUME NEW n \in Nodes, Bind(n) PROVE Types'
  BY <1>14 DEF Bind, firers, dispatchers, stopper
<1>15. ASSUME NEW S \in SUBSET Nodes, Unlink(S),
             UNCHANGED <<firers, dispatchers, stopper, queue, SOFT_MAX_DISPATCH, bounds>>
      PROVE  Types'
  BY <1>15 DEF Unlink, firers, dispatchers, stopper
<1>16. ASSUME Stop PROVE Types'
  BY <1>16 DEF Stop, firers, dispatchers, DownLabel
<1>17. ASSUME PushNull PROVE Types'
  <2>1. queue' \in Seq(Events \cup {NoEvent}) /\ Len(queue') <= bounds
    BY <1>17, QueueOps DEF PushNull, Trypush, Queued
  <2> QED
    BY <1>17, <2>1 DEF PushNull, firers, dispatchers, DownLabel
<1>18. ASSUME Interrupt PROVE Types'
  BY <1>18 DEF Interrupt, FireLabel, ThreadLabel, DownLabel
<1>19. ASSUME Join PROVE Types'
  BY <1>19 DEF Join, firers, dispatchers, DownLabel
<1>20. ASSUME Linger PROVE Types'
  BY <1>20 DEF Linger, firers, dispatchers, DownLabel
<1>21. ASSUME Drain PROVE Types'
  <2>1. queue' \in Seq(Events \cup {NoEvent}) /\ Len(queue') <= bounds
    BY <1>21, QueueOps DEF Drain
  <2> QED
    BY <1>21, <2>1 DEF Drain, firers, dispatchers, DownLabel
<1>22. ASSUME UNCHANGED vars PROVE Types'
  BY <1>22 DEF vars, firers, dispatchers, stopper
<1> QED
  BY <1>1, <1>2, <1>3, <1>4, <1>5, <1>6, <1>7, <1>8, <1>9, <1>10, <1>11,
     <1>12, <1>13, <1>14, <1>15, <1>16, <1>17, <1>18, <1>19, <1>20, <1>21, <1>22, UnlinkSome
  DEF Next, DispatchStep, Spurious, ShutdownStep, Others

LEMMA AlwaysTypes == Spec => []Types
<1>1. Init => Types
  BY EventAssumption DEF Init, Types, FireLabel, ThreadLabel, DownLabel
<1>2. Types /\ [Next]_vars => Types'
  BY StepTypes
<1> QED
  BY <1>1, <1>2, PTL DEF Spec

-----------------------------------------------------------------------------
(* Threads and their number.                                               *)

Running == {t \in Threads : thread[t] \notin {"none", "start", "gone"}}

\* Threads are launched in order; the first one was launched by the core.
Fresh == /\ \A t \in Threads : t >= SOFT_MAX_DISPATCH <=> thread[t] = "none"
         /\ thread[0] # "start"

LEMMA FirstThread == 0 \in Threads
BY EventAssumption DEF Threads

LEMMA StepFresh == ASSUME Types, Fresh, [Next]_vars PROVE Fresh'
<1>0. 0 \in Threads /\ \A t \in Threads : t \in Nat
  BY FirstThread DEF Threads
<1>00. ASSUME UNCHANGED <<thread, SOFT_MAX_DISPATCH>> PROVE Fresh'
  BY <1>00 DEF Fresh
<1> USE DEF Types, Fresh
<1>1. ASSUME NEW e \in Events, Fire(e) PROVE Fresh'
  BY <1>1, <1>00 DEF Fire, dispatchers
<1>2. ASSUME NEW e \in Events, Push(e) PROVE Fresh'
  BY <1>2, <1>00 DEF Push, dispatchers
<1>3. ASSUME NEW e \in Events, PushLoses(e) PROVE Fresh'
  BY <1>3, <1>00 DEF PushLoses, dispatchers
<1>4. ASSUME Launch PROVE Fresh'
  BY <1>4, <1>0, EventAssumption DEF Launch, Goto, Threads
<1>5. ASSUME NEW t \in Threads, ThreadStarts(t), Others PROVE Fresh'
  BY <1>5, <1>0 DEF ThreadStarts, Goto, Others
<1>6. ASSUME NEW t \in Threads, Check(t), Others PROVE Fresh'
  BY <1>6, <1>0 DEF Check, Goto, Others
<1>7. ASSUME NEW t \in Threads, Pop(t), Others PROVE Fresh'
  BY <1>7, <1>0 DEF Pop, Goto, Others
<1>8. ASSUME NEW t \in Threads, PopFails(t), Others PROVE Fresh'
  BY <1>8, <1>0 DEF PopFails, Goto, Others
<1>9. ASSUME NEW t \in Threads, Deliver(t), Others PROVE Fresh'
  BY <1>9, <1>0 DEF Deliver, Goto, Others
<1>10. ASSUME NEW t \in Threads, NEW n \in Nodes, Call(t, n), Others PROVE Fresh'
  BY <1>10, <1>0 DEF Call, Goto, Others
<1>11. ASSUME NEW t \in Threads, CallReturns(t), Others PROVE Fresh'
  BY <1>11, <1>0 DEF CallReturns, Goto, Others
<1>12. ASSUME NEW t \in Threads, WalkEnds(t), Others PROVE Fresh'
  BY <1>12, <1>0 DEF WalkEnds, Goto, Others
<1>13. ASSUME NEW t \in Threads, ThreadEnds(t), Others PROVE Fresh'
  BY <1>13, <1>0 DEF ThreadEnds, Goto, Others
<1>14. ASSUME NEW n \in Nodes, Bind(n) PROVE Fresh'
  BY <1>14, <1>00 DEF Bind, dispatchers
<1>15. ASSUME NEW S \in SUBSET Nodes, Unlink(S),
             UNCHANGED <<firers, dispatchers, stopper, queue, SOFT_MAX_DISPATCH, bounds>>
      PROVE  Fresh'
  BY <1>15, <1>00 DEF Unlink, dispatchers
<1>16. ASSUME Stop PROVE Fresh'
  BY <1>16, <1>00 DEF Stop, dispatchers
<1>17. ASSUME PushNull PROVE Fresh'
  BY <1>17, <1>00 DEF PushNull, dispatchers
<1>18. ASSUME Interrupt PROVE Fresh'
  BY <1>18, <1>0 DEF Interrupt
<1>19. ASSUME Join PROVE Fresh'
  BY <1>19, <1>00 DEF Join, dispatchers
<1>20. ASSUME Linger PROVE Fresh'
  BY <1>20, <1>00 DEF Linger, dispatchers
<1>21. ASSUME Drain PROVE Fresh'
  BY <1>21, <1>00 DEF Drain, dispatchers
<1>22. ASSUME UNCHANGED vars PROVE Fresh'
  BY <1>22, <1>00 DEF vars, dispatchers
<1> QED
  BY <1>1, <1>2, <1>3, <1>4, <1>5, <1>6, <1>7, <1>8, <1>9, <1>10, <1>11,
     <1>12, <1>13, <1>14, <1>15, <1>16, <1>17, <1>18, <1>19, <1>20, <1>21, <1>22, UnlinkSome
  DEF Next, DispatchStep, Spurious, ShutdownStep, Others

LEMMA AlwaysFresh == Spec => []Fresh
<1>1. Init => Fresh
  BY FirstThread DEF Init, Fresh, Threads
<1>2. Types /\ Fresh /\ [Next]_vars => Fresh'
  BY StepFresh
<1> QED
  BY <1>1, <1>2, AlwaysTypes, PTL DEF Spec

-----------------------------------------------------------------------------
(* Callbacks.                                                              *)

\* A thread has a callback to call only while it holds the read lock, and then
\* the node is bound.
ReadInv ==
    \A t \in Threads :
        /\ todo[t] # {} => t \in Readers
        /\ node[t] # NoNode => thread[t] = "call"
        /\ \A n \in todo[t] : binding[n] = "bound"
        /\ node[t] # NoNode => binding[node[t]] = "bound"

LEMMA StepRead == ASSUME Types, Fresh, ReadInv, [Next]_vars PROVE ReadInv'
<1>00. SOFT_MAX_DISPATCH < MAX_DISPATCH => thread[SOFT_MAX_DISPATCH] = "none"
  BY EventAssumption DEF Fresh, Types, Threads
<1>0. ASSUME UNCHANGED <<thread, todo, node, binding>> PROVE ReadInv'
  BY <1>0 DEF ReadInv, Readers
<1> USE DEF Types
<1>1. ASSUME NEW e \in Events, Fire(e) PROVE ReadInv'
  BY <1>1, <1>0 DEF Fire, dispatchers
<1>2. ASSUME NEW e \in Events, Push(e) PROVE ReadInv'
  BY <1>2, <1>0 DEF Push, dispatchers
<1>3. ASSUME NEW e \in Events, PushLoses(e) PROVE ReadInv'
  BY <1>3, <1>0 DEF PushLoses, dispatchers
<1>4. ASSUME Launch PROVE ReadInv'
  BY <1>4, <1>00 DEF Launch, Goto, ReadInv, Readers
<1>5. ASSUME NEW t \in Threads, ThreadStarts(t), Others PROVE ReadInv'
  BY <1>5 DEF ThreadStarts, Goto, Others, ReadInv, Readers
<1>6. ASSUME NEW t \in Threads, Check(t), Others PROVE ReadInv'
  BY <1>6 DEF Check, Goto, Others, ReadInv, Readers
<1>7. ASSUME NEW t \in Threads, Pop(t), Others PROVE ReadInv'
  BY <1>7, SMTT(30) DEF Pop, Goto, Others, ReadInv, Readers
<1>8. ASSUME NEW t \in Threads, PopFails(t), Others PROVE ReadInv'
  BY <1>8 DEF PopFails, Goto, Others, ReadInv, Readers
<1>9. ASSUME NEW t \in Threads, Deliver(t), Others PROVE ReadInv'
  <2>1. todo[t] = {} /\ node[t] = NoNode
    BY <1>9 DEF Deliver, ReadInv, Readers
  <2>2. CASE SYSTEM_RUNNING
    BY <1>9, <2>1, <2>2 DEF Deliver, Goto, Matching, Others, ReadInv, Readers
  <2>3. CASE ~SYSTEM_RUNNING
    BY <1>9, <2>1, <2>3, SMTT(30) DEF Deliver, Goto, Others, ReadInv, Readers
  <2> QED
    BY <2>2, <2>3
<1>10. ASSUME NEW t \in Threads, NEW n \in Nodes, Call(t, n), Others PROVE ReadInv'
  BY <1>10, EventAssumption DEF Call, Goto, Others, ReadInv, Readers
<1>11. ASSUME NEW t \in Threads, CallReturns(t), Others PROVE ReadInv'
  BY <1>11 DEF CallReturns, Goto, Remaining, Others, ReadInv, Readers
<1>12. ASSUME NEW t \in Threads, WalkEnds(t), Others PROVE ReadInv'
  BY <1>12 DEF WalkEnds, Goto, Others, ReadInv, Readers
<1>13. ASSUME NEW t \in Threads, ThreadEnds(t), Others PROVE ReadInv'
  BY <1>13 DEF ThreadEnds, Goto, Others, ReadInv, Readers
<1>14. ASSUME NEW n \in Nodes, Bind(n) PROVE ReadInv'
  BY <1>14 DEF Bind, dispatchers, ReadInv, Readers
<1>15. ASSUME NEW S \in SUBSET Nodes, Unlink(S),
             UNCHANGED <<firers, dispatchers, stopper, queue, SOFT_MAX_DISPATCH, bounds>>
      PROVE  ReadInv'
  BY <1>15 DEF Unlink, dispatchers, ReadInv, Readers
<1>16. ASSUME Stop PROVE ReadInv'
  BY <1>16, <1>0 DEF Stop, dispatchers
<1>17. ASSUME PushNull PROVE ReadInv'
  BY <1>17, <1>0 DEF PushNull, dispatchers
<1>18. ASSUME Interrupt PROVE ReadInv'
  BY <1>18 DEF Interrupt, ReadInv, Readers
<1>19. ASSUME Join PROVE ReadInv'
  BY <1>19, <1>0 DEF Join, dispatchers
<1>20. ASSUME Linger PROVE ReadInv'
  BY <1>20, <1>0 DEF Linger, dispatchers
<1>21. ASSUME Drain PROVE ReadInv'
  BY <1>21, <1>0 DEF Drain, dispatchers
<1>22. ASSUME UNCHANGED vars PROVE ReadInv'
  BY <1>22, <1>0 DEF vars, dispatchers
<1> QED
  BY <1>1, <1>2, <1>3, <1>4, <1>5, <1>6, <1>7, <1>8, <1>9, <1>10, <1>11,
     <1>12, <1>13, <1>14, <1>15, <1>16, <1>17, <1>18, <1>19, <1>20, <1>21, <1>22, UnlinkSome
  DEF Next, DispatchStep, Spurious, ShutdownStep, Others

LEMMA AlwaysRead == Spec => []ReadInv
<1>1. Init => ReadInv
  BY DEF Init, ReadInv
<1>2. Types /\ Fresh /\ ReadInv /\ [Next]_vars => ReadInv'
  BY StepRead
<1> QED
  BY <1>1, <1>2, AlwaysTypes, AlwaysFresh, PTL DEF Spec

\* However threads dispatch, bind and unbind: once a node is unbound its callback
\* is not running, and is not going to be called.
THEOREM NoCallbackAfterUnbind == Spec => []NoStaleCallback
<1>1. Types /\ ReadInv => NoStaleCallback
  BY DEF Types, ReadInv, NoStaleCallback
<1> QED
  BY <1>1, AlwaysTypes, AlwaysRead, PTL

-----------------------------------------------------------------------------
(* The number of threads, and the shutdown.                                *)

CountInv == DISPATCH_THREAD_COUNT = Cardinality(Running)

LEMMA ThreadsFinite ==
    ASSUME NEW S \in SUBSET Threads
    PROVE  IsFiniteSet(S) /\ Cardinality(S) \in 0 .. MAX_DISPATCH
<1>1. IsFiniteSet(Threads) /\ Cardinality(Threads) = MAX_DISPATCH /\ MAX_DISPATCH \in Nat
  BY EventAssumption, FS_Interval DEF Threads
<1> QED
  BY <1>1, FS_Subset, FS_CardinalityType

LEMMA StepCount == ASSUME Types, Fresh, CountInv, [Next]_vars PROVE CountInv'
<1>0. Running \in SUBSET Threads /\ IsFiniteSet(Running) /\ Cardinality(Running) \in Nat
  BY ThreadsFinite DEF Running
<1>00. ASSUME Running' = Running, UNCHANGED DISPATCH_THREAD_COUNT PROVE CountInv'
  BY <1>00 DEF CountInv
<1> USE DEF Types
<1>1. ASSUME NEW e \in Events, Fire(e) PROVE CountInv'
  BY <1>1, <1>00 DEF Fire, dispatchers, Running
<1>2. ASSUME NEW e \in Events, Push(e) PROVE CountInv'
  BY <1>2, <1>00 DEF Push, dispatchers, Running
<1>3. ASSUME NEW e \in Events, PushLoses(e) PROVE CountInv'
  BY <1>3, <1>00 DEF PushLoses, dispatchers, Running
<1>4. ASSUME Launch PROVE CountInv'
  <2>1. SOFT_MAX_DISPATCH \in Threads => thread[SOFT_MAX_DISPATCH] = "none"
    BY DEF Fresh
  <2> QED
    BY <1>4, <1>00, <2>1 DEF Launch, Goto, Running
<1>5. ASSUME NEW t \in Threads, ThreadStarts(t), Others PROVE CountInv'
  <2>1. Running' = Running \cup {t} /\ t \notin Running
    BY <1>5 DEF ThreadStarts, Goto, Running
  <2> QED
    BY <1>5, <1>0, <2>1, FS_AddElement DEF ThreadStarts, CountInv
<1>6. ASSUME NEW t \in Threads, Check(t), Others PROVE CountInv'
  BY <1>6, <1>00 DEF Check, Goto, Running
<1>7. ASSUME NEW t \in Threads, Pop(t), Others PROVE CountInv'
  BY <1>7, <1>00 DEF Pop, Goto, Running
<1>8. ASSUME NEW t \in Threads, PopFails(t), Others PROVE CountInv'
  BY <1>8, <1>00 DEF PopFails, Goto, Running
<1>9. ASSUME NEW t \in Threads, Deliver(t), Others PROVE CountInv'
  BY <1>9, <1>00 DEF Deliver, Goto, Running
<1>10. ASSUME NEW t \in Threads, NEW n \in Nodes, Call(t, n), Others PROVE CountInv'
  BY <1>10, <1>00 DEF Call, Goto, Running
<1>11. ASSUME NEW t \in Threads, CallReturns(t), Others PROVE CountInv'
  BY <1>11, <1>00 DEF CallReturns, Goto, Running
<1>12. ASSUME NEW t \in Threads, WalkEnds(t), Others PROVE CountInv'
  BY <1>12, <1>00 DEF WalkEnds, Goto, Running
<1>13. ASSUME NEW t \in Threads, ThreadEnds(t), Others PROVE CountInv'
  <2>1. Running' = Running \ {t} /\ t \in Running
    BY <1>13 DEF ThreadEnds, Goto, Running
  <2> QED
    BY <1>13, <1>0, <2>1, FS_RemoveElement DEF ThreadEnds, CountInv
<1>14. ASSUME NEW n \in Nodes, Bind(n) PROVE CountInv'
  BY <1>14, <1>00 DEF Bind, dispatchers, Running
<1>15. ASSUME NEW S \in SUBSET Nodes, Unlink(S),
             UNCHANGED <<firers, dispatchers, stopper, queue, SOFT_MAX_DISPATCH, bounds>>
      PROVE  CountInv'
  BY <1>15, <1>00 DEF Unlink, dispatchers, Running
<1>16. ASSUME Stop PROVE CountInv'
  BY <1>16, <1>00 DEF Stop, dispatchers, Running
<1>17. ASSUME PushNull PROVE CountInv'
  BY <1>17, <1>00 DEF PushNull, dispatchers, Running
<1>18. ASSUME Interrupt PROVE CountInv'
  BY <1>18, <1>00 DEF Interrupt, Running
<1>19. ASSUME Join PROVE CountInv'
  BY <1>19, <1>00 DEF Join, dispatchers, Running
<1>20. ASSUME Linger PROVE CountInv'
  BY <1>20, <1>00 DEF Linger, dispatchers, Running
<1>21. ASSUME Drain PROVE CountInv'
  BY <1>21, <1>00 DEF Drain, dispatchers, Running
<1>22. ASSUME UNCHANGED vars PROVE CountInv'
  BY <1>22, <1>00 DEF vars, dispatchers, Running
<1> QED
  BY <1>1, <1>2, <1>3, <1>4, <1>5, <1>6, <1>7, <1>8, <1>9, <1>10, <1>11,
     <1>12, <1>13, <1>14, <1>15, <1>16, <1>17, <1>18, <1>19, <1>20, <1>21, <1>22, UnlinkSome
  DEF Next, DispatchStep, Spurious, ShutdownStep, Others

LEMMA AlwaysCount == Spec => []CountInv
<1>1. Init => CountInv
  <2> SUFFICES ASSUME Init PROVE CountInv
    OBVIOUS
  <2>1. Running = {0}
    BY FirstThread DEF Init, Running
  <2> QED
    BY <2>1, FS_Singleton DEF Init, CountInv
<1>2. Types /\ Fresh /\ CountInv /\ [Next]_vars => CountInv'
  BY StepCount
<1> QED
  BY <1>1, <1>2, AlwaysTypes, AlwaysFresh, PTL DEF Spec

\* x stays in the array of threads; and with one thread, once the shutdown has left
\* the first turn of its last loop, that thread is gone.
DownInv ==
    /\ x <= MAX_DISPATCH
    /\ down = "joining" => x < MAX_DISPATCH
    /\ down = "interrupt" => x = 0
    /\ SOFT_MAX_DISPATCH = 1 =>
          /\ down = "joining" => x = 0
          /\ down = "join" /\ x > 0 => thread[0] = "gone"
          /\ down \in {"linger", "drain", "down"} => thread[0] = "gone"

LEMMA StepDown ==
    ASSUME Types, Types', Fresh, CountInv, DownInv, [Next]_vars PROVE DownInv'
<1>types. /\ 0 \in Threads /\ MAX_DISPATCH \in Nat \ {0}
      /\ DISPATCH_THREAD_COUNT \in 0 .. MAX_DISPATCH
  BY FirstThread, ThreadsFinite, EventAssumption DEF CountInv, Running
<1>one. ASSUME SOFT_MAX_DISPATCH = 1 PROVE Running \subseteq {0} /\ (DISPATCH_THREAD_COUNT = 0 => thread[0] = "gone")
                                         /\ DISPATCH_THREAD_COUNT <= 1
  <2>1. \A t \in Threads : t # 0 => thread[t] = "none"
    BY <1>one DEF Fresh, Threads
  <2>2. Running \subseteq {0}
    BY <2>1 DEF Running
  <2>s. Cardinality({0}) = 1 /\ IsFiniteSet({0})
    BY FS_Singleton
  <2>3. Cardinality(Running) <= 1
    <3>1. Running \in SUBSET {0}
      BY <2>2
    <3>2. Cardinality(Running) <= Cardinality({0})
      BY <2>s, <3>1, FS_Subset
    <3> QED
      BY <2>s, <3>2
  <2>4. ASSUME DISPATCH_THREAD_COUNT = 0 PROVE thread[0] = "gone"
    <3>1. Running = {}
      BY <2>4, ThreadsFinite, FS_EmptySet DEF CountInv, Running
    <3>2. thread[0] # "none" /\ thread[0] # "start"
      BY <1>types, <1>one DEF Fresh
    <3> QED
      BY <1>types, <3>1, <3>2 DEF Running
  <2> QED
    BY <2>2, <2>3, <2>4 DEF CountInv
<1>same. ASSUME UNCHANGED <<x, down, SOFT_MAX_DISPATCH>>, thread[0] = "gone" => thread'[0] = "gone"
      PROVE  DownInv'
  BY <1>same DEF DownInv
<1> USE DEF Types
<1>1. ASSUME NEW e \in Events, Fire(e) PROVE DownInv'
  BY <1>1, <1>same DEF Fire, dispatchers, stopper
<1>2. ASSUME NEW e \in Events, Push(e) PROVE DownInv'
  BY <1>2, <1>same DEF Push, dispatchers, stopper
<1>3. ASSUME NEW e \in Events, PushLoses(e) PROVE DownInv'
  BY <1>3, <1>same DEF PushLoses, dispatchers, stopper
<1>4. ASSUME Launch PROVE DownInv'
  BY <1>4 DEF Launch, DownInv, stopper
<1>5. ASSUME NEW t \in Threads, ThreadStarts(t), Others PROVE DownInv'
  BY <1>5, <1>types, <1>same DEF ThreadStarts, Goto, Others, stopper
<1>6. ASSUME NEW t \in Threads, Check(t), Others PROVE DownInv'
  BY <1>6, <1>types, <1>same DEF Check, Goto, Others, stopper
<1>7. ASSUME NEW t \in Threads, Pop(t), Others PROVE DownInv'
  BY <1>7, <1>types, <1>same DEF Pop, Goto, Others, stopper
<1>8. ASSUME NEW t \in Threads, PopFails(t), Others PROVE DownInv'
  BY <1>8, <1>types, <1>same DEF PopFails, Goto, Others, stopper
<1>9. ASSUME NEW t \in Threads, Deliver(t), Others PROVE DownInv'
  BY <1>9, <1>types, <1>same DEF Deliver, Goto, Others, stopper
<1>10. ASSUME NEW t \in Threads, NEW n \in Nodes, Call(t, n), Others PROVE DownInv'
  BY <1>10, <1>types, <1>same DEF Call, Goto, Others, stopper
<1>11. ASSUME NEW t \in Threads, CallReturns(t), Others PROVE DownInv'
  BY <1>11, <1>types, <1>same DEF CallReturns, Goto, Others, stopper
<1>12. ASSUME NEW t \in Threads, WalkEnds(t), Others PROVE DownInv'
  BY <1>12, <1>types, <1>same DEF WalkEnds, Goto, Others, stopper
<1>13. ASSUME NEW t \in Threads, ThreadEnds(t), Others PROVE DownInv'
  BY <1>13, <1>types, <1>same DEF ThreadEnds, Goto, Others, stopper
<1>14. ASSUME NEW n \in Nodes, Bind(n) PROVE DownInv'
  BY <1>14, <1>same DEF Bind, dispatchers, stopper
<1>15. ASSUME NEW S \in SUBSET Nodes, Unlink(S),
             UNCHANGED <<firers, dispatchers, stopper, queue, SOFT_MAX_DISPATCH, bounds>>
      PROVE  DownInv'
  BY <1>15, <1>same DEF Unlink, dispatchers, stopper
<1>16. ASSUME Stop PROVE DownInv'
  BY <1>16, <1>types DEF Stop, DownInv
<1>17. ASSUME PushNull PROVE DownInv'
  BY <1>17, <1>types DEF PushNull, Counted, DownInv
<1>18. ASSUME Interrupt PROVE DownInv'
  BY <1>18, <1>types DEF Interrupt, DownInv
<1>19. ASSUME Join PROVE DownInv'
  <2>1. UNCHANGED <<thread, SOFT_MAX_DISPATCH>>
    BY <1>19 DEF Join, dispatchers
  <2>2. CASE down = "join" /\ Counted /\ down' = "joining" /\ UNCHANGED x
    BY <1>types, <1>one, <2>1, <2>2 DEF Counted, DownInv
  <2>3. CASE down = "joining" /\ Joined /\ down' = "join" /\ x' = x + 1
    BY <1>types, <2>1, <2>3 DEF Joined, DownInv
  <2>4. CASE down = "join" /\ ~Counted /\ down' = "linger" /\ x' = 0
    <3>1. SOFT_MAX_DISPATCH = 1 => thread[0] = "gone"
      BY <1>types, <1>one, <2>4 DEF Counted, DownInv
    <3> QED
      BY <1>types, <2>1, <2>4, <3>1 DEF DownInv
  <2> QED
    BY <1>19, <2>2, <2>3, <2>4 DEF Join
<1>20. ASSUME Linger PROVE DownInv'
  BY <1>20, <1>types DEF Linger, dispatchers, DownInv
<1>21. ASSUME Drain PROVE DownInv'
  BY <1>21, <1>types DEF Drain, dispatchers, DownInv
<1>22. ASSUME UNCHANGED vars PROVE DownInv'
  BY <1>22, <1>same DEF vars, dispatchers, stopper
<1> QED
  BY <1>1, <1>2, <1>3, <1>4, <1>5, <1>6, <1>7, <1>8, <1>9, <1>10, <1>11,
     <1>12, <1>13, <1>14, <1>15, <1>16, <1>17, <1>18, <1>19, <1>20, <1>21, <1>22, UnlinkSome
  DEF Next, DispatchStep, Spurious, ShutdownStep, Others

LEMMA AlwaysDown == Spec => []DownInv
<1>1. Init => DownInv
  BY EventAssumption DEF Init, DownInv
<1>2. Types /\ Types' /\ Fresh /\ CountInv /\ DownInv /\ [Next]_vars => DownInv'
  BY StepDown
<1> QED
  BY <1>1, <1>2, AlwaysTypes, AlwaysFresh, AlwaysCount, PTL DEF Spec

\* Every variable keeps its type: the queue never exceeds its length, whoever
\* pushes into it, and the shutdown joins no thread outside of the array.
THEOREM TypeCorrect == Spec => []TypeOK
<1>1. Types /\ CountInv /\ DownInv => TypeOK
  <2> SUFFICES ASSUME Types, CountInv, DownInv PROVE TypeOK
    OBVIOUS
  <2>1. DISPATCH_THREAD_COUNT \in 0 .. MAX_DISPATCH
    BY ThreadsFinite DEF CountInv, Running
  <2>2. x \in 0 .. MAX_DISPATCH
    BY EventAssumption DEF Types, DownInv
  <2> QED
    BY <2>1, <2>2 DEF Types, TypeOK
<1> QED
  BY <1>1, AlwaysTypes, AlwaysCount, AlwaysDown, PTL

\* With the one thread of the core, no dispatch thread is left when the shutdown
\* goes on to free what callbacks use: whatever was fired, and whenever.
THEOREM QuietShutdown == Spec => []QuietAfterShutdown
<1>1. Types /\ Fresh /\ DownInv => QuietAfterShutdown
  <2> SUFFICES ASSUME Types, Fresh, DownInv, down \in {"drain", "down"}, SOFT_MAX_DISPATCH = 1,
                      NEW t \in Threads
               PROVE  thread[t] \in {"none", "gone"}
    BY DEF QuietAfterShutdown
  <2>1. CASE t = 0
    BY <2>1 DEF DownInv
  <2>2. CASE t # 0
    BY <2>2 DEF Fresh, Threads
  <2> QED
    BY <2>1, <2>2
<1> QED
  BY <1>1, AlwaysTypes, AlwaysFresh, AlwaysDown, PTL

-----------------------------------------------------------------------------
(* Every event is in one place, and events stay in the order of the queue. *)

Pushed(e) == \E k \in 1 .. Len(pushed) : pushed[k] = e
Before(p, a, b) == \E k, l \in 1 .. Len(p) : k < l /\ p[k] = a /\ p[l] = b

\* A thread that has an event to deliver.
Holds(t) == thread[t] \in {"deliver", "walk", "call"}

\* An event comes into the queue once, and only from the queue to threads and nodes.
Known ==
    /\ \A e \in Events : Pushed(e) => fire[e] = "queued"
    /\ \A e \in Events : InQueue(e) => Pushed(e)
    /\ \A n \in Nodes, e \in Events : Got(n, e) => Pushed(e)
    /\ \A t \in Threads : Holds(t) => Pushed(event[t])

QueueOrder ==
    \A i, j \in 1 .. Len(queue) :
        i < j /\ queue[i] # NoEvent /\ queue[j] # NoEvent =>
            queue[i] # queue[j] /\ Before(pushed, queue[i], queue[j])

\* The queue, or one thread, or no longer there.
OnePlace ==
    /\ \A t \in Threads : Holds(t) => ~InQueue(event[t])
    /\ \A s, t \in Threads : s # t /\ Holds(s) /\ Holds(t) => event[s] # event[t]
    /\ \A n \in Nodes, e \in Events : Got(n, e) => ~InQueue(e)

\* A node that a thread has still to visit has not got the thread's event.
NotYet ==
    \A t \in Threads, n \in Nodes : Holds(t) /\ Got(n, event[t]) =>
        /\ thread[t] # "deliver"
        /\ n \in todo[t] => thread[t] = "call" /\ node[t] = n

\* With one thread: what nodes have got was pushed before what the thread holds, and
\* that before what is in the queue.
Ahead ==
    SOFT_MAX_DISPATCH = 1 =>
        /\ \A n \in Nodes, e, f \in Events : Got(n, e) /\ InQueue(f) => Before(pushed, e, f)
        /\ \A n \in Nodes, e \in Events, t \in Threads :
              Got(n, e) /\ Holds(t) => e = event[t] \/ Before(pushed, e, event[t])
        /\ \A t \in Threads, f \in Events : Holds(t) /\ InQueue(f) => Before(pushed, event[t], f)

\* OnceInOrder, in these terms.
InOrder ==
    \A n \in Nodes : \A i, j \in 1 .. Len(got[n]) : i < j =>
        /\ got[n][i] # got[n][j]
        /\ SOFT_MAX_DISPATCH = 1 => Before(pushed, got[n][i], got[n][j])

OrderInv == Known /\ QueueOrder /\ OnePlace /\ NotYet /\ Ahead /\ InOrder

\* An event that is pushed comes after all that were.
LEMMA PushedLast ==
    ASSUME pushed \in Seq(Events), NEW e \in Events, pushed' = Append(pushed, e)
    PROVE  /\ \A f : Pushed(f)' <=> Pushed(f) \/ f = e
           /\ \A a, b : Before(pushed, a, b) => Before(pushed', a, b)
           /\ \A a : Pushed(a) => Before(pushed', a, e)
<1>1. /\ Len(pushed) \in Nat /\ Len(pushed') = Len(pushed) + 1
      /\ \A i \in 1 .. Len(pushed) : pushed'[i] = pushed[i]
      /\ pushed'[Len(pushed) + 1] = e
  OBVIOUS
<1>2. ASSUME NEW f PROVE Pushed(f)' <=> Pushed(f) \/ f = e
  BY <1>1 DEF Pushed
<1>3. ASSUME NEW a, NEW b, Before(pushed, a, b) PROVE Before(pushed', a, b)
  BY <1>1, <1>3 DEF Before
<1>4. ASSUME NEW a, Pushed(a) PROVE Before(pushed', a, e)
  BY <1>1, <1>4 DEF Before, Pushed
<1> QED
  BY <1>2, <1>3, <1>4

LEMMA QueueAppend ==
    ASSUME queue \in Seq(Events \cup {NoEvent}), NEW e \in Events \cup {NoEvent},
           queue' = Append(queue, e)
    PROVE  /\ \A f : InQueue(f)' <=> InQueue(f) \/ f = e
           /\ Len(queue) \in Nat /\ Len(queue') = Len(queue) + 1
           /\ \A i \in 1 .. Len(queue) : queue'[i] = queue[i]
           /\ queue'[Len(queue) + 1] = e
<1>1. /\ Len(queue) \in Nat /\ Len(queue') = Len(queue) + 1
      /\ \A i \in 1 .. Len(queue) : queue'[i] = queue[i]
      /\ queue'[Len(queue) + 1] = e
  <2> DEFINE E == Events \cup {NoEvent}
  <2>1. queue \in Seq(E) /\ e \in E
    OBVIOUS
  <2> HIDE DEF E
  <2> QED
    BY <2>1
<1> QED
  BY <1>1 DEF InQueue

LEMMA QueueTail ==
    ASSUME queue \in Seq(Events \cup {NoEvent}), queue # <<>>, queue' = Tail(queue)
    PROVE  /\ Len(queue) \in Nat /\ Len(queue) > 0 /\ Len(queue') = Len(queue) - 1
           /\ \A i \in 1 .. Len(queue') : queue'[i] = queue[i + 1]
           /\ queue[1] = Head(queue)
           /\ InQueue(Head(queue)) /\ \A f : InQueue(f)' => InQueue(f)
<1>1. /\ Len(queue) \in Nat /\ Len(queue) > 0 /\ Len(queue') = Len(queue) - 1
      /\ \A i \in 1 .. Len(queue') : queue'[i] = queue[i + 1]
      /\ queue[1] = Head(queue)
  <2> DEFINE E == Events \cup {NoEvent}
  <2>1. queue \in Seq(E)
    OBVIOUS
  <2> HIDE DEF E
  <2> QED
    BY <2>1
<1> QED
  BY <1>1 DEF InQueue

\* The rest of the queue keeps its order, and comes after the first event.
LEMMA TailOrder ==
    ASSUME Types, QueueOrder, queue # <<>>, queue' = Tail(queue), pushed' = pushed
    PROVE  /\ QueueOrder'
           /\ \A f \in Events : Head(queue) # NoEvent /\ InQueue(f)' =>
                 f # Head(queue) /\ Before(pushed, Head(queue), f)
<1>1. /\ Len(queue) \in Nat /\ Len(queue) > 0 /\ Len(queue') = Len(queue) - 1
      /\ \A i \in 1 .. Len(queue') : queue'[i] = queue[i + 1]
      /\ queue[1] = Head(queue)
  BY QueueTail DEF Types
<1>2. QueueOrder'
  <2> SUFFICES ASSUME NEW i \in 1 .. Len(queue'), NEW j \in 1 .. Len(queue'), i < j,
                      queue'[i] # NoEvent, queue'[j] # NoEvent
               PROVE  queue'[i] # queue'[j] /\ Before(pushed, queue'[i], queue'[j])
    BY DEF QueueOrder
  <2>1. i + 1 \in 1 .. Len(queue) /\ j + 1 \in 1 .. Len(queue) /\ i + 1 < j + 1
    BY <1>1
  <2> QED
    BY <1>1, <2>1 DEF QueueOrder
<1>3. ASSUME NEW f \in Events, Head(queue) # NoEvent, InQueue(f)'
      PROVE  f # Head(queue) /\ Before(pushed, Head(queue), f)
  <2>1. PICK i \in 1 .. Len(queue') : queue'[i] = f
    BY <1>3 DEF InQueue
  <2>2. 1 \in 1 .. Len(queue) /\ i + 1 \in 1 .. Len(queue) /\ 1 < i + 1 /\ queue[i + 1] = f
    BY <1>1, <2>1
  <2>3. f # NoEvent
    BY EventAssumption
  <2> QED
    BY <1>1, <1>3, <2>2, <2>3 DEF QueueOrder
<1> QED
  BY <1>2, <1>3

\* Steps in which no event comes into the queue, leaves it for a thread, or is got.
LEMMA CalmStep ==
    ASSUME Types, OrderInv, UNCHANGED <<pushed, got>>,
           \A e \in Events : fire[e] = "queued" => fire'[e] = "queued",
           QueueOrder', \A f \in Events : InQueue(f)' => InQueue(f),
           SOFT_MAX_DISPATCH' = 1 => SOFT_MAX_DISPATCH = 1,
           \A t \in Threads : Holds(t)' =>
               /\ Holds(t) /\ event'[t] = event[t]
               /\ thread'[t] = "deliver" => thread[t] = "deliver"
               /\ \A n \in todo'[t] :
                     \/ n \in todo[t] /\ ~(thread[t] = "call" /\ node[t] = n)
                     \/ thread'[t] = "call" /\ node'[t] = n
                     \/ thread[t] = "deliver"
    PROVE  OrderInv'
<1>1. /\ \A e : Pushed(e)' <=> Pushed(e)
      /\ \A a, b : Before(pushed', a, b) <=> Before(pushed, a, b)
      /\ \A n \in Nodes : \A e : Got(n, e)' <=> Got(n, e)
  BY DEF Pushed, Before, Got
<1>2. \A t \in Threads : Holds(t) => event[t] \in Events
  BY DEF Types, Holds
<1>3. Known'
  BY <1>1, <1>2 DEF OrderInv, Known
<1>4. OnePlace'
  BY <1>1, <1>2 DEF OrderInv, OnePlace
<1>5. NotYet'
  BY <1>1, <1>2 DEF OrderInv, NotYet
<1>6. Ahead'
  BY <1>1, <1>2 DEF OrderInv, Ahead
<1>7. InOrder'
  BY DEF OrderInv, InOrder
<1> QED
  BY <1>3, <1>4, <1>5, <1>6, <1>7 DEF OrderInv

LEMMA PushOrder == ASSUME Types, OrderInv, NEW e \in Events, Push(e), Room PROVE OrderInv'
<1>0. /\ fire[e] \in {"push", "full"} /\ queue' = Append(queue, e) /\ pushed' = Append(pushed, e)
      /\ fire' = [fire EXCEPT ![e] = "queued"]
      /\ UNCHANGED <<thread, event, node, todo, got, SOFT_MAX_DISPATCH>>
  BY DEF Push, Queued, dispatchers
<1>1. /\ \A f : Pushed(f)' <=> Pushed(f) \/ f = e
      /\ \A a, b : Before(pushed, a, b) => Before(pushed', a, b)
      /\ \A a : Pushed(a) => Before(pushed', a, e)
  BY <1>0, PushedLast DEF Types
<1>2. /\ \A f : InQueue(f)' <=> InQueue(f) \/ f = e
      /\ Len(queue) \in Nat /\ Len(queue') = Len(queue) + 1
      /\ \A i \in 1 .. Len(queue) : queue'[i] = queue[i]
      /\ queue'[Len(queue) + 1] = e
  BY <1>0, QueueAppend DEF Types
<1>3. /\ \A n \in Nodes : \A f : Got(n, f)' <=> Got(n, f)
      /\ \A t \in Threads : Holds(t)' <=> Holds(t)
      /\ \A t \in Threads : Holds(t) => event[t] \in Events
  BY <1>0 DEF Got, Holds, Types
<1>4. ~Pushed(e)
  BY <1>0 DEF OrderInv, Known
<1>5. /\ \A n \in Nodes : ~Got(n, e)
      /\ ~InQueue(e)
      /\ \A t \in Threads : Holds(t) => event[t] # e
  BY <1>4 DEF OrderInv, Known
<1>6. Known'
  BY <1>0, <1>1, <1>2, <1>3 DEF OrderInv, Known, Types
<1>7. QueueOrder'
  <2> SUFFICES ASSUME NEW i \in 1 .. Len(queue'), NEW j \in 1 .. Len(queue'), i < j,
                      queue'[i] # NoEvent, queue'[j] # NoEvent
               PROVE  queue'[i] # queue'[j] /\ Before(pushed', queue'[i], queue'[j])
    BY DEF QueueOrder
  <2>1. i \in 1 .. Len(queue) /\ queue'[i] = queue[i]
    BY <1>2
  <2>2. CASE j \in 1 .. Len(queue)
    <3>1. queue'[j] = queue[j]
      BY <1>2, <2>2
    <3>2. queue[i] # queue[j] /\ Before(pushed, queue[i], queue[j])
      BY <2>1, <2>2, <3>1 DEF OrderInv, QueueOrder
    <3> QED
      BY <1>1, <2>1, <3>1, <3>2
  <2>3. CASE j = Len(queue) + 1
    <3>1. queue'[j] = e /\ InQueue(queue[i]) /\ queue[i] \in Events
      BY <1>2, <2>1, <2>3 DEF InQueue, Types
    <3>2. Pushed(queue[i]) /\ queue[i] # e
      BY <1>4, <3>1 DEF OrderInv, Known
    <3>3. Before(pushed', queue[i], e)
      BY <1>1, <3>2
    <3> QED
      BY <2>1, <3>1, <3>2, <3>3
  <2> QED
    BY <1>2, <2>2, <2>3
<1>8. OnePlace'
  BY <1>0, <1>2, <1>3, <1>5 DEF OrderInv, OnePlace
<1>9. NotYet'
  BY <1>0, <1>3 DEF OrderInv, NotYet
<1>10. Ahead'
  BY <1>0, <1>1, <1>2, <1>3 DEF OrderInv, Ahead, Known
<1>11. InOrder'
  <2> SUFFICES ASSUME NEW n \in Nodes, NEW i \in 1 .. Len(got[n]), NEW j \in 1 .. Len(got[n]), i < j
               PROVE  /\ got[n][i] # got[n][j]
                      /\ SOFT_MAX_DISPATCH = 1 => Before(pushed', got[n][i], got[n][j])
    BY <1>0 DEF InOrder
  <2>1. got[n][i] # got[n][j] /\ (SOFT_MAX_DISPATCH = 1 => Before(pushed, got[n][i], got[n][j]))
    BY DEF OrderInv, InOrder
  <2> QED
    BY <1>1, <2>1
<1> QED
  BY <1>6, <1>7, <1>8, <1>9, <1>10, <1>11 DEF OrderInv

LEMMA PopOrder ==
    ASSUME Types, OrderInv, NEW t \in Threads, Pop(t), Others, queue # <<>>, Head(queue) # NoEvent
    PROVE  OrderInv'
<1>1. PICK e \in Events : e = Head(queue)
  BY QueueOps DEF Types
<1>0. /\ thread[t] \in {"pop", "wait"} /\ queue' = Tail(queue)
      /\ event' = [event EXCEPT ![t] = e] /\ thread' = [thread EXCEPT ![t] = "deliver"]
      /\ UNCHANGED <<node, todo, got, pushed, fire, SOFT_MAX_DISPATCH>>
  BY <1>1 DEF Pop, Goto, Others, firers
<1>2. InQueue(e) /\ \A f : InQueue(f)' => InQueue(f)
  BY <1>0, <1>1, QueueTail DEF Types
<1>3. QueueOrder' /\ \A f \in Events : InQueue(f)' => f # e /\ Before(pushed, e, f)
  BY <1>0, <1>1, TailOrder DEF OrderInv
<1>4. /\ ~Holds(t) /\ Holds(t)' /\ event'[t] = e
      /\ \A s \in Threads : s # t => /\ Holds(s)' <=> Holds(s)
                                     /\ event'[s] = event[s] /\ thread'[s] = thread[s]
      /\ \A s \in Threads : Holds(s) => event[s] \in Events
  BY <1>0 DEF Holds, Types
<1>5. \A f : Pushed(f)' <=> Pushed(f)
  BY <1>0 DEF Pushed
<1>6. \A n \in Nodes : \A f : Got(n, f)' <=> Got(n, f)
  BY <1>0 DEF Got
<1>7. Known'
  <2>1. Pushed(e)
    BY <1>1, <1>2 DEF OrderInv, Known
  <2>2. ASSUME NEW s \in Threads, Holds(s)' PROVE Pushed(event'[s])
    BY <1>4, <2>1, <2>2 DEF OrderInv, Known
  <2>3. \A s \in Threads : Holds(s)' => Pushed(event[s])'
    BY <1>0, <2>2 DEF Pushed
  <2> QED
    BY <1>0, <1>2, <1>5, <1>6, <2>3 DEF OrderInv, Known
<1>8. OnePlace'
  <2>1. ASSUME NEW s \in Threads, Holds(s)' PROVE ~InQueue(event[s])'
    <3>1. CASE s = t
      <4>1. ~InQueue(e)'
        BY <1>1, <1>3
      <4> QED
        BY <1>4, <3>1, <4>1 DEF InQueue
    <3>2. CASE s # t
      <4>1. ~InQueue(event[s]) /\ event'[s] = event[s]
        BY <1>4, <2>1, <3>2 DEF OrderInv, OnePlace
      <4> QED
        BY <1>2, <4>1 DEF InQueue
    <3> QED
      BY <3>1, <3>2
  <2>2. ASSUME NEW s \in Threads, s # t, Holds(s)' PROVE event'[s] # e
    BY <1>2, <1>4, <2>2 DEF OrderInv, OnePlace
  <2>3. ASSUME NEW r \in Threads, NEW s \in Threads, r # s, Holds(r)', Holds(s)'
        PROVE  event'[r] # event'[s]
    BY <1>4, <2>2, <2>3 DEF OrderInv, OnePlace
  <2> QED
    BY <1>2, <1>6, <2>1, <2>3 DEF OrderInv, OnePlace
<1>9. NotYet'
  <2>1. \A n \in Nodes : ~Got(n, e)
    BY <1>1, <1>2 DEF OrderInv, OnePlace
  <2>2. \A n \in Nodes, s \in Threads : Got(n, event[s])' <=> Got(n, event'[s])
    BY <1>0 DEF Got
  <2> QED
    BY <1>0, <1>4, <2>1, <2>2 DEF OrderInv, NotYet
<1>10. Ahead'
  <2> SUFFICES ASSUME SOFT_MAX_DISPATCH = 1
               PROVE  /\ \A n \in Nodes, g, f \in Events : Got(n, g)' /\ InQueue(f)' => Before(pushed, g, f)
                      /\ \A n \in Nodes, g \in Events, s \in Threads :
                            Got(n, g)' /\ Holds(s)' => g = event'[s] \/ Before(pushed, g, event'[s])
                      /\ \A s \in Threads, f \in Events :
                            Holds(s)' /\ InQueue(f)' => Before(pushed, event'[s], f)
    BY <1>0 DEF Ahead
  <2>1. Ahead
    BY DEF OrderInv
  <2>2. \A n \in Nodes, g, f \in Events : Got(n, g)' /\ InQueue(f)' => Before(pushed, g, f)
    BY <1>2, <1>6, <2>1 DEF Ahead
  <2>3. ASSUME NEW n \in Nodes, NEW g \in Events, NEW s \in Threads, Got(n, g)', Holds(s)'
        PROVE  g = event'[s] \/ Before(pushed, g, event'[s])
    BY <1>1, <1>2, <1>4, <1>6, <2>1, <2>3 DEF Ahead
  <2>4. ASSUME NEW s \in Threads, NEW f \in Events, Holds(s)', InQueue(f)'
        PROVE  Before(pushed, event'[s], f)
    BY <1>2, <1>3, <1>4, <2>1, <2>4 DEF Ahead
  <2> QED
    BY <2>2, <2>3, <2>4
<1>11. InOrder'
  BY <1>0 DEF OrderInv, InOrder
<1> QED
  BY <1>3, <1>7, <1>8, <1>9, <1>10, <1>11 DEF OrderInv

LEMMA CallOrder ==
    ASSUME Types, Fresh, OrderInv, NEW t \in Threads, NEW n \in Nodes, Call(t, n), Others
    PROVE  OrderInv'
<1>1. PICK e \in Events : e = event[t]
  BY DEF Call, Types
<1>0. /\ thread[t] = "walk" /\ n \in todo[t] /\ thread' = [thread EXCEPT ![t] = "call"]
      /\ node' = [node EXCEPT ![t] = n] /\ got' = [got EXCEPT ![n] = Append(got[n], e)]
      /\ UNCHANGED <<event, todo, queue, pushed, fire, SOFT_MAX_DISPATCH>>
  BY <1>1 DEF Call, Goto, Others, firers
<1>14. Holds(t)
  BY <1>0 DEF Holds
<1>2. /\ got[n] \in Seq(Events) /\ Len(got[n]) \in Nat
      /\ got'[n] = Append(got[n], e) /\ \A m \in Nodes : m # n => got'[m] = got[m]
  BY <1>0 DEF Types
<1>3. /\ Len(got'[n]) = Len(got[n]) + 1
      /\ \A i \in 1 .. Len(got[n]) : got'[n][i] = got[n][i] /\ got[n][i] \in Events
      /\ got'[n][Len(got[n]) + 1] = e
  BY <1>1, <1>2
<1>4. \A m \in Nodes : \A f : Got(m, f)' <=> Got(m, f) \/ (m = n /\ f = e)
  <2>1. ASSUME NEW f PROVE Got(n, f)' <=> Got(n, f) \/ f = e
    BY <1>2, <1>3 DEF Got
  <2>2. ASSUME NEW f, NEW m \in Nodes, m # n PROVE Got(m, f)' <=> Got(m, f)
    BY <1>2, <2>2 DEF Got
  <2> QED
    BY <2>1, <2>2
<1>5. /\ \A s \in Threads : Holds(s)' <=> Holds(s)
      /\ \A s \in Threads : s # t => thread'[s] = thread[s] /\ node'[s] = node[s]
      /\ thread'[t] = "call" /\ node'[t] = n
      /\ \A s \in Threads : Holds(s) => event[s] \in Events
  BY <1>0 DEF Holds, Types
<1>6. (\A f : Pushed(f)' <=> Pushed(f)) /\ (\A f : InQueue(f)' <=> InQueue(f))
  BY <1>0 DEF Pushed, InQueue
<1>7. ~Got(n, e)
  BY <1>0, <1>1, <1>14 DEF OrderInv, NotYet
<1>8. Known'
  <2>1. Pushed(e) /\ \A s \in Threads : Holds(s)' => Pushed(event'[s])
    BY <1>0, <1>1, <1>5, <1>14 DEF OrderInv, Known
  <2>2. \A s \in Threads : Holds(s)' => Pushed(event[s])'
    BY <1>0, <2>1 DEF Pushed
  <2> QED
    BY <1>0, <1>4, <1>6, <2>1, <2>2 DEF OrderInv, Known
<1>9. QueueOrder'
  BY <1>0 DEF OrderInv, QueueOrder
<1>10. OnePlace'
  <2>1. ~InQueue(e)
    BY <1>1, <1>14 DEF OrderInv, OnePlace
  <2>2. \A s \in Threads : InQueue(event[s])' <=> InQueue(event[s])
    BY <1>0 DEF InQueue
  <2> QED
    BY <1>0, <1>4, <1>5, <1>6, <2>1, <2>2 DEF OrderInv, OnePlace
<1>11. NotYet'
  <2>1. \A s \in Threads : s # t /\ Holds(s) => event[s] # e
    BY <1>1, <1>14 DEF OrderInv, OnePlace
  <2>2. ASSUME NEW m \in Nodes, NEW s \in Threads
        PROVE  Got(m, event[s])' <=> Got(m, event[s]) \/ (m = n /\ event[s] = e)
    <3>1. PICK f : f = event[s]
      OBVIOUS
    <3>2. Got(m, event[s])' <=> Got(m, f)'
      BY <1>0, <3>1 DEF Got
    <3> QED
      BY <1>4, <3>1, <3>2
  <2> QED
    BY <1>0, <1>5, <2>1, <2>2 DEF OrderInv, NotYet
<1>12. Ahead'
  <2> SUFFICES ASSUME SOFT_MAX_DISPATCH = 1
               PROVE  /\ \A m \in Nodes, g, f \in Events : Got(m, g)' /\ InQueue(f) => Before(pushed, g, f)
                      /\ \A m \in Nodes, g \in Events, s \in Threads :
                            Got(m, g)' /\ Holds(s) => g = event[s] \/ Before(pushed, g, event[s])
                      /\ \A s \in Threads, f \in Events :
                            Holds(s) /\ InQueue(f) => Before(pushed, event[s], f)
    BY <1>0, <1>5, <1>6 DEF Ahead
  <2>1. Ahead
    BY DEF OrderInv
  <2>2. \A s \in Threads : Holds(s) => s = t
    BY <1>14 DEF Fresh, Holds, Threads
  <2>3. \A m \in Nodes, g, f \in Events : Got(m, g)' /\ InQueue(f) => Before(pushed, g, f)
    BY <1>1, <1>4, <1>14, <2>1 DEF Ahead
  <2>4. \A m \in Nodes, g \in Events, s \in Threads :
            Got(m, g)' /\ Holds(s) => g = event[s] \/ Before(pushed, g, event[s])
    BY <1>1, <1>4, <2>1, <2>2 DEF Ahead
  <2> QED
    BY <2>1, <2>3, <2>4 DEF Ahead
<1>13. InOrder'
  <2> SUFFICES ASSUME NEW m \in Nodes, NEW i \in 1 .. Len(got'[m]), NEW j \in 1 .. Len(got'[m]), i < j
               PROVE  /\ got'[m][i] # got'[m][j]
                      /\ SOFT_MAX_DISPATCH = 1 => Before(pushed, got'[m][i], got'[m][j])
    BY <1>0 DEF InOrder
  <2>1. InOrder
    BY DEF OrderInv
  <2>2. CASE m # n
    BY <1>2, <2>1, <2>2 DEF InOrder
  <2>3. CASE m = n /\ j \in 1 .. Len(got[n])
    <3>1. i \in 1 .. Len(got[n]) /\ got'[n][i] = got[n][i] /\ got'[n][j] = got[n][j]
      BY <1>2, <1>3, <2>3
    <3> QED
      BY <2>1, <2>3, <3>1 DEF InOrder
  <2>4. CASE m = n /\ j = Len(got[n]) + 1
    <3>1. i \in 1 .. Len(got[n]) /\ got'[n][i] = got[n][i] /\ got'[n][j] = e /\ got[n][i] \in Events
      BY <1>2, <1>3, <2>4
    <3>2. Got(n, got[n][i])
      BY <3>1 DEF Got
    <3>3. got[n][i] # e
      BY <1>7, <3>2
    <3>4. SOFT_MAX_DISPATCH = 1 => Before(pushed, got[n][i], e)
      BY <1>1, <1>14, <3>1, <3>2, <3>3 DEF OrderInv, Ahead
    <3> QED
      BY <2>4, <3>1, <3>3, <3>4
  <2> QED
    BY <1>2, <1>3, <2>2, <2>3, <2>4
<1> QED
  BY <1>8, <1>9, <1>10, <1>11, <1>12, <1>13 DEF OrderInv

LEMMA StepOrder == ASSUME Types, Fresh, ReadInv, OrderInv, [Next]_vars PROVE OrderInv'
<1>0. /\ QueueOrder /\ SOFT_MAX_DISPATCH \in Nat
      /\ \A t \in Threads : (node[t] # NoNode => thread[t] = "call")
      /\ NoNode \notin Nodes /\ todo \in [Threads -> SUBSET Nodes]
      /\ \A t \in Threads : \A n \in todo[t] : n \in Nodes
  BY EventAssumption DEF OrderInv, ReadInv, Types
<1>00. ASSUME UNCHANGED <<queue, pushed>>
       PROVE  QueueOrder' /\ \A f \in Events : InQueue(f)' => InQueue(f)
  BY <1>0, <1>00 DEF QueueOrder, InQueue
<1>01. ASSUME NEW t \in Threads, UNCHANGED <<queue, got, event, node, todo>>, Others,
              \A s \in Threads : s # t => thread'[s] = thread[s], ~Holds(t)'
       PROVE  OrderInv'
  <2>1. \A s \in Threads : Holds(s)' => s # t /\ Holds(s) /\ thread'[s] = thread[s]
    BY <1>01 DEF Holds
  <2>2. UNCHANGED <<pushed, fire, SOFT_MAX_DISPATCH>>
    BY <1>01 DEF Others, firers
  <2> QED
    BY <1>00, <1>01, <2>1, <2>2, CalmStep
<1>02. ASSUME UNCHANGED <<thread, event, node, todo, got, pushed, SOFT_MAX_DISPATCH>>,
              \A e \in Events : fire[e] = "queued" => fire'[e] = "queued",
              QueueOrder', \A f \in Events : InQueue(f)' => InQueue(f)
       PROVE  OrderInv'
  <2>1. \A s \in Threads : Holds(s)' => Holds(s)
    BY <1>02 DEF Holds
  <2> QED
    BY <1>02, <2>1, CalmStep
<1>03. ASSUME UNCHANGED <<thread, event, node, todo, got, pushed, queue, SOFT_MAX_DISPATCH>>,
              \A e \in Events : fire[e] = "queued" => fire'[e] = "queued"
       PROVE  OrderInv'
  BY <1>00, <1>02, <1>03
<1>1. ASSUME NEW e \in Events, Fire(e) PROVE OrderInv'
  BY <1>1, <1>03 DEF Fire, dispatchers, Types
<1>2. ASSUME NEW e \in Events, Push(e) PROVE OrderInv'
  <2>1. CASE Room
    BY <1>2, <2>1, PushOrder
  <2>2. CASE ~Room
    BY <1>2, <1>03, <2>2 DEF Push, dispatchers, Types
  <2> QED
    BY <2>1, <2>2
<1>3. ASSUME NEW e \in Events, PushLoses(e) PROVE OrderInv'
  BY <1>3, <1>03 DEF PushLoses, dispatchers, Types
<1>4. ASSUME Launch PROVE OrderInv'
  <2>1. \A s \in Threads : Holds(s)' => Holds(s) /\ thread'[s] = thread[s]
    BY <1>4 DEF Launch, Goto, Holds, Types
  <2>2. SOFT_MAX_DISPATCH' # 1
    BY <1>4 DEF Launch, Types
  <2>3. UNCHANGED <<pushed, fire, got, event, node, todo, queue>>
    BY <1>4 DEF Launch, firers
  <2> QED
    BY <1>00, <2>1, <2>2, <2>3, CalmStep
<1>5. ASSUME NEW t \in Threads, ThreadStarts(t), Others PROVE OrderInv'
  BY <1>5, <1>01 DEF ThreadStarts, Goto, Holds, Types
<1>6. ASSUME NEW t \in Threads, Check(t), Others PROVE OrderInv'
  BY <1>6, <1>01 DEF Check, Goto, Holds, Types
<1>7. ASSUME NEW t \in Threads, Pop(t), Others PROVE OrderInv'
  <2>1. CASE queue = <<>>
    BY <1>7, <1>01, <2>1 DEF Pop, Goto, Holds, Types
  <2>2. CASE queue # <<>> /\ Head(queue) # NoEvent
    BY <1>7, <2>2, PopOrder
  <2>3. CASE queue # <<>> /\ Head(queue) = NoEvent
    <3>1. /\ queue' = Tail(queue) /\ thread' = [thread EXCEPT ![t] = "end"]
          /\ event' = [event EXCEPT ![t] = NoEvent]
          /\ UNCHANGED <<node, todo, got, pushed, fire, SOFT_MAX_DISPATCH>>
      BY <1>7, <2>3 DEF Pop, Goto, Others, firers
    <3>2. QueueOrder' /\ \A f \in Events : InQueue(f)' => InQueue(f)
      BY <1>0, <2>3, <3>1, TailOrder, QueueTail DEF Types
    <3>3. \A s \in Threads : Holds(s)' => Holds(s) /\ thread'[s] = thread[s] /\ event'[s] = event[s]
      BY <3>1 DEF Holds, Types
    <3> QED
      BY <3>1, <3>2, <3>3, CalmStep
  <2> QED
    BY <2>1, <2>2, <2>3
<1>8. ASSUME NEW t \in Threads, PopFails(t), Others PROVE OrderInv'
  BY <1>8, <1>01 DEF PopFails, Goto, Holds, Types
<1>9. ASSUME NEW t \in Threads, Deliver(t), Others PROVE OrderInv'
  <2>1. UNCHANGED <<pushed, fire, got, node, queue, SOFT_MAX_DISPATCH>>
    BY <1>9 DEF Deliver, Others, firers
  <2>2. ASSUME NEW s \in Threads, Holds(s)'
        PROVE  /\ Holds(s) /\ event'[s] = event[s]
               /\ thread'[s] = "deliver" => thread[s] = "deliver"
               /\ \/ todo'[s] = todo[s] /\ thread'[s] = thread[s]
                  \/ thread[s] = "deliver"
    BY <1>9, <2>2 DEF Deliver, Goto, Holds, Types
  <2> QED
    BY <1>0, <1>00, <2>1, <2>2, CalmStep
<1>10. ASSUME NEW t \in Threads, NEW n \in Nodes, Call(t, n), Others PROVE OrderInv'
  BY <1>10, CallOrder
<1>11. ASSUME NEW t \in Threads, CallReturns(t), Others PROVE OrderInv'
  <2>1. UNCHANGED <<pushed, fire, got, event, queue, SOFT_MAX_DISPATCH>>
    BY <1>11 DEF CallReturns, Others, firers
  <2>2. /\ thread[t] = "call" /\ thread' = [thread EXCEPT ![t] = "walk"]
        /\ node' = [node EXCEPT ![t] = NoNode]
        /\ todo' = [todo EXCEPT ![t] = todo[t] \ {node[t]}]
    BY <1>11 DEF CallReturns, Goto, Remaining
  <2>3. \A s \in Threads : s # t =>
            thread'[s] = thread[s] /\ node'[s] = node[s] /\ todo'[s] = todo[s]
    BY <2>2 DEF Types
  <2>4. thread'[t] = "walk" /\ todo'[t] = todo[t] \ {node[t]} /\ Holds(t)
    BY <2>2 DEF Types, Holds
  <2>5. ASSUME NEW s \in Threads, Holds(s)'
        PROVE  /\ Holds(s) /\ event'[s] = event[s]
               /\ thread'[s] = "deliver" => thread[s] = "deliver"
               /\ \A n \in todo'[s] : \/ n \in todo[s] /\ ~(thread[s] = "call" /\ node[s] = n)
                                      \/ thread'[s] = "call" /\ node'[s] = n
    BY <1>0, <2>1, <2>3, <2>4, <2>5 DEF Holds
  <2> QED
    BY <1>00, <2>1, <2>4, <2>5, CalmStep
<1>12. ASSUME NEW t \in Threads, WalkEnds(t), Others PROVE OrderInv'
  <2>1. UNCHANGED <<pushed, fire, got, node, todo, queue, SOFT_MAX_DISPATCH>>
    BY <1>12 DEF WalkEnds, Others, firers
  <2>2. \A s \in Threads : Holds(s)' => Holds(s) /\ thread'[s] = thread[s] /\ event'[s] = event[s]
    BY <1>12 DEF WalkEnds, Goto, Holds, Types
  <2> QED
    BY <1>00, <2>1, <2>2, CalmStep
<1>13. ASSUME NEW t \in Threads, ThreadEnds(t), Others PROVE OrderInv'
  BY <1>13, <1>01 DEF ThreadEnds, Goto, Holds, Types
<1>14. ASSUME NEW n \in Nodes, Bind(n) PROVE OrderInv'
  BY <1>14, <1>03 DEF Bind, firers, dispatchers
<1>15. ASSUME NEW S \in SUBSET Nodes, Unlink(S),
             UNCHANGED <<firers, dispatchers, stopper, queue, SOFT_MAX_DISPATCH, bounds>>
      PROVE  OrderInv'
  BY <1>15, <1>03 DEF firers, dispatchers
<1>16. ASSUME Stop PROVE OrderInv'
  BY <1>16, <1>03 DEF Stop, firers, dispatchers
<1>17. ASSUME PushNull PROVE OrderInv'
  <2>1. UNCHANGED <<thread, event, node, todo, got, fire, pushed, SOFT_MAX_DISPATCH>>
    BY <1>17 DEF PushNull, firers, dispatchers
  <2>2. CASE UNCHANGED queue
    BY <1>03, <2>1, <2>2
  <2>3. CASE queue' = Append(queue, NoEvent)
    <3>1. /\ \A f : InQueue(f)' <=> InQueue(f) \/ f = NoEvent
          /\ Len(queue) \in Nat /\ Len(queue') = Len(queue) + 1
          /\ \A i \in 1 .. Len(queue) : queue'[i] = queue[i]
          /\ queue'[Len(queue) + 1] = NoEvent
      BY <2>3, QueueAppend DEF Types
    <3>2. QueueOrder'
      BY <1>0, <2>1, <3>1 DEF QueueOrder
    <3>3. \A f \in Events : InQueue(f)' => InQueue(f)
      BY <3>1, EventAssumption
    <3> QED
      BY <1>02, <2>1, <3>2, <3>3
  <2> QED
    BY <1>17, <2>2, <2>3 DEF PushNull, Trypush, Queued
<1>18. ASSUME Interrupt PROVE OrderInv'
  <2>1. UNCHANGED <<pushed, got, event, node, todo, queue, SOFT_MAX_DISPATCH>>
    BY <1>18 DEF Interrupt
  <2>2. \A s \in Threads : Holds(s)' => Holds(s) /\ thread'[s] = thread[s]
    BY <1>18 DEF Interrupt, Holds, Types
  <2>3. \A e \in Events : fire[e] = "queued" => fire'[e] = "queued"
    BY <1>18 DEF Interrupt, Types
  <2> QED
    BY <1>00, <2>1, <2>2, <2>3, CalmStep
<1>19. ASSUME Join PROVE OrderInv'
  BY <1>19, <1>03 DEF Join, firers, dispatchers
<1>20. ASSUME Linger PROVE OrderInv'
  BY <1>20, <1>03 DEF Linger, firers, dispatchers
<1>21. ASSUME Drain PROVE OrderInv'
  <2>1. UNCHANGED <<thread, event, node, todo, got, fire, pushed, SOFT_MAX_DISPATCH>>
    BY <1>21 DEF Drain, firers, dispatchers
  <2>2. CASE queue = <<>>
    BY <1>03, <1>21, <2>1, <2>2 DEF Drain
  <2>3. CASE queue # <<>>
    <3>1. queue' = Tail(queue)
      BY <1>21, <2>3 DEF Drain
    <3>2. QueueOrder' /\ \A f \in Events : InQueue(f)' => InQueue(f)
      BY <1>0, <2>1, <2>3, <3>1, TailOrder, QueueTail DEF Types
    <3> QED
      BY <1>02, <2>1, <3>2
  <2> QED
    BY <2>2, <2>3
<1>22. ASSUME UNCHANGED vars PROVE OrderInv'
  BY <1>22, <1>03 DEF vars, firers, dispatchers
<1> QED
  BY <1>1, <1>2, <1>3, <1>4, <1>5, <1>6, <1>7, <1>8, <1>9, <1>10, <1>11,
     <1>12, <1>13, <1>14, <1>15, <1>16, <1>17, <1>18, <1>19, <1>20, <1>21, <1>22, UnlinkSome
  DEF Next, DispatchStep, Spurious, ShutdownStep, Others

\* Whatever threads fire, dispatch, bind, unbind and shut down: no callback is called
\* twice with an event, and with the one thread of the core callbacks get events in
\* the order in which they were queued.
THEOREM EventsOnceInOrder == Spec => []OnceInOrder
<1>1. Init => OrderInv
  <2> SUFFICES ASSUME Init PROVE OrderInv
    OBVIOUS
  <2>1. /\ \A e : ~Pushed(e) /\ ~InQueue(e)
        /\ \A n \in Nodes : Len(got[n]) = 0 /\ \A e : ~Got(n, e)
        /\ \A t \in Threads : ~Holds(t)
    BY DEF Init, Pushed, InQueue, Got, Holds
  <2>2. Len(queue) = 0
    BY DEF Init
  <2> QED
    BY <2>1, <2>2 DEF OrderInv, Known, QueueOrder, OnePlace, NotYet, Ahead, InOrder
<1>2. Types /\ Fresh /\ ReadInv /\ OrderInv /\ [Next]_vars => OrderInv'
  BY StepOrder
<1>3. OrderInv => OnceInOrder
  <2> SUFFICES ASSUME OrderInv, NEW n \in Nodes, NEW i \in 1 .. Len(got[n]),
                      NEW j \in 1 .. Len(got[n]), i < j
               PROVE  /\ got[n][i] # got[n][j]
                      /\ SOFT_MAX_DISPATCH = 1 =>
                            \E k, l \in 1 .. Len(pushed) :
                                k < l /\ pushed[k] = got[n][i] /\ pushed[l] = got[n][j]
    BY DEF OnceInOrder
  <2>1. got[n][i] # got[n][j] /\ (SOFT_MAX_DISPATCH = 1 => Before(pushed, got[n][i], got[n][j]))
    BY DEF OrderInv, InOrder
  <2> QED
    BY <2>1, Zenon DEF Before
<1> QED
  BY <1>1, <1>2, <1>3, AlwaysTypes, AlwaysFresh, AlwaysRead, PTL DEF Spec

=============================================================================
