--------------------------- MODULE EventDispatch ---------------------------
(***************************************************************************)
(* The event system of switch_event.c: threads fire events into a bounded  *)
(* queue, dispatch threads take them out and call the callbacks of the     *)
(* nodes that are bound, clients bind and unbind nodes, and one thread     *)
(* shuts the system down.                                                  *)
(*                                                                         *)
(* Callbacks run under the read lock of RWLOCK, and lists of nodes change  *)
(* under its write lock: such a change is one step that waits for readers. *)
(* The conditions under which a firing thread would launch another         *)
(* dispatch thread exclude each other (lines 365 and 374), so it never     *)
(* does; the configuration launches them.                                  *)
(***************************************************************************)
EXTENDS Naturals, Sequences, FiniteSets

CONSTANTS
    Events,        \* events, each fired once by a thread of its own
    Nodes,         \* bindings, each made and removed once
    Wants,         \* the events that match a node
    Callback,      \* the callback of a node
    MAX_DISPATCH,  \* the most dispatch threads
    QueueLens,     \* lengths the dispatch queue is created with
    NoEvent, NoNode

ASSUME EventAssumption ==
    /\ Wants \in [Nodes -> SUBSET Events]
    /\ MAX_DISPATCH \in Nat \ {0} /\ QueueLens \subseteq Nat \ {0}
    /\ NoEvent \notin Events /\ NoNode \notin Nodes

Threads == 0 .. MAX_DISPATCH - 1

VARIABLES
    SYSTEM_RUNNING,
    queue, bounds,          \* EVENT_DISPATCH_QUEUE and its length
    DISPATCH_THREAD_COUNT,
    SOFT_MAX_DISPATCH,      \* how many threads were launched
    fire,                   \* where the thread that fires an event is
    thread, event, node,    \* a dispatch thread, its event, its callback
    todo,                   \* the nodes its event still has to visit
    binding,                \* the life of a node
    down, x,                \* the thread in switch_event_shutdown
    pushed, got             \* history: events in the queue, calls of a node

firers == <<fire, pushed>>
dispatchers == <<thread, event, node, todo, got, DISPATCH_THREAD_COUNT>>
stopper == <<SYSTEM_RUNNING, down, x>>
vars == <<firers, dispatchers, stopper, queue, bounds, SOFT_MAX_DISPATCH, binding>>

FireLabel == {"idle", "push", "full", "queued", "destroyed", "lost"}
ThreadLabel == {"none", "start", "check", "pop", "wait", "deliver", "walk", "call",
                "end", "gone"}
DownLabel == {"up", "push", "interrupt", "join", "joining", "linger", "drain", "down"}

TypeOK ==
    /\ SYSTEM_RUNNING \in BOOLEAN
    /\ queue \in Seq(Events \cup {NoEvent}) /\ Len(queue) <= bounds
    /\ bounds \in QueueLens
    /\ DISPATCH_THREAD_COUNT \in 0 .. MAX_DISPATCH
    /\ SOFT_MAX_DISPATCH \in 1 .. MAX_DISPATCH
    /\ fire \in [Events -> FireLabel]
    /\ thread \in [Threads -> ThreadLabel]
    /\ event \in [Threads -> Events \cup {NoEvent}]
    /\ node \in [Threads -> Nodes \cup {NoNode}]
    /\ todo \in [Threads -> SUBSET Nodes]
    /\ binding \in [Nodes -> {"new", "bound", "freed"}]
    /\ down \in DownLabel /\ x \in 0 .. MAX_DISPATCH
    /\ pushed \in Seq(Events)
    /\ got \in [Nodes -> Seq(Events)]

\* switch_event_init has launched the first thread and waited for it.
Init ==
    /\ SYSTEM_RUNNING = TRUE
    /\ queue = <<>> /\ bounds \in QueueLens
    /\ DISPATCH_THREAD_COUNT = 1 /\ SOFT_MAX_DISPATCH = 1
    /\ fire = [e \in Events |-> "idle"]
    /\ thread = [t \in Threads |-> IF t = 0 THEN "check" ELSE "none"]
    /\ event = [t \in Threads |-> NoEvent] /\ node = [t \in Threads |-> NoNode]
    /\ todo = [t \in Threads |-> {}]
    /\ binding = [n \in Nodes |-> "new"]
    /\ down = "up" /\ x = 0
    /\ pushed = <<>> /\ got = [n \in Nodes |-> <<>>]

Goto(t, l) == thread' = [thread EXCEPT ![t] = l]


Room == Len(queue) < bounds

-----------------------------------------------------------------------------
(* switch_event_fire, switch_event_queue_dispatch_event.                   *)

Fire(e) ==
    /\ fire[e] = "idle"
    /\ fire' = [fire EXCEPT ![e] = IF SYSTEM_RUNNING THEN "push" ELSE "destroyed"]
    /\ UNCHANGED <<pushed, dispatchers, stopper, queue, SOFT_MAX_DISPATCH, bounds, binding>>

\* Mutant of Queued: the queue is a stack.
QueuedFirst(e) == <<e>> \o queue

Queued(e) == Append(queue, e)

\* switch_queue_push waits once if the queue is full.
Push(e) ==
    /\ fire[e] \in {"push", "full"}
    /\ IF Room
          THEN /\ queue' = Queued(e)
               /\ pushed' = Append(pushed, e)
               /\ fire' = [fire EXCEPT ![e] = "queued"]
          ELSE /\ fire[e] = "push"
               /\ fire' = [fire EXCEPT ![e] = "full"]
               /\ UNCHANGED <<queue, pushed>>
    /\ UNCHANGED <<dispatchers, stopper, SOFT_MAX_DISPATCH, bounds, binding>>

\* It wakes up, the queue is full again, and nobody looks at its result.
PushLoses(e) ==
    /\ fire[e] = "full" /\ ~Room
    /\ fire' = [fire EXCEPT ![e] = "lost"]
    /\ UNCHANGED <<pushed, dispatchers, stopper, queue, SOFT_MAX_DISPATCH, bounds, binding>>

-----------------------------------------------------------------------------
(* switch_event_dispatch_thread, switch_event_deliver.                     *)

Launch ==
    /\ down = "up" /\ SOFT_MAX_DISPATCH < MAX_DISPATCH
    /\ Goto(SOFT_MAX_DISPATCH, "start")
    /\ SOFT_MAX_DISPATCH' = SOFT_MAX_DISPATCH + 1
    /\ UNCHANGED <<firers, event, node, todo, got, DISPATCH_THREAD_COUNT, stopper, queue,
                   bounds, binding>>

\* switch_thread_create has put the thread into its place of the array before it
\* runs, so it finds itself there and never leaves with my_id = MAX_DISPATCH_VAL.
ThreadStarts(t) ==
    /\ thread[t] = "start"
    /\ Goto(t, "check")
    /\ DISPATCH_THREAD_COUNT' = DISPATCH_THREAD_COUNT + 1
    /\ UNCHANGED <<event, node, todo, got, queue>>

Check(t) ==
    /\ thread[t] = "check"
    /\ Goto(t, IF SYSTEM_RUNNING THEN "pop" ELSE "end")
    /\ UNCHANGED <<event, node, todo, got, DISPATCH_THREAD_COUNT, queue>>

\* A NULL from the queue ends the thread.
Pop(t) ==
    /\ thread[t] \in {"pop", "wait"}
    /\ IF queue # <<>>
          THEN /\ event' = [event EXCEPT ![t] = Head(queue)]
               /\ queue' = Tail(queue)
               /\ Goto(t, IF Head(queue) = NoEvent THEN "end" ELSE "deliver")
          ELSE /\ thread[t] = "pop"
               /\ Goto(t, "wait")
               /\ UNCHANGED <<event, queue>>
    /\ UNCHANGED <<node, todo, got, DISPATCH_THREAD_COUNT>>

\* The wait ends without an element: it was stolen, or without any reason.
PopFails(t) ==
    /\ thread[t] = "wait" /\ queue = <<>>
    /\ Goto(t, "check")
    /\ UNCHANGED <<event, node, todo, got, DISPATCH_THREAD_COUNT, queue>>

Matching(e) == {n \in Nodes : binding[n] = "bound" /\ e \in Wants[n]}

\* The read lock is taken: the nodes stay.
Deliver(t) ==
    /\ thread[t] = "deliver"
    /\ IF SYSTEM_RUNNING
          THEN /\ todo' = [todo EXCEPT ![t] = Matching(event[t])]
               /\ Goto(t, "walk")
               /\ UNCHANGED event
          ELSE /\ Goto(t, "check")
               /\ event' = [event EXCEPT ![t] = NoEvent]
               /\ UNCHANGED todo
    /\ UNCHANGED <<node, got, DISPATCH_THREAD_COUNT, queue>>

Call(t, n) ==
    /\ thread[t] = "walk" /\ n \in todo[t]
    /\ Goto(t, "call")
    /\ node' = [node EXCEPT ![t] = n]
    /\ got' = [got EXCEPT ![n] = Append(@, event[t])]
    /\ UNCHANGED <<event, todo, DISPATCH_THREAD_COUNT, queue>>

\* Mutant of Remaining: the first callback ends the walk.
RemainingNone(t) == {}

Remaining(t) == todo[t] \ {node[t]}

CallReturns(t) ==
    /\ thread[t] = "call"
    /\ Goto(t, "walk")
    /\ node' = [node EXCEPT ![t] = NoNode]
    /\ todo' = [todo EXCEPT ![t] = Remaining(t)]
    /\ UNCHANGED <<event, got, DISPATCH_THREAD_COUNT, queue>>

\* The read lock is released and the event destroyed.
WalkEnds(t) ==
    /\ thread[t] = "walk" /\ todo[t] = {}
    /\ Goto(t, "check")
    /\ event' = [event EXCEPT ![t] = NoEvent]
    /\ UNCHANGED <<node, todo, got, DISPATCH_THREAD_COUNT, queue>>

ThreadEnds(t) ==
    /\ thread[t] = "end"
    /\ Goto(t, "gone")
    /\ DISPATCH_THREAD_COUNT' = DISPATCH_THREAD_COUNT - 1
    /\ UNCHANGED <<event, node, todo, got, queue>>

DispatchStep(t) ==
    /\ \/ ThreadStarts(t) \/ Check(t) \/ Pop(t) \/ Deliver(t)
       \/ \E n \in Nodes : Call(t, n)
       \/ CallReturns(t) \/ WalkEnds(t) \/ ThreadEnds(t)
    /\ UNCHANGED <<firers, stopper, SOFT_MAX_DISPATCH, bounds, binding>>

-----------------------------------------------------------------------------
(* switch_event_bind_removable, switch_event_unbind(_callback).            *)

Readers == {t \in Threads : thread[t] \in {"walk", "call"}}

Bind(n) ==
    /\ binding[n] = "new" /\ Readers = {}
    /\ binding' = [binding EXCEPT ![n] = "bound"]
    /\ UNCHANGED <<firers, dispatchers, stopper, queue, SOFT_MAX_DISPATCH, bounds>>

\* Mutant of Unlink: does not wait for threads that read the lists.
UnlinkAtOnce(S) ==
    /\ S # {} /\ \A n \in S : binding[n] = "bound"
    /\ binding' = [n \in Nodes |-> IF n \in S THEN "freed" ELSE binding[n]]

\* The nodes of S leave their lists and are freed.
Unlink(S) ==
    /\ S # {} /\ \A n \in S : binding[n] = "bound"
    /\ Readers = {}
    /\ binding' = [n \in Nodes |-> IF n \in S THEN "freed" ELSE binding[n]]

Unbind(n) ==
    /\ Unlink({n})
    /\ UNCHANGED <<firers, dispatchers, stopper, queue, SOFT_MAX_DISPATCH, bounds>>

UnbindCallback(c) ==
    /\ Unlink({n \in Nodes : Callback[n] = c /\ binding[n] = "bound"})
    /\ UNCHANGED <<firers, dispatchers, stopper, queue, SOFT_MAX_DISPATCH, bounds>>

-----------------------------------------------------------------------------
(* switch_event_shutdown.                                                  *)

Stop ==
    /\ down = "up"
    /\ SYSTEM_RUNNING' = FALSE
    /\ down' = "push" /\ x' = 0
    /\ UNCHANGED <<firers, dispatchers, queue, SOFT_MAX_DISPATCH, bounds, binding>>

\* Mutant of Trypush: the threads are only interrupted.
TrypushNothing == queue

Trypush == IF Room THEN Queued(NoEvent) ELSE queue

\* The loops run as long as x is below the count, which threads change.
Counted == x < DISPATCH_THREAD_COUNT

PushNull ==
    /\ down = "push"
    /\ IF Counted
          THEN queue' = Trypush /\ x' = x + 1 /\ UNCHANGED down
          ELSE down' = "interrupt" /\ x' = 0 /\ UNCHANGED queue
    /\ UNCHANGED <<firers, dispatchers, SYSTEM_RUNNING, SOFT_MAX_DISPATCH, bounds, binding>>

\* switch_queue_interrupt_all wakes those who wait now; a firing thread whose
\* queue is still full loses its event.
Interrupt ==
    /\ down = "interrupt"
    /\ down' = "join"
    /\ thread' = [t \in Threads |-> IF thread[t] = "wait" /\ queue = <<>>
                                       THEN "check" ELSE thread[t]]
    /\ fire' = [e \in Events |-> IF fire[e] = "full" /\ ~Room THEN "lost" ELSE fire[e]]
    /\ UNCHANGED <<pushed, event, node, todo, got, DISPATCH_THREAD_COUNT, SYSTEM_RUNNING, x,
                   queue, SOFT_MAX_DISPATCH, bounds, binding>>

\* Mutant of Joined: does not wait for the thread.
JoinedAlready == TRUE

\* switch_thread_join of EVENT_DISPATCH_QUEUE_THREADS[x].
Joined == thread[x] = "gone"

Join ==
    /\ \/ down = "join" /\ Counted /\ down' = "joining" /\ UNCHANGED x
       \/ down = "joining" /\ Joined /\ down' = "join" /\ x' = x + 1
       \/ down = "join" /\ ~Counted /\ down' = "linger" /\ x' = 0
    /\ UNCHANGED <<firers, dispatchers, SYSTEM_RUNNING, queue, SOFT_MAX_DISPATCH, bounds,
                   binding>>

\* Until THREAD_COUNT is zero, or ten seconds have passed.
Linger ==
    /\ down = "linger"
    /\ down' = "drain"
    /\ UNCHANGED <<firers, dispatchers, SYSTEM_RUNNING, x, queue, SOFT_MAX_DISPATCH, bounds,
                   binding>>

\* Events are destroyed up to the first NULL, which is taken, too.
Drain ==
    /\ down = "drain"
    /\ IF queue # <<>> THEN queue' = Tail(queue) ELSE UNCHANGED queue
    /\ IF queue # <<>> /\ Head(queue) # NoEvent THEN UNCHANGED down ELSE down' = "down"
    /\ UNCHANGED <<firers, dispatchers, SYSTEM_RUNNING, x, SOFT_MAX_DISPATCH, bounds, binding>>

-----------------------------------------------------------------------------

Spurious(t) == PopFails(t) /\ UNCHANGED <<firers, stopper, SOFT_MAX_DISPATCH, bounds, binding>>

ShutdownStep == PushNull \/ Interrupt \/ Join \/ Linger \/ Drain

Next ==
    \/ \E e \in Events : Fire(e) \/ Push(e) \/ PushLoses(e)
    \/ Launch
    \/ \E t \in Threads : DispatchStep(t) \/ Spurious(t)
    \/ \E n \in Nodes : Bind(n) \/ Unbind(n)
    \/ \E c \in {Callback[n] : n \in Nodes} : UnbindCallback(c)
    \/ Stop
    \/ ShutdownStep

Spec == Init /\ [][Next]_vars

\* Threads that can run do run, and callbacks return.
Fairness ==
    /\ \A t \in Threads : WF_vars(DispatchStep(t))
    /\ WF_vars(\E e \in Events : Push(e))
    /\ WF_vars(ShutdownStep)

FairSpec == Spec /\ Fairness

-----------------------------------------------------------------------------
(* Properties.                                                             *)

InQueue(e) == \E i \in 1 .. Len(queue) : queue[i] = e
Got(n, e) == \E i \in 1 .. Len(got[n]) : got[n][i] = e

\* No callback runs, and none is about to be called, of a node that unbind or
\* unbind_callback has freed: its owner may go away when they return.
NoStaleCallback ==
    \A t \in Threads : \A n \in todo[t] \cup ({node[t]} \ {NoNode}) : binding[n] = "bound"

\* A node gets an event at most once, and as long as there is one dispatch thread
\* in the order in which events came into the queue.
OnceInOrder ==
    \A n \in Nodes : \A i, j \in 1 .. Len(got[n]) : i < j =>
        /\ got[n][i] # got[n][j]
        /\ SOFT_MAX_DISPATCH = 1 =>
              \E k, l \in 1 .. Len(pushed) :
                  k < l /\ pushed[k] = got[n][i] /\ pushed[l] = got[n][j]

\* An event in the queue reaches every node that wants it, unless the node is
\* unbound or the system shut down before.
Delivered ==
    \A n \in Nodes : \A e \in Wants[n] :
        (InQueue(e) /\ binding[n] = "bound")
            ~> (Got(n, e) \/ binding[n] # "bound" \/ ~SYSTEM_RUNNING)


\* With the one dispatch thread that the core launches itself, a shutdown ends.
ShutdownEnds == []<>(down \in {"up", "down"} \/ SOFT_MAX_DISPATCH > 1)

\* And then no dispatch thread runs any more: no callback uses what the core
\* goes on to free.
QuietAfterShutdown ==
    down \in {"drain", "down"} /\ SOFT_MAX_DISPATCH = 1 =>
        \A t \in Threads : thread[t] \in {"none", "gone"}

=============================================================================
