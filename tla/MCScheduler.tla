---------------------------- MODULE MCScheduler ----------------------------
(* Two tasks, one of them with a thread of its own, and a client. *)
EXTENDS Scheduler

CONSTANTS t1, t2, c1

MCTasks == {t1, t2}
MCClients == {c1}
MCOwnThread == {t2}
MCNone == {}
MCGroup == [t \in MCTasks |-> "g"]
MCNow == {0}
MCIntervals == {1}

=============================================================================
