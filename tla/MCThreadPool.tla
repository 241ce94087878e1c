---------------------------- MODULE MCThreadPool ----------------------------
(* Three or four jobs on as many workers. *)
EXTENDS ThreadPool, TLC

CONSTANTS j1, j2, j3, j4, w1, w2, w3, w4

ThreeJobs == {j1, j2, j3}
FourJobs == {j1, j2, j3, j4}
ThreeWorkers == {w1, w2, w3}
FourWorkers == {w1, w2, w3, w4}

\* Jobs and workers are interchangeable.
Names == Permutations(FourJobs) \cup Permutations(FourWorkers)

=============================================================================
