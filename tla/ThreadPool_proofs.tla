------------------------- MODULE ThreadPool_proofs -------------------------
(***************************************************************************)
(* Theorems about ThreadPool, for every finite set of jobs and of workers: *)
(* the counters are exact, and every launched job has a worker, as long as *)
(* no thread failed to start and no wait was interrupted.                  *)
(***************************************************************************)
EXTENDS ThreadPool, FiniteSetTheorems, TLAPS

USE PoolAssumption

\* The types without the bounds of the counters, which follow from what they count.
Types ==
    /\ running \in Int /\ busy \in Int
    /\ queued \subseteq Jobs /\ term \in BOOLEAN
    /\ launch \in [Jobs -> LaunchLabel]
    /\ worker \in [Workers -> WorkerLabel] /\ job \in [Workers -> Jobs \cup {NoJob}]
    /\ over \subseteq Jobs /\ failed \in BOOLEAN /\ interrupted \in BOOLEAN

-----------------------------------------------------------------------------
(* Cardinalities.                                                          *)

\* The sets that are counted are finite.
LEMMA Finite ==
    ASSUME NEW D, IsFiniteSet(D), NEW S \in SUBSET D
    PROVE  IsFiniteSet(S) /\ Cardinality(S) \in Nat /\ Cardinality(S) <= Cardinality(D)
<1>1. IsFiniteSet(S) /\ Cardinality(S) <= Cardinality(D)
  BY FS_Subset
<1>2. QED
  BY <1>1, FS_CardinalityType

\* One element more.
LEMMA Plus ==
    ASSUME NEW S, IsFiniteSet(S), NEW T, NEW d, d \notin S, T = S \cup {d}
    PROVE  Cardinality(T) = Cardinality(S) + 1
  BY FS_AddElement

\* One element less.
LEMMA Minus ==
    ASSUME NEW S, IsFiniteSet(S), NEW T, NEW d \in S, T = S \ {d}
    PROVE  Cardinality(T) = Cardinality(S) - 1
  BY FS_RemoveElement

\* What the module counts.
LEMMA Sizes ==
    ASSUME Types
    PROVE  /\ IsFiniteSet(Alive) /\ Cardinality(Alive) \in Nat
           /\ IsFiniteSet(Creating) /\ Cardinality(Creating) \in Nat
           /\ IsFiniteSet(Counted) /\ Cardinality(Counted) \in 0 .. Cardinality(Jobs)
           /\ IsFiniteSet(Pushed) /\ Cardinality(Pushed) \in Nat
           /\ IsFiniteSet(over) /\ Cardinality(over) \in 0 .. Cardinality(Jobs)
           /\ IsFiniteSet(queued) /\ Cardinality(queued) \in Nat
           /\ IsFiniteSet(At("work")) /\ Cardinality(At("work")) \in Nat
           /\ IsFiniteSet(At("done")) /\ Cardinality(At("done")) \in Nat
<1>1. /\ Alive \in SUBSET Workers /\ Creating \in SUBSET Jobs /\ Counted \in SUBSET Jobs
      /\ Pushed \in SUBSET Jobs /\ over \in SUBSET Jobs /\ queued \in SUBSET Jobs
      /\ At("work") \in SUBSET Workers /\ At("done") \in SUBSET Workers
  BY DEF Types, Alive, Creating, Counted, Pushed, At
<1>2. IsFiniteSet(Alive) /\ Cardinality(Alive) \in Nat
  BY <1>1, Finite
<1>3. IsFiniteSet(Creating) /\ Cardinality(Creating) \in Nat
  BY <1>1, Finite
<1>4. IsFiniteSet(Counted) /\ Cardinality(Counted) \in Nat
      /\ Cardinality(Counted) <= Cardinality(Jobs)
  BY <1>1, Finite
<1>5. IsFiniteSet(Pushed) /\ Cardinality(Pushed) \in Nat
  BY <1>1, Finite
<1>6. IsFiniteSet(over) /\ Cardinality(over) \in Nat
      /\ Cardinality(over) <= Cardinality(Jobs)
  BY <1>1, Finite
<1>7. IsFiniteSet(queued) /\ Cardinality(queued) \in Nat
  BY <1>1, Finite
<1>8. IsFiniteSet(At("work")) /\ Cardinality(At("work")) \in Nat
  BY <1>1, Finite
<1>9. IsFiniteSet(At("done")) /\ Cardinality(At("done")) \in Nat
  BY <1>1, Finite
<1>10. Cardinality(Jobs) \in Nat
  BY FS_CardinalityType
<1> QED
  BY <1>2, <1>3, <1>4, <1>5, <1>6, <1>7, <1>8, <1>9, <1>10

-----------------------------------------------------------------------------
(* Types and places.                                                       *)

\* Every step keeps the types.
LEMMA StepTypes == Types /\ PlaceInv /\ [Next]_vars => Types'
<1> SUFFICES ASSUME Types, PlaceInv, [Next]_vars
             PROVE  Types'
  OBVIOUS
<1>1. ASSUME NEW j \in Jobs, Push(j)
      PROVE  Types'
  BY <1>1 DEF Types, LaunchLabel, WorkerLabel, At, Push
<1>2. ASSUME NEW j \in Jobs, Count(j)
      PROVE  Types'
  BY <1>2 DEF Types, LaunchLabel, WorkerLabel, Count, Enough
<1>3. ASSUME NEW j \in Jobs, Create(j)
      PROVE  Types'
  BY <1>3 DEF Types, LaunchLabel, WorkerLabel, Create, At
<1>4. ASSUME NEW j \in Jobs, CreateFails(j)
      PROVE  Types'
  BY <1>4 DEF Types, LaunchLabel, WorkerLabel, CreateFails
<1>5. ASSUME NEW w \in Workers, Take(w)
      PROVE  Types'
  BY <1>5 DEF Types, LaunchLabel, WorkerLabel, Take
<1>6. ASSUME NEW w \in Workers, Wait(w)
      PROVE  Types'
  BY <1>6 DEF Types, LaunchLabel, WorkerLabel, Wait, Move
<1>7. ASSUME NEW w \in Workers, TimeUp(w)
      PROVE  Types'
  BY <1>7 DEF Types, LaunchLabel, WorkerLabel, TimeUp, Move
<1>8. ASSUME NEW w \in Workers, SpuriousWake(w)
      PROVE  Types'
  BY <1>8 DEF Types, LaunchLabel, WorkerLabel, SpuriousWake, Move
<1>9. ASSUME NEW w \in Workers, Interrupt(w)
      PROVE  Types'
  BY <1>9 DEF Types, LaunchLabel, WorkerLabel, Interrupt
<1>10. ASSUME NEW w \in Workers, Finish(w)
      PROVE  Types'
  BY <1>10 DEF Types, LaunchLabel, WorkerLabel, Finish, Move
<1>11. ASSUME NEW w \in Workers, Uncount(w)
      PROVE  Types'
  BY <1>11 DEF Types, PlaceInv, LaunchLabel, WorkerLabel, Uncount
<1>12. ASSUME NEW w \in Workers, Retire(w)
      PROVE  Types'
  BY <1>12 DEF Types, LaunchLabel, WorkerLabel, Retire, Superfluous
<1>13. ASSUME NEW w \in Workers, Abandon(w)
      PROVE  Types'
  BY <1>13 DEF Types, LaunchLabel, WorkerLabel, Abandon
<1>14. CASE Terminate
  BY <1>14 DEF Types, LaunchLabel, WorkerLabel, Terminate
<1>15. CASE UNCHANGED vars
  BY <1>15 DEF vars, Types, LaunchLabel, WorkerLabel
<1> QED
  BY <1>1, <1>2, <1>3, <1>4, <1>5, <1>6, <1>7, <1>8,
     <1>9, <1>10, <1>11, <1>12, <1>13, <1>14, <1>15
     DEF Next, LaunchStep, WorkerStep, Finished

\* No step puts a job in two places.
LEMMA StepPlace == Types /\ PlaceInv /\ [Next]_vars => PlaceInv'
<1> SUFFICES ASSUME Types, PlaceInv, [Next]_vars
             PROVE  PlaceInv'
  OBVIOUS
<1>1. ASSUME NEW j \in Jobs, Push(j)
      PROVE  PlaceInv'
  BY <1>1 DEF Types, PlaceInv, LaunchLabel, WorkerLabel, At, Push
<1>2. ASSUME NEW j \in Jobs, Count(j)
      PROVE  PlaceInv'
  BY <1>2 DEF Types, PlaceInv, LaunchLabel, WorkerLabel, Count, Enough
<1>3. ASSUME NEW j \in Jobs, Create(j)
      PROVE  PlaceInv'
  BY <1>3 DEF Types, PlaceInv, LaunchLabel, WorkerLabel, Create, At
<1>4. ASSUME NEW j \in Jobs, CreateFails(j)
      PROVE  PlaceInv'
  BY <1>4 DEF Types, PlaceInv, LaunchLabel, WorkerLabel, CreateFails
<1>5. ASSUME NEW w \in Workers, Take(w)
      PROVE  PlaceInv'
  BY <1>5 DEF Types, PlaceInv, LaunchLabel, WorkerLabel, Take
<1>6. ASSUME NEW w \in Workers, Wait(w)
      PROVE  PlaceInv'
  BY <1>6 DEF Types, PlaceInv, LaunchLabel, WorkerLabel, Wait, Move
<1>7. ASSUME NEW w \in Workers, TimeUp(w)
      PROVE  PlaceInv'
  BY <1>7 DEF Types, PlaceInv, LaunchLabel, WorkerLabel, TimeUp, Move
<1>8. ASSUME NEW w \in Workers, SpuriousWake(w)
      PROVE  PlaceInv'
  BY <1>8 DEF Types, PlaceInv, LaunchLabel, WorkerLabel, SpuriousWake, Move
<1>9. ASSUME NEW w \in Workers, Interrupt(w)
      PROVE  PlaceInv'
  BY <1>9 DEF Types, PlaceInv, LaunchLabel, WorkerLabel, Interrupt
<1>10. ASSUME NEW w \in Workers, Finish(w)
      PROVE  PlaceInv'
  BY <1>10 DEF Types, PlaceInv, LaunchLabel, WorkerLabel, Finish, Move
<1>11. ASSUME NEW w \in Workers, Uncount(w)
      PROVE  PlaceInv'
  BY <1>11 DEF Types, PlaceInv, LaunchLabel, WorkerLabel, Uncount
<1>12. ASSUME NEW w \in Workers, Retire(w)
      PROVE  PlaceInv'
  BY <1>12 DEF Types, PlaceInv, LaunchLabel, WorkerLabel, Retire, Superfluous
<1>13. ASSUME NEW w \in Workers, Abandon(w)
      PROVE  PlaceInv'
  BY <1>13 DEF Types, PlaceInv, LaunchLabel, WorkerLabel, Abandon
<1>14. CASE Terminate
  BY <1>14 DEF Types, PlaceInv, LaunchLabel, WorkerLabel, Terminate
<1>15. CASE UNCHANGED vars
  BY <1>15 DEF vars, Types, PlaceInv, LaunchLabel, WorkerLabel
<1> QED
  BY <1>1, <1>2, <1>3, <1>4, <1>5, <1>6, <1>7, <1>8,
     <1>9, <1>10, <1>11, <1>12, <1>13, <1>14, <1>15
     DEF Next, LaunchStep, WorkerStep, Finished

-----------------------------------------------------------------------------
(* The counters.                                                           *)

\* Every step counts right.
LEMMA StepCounters == Types /\ PlaceInv /\ CountersExact /\ [Next]_vars => CountersExact'
<1> SUFFICES ASSUME Types, PlaceInv, CountersExact, [Next]_vars
             PROVE  CountersExact'
  OBVIOUS
<1>1. ASSUME NEW j \in Jobs, Push(j)
      PROVE  CountersExact'
  <2>1. /\ Counted' = Counted /\ Creating' = Creating /\ Alive' = Alive
        /\ over' = over /\ busy' = busy /\ running' = running
    BY <1>1 DEF Types, Push, At, Counted, Creating, Alive
  <2> QED
    BY <2>1 DEF CountersExact
<1>2. ASSUME NEW j \in Jobs, Count(j)
      PROVE  CountersExact'
  <2>1. Alive' = Alive /\ over' = over
    BY <1>2 DEF Count, Alive
  <2>2. Counted' = Counted \cup {j} /\ j \notin Counted
    BY <1>2 DEF Types, Count, Counted
  <2>3. Cardinality(Counted') = Cardinality(Counted) + 1
    BY <2>2, Sizes, Plus
  <2>4. CASE Enough(running, busy')
    <3>1. Creating' = Creating
      BY <1>2, <2>4 DEF Types, Count, Creating
    <3> QED
      BY <1>2, <2>1, <2>3, <2>4, <3>1, Sizes DEF Count, CountersExact
  <2>5. CASE ~Enough(running, busy')
    <3>1. Creating' = Creating \cup {j} /\ j \notin Creating
      BY <1>2, <2>5 DEF Types, Count, Creating
    <3>2. Cardinality(Creating') = Cardinality(Creating) + 1
      BY <3>1, Sizes, Plus
    <3> QED
      BY <1>2, <2>1, <2>3, <2>5, <3>2, Sizes DEF Count, CountersExact
  <2> QED
    BY <2>4, <2>5
<1>3. ASSUME NEW j \in Jobs, Create(j)
      PROVE  CountersExact'
  <2>1. Counted' = Counted /\ over' = over /\ busy' = busy /\ running' = running
    BY <1>3 DEF Types, Create, Counted
  <2>2. Creating' = Creating \ {j} /\ j \in Creating
    BY <1>3 DEF Types, Create, Creating
  <2>3. Cardinality(Creating') = Cardinality(Creating) - 1
    BY <2>2, Sizes, Minus
  <2>4. PICK w \in Workers : worker[w] = "none" /\ worker' = [worker EXCEPT ![w] = "pop"]
    BY <1>3 DEF Create, At
  <2>5. Alive' = Alive \cup {w} /\ w \notin Alive
    BY <2>4 DEF Types, Alive
  <2>6. Cardinality(Alive') = Cardinality(Alive) + 1
    BY <2>5, Sizes, Plus
  <2> QED
    BY <2>1, <2>3, <2>6, Sizes DEF CountersExact
<1>4. ASSUME NEW j \in Jobs, CreateFails(j)
      PROVE  CountersExact'
  <2>1. Counted' = Counted /\ over' = over /\ busy' = busy /\ Alive' = Alive
    BY <1>4 DEF Types, CreateFails, Counted, Alive
  <2>2. Creating' = Creating \ {j} /\ j \in Creating
    BY <1>4 DEF Types, CreateFails, Creating
  <2>3. Cardinality(Creating') = Cardinality(Creating) - 1
    BY <2>2, Sizes, Minus
  <2> QED
    BY <1>4, <2>1, <2>3, Sizes DEF CreateFails, CountersExact
<1>5. ASSUME NEW w \in Workers, Take(w)
      PROVE  CountersExact'
  <2>1. /\ Counted' = Counted /\ Creating' = Creating /\ Alive' = Alive
        /\ over' = over /\ busy' = busy /\ running' = running
    BY <1>5 DEF Types, Take, Counted, Creating, Alive
  <2> QED
    BY <2>1 DEF CountersExact
<1>6. ASSUME NEW w \in Workers, Wait(w)
      PROVE  CountersExact'
  <2>1. /\ Counted' = Counted /\ Creating' = Creating /\ Alive' = Alive
        /\ over' = over /\ busy' = busy /\ running' = running
    BY <1>6 DEF Types, Wait, Move, Counted, Creating, Alive
  <2> QED
    BY <2>1 DEF CountersExact
<1>7. ASSUME NEW w \in Workers, TimeUp(w)
      PROVE  CountersExact'
  <2>1. /\ Counted' = Counted /\ Creating' = Creating /\ Alive' = Alive
        /\ over' = over /\ busy' = busy /\ running' = running
    BY <1>7 DEF Types, TimeUp, Move, Counted, Creating, Alive
  <2> QED
    BY <2>1 DEF CountersExact
<1>8. ASSUME NEW w \in Workers, SpuriousWake(w)
      PROVE  CountersExact'
  <2>1. /\ Counted' = Counted /\ Creating' = Creating /\ Alive' = Alive
        /\ over' = over /\ busy' = busy /\ running' = running
    BY <1>8 DEF Types, SpuriousWake, Move, Counted, Creating, Alive
  <2> QED
    BY <2>1 DEF CountersExact
<1>9. ASSUME NEW w \in Workers, Interrupt(w)
      PROVE  CountersExact'
  <2>1. /\ Counted' = Counted /\ Creating' = Creating /\ Alive' = Alive
        /\ over' = over /\ busy' = busy /\ running' = running
    BY <1>9 DEF Types, Interrupt, Counted, Creating, Alive
  <2> QED
    BY <2>1 DEF CountersExact
<1>10. ASSUME NEW w \in Workers, Finish(w)
      PROVE  CountersExact'
  <2>1. /\ Counted' = Counted /\ Creating' = Creating /\ Alive' = Alive
        /\ over' = over /\ busy' = busy /\ running' = running
    BY <1>10 DEF Types, Finish, Move, Counted, Creating, Alive
  <2> QED
    BY <2>1 DEF CountersExact
<1>11. ASSUME NEW w \in Workers, Uncount(w)
      PROVE  CountersExact'
  <2>1. Counted' = Counted /\ Creating' = Creating /\ running' = running /\ Alive' = Alive
    BY <1>11 DEF Types, Uncount, Counted, Creating, Alive
  <2>2. over' = over \cup {job[w]} /\ job[w] \notin over
    BY <1>11 DEF PlaceInv, Uncount
  <2>3. Cardinality(over') = Cardinality(over) + 1
    BY <2>2, Sizes, Plus
  <2> QED
    BY <1>11, <2>1, <2>3, Sizes DEF Uncount, CountersExact
<1>12. ASSUME NEW w \in Workers, Retire(w)
      PROVE  CountersExact'
  <2>1. Counted' = Counted /\ Creating' = Creating /\ busy' = busy /\ over' = over
    BY <1>12 DEF Retire, Counted, Creating
  <2>2. CASE Superfluous
    <3>1. Alive' = Alive \ {w} /\ w \in Alive
      BY <1>12, <2>2 DEF Types, Retire, Alive
    <3>2. Cardinality(Alive') = Cardinality(Alive) - 1
      BY <3>1, Sizes, Minus
    <3> QED
      BY <1>12, <2>1, <2>2, <3>2, Sizes DEF Retire, CountersExact
  <2>3. CASE ~Superfluous
    <3>1. Alive' = Alive /\ running' = running
      BY <1>12, <2>3 DEF Types, Retire, Alive
    <3> QED
      BY <2>1, <3>1 DEF CountersExact
  <2> QED
    BY <2>2, <2>3
<1>13. ASSUME NEW w \in Workers, Abandon(w)
      PROVE  CountersExact'
  <2>1. Counted' = Counted /\ Creating' = Creating /\ busy' = busy /\ over' = over
    BY <1>13 DEF Abandon, Counted, Creating
  <2>2. Alive' = Alive \ {w} /\ w \in Alive
    BY <1>13 DEF Types, Abandon, Alive
  <2>3. Cardinality(Alive') = Cardinality(Alive) - 1
    BY <2>2, Sizes, Minus
  <2> QED
    BY <1>13, <2>1, <2>3, Sizes DEF Abandon, CountersExact
<1>14. CASE Terminate
  <2>1. /\ Counted' = Counted /\ Creating' = Creating /\ Alive' = Alive
        /\ over' = over /\ busy' = busy /\ running' = running
    BY <1>14 DEF Types, Terminate, Counted, Creating, Alive
  <2> QED
    BY <2>1 DEF CountersExact
<1>15. CASE UNCHANGED vars
  BY <1>15 DEF vars, Types, CountersExact, Alive, Creating, Counted
<1> QED
  BY <1>1, <1>2, <1>3, <1>4, <1>5, <1>6, <1>7, <1>8,
     <1>9, <1>10, <1>11, <1>12, <1>13, <1>14, <1>15
     DEF Next, LaunchStep, WorkerStep, Finished

-----------------------------------------------------------------------------
(* No job is lost.                                                         *)

\* No step loses a job while the queue lives.
LEMMA StepBalance == Types /\ PlaceInv /\ BalanceInv /\ [Next]_vars => BalanceInv'
<1> SUFFICES ASSUME Types, PlaceInv, BalanceInv, [Next]_vars
             PROVE  BalanceInv'
  OBVIOUS
<1>1. ASSUME NEW j \in Jobs, Push(j)
      PROVE  BalanceInv'
  <2> SUFFICES ASSUME ~term' PROVE BalanceInv'
    BY DEF BalanceInv
  <2>0. ~term
    BY <1>1 DEF Push
  <2>1. /\ At("work")' = At("work")
        /\ At("done")' = At("done")
        /\ over' = over
    BY <1>1, <2>0 DEF Types, PlaceInv, LaunchLabel, Push, Pushed, At
  <2>2. queued' = queued \cup {j} /\ j \notin queued
    BY <1>1, <2>0 DEF Types, PlaceInv, LaunchLabel, Push, Pushed, At
  <2>3. Cardinality(queued') = Cardinality(queued) + 1
    BY <2>2, Sizes, Plus
  <2>4. Pushed' = Pushed \cup {j} /\ j \notin Pushed
    BY <1>1, <2>0 DEF Types, PlaceInv, LaunchLabel, Push, Pushed, At
  <2>5. Cardinality(Pushed') = Cardinality(Pushed) + 1
    BY <2>4, Sizes, Plus
  <2> QED
    BY <2>0, <2>1, <2>3, <2>5, Sizes DEF BalanceInv
<1>2. ASSUME NEW j \in Jobs, Count(j)
      PROVE  BalanceInv'
  <2> SUFFICES ASSUME ~term' PROVE BalanceInv'
    BY DEF BalanceInv
  <2>0. ~term
    BY <1>2 DEF Count
  <2>1. /\ queued' = queued
        /\ At("work")' = At("work")
        /\ At("done")' = At("done")
        /\ over' = over
        /\ Pushed' = Pushed
    BY <1>2, <2>0 DEF Types, PlaceInv, LaunchLabel, Count, Enough, Pushed, At
  <2> QED
    BY <2>0, <2>1, Sizes DEF BalanceInv
<1>3. ASSUME NEW j \in Jobs, Create(j)
      PROVE  BalanceInv'
  <2> SUFFICES ASSUME ~term' PROVE BalanceInv'
    BY DEF BalanceInv
  <2>0. ~term
    BY <1>3 DEF Create
  <2>1. /\ queued' = queued
        /\ At("work")' = At("work")
        /\ At("done")' = At("done")
        /\ over' = over
        /\ Pushed' = Pushed
    BY <1>3, <2>0 DEF Types, PlaceInv, LaunchLabel, Create, Pushed, At
  <2> QED
    BY <2>0, <2>1, Sizes DEF BalanceInv
<1>4. ASSUME NEW j \in Jobs, CreateFails(j)
      PROVE  BalanceInv'
  <2> SUFFICES ASSUME ~term' PROVE BalanceInv'
    BY DEF BalanceInv
  <2>0. ~term
    BY <1>4 DEF CreateFails
  <2>1. /\ queued' = queued
        /\ At("work")' = At("work")
        /\ At("done")' = At("done")
        /\ over' = over
        /\ Pushed' = Pushed
    BY <1>4, <2>0 DEF Types, PlaceInv, LaunchLabel, CreateFails, Pushed, At
  <2> QED
    BY <2>0, <2>1, Sizes DEF BalanceInv
<1>5. ASSUME NEW w \in Workers, Take(w)
      PROVE  BalanceInv'
  <2> SUFFICES ASSUME ~term' PROVE BalanceInv'
    BY DEF BalanceInv
  <2>0. ~term
    BY <1>5 DEF Take
  <2>1. PICK j \in queued : queued' = queued \ {j}
    BY <1>5 DEF Take
  <2>2. /\ At("done")' = At("done")
        /\ over' = over
        /\ Pushed' = Pushed
    BY <1>5, <2>0 DEF Types, PlaceInv, LaunchLabel, Take, Pushed, At
  <2>3. At("work")' = At("work") \cup {w} /\ w \notin At("work")
    BY <1>5, <2>0 DEF Types, PlaceInv, LaunchLabel, Take, Pushed, At
  <2>4. Cardinality(At("work")') = Cardinality(At("work")) + 1
    BY <2>3, Sizes, Plus
  <2>5. Cardinality(queued') = Cardinality(queued) - 1
    BY <2>1, Sizes, Minus
  <2> QED
    BY <2>0, <2>2, <2>4, <2>5, Sizes DEF BalanceInv
<1>6. ASSUME NEW w \in Workers, Wait(w)
      PROVE  BalanceInv'
  <2> SUFFICES ASSUME ~term' PROVE BalanceInv'
    BY DEF BalanceInv
  <2>0. ~term
    BY <1>6 DEF Wait, Move
  <2>1. /\ queued' = queued
        /\ At("work")' = At("work")
        /\ At("done")' = At("done")
        /\ over' = over
        /\ Pushed' = Pushed
    BY <1>6, <2>0 DEF Types, PlaceInv, LaunchLabel, Wait, Move, Pushed, At
  <2> QED
    BY <2>0, <2>1, Sizes DEF BalanceInv
<1>7. ASSUME NEW w \in Workers, TimeUp(w)
      PROVE  BalanceInv'
  <2> SUFFICES ASSUME ~term' PROVE BalanceInv'
    BY DEF BalanceInv
  <2>0. ~term
    BY <1>7 DEF TimeUp, Move
  <2>1. /\ queued' = queued
        /\ At("work")' = At("work")
        /\ At("done")' = At("done")
        /\ over' = over
        /\ Pushed' = Pushed
    BY <1>7, <2>0 DEF Types, PlaceInv, LaunchLabel, TimeUp, Move, Pushed, At
  <2> QED
    BY <2>0, <2>1, Sizes DEF BalanceInv
<1>8. ASSUME NEW w \in Workers, SpuriousWake(w)
      PROVE  BalanceInv'
  <2> SUFFICES ASSUME ~term' PROVE BalanceInv'
    BY DEF BalanceInv
  <2>0. ~term
    BY <1>8 DEF SpuriousWake, Move
  <2>1. /\ queued' = queued
        /\ At("work")' = At("work")
        /\ At("done")' = At("done")
        /\ over' = over
        /\ Pushed' = Pushed
    BY <1>8, <2>0 DEF Types, PlaceInv, LaunchLabel, SpuriousWake, Move, Pushed, At
  <2> QED
    BY <2>0, <2>1, Sizes DEF BalanceInv
<1>9. ASSUME NEW w \in Workers, Interrupt(w)
      PROVE  BalanceInv'
  <2> SUFFICES ASSUME ~term' PROVE BalanceInv'
    BY DEF BalanceInv
  <2>0. ~term
    BY <1>9 DEF Interrupt
  <2>1. /\ queued' = queued
        /\ At("work")' = At("work")
        /\ At("done")' = At("done")
        /\ over' = over
        /\ Pushed' = Pushed
    BY <1>9, <2>0 DEF Types, PlaceInv, LaunchLabel, Interrupt, Pushed, At
  <2> QED
    BY <2>0, <2>1, Sizes DEF BalanceInv
<1>10. ASSUME NEW w \in Workers, Finish(w)
      PROVE  BalanceInv'
  <2> SUFFICES ASSUME ~term' PROVE BalanceInv'
    BY DEF BalanceInv
  <2>0. ~term
    BY <1>10 DEF Finish, Move
  <2>1. /\ queued' = queued
        /\ over' = over
        /\ Pushed' = Pushed
    BY <1>10, <2>0 DEF Types, PlaceInv, LaunchLabel, Finish, Move, Pushed, At
  <2>2. At("work")' = At("work") \ {w} /\ w \in At("work")
    BY <1>10, <2>0 DEF Types, PlaceInv, LaunchLabel, Finish, Move, Pushed, At
  <2>3. Cardinality(At("work")') = Cardinality(At("work")) - 1
    BY <2>2, Sizes, Minus
  <2>4. At("done")' = At("done") \cup {w} /\ w \notin At("done")
    BY <1>10, <2>0 DEF Types, PlaceInv, LaunchLabel, Finish, Move, Pushed, At
  <2>5. Cardinality(At("done")') = Cardinality(At("done")) + 1
    BY <2>4, Sizes, Plus
  <2> QED
    BY <2>0, <2>1, <2>3, <2>5, Sizes DEF BalanceInv
<1>11. ASSUME NEW w \in Workers, Uncount(w)
      PROVE  BalanceInv'
  <2> SUFFICES ASSUME ~term' PROVE BalanceInv'
    BY DEF BalanceInv
  <2>0. ~term
    BY <1>11 DEF Uncount
  <2>1. /\ queued' = queued
        /\ At("work")' = At("work")
        /\ Pushed' = Pushed
    BY <1>11, <2>0 DEF Types, PlaceInv, LaunchLabel, Uncount, Pushed, At
  <2>2. over' = over \cup {job[w]} /\ job[w] \notin over
    BY <1>11, <2>0 DEF Types, PlaceInv, LaunchLabel, Uncount, Pushed, At
  <2>3. Cardinality(over') = Cardinality(over) + 1
    BY <2>2, Sizes, Plus
  <2>4. At("done")' = At("done") \ {w} /\ w \in At("done")
    BY <1>11, <2>0 DEF Types, PlaceInv, LaunchLabel, Uncount, Pushed, At
  <2>5. Cardinality(At("done")') = Cardinality(At("done")) - 1
    BY <2>4, Sizes, Minus
  <2> QED
    BY <2>0, <2>1, <2>3, <2>5, Sizes DEF BalanceInv
<1>12. ASSUME NEW w \in Workers, Retire(w)
      PROVE  BalanceInv'
  <2> SUFFICES ASSUME ~term' PROVE BalanceInv'
    BY DEF BalanceInv
  <2>0. ~term
    BY <1>12 DEF Retire
  <2>1. /\ queued' = queued
        /\ At("work")' = At("work")
        /\ At("done")' = At("done")
        /\ over' = over
        /\ Pushed' = Pushed
    BY <1>12, <2>0 DEF Types, PlaceInv, LaunchLabel, Retire, Pushed, At
  <2> QED
    BY <2>0, <2>1, Sizes DEF BalanceInv
<1>13. ASSUME NEW w \in Workers, Abandon(w)
      PROVE  BalanceInv'
  <2> SUFFICES ASSUME ~term' PROVE BalanceInv'
    BY DEF BalanceInv
  <2>0. ~term
    BY <1>13 DEF Abandon
  <2>1. /\ queued' = queued
        /\ At("work")' = At("work")
        /\ At("done")' = At("done")
        /\ over' = over
        /\ Pushed' = Pushed
    BY <1>13, <2>0 DEF Types, PlaceInv, LaunchLabel, Abandon, Pushed, At
  <2> QED
    BY <2>0, <2>1, Sizes DEF BalanceInv
<1>14. CASE Terminate
  BY <1>14 DEF Terminate, BalanceInv
<1>15. CASE UNCHANGED vars
  BY <1>15 DEF vars, BalanceInv, At, Pushed
<1> QED
  BY <1>1, <1>2, <1>3, <1>4, <1>5, <1>6, <1>7, <1>8,
     <1>9, <1>10, <1>11, <1>12, <1>13, <1>14, <1>15
     DEF Next, LaunchStep, WorkerStep, Finished

-----------------------------------------------------------------------------
(* Enough workers.                                                         *)

\* No step lets the workers fall behind the jobs that are counted.
LEMMA StepRatio == Types /\ RatioInv /\ [Next]_vars => RatioInv'
<1> SUFFICES ASSUME Types, RatioInv, [Next]_vars
             PROVE  RatioInv'
  OBVIOUS
<1>1. ASSUME NEW j \in Jobs, Push(j)
      PROVE  RatioInv'
  BY <1>1 DEF Types, RatioInv, At, Push
<1>2. ASSUME NEW j \in Jobs, Count(j)
      PROVE  RatioInv'
  BY <1>2 DEF Types, RatioInv, At, Count, Enough
<1>3. ASSUME NEW j \in Jobs, Create(j)
      PROVE  RatioInv'
  BY <1>3 DEF Types, RatioInv, At, Create, At
<1>4. ASSUME NEW j \in Jobs, CreateFails(j)
      PROVE  RatioInv'
  BY <1>4 DEF Types, RatioInv, At, CreateFails
<1>5. ASSUME NEW w \in Workers, Take(w)
      PROVE  RatioInv'
  BY <1>5 DEF Types, RatioInv, At, Take
<1>6. ASSUME NEW w \in Workers, Wait(w)
      PROVE  RatioInv'
  BY <1>6 DEF Types, RatioInv, At, Wait, Move
<1>7. ASSUME NEW w \in Workers, TimeUp(w)
      PROVE  RatioInv'
  BY <1>7 DEF Types, RatioInv, At, TimeUp, Move
<1>8. ASSUME NEW w \in Workers, SpuriousWake(w)
      PROVE  RatioInv'
  BY <1>8 DEF Types, RatioInv, At, SpuriousWake, Move
<1>9. ASSUME NEW w \in Workers, Interrupt(w)
      PROVE  RatioInv'
  BY <1>9 DEF Types, RatioInv, At, Interrupt
<1>10. ASSUME NEW w \in Workers, Finish(w)
      PROVE  RatioInv'
  BY <1>10 DEF Types, RatioInv, At, Finish, Move
<1>11. ASSUME NEW w \in Workers, Uncount(w)
      PROVE  RatioInv'
  BY <1>11 DEF Types, RatioInv, At, Uncount
<1>12. ASSUME NEW w \in Workers, Retire(w)
      PROVE  RatioInv'
  BY <1>12 DEF Types, RatioInv, At, Retire, Superfluous
<1>13. ASSUME NEW w \in Workers, Abandon(w)
      PROVE  RatioInv'
  BY <1>13 DEF Types, RatioInv, At, Abandon
<1>14. CASE Terminate
  BY <1>14 DEF Types, RatioInv, At, Terminate
<1>15. CASE UNCHANGED vars
  BY <1>15 DEF vars, Types, RatioInv, At
<1> QED
  BY <1>1, <1>2, <1>3, <1>4, <1>5, <1>6, <1>7, <1>8,
     <1>9, <1>10, <1>11, <1>12, <1>13, <1>14, <1>15
     DEF Next, LaunchStep, WorkerStep, Finished

-----------------------------------------------------------------------------
(* The theorems.                                                           *)

PoolInv == Types /\ PlaceInv /\ CountersExact /\ BalanceInv /\ RatioInv

\* At the start nothing runs, nothing is counted and nothing is lost.
LEMMA InitInv == Init => PoolInv
<1> SUFFICES ASSUME Init PROVE PoolInv
  OBVIOUS
<1>1. Types
  <2>1. launch \in [Jobs -> LaunchLabel] /\ worker \in [Workers -> WorkerLabel]
    BY DEF Init, LaunchLabel, WorkerLabel
  <2>2. job \in [Workers -> Jobs \cup {NoJob}]
    BY DEF Init
  <2>3. running \in Int /\ busy \in Int
    BY DEF Init
  <2> QED
    BY <2>1, <2>2, <2>3, Zenon DEF Init, Types
<1>2. PlaceInv
  BY DEF Init, PlaceInv
<1>3. RatioInv
  BY DEF Init, RatioInv, At
<1>4. /\ Alive = {} /\ Creating = {} /\ Counted = {} /\ over = {} /\ queued = {}
      /\ At("work") = {} /\ At("done") = {} /\ Pushed = {}
  BY DEF Init, Alive, Creating, Counted, At, Pushed
<1>5. CountersExact /\ BalanceInv
  BY <1>4, FS_EmptySet DEF Init, CountersExact, BalanceInv
<1> QED
  BY <1>1, <1>2, <1>3, <1>5 DEF PoolInv

\* The invariants together are inductive.
THEOREM PoolCorrect == Spec => []PoolInv
<1>1. PoolInv /\ [Next]_vars => PoolInv'
  BY StepTypes, StepPlace, StepCounters, StepBalance, StepRatio DEF PoolInv
<1> QED
  BY InitInv, <1>1, PTL DEF Spec

\* session_manager.running and session_manager.busy count what they stand for, for
\* any number of jobs and workers, whatever fails, is interrupted or terminated.
THEOREM CountersCorrect == Spec => []CountersExact
<1>1. PoolInv => CountersExact
  BY DEF PoolInv
<1> QED
  BY PoolCorrect, <1>1, PTL

\* The counters stay within the number of jobs: check_queue starts a worker only
\* when there are fewer of them than jobs.
THEOREM TypeCorrect == Spec => []TypeOK
<1> DEFINE Bound == running <= Cardinality(Jobs)
<1>0. Cardinality(Jobs) \in Nat
  BY FS_CardinalityType
<1>1. Init => Bound
  BY <1>0 DEF Init
<1>2. PoolInv /\ PoolInv' /\ Bound /\ [Next]_vars => Bound'
  <2> SUFFICES ASSUME PoolInv, PoolInv', Bound, [Next]_vars
               PROVE  Bound'
    OBVIOUS
  <2>1. running \in Int /\ busy \in Int
    BY DEF PoolInv, Types
  <2>2. busy' <= Cardinality(Jobs)
    <3>1. Types' /\ CountersExact'
      BY DEF PoolInv
    <3>2. Counted' \in SUBSET Jobs /\ over' \in SUBSET Jobs
      BY <3>1 DEF Types, Counted
    <3>3. /\ Cardinality(Counted') \in Nat /\ Cardinality(over') \in Nat
          /\ Cardinality(Counted') <= Cardinality(Jobs)
      BY <3>2, Finite
    <3> QED
      BY <1>0, <3>1, <3>3 DEF CountersExact
  <2>3. ASSUME NEW j \in Jobs, Count(j)
        PROVE  Bound'
    BY <1>0, <2>1, <2>2, <2>3 DEF Count, Enough
  <2>4. ASSUME \A j \in Jobs : ~Count(j)
        PROVE  running' \in {running, running - 1}
    BY <2>4 DEF Next, LaunchStep, WorkerStep, Finished, vars, Push, Create, CreateFails,
       Take, Wait, TimeUp, SpuriousWake, Interrupt, Finish, Uncount, Retire, Abandon,
       Terminate, Move
  <2> QED
    BY <1>0, <2>1, <2>3, <2>4
<1>3. PoolInv /\ Bound => TypeOK
  <2> SUFFICES ASSUME PoolInv, Bound PROVE TypeOK
    OBVIOUS
  <2>1. Types /\ CountersExact
    BY DEF PoolInv
  <2>2. running \in 0 .. Cardinality(Jobs)
    BY <1>0, <2>1, Sizes DEF CountersExact
  <2>3. busy \in -Cardinality(Jobs) .. Cardinality(Jobs)
    BY <1>0, <2>1, Sizes DEF CountersExact
  <2> QED
    BY <2>1, <2>2, <2>3 DEF Types, TypeOK
<1> QED
  BY PoolCorrect, <1>1, <1>2, <1>3, PTL DEF Spec

\* Every job that was launched finds a worker that is free for it, for any number
\* of jobs, as long as no thread failed to start and no wait was interrupted.
THEOREM WorkersSuffice == Spec => []EnoughWorkers
<1>1. PoolInv => EnoughWorkers
  <2> SUFFICES ASSUME PoolInv, ~interrupted, ~term, ~failed,
                      \A j \in Jobs : launch[j] \in {"new", "launched"}
               PROVE  Cardinality(queued) <= Cardinality(Free)
    BY DEF EnoughWorkers, EachHasAWorker
  <2>1. Types /\ CountersExact /\ BalanceInv /\ RatioInv
    BY DEF PoolInv
  <2>2. Pushed = Counted /\ Creating = {}
    BY <2>1 DEF Types, LaunchLabel, Pushed, Counted, Creating
  <2>3. Cardinality(queued) + Cardinality(At("work")) + Cardinality(At("done")) = busy
    BY <2>1, <2>2, Sizes DEF BalanceInv, CountersExact
  <2>4. busy <= Cardinality(Alive)
    BY <2>1, <2>2, FS_EmptySet, Sizes DEF RatioInv, CountersExact, Types
  <2>5. Alive = Free \cup At("work") /\ Free \cap At("work") = {}
    BY <2>1 DEF Types, RatioInv, Alive, Free, At, WorkerLabel
  <2>6. IsFiniteSet(Free) /\ Cardinality(Free) \in Nat
    BY Finite DEF Free
  <2>7. Cardinality(Alive) = Cardinality(Free) + Cardinality(At("work"))
    <3>1. IsFiniteSet(At("work"))
      BY <2>1, Sizes
    <3>2. Cardinality(Free \cup At("work")) =
             Cardinality(Free) + Cardinality(At("work")) - Cardinality(Free \cap At("work"))
      BY <2>6, <3>1, FS_Union
    <3>3. Cardinality(Free \cap At("work")) = 0
      BY <2>5, FS_EmptySet
    <3>4. Cardinality(At("work")) \in Nat
      BY <2>1, Sizes
    <3> QED
      BY <2>5, <2>6, <3>2, <3>3, <3>4
  <2> QED
    BY <2>1, <2>3, <2>4, <2>6, <2>7, Sizes
<1> QED
  BY PoolCorrect, <1>1, PTL

=============================================================================
