------------------------ MODULE SessionTable_proofs ------------------------
(***************************************************************************)
(* Proofs about the session table, for any number of sessions, requesters  *)
(* and readers, also when sessions are found before they are launched and  *)
(* given up by their creators at the same time.                            *)
(***************************************************************************)
EXTENDS SessionTable, FiniteSetTheorems, TLAPS

-----------------------------------------------------------------------------
(* Types and the rate.                                                     *)

\* What is left of the rate and what was let through add up to at most sps_total.
RateInv == admitted < sps_total /\ (sps > 0 => admitted + sps <= sps_total)

LEMMA StepTypes == TypeOK /\ [Next]_vars => TypeOK'
<1> SUFFICES ASSUME TypeOK, [Next]_vars PROVE TypeOK'
  OBVIOUS
<1> USE DEF TypeOK
<1>1. ASSUME NEW r \in Requesters, NEW u \in Names \cup {None}, Check(r, u) PROVE TypeOK'
  BY <1>1 DEF Check, manager, lookups
<1>2. ASSUME NEW r \in Requesters, Throttle(r) PROVE TypeOK'
  BY <1>2, LimitsAssumption DEF Throttle, manager, lookups
<1>3. ASSUME NEW r \in Requesters, NEW s \in Sessions, Insert(r, s) PROVE TypeOK'
  BY <1>3 DEF Insert, lookups, Uuids, Stage
<1>4. ASSUME NEW r \in Requesters, Launch(r) PROVE TypeOK'
  BY <1>4 DEF Launch, Return, manager, lookups, Stage
<1>5. ASSUME NEW r \in Requesters, GiveUp(r) PROVE TypeOK'
  <2>0. session_count' \in Nat
    BY <1>5 DEF GiveUp, Destroy, CountAfter
  <2>1. table' \in [Uuids -> Sessions \cup {None}]
    <3> DEFINE k == uuid[mine[r]]
    <3>1. table' = [table EXCEPT ![k] = None]
      BY <1>5 DEF GiveUp, Destroy
    <3> HIDE DEF k
    <3> QED
      BY <3>1
  <2>2. life' \in [Sessions -> Stage]
    BY <1>5 DEF GiveUp
  <2>3. freed' \subseteq Sessions /\ twice' \subseteq Sessions
    BY <1>5 DEF GiveUp, Return, Destroy
  <2> QED
    BY <1>5, <2>0, <2>1, <2>2, <2>3 DEF GiveUp, Return, lookups
<1>6. ASSUME Tick PROVE TypeOK'
  BY <1>6, LimitsAssumption DEF Tick, manager, lookups, requests
<1>7. ASSUME NEW s \in Sessions, NEW u \in Names, SetUuid(s, u) PROVE TypeOK'
  BY <1>7 DEF SetUuid, Renamed, requests, Uuids
<1>8. ASSUME NEW s \in Sessions, HangUp(s) PROVE TypeOK'
  BY <1>8 DEF HangUp, manager, requests, lookups, Stage
<1>9. ASSUME NEW s \in Sessions, ThreadEnds(s) PROVE TypeOK'
  BY <1>9 DEF ThreadEnds, manager, requests, lookups, Stage
<1>10. ASSUME NEW s \in Sessions, ThreadDestroys(s) PROVE TypeOK'
  BY <1>10 DEF ThreadDestroys, Destroy, CountAfter, requests, lookups, Stage
<1>11. ASSUME NEW h \in Readers, NEW u \in Uuids, Locate(h, u) PROVE TypeOK'
  BY <1>11 DEF Locate, manager, requests
<1>12. ASSUME NEW h \in Readers, Unlock(h) PROVE TypeOK'
  BY <1>12 DEF Unlock, manager, requests
<1>13. ASSUME NEW h \in Hupalls, HupallList(h) PROVE TypeOK'
  <2> DEFINE found == {u \in Uuids : table[u] # None /\ Readable(table[u])}
  <2>1. \A u \in found : table[u] \in Sessions /\ uuid[table[u]] \in Uuids
    OBVIOUS
  <2>2. {uuid[table[u]] : u \in found} \subseteq Uuids /\ {table[u] : u \in found} \subseteq Sessions
    BY <2>1
  <2> HIDE DEF found
  <2>3. todo' \in [Readers -> SUBSET Uuids] /\ listed' \in [Readers -> SUBSET Sessions]
    BY <1>13, <2>2 DEF HupallList, found
  <2> QED
    BY <1>13, <2>3 DEF HupallList, manager, requests
<1>14. ASSUME NEW h \in Hupalls, NEW u \in Uuids, HupallLocate(h, u) PROVE TypeOK'
  BY <1>14 DEF HupallLocate, Rest, manager, requests
<1>15. ASSUME NEW h \in Hupalls, HupallHangUp(h) PROVE TypeOK'
  BY <1>15 DEF HupallHangUp, manager, requests, Stage
<1>16. ASSUME UNCHANGED vars PROVE TypeOK'
  BY <1>16 DEF vars, manager, requests, lookups
<1> QED
  BY <1>1, <1>2, <1>3, <1>4, <1>5, <1>6, <1>7, <1>8, <1>9, <1>10, <1>11, <1>12, <1>13, <1>14, <1>15, <1>16, SetsAssumption DEF Next

\* Every variable of the session table keeps its type.
THEOREM TypeCorrect == Spec => []TypeOK
<1>1. Init => TypeOK
  BY LimitsAssumption DEF Init, TypeOK, Uuids, Stage
<1> QED
  BY <1>1, StepTypes, PTL DEF Spec

\* However requests, refusals and the timer interleave, fewer than sps_total
\* requests are let through in a second.
THEOREM RateKept == Spec => []RateBounded
<1>1. Init => RateInv
  BY LimitsAssumption DEF Init, RateInv
<1>2. TypeOK /\ RateInv /\ [Next]_vars => RateInv'
  <2> SUFFICES ASSUME TypeOK, RateInv, [Next]_vars PROVE RateInv'
    OBVIOUS
  <2>1. ASSUME NEW r \in Requesters, Throttle(r) PROVE RateInv'
    BY <2>1, LimitsAssumption DEF Throttle, OverRate, RateInv, TypeOK
  <2>2. CASE Tick
    BY <2>2, LimitsAssumption DEF Tick, RateInv
  <2>3. CASE UNCHANGED <<sps, admitted>>
    BY <2>3 DEF RateInv
  <2> QED
    BY <2>1, <2>2, <2>3
    DEF Next, vars, Check, Insert, Launch, GiveUp, Return, SetUuid, HangUp, ThreadEnds,
        ThreadDestroys, Locate, Unlock, HupallList, HupallLocate, HupallHangUp
<1>3. RateInv => RateBounded
  BY DEF RateInv, RateBounded
<1> QED
  BY <1>1, <1>2, <1>3, TypeCorrect, PTL DEF Spec

-----------------------------------------------------------------------------
(* Who may change a session, and who may destroy it.                       *)

\* A requester that has created a session is the only one, and has not destroyed
\* it: if it is freed, then by its thread.  A session is destroyed twice by the two
\* of them.  A reader holds a session whose thread has not ended; what was created,
\* listed or freed has begun its life.
Roles ==
    /\ \A r \in Requesters : pc[r] = "created" =>
          /\ life[mine[r]] # "none" /\ mine[r] \notin twice
          /\ mine[r] \in freed => life[mine[r]] = "gone"
    /\ \A q, r \in Requesters :
          pc[q] = "created" /\ pc[r] = "created" /\ mine[q] = mine[r] => q = r
    /\ \A h \in Readers : hold[h] # None => life[hold[h]] \in {"new", "up", "down"}
    /\ \A h \in Readers : \A s \in listed[h] : life[s] # "none"
    /\ \A s \in unlimited \cup freed : life[s] # "none"
    /\ \A s \in Sessions : life[s] = "gone" => s \in freed
    /\ \A s \in twice : s \in freed /\ life[s] = "gone"

LEMMA StepRoles ==
    ASSUME TypeOK, Roles, [Next]_vars PROVE Roles'
<1>0. TypeOK'
  BY StepTypes
<1> USE DEF TypeOK, Roles
<1>1. ASSUME NEW r \in Requesters, NEW u \in Names \cup {None}, Check(r, u) PROVE Roles'
  BY <1>1 DEF Check, manager, lookups
<1>2. ASSUME NEW r \in Requesters, Throttle(r) PROVE Roles'
  BY <1>2 DEF Throttle, manager, lookups
<1>3. ASSUME NEW r \in Requesters, NEW s \in Sessions, Insert(r, s) PROVE Roles'
  BY <1>3 DEF Insert, lookups
<1>4. ASSUME NEW r \in Requesters, Launch(r) PROVE Roles'
  BY <1>4 DEF Launch, Return, manager, lookups
<1>5. ASSUME NEW r \in Requesters, GiveUp(r) PROVE Roles'
  BY <1>5 DEF GiveUp, Return, Destroy, lookups
<1>6. ASSUME Tick PROVE Roles'
  BY <1>6 DEF Tick, manager, requests, lookups
<1>7. ASSUME NEW s \in Sessions, NEW u \in Names, SetUuid(s, u) PROVE Roles'
  BY <1>7 DEF SetUuid, requests
<1>8. ASSUME NEW s \in Sessions, HangUp(s) PROVE Roles'
  BY <1>8 DEF HangUp, manager, requests, lookups
<1>9. ASSUME NEW s \in Sessions, ThreadEnds(s) PROVE Roles'
  BY <1>9 DEF ThreadEnds, WriteLock, manager, requests, lookups
<1>10. ASSUME NEW s \in Sessions, ThreadDestroys(s) PROVE Roles'
  BY <1>10 DEF ThreadDestroys, Destroy, requests, lookups
<1>11. ASSUME NEW h \in Readers, NEW u \in Uuids, Locate(h, u) PROVE Roles'
  BY <1>11 DEF Locate, Lockable, Readable, manager, requests
<1>12. ASSUME NEW h \in Readers, Unlock(h) PROVE Roles'
  BY <1>12 DEF Unlock, manager, requests
<1>13. ASSUME NEW h \in Hupalls, HupallList(h) PROVE Roles'
  BY <1>13, SetsAssumption DEF HupallList, Readable, manager, requests
<1>14. ASSUME NEW h \in Hupalls, NEW u \in Uuids, HupallLocate(h, u) PROVE Roles'
  BY <1>14, SetsAssumption DEF HupallLocate, Readable, manager, requests
<1>15. ASSUME NEW h \in Hupalls, HupallHangUp(h) PROVE Roles'
  BY <1>15, SetsAssumption DEF HupallHangUp, manager, requests
<1>16. ASSUME UNCHANGED vars PROVE Roles'
  BY <1>16 DEF vars, manager, requests, lookups
<1> QED
  BY <1>1, <1>2, <1>3, <1>4, <1>5, <1>6, <1>7, <1>8, <1>9, <1>10, <1>11, <1>12, <1>13, <1>14, <1>15, <1>16, SetsAssumption DEF Next

LEMMA AlwaysRoles == Spec => []Roles
<1>1. Init => Roles
  BY DEF Init, Roles
<1>2. TypeOK /\ Roles /\ [Next]_vars => Roles'
  BY StepRoles
<1> QED
  BY <1>1, <1>2, TypeCorrect, PTL DEF Spec

\* The thread of a session waits for its readers, and none comes after it: also of
\* sessions that were found when new, the thread destroys none that is held.
THEOREM HeldSessionsStay == Spec => []HeldStays
<1>1. Roles => HeldStays
  BY DEF Roles, HeldStays
<1> QED
  BY <1>1, AlwaysRoles, PTL

-----------------------------------------------------------------------------
(* The table.                                                              *)

LEMMA StepTable == TypeOK /\ Roles /\ NoDangling /\ [Next]_vars => NoDangling'
<1> SUFFICES ASSUME TypeOK, Roles, NoDangling, [Next]_vars PROVE NoDangling'
  OBVIOUS
<1>0. ASSUME UNCHANGED <<table, uuid>>, \A s \in InUse : s \in InUse' PROVE NoDangling'
  BY <1>0 DEF NoDangling
<1> USE DEF TypeOK, InUse
<1>1. ASSUME NEW r \in Requesters, NEW u \in Names \cup {None}, Check(r, u) PROVE NoDangling'
  BY <1>1, <1>0 DEF Check, manager
<1>2. ASSUME NEW r \in Requesters, Throttle(r) PROVE NoDangling'
  BY <1>2, <1>0 DEF Throttle, manager
<1>3. ASSUME NEW r \in Requesters, NEW s \in Sessions, Insert(r, s) PROVE NoDangling'
  BY <1>3, SetsAssumption DEF Insert, NoDangling, Uuids, Roles
<1>4. ASSUME NEW r \in Requesters, Launch(r) PROVE NoDangling'
  BY <1>4, <1>0 DEF Launch, manager, Return
<1>5. ASSUME NEW r \in Requesters, GiveUp(r) PROVE NoDangling'
  BY <1>5 DEF GiveUp, Return, Destroy, NoDangling
<1>6. ASSUME Tick PROVE NoDangling'
  BY <1>6, <1>0 DEF Tick, manager
<1>7. ASSUME NEW s \in Sessions, NEW u \in Names, SetUuid(s, u) PROVE NoDangling'
  BY <1>7, SetsAssumption DEF SetUuid, Renamed, NoDangling, Uuids
<1>8. ASSUME NEW s \in Sessions, HangUp(s) PROVE NoDangling'
  BY <1>8, <1>0 DEF HangUp, manager
<1>9. ASSUME NEW s \in Sessions, ThreadEnds(s) PROVE NoDangling'
  BY <1>9, <1>0 DEF ThreadEnds, manager
<1>10. ASSUME NEW s \in Sessions, ThreadDestroys(s) PROVE NoDangling'
  BY <1>10 DEF ThreadDestroys, Destroy, NoDangling
<1>11. ASSUME NEW h \in Readers, NEW u \in Uuids, Locate(h, u) PROVE NoDangling'
  BY <1>11, <1>0 DEF Locate, manager
<1>12. ASSUME NEW h \in Readers, Unlock(h) PROVE NoDangling'
  BY <1>12, <1>0 DEF Unlock, manager
<1>13. ASSUME NEW h \in Hupalls, HupallList(h) PROVE NoDangling'
  BY <1>13, <1>0 DEF HupallList, manager
<1>14. ASSUME NEW h \in Hupalls, NEW u \in Uuids, HupallLocate(h, u) PROVE NoDangling'
  BY <1>14, <1>0 DEF HupallLocate, manager
<1>15. ASSUME NEW h \in Hupalls, HupallHangUp(h) PROVE NoDangling'
  BY <1>15, <1>0 DEF HupallHangUp, manager
<1>16. ASSUME UNCHANGED vars PROVE NoDangling'
  BY <1>16, <1>0 DEF vars, manager
<1> QED
  BY <1>1, <1>2, <1>3, <1>4, <1>5, <1>6, <1>7, <1>8, <1>9, <1>10, <1>11, <1>12, <1>13, <1>14, <1>15, <1>16, SetsAssumption DEF Next

\* Whatever is created, renamed, given up and destroyed, also under one uuid twice,
\* an entry of the table is a session that lives and has that uuid.
THEOREM TableSound == Spec => []NoDangling
<1>1. Init => NoDangling
  BY SetsAssumption DEF Init, NoDangling, Uuids
<1> QED
  BY <1>1, StepTable, AlwaysRoles, TypeCorrect, PTL DEF Spec

-----------------------------------------------------------------------------
(* Uuids and the count.                                                    *)

LEMMA StepFindable ==
    ASSUME TypeOK, NoDangling, Roles, Findable, [Next]_vars PROVE Findable'
<1>0. ASSUME UNCHANGED <<table, uuid, clashed, twice>>, \A s \in InUse' : s \in InUse PROVE Findable'
  BY <1>0 DEF Findable, Contested
<1>00. ASSUME NEW s \in Sessions, life[s] # "none", Destroy(s), UNCHANGED <<uuid, clashed>>,
              \A q \in Sessions : life'[q] # "none" => life[q] # "none"
       PROVE  Findable'
  <2> SUFFICES ASSUME NEW q \in InUse', table'[uuid[q]] # q PROVE uuid[q] \in Contested'
    BY <1>00 DEF Findable
  <2>1. q \in InUse /\ q # s
    BY <1>00 DEF InUse, Destroy
  <2>2. Contested \subseteq Contested'
    BY <1>00 DEF Contested, Destroy
  <2>3. CASE table[uuid[q]] # q
    BY <2>1, <2>2, <2>3 DEF Findable
  <2>4. CASE table[uuid[q]] = q /\ uuid[q] # uuid[s]
    BY <1>00, <2>1, <2>4 DEF Destroy, TypeOK, InUse
  <2>5. CASE uuid[q] = uuid[s] /\ s \in freed
    BY <1>00, <2>5 DEF Destroy, Contested
  <2>6. CASE table[uuid[q]] = q /\ uuid[q] = uuid[s] /\ s \notin freed
    BY <1>00, <2>1, <2>2, <2>6 DEF Findable, InUse
  <2> QED
    BY <2>3, <2>4, <2>5, <2>6
<1> USE DEF TypeOK, InUse
<1>1. ASSUME NEW r \in Requesters, NEW u \in Names \cup {None}, Check(r, u) PROVE Findable'
  BY <1>1, <1>0 DEF Check, manager
<1>2. ASSUME NEW r \in Requesters, Throttle(r) PROVE Findable'
  BY <1>2, <1>0 DEF Throttle, manager
<1>3. ASSUME NEW r \in Requesters, NEW s \in Sessions, Insert(r, s) PROVE Findable'
  BY <1>3, SetsAssumption DEF Insert, Findable, Uuids, Roles, Contested
<1>4. ASSUME NEW r \in Requesters, Launch(r) PROVE Findable'
  BY <1>4, <1>0 DEF Launch, Return, manager, Roles
<1>5. ASSUME NEW r \in Requesters, GiveUp(r) PROVE Findable'
  BY <1>5, <1>00 DEF GiveUp, Return, Roles
<1>6. ASSUME Tick PROVE Findable'
  BY <1>6, <1>0 DEF Tick, manager
<1>7. ASSUME NEW s \in Sessions, NEW u \in Names, SetUuid(s, u) PROVE Findable'
  BY <1>7, SetsAssumption DEF SetUuid, Free, Renamed, Findable, Uuids, Roles, Contested
<1>8. ASSUME NEW s \in Sessions, HangUp(s) PROVE Findable'
  BY <1>8, <1>0 DEF HangUp, manager
<1>9. ASSUME NEW s \in Sessions, ThreadEnds(s) PROVE Findable'
  BY <1>9, <1>0 DEF ThreadEnds, manager
<1>10. ASSUME NEW s \in Sessions, ThreadDestroys(s) PROVE Findable'
  BY <1>10, <1>00 DEF ThreadDestroys
<1>11. ASSUME NEW h \in Readers, NEW u \in Uuids, Locate(h, u) PROVE Findable'
  BY <1>11, <1>0 DEF Locate, manager
<1>12. ASSUME NEW h \in Readers, Unlock(h) PROVE Findable'
  BY <1>12, <1>0 DEF Unlock, manager
<1>13. ASSUME NEW h \in Hupalls, HupallList(h) PROVE Findable'
  BY <1>13, <1>0 DEF HupallList, manager
<1>14. ASSUME NEW h \in Hupalls, NEW u \in Uuids, HupallLocate(h, u) PROVE Findable'
  BY <1>14, <1>0 DEF HupallLocate, manager
<1>15. ASSUME NEW h \in Hupalls, HupallHangUp(h) PROVE Findable'
  BY <1>15, <1>0, SetsAssumption DEF HupallHangUp, manager, Roles
<1>16. ASSUME UNCHANGED vars PROVE Findable'
  BY <1>16, <1>0 DEF vars, manager
<1> QED
  BY <1>1, <1>2, <1>3, <1>4, <1>5, <1>6, <1>7, <1>8, <1>9, <1>10, <1>11, <1>12, <1>13, <1>14, <1>15, <1>16, SetsAssumption DEF Next

\* A session can be missing in the table only under a uuid that a request took from
\* another session, or under which a session was destroyed twice.
THEOREM SessionsFound == Spec => []Findable
<1>1. Init => Findable
  BY DEF Init, Findable, InUse
<1>2. TypeOK /\ NoDangling /\ Roles /\ Findable /\ [Next]_vars => Findable'
  BY StepFindable
<1> QED
  BY <1>1, <1>2, TypeCorrect, TableSound, AlwaysRoles, PTL DEF Spec

\* What a step does to the sessions in use: nothing, one more, one less, or the
\* second destruction of one.
LEMMA InUseStep ==
    ASSUME TypeOK, Roles, [Next]_vars
    PROVE  \/ /\ InUse' = InUse /\ session_count' = session_count
              /\ unlimited' = unlimited /\ twice' = twice
           \/ \E r \in Requesters, s \in Sessions \ InUse :
                 /\ Insert(r, s)
                 /\ InUse' = InUse \cup {s} /\ session_count' = session_count + 1
           \/ \E s \in InUse : /\ InUse' = InUse \ {s} /\ session_count' = CountAfter(s)
                              /\ unlimited' = unlimited /\ twice' = twice
           \/ \E s \in Sessions \ twice :
                 /\ InUse' = InUse /\ session_count' = CountAfter(s)
                 /\ unlimited' = unlimited /\ twice' = twice \cup {s}
<1> DEFINE Same == /\ InUse' = InUse /\ session_count' = session_count
                   /\ unlimited' = unlimited /\ twice' = twice
           More == \E r \in Requesters, s \in Sessions \ InUse :
                      /\ Insert(r, s)
                      /\ InUse' = InUse \cup {s} /\ session_count' = session_count + 1
           Less == \E s \in InUse : /\ InUse' = InUse \ {s} /\ session_count' = CountAfter(s)
                                   /\ unlimited' = unlimited /\ twice' = twice
           Again == \E s \in Sessions \ twice :
                       /\ InUse' = InUse /\ session_count' = CountAfter(s)
                       /\ unlimited' = unlimited /\ twice' = twice \cup {s}
<1> SUFFICES Same \/ More \/ Less \/ Again
  OBVIOUS
<1>0. ASSUME NEW s \in Sessions, life[s] # "none", s \notin twice, Destroy(s), unlimited' = unlimited,
             \A q \in Sessions : (life'[q] = "none") <=> (life[q] = "none")
      PROVE  Same \/ More \/ Less \/ Again
  <2>1. CASE s \in freed
    <3>1. InUse' = InUse /\ session_count' = CountAfter(s) /\ twice' = twice \cup {s}
      BY <1>0, <2>1 DEF Destroy, InUse
    <3> QED
      BY <1>0, <3>1
  <2>2. CASE s \notin freed
    <3>1. s \in InUse /\ InUse' = InUse \ {s} /\ session_count' = CountAfter(s) /\ twice' = twice
      BY <1>0, <2>2 DEF Destroy, InUse
    <3> QED
      BY <1>0, <3>1
  <2> QED
    BY <2>1, <2>2
<1> USE DEF TypeOK, InUse
<1>1. ASSUME NEW r \in Requesters, NEW u \in Names \cup {None}, Check(r, u) PROVE Same \/ More \/ Less \/ Again
  BY <1>1 DEF Check, manager
<1>2. ASSUME NEW r \in Requesters, Throttle(r) PROVE Same \/ More \/ Less \/ Again
  BY <1>2 DEF Throttle, manager
<1>3. ASSUME NEW r \in Requesters, NEW s \in Sessions, Insert(r, s) PROVE Same \/ More \/ Less \/ Again
  <2>1. InUse' = InUse \cup {s} /\ s \notin InUse /\ session_count' = session_count + 1
    BY <1>3 DEF Insert, Roles
  <2> QED
    BY <1>3, <2>1
<1>4. ASSUME NEW r \in Requesters, Launch(r) PROVE Same \/ More \/ Less \/ Again
  BY <1>4 DEF Launch, Return, manager, Roles
<1>5. ASSUME NEW r \in Requesters, GiveUp(r) PROVE Same \/ More \/ Less \/ Again
  <2> DEFINE s == mine[r]
  <2>1. s \in Sessions /\ life[s] # "none" /\ s \notin twice
    BY <1>5 DEF GiveUp, Return, Roles
  <2>2. Destroy(s) /\ UNCHANGED <<life, unlimited>>
    BY <1>5 DEF GiveUp, Return
  <2> HIDE DEF s
  <2> QED
    BY <1>0, <2>1, <2>2
<1>6. ASSUME Tick PROVE Same \/ More \/ Less \/ Again
  BY <1>6 DEF Tick, manager
<1>7. ASSUME NEW s \in Sessions, NEW u \in Names, SetUuid(s, u) PROVE Same \/ More \/ Less \/ Again
  BY <1>7 DEF SetUuid, manager
<1>8. ASSUME NEW s \in Sessions, HangUp(s) PROVE Same \/ More \/ Less \/ Again
  BY <1>8 DEF HangUp, manager
<1>9. ASSUME NEW s \in Sessions, ThreadEnds(s) PROVE Same \/ More \/ Less \/ Again
  BY <1>9 DEF ThreadEnds, manager
<1>10. ASSUME NEW s \in Sessions, ThreadDestroys(s) PROVE Same \/ More \/ Less \/ Again
  <2>1. life[s] # "none" /\ s \notin twice
    BY <1>10 DEF ThreadDestroys, Roles
  <2>2. Destroy(s) /\ unlimited' = unlimited /\ \A q \in Sessions : (life'[q] = "none") <=> (life[q] = "none")
    BY <1>10 DEF ThreadDestroys
  <2> QED
    BY <1>0, <2>1, <2>2
<1>11. ASSUME NEW h \in Readers, NEW u \in Uuids, Locate(h, u) PROVE Same \/ More \/ Less \/ Again
  BY <1>11 DEF Locate, manager
<1>12. ASSUME NEW h \in Readers, Unlock(h) PROVE Same \/ More \/ Less \/ Again
  BY <1>12 DEF Unlock, manager
<1>13. ASSUME NEW h \in Hupalls, HupallList(h) PROVE Same \/ More \/ Less \/ Again
  BY <1>13 DEF HupallList, manager
<1>14. ASSUME NEW h \in Hupalls, NEW u \in Uuids, HupallLocate(h, u) PROVE Same \/ More \/ Less \/ Again
  BY <1>14 DEF HupallLocate, manager
<1>15. ASSUME NEW h \in Hupalls, HupallHangUp(h) PROVE Same \/ More \/ Less \/ Again
  BY <1>15, SetsAssumption DEF HupallHangUp, manager, Roles
<1>16. ASSUME UNCHANGED vars PROVE Same \/ More \/ Less \/ Again
  BY <1>16 DEF vars, manager
<1> QED
  BY <1>1, <1>2, <1>3, <1>4, <1>5, <1>6, <1>7, <1>8, <1>9, <1>10, <1>11, <1>12, <1>13, <1>14, <1>15, <1>16, SetsAssumption DEF Next

LEMMA InUseFinite ==
    ASSUME NEW S, S \subseteq InUse
    PROVE  IsFiniteSet(S) /\ Cardinality(S) \in Nat /\ Cardinality(S) <= Cardinality(InUse)
           /\ IsFiniteSet(InUse) /\ Cardinality(InUse) \in Nat
<1>1. IsFiniteSet(InUse)
  BY SetsAssumption, FS_Subset DEF InUse
<1> QED
  BY <1>1, FS_Subset, FS_CardinalityType

LEMMA TwiceFinite ==
    ASSUME TypeOK
    PROVE  IsFiniteSet(twice) /\ Cardinality(twice) \in Nat
BY SetsAssumption, FS_Subset, FS_CardinalityType DEF TypeOK

LEMMA StepCount ==
    ASSUME TypeOK, Roles, CountExact, [Next]_vars PROVE CountExact'
<1>0. /\ IsFiniteSet(InUse) /\ Cardinality(InUse) \in Nat
      /\ IsFiniteSet(twice) /\ Cardinality(twice) \in Nat /\ session_count \in Nat
  BY InUseFinite, TwiceFinite DEF TypeOK
<1>1. CASE InUse' = InUse /\ session_count' = session_count /\ twice' = twice
  BY <1>1 DEF CountExact
<1>2. ASSUME NEW r, NEW s \in Sessions \ InUse, Insert(r, s),
             InUse' = InUse \cup {s}, session_count' = session_count + 1
      PROVE  CountExact'
  <2>1. Cardinality(InUse') = Cardinality(InUse) + 1
    BY <1>0, <1>2, FS_AddElement
  <2>2. twice' = twice
    BY <1>2 DEF Insert
  <2> QED
    BY <1>0, <1>2, <2>1, <2>2 DEF CountExact
<1>3. ASSUME NEW s \in InUse, InUse' = InUse \ {s}, session_count' = CountAfter(s), twice' = twice
      PROVE  CountExact'
  <2>1. Cardinality(InUse \ {s}) = Cardinality(InUse) - 1
    BY <1>0, FS_RemoveElement
  <2>2. Cardinality(InUse) # 0
    BY <1>0, FS_EmptySet
  <2> QED
    BY <1>0, <1>3, <2>1, <2>2 DEF CountExact, CountAfter
<1>4. ASSUME NEW s \in Sessions \ twice, InUse' = InUse, session_count' = CountAfter(s),
             twice' = twice \cup {s}
      PROVE  CountExact'
  <2>1. Cardinality(twice') = Cardinality(twice) + 1
    BY <1>0, <1>4, FS_AddElement
  <2> QED
    BY <1>0, <1>4, <2>1 DEF CountExact, CountAfter
<1> QED
  BY <1>1, <1>2, <1>3, <1>4, InUseStep

\* session_count is the number of sessions, also of those that have lost their entry
\* in the table, less at most one for each session that was destroyed twice.
THEOREM CountCorrect == Spec => []CountExact
<1>1. Init => CountExact
  <2> SUFFICES ASSUME Init PROVE CountExact
    OBVIOUS
  <2>1. InUse = {} /\ twice = {}
    BY DEF Init, InUse
  <2>2. Cardinality(InUse) = 0 /\ Cardinality(twice) = 0
    BY <2>1, FS_EmptySet
  <2> QED
    BY <2>2 DEF Init, CountExact
<1>2. TypeOK /\ Roles /\ CountExact /\ [Next]_vars => CountExact'
  BY StepCount
<1> QED
  BY <1>1, <1>2, TypeCorrect, AlwaysRoles, PTL DEF Spec

-----------------------------------------------------------------------------
(* The limit.                                                              *)

Limited == Requesters \ NoLimits
Passed == {r \in Limited : pc[r] = "passed"}

\* Requests that have passed the limit will still create a session each.
LimitInv ==
    Requesters # NoLimits =>
        Cardinality(InUse \ unlimited) + Cardinality(Passed)
            < session_limit + Cardinality(Limited) + Cardinality(twice)

LEMMA LimitedFinite ==
    ASSUME NEW S, S \subseteq Limited
    PROVE  IsFiniteSet(S) /\ Cardinality(S) \in Nat /\ Cardinality(S) <= Cardinality(Limited)
           /\ Cardinality(Limited) \in Nat
<1>1. IsFiniteSet(Limited)
  BY SetsAssumption, FS_Subset DEF Limited
<1> QED
  BY <1>1, FS_Subset, FS_CardinalityType

\* Only Throttle lets a request pass.
LEMMA PassedStep ==
    ASSUME TypeOK, Next, ~\E r \in Requesters : Throttle(r) PROVE Passed' \subseteq Passed
<1> SUFFICES ASSUME NEW q \in Requesters, pc'[q] = "passed" PROVE pc[q] = "passed"
  BY DEF Passed, Limited
<1>1. CASE UNCHANGED pc
  BY <1>1
<1>2. ASSUME NEW r \in Requesters, NEW u, Check(r, u) PROVE pc[q] = "passed"
  BY <1>2 DEF Check, TypeOK
<1>3. ASSUME NEW r \in Requesters, NEW s, Insert(r, s) PROVE pc[q] = "passed"
  BY <1>3 DEF Insert, TypeOK
<1>4. ASSUME NEW r \in Requesters, Return(r) PROVE pc[q] = "passed"
  BY <1>4 DEF Return, TypeOK
<1> QED
  BY <1>1, <1>2, <1>3, <1>4
  DEF Next, Launch, GiveUp, Tick, SetUuid, HangUp, ThreadEnds, ThreadDestroys, Locate, Unlock,
      HupallList, HupallLocate, HupallHangUp, requests

LEMMA StepLimit ==
    ASSUME TypeOK, Roles, CountExact, LimitInv, [Next]_vars PROVE LimitInv'
<1> SUFFICES ASSUME Requesters # NoLimits PROVE LimitInv'
  BY DEF LimitInv
<1> DEFINE L == InUse \ unlimited
<1> DEFINE Bound == session_limit + Cardinality(Limited) + Cardinality(twice)
<1>0. /\ Cardinality(L) + Cardinality(Passed) < Bound
      /\ Cardinality(L) \in Nat /\ Cardinality(L) <= Cardinality(InUse)
      /\ Cardinality(Passed) \in Nat /\ Cardinality(Limited) \in Nat /\ session_limit \in Nat
      /\ IsFiniteSet(L) /\ IsFiniteSet(Passed) /\ Cardinality(InUse) \in Nat
      /\ IsFiniteSet(twice) /\ Cardinality(twice) \in Nat
  BY InUseFinite, LimitedFinite, TwiceFinite, LimitsAssumption DEF LimitInv, Passed
<1>1. ASSUME L' \subseteq L, Passed' \subseteq Passed, Cardinality(twice') \in Nat,
             Cardinality(twice') >= Cardinality(twice)
      PROVE  LimitInv'
  <2>1. /\ Cardinality(L') <= Cardinality(L) /\ Cardinality(L') \in Nat
        /\ Cardinality(Passed') <= Cardinality(Passed) /\ Cardinality(Passed') \in Nat
    BY <1>0, <1>1, FS_Subset, FS_CardinalityType
  <2> HIDE DEF L
  <2>2. Cardinality(L') + Cardinality(Passed') < session_limit + Cardinality(Limited) + Cardinality(twice')
    BY <1>0, <1>1, <2>1
  <2> QED
    BY <2>2 DEF LimitInv, L, Limited
<1>2. ASSUME NEW r \in Requesters, Throttle(r) PROVE LimitInv'
  <2>1. InUse' = InUse /\ unlimited' = unlimited /\ twice' = twice
    BY <1>2 DEF Throttle, InUse, manager
  <2>2. CASE r \in NoLimits \/ OverRate \/ OverLimit
    <3>1. Passed' = Passed
      BY <1>2, <2>2 DEF Throttle, Passed, Limited, TypeOK
    <3> QED
      BY <1>0, <1>1, <2>1, <3>1
  <2>3. CASE r \notin NoLimits /\ ~OverLimit
    <3>1. Passed' \subseteq Limited
      BY DEF Passed, Limited
    <3>2. Cardinality(Passed') \in Nat /\ Cardinality(Passed') <= Cardinality(Limited)
      BY <3>1, LimitedFinite
    <3>3. Cardinality(InUse) < session_limit + Cardinality(twice)
      BY <1>0, <2>3 DEF OverLimit, CountExact, TypeOK
    <3>4. Cardinality(L') = Cardinality(L)
      BY <2>1
    <3> HIDE DEF L
    <3>5. Cardinality(L') + Cardinality(Passed') < Bound
      BY <1>0, <3>2, <3>3, <3>4
    <3> QED
      BY <2>1, <3>5 DEF LimitInv, L, Limited
  <2> QED
    BY <2>2, <2>3
<1>3. ASSUME NEW r \in Requesters, NEW s \in Sessions \ InUse, Insert(r, s), InUse' = InUse \cup {s}
      PROVE  LimitInv'
  <2>1. s \notin L /\ s \notin unlimited /\ twice' = twice
    BY <1>3 DEF Insert, Roles, InUse
  <2>2. CASE r \in NoLimits
    <3>1. L' = L
      BY <1>3, <2>1, <2>2 DEF Insert
    <3>2. Passed' = Passed
      BY <1>3, <2>2 DEF Insert, Passed, Limited, TypeOK
    <3> QED
      BY <1>0, <1>1, <2>1, <3>1, <3>2
  <2>3. CASE r \notin NoLimits
    <3>1. L' = L \cup {s}
      BY <1>3, <2>1, <2>3 DEF Insert
    <3>2. Passed' = Passed \ {r} /\ r \in Passed
      BY <1>3, <2>3 DEF Insert, Passed, Limited, TypeOK
    <3>3. Cardinality(L') = Cardinality(L) + 1
      BY <1>0, <2>1, <3>1, FS_AddElement
    <3>4. Cardinality(Passed') = Cardinality(Passed) - 1
      BY <1>0, <3>2, FS_RemoveElement
    <3> HIDE DEF L
    <3>5. Cardinality(L') + Cardinality(Passed') < Bound
      BY <1>0, <3>3, <3>4
    <3> QED
      BY <2>1, <3>5 DEF LimitInv, L, Limited
  <2> QED
    BY <2>2, <2>3
<1>4. ASSUME ~\E r \in Requesters : Throttle(r), L' \subseteq L, Cardinality(twice') \in Nat,
             Cardinality(twice') >= Cardinality(twice)
      PROVE  LimitInv'
  <2>1. CASE Next
    BY <1>1, <1>4, <2>1, PassedStep
  <2>2. CASE UNCHANGED vars
    BY <1>1, <1>4, <2>2 DEF vars, requests, Passed
  <2> QED
    BY <2>1, <2>2
<1>5. CASE InUse' = InUse /\ unlimited' = unlimited /\ twice' = twice
  BY <1>0, <1>2, <1>4, <1>5
<1>6. ASSUME NEW s \in InUse, InUse' = InUse \ {s}, unlimited' = unlimited, twice' = twice
      PROVE  LimitInv'
  BY <1>0, <1>2, <1>4, <1>6
<1>7. ASSUME NEW s \in Sessions \ twice, InUse' = InUse, unlimited' = unlimited,
             twice' = twice \cup {s}
      PROVE  LimitInv'
  <2>1. Cardinality(twice') = Cardinality(twice) + 1
    BY <1>0, <1>7, FS_AddElement
  <2> QED
    BY <1>0, <1>2, <1>4, <1>7, <2>1
<1> QED
  BY <1>3, <1>5, <1>6, <1>7, InUseStep

\* The sessions that count exceed the limit by less than the number of threads that
\* create sessions, and that of the sessions that were destroyed twice.
THEOREM LimitKept == Spec => []LimitBounded
<1>1. Init => LimitInv
  <2> SUFFICES ASSUME Init, Requesters # NoLimits PROVE LimitInv
    BY DEF LimitInv
  <2>1. InUse \ unlimited = {} /\ Passed = {} /\ Limited # {} /\ twice = {}
    BY SetsAssumption DEF Init, InUse, Passed, Limited
  <2>2. Cardinality(Limited) \in Nat /\ Cardinality(Limited) # 0
    BY <2>1, LimitedFinite, FS_EmptySet
  <2>3. Cardinality(InUse \ unlimited) = 0 /\ Cardinality(Passed) = 0 /\ Cardinality(twice) = 0
    BY <2>1, FS_EmptySet
  <2> QED
    BY <2>2, <2>3, LimitsAssumption DEF LimitInv
<1>2. TypeOK /\ Roles /\ CountExact /\ LimitInv /\ [Next]_vars => LimitInv'
  BY StepLimit
<1>3. TypeOK /\ LimitInv => LimitBounded
  <2> SUFFICES ASSUME TypeOK, LimitInv PROVE LimitBounded
    OBVIOUS
  <2>1. Cardinality(Passed) \in Nat /\ Cardinality(Limited) \in Nat
    BY LimitedFinite DEF Passed
  <2>2. Cardinality(InUse \ unlimited) \in Nat /\ Cardinality(twice) \in Nat
    BY InUseFinite, TwiceFinite
  <2> QED
    BY <2>1, <2>2, LimitsAssumption DEF LimitInv, LimitBounded, Limited
<1> QED
  BY <1>1, <1>2, <1>3, TypeCorrect, AlwaysRoles, CountCorrect, PTL DEF Spec

-----------------------------------------------------------------------------
(* switch_core_session_hupall.                                             *)

\* A session on the list that is still up is yet to come, or held, or contested.
HupallInv ==
    \A h \in Hupalls : \A s \in listed[h] \ freed :
        life[s] \in {"new", "up"} => uuid[s] \in Contested \cup todo[h] \/ hold[h] = s

LEMMA StepHupall ==
    ASSUME TypeOK, NoDangling, Roles, Findable, HupallInv, [Next]_vars PROVE HupallInv'
<1>0. ASSUME UNCHANGED <<todo, hold, listed, uuid, clashed>>, freed \subseteq freed', twice \subseteq twice',
             \A h \in Hupalls : \A s \in listed[h] :
                life'[s] \in {"new", "up"} => life[s] \in {"new", "up"}
      PROVE  HupallInv'
  BY <1>0 DEF HupallInv, Contested
<1> USE DEF TypeOK, Roles
<1>1. ASSUME NEW r \in Requesters, NEW u \in Names \cup {None}, Check(r, u) PROVE HupallInv'
  BY <1>1, <1>0, SetsAssumption DEF Check, manager, lookups
<1>2. ASSUME NEW r \in Requesters, Throttle(r) PROVE HupallInv'
  BY <1>2, <1>0, SetsAssumption DEF Throttle, manager, lookups
<1>3. ASSUME NEW r \in Requesters, NEW s \in Sessions, Insert(r, s) PROVE HupallInv'
  BY <1>3, SetsAssumption DEF Insert, HupallInv, Contested, lookups
<1>4. ASSUME NEW r \in Requesters, Launch(r) PROVE HupallInv'
  BY <1>4, <1>0, SetsAssumption DEF Launch, Return, manager, lookups
<1>5. ASSUME NEW r \in Requesters, GiveUp(r) PROVE HupallInv'
  BY <1>5, <1>0, SetsAssumption DEF GiveUp, Return, Destroy, lookups
<1>6. ASSUME Tick PROVE HupallInv'
  BY <1>6, <1>0, SetsAssumption DEF Tick, manager, lookups
<1>7. ASSUME NEW s \in Sessions, NEW u \in Names, SetUuid(s, u) PROVE HupallInv'
  BY <1>7, SetsAssumption DEF SetUuid, HupallInv, Contested
<1>8. ASSUME NEW s \in Sessions, HangUp(s) PROVE HupallInv'
  BY <1>8, <1>0, SetsAssumption DEF HangUp, manager, lookups
<1>9. ASSUME NEW s \in Sessions, ThreadEnds(s) PROVE HupallInv'
  BY <1>9, <1>0, SetsAssumption DEF ThreadEnds, manager, lookups
<1>10. ASSUME NEW s \in Sessions, ThreadDestroys(s) PROVE HupallInv'
  BY <1>10, <1>0, SetsAssumption DEF ThreadDestroys, Destroy, lookups
<1>11. ASSUME NEW h \in Readers \ Hupalls, NEW u \in Uuids, Locate(h, u) PROVE HupallInv'
  BY <1>11, SetsAssumption DEF Locate, HupallInv, Contested, manager
<1>12. ASSUME NEW h \in Readers \ Hupalls, Unlock(h) PROVE HupallInv'
  BY <1>12, SetsAssumption DEF Unlock, HupallInv, Contested, manager
<1>13. ASSUME NEW h \in Hupalls, HupallList(h) PROVE HupallInv'
  BY <1>13, SetsAssumption DEF HupallList, HupallInv, Contested, manager
<1>14. ASSUME NEW h \in Hupalls, NEW u \in Uuids, HupallLocate(h, u) PROVE HupallInv'
  BY <1>14, SetsAssumption DEF HupallLocate, Rest, Readable, HupallInv, Findable, InUse, Contested, manager
<1>15. ASSUME NEW h \in Hupalls, HupallHangUp(h) PROVE HupallInv'
  BY <1>15, SetsAssumption DEF HupallHangUp, HupallInv, Contested, manager
<1>16. ASSUME UNCHANGED vars PROVE HupallInv'
  BY <1>16, <1>0, SetsAssumption DEF vars, manager, lookups
<1> QED
  BY <1>1, <1>2, <1>3, <1>4, <1>5, <1>6, <1>7, <1>8, <1>9, <1>10, <1>11, <1>12, <1>13, <1>14, <1>15, <1>16, SetsAssumption DEF Next

\* A hupall that is through leaves no session up that was on its list, launched or
\* not, but renamed ones and those with a contested uuid.
THEOREM HupallComplete == Spec => []HupallReaches
<1>1. Init => HupallInv
  BY SetsAssumption DEF Init, HupallInv
<1>2. TypeOK /\ NoDangling /\ Roles /\ Findable /\ HupallInv /\ [Next]_vars => HupallInv'
  BY StepHupall
<1>3. TypeOK /\ HupallInv => HupallReaches
  BY SetsAssumption DEF HupallInv, HupallReaches, TypeOK
<1> QED
  BY <1>1, <1>2, <1>3, TypeCorrect, TableSound, AlwaysRoles, SessionsFound, PTL DEF Spec

=============================================================================
