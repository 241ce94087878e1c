------------------------- MODULE MediaPorts_proofs -------------------------
(***************************************************************************)
(* Theorems about MediaPorts, for every range of ports and every finite    *)
(* set of engines: the count of used ports is exact; and if RTP sessions   *)
(* do not fail to start, ports are leased to one engine at a time, none is *)
(* lost, and a request fails only when all are taken.                      *)
(***************************************************************************)
EXTENDS MediaPorts, FiniteSetTheorems, TLAPS

-----------------------------------------------------------------------------
(* The arithmetic of places and ports.                                     *)

\* The range after rounding.
LEMMA Rounding ==
    /\ start \in Nat /\ start > 0 /\ start % 2 = 0 /\ 2 * (start \div 2) = start
    /\ start \in START_PORT .. START_PORT + 1
    /\ end \in END_PORT - 1 .. END_PORT /\ end % 2 = 0
    /\ track_len \in Nat
<1>0. \A p \in Nat : p % 2 \in 0 .. 1 /\ (p + (p % 2)) % 2 = 0 /\ (p - (p % 2)) % 2 = 0
  OBVIOUS
<1>1. start \in Nat /\ start > 0 /\ start % 2 = 0 /\ start \in START_PORT .. START_PORT + 1
  <2>1. START_PORT \in Nat /\ START_PORT > 0
    BY PortAssumption
  <2>2. START_PORT % 2 \in 0 .. 1 /\ start % 2 = 0
    BY <1>0, <2>1 DEF start
  <2> QED
    BY <2>1, <2>2 DEF start
<1>2. end \in Int /\ end % 2 = 0 /\ end \in END_PORT - 1 .. END_PORT
  <2>1. END_PORT \in Nat
    BY PortAssumption
  <2>2. END_PORT % 2 \in 0 .. 1 /\ end % 2 = 0
    BY <1>0, <2>1 DEF end
  <2> QED
    BY <2>1, <2>2 DEF end
<1>3. 2 * (start \div 2) = start
  BY <1>1
<1>4. (end - start) + 2 >= 0 /\ (end - start) + 2 \in Int
  BY <1>1, <1>2, PortAssumption
<1>5. track_len \in Nat
  BY <1>4 DEF track_len
<1> QED
  BY <1>1, <1>2, <1>3, <1>5

\* A place and its port determine each other, and free_port finds the place that
\* request_port took.
LEMMA PlaceOfPort ==
    /\ \A i \in Index : /\ PortOf(i) \in Port /\ PortOf(i) # NoPort
                        /\ PortOf(i) >= start /\ IndexOf(PortOf(i)) = i
    /\ \A p \in Port : /\ IndexOf(p) \in Index /\ PortOf(IndexOf(p)) = p
                       /\ p \in Nat /\ p >= start /\ p # NoPort
<1>1. ASSUME NEW i \in Index
      PROVE  /\ PortOf(i) = 2 * i + start /\ PortOf(i) \in Nat /\ PortOf(i) >= start
             /\ PortOf(i) # NoPort /\ IndexOf(PortOf(i)) = i
  <2>1. i \in Nat
    BY Rounding DEF Index
  <2>2. start \div 2 \in Int
    BY Rounding
  <2>3. PortOf(i) = 2 * i + start
    BY <2>1, <2>2, Rounding DEF PortOf
  <2>4. PortOf(i) - start = 2 * i
    BY <2>1, <2>3, Rounding
  <2>5. (2 * i) \div 2 = i
    BY <2>1
  <2>6. IndexOf(PortOf(i)) = i
    BY <2>4, <2>5 DEF IndexOf
  <2>7. PortOf(i) \in Nat /\ PortOf(i) >= start /\ PortOf(i) # 0
    BY <2>1, <2>3, Rounding
  <2> QED
    BY <2>3, <2>6, <2>7 DEF NoPort
<1>2. \A i \in Index : PortOf(i) \in Port
  BY DEF Port
<1>3. ASSUME NEW p \in Port
      PROVE  /\ IndexOf(p) \in Index /\ PortOf(IndexOf(p)) = p
             /\ p \in Nat /\ p >= start /\ p # NoPort
  <2>1. PICK i \in Index : p = PortOf(i)
    BY DEF Port
  <2> QED
    BY <2>1, <1>1
<1> QED
  BY <1>1, <1>2, <1>3

\* Every port that is handed out is even and in the configured range.
THEOREM PortsInRange ==
    \A p \in Port : p % 2 = 0 /\ p \in START_PORT .. END_PORT
<1> SUFFICES ASSUME NEW p \in Port
             PROVE  p % 2 = 0 /\ p \in START_PORT .. END_PORT
  OBVIOUS
<1>1. PICK i \in Index : p = PortOf(i)
  BY DEF Port
<1>2. i \in Nat /\ i <= track_len - 1
  BY Rounding DEF Index
<1>3. PortOf(i) = 2 * (i + start \div 2) /\ start \div 2 \in Nat
  BY Rounding DEF PortOf
<1>4. p % 2 = 0
  BY <1>1, <1>2, <1>3
<1>5. p = 2 * i + start
  BY <1>1, <1>2, <1>3, Rounding
<1>6. 2 * track_len <= (end - start) + 2
  BY Rounding DEF track_len
<1>7. p <= end
  BY <1>2, <1>5, <1>6, Rounding
<1> QED
  BY <1>2, <1>4, <1>5, <1>7, Rounding, PortAssumption

-----------------------------------------------------------------------------
(* Types, the search, and what an operation does to the used places.       *)

\* TypeOK, but for the count, which is a natural number because it is exact.
Types ==
    /\ track \in [Index -> Cooling .. 1]
    /\ track_used \in Int
    /\ at \in Label
    /\ index \in Nat
    /\ tries \in 0 .. track_len
    /\ local_sdp_port \in [Engines -> Port \cup {NoPort}]
    /\ rtp \in [Engines -> RtpLabel]
    /\ pc \in [Engines -> EngineLabel]
    /\ foreign \subseteq Port
    /\ binds \in Nat /\ fails \in Nat /\ binds + fails <= MaxFaults

Used == {i \in Index : track[i] = 1}

\* A release empties the place of the port if it was used, and nothing else.
LEMMA FreeEffect ==
    ASSUME Types, NEW p \in Port \cup {NoPort}, FreePort(p)
    PROVE  /\ track' \in [Index -> Cooling .. 1] /\ track_used' \in Int
           /\ at = "none" /\ at' = at /\ index' = index /\ tries' = tries
           /\ \/ /\ p \in Port /\ IndexOf(p) \in Used /\ Used' = Used \ {IndexOf(p)}
                 /\ track_used' = track_used - 1
              \/ /\ track' = track /\ track_used' = track_used
                 /\ p \in Port => IndexOf(p) \notin Used
<1>0. at = "none" /\ at' = at /\ index' = index /\ tries' = tries
  BY DEF FreePort, search
<1>1. CASE p \in Port /\ track[IndexOf(p)] > 0
  <2>1. IndexOf(p) \in Index /\ p >= start
    BY <1>1, PlaceOfPort
  <2>2. track[IndexOf(p)] = 1
    BY <1>1, <2>1 DEF Types, Cooling
  <2>3. track' = [track EXCEPT ![IndexOf(p)] = Cooling] /\ track_used' = track_used - 1
    BY <1>1, <2>1 DEF FreePort, InUse
  <2>4. track' \in [Index -> Cooling .. 1]
    BY <2>1, <2>3 DEF Types, Cooling
  <2>5. Used' = Used \ {IndexOf(p)}
    BY <2>1, <2>3 DEF Types, Used, Cooling
  <2> QED
    BY <1>0, <1>1, <2>1, <2>2, <2>3, <2>4, <2>5 DEF Types, Used
<1>2. CASE p \in Port /\ ~(track[IndexOf(p)] > 0)
  <2>1. track' = track /\ track_used' = track_used
    BY <1>2 DEF FreePort, InUse
  <2> QED
    BY <1>0, <1>2, <2>1 DEF Types, Used
<1>3. CASE p \notin Port
  <2>1. p = 0 /\ ~(p >= start)
    BY <1>3, Rounding DEF NoPort
  <2>2. track' = track /\ track_used' = track_used
    BY <2>1 DEF FreePort, InUse
  <2> QED
    BY <1>0, <1>3, <2>2 DEF Types
<1> QED
  BY <1>1, <1>2, <1>3

\* A step of the search changes no entry from or to used.
LEMMA SearchEffect ==
    ASSUME Types, SearchInv, SearchStep
    PROVE  /\ Types' /\ SearchInv' /\ Used' = Used /\ track_used' = track_used
           /\ UNCHANGED <<engines, outside>>
<1>0. UNCHANGED <<engines, outside>>
  BY DEF SearchStep
<1>1. ASSUME NEW i \in Index, Pick(i)
      PROVE  Types' /\ SearchInv' /\ Used' = Used /\ track_used' = track_used
  <2>1. i \in Nat /\ 0 <= track_len
    BY Rounding DEF Index
  <2> QED
    BY <1>0, <1>1, <2>1, Rounding
       DEF Pick, Types, SearchInv, Used, engines, outside, Label
<1>2. ASSUME Walk
      PROVE  Types' /\ SearchInv' /\ Used' = Used /\ track_used' = track_used
  <2>1. index \in Index /\ index' \in Index /\ index' \in Nat
    BY <1>2, Rounding DEF Walk, SearchInv, Index
  <2>2. track' \in [Index -> Cooling .. 1] /\ \A i \in Index : track'[i] = 1 <=> track[i] = 1
    BY <1>2, <2>1 DEF Walk, Passed, Types, Cooling
  <2>3. tries' \in 0 .. track_len
    BY <1>2, Rounding DEF Walk, Types
  <2>4. at = "walk" /\ at' = at /\ track_used' = track_used
    BY <1>2 DEF Walk
  <2> QED
    BY <1>0, <2>1, <2>2, <2>3, <2>4
       DEF Types, SearchInv, Used, engines, outside, Label
<1>3. ASSUME Arrive
      PROVE  Types' /\ SearchInv' /\ Used' = Used /\ track_used' = track_used
  <2>1. at = "walk" /\ at' \in {"try", "pick"} /\ UNCHANGED <<track, track_used>>
    BY <1>3 DEF Arrive, Forget
  <2>2. index' \in Nat /\ tries' \in 0 .. track_len
    BY <1>3, Rounding DEF Arrive, Forget, Types
  <2>3. at' = "try" => index' = index /\ index \in Index /\ track[index] = 0
    BY <1>3, Rounding DEF Arrive, Forget, Types, SearchInv
  <2> QED
    BY <1>0, <2>1, <2>2, <2>3 DEF Types, SearchInv, Used, engines, outside, Label
<1>4. ASSUME CoolDown
      PROVE  Types' /\ SearchInv' /\ Used' = Used /\ track_used' = track_used
  <2>1. index \in Index /\ track[index] = 0
    BY <1>4 DEF CoolDown, SearchInv
  <2>2. at' = "pick" /\ index' = 0 /\ tries' = 0 /\ track_used' = track_used
    BY <1>4 DEF CoolDown, Forget
  <2>3. track' \in [Index -> Cooling .. 1] /\ \A i \in Index : track'[i] = 1 <=> track[i] = 1
    BY <1>4, <2>1 DEF CoolDown, Types, Cooling
  <2> QED
    BY <1>0, <2>2, <2>3, Rounding DEF Types, SearchInv, Used, engines, outside, Label
<1> QED
  BY <1>0, <1>1, <1>2, <1>3, <1>4 DEF SearchStep

\* A port that is handed out was not used.
LEMMA TakeEffect ==
    ASSUME Types, SearchInv, Take(Bound)
    PROVE  /\ track' \in [Index -> Cooling .. 1] /\ track_used' = track_used + 1
           /\ index \in Index /\ index \notin Used /\ Used' = Used \cup {index}
           /\ at' = "none" /\ index' = 0 /\ tries' = 0
<1>1. index \in Index /\ track[index] = 0
  BY DEF Take, SearchInv
<1>2. track' = [track EXCEPT ![index] = 1] /\ track_used' = track_used + 1
  BY DEF Take
<1>3. track' \in [Index -> Cooling .. 1] /\ Used' = Used \cup {index}
  BY <1>1, <1>2 DEF Types, Used, Cooling
<1> QED
  BY <1>1, <1>2, <1>3 DEF Take, Forget, Used

\* Types and the search are kept by every step.
LEMMA StepTypes == Types /\ SearchInv /\ [Next]_vars => Types' /\ SearchInv'
<1> SUFFICES ASSUME Types, SearchInv, [Next]_vars
             PROVE  Types' /\ SearchInv'
  OBVIOUS
<1> USE DEF Types, SearchInv, Label, RtpLabel, EngineLabel
<1>1. ASSUME NEW e \in Engines, ChoosePort(e)
      PROVE  Types' /\ SearchInv'
  BY <1>1 DEF ChoosePort, Goto, allocator, outside
<1>2. ASSUME NEW e \in Engines, ReturnOld(e)
      PROVE  Types' /\ SearchInv'
  <2>1. FreePort(local_sdp_port[e]) /\ local_sdp_port[e] \in Port \cup {NoPort}
    BY <1>2 DEF ReturnOld
  <2> QED
    BY <1>2, <2>1, FreeEffect DEF ReturnOld, Goto, outside
<1>3. ASSUME NEW e \in Engines, Request(e)
      PROVE  Types' /\ SearchInv'
  BY <1>3, Rounding DEF Request, Begin, Forget, Goto, outside
<1>4. ASSUME SearchStep
      PROVE  Types' /\ SearchInv'
  BY <1>4, SearchEffect
<1>5. ASSUME NEW e \in Engines, Granted(e)
      PROVE  Types' /\ SearchInv'
  <2>1. Take(Bound)
    BY <1>5 DEF Granted
  <2>2. PortOf(index) \in Port
    BY <2>1, TakeEffect, PlaceOfPort
  <2> QED
    BY <1>5, <2>1, <2>2, TakeEffect, Rounding DEF Granted, Goto, outside
<1>6. ASSUME NEW e \in Engines, Refused(e)
      PROVE  Types' /\ SearchInv'
  BY <1>6, Rounding DEF Refused, Exhausted, Forget, Goto, outside
<1>7. ASSUME NEW e \in Engines, Activate(e)
      PROVE  Types' /\ SearchInv'
  BY <1>7 DEF Activate, allocator, outside
<1>8. ASSUME NEW e \in Engines, ActivateFails(e)
      PROVE  Types' /\ SearchInv'
  <2>1. FreePort(local_sdp_port[e]) /\ local_sdp_port[e] \in Port \cup {NoPort}
    BY <1>8 DEF ActivateFails
  <2>2. fails' \in Nat /\ binds' + fails' <= MaxFaults /\ binds' = binds
    BY <1>8, EngineAssumption DEF ActivateFails
  <2>3. UNCHANGED <<foreign, local_sdp_port, pc>> /\ pc[e] = "idle"
    BY <1>8 DEF ActivateFails
  <2>4. rtp' \in [Engines -> RtpLabel] /\ \A f \in Engines \ {e} : rtp'[f] = rtp[f]
    BY <1>8 DEF ActivateFails
  <2>5. /\ track' \in [Index -> Cooling .. 1] /\ track_used' \in Int
        /\ at = "none" /\ at' = at /\ index' = index /\ tries' = tries
    BY <2>1, FreeEffect
  <2> QED
    BY <2>2, <2>3, <2>4, <2>5
<1>9. ASSUME NEW e \in Engines, Deactivate(e)
      PROVE  Types' /\ SearchInv'
  BY <1>9 DEF Deactivate, Goto, allocator, outside
<1>10. ASSUME NEW e \in Engines, ReleaseAndEnd(e)
       PROVE  Types' /\ SearchInv'
  <2>1. CASE FreePort(local_sdp_port[e])
    BY <1>10, <2>1, FreeEffect DEF ReleaseAndEnd, Goto, outside
  <2>2. CASE UNCHANGED allocator
    BY <1>10, <2>2 DEF ReleaseAndEnd, Goto, outside, allocator
  <2> QED
    BY <1>10, <2>1, <2>2 DEF ReleaseAndEnd
<1>11. ASSUME NEW p \in Port, ForeignBind(p)
       PROVE  Types' /\ SearchInv'
  BY <1>11, EngineAssumption DEF ForeignBind, allocator, engines
<1>12. ASSUME NEW p \in Port, ForeignClose(p)
       PROVE  Types' /\ SearchInv'
  BY <1>12 DEF ForeignClose, allocator, engines
<1>13. CASE UNCHANGED vars
  BY <1>13 DEF vars, allocator, engines, outside
<1> QED
  BY <1>1, <1>2, <1>3, <1>4, <1>5, <1>6, <1>7, <1>8, <1>9, <1>10, <1>11, <1>12,
     <1>13 DEF Next, EngineStep

LEMMA Typing == Spec => [](Types /\ SearchInv)
<1>1. Init => Types /\ SearchInv
  BY Rounding, EngineAssumption
     DEF Init, AllocatorInit, Types, SearchInv, Label, RtpLabel, EngineLabel, Cooling
<1> QED
  BY <1>1, StepTypes, PTL DEF Spec

-----------------------------------------------------------------------------
(* The count of used ports.                                                *)

LEMMA UsedFinite == /\ IsFiniteSet(Index) /\ Cardinality(Index) = track_len
                    /\ IsFiniteSet(Used) /\ Cardinality(Used) \in Nat
<1>1. IsFiniteSet(Index) /\ Cardinality(Index) = track_len
  <2>1. 0 \in Int /\ track_len - 1 \in Int
    BY Rounding
  <2>2. IsFiniteSet(0 .. track_len - 1)
    BY <2>1, FS_Interval
  <2>3. Cardinality(0 .. track_len - 1)
            = IF 0 > track_len - 1 THEN 0 ELSE (track_len - 1) - 0 + 1
    BY <2>1, FS_Interval
  <2> QED
    BY <2>2, <2>3, Rounding DEF Index
<1>2. Used \in SUBSET Index
  BY DEF Used
<1>3. IsFiniteSet(Used)
  BY <1>1, <1>2, FS_Subset
<1> QED
  BY <1>1, <1>3, FS_CardinalityType

\* Used' is finite as well.
LEMMA OneMore ==
    ASSUME NEW d, d \notin Used, Used' = Used \cup {d}
    PROVE  Cardinality(Used') = Cardinality(Used) + 1
  BY UsedFinite, FS_AddElement

LEMMA OneLess ==
    ASSUME NEW d \in Used, Used' = Used \ {d}
    PROVE  Cardinality(Used') = Cardinality(Used) - 1
  BY UsedFinite, FS_RemoveElement

\* What the steps of the system do to the used places and their count.
LEMMA StepUsed ==
    ASSUME Types, SearchInv, [Next]_vars
    PROVE  \/ Used' = Used /\ track_used' = track_used
           \/ \E d : d \notin Used /\ Used' = Used \cup {d} /\ track_used' = track_used + 1
           \/ \E d \in Used : Used' = Used \ {d} /\ track_used' = track_used - 1
<1> DEFINE Effect == \/ Used' = Used /\ track_used' = track_used
                     \/ \E d : d \notin Used /\ Used' = Used \cup {d} /\ track_used' = track_used + 1
                     \/ \E d \in Used : Used' = Used \ {d} /\ track_used' = track_used - 1
<1>1. ASSUME track' = track, track_used' = track_used
      PROVE  Effect
  BY <1>1 DEF Used
<1>2. ASSUME NEW e \in Engines, FreePort(local_sdp_port[e])
      PROVE  Effect
  <2>1. local_sdp_port[e] \in Port \cup {NoPort}
    BY DEF Types
  <2> QED
    BY <1>1, <1>2, <2>1, FreeEffect
<1>3. ASSUME SearchStep
      PROVE  Effect
  BY <1>3, SearchEffect
<1>4. ASSUME Take(Bound)
      PROVE  Effect
  BY <1>4, TakeEffect
<1> HIDE DEF Effect
<1>5. ASSUME NEW e \in Engines, EngineStep(e)
      PROVE  Effect
  BY <1>1, <1>2, <1>4, <1>5
     DEF EngineStep, ChoosePort, ReturnOld, Request, Begin, Granted, Refused, Exhausted,
         Activate, ActivateFails, Deactivate, ReleaseAndEnd, allocator
<1>6. ASSUME NEW p \in Port, ForeignBind(p) \/ ForeignClose(p)
      PROVE  Effect
  BY <1>1, <1>6 DEF ForeignBind, ForeignClose, allocator
<1>7. ASSUME UNCHANGED vars
      PROVE  Effect
  BY <1>1, <1>7 DEF vars, allocator
<1>8. Effect
  BY <1>3, <1>5, <1>6, <1>7 DEF Next
<1> QED
  BY <1>8 DEF Effect

\* The count of used ports is exact, for any range of ports, any engines and any
\* behaviour of other processes, also if RTP sessions fail to start.
THEOREM UsedCorrect == Spec => []UsedExact
<1>1. Init => UsedExact
  <2> SUFFICES ASSUME Init PROVE UsedExact
    OBVIOUS
  <2>1. {i \in Index : track[i] = 1} = {} /\ track_used = 0
    BY DEF Init, AllocatorInit
  <2> QED
    BY <2>1, FS_EmptySet DEF UsedExact
<1>2. Types /\ SearchInv /\ UsedExact /\ [Next]_vars => UsedExact'
  <2> SUFFICES ASSUME Types, SearchInv, UsedExact, [Next]_vars
               PROVE  UsedExact'
    OBVIOUS
  <2>1. track_used = Cardinality(Used)
    BY DEF UsedExact, Used
  <2>2. track_used' = Cardinality(Used')
    BY <2>1, StepUsed, OneMore, OneLess
  <2> QED
    BY <2>2 DEF UsedExact, Used
<1> QED
  BY <1>1, <1>2, Typing, PTL DEF Spec

\* Every variable keeps its type: the count of used ports is never negative.
THEOREM TypeCorrect == Spec => []TypeOK
<1>1. Types /\ UsedExact => TypeOK
  <2> SUFFICES ASSUME Types, UsedExact PROVE TypeOK
    OBVIOUS
  <2>1. track_used \in Nat
    BY UsedFinite DEF UsedExact, Used
  <2> QED
    BY <2>1 DEF Types, TypeOK, AllocatorType
<1> QED
  BY <1>1, Typing, UsedCorrect, PTL

-----------------------------------------------------------------------------
(* What a step does to the ports that engines have.                        *)

SameLeases == \A f \in Engines : Held(f)' = Held(f)
GivesBack(e) == Held(e)' = NoPort /\ \A f \in Engines \ {e} : Held(f)' = Held(f)
Receives(e) == /\ Held(e) = NoPort /\ Held(e)' = PortOf(index)
               /\ \A f \in Engines \ {e} : Held(f)' = Held(f)
NoFailure == fails' = fails /\ \A f \in Engines : rtp'[f] = "failed" => rtp[f] = "failed"

\* An engine whose RTP failed may empty a place that is not its own.
Frees(e) == /\ Used' \subseteq Used
            /\ Held(e) # NoPort => Used' = Used \ {IndexOf(Held(e))}
            /\ Held(e) = NoPort /\ rtp[e] # "failed" => Used' = Used

Moves ==
    \/ SameLeases /\ Used' = Used /\ NoFailure
    \/ \E e \in Engines : GivesBack(e) /\ Frees(e) /\ (NoFailure \/ fails' = fails + 1)
    \/ \E e \in Engines : /\ Receives(e) /\ NoFailure
                          /\ index \in Index \ Used /\ Used' = Used \cup {index}

LEMMA HeldPorts == ASSUME Types PROVE \A e \in Engines : Held(e) \in Port \cup {NoPort}
  BY DEF Types, Held

\* A release by an engine, of the port it has or, if RTP failed, had.
LEMMA FreesOwn ==
    ASSUME Types, NEW e \in Engines, FreePort(local_sdp_port[e]),
           rtp[e] = "failed" \/ Held(e) = local_sdp_port[e]
    PROVE  Frees(e)
<1>1. local_sdp_port[e] \in Port \cup {NoPort}
  BY DEF Types
<1>2. Used' \subseteq Used /\ (local_sdp_port[e] \in Port => Used' = Used \ {IndexOf(local_sdp_port[e])})
  BY <1>1, FreeEffect DEF Used
<1>3. NoPort \notin Port
  BY PlaceOfPort
<1>4. local_sdp_port[e] \notin Port => Used' = Used
  BY <1>1, FreeEffect DEF Used
<1>5. Held(e) \in {local_sdp_port[e], NoPort}
  BY DEF Held
<1> QED
  BY <1>1, <1>2, <1>3, <1>4, <1>5 DEF Frees

LEMMA StepMoves == ASSUME Types, SearchInv, [Next]_vars PROVE Moves
<1>1. ASSUME SameLeases, track' = track, NoFailure
      PROVE  Moves
  BY <1>1 DEF Moves, Used
<1>2. ASSUME NEW e \in Engines, ChoosePort(e)
      PROVE  Moves
  <2>1. SameLeases /\ NoFailure /\ track' = track
    BY <1>2 DEF ChoosePort, Goto, Types, Held, SameLeases, EngineLabel, NoPort, NoFailure,
                outside, allocator
  <2> QED
    BY <1>1, <2>1
<1>3. ASSUME NEW e \in Engines, ReturnOld(e)
      PROVE  Moves
  <2>1. Held(e) = local_sdp_port[e]
    BY <1>3 DEF ReturnOld, Held, SearchInv
  <2>2. GivesBack(e) /\ NoFailure
    BY <1>3 DEF ReturnOld, Goto, Types, Held, GivesBack, NoFailure, outside
  <2>3. Frees(e)
    BY <1>3, <2>1, FreesOwn DEF ReturnOld
  <2> QED
    BY <2>2, <2>3 DEF Moves
<1>4. ASSUME NEW e \in Engines, Request(e)
      PROVE  Moves
  <2>1. SameLeases /\ NoFailure /\ track' = track
    BY <1>4 DEF Request, Begin, Goto, Types, Held, SameLeases, NoFailure, outside
  <2> QED
    BY <1>1, <2>1
<1>5. ASSUME SearchStep
      PROVE  Moves
  <2>1. SameLeases /\ NoFailure /\ Used' = Used
    BY <1>5, SearchEffect DEF engines, outside, Held, SameLeases, NoFailure
  <2> QED
    BY <2>1 DEF Moves
<1>6. ASSUME NEW e \in Engines, Granted(e)
      PROVE  Moves
  <2>1. Take(Bound) /\ rtp' = rtp /\ fails' = fails /\ Held(e) = NoPort /\ rtp[e] # "failed"
    BY <1>6 DEF Granted, Held, SearchInv, outside
  <2>2. Held(e)' = PortOf(index) /\ \A f \in Engines \ {e} : Held(f)' = Held(f)
    BY <1>6, <2>1 DEF Granted, Goto, Types, Held
  <2>3. index \in Index \ Used /\ Used' = Used \cup {index}
    BY <2>1, TakeEffect
  <2> QED
    BY <2>1, <2>2, <2>3 DEF Moves, Receives, NoFailure
<1>7. ASSUME NEW e \in Engines, Refused(e)
      PROVE  Moves
  <2>1. SameLeases /\ NoFailure /\ track' = track
    BY <1>7 DEF Refused, Exhausted, Goto, Types, Held, SameLeases, NoFailure, outside
  <2> QED
    BY <1>1, <2>1
<1>8. ASSUME NEW e \in Engines, Activate(e)
      PROVE  Moves
  <2>1. SameLeases /\ NoFailure /\ track' = track
    BY <1>8 DEF Activate, Types, Held, SameLeases, NoFailure, outside, allocator
  <2> QED
    BY <1>1, <2>1
<1>9. ASSUME NEW e \in Engines, ActivateFails(e)
      PROVE  Moves
  <2>1. Held(e) = local_sdp_port[e] /\ fails' = fails + 1
    BY <1>9 DEF ActivateFails, Held
  <2>2. GivesBack(e)
    BY <1>9 DEF ActivateFails, Types, Held, GivesBack
  <2>3. Frees(e)
    BY <1>9, <2>1, FreesOwn DEF ActivateFails
  <2> QED
    BY <2>1, <2>2, <2>3 DEF Moves
<1>10. ASSUME NEW e \in Engines, Deactivate(e)
       PROVE  Moves
  <2>1. SameLeases /\ NoFailure /\ track' = track
    BY <1>10 DEF Deactivate, Goto, Types, Held, SameLeases, NoFailure, outside, allocator
  <2> QED
    BY <1>1, <2>1
<1>11. ASSUME NEW e \in Engines, ReleaseAndEnd(e)
       PROVE  Moves
  <2>1. rtp[e] = "failed" \/ Held(e) = local_sdp_port[e]
    BY <1>11 DEF ReleaseAndEnd, Held
  <2>2. GivesBack(e) /\ NoFailure
    BY <1>11 DEF ReleaseAndEnd, Goto, Types, Held, GivesBack, NoFailure, outside
  <2>3. CASE local_sdp_port[e] # NoPort
    <3>1. Frees(e)
      BY <1>11, <2>1, <2>3, FreesOwn DEF ReleaseAndEnd
    <3> QED
      BY <2>2, <3>1 DEF Moves
  <2>4. CASE local_sdp_port[e] = NoPort
    <3>1. track' = track
      BY <1>11, <2>4 DEF ReleaseAndEnd, allocator
    <3>2. SameLeases
      BY <2>2, <2>4 DEF GivesBack, SameLeases, Held
    <3> QED
      BY <1>1, <2>2, <3>1, <3>2
  <2> QED
    BY <2>3, <2>4
<1>12. ASSUME NEW p \in Port, ForeignBind(p) \/ ForeignClose(p)
       PROVE  Moves
  <2>1. SameLeases /\ NoFailure /\ track' = track
    BY <1>12 DEF ForeignBind, ForeignClose, allocator, engines, Held, SameLeases, NoFailure
  <2> QED
    BY <1>1, <2>1
<1>13. ASSUME UNCHANGED vars
       PROVE  Moves
  <2>1. SameLeases /\ NoFailure /\ track' = track
    BY <1>13 DEF vars, allocator, engines, outside, Held, SameLeases, NoFailure
  <2> QED
    BY <1>1, <2>1
<1> QED
  BY <1>2, <1>3, <1>4, <1>5, <1>6, <1>7, <1>8, <1>9, <1>10, <1>11, <1>12, <1>13
     DEF Next, EngineStep

-----------------------------------------------------------------------------
(* No port leaks, whatever fails.                                          *)

LEMMA StepNoLeak == ASSUME Types, NoLeak, Moves PROVE NoLeak'
<1>0. SUFFICES ASSUME NEW i \in Used' PROVE \E f \in Engines : Held(f)' = PortOf(i)
  BY DEF NoLeak, Used
<1>1. i \in Index
  BY DEF Used
<1>2. i \in Used => \E f \in Engines : Held(f) = PortOf(i)
  BY DEF NoLeak, Used
<1>3. CASE SameLeases /\ Used' = Used
  BY <1>2, <1>3 DEF SameLeases
<1>4. ASSUME NEW e \in Engines, GivesBack(e), Frees(e)
      PROVE  \E f \in Engines : Held(f)' = PortOf(i)
  <2>1. PICK f \in Engines : Held(f) = PortOf(i)
    BY <1>2, <1>4 DEF Frees
  <2>2. f # e
    <3> SUFFICES ASSUME f = e PROVE FALSE
      OBVIOUS
    <3>1. Held(e) # NoPort /\ IndexOf(Held(e)) = i
      BY <1>1, <2>1, PlaceOfPort
    <3> QED
      BY <1>4, <3>1 DEF Frees
  <2> QED
    BY <1>4, <2>1, <2>2 DEF GivesBack
<1>5. ASSUME NEW e \in Engines, Receives(e), Used' = Used \cup {index}
      PROVE  \E f \in Engines : Held(f)' = PortOf(i)
  <2>1. CASE i = index
    BY <1>5, <2>1 DEF Receives
  <2>2. CASE i \in Used
    <3>1. PICK f \in Engines : Held(f) = PortOf(i)
      BY <1>2, <2>2
    <3>2. f # e
      BY <1>1, <1>5, <3>1, PlaceOfPort DEF Receives
    <3> QED
      BY <1>5, <3>1, <3>2 DEF Receives
  <2> QED
    BY <1>5, <2>1, <2>2
<1> QED
  BY <1>3, <1>4, <1>5 DEF Moves

LEMMA AlwaysNoLeak == Spec => []NoLeak
<1>1. Init => NoLeak
  BY DEF Init, AllocatorInit, NoLeak
<1>2. Types /\ SearchInv /\ NoLeak /\ [Next]_vars => NoLeak'
  BY StepMoves, StepNoLeak
<1> QED
  BY <1>1, <1>2, Typing, PTL DEF Spec

-----------------------------------------------------------------------------
(* The lease of ports, as long as RTP sessions do not fail to start.       *)

Leased == fails = 0 => HeldInv /\ NoSharedPort

\* Every engine's port is used: it was used before and nobody gave it back.
LEMMA StepLeased == ASSUME Types, NoLeak, Leased, Moves PROVE Leased'
<1> SUFFICES ASSUME fails' = 0 PROVE HeldInv' /\ NoSharedPort'
  BY DEF Leased
<1>1. fails = 0 /\ NoFailure
  BY DEF Moves, NoFailure, Types
<1>2. /\ \A e \in Engines : Held(e) # NoPort => IndexOf(Held(e)) \in Used
      /\ \A e \in Engines : rtp[e] # "failed"
      /\ NoSharedPort
  <2>1. \A e \in Engines : Held(e) # NoPort => IndexOf(Held(e)) \in Index
    BY HeldPorts, PlaceOfPort
  <2> QED
    BY <1>1, <2>1 DEF Leased, HeldInv, Used
<1>3. \A e \in Engines : rtp'[e] # "failed"
  BY <1>1, <1>2 DEF NoFailure
<1>4. NoLeak'
  BY StepNoLeak
<1>5. SUFFICES /\ \A e \in Engines : Held(e)' # NoPort => IndexOf(Held(e)') \in Used'
               /\ NoSharedPort'
  BY <1>3, <1>4 DEF HeldInv, Used
<1>6. CASE SameLeases /\ Used' = Used
  BY <1>2, <1>6 DEF SameLeases, NoSharedPort
<1>7. ASSUME NEW e \in Engines, GivesBack(e), Frees(e)
      PROVE  /\ \A f \in Engines : Held(f)' # NoPort => IndexOf(Held(f)') \in Used'
             /\ NoSharedPort'
  <2>1. NoSharedPort'
    BY <1>2, <1>7 DEF GivesBack, NoSharedPort
  <2>2. ASSUME NEW f \in Engines, Held(f)' # NoPort
        PROVE  IndexOf(Held(f)') \in Used'
    <3>1. f # e /\ Held(f)' = Held(f) /\ Held(f) \in Port
      BY <1>7, <2>2, HeldPorts DEF GivesBack
    <3>2. CASE Held(e) = NoPort
      BY <1>2, <1>7, <2>2, <3>1, <3>2 DEF Frees
    <3>3. CASE Held(e) # NoPort
      <4>1. Held(e) \in Port /\ Held(e) # Held(f)
        BY <1>2, <2>2, <3>1, <3>3, HeldPorts DEF NoSharedPort
      <4>2. IndexOf(Held(f)) # IndexOf(Held(e))
        BY <3>1, <4>1, PlaceOfPort
      <4> QED
        BY <1>2, <1>7, <2>2, <3>1, <3>3, <4>2 DEF Frees
    <3> QED
      BY <3>2, <3>3
  <2> QED
    BY <2>1, <2>2
<1>8. ASSUME NEW e \in Engines, Receives(e), index \in Index \ Used, Used' = Used \cup {index}
      PROVE  /\ \A f \in Engines : Held(f)' # NoPort => IndexOf(Held(f)') \in Used'
             /\ NoSharedPort'
  <2>1. PortOf(index) # NoPort /\ IndexOf(PortOf(index)) = index
    BY <1>8, PlaceOfPort
  <2>2. \A f \in Engines : Held(f) # PortOf(index)
    BY <1>2, <1>8, <2>1
  <2>3. NoSharedPort'
    BY <1>2, <1>8, <2>2 DEF Receives, NoSharedPort
  <2>4. \A f \in Engines : Held(f)' # NoPort => IndexOf(Held(f)') \in Used'
    BY <1>2, <1>8, <2>1 DEF Receives
  <2> QED
    BY <2>3, <2>4
<1> QED
  BY <1>6, <1>7, <1>8 DEF Moves

LEMMA AlwaysLeased == Spec => []Leased
<1>1. Init => Leased
  <2> SUFFICES ASSUME Init PROVE HeldInv /\ NoSharedPort
    BY DEF Leased
  <2>1. \A e \in Engines : Held(e) = NoPort /\ rtp[e] = "none"
    BY DEF Init, Held
  <2>2. \A i \in Index : track[i] = 0
    BY DEF Init, AllocatorInit
  <2> QED
    BY <2>1, <2>2 DEF HeldInv, NoLeak, NoSharedPort
<1>2. Types /\ SearchInv /\ NoLeak /\ Leased /\ [Next]_vars => Leased'
  BY StepMoves, StepLeased
<1> QED
  BY <1>1, <1>2, Typing, AlwaysNoLeak, PTL DEF Spec

\* As long as no RTP session fails to start, no two calls have the same port.
THEOREM PortsExclusive == Spec => [](fails = 0 => NoSharedPort)
<1>1. Leased => (fails = 0 => NoSharedPort)
  BY DEF Leased
<1> QED
  BY <1>1, AlwaysLeased, PTL

\* No port is lost, whatever calls choose again, give up, fail to start or end;
\* and none that a call has is free, as long as no RTP session fails to start.
THEOREM NoPortLost == Spec => []PortsAccounted
<1>1. Types /\ NoLeak /\ Leased => PortsAccounted
  <2> SUFFICES ASSUME Types, NoLeak, Leased PROVE PortsAccounted
    OBVIOUS
  <2> DEFINE used == {PortOf(i) : i \in {j \in Index : track[j] = 1}}
             held == {Held(e) : e \in Engines} \ {NoPort}
  <2>1. used \subseteq held
    <3> SUFFICES ASSUME NEW i \in Index, track[i] = 1 PROVE PortOf(i) \in held
      OBVIOUS
    <3>1. PortOf(i) # NoPort
      BY PlaceOfPort
    <3> QED
      BY <3>1 DEF NoLeak
  <2>2. fails = 0 => held \subseteq used
    <3> SUFFICES ASSUME fails = 0, NEW e \in Engines, Held(e) # NoPort
                 PROVE  Held(e) \in used
      OBVIOUS
    <3>1. Held(e) \in Port /\ track[IndexOf(Held(e))] = 1
      BY HeldPorts DEF Leased, HeldInv
    <3>2. IndexOf(Held(e)) \in Index /\ PortOf(IndexOf(Held(e))) = Held(e)
      BY <3>1, PlaceOfPort
    <3> QED
      BY <3>1, <3>2
  <2> QED
    BY <2>1, <2>2 DEF PortsAccounted
<1> QED
  BY <1>1, AlwaysLeased, AlwaysNoLeak, Typing, PTL

\* Media engines and the allocator implement PortLease: the promise ends with the
\* first RTP session that fails to start, and not before.
THEOREM Refinement == Spec => LeasesPorts
<1> DEFINE lease == [e \in Engines |-> Held(e)]
           kept == fails = 0
<1>1. Init => Lease!Init
  BY DEF Init, Held, Lease!Init
<1>2. Types /\ SearchInv /\ NoLeak /\ Leased /\ [Next]_vars => [Lease!Next]_<<lease, kept>>
  <2> SUFFICES ASSUME Types, SearchInv, NoLeak, Leased, [Next]_vars
               PROVE  [Lease!Next]_<<lease, kept>>
    OBVIOUS
  <2>1. Moves
    BY StepMoves
  <2>2. CASE SameLeases /\ NoFailure
    BY <2>2 DEF SameLeases, NoFailure
  <2>3. ASSUME NEW e \in Engines, GivesBack(e), NoFailure \/ fails' = fails + 1
        PROVE  Lease!Return(e)
    <3>1. lease' = [lease EXCEPT ![e] = NoPort]
      BY <2>3 DEF GivesBack
    <3>2. kept' \in {kept, FALSE}
      <4>1. fails' = fails \/ ~(fails' = 0)
        BY <2>3 DEF NoFailure, Types
      <4>2. CASE fails' = fails
        BY <4>2
      <4>3. CASE ~(fails' = 0)
        BY <4>3, Zenon
      <4> QED
        BY <4>1, <4>2, <4>3
    <3> QED
      BY <3>1, <3>2 DEF Lease!Return
  <2>4. ASSUME NEW e \in Engines, Receives(e), NoFailure, index \in Index \ Used
        PROVE  PortOf(index) \in Port /\ Lease!Grant(e, PortOf(index))
    <3>1. PortOf(index) \in Port /\ PortOf(index) # NoPort /\ IndexOf(PortOf(index)) = index
      BY <2>4, PlaceOfPort
    <3>2. kept => \A f \in Engines : Held(f) # PortOf(index)
      BY <2>4, <3>1 DEF Leased, HeldInv, Used
    <3>3. lease' = [lease EXCEPT ![e] = PortOf(index)] /\ kept' = kept /\ lease[e] = NoPort
      BY <2>4 DEF Receives, NoFailure
    <3> QED
      BY <3>1, <3>2, <3>3 DEF Lease!Grant
  <2> QED
    BY <2>1, <2>2, <2>3, <2>4 DEF Moves, Lease!Next
<1> QED
  BY <1>1, <1>2, Typing, AlwaysNoLeak, AlwaysLeased, PTL DEF Spec, LeasesPorts, Lease!Spec

\* A request for a port fails only when each port of the range is with some call,
\* also if RTP sessions fail to start.
THEOREM RefusalsJustified == Spec => RefusedOnlyWhenFull
<1> DEFINE Refusal == \A e \in Engines :
          pc[e] = "search" /\ pc'[e] = "idle" /\ local_sdp_port'[e] = NoPort
              => \A p \in Port : \E f \in Engines : Held(f) = p
<1>1. Types /\ SearchInv /\ UsedExact /\ NoLeak /\ [Next]_vars => [Refusal]_vars
  <2> SUFFICES ASSUME Types, SearchInv, UsedExact, NoLeak, Next,
                      NEW e \in Engines, pc[e] = "search", pc'[e] = "idle",
                      local_sdp_port'[e] = NoPort
               PROVE  \A p \in Port : \E f \in Engines : Held(f) = p
    OBVIOUS
  <2>1. ~Granted(e)
    <3> SUFFICES ASSUME Granted(e) PROVE FALSE
      OBVIOUS
    <3>1. index \in Index
      BY TakeEffect DEF Granted
    <3> QED
      BY <3>1, PlaceOfPort DEF Granted, Types
  <2>2. ASSUME NEW f \in Engines, EngineStep(f), ~Refused(e) PROVE FALSE
    <3>1. CASE f = e
      BY <2>1, <2>2, <3>1 DEF EngineStep, ChoosePort, ReturnOld, Request, Activate, ActivateFails,
         Deactivate, ReleaseAndEnd
    <3>2. CASE f # e
      BY <2>2, <3>2 DEF EngineStep, ChoosePort, ReturnOld, Request, Granted, Refused, Activate,
         ActivateFails, Deactivate, ReleaseAndEnd, Goto, Types
    <3> QED
      BY <3>1, <3>2
  <2>3. Refused(e)
    BY <2>2 DEF Next, SearchStep, ForeignBind, ForeignClose, engines
  <2>4. track_used >= track_len /\ track_used = Cardinality(Used)
    BY <2>3 DEF Refused, Exhausted, UsedExact, Used
  <2>5. Used \in SUBSET Index
    BY DEF Used
  <2>6. Cardinality(Used) = Cardinality(Index)
    BY <2>4, <2>5, UsedFinite, FS_Subset, Rounding
  <2>7. Used = Index
    BY <2>5, <2>6, UsedFinite, FS_Subset
  <2> QED
    BY <2>7 DEF NoLeak, Used, Port
<1> QED
  BY <1>1, Typing, UsedCorrect, AlwaysNoLeak, PTL DEF Spec, RefusedOnlyWhenFull

=============================================================================
