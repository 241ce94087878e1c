----------------------------- MODULE MediaPorts -----------------------------
(***************************************************************************)
(* The media engines of calls (switch_core_media.c) and their RTP sessions *)
(* (switch_rtp.c) as users of the port allocator of one address.  All      *)
(* requests and releases go through switch_rtp_request_port and            *)
(* switch_rtp_release_port, which hold port_lock throughout: the lock is   *)
(* taken as long as a request is under way in the allocator.               *)
(***************************************************************************)
EXTENDS PortAllocator

CONSTANTS Engines,    \* media engines, used for one call after another
          MaxFaults   \* bound: how often another process binds a port, or
                      \* switch_rtp_new fails

ASSUME EngineAssumption == /\ IsFiniteSet(Engines)
                           /\ MaxFaults \in Nat

VARIABLES
    local_sdp_port,  \* engine->local_sdp_port, 0 is none
    rtp,             \* engine->rtp_session
    pc,              \* where an engine is in choose_port or deactivate_rtp
    foreign,         \* ports that other processes have bound
    binds,           \* how often they did
    fails            \* how often switch_rtp_new has failed

engines == <<local_sdp_port, rtp, pc>>
outside == <<foreign, binds, fails>>
vars == <<allocator, engines, outside>>

NoPort == 0

RtpLabel == {"none",    \* not created yet
             "up",      \* created, its socket is bound
             "closed",  \* switch_rtp_destroy has closed the socket
             "failed"}  \* switch_rtp_new returned NULL and the call was hung up

EngineLabel == {"idle", "return", "request", "search", "drop"}

\* The sockets that are bound.
Bound == foreign \cup {local_sdp_port[e] : e \in {d \in Engines : rtp[d] = "up"}}

\* The port an engine has asked for and not given back.
Held(e) == IF pc[e] \in {"request", "search"} \/ rtp[e] = "failed"
              THEN NoPort ELSE local_sdp_port[e]

TypeOK ==
    /\ AllocatorType
    /\ local_sdp_port \in [Engines -> Port \cup {NoPort}]
    /\ rtp \in [Engines -> RtpLabel]
    /\ pc \in [Engines -> EngineLabel]
    /\ foreign \subseteq Port
    /\ binds \in Nat /\ fails \in Nat /\ binds + fails <= MaxFaults

Init ==
    /\ AllocatorInit
    /\ local_sdp_port = [e \in Engines |-> NoPort]
    /\ rtp = [e \in Engines |-> "none"]
    /\ pc = [e \in Engines |-> "idle"]
    /\ foreign = {} /\ binds = 0 /\ fails = 0

Goto(e, l) == pc' = [pc EXCEPT ![e] = l]

-----------------------------------------------------------------------------
(* switch_core_media_choose_port.                                          *)

\* Mutant of ChoosePort: the old port is forgotten.
ChoosePortForgetful(e) ==
    /\ pc[e] = "idle" /\ rtp[e] = "none"
    /\ Goto(e, "request")
    /\ UNCHANGED <<allocator, local_sdp_port, rtp, outside>>

\* It may be forced, or repeated because no advertised address was found.
ChoosePort(e) ==
    /\ pc[e] = "idle" /\ rtp[e] = "none"
    /\ Goto(e, IF local_sdp_port[e] # NoPort THEN "return" ELSE "request")
    /\ UNCHANGED <<allocator, local_sdp_port, rtp, outside>>

\* switch_rtp_release_port of the old port.
ReturnOld(e) ==
    /\ pc[e] = "return"
    /\ FreePort(local_sdp_port[e])
    /\ Goto(e, "request")
    /\ UNCHANGED <<local_sdp_port, rtp, outside>>

\* switch_rtp_request_port takes port_lock and calls the allocator.
Request(e) ==
    /\ pc[e] = "request"
    /\ Begin
    /\ Goto(e, "search")
    /\ UNCHANGED <<local_sdp_port, rtp, outside>>

SearchStep ==
    /\ \/ \E i \in Index : Pick(i)
       \/ Walk
       \/ Arrive
       \/ CoolDown
    /\ UNCHANGED <<engines, outside>>

Granted(e) ==
    /\ pc[e] = "search"
    /\ Take(Bound)
    /\ local_sdp_port' = [local_sdp_port EXCEPT ![e] = PortOf(index)]
    /\ Goto(e, "idle")
    /\ UNCHANGED <<rtp, outside>>

Refused(e) ==
    /\ pc[e] = "search"
    /\ Exhausted
    /\ local_sdp_port' = [local_sdp_port EXCEPT ![e] = NoPort]
    /\ Goto(e, "idle")
    /\ UNCHANGED <<rtp, outside>>

-----------------------------------------------------------------------------
(* switch_core_media_activate_rtp, switch_core_media_deactivate_rtp.       *)

Activate(e) ==
    /\ pc[e] = "idle" /\ rtp[e] = "none"
    /\ local_sdp_port[e] # NoPort /\ local_sdp_port[e] \notin foreign
    /\ rtp' = [rtp EXCEPT ![e] = "up"]
    /\ UNCHANGED <<allocator, local_sdp_port, pc, outside>>

\* switch_rtp_new fails and releases the port it was given.
ActivateFails(e) ==
    /\ binds + fails < MaxFaults
    /\ pc[e] = "idle" /\ rtp[e] = "none" /\ local_sdp_port[e] # NoPort
    /\ FreePort(local_sdp_port[e])
    /\ rtp' = [rtp EXCEPT ![e] = "failed"]
    /\ fails' = fails + 1
    /\ UNCHANGED <<local_sdp_port, pc, foreign, binds>>

\* switch_rtp_destroy closes the sockets first.
Deactivate(e) ==
    /\ pc[e] = "idle"
    /\ rtp' = [rtp EXCEPT ![e] = IF @ = "up" THEN "closed" ELSE @]
    /\ Goto(e, "drop")
    /\ UNCHANGED <<allocator, local_sdp_port, outside>>

\* Mutant of ReleaseAndEnd: only an RTP session gives its port back.
ReleaseIfClosed(e) ==
    /\ pc[e] = "drop"
    /\ IF rtp[e] = "closed"
          THEN FreePort(local_sdp_port[e])
          ELSE at = "none" /\ UNCHANGED allocator
    /\ local_sdp_port' = [local_sdp_port EXCEPT ![e] = NoPort]
    /\ rtp' = [rtp EXCEPT ![e] = "none"]
    /\ Goto(e, "idle")
    /\ UNCHANGED outside

\* The port is released by switch_rtp_destroy, or by deactivate_rtp if there is
\* no RTP session; the engine ends with its session and another call begins.
ReleaseAndEnd(e) ==
    /\ pc[e] = "drop"
    /\ IF local_sdp_port[e] # NoPort
          THEN FreePort(local_sdp_port[e])
          ELSE at = "none" /\ UNCHANGED allocator
    /\ local_sdp_port' = [local_sdp_port EXCEPT ![e] = NoPort]
    /\ rtp' = [rtp EXCEPT ![e] = "none"]
    /\ Goto(e, "idle")
    /\ UNCHANGED outside

-----------------------------------------------------------------------------
(* Other processes of the host. *)

\* A port that is taken away between its test and its use makes RTP fail.
ForeignBind(p) ==
    /\ binds + fails < MaxFaults
    /\ p \notin Bound
    /\ foreign' = foreign \cup {p}
    /\ binds' = binds + 1
    /\ UNCHANGED <<allocator, engines, fails>>

ForeignClose(p) ==
    /\ p \in foreign
    /\ foreign' = foreign \ {p}
    /\ UNCHANGED <<allocator, engines, binds, fails>>

-----------------------------------------------------------------------------

EngineStep(e) ==
    \/ ChoosePort(e) \/ ReturnOld(e) \/ Request(e) \/ Granted(e) \/ Refused(e)
    \/ Activate(e) \/ ActivateFails(e) \/ Deactivate(e) \/ ReleaseAndEnd(e)

Next ==
    \/ \E e \in Engines : EngineStep(e)
    \/ SearchStep
    \/ \E p \in Port : ForeignBind(p) \/ ForeignClose(p)

Spec == Init /\ [][Next]_vars

\* The thread in the allocator runs, and rand() gives every place again and
\* again.  Nothing is asked of other processes and of the test of a port.
Fairness ==
    /\ WF_vars(SearchStep \/ \E e \in Engines : Granted(e) \/ Refused(e))
    /\ \A i \in Index : SF_vars(Pick(i) /\ UNCHANGED <<engines, outside>>)

FairSpec == Spec /\ Fairness

-----------------------------------------------------------------------------
(* Properties.                                                             *)

\* The count of used ports, which alone decides whether a request fails, is the
\* number of entries of the track that are in use (request_port, free_port).
UsedExact == track_used = Cardinality({i \in Index : track[i] = 1})

\* No port leaks when an engine chooses again, never starts RTP, fails to start it
\* or fails to get a new port: what is marked as used is with some engine.  And as
\* long as RTP did not fail, nothing that an engine has is free for others.
PortsAccounted ==
    LET used == {PortOf(i) : i \in {j \in Index : track[j] = 1}}
        held == {Held(e) : e \in Engines} \ {NoPort}
    IN used \subseteq held /\ (fails = 0 => held \subseteq used)

\* Two engines never have the same port at once.
NoSharedPort == \A e, f \in Engines :
                    Held(e) = Held(f) /\ Held(e) # NoPort => e = f

\* The engines lease ports, until one of them fails to start RTP: see PortLease.
Lease == INSTANCE PortLease WITH Ports <- Port,
                                 lease <- [e \in Engines |-> Held(e)],
                                 kept <- fails = 0
LeasesPorts == Lease!Spec

\* A request fails only when every port is with some engine.
RefusedOnlyWhenFull ==
    [][\A e \in Engines :
          pc[e] = "search" /\ pc'[e] = "idle" /\ local_sdp_port'[e] = NoPort
              => \A p \in Port : \E f \in Engines : Held(f) = p]_vars

\* The test of the port of place i fails.
TestFails(i) == at = "try" /\ index = i /\ at' = "pick"

\* A search for a port, which holds port_lock and so stops all other calls, comes
\* to an end, by a port or because all are used; or else some places are not used,
\* and every one of these is tested again and again and each time fails the test.
SearchEnds ==
    \/ []<>(at = "none")
    \/ /\ \E i \in Index : <>[](track[i] # 1)
       /\ \A i \in Index : []<>(track[i] = 1) \/ []<><<TestFails(i)>>_vars

-----------------------------------------------------------------------------
(* The inductive strengthening of PortsAccounted and NoSharedPort.         *)

\* At most one engine is in the allocator, and none whose RTP failed; what the
\* search found is still free.
SearchInv ==
    /\ \A e \in Engines : pc[e] = "search" => at # "none"
    /\ \A e \in Engines : rtp[e] = "failed" => pc[e] \in {"idle", "drop"}
    /\ \A e, f \in Engines : pc[e] = "search" /\ pc[f] = "search" => e = f
    /\ at \in {"walk", "try"} => index \in Index
    /\ at = "try" => track[index] = 0

\* What is used is with some engine.
NoLeak == \A i \in Index : track[i] = 1 => \E e \in Engines : Held(e) = PortOf(i)

\* Before RTP fails, used entries of the track and ports of engines are the same.
HeldInv ==
    /\ \A e \in Engines : rtp[e] # "failed"
    /\ \A e \in Engines : Held(e) # NoPort => track[IndexOf(Held(e))] = 1
    /\ NoLeak

=============================================================================
