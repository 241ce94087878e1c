----------------------------- MODULE PortLease -----------------------------
(***************************************************************************)
(* What the users of RTP ports rely on: a port belongs to one media engine *)
(* from the time it is handed out until this engine gives it back.  The    *)
(* promise is kept as long as no port is given back for an engine that     *)
(* gives it back once more.                                                *)
(***************************************************************************)
CONSTANTS Engines, Ports, NoPort

VARIABLES lease,  \* the port of each engine
          kept    \* is the promise kept?

Init == lease = [e \in Engines |-> NoPort] /\ kept = TRUE

Grant(e, p) ==
    /\ lease[e] = NoPort
    /\ kept => \A f \in Engines : lease[f] # p
    /\ lease' = [lease EXCEPT ![e] = p]
    /\ UNCHANGED kept

Return(e) ==
    /\ lease' = [lease EXCEPT ![e] = NoPort]
    /\ kept' \in {kept, FALSE}

Next == \E e \in Engines : Return(e) \/ \E p \in Ports : Grant(e, p)

Spec == Init /\ [][Next]_<<lease, kept>>

=============================================================================
