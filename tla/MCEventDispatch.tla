-------------------------- MODULE MCEventDispatch --------------------------
(* One node wants every event, the other one only e2; both have one callback. *)
EXTENDS EventDispatch, TLC

CONSTANTS e1, e2, n1, n2, cb

MCWants == n1 :> Events @@ n2 :> {e2}
MCCallback == [n \in Nodes |-> cb]

=============================================================================
