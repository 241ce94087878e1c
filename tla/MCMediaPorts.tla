---------------------------- MODULE MCMediaPorts ----------------------------
(* Two ports, and one engine more. *)
EXTENDS MediaPorts

CONSTANTS e1, e2, e3

MCEngines == {e1, e2, e3}

=============================================================================
