-------------------------- MODULE MCSessionThread --------------------------
(***************************************************************************)
(* SessionThread for TLC: a few callers, a few of the channel states.      *)
(* Hangups also differ in their cause from the thread's own (AbandonCause).*)
(***************************************************************************)
EXTENDS SessionThread

CONSTANTS c1, c2

MCCallers == {c1, c2}
MCTargets == {CS_PARK}
MCCauses == {"USER_BUSY"}

=============================================================================
