--------------------------- MODULE MCSessionTable ---------------------------
(* Sessions can be exchanged for one another, and so can the requesters, as *)
(* long as none of them has SOF_NO_LIMITS.                                  *)
EXTENDS SessionTable, TLC

Symmetry ==
    Permutations(Sessions) \cup (IF NoLimits = {} THEN Permutations(Requesters) ELSE {})

=============================================================================
