------------------------------ MODULE MCBuffer ------------------------------
(* Buffers of a few bytes, which can be told apart by two values. *)
EXTENDS Buffer

MCMaxLens == {0, 3}
MCBlockSizes == {1, 3}

=============================================================================
