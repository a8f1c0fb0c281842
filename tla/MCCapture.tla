------------------------------ MODULE MCCapture ------------------------------
(* Instances of Capture for TLC. *)
EXTENDS Capture

CONSTANTS v1, v2

\* No conversation is told from another before it is accepted.
Symmetry == Permutations(Conversation)
=============================================================================
