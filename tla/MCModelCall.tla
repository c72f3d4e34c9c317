---------------------------- MODULE MCModelCall ----------------------------
(* Instances of ModelCall for TLC: the shape of MODEL_RETRY on a short clock. *)
EXTENDS ModelCall

ShortAsks == {1, 4, 9}
=============================================================================
