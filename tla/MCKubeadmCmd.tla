---------------------------- MODULE MCKubeadmCmd ----------------------------
(***************************************************************************)
(* All outputs of at most six blocks, through a pipe of two and a scanner  *)
(* that gives up at three.                                                 *)
(***************************************************************************)
EXTENDS KubeadmCmd

MCOutputs == UNION {[1 .. n -> BOOLEAN] : n \in 0 .. 6}
=============================================================================
