------------------------------ MODULE MCMirror ------------------------------
(* Mirror on small instances.                                              *)
EXTENDS MirrorInv
=============================================================================
