--------------------------- MODULE MCMirrorOwner ---------------------------
(* MirrorOwner on small instances.                                         *)
EXTENDS MirrorOwner, FiniteSets, TLC

\* A bound: a second client comes only to a mirror nobody hands over or closes.
\* What it leaves out is done by the clients, never owed by the mirror.
Bounded ==
  \/ handover = "no" /\ closing = "no"
  \/ Cardinality({c \in Clients : pc[c] # "out"}) <= 1

BoundedSpec == Init /\ [][Next /\ Bounded']_vars /\ Fairness
=============================================================================
