------------------------------- MODULE MCPage -------------------------------
(* Page on a small instance: this page's gesture and another's.            *)
EXTENDS Page

\* Bound: nobody types while a flash is in flight or followed, or asks for one
\* while a list is sent.  No step that is owed is held back by it.
Apart ==
  queued # <<>> \/ awaiting =>
    /\ post = "none" /\ ask = "no" /\ flying = None
    /\ \A g \in Gestures : stage[g] = "none"

MCSpec == PageInit /\ [][PageNext /\ Apart']_allVars /\ PageFairness
=============================================================================
