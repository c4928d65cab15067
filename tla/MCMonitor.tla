----------------------------- MODULE MCMonitor -----------------------------
(* Monitor on a small instance: the page, and one other client of the      *)
(* mirror's port, which reads nothing.                                     *)
EXTENDS Monitor, TLC

\* Bound: the other client comes and goes only before the device says anything;
\* after that it is there until it is cut off, and leaves.
Slow ==
  \A c \in Clients \ {Page} :
    /\ taken'[c] = 0
    /\ conn'[c] # conn[c] => said = 0 \/ said' # said \/ c \in behind

\* Bound: the device says nothing but to a page.
Listened == said' # said => Ported

MCSpec == Init /\ [][Next /\ Slow /\ Listened]_monitorVars /\ Fairness
=============================================================================
