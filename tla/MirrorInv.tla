------------------------------ MODULE MirrorInv ------------------------------
(***************************************************************************)
(* The inductive invariant of Mirror: what its safety properties need of   *)
(* the states between them.  A run checks it and Mirror_proofs proves it.  *)
(*                                                                         *)
(* The clients whose message is on its way are exactly those in line at    *)
(* some Device's lock (LockLine); what the open device has of an           *)
(* unfinished message is the start of the message of the first in that     *)
(* line (WireIsHeads); and a device is only ever opened when no message is *)
(* on its way (SessionsAreFresh), because every outage and every handover  *)
(* lasts longer than the handlers that are ready to run.                   *)
(***************************************************************************)
EXTENDS Mirror

\* The client's message is at a Device: in line for it, or in its write.
Working(c) == pc[c] \in {"queued", "parked", "woken"}

\* The handler has a message in hand, its own or at a Device.
Pending(c) == pc[c] = "handling" \/ Working(c)

\* A handler with a message in hand has it counted.
BatchPending == \A c \in Clients : Pending(c) => batch[c] >= 1

\* Every Device's lock: who is in line wrote to that Device and is there once,
\* only the first has begun, and whoever has a message at a Device is in line.
LockLine ==
  /\ \A d \in Devices : \A i \in 1..Len(line[d]) :
       /\ hold[line[d][i]] = d /\ Working(line[d][i])
       /\ i > 1 => pc[line[d][i]] = "queued"
       /\ \A j \in 1..Len(line[d]) : line[d][i] = line[d][j] => i = j
  /\ \A c \in Clients : Working(c) =>
       hold[c] \in Devices /\ \E i \in 1..Len(line[hold[c]]) : line[hold[c]][i] = c

\* The first `n` pieces of a message of `c`.
Start(c, n) == [i \in 1..n |-> <<c, i>>]

\* What a live device has of an unfinished message is the start of the message
\* of the first in its line; a message nobody is writing has not begun.
WireIsHeads ==
  /\ open = None => wire = <<>>
  /\ open # None /\ ~hung =>
       wire = IF line[open] = <<>> THEN <<>>
              ELSE Start(line[open][1], sent[line[open][1]])
  /\ \A c \in Clients : /\ sent[c] < Pieces
                        /\ pc[c] \notin {"parked", "woken"} => sent[c] = 0

\* What is in hand while a device is open was read in its session, and when
\* the watcher is about to open one, nobody has anything in hand.
SessionsAreFresh ==
  /\ open # None => \A c \in Clients : Pending(c) => fresh[c]
  /\ Tries => \A c \in Clients : ~Pending(c)

\* Only a watcher in a session, or one cancelled in it, has the device open.
WatcherOpens == watcher \in {"none", "starting", "sleeping"} => open = None

\* `_watcher` refers to a watcher that runs, and nobody who has ended it is
\* still waiting; without one somebody is, or the station is closed.
WatcherKept ==
  /\ kept <=> watcher \in {"starting", "sleeping", "mirroring"}
  /\ kept => handover = "no" /\ closing \in {"no", "draining", "waiting"}
  /\ ~kept /\ handover = "no" =>
       \/ closing = "stopping"
       \/ closing \in {"waiting", "closed"} /\ watcher = "none"

\* The inductive invariant.
IInv ==
  /\ TypeOK /\ BatchPending /\ LockLine /\ CountsItsHandlers
  /\ WatcherOpens /\ WatcherKept /\ ReleasedMeansClosed /\ OutageHasADeadline
  /\ NothingParkedOnGone /\ WireIsHeads /\ WholeMessages
  /\ SessionsAreFresh /\ NothingStale /\ NothingAstray
=============================================================================
