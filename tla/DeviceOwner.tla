---------------------------- MODULE DeviceOwner ----------------------------
(***************************************************************************)
(* What the mirror promises of the one serial device to whoever borrows it *)
(* (src/src/dccex_usb/station.py, held, released and close; the protocol   *)
(* Device in src/src/dccex_usb/firmware.py is these three).                *)
(*                                                                         *)
(* It has the device or it does not.  A borrower asks for the device, is   *)
(* given it once the mirror has let it go, and gives it back; only then    *)
(* does the mirror open it again.  Mirror implements this (MirrorOwner),   *)
(* and Flasher is written on top of it.                                    *)
(***************************************************************************)
CONSTANT Borrowers   \* the callers of `released()`

VARIABLES
  has,      \* the mirror has the device open: Station.held
  kept,     \* there is a watcher, which opens the device: Station._watcher
  asking,   \* borrowers waiting for the watcher to end
  using,    \* borrowers whose block runs
  over      \* `close` has begun: Station._closed

ownerVars == <<has, kept, asking, using, over>>

OwnerInit ==
  has = FALSE /\ kept = TRUE /\ asking = {} /\ using = {} /\ over = FALSE

\* The watcher opens the device.
Take == /\ kept /\ ~has /\ has' = TRUE
        /\ UNCHANGED <<kept, asking, using, over>>

\* It goes away, or the watcher lets it go on its way out.
Lose == has /\ has' = FALSE /\ UNCHANGED <<kept, asking, using, over>>

\* `released()` is entered: the first to ask has a watcher to wait for.
Ask(u) ==
  /\ u \notin asking \cup using
  /\ IF kept THEN kept' = FALSE /\ asking' = asking \cup {u} /\ using' = using
             ELSE using' = using \cup {u} /\ UNCHANGED <<kept, asking>>
  /\ UNCHANGED <<has, over>>

\* The watcher has ended, and with it what it had open.
Give(u) ==
  /\ u \in asking /\ ~has
  /\ asking' = asking \ {u} /\ using' = using \cup {u}
  /\ UNCHANGED <<has, kept, over>>

\* The block is over, and the watching starts again unless the station closed.
Back(u) ==
  /\ u \in using /\ using' = using \ {u}
  /\ kept' = (kept \/ ~over)
  /\ UNCHANGED <<has, asking, over>>

\* `close` begins, and later ends the watcher there still is.
End == ~over /\ over' = TRUE /\ UNCHANGED <<has, kept, asking, using>>
EndWatching == over /\ kept /\ kept' = FALSE /\ UNCHANGED <<has, asking, using, over>>

OwnerNext ==
  \/ Take \/ Lose \/ End \/ EndWatching
  \/ \E u \in Borrowers : Ask(u) \/ Give(u) \/ Back(u)

OwnerSpec == OwnerInit /\ [][OwnerNext]_ownerVars

\* A watcher that was cancelled ends, and whoever waited for it goes on.
OwnerFairness ==
  /\ WF_ownerVars(asking # {} /\ Lose)
  /\ \A u \in Borrowers : WF_ownerVars(Give(u))

FairOwnerSpec == OwnerSpec /\ OwnerFairness
=============================================================================
