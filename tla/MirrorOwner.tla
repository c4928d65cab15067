---------------------------- MODULE MirrorOwner ----------------------------
(***************************************************************************)
(* The mirror implements what it promises of its device: Mirror's one      *)
(* handover is DeviceOwner's one borrower, and everything else it does is  *)
(* a step of DeviceOwner's or none.                                        *)
(***************************************************************************)
EXTENDS MirrorInv

CONSTANT Borrower   \* the one caller of `released()` Mirror has

When(yes) == IF yes THEN {Borrower} ELSE {}

Owner == INSTANCE DeviceOwner WITH
  Borrowers <- {Borrower},
  has       <- open # None,
  asking    <- When(handover = "stopping"),
  using     <- When(handover = "block"),
  over      <- Closed

\* Every step of the mirror's is one its borrower may see: the device is let
\* go before the block begins, nothing opens it until the block is over, and
\* a station that is closed takes nothing back (station.py:451, released).
ImplementsOwner == Owner!OwnerSpec

\* And a borrower that asks is given the device: the watcher it cancelled
\* ends, however many clients are writing (station.py:507, _stop_watching).
GivesItUp == Owner!FairOwnerSpec
=============================================================================
