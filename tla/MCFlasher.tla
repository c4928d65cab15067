----------------------------- MODULE MCFlasher -----------------------------
(* Flasher on a small instance: two who ask for a flash, over and over.    *)
EXTENDS Flasher
=============================================================================
