---------------------------- MODULE MCTranslator ----------------------------
(* Translator on a small instance.                                         *)
EXTENDS Translator, TLC

\* A train that is to move.
MCRetained == {<<[dev |-> l, says |-> v]>> : l \in Locos, v \in Values \ {Stop}}
=============================================================================
