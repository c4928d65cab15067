----------------------------- MODULE MCEditing -----------------------------
EXTENDS Editing, TLC
Alike == Permutations(Railroads)
=============================================================================
