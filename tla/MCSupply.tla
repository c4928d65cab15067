------------------------------ MODULE MCSupply ------------------------------
EXTENDS Supply, TLC
=============================================================================
