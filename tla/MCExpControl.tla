---------------------------- MODULE MCExpControl ----------------------------
EXTENDS ExpSingleProofs, TLC
=============================================================================
