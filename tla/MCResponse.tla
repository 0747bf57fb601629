---------------------------- MODULE MCResponse ----------------------------
EXTENDS Response, TLC

MCSymmetry == Permutations(Readers)
=============================================================================
