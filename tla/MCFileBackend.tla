--------------------------- MODULE MCFileBackend ---------------------------
EXTENDS FileBackend, TLC

MCSymmetry == Permutations(Readers)
=============================================================================
