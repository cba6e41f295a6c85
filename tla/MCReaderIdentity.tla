-------------------------- MODULE MCReaderIdentity --------------------------
EXTENDS ReaderIdentity, TLC

IdSymmetry == Permutations(Ids)
=============================================================================
