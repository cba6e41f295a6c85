---------------------------- MODULE MCLockReport ----------------------------
EXTENDS LockReport

CONSTANT reader

MCThreads == {reader, Chip}
MCLockers == {Chip}
=============================================================================
