--------------------------- MODULE MCLockPublish ----------------------------
EXTENDS LockPublish

CONSTANT chip

MCThreads == {chip, Mqtt}
MCLockers == {chip}
=============================================================================
