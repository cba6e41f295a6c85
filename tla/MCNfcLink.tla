----------------------------- MODULE MCNfcLink ------------------------------
EXTENDS NfcLink

CONSTANTS zero, first, second

MCIds == {zero, first, second}
=============================================================================
