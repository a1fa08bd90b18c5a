------------------------------ MODULE MCRelay ------------------------------
EXTENDS RelayProperties
=============================================================================
