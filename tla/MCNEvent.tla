------------------------------ MODULE MCNEvent ------------------------------
EXTENDS NEvent
=============================================================================
