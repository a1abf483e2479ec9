------------------------------ MODULE MCDbPool ------------------------------
EXTENDS DbPoolProofs
=============================================================================
