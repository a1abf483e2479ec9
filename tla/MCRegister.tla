---------------------------- MODULE MCRegister ----------------------------
EXTENDS Register
=============================================================================
