-------------------------- MODULE MCNetConnection --------------------------
\* An instance of NetConnection for TLC; the constants are in the cfg files.
EXTENDS NetConnection, TLC
=============================================================================
