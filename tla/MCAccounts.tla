----------------------------- MODULE MCAccounts -----------------------------
EXTENDS Accounts

\* "ann" stands for a name that fills the buffer: a login that goes on is cut
\* to it.
MCCut == [n \in Login |-> IF n \in Name THEN n ELSE "ann"]
=============================================================================
