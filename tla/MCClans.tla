------------------------------- MODULE MCClans -------------------------------
EXTENDS Clans, TLC

\* Accounts are alike as long as no language is the id of one.
Slots == Permutations(Slot)
Symmetry == Slots \cup Permutations(Account)
=============================================================================
