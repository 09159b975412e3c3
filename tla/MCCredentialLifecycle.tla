---- MODULE MCCredentialLifecycle ----
EXTENDS CredentialLifecycle, TLC
Symmetry == Permutations(Tuis) \cup Permutations(Refreshes)
====
