---------------------------- MODULE MCCredentials ----------------------------
EXTENDS Credentials, TLC

Symmetry == Permutations(Threads) \cup Permutations(Secrets) \cup Permutations(Values)
=============================================================================
