------------------------------ MODULE MCSessions ------------------------------
EXTENDS Sessions, TLC

TwoPolicies == {[idle |-> 1, absolute |-> 2], [idle |-> 2, absolute |-> 2]}
ShortPolicy == [idle |-> 1, absolute |-> 2]

TwoIds == 1..2

Symmetry == Permutations(Threads) \cup Permutations(Agents)
=============================================================================
