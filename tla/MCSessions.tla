----------------------------- MODULE MCSessions -----------------------------
EXTENDS Sessions, TLC

SixBuffers == 1 .. 6
\* Neither a slot nor a worker is preferred to another.
SlotsAndWorkersAlike == Permutations(Slots) \cup Permutations(Workers)
=============================================================================
