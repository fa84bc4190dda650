--------------------------- MODULE MCSpiffsVolume ---------------------------
EXTENDS SpiffsVolume, TLC
Symmetry == Permutations(Names) \cup Permutations(Fds)
=============================================================================
