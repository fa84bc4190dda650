---------------------------- MODULE MCSpiffsVfs -----------------------------
EXTENDS SpiffsVfs, TLC

CONSTANTS t1, t2, t3, a, b, o1, o2, s1, s2, f1, f2

Symmetry == Permutations({t1, t2, t3}) \cup Permutations({a, b}) \cup Permutations({o1, o2})
            \cup Permutations({s1, s2}) \cup Permutations({f1, f2})

=============================================================================
