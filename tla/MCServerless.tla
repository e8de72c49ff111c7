---------------------------- MODULE MCServerless ----------------------------
EXTENDS Serverless, TLC
CONSTANTS c1, a1, a2, i1, i2, b1
Symmetric == Permutations({a1, a2}) \cup Permutations({i1, i2})
=============================================================================
