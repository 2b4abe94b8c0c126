------------------------------ MODULE MCPanel ------------------------------
EXTENDS HostKeys

CONSTANTS s1, k1, k2, r1, r2
=============================================================================
