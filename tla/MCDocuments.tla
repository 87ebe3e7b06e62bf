------------------------------ MODULE MCDocuments ------------------------------
EXTENDS Documents, TLC

CONSTANTS d1, d2, d3, d4, d5, r1, r2

MCDoc     == {d1, d2, d3, d4, d5}
MCText    == {d1, d2, d3, d4}
MCRequest == {r1, r2}

Alike == Permutations(MCText) \cup Permutations(MCRequest)
===============================================================================
