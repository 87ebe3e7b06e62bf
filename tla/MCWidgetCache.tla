----------------------------- MODULE MCWidgetCache -----------------------------
EXTENDS WidgetCache, TLC

CONSTANTS k1, k2, v1, v2, e1, e2

MCKey     == {k1, k2}
MCVisitor == {v1, v2}
MCEditor  == {e1, e2}

Alike == Permutations(MCKey) \cup Permutations(MCVisitor) \cup Permutations(MCEditor)
===============================================================================
