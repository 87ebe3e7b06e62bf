----------------------------- MODULE MCChatUsage -----------------------------
EXTENDS ChatUsage, TLC

CONSTANTS c1, c2, r1, r2

MCConversation == {c1, c2}
MCRequest      == {r1, r2}
MCLimits       == {1, NoLimit}

Alike == Permutations(MCConversation) \cup Permutations(MCRequest)
===============================================================================
