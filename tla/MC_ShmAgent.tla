---------------------------- MODULE MC_ShmAgent ----------------------------
EXTENDS ShmAgent

CONSTANTS c1, c2, s1
=============================================================================
