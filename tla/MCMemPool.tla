------------------------------ MODULE MCMemPool ------------------------------
EXTENDS MemPool
\* A chunk for blocks of 512 bytes at the first base adjoins one at the second.
MCBases == {1000000, 1002048}
MCRequests == {500, 600, 200000}
=============================================================================
