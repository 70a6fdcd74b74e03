-------------------------------- MODULE MCCleanup --------------------------------
EXTENDS Cleanup, TLC

CONSTANTS j1, j2

Symmetric == Permutations({j1, j2})
==================================================================================
