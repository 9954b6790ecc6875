--------------------------- MODULE MCBucketAccess ----------------------------
EXTENDS BucketAccess, TLC

Symmetric == Permutations(Threads) \cup Permutations(Keys) \cup Permutations(Objects)
=============================================================================
