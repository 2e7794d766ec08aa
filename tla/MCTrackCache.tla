---------------------------- MODULE MCTrackCache ----------------------------
EXTENDS TrackCache, TLC

CacheSymmetry == Permutations(Keys) \cup Permutations(Downloads)
=============================================================================
