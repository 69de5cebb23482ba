----------------------------- MODULE MCObsCache ------------------------------
(* An instance of ObsCache for TLC. *)
EXTENDS ObsCache, TLC

CONSTANTS m1, m2, m3, noMac, s1, s2, s3, n1, n2

MCMac == {m1, m2, m3}
MCSource == {s1, s2, s3}
MCProbedSsid == {n1, n2}
MCSymmetry == Permutations(MCMac)

\* Bound: the caches are not explored together.
OneCacheInUse == Occupied = {} \/ UsedProbes = {}
=============================================================================
