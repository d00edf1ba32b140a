---------------------------- MODULE MCSecretVault ----------------------------
EXTENDS SecretVault, TLC
CONSTANTS k0, k1, k2, k3, a, b, t1, t2
(* FirstKey is k0, so only the keys of later rotations are symmetric.       *)
MCSymmetry == Permutations({k1, k2, k3}) \cup Permutations(Names) \cup Permutations(Threads)
=============================================================================
