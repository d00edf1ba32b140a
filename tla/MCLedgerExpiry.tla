----------------------------- MODULE MCLedgerExpiry -----------------------------
(* Bounds of the expire_due runs.                                            *)
EXTENDS LedgerExpiry, TLC

MCRank == CHOOSE f \in [Records -> 1 .. Cardinality(Records)] :
            \A q, r \in Records : q # r => f[q] # f[r]
MCSymmetry == Permutations(CommandIds)
=============================================================================
