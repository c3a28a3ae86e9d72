-------------------------- MODULE MCAssetTransfers --------------------------
(* Two processes pay one operation, asked for with two different terms.    *)
EXTENDS AssetTransfers, TLC

Symmetry == Permutations(Workers) \cup Permutations(Terms)
=============================================================================
