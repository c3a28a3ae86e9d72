--------------------------- MODULE MCAssetPrices ---------------------------
EXTENDS AssetPrices, TLC

CONSTANTS t1, t2, p1, p2

\* Two processes whose clocks are apart by all that is tolerated.
Alone == (t1 :> p1) @@ (t2 :> p2)
Apart == (p1 :> 0) @@ (p2 :> 1)

\* A price without a time, one from the future, and a retired one.
Inherited == {[at |-> 0, dated |-> FALSE, retired |-> FALSE],
              [at |-> MaxTime + 2 * Skew + 1, dated |-> TRUE, retired |-> FALSE],
              [at |-> 1, dated |-> TRUE, retired |-> TRUE]}
=============================================================================
