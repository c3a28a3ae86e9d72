------------------------------ MODULE MCLpSync ------------------------------
(***************************************************************************)
(* The chains of the runs are written as blocks of transactions.  Their    *)
(* events are what LpEvents makes of the blocks, and the balances of the   *)
(* pools at the end of a round what the chain itself makes of them, so     *)
(* that ChainAssumption of LpSync checks the one against the other.        *)
(***************************************************************************)
EXTENDS LpSync, LpEvents, TLC
LOCAL INSTANCE FiniteSetsExt

CONSTANTS p1, p2, w1, w2, user

\* Asset 1 against ALGO in pool p1, asset 1 against asset 2 in pool p2.
PoolAssets ==
  p1 :> [token |-> 11, asset1 |-> 1, asset2 |-> Algo] @@
  p2 :> [token |-> 12, asset1 |-> 1, asset2 |-> 2]
AssetsOf(pool) == {Algo, PoolAssets[pool].token, PoolAssets[pool].asset1, PoolAssets[pool].asset2}
TrackedAssets == [pool \in {p1, p2} |-> AssetsOf(pool)]

Tx(kind, sender, receiver, asset, amount, fee) ==
  [kind |-> kind, sender |-> sender, receiver |-> receiver, asset |-> asset, amount |-> amount,
   fee |-> fee, via |-> {}, closing |-> FALSE]
Call == Tx("application", user, user, Algo, 0, 1)
Single(id, round, tx) == [id |-> id, round |-> round, nodes |-> (<<>> :> tx)]

\* Round 1: a call with a call inside it, whose transfer comes before the payment after it,
\* and a transfer of strangers.  Round 2: a payment of the pool to itself, of which only the
\* fee remains.
OnePoolBlocks ==
  << << [id |-> "t1", round |-> 1,
         nodes |-> <<>> :> Call @@ <<0>> :> Call
                   @@ <<0, 0>> :> Tx("transfer", user, p1, 1, 1, 0)
                   @@ <<1>> :> Tx("payment", p1, user, Algo, 2, 0)],
        Single("t2", 1, Tx("transfer", user, user, 2, 1, 1)) >>,
     << Single("t3", 2, Tx("payment", p1, p1, Algo, 5, 3)) >> >>

\* Round 1: a swap moves liquidity from pool p2 to p1.  Round 2: p2 gets back its token.
TwoPoolBlocks ==
  << << [id |-> "t1", round |-> 1,
         nodes |-> <<>> :> Call @@ <<0>> :> Tx("transfer", p2, p1, 1, 1, 0)] >>,
     << Single("t2", 2, Tx("transfer", user, p2, 12, 3, 1)) >> >>

\* The same for p2 alone.
LateBlocks ==
  << << Single("t1", 1, Tx("transfer", p2, user, 1, 1, 0)) >>, TwoPoolBlocks[2] >>

\* The four balances of a pool's state as the digits of one number.
Weight == [total_tokens |-> 1, asset1_reserve |-> 10, asset2_reserve |-> 100, operational_algo |-> 1000]
Weighed(pool, asset, delta) ==
  LET d == BalanceDelta(PoolAssets[pool], asset, delta) IN Weight[d.field] * d.amount

EventsOf(blocks) ==
  UNION {LET legs == Ordered(BlockLegs(TrackedAssets, blocks[r])) IN
         {[round |-> legs[i].round, pos |-> i, pool |-> legs[i].pool,
           delta |-> Weighed(legs[i].pool, legs[i].asset, legs[i].delta)] : i \in DOMAIN legs} :
         r \in DOMAIN blocks}

\* At the end of a round by the chain, within a round by the events up to there.
EndBalance(blocks, pool, round) ==
  5555 + MapThenSumSet(
    LAMBDA n : Weighed(pool, n[2], BlockEffect(blocks[n[1]], pool, n[2])),
    (1 .. round) \X AssetsOf(pool))
BalanceOf(blocks, events, pool, c) ==
  IF c.pos = End \/ c.round = 0 THEN EndBalance(blocks, pool, c.round)
  ELSE EndBalance(blocks, pool, c.round - 1)
       + MapThenSumSet(LAMBDA e : e.delta,
           {e \in events : e.pool = pool /\ e.round = c.round /\ ~Before(c, At(e))})

\* TLC computes a definition without parameters once if it is used through another one.
Chain(blocks) ==
  LET events == EventsOf(blocks) IN
  [events |-> events,
   balances |-> [p \in Pools |-> [c \in Cursors |-> BalanceOf(blocks, events, p, c)] @@ <<>>] @@ <<>>]
OnePool == Chain(OnePoolBlocks)
TwoPools == Chain(TwoPoolBlocks)
Late == Chain(LateBlocks)

OnePoolEvents == OnePool.events
OnePoolBalances == OnePool.balances
TwoPoolEvents == TwoPools.events
TwoPoolBalances == TwoPools.balances
LateEvents == Late.events
LateBalances == Late.balances

-----------------------------------------------------------------------------
\* LpEvents over bounded inputs: two inner transactions, side by side or one inside the
\* other, in a call of a user or of a pool, or as transactions of their own.
Assets == {1, 11, 9}
Variants(tx) ==
  {tx, [tx EXCEPT !.closing = TRUE], [tx EXCEPT !.closing = TRUE, !.via = {p1}]}
SomeTxs ==
  UNION {Variants(Tx(k, s, r, a, 2, f)) :
           k \in {"transfer"}, s \in {p1, user}, r \in {p1, p2, user}, a \in Assets, f \in {0, 1}}
  \cup UNION {Variants(Tx("payment", s, r, Algo, 2, f)) :
                s \in {p1, user}, r \in {p1, p2, user}, f \in {0, 1}}
  \cup {Tx("application", s, user, Algo, 0, f) : s \in {p1, user}, f \in {0, 1}}
  \cup {Tx("other", user, user, Algo, 0, 1)}
FewTxs == {tx \in SomeTxs : ~tx.closing /\ tx.asset # 9 /\ tx.receiver # p2}

SomeBlocks ==
  {<<Single("a", 1, t), Single("b", 1, u)>> : t \in SomeTxs, u \in FewTxs}
  \cup {<<[id |-> "a", round |-> 1, nodes |-> <<>> :> r @@ <<0>> :> t @@ second :> u]>> :
          r \in {Call, Tx("application", p1, user, Algo, 0, 0)}, t \in SomeTxs,
          u \in FewTxs, second \in {<<1>>, <<0, 0>>}}

ASSUME ClassificationIsExact ==
  \A block \in SomeBlocks : LegsExact(TrackedAssets, block) /\ IdsDistinct(TrackedAssets, block)
ASSUME FlatteningsAgree == \A block \in SomeBlocks : \A i \in DOMAIN block : TransfersAgree(block[i])

Symmetry == Permutations(Workers)
=============================================================================
