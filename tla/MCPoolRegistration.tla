------------------------- MODULE MCPoolRegistration -------------------------
EXTENDS PoolRegistration

CONSTANTS a1, p1, p2

New == <<"farm", "17.2.5">>
\* The checks of the codec's tables ride along with the run.
ASSUME TablesAreSound == LayoutsWellLaid

\* One application of the newest farm, with the platform as its beneficiary.
MCAppOf ==
  [id \in {a1} |->
     [id |-> a1, approval |-> New, clear |-> "reach", pages |-> 2, beneficiary |-> TRUE,
      globalSlices |-> 4, globalUints |-> 0, localSlices |-> 1, localUints |-> 0,
      step |-> 4, chunks |-> 3, bytes |-> 282]]

\* Two requests that differ in whether they name a DEX, and one of another version.
MCRequests ==
  {[id |-> a1, declared |-> New, dex |-> TRUE], [id |-> a1, declared |-> New, dex |-> FALSE],
   [id |-> a1, declared |-> <<"farm", "17.2.4">>, dex |-> FALSE]}

\* What an earlier release may have left: an empty database with collections to repair; a
\* contract from before the dates were kept, with all its block numbers, with none, or without
\* metadata; a contract with a pool of the opposite kind, with another pool, or with its own
\* and the pool state; a contract of another version; a pool and a pool state without their
\* contract; and, twice, stores a server refuses to start on.
Old(contract, staking, farming, st, fl) ==
  [contracts |-> [id \in {a1} |-> contract],
   pools |-> [kind \in Kinds |-> [id \in {a1} |-> IF kind = "staking" THEN staking ELSE farming]],
   states |-> [id \in {a1} |-> st],
   flaws |-> fl]

Dated == [declared |-> New, dex |-> TRUE, blocks |-> "all", dated |-> TRUE, cache |-> "empty"]
Early == [Dated EXCEPT !.dated = FALSE]
Unlocked == [Early EXCEPT !.blocks = "none"]
Bare == [Unlocked EXCEPT !.dex = FALSE, !.cache = "none"]
Former == [Dated EXCEPT !.declared = <<"farm", "17.2.4">>]
Repairable ==
  {<<"asset_prices", "duplicates">>, <<"asset_prices", "raw_reserves">>,
   <<"sync_states", "legacy id">>}

MCOldStores ==
  {Old(None, None, None, None, Repairable),
   Old(Early, None, None, None, {}),
   Old(Unlocked, None, None, None, {}),
   Old(Bare, None, None, None, {}),
   Old(Dated, "own", None, None, {}),
   Old(Dated, None, "other", None, {}),
   Old(Dated, None, "own", "farming", {}),
   Old(Former, None, None, None, {}),
   Old(None, "own", None, "other", {}),
   Old(None, "own", "other", None, {}),
   Old(None, None, None, None, {<<"staking_pools", "duplicates">>})}
=============================================================================
