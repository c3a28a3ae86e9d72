------------------------------ MODULE LpEvents ------------------------------
(***************************************************************************)
(* From the transactions of a block to the events of the pools: the        *)
(* flattening of inner transactions (flex/domain/transactions.py) and      *)
(* process_lp_transactions (flex/sync_pools.py).  Pure functions: LpSync   *)
(* takes their result as the chain's events.                               *)
(*                                                                         *)
(* A top-level transaction is a tree: its id, its round, and its nodes by  *)
(* path, the root at <<>> and inner transaction i of the node at p at      *)
(* Append(p, i).  A node is a record of                                    *)
(*   kind              "transfer", "payment", "application" or "other"     *)
(*   sender, receiver, asset, amount, fee                                  *)
(*   via               the clawback source and close-to addresses it names *)
(*   closing           it has one of the clawback or close fields          *)
(* An event id is <<root, path>>, with "fee" and a pool's address added by *)
(* what the ids of the code have added to them.                            *)
(***************************************************************************)
EXTENDS Integers, Sequences, FiniteSets
LOCAL INSTANCE TLC
LOCAL INSTANCE SequencesExt
LOCAL INSTANCE FiniteSetsExt

Root(tree) == tree.nodes[<<>>]
Moves(tx) == tx.kind \in {"transfer", "payment"}

\* _walk_inner: a parent before its inner transactions, those in their order.
PathBefore(p, q) ==
  \/ IsStrictPrefix(p, q)
  \/ \E i \in DOMAIN p \cap DOMAIN q :
       p[i] < q[i] /\ \A j \in 1 .. i - 1 : p[j] = q[j]
Walk(tree) == SetToSortSeq(DOMAIN tree.nodes \ {<<>>}, PathBefore)

\* _copy_with_id and _inherit_root_metadata: an event has its own id and the root's round.
Event(tree, path) == [id |-> <<tree.id, path>>, round |-> tree.round, tx |-> tree.nodes[path]]
EventsAt(tree, paths) == [i \in DOMAIN paths |-> Event(tree, paths[i])]

\* flatten_transfer_payments, for one top-level transaction.
FlattenTransferPayments(tree) ==
  IF Moves(Root(tree)) THEN <<Event(tree, <<>>)>>
  ELSE IF Root(tree).kind = "application"
  THEN EventsAt(tree, SelectSeq(Walk(tree), LAMBDA p : Moves(tree.nodes[p])))
  ELSE <<>>

\* flatten_asset_transfers, for one top-level transaction.
FlattenAssetTransfers(tree, skipGroupsWithPayments) ==
  LET nested == Walk(tree) IN
  IF Root(tree).kind = "transfer" THEN <<Event(tree, <<>>)>>
  ELSE IF /\ Root(tree).kind = "application"
          /\ ~(skipGroupsWithPayments /\ \E p \in Range(nested) : tree.nodes[p].kind = "payment")
  THEN EventsAt(tree, SelectSeq(nested, LAMBDA p : tree.nodes[p].kind = "transfer"))
  ELSE <<>>

\* projection_event_id, and the ids under which event_id_aliases finds a projected event.
Projected(id, scope) == Append(id, scope)
Aliases(id) == {id, Front(id), <<id[1], <<>>>>}

-----------------------------------------------------------------------------
\* process_lp_transactions, for pools with the assets in tracked[pool].  Every pool tracks
\* ALGO, asset 0 (get_lp_tracked_assets_by_address).
Algo == 0
TracksAsset(tracked, address, asset) == address \in DOMAIN tracked /\ asset \in tracked[address]
Asset(tx) == IF tx.kind = "payment" THEN Algo ELSE tx.asset
Affected(tx) == {tx.sender, tx.receiver} \cup tx.via

\* An event that touches no pool is skipped, one whose clawback or close fields may change
\* a pool stops the block.
Skipped(tracked, tx) == Affected(tx) \cap DOMAIN tracked = {}
Unsupported(tracked, tx) ==
  /\ ~Skipped(tracked, tx) /\ tx.closing
  /\ tx.kind = "transfer" => \E a \in Affected(tx) : TracksAsset(tracked, a, tx.asset)

Leg(event, id, pool, asset, delta, position) ==
  [id |-> Projected(id, pool), pool |-> pool, asset |-> asset, delta |-> delta,
   round |-> event.round, position |-> position]

\* The legs of one event: what leaves the sender and reaches the receiver, unless they are
\* the same pool, and the fee of the sender, if it is a pool.
SelfTransfer(tracked, tx) == tx.sender = tx.receiver /\ TracksAsset(tracked, tx.sender, Asset(tx))
TransferLegs(tracked, event, position) ==
  LET tx == event.tx
      leg(pool, delta) == Leg(event, event.id, pool, Asset(tx), delta, position)
  IN IF SelfTransfer(tracked, tx) THEN <<>>
     ELSE (IF TracksAsset(tracked, tx.sender, Asset(tx)) THEN <<leg(tx.sender, -tx.amount)>> ELSE <<>>)
          \o (IF TracksAsset(tracked, tx.receiver, Asset(tx)) THEN <<leg(tx.receiver, tx.amount)>> ELSE <<>>)

\* _transaction_fee.
FeeLegs(tracked, event, position) ==
  IF event.tx.sender \in DOMAIN tracked /\ event.tx.fee > 0
  THEN <<Leg(event, Append(event.id, "fee"), event.tx.sender, Algo, -event.tx.fee, position)>>
  ELSE <<>>

EventLegs(tracked, event, position) ==
  IF Skipped(tracked, event.tx) THEN <<>>
  ELSE TransferLegs(tracked, event, position) \o FeeLegs(tracked, event, position)

\* The events of a block, a sequence of trees, and the LpTransactions made of them.  The
\* round fails when one of them is not supported.
BlockEvents(block) == FlattenSeq([i \in DOMAIN block |-> FlattenTransferPayments(block[i])])
Fails(tracked, block) ==
  \E i \in DOMAIN BlockEvents(block) : Unsupported(tracked, BlockEvents(block)[i].tx)
BlockLegs(tracked, block) ==
  LET events == BlockEvents(block) IN
  FlattenSeq([i \in DOMAIN events |-> EventLegs(tracked, events[i], i - 1)])

\* lp_event_order within a block: by position, and by id in one event, where the "#" of a
\* fee comes before the "@" of the transfer.  (Two pools' legs of one event may stand in
\* either order.)
LegBefore(a, b) ==
  a.position < b.position \/ (a.position = b.position /\ Len(a.id) > Len(b.id))
Ordered(legs) == SortSeq(legs, LegBefore)

\* lp_balance_delta: the balance of a pool's state that an event moves.  The total of a
\* pool's own token is what the pool does not hold, so it moves the other way.
BalanceDelta(pool, asset, delta) ==
  IF asset = pool.token THEN [field |-> "total_tokens", amount |-> -delta]
  ELSE IF asset = pool.asset1 THEN [field |-> "asset1_reserve", amount |-> delta]
  ELSE IF asset = pool.asset2 THEN [field |-> "asset2_reserve", amount |-> delta]
  ELSE [field |-> "operational_algo", amount |-> delta]

-----------------------------------------------------------------------------
\* The chain's own account, to check the events against: what all the nodes of a block,
\* whatever their kind, do to the balance a pool has of an asset.
NodeEffect(tx, pool, asset) ==
  (IF Moves(tx) /\ Asset(tx) = asset /\ tx.receiver = pool THEN tx.amount ELSE 0)
  - (IF Moves(tx) /\ Asset(tx) = asset /\ tx.sender = pool THEN tx.amount ELSE 0)
  - (IF asset = Algo /\ tx.sender = pool THEN tx.fee ELSE 0)
BlockEffect(block, pool, asset) ==
  MapThenSumSet(LAMBDA n : NodeEffect(block[n[1]].nodes[n[2]], pool, asset),
                UNION {{i} \X DOMAIN block[i].nodes : i \in DOMAIN block})
LegsEffect(legs, pool, asset) ==
  MapThenSumSet(LAMBDA i : legs[i].delta,
                {i \in DOMAIN legs : legs[i].pool = pool /\ legs[i].asset = asset})

\* A pool pays the fee of a node that moves nothing, which becomes no event.
IdleFee(tracked, block) ==
  \E i \in DOMAIN block : \E p \in DOMAIN block[i].nodes :
    LET tx == block[i].nodes[p] IN
    tx.sender \in DOMAIN tracked /\ tx.fee > 0 /\ ~Moves(tx)

\* The events of a block account for everything the block does to the balances of a pool,
\* if the block is accepted and the pool pays for no node that moves nothing.
LegsExact(tracked, block) ==
  Fails(tracked, block) \/ IdleFee(tracked, block) \/
    \A pool \in DOMAIN tracked : \A asset \in tracked[pool] :
      LegsEffect(BlockLegs(tracked, block), pool, asset) = BlockEffect(block, pool, asset)

\* No two events of a block have one id, and none has an id that another is looked up under
\* (as _legacy_alias would do, and then stop the projection for good).
IdsDistinct(tracked, block) ==
  LET legs == BlockLegs(tracked, block) IN
  \A i, j \in DOMAIN legs : i # j => legs[j].id \notin Aliases(legs[i].id)

\* The asset transfers are the transfers among the transfers and payments.
TransfersAgree(tree) ==
  LET all == FlattenTransferPayments(tree) IN
  FlattenAssetTransfers(tree, FALSE) = SelectSeq(all, LAMBDA e : e.tx.kind = "transfer")
=============================================================================
