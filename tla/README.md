# Verification of the Cometa backend

TLA+ models of `MetaLabsOG/cometa-backend`, checked with TLC and, in part, proved
with TLAPS. The code moves assets on Algorand and keeps Mongo documents about them.
Nothing spans two Mongo documents or a document and the chain in one transaction, so
the correctness of each part rests on the order of single-document updates, on
compare-and-set filters and on what a retry finds. That is what is modelled here.

## The system

| Part | State it keeps | Operations | Talks to |
| --- | --- | --- | --- |
| Asset transfers (`flex/application/asset_transfers.py`, `flex/db/asset_transfer_intents.py`, `flex/blockchain/asset_transfers.py`) | one intent document per operation id | `execute`, `reconcile`, `validate`, `lookup_confirmed_transfer` | algod, Indexer, Mongo; called by airdrop and lottery |
| Circuit breaker (`core/circuit_breaker.py`) | state, count and time of failures, probe slot, in one process | `execute` | wraps the price refresh of `api/background.py` |
| LP projector (`flex/sync_pools.py`, `flex/data/lp_states.py`, `flex/db/sync_coordinator.py`, `flex/db/lp_projection.py`) | one LP state per pool, one marker per event, the `sync_states/main` lease and checkpoint | snapshot cutover, claim, project, complete, release | Indexer, Mongo, competing workers |
| Event classification (`flex/domain/transactions.py`, `flex/sync_pools.py`) | none | from a block to the events of the pools | feeds the projector |
| NFT lottery (`api/nft_lottery.py`) | entitlement per lottery and wallet, one draw per generation | claim, prepare, materialise, backfill, pay out | asset transfers |
| Airdrop (`flex/tools/airdrop.py`, `flex/domain/allocation.py`) | campaign manifest, one reward per recipient | `send_airdrop` | asset transfers |
| Asset prices (`flex/data/asset_prices.py`, `flex/domain/pricing.py`, `flex/providers/price_router.py`) | last observation per asset, a cache per process | upsert, refresh, read with fallback | providers, circuit breaker |
| Contract registration (`app.py`, `core/db/contracts.py`, `flex/application/pool_registration.py`, `flex/data/pool_state.py`) | contract, pool and pool state in three stores | start, register, refresh the cached view | Algorand, background refresh |
| Index installation (`flex/db/indexes.py`) | unique indexes | refuse, repair, index | start of every server |
| Contract state codec (`flex/blockchain/contract_state.py`) | none | check and decode an application | registration, refresh |

Everything else is I/O, parsing, presentation or operator tooling; `PROJECT.json` lists
it under `components` with the reason it is left out.

What makes each part correct, and what makes that hard:

- **Asset transfers** - an operation is paid at most once and never with other terms;
  what callers are told is true; what was paid is recorded. Hard: a node may accept a
  transaction and the answer be lost, the process may die at any call, several
  processes retry the same operation, nodes lag, windows expire.
- **Circuit breaker** - the slot of the probe is not leaked, an open circuit is left
  through a probe only, a recovered provider gets its calls again. Hard: calls admitted
  before the circuit opened end at any time after it did.
- **LP projector** - a pool's ledger is the chain's balance at its cursor, the
  checkpoint passes no event, the marker never runs ahead of the state. Hard: standalone
  Mongo writes state and marker separately, leases expire under slow workers, snapshots
  come from a lagging Indexer, pools appear while workers run.
- **Event classification** - the events of a block add up to what it does to a pool, each
  with an id of its own. Hard: inner transactions, fees, transfers of a pool to itself.
- **Lottery** - one liability per wallet and window, paid once. Hard: requests help one
  another's unfinished reservations, payout and entitlement are two documents, draws of
  earlier releases have neither ids nor operations.
- **Airdrop** - the budget is allocated exactly, never exceeded, and `complete` is final
  and true. Hard: workers that run one campaign concurrently and fail in part.
- **Prices** - observations never go back in time, stale ones are served within a bound.
  Hard: inserts that race, clocks that differ, caches and fallbacks on top of one another.
- **Registration** - one identity per contract id over three stores, a registration stored
  in part is completed by its repetition, the cached view comes to agree with the chain.
  Hard: nothing spans the stores, refreshes write back what they read before they waited.

## Modules

| Module | What it is |
| --- | --- |
| `Payout` | abstract: an operation is bound to one transaction, only that one pays, callers hear of it afterwards |
| `AssetTransfers`, `AssetTransfersProofs` | the transfer service, its repository, the nodes and the chain; implements `Payout`; its theorems |
| `CircuitBreaker`, `CircuitBreakerProofs` | the breaker and its theorems |
| `LpLedger` | abstract: a ledger only moves forward along the chain, to the chain's balance |
| `LpSync`, `LpSyncProofs` | the projector with its workers, lease, checkpoint and cutover; implements `LpLedger`; its theorems |
| `LpEvents` | the classification of a block's transactions, pure operators |
| `Lottery`, `LotteryProofs` | one staking lottery and one wallet, its requests and the payout workers, and its theorems |
| `Allocation`, `AllocationProofs` | the largest-remainder division, pure operators, and the proof that it is exact |
| `Airdrop`, `AirdropProofs` | concurrent runs of a campaign, and its theorems |
| `AssetPrices`, `AssetPricesProofs` | the stored price of one asset, its readers and writers, and its theorems |
| `ContractState` | layouts, checks and views of the Reach contracts, pure operators |
| `PoolRegistration`, `PoolRegistrationProofs` | start of a server, registration and refresh over the three stores; extends `ContractState`; its theorems |
| `MC*` | values, bounds and symmetry for the runs |

`MCLpSync` composes `LpEvents` and `LpSync`: the chains of its runs are blocks of
transactions, the events are what `LpEvents` makes of them, and the balances at the end of
a round what the blocks themselves do. `Lottery` and `Airdrop` see the transfer service
as `Payout` promises it: an operation pays at most once, possibly after its caller heard
of an error, or expires for ever.

In every module a definition preceded by a comment that describes a fault (for example
`StoredOverwritten`) is a plausible bug, used by nothing: putting it in the place of the
definition after it must break the property `PROJECT.json` names under `mutants`.

### AssetTransfers

A worker is a process inside `execute` or `reconcile`; `pc` is the next repository or
gateway call, and each call is one action. A Mongo call is atomic. `intents` holds the
document with the fields the control depends on: transaction, status, whether an attempt
was recorded, whether an error is, the confirmation round. A transaction is its
operation, terms and first valid round; Ed25519 signing is deterministic, so the same
fields give the same transaction id. `round`, `pool` and `confirmedAt` are the chain and
external: a node accepts a transaction that is not in the ledger inside its window, and
each block confirms any part of the pool. Nodes report a round up to `MaxLag` behind.
The lease `prepare` sets would let the chain refuse a second transaction of an operation;
it is left out, so the safety results do not depend on it. `Abandon` is a process that
dies or a driver exception that ends the call; it may strike at every step. Errors of
broadcast and `mark_submitted` are swallowed as in the code (`BroadcastFails`,
`MarkSubmittedFails`); `BroadcastAccepted` also covers a lost answer. Validation of
addresses, fees and genesis ends a call before it changes anything and is part of
`Abandon`. `lookup_confirmed_round` asks algod and then the Indexer, and only algod's "not
found" is caught (`flex/blockchain/asset_transfers.py:191-207`): for a transaction that is in
no block it raises. So a lookup finds the round or fails (`ExpiredLookupFinds`,
`ExpiredLookupFails`, `ReconcileLookupFinds`, `ReconcileLookupFails`), and what follows a lookup
that returns `None` has no action, for no gateway of the code gets there; see "Limits found".

### CircuitBreaker

`_before_call` and the `_record` methods run under the lock without suspending, so each
is one action; the protected call lies between two of them. Time is a tick counter for
the age of the last failure, capped at the timeout, and the failure count is capped at
the threshold, since neither is compared with anything larger. A failure that
`record_failure` rejects is `Succeed`, as in the code. The methods do not ask whose call
ended: a late failure frees the slot of a probe that still runs, and a late success resets
the count and closes the half-open circuit under it. `OnlyProbesWhileFailing` says what holds
all the same: from the failure that reaches the threshold until some call succeeds, late or
not, each call that is let through is a probe, and the recovery timeout has passed before it.

### LpSync

Each worker walks `sync_pools_loop`: `Start`, `ReadPools`, creation of missing states, a snapshot of
every pool, `AdvanceSnapshot`, then block by block `Claim`, `LoadTracked`, for each event
`ReadState`, `Lookup`, `Reread`, `Apply`, `Record`, then `Complete` and `SaveBlock`; errors
go to `Release` and, after `sync_round_max_attempts`, end the process. One action is one
Mongo command or Indexer call. A cursor is a round and a position; the string
comparison of `lp_event_order` and of the round-end sentinel `~` becomes `Before`, with
`End` the position after every event. A pool has one balance instead of four, since an
event changes one field and the cursor guards all of them alike. The constants `Events`
and `BalanceAt` are the chain; `ChainAssumption` says that a balance changes with the
events and with nothing else. `ExpireLease` may strike a living owner; `Crash` gives the
next process another worker id. The read that follows a refused `_apply_delta` is merged
with it: cursors only grow, so it can only confirm the refusal. `get_sync_state` after a
refused claim or a failed round is merged with the step before it: a worker that would have
read a newer checkpoint takes one more refused `Claim`, which changes nothing but its view. Corrupted
markers and `SyncBlock` contents are left out; nothing else reads the latter.

### LpEvents

A top-level transaction is a tree of nodes by path. `Walk`, `FlattenTransferPayments`,
`FlattenAssetTransfers`, `BlockLegs`, `Ordered` and the ids follow `transactions.py` and
`process_lp_transactions`; the presence of clawback and close fields is the datum
`closing`. Assumptions of `MCLpSync`, which TLC evaluates, say that over every block of
two transactions or of a call with two inner ones the legs of a pool add up to its
balance change, no two legs share an id, and both flattenings find the same transfers.
Two limits are stated with them: a fee the pool pays for a transaction that moves no asset
is dropped by the code (`transactions.py:109-110`; `IdleFee` excludes it, and with such a
fee `ChainAssumption` does not hold), and an Indexer that reports `close-amount: 0`
on every transfer would make the code reject all of them (`sync_pools.py:117,135`). The
four balances of a pool are the digits of one number.

### Lottery

A request is a process inside `lottery_for_staking`, a payer one inside
`send_all_prizes`; each Mongo command, Indexer lookup and call of the transfer service is an
action, and either may die at any of them. The uuid of a draw is the generation it was
reserved for. Draws of earlier releases (`LegacyDocs`) have no id, status or operation; `old`
remembers those an old worker may have paid: these are incomplete, recorded as claimed, or
set aside for reconciliation (`SetAside`). An old draw that has its operation may be found with that operation
in any state, but paid if the draw is claimed. The same NFT may be promised to two draws;
the second transfer then cannot be made (`Lost`), which the code leaves to an operator. The
endpoints answer 503 at this commit (`app.py:564-579`), the module behind them is what
is modelled. A Mongo error around the transfer of a prize is handled like an error of the
transfer (`PayerRaises`), whether or not the command was carried out; outside the handler it
ends the payout (`PayerEnds`). `ensure_lottery_indexes` and the listing of prizes are left out.

### Airdrop and Allocation

`Allocate` is `allocate_proportionally` with integer shares; `AllocationIsExact` compares it
with `ExactDivision` for up to four recipients, and `AllocationProofs` proves it for any number. A worker of `Airdrop` is a run of
`send_airdrop`: it finds or inserts the manifest, links rewards of earlier releases, then for
each recipient reads the reward, calls the transfer service and records the reward, and
finally marks the campaign. Runs of different plans, or of plans with other shares and
the same amounts, may overlap.

### AssetPrices

An observation is its time, whether it has one, and whether it is a retired projection
of raw reserves. A task is a cached read, a list read, a periodic refresh, a batch or the
router; each process has a cache and a clock `Offset` ahead of the slowest. Retries of a provider
that cannot be reached change nothing. The filter of an upsert takes its clock once, so one
that stalls for longer than the tolerated skew could take a newer observation for one
from the future: `ClocksAssumption` keeps the offset plus `Delay`, the time a task holds an
observation, within `MAX_OBSERVATION_CLOCK_SKEW`, and `OldAssumption` says the same of the
document found at the start. The router and the list judge a stored price by the clock at which the
request began, hence "when the request came in" in `BoundedStale`. It judges the answers of a
batch too, which the enriched contracts route gives out, also the stored price that stands in for
a lost write; only what the background refresh gets is given to nobody.

### PoolRegistration and ContractState

A process starts (`Startup` goes through `Installs`, every step of `ensure_database_indexes`
as what it refuses, repairs and indexes; then the migration of dates), serves registrations
(`Request` to `InsertState`, contract, pool and pool state one after the other) and refreshes
cached views (`StartRefresh` to `WriteView`). It does one of these at a time, which
is what its steps between two awaits amount to; two processes of overlapping deployments
interleave. A layout is the positions of its fields, `LayoutsWellLaid` checks that they
neither overlap nor leave the vector. `OldStores` is what earlier releases may have left; a pool state among them is
that of the contract and the pool beside it, or it is `other`.
A batch refresh is taken one contract at a time; the time-to-live cache in front of
`get_contracts_by_type` is subsumed by a refresh that takes longer.
A contract's block numbers are none, those of the begin and the end, or also the length of the
lock: a registration sets all three (`app.py:263-265`), the migration of an old contract only the
first two (`app.py:631-644`), and it passes over a contract without a cached view. `PoolFields`
is what the pool builders read of the *stored* contract: the three numbers, and from the view in
its cache the tokens and the totals of the rewards. `AnchorKept` says that no copy written back
takes any of it away, and `RegistrationCompletes` that a contract which has it is completed by a
repeated request. It excludes what it must: stores no server starts on, a record of the same
id and another identity, and contracts without `PoolFields`, for which see "Limits found". An operator's
refresh (`/contracts/refresh-cache`) passes over no contract, the background task over
those that have ended and are empty; convergence is asked of the background task alone.

## Runs

| Run | Bounds | Shows |
| --- | --- | --- |
| `transfers` | 1 operation, 2 terms, 2 processes, window 1, 4 rounds, lag 1 | safety of the service and `Spec => Payout` |
| `transfers_live` | 1 operation, 1 terms, 2 processes, 3 rounds | a confirmed payment is recorded in the end |
| `breaker` | 3 tasks, threshold 2, timeout 2 | the slot is held, only probes get through while the provider fails, and the circuit closes again |
| `lp_sync` | 1 pool, 2 workers, 3 events in 2 blocks, lag 1, 2 attempts | safety of the projector and `Spec => LpLedger`; the classification |
| `lp_progress` | 2 pools, 1 worker, 3 events, registration at any time | exact ledgers and progress |
| `lp_late_pool` | 2 pools, 2 workers, 2 events | the finding below |
| `lottery` | 2 requests, 2 payers, 1 NFT, interval 1, 2 windows, 2 old draws | one liability, the window, truth of the guard, no payment unproven or unrecorded |
| `lottery_live` | 1 request, 1 payer, a swap draw | a prize that is owed is paid, a paid one releases the guard |
| `airdrop` | 2 workers, 2 recipients, 4 plans, old rewards | budget, truth and finality of `complete`, completion; exactness of the division |
| `prices` | 2 tasks in 2 processes, clocks 1 apart, skew 2, stale window 4, 5 ticks | observations advance, stale prices are bounded |
| `registration` | 1 contract, 2 processes, 3 requests, 11 inherited stores | one identity, the anchor kept, completion, convergence of the cache; the codec's tables |

Why the bounds are enough to be interesting. *Transfers*: operations share nothing but
the chain, so one operation with two requests in conflict is the hard case; four rounds
with a window of one let a transaction be prepared twice, confirmed in its last round,
expire, and be looked up by a lagging node. *Breaker*: three tasks are a late call, a probe
and another caller. *Projector*: pools share the checkpoint and the
loop only, so two workers fight over one pool and one worker handles two; two events in
one block give cursors in the middle of it, an event in the next block lets a worker
that lost its lease meet a state that went past it, and round 0 stands for the
round the sync starts at. *Lottery*: two windows are a generation and its successor, an
old open draw beside a later empty one is the case in which the guarded draw and the
latest one differ, and two requests are helper and helped. *Airdrop*: two
recipients let one fail while the other succeeds. *Prices*: the clock runs long enough for a price to go stale
after it was cached and served again as a fallback. *Registration*: contracts share nothing but
the start of the server; among the inherited stores are a contract that awaits the migration
with all its block numbers, one without any, and one without metadata. Symmetry among workers, terms, requests and payers is used in
safety runs only. Deadlock is checked, except in `LpSync` and `Lottery`, where a chain
or a clock at its bound is a legal end.

## Fairness

- `AssetTransfers!FairSpec`: blocks are added (the chain), a process takes its next step,
  crashes stop, the operator calls `execute` again with the stored operation id, as
  `AssetTransferPendingError` asks for, and a lookup repeated for ever succeeds at some
  time (strong fairness of the confirmation and of the lookup after expiry). The code has
  no retry loop of its own; without callers that retry nothing would be recorded.
- `CircuitBreaker!RecoverySpec`: from some time on calls end well; tasks keep calling and
  the clock runs.
- `LpSync!FairSpec`: a worker runs and is restarted (the supervisor of the process), the
  chain grows, the lease of a dead owner ends, and failures and leases lost by living
  workers cease at some time: each failed round is retried, but only a bounded number of
  times before the process ends.
- `Lottery!FairSpec`: the wallet asks again, an operator runs the payout again (strong
  fairness of `Pick`: a draw that is listed ever again is taken up), the clock runs, and deaths,
  errors of Mongo and failed sends cease. A death or an error that coincides with the step the code would have taken is none.
- `Airdrop!FairSpec`: transactions settle, a run goes on, failures cease, and the operator runs the
  plan of the manifest again, as `AirdropIncompleteError` asks for.
- `PoolRegistration!FairSpec`: processes that died are started again, the background loop comes
  round, a client repeats an unanswered request identically, and failures and stakes cease.

## What is proved

Eight modules of proofs are checked by `tlapm` to the last leaf, for every value of the
constants that meets the named assumptions of the modules they extend. In seven of them the first
theorem proves an inductive invariant (`IInv`); the properties follow from it or are steps from it. The
eighth is about the operators of `Allocation`.

**Transfers.** `InductiveInvariant` proves `Spec => []IInv`. The safety properties are not
inductive: that a broadcast is harmless depends on the transaction in the worker's hand
being the stored one, which in turn depends on where its call is. `IInv` therefore adds,
for each worker and step, what the call has established: before `Reserve` the
transaction has the request's operation and terms; after it, it is the intent's; at
`broadcast` and later the attempt is recorded; at the confirmation steps the round it saw
is the chain's; after an expiry was reported the chain's round is past the window. Parts
that relate intents and chain (`WriteAhead`, `RecordedIsPaid`) close the circle: a
transaction in the pool or the ledger is the stored one, so two paid transactions of
an operation are equal (`AtMostOncePayment`). `TypeCorrect`, `WriteAheadHolds`,
`RecordsTruthful` and `AnswersHold` follow from `IInv`; `ConfirmedStays` and `ExpiryIsFinal`
are steps from it; `Refinement` maps every action to a step of `Payout` or a stutter under
the mapping at the end of `AssetTransfers`.

**Breaker.** `TypeOK` and `SlotIsHeld` are inductive together with `TrippedWhileFailing`, that a
count at the threshold finds the circuit out of the closed state; the theorems are
`BreakerTypes`, `ProbeSlotHeld`, `OpenStays` and `OnlyProbes`, the last a step from all three.

**Projector.** For any chain that meets `ChainAssumption` and any number of pools, workers,
rounds and attempts, *provided that every pool is registered before the first worker starts* (the
hypothesis `Registered = Pools`; without it the finding below refutes the claim). The obstacle is that
`_apply_delta` is right only if no event of the pool lies between the cursor and the one being
applied, and nothing in the code says so. `IInv` finds the reason in three places: events of
earlier blocks are behind the checkpoint (`CheckpointOK`: every state is past all events up
to it), those of this block in the worker's progress (`DoneOK`: what it is done with is in
the states, and recorded unless a snapshot covers it), and the worker may be slow, but its
view of the checkpoint is never ahead (`ViewOK`). `CutoverOK` carries the lowest snapshot
to the checkpoint, through `CompleteThrough` of the states as they are, not as they were fetched. A
state at an event (`Sane`) has the earlier events of its block recorded and is at most one block
ahead of the checkpoint: that is why a worker under its claim never sees an unrecorded event
behind the state (`NoAlarmUnderClaim`), while one that lost its claim may. Theorems:
`LpTypes`, `LedgersAreExact`, `NothingIsSkipped`, `MarkersFollow`, `NoAlarmUnderClaim`,
`CheckpointOnlyAdvances` and `ProjectorImplementsLedger`, the refinement of `LpLedger`. Neither
the lease's liveness nor its length is used: `live` occurs in no conjunct of `IInv` but the
type, so safety does not depend on clocks.

**Prices.** Under `ClocksAssumption` and `OldAssumption`, `AnswersFresh` and
`ObservationsOnlyAdvance` follow from an invariant that bounds the age of everything held: a cached
price stays usable until its entry ends, an observation in the hands of a task is not ahead of
its clock and at most `Delay` old, and the filter's clock is not older than the observation.
`PricesTypes` is the type invariant.

**Airdrop.** The invariant ties each operation to the manifest (its amount is the manifest's),
each linked reward to a paid operation or to an old transaction seen on the chain, and each run past the
manifest check to the manifest's amounts; a run that failed for nobody has linked all
recipients up to where it is. `NothingBeyondTheBudget`, `CompleteStays`, `AirdropTypes`, and
`CompleteIsPaid` follow, the last from `AllocationIsExact`.

**Allocation.** `AllocationIsExact` holds for any finite set of recipients, any budget and any
positive shares. The quotients and remainders of the shares add up to what was divided, so the
units left over, times the sum of the shares, are the sum of the remainders: not negative, and
at most one unit for each recipient with a remainder (`LeftOver`). The order by remainder and id
is total, so the number of those ahead of a recipient is a rank, each from 0 on taken once, and as many
recipients get a unit as there are (`Ranks`, `FirstOnes`). Nobody without a remainder gets one,
because all with a remainder come before: that keeps everyone within a unit. Two recipients whose
quotients are equal have remainders in the order of their shares, so a unit goes to the larger
share first. The sums are folds over the subsets of their domain; that the
fold exists, and each fact about sums, is an induction over subsets stated about a set
(`SubsetsAll`), since the library's induction theorems take operators.

**Lottery.** What makes it hard is that a process acts on copies: of a draw to migrate, of the
entitlement it helps along, of the draw it pays. `IInv` says for each copy what of it still holds
when it is used. A copied draw is the stored one unless that one is complete by now
(`CopyOK`), so a migration that comes late is refused or repeats what is there. A copy of the
entitlement is of the stored generation or an earlier one; in the same generation draw and time
agree, and the prize does once it is drawn (`Knows`), so a helper never gives a generation a
second prize. A payer past its migration works on a complete draw, past `prepare` on one with its operation, and
at `record` on a paid one (`PayOK`). Of the stores it says what a status means for its
draw (`ActiveOK`), that a claimed draw with an operation is paid (`DrawOK`), and that a draw of
`old` has no operation and is set aside (`OldOK`). `TheGuardIsTruthful`,
`OnlyPaidDrawsAreClaimed`, `UnprovenDrawsAreNotSent` and `LotteryProofs!TypeCorrect` follow;
`SettlementIsFinal` is a step from it. Two properties depend on what the old code left, which the
theorems state as hypotheses about the initial state. `OneLiabilityAtATime` needs `OneOpen`, that
at most one old prize is unclaimed: the first entitlement guards one draw. Its own invariant
adds that the open draw is the one the entitlement stands for, and that a request about to seed
the entitlement has found it. `TheWindowIsKept` needs `UndatedArePast`: for a guarded
draw without a date the code counts from the time of the request (`nft_lottery.py:325`), and an old
draw of a later date would be passed over. Its invariant compares the window with all draws and
says that a request about to seed has found the latest. The runs start from such draws only.

**Registration.** Whatever the applications on the chain, the requests and the number of
processes, `IInv` has three parts. `CleanOK`: once a process is past the indexes, the four
collections a registration writes are indexed and without duplicates and no id has pools of both
kinds. It is established by going through `Installs`, whichever process or crash got how far before,
and every later upsert keeps it, because indexes are never dropped. `StatesOK`: a pool state is of the kind
of its contract and of its own pool. `TaskOK`: a task between two
stores builds for the contract as it is stored, not as it was requested; from the second check
of the slot on no pool of the other kind has the id; and a copy held by a refresh or by the migration
names a DEX exactly if the stored contract does. The last point is why these stay true while
others write: a contract keeps its type and its DEX for ever (`ContractsKept`), so its kind does,
so the slot a task has found free can only be taken by a pool of the same kind. `IdsAreOfOneKind`
follows; `RecordsAreKept` and `AnchorsAreKept` are steps from `IInv`: no refresh that writes back
what it read before it waited, and no migration, changes what a contract, a pool or a pool state
is, or takes from a contract a field its pool is built from. For the latter `TaskOK` says that
the copy has all the block numbers whenever the stored contract has them.

Model-checked only: liveness (temporal reasoning with fairness and `ENABLED` is out of the
prover's reach), and what the pure operators of `LpEvents` and `ContractState` compute: sequences
that are sorted, filtered and flattened from trees, and layouts that are finite tables. Every invariant and every action property of the passing runs, and both
refinements, are theorems. `TypeOK` of `AssetPrices`, `Airdrop`, `Lottery` and
`PoolRegistration` is proved and checked in no run.

## Finding

A pool registered late may lose a block (`flex/data/lp_states.py:94` beside
`flex/sync_pools.py:85`): its state is inserted while another worker projects a
block with the tracked addresses it read before. With one worker the ledger is exact
(`lp_progress`), and with every pool registered from the start it is proved so.

## Limits found

Noted while modelling; they are described here and no run is about them.

- `reconcile` never says that a transfer is open or `expired_unconfirmed`, and `execute` never
  reports an expiry as looked up (`flex/application/asset_transfers.py:270-277,350-367`): with
  the shipped gateway the lookup raises instead of returning `None`, which only the fakes of
  `tests/unit/test_asset_transfers.py` do. An Indexer that returned a transaction without a round
  would open these lines; `reconcile` would then compare the round it reads at line 350 with a
  lookup made before it (line 336), and could call a payment expired that was made in between.
- Two probes may run at once in a half-open circuit: a call admitted while it was closed and
  ending during a probe frees the slot (`core/circuit_breaker.py:100,111,117`), although
  `README.md:89` speaks of a single probe, and a late success closes the circuit while the
  probe runs. The only caller, `api/background.py:209`, is sequential.
- Contracts of versions 17.2.4 and 17.0.4 can never complete their registration:
  `pool_registration.py:85,137` read `totalRewardAmount`, their layouts decode
  `rewardPerBlock` (`core/cometa.py:65-74` handles both). The contract stays stored and identical
  requests fail, against the comment at `app.py:285-287`. So do those for a contract of an older
  release without `lock_length_blocks`, which the builders read (`pool_registration.py:109,166`)
  and the migration does not set, or without a cached view.
- To a contract without block numbers the migration writes the begin and the end, and a refresh of
  an older copy takes them away again. The pool builders fail either way, and the read API falls
  back to the numbers of the view (`flex/api.py:180`).
- The notification of a new pool is lost when the first request fails after storing the contract.
- A farm whose metadata name a DEX without asset ids cannot be built; "dex" in the model
  means a DEX with its two assets.
- Two draws may promise one NFT, and the fees and close fields described under `LpEvents`.

## Not modelled

Clients of the chain and of providers (their answers are the inputs of the models), the
read API, bots and notifications, document classes and their encodings, wrappers of DEX
SDKs and operator scripts: they keep no state the other parts depend on. Of the
modelled parts, the scheduling and metrics of the background loops, `ensure_lottery_indexes`, the
listing of prizes, the arithmetic of quotes, the decoding of bytes and the registry of breakers by name.

## Running

```
tlc -workers 2 -config MCAssetTransfers.cfg MCAssetTransfers
tlapm AssetTransfersProofs.tla
```

Each run ends within a few minutes; `LotteryProofs` takes about two minutes, the other proof
modules one minute or less.
