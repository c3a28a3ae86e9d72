-------------------------- MODULE PoolRegistration --------------------------
(***************************************************************************)
(* How a contract gets into the stores, and what keeps it there: the       *)
(* start-up of a server (flex/db/indexes.py, app.py init_app), the         *)
(* registration of a contract with its pool and its pool state (app.py,    *)
(* core/db/contracts.py, flex/application/pool_registration.py,            *)
(* flex/data/pool_state.py), and the refresh of the contract's cached      *)
(* view (app.py, api/background.py).                                       *)
(*                                                                         *)
(* The three records of a registration live in different databases and are *)
(* written one after the other.  A process is a server process; what it    *)
(* awaits or calls is a step, and between two steps of one the others act. *)
(***************************************************************************)
EXTENDS ContractState, FiniteSets

CONSTANTS
  Ids,          \* contract (application) ids
  Processes,    \* server processes, of one deployment or of two that overlap
  AppOf,        \* the application the chain has under an id
  Requests,     \* the registrations clients send: [id, declared, dex]
  OldStores,    \* what earlier releases may have left: [contracts, pools, states, flaws]
  None

VARIABLES
  phase,        \* Processes -> "down", "dates" (init_app is past the indexes), "up"
  task,         \* Processes -> what the process is doing, or None
  contracts,    \* the contract collection: Ids -> document or None
  pools,        \* staking_pools and farming_pools: Kinds -> (Ids -> identity or None)
  states,       \* pool_states: Ids -> identity or None
  flaws,        \* <<collection, flaw>> pairs
  indexed,      \* collections with their unique index
  staked,       \* on chain: more than one microtoken is staked in the contract
  ended         \* on chain: the end block has passed

vars == <<phase, task, contracts, pools, states, flaws, indexed, staked, ended>>

Kinds == {"staking", "farming"}
Opposite(kind) == IF kind = "farming" THEN "staking" ELSE "farming"

\* _is_farming_contract, get_pool_type_from_contract: the kind of pool a contract stands for.
KindOf(doc) == IF doc.declared[1] = "farm" /\ doc.dex THEN "farming" ELSE "staking"

\* A pool whose immutable fields are those the contract gives it, or others.
PoolIdentities == {"own", "other"}

\* ContractInfo, as far as the registration reads it: type and version without the caret,
\* whether the metadata names a DEX, which block numbers it has (none, those of the begin
\* and the end, or also the length of the lock), whether the dates are set, and what the
\* cached view says of the stake.  Without metadata a contract has none of these.
Caches == {"staked", "empty"}
Contracts ==
  [declared : DOMAIN Layouts, dex : BOOLEAN, blocks : {"none", "ends", "all"}, dated : BOOLEAN,
   cache : Caches \cup {"none"}]

Registrations == [at : {"slot", "store"}, id : Ids, doc : Contracts]
Builds == [at : {"recheck", "pool", "state"}, id : Ids, kind : Kinds, fields : BOOLEAN]
Refreshes == [at : {"fetch", "dates"}, id : Ids, copy : Contracts]
Writes == [at : {"write"}, id : Ids, copy : Contracts, cache : Caches]
Tasks == Registrations \cup Builds \cup Refreshes \cup Writes

ASSUME NoneAssumption == None \notin Contracts \cup Tasks \cup PoolIdentities \cup Kinds \cup {"other"}
ASSUME RequestsAssumption == \A r \in Requests : r.id \in Ids /\ r.dex \in BOOLEAN

\* A pool state of an earlier release is that of its contract and its pool, or another one.
ASSUME OldStoresAssumption ==
  \A old \in OldStores :
    /\ old.contracts \in [Ids -> Contracts \cup {None}]
    /\ old.pools \in [Kinds -> [Ids -> PoolIdentities \cup {None}]]
    /\ old.states \in [Ids -> Kinds \cup {"other", None}]
    /\ \A id \in Ids : old.states[id] \in Kinds =>
         /\ old.contracts[id] # None /\ KindOf(old.contracts[id]) = old.states[id]
         /\ old.pools[old.states[id]][id] = "own"

-----------------------------------------------------------------------------
\* Start-up.  A step refuses to go on over some flaws, repairs others, and builds an index.
Install(collection, refuses, repairs, index) ==
  [collection |-> collection, refuses |-> refuses, repairs |-> repairs, index |-> index]
FailClosed(collection) == Install(collection, {"duplicates"}, {}, TRUE)
Deduplicated(collection) == Install(collection, {}, {"duplicates"}, TRUE)

\* The collections of _UNIQUE_ID_POLICIES, in their order.
UniqueIds ==
  << FailClosed("assets"), Deduplicated("asset_prices"), FailClosed("asset_transfer_intents"),
     FailClosed("farming_pools"), FailClosed("pool_transactions"), FailClosed("lp_transactions"),
     FailClosed("lp_tokens"), FailClosed("staking_pools") >>

\* ensure_contract_id_index: two contracts with one id are for an operator to sort out.
ContractIds == FailClosed("contract")

\* delete_unverified_legacy_lp_prices: prices that were read from raw reserves go.
RetiredPrices == Install("asset_prices", {}, {"raw_reserves"}, FALSE)

\* ensure_airdrop_indexes: the manifests by campaign and the rewards by recipient.
AirdropIndexes == <<FailClosed("airdrop_manifests"), FailClosed("airdrop_rewards")>>

\* ensure_pool_identity_is_disjoint: only looks.
Disjoint == Install("pools", {"both kinds"}, {}, FALSE)

\* ensure_sync_state_singleton: one document of the legacy id is renamed, several are refused.
SyncSingleton == Install("sync_states", {"competing"}, {"legacy id"}, TRUE)

\* _UNIQUE_HOT_COLLECTIONS.
HotIndexes == <<FailClosed("lp_states"), FailClosed("pool_states"), FailClosed("user_states")>>

\* init_app's index set-up: ensure_contract_id_index, then ensure_database_indexes.
Installs ==
  <<ContractIds, RetiredPrices>> \o AirdropIndexes \o <<Disjoint>> \o UniqueIds
    \o <<SyncSingleton>> \o HotIndexes

Indexes == {Installs[i].collection : i \in {j \in DOMAIN Installs : Installs[j].index}}

\* ensure_pool_identity_is_disjoint looks at the pools themselves.
BothKinds == {id \in Ids : \A kind \in Kinds : pools[kind][id] # None}
Present == flaws \cup (IF BothKinds # {} THEN {<<"pools", "both kinds">>} ELSE {})
FlawsOf(step, kinds) == {<<step.collection, f>> : f \in kinds}
Refused(step) == FlawsOf(step, step.refuses) \cap Present # {}

Init ==
  /\ phase = [p \in Processes |-> "down"]
  /\ task = [p \in Processes |-> None]
  /\ \E old \in OldStores :
       /\ contracts = old.contracts /\ pools = old.pools /\ states = old.states
       /\ flaws = old.flaws
  /\ indexed = {}
  /\ staked = [id \in Ids |-> FALSE]
  /\ ended = [id \in Ids |-> FALSE]

\* The first n steps pass; then the process goes on, is refused (the next step raises and
\* the process exits), or dies.
Startup(p) ==
  /\ phase[p] = "down"
  /\ \E n \in 0 .. Len(Installs) :
       LET done == {Installs[i] : i \in 1 .. n} IN
       /\ \A step \in done : ~Refused(step)
       /\ flaws' = flaws \ UNION {FlawsOf(step, step.repairs) : step \in done}
       /\ indexed' = indexed \cup {step.collection : step \in {s \in done : s.index}}
       /\ phase' = [phase EXCEPT ![p] = IF n = Len(Installs) THEN "dates" ELSE "down"]
  /\ UNCHANGED <<task, contracts, pools, states, staked, ended>>

\* The second half of init_app: the contracts without dates are read, and those without a
\* cached view passed over ...
Undated ==
  {id \in Ids : contracts[id] # None /\ ~contracts[id].dated /\ contracts[id].cache # "none"}
ReadUndated(p) ==
  /\ phase[p] = "dates" /\ task[p] = None
  /\ \E id \in Undated :
       task' = [task EXCEPT ![p] = [at |-> "dates", id |-> id, copy |-> contracts[id]]]
  /\ UNCHANGED <<phase, contracts, pools, states, flaws, indexed, staked, ended>>

\* ... and, with the current round known, written back: the dates, and the whole metadata as
\* it was read, with the numbers of the begin and the end in it but not that of the lock.
Migrated(doc, copy) ==
  [doc EXCEPT !.blocks = IF copy.blocks = "all" THEN "all" ELSE "ends",
              !.dated = TRUE, !.dex = copy.dex, !.cache = copy.cache]
WriteDates(p) ==
  /\ task[p] # None /\ task[p].at = "dates"
  /\ contracts' = [contracts EXCEPT ![task[p].id] = Migrated(@, task[p].copy)]
  /\ task' = [task EXCEPT ![p] = None]
  /\ UNCHANGED <<phase, pools, states, flaws, indexed, staked, ended>>

\* A failure of the migration, of one contract or before the first, is logged, and the server
\* starts all the same.
Serve(p) ==
  /\ phase[p] = "dates"
  /\ phase' = [phase EXCEPT ![p] = "up"]
  /\ task' = [task EXCEPT ![p] = None]
  /\ UNCHANGED <<contracts, pools, states, flaws, indexed, staked, ended>>

-----------------------------------------------------------------------------
\* Registration (register_contract, create_contract_with).  Each step of the task ends in
\* the next one, in the end of the request, or in an error that ends it too.
Goes(p, next) == task' = [task EXCEPT ![p] = next]
Ends(p) == Goes(p, None)

\* _fetch_contract_view and the check of the beneficiary: only an application that runs the
\* declared program, decodes, and pays this platform gets any further.
Admitted(r) == Views(AppOf[r.id], r.id, r.declared) # {} /\ AppOf[r.id].beneficiary

\* The view of a contract that is fetched now, as far as the cache is read.
ViewOf(id) == IF staked[id] THEN "staked" ELSE "empty"

Candidate(r) ==
  [declared |-> r.declared, dex |-> r.dex, blocks |-> "all", dated |-> TRUE, cache |-> ViewOf(r.id)]

Request(p, r) ==
  /\ phase[p] = "up" /\ task[p] = None
  /\ Admitted(r)
  /\ Goes(p, [at |-> "slot", id |-> r.id, doc |-> Candidate(r)])
  /\ UNCHANGED <<phase, contracts, pools, states, flaws, indexed, staked, ended>>

\* A pool of either kind takes the slot.
SlotUnused(kind, id) == \A k \in Kinds : pools[k][id] = None

\* ensure_pool_identity_slot: no pool of the opposite kind has the id.
SlotFree(kind, id) == pools[Opposite(kind)][id] = None

CheckSlot(p) ==
  /\ task[p] # None /\ task[p].at = "slot"
  /\ IF SlotFree(KindOf(task[p].doc), task[p].id)
     THEN Goes(p, [task[p] EXCEPT !.at = "store"])
     ELSE Ends(p)
  /\ UNCHANGED <<phase, contracts, pools, states, flaws, indexed, staked, ended>>

\* An upsert on a business key leaves one document if the collection has its index, and
\* otherwise may leave two when another process upserts the same key.
UpsertFlaws(collection) ==
  flaws \cup (IF collection \in indexed THEN {} ELSE {<<collection, "duplicates">>})

\* The upsert sets the document that is there.
StoredLast(id, doc) == doc

\* get_or_create_contract: the document that is stored after the upsert.
Stored(id, doc) == IF contracts[id] = None THEN doc ELSE contracts[id]

\* The fields of a pool come from the metadata of the stored contract, which must have the
\* block numbers, and from the view cached in it: the tokens, by their name in that type of
\* contract, and the totals of the rewards, whatever the version.  (A DEX is named with its
\* two assets.)
TokenFields(declared) ==
  IF declared[1] = "distribution" THEN {"token"} ELSE {"stakeToken", "rewardToken"}
PoolFields(doc) ==
  /\ doc.blocks = "all" /\ doc.cache # "none"
  /\ TokenFields(doc.declared) \cup {"totalRewardAmount", "totalAlgoRewardAmount"}
       \subseteq FieldsOf(doc.declared)

\* What the rest of the request works on, of the stored document.
BuildFrom(id, doc) ==
  [at |-> "recheck", id |-> id, kind |-> KindOf(doc), fields |-> PoolFields(doc)]

StoreContract(p) ==
  /\ task[p] # None /\ task[p].at = "store"
  /\ LET id == task[p].id
         stored == Stored(id, task[p].doc)
     IN /\ contracts' = [contracts EXCEPT ![id] = stored]
        /\ flaws' = UpsertFlaws("contract")
        /\ IF stored.declared = task[p].doc.declared THEN Goes(p, BuildFrom(id, stored))
           ELSE Ends(p)          \* ContractIdentityConflictError
  /\ UNCHANGED <<phase, pools, states, indexed, staked, ended>>

\* create_pool_from_contract up to its insert: the slot again, for the stored contract, and
\* the fields of the pool.
BuildPool(p) ==
  /\ task[p] # None /\ task[p].at = "recheck"
  /\ IF SlotFree(task[p].kind, task[p].id) /\ task[p].fields
     THEN Goes(p, [task[p] EXCEPT !.at = "pool"])
     ELSE Ends(p)
  /\ UNCHANGED <<phase, contracts, pools, states, flaws, indexed, staked, ended>>

CollectionOf(kind) == IF kind = "farming" THEN "farming_pools" ELSE "staking_pools"

\* get_or_create on the pool's collection, then _validate_persisted_pool.
InsertPool(p) ==
  /\ task[p] # None /\ task[p].at = "pool"
  /\ LET id == task[p].id
         kind == task[p].kind
     IN /\ pools' = [pools EXCEPT ![kind][id] = IF @ = None THEN "own" ELSE @]
        /\ flaws' = UpsertFlaws(CollectionOf(kind))
        /\ IF pools'[kind][id] = "own" THEN Goes(p, [task[p] EXCEPT !.at = "state"])
           ELSE Ends(p)          \* PoolIdentityConflictError
  /\ UNCHANGED <<phase, contracts, states, indexed, staked, ended>>

\* create_pool_state_from_contract: the state takes its identity from the stored pool.  The
\* request ends here, with the registration or with PoolStateIdentityConflictError.
InsertState(p) ==
  /\ task[p] # None /\ task[p].at = "state"
  /\ states' = [states EXCEPT ![task[p].id] = IF @ = None THEN task[p].kind ELSE @]
  /\ flaws' = UpsertFlaws("pool_states")
  /\ Ends(p)
  /\ UNCHANGED <<phase, contracts, pools, indexed, staked, ended>>

-----------------------------------------------------------------------------
\* The refresh of the cached views (update_contracts_cache, refresh_contracts_cache).  The
\* background task skips a contract whose cache says that it has ended and is empty; an
\* operator's refresh skips none.
Skipped(doc, id) == ended[id] /\ doc.cache = "empty"

StartRefresh(p, id) ==
  /\ phase[p] = "up" /\ task[p] = None
  /\ contracts[id] # None
  /\ Goes(p, [at |-> "fetch", id |-> id, copy |-> contracts[id]])
  /\ UNCHANGED <<phase, contracts, pools, states, flaws, indexed, staked, ended>>

\* fetch_contracts_views_batch leaves out an application it cannot decode.
FetchView(p) ==
  /\ task[p] # None /\ task[p].at = "fetch"
  /\ LET id == task[p].id IN
     IF Views(AppOf[id], id, task[p].copy.declared) # {}
     THEN Goes(p, [at |-> "write", id |-> id, copy |-> task[p].copy, cache |-> ViewOf(id)])
     ELSE Ends(p)
  /\ UNCHANGED <<phase, contracts, pools, states, flaws, indexed, staked, ended>>

\* The old metadata is merged over the new view.
RefreshedUnder(doc, copy, cache) ==
  [doc EXCEPT !.blocks = copy.blocks, !.dex = copy.dex,
              !.cache = IF copy.cache = "none" THEN cache ELSE copy.cache]

\* The new view is all that is written.
RefreshedAlone(doc, copy, cache) ==
  [doc EXCEPT !.blocks = "none", !.dex = FALSE, !.cache = cache]

\* update_contract: the metadata as it was read, with the new view in it, over whatever the
\* document has by now.  (The list of the contracts is cached for a while, so the copy may
\* be older than the refresh: it is as if the refresh had waited for longer.)
Refreshed(doc, copy, cache) ==
  [doc EXCEPT !.blocks = copy.blocks, !.dex = copy.dex, !.cache = cache]
WriteView(p) ==
  /\ task[p] # None /\ task[p].at = "write"
  /\ contracts' = [contracts EXCEPT ![task[p].id] = Refreshed(@, task[p].copy, task[p].cache)]
  /\ Ends(p)
  /\ UNCHANGED <<phase, pools, states, flaws, indexed, staked, ended>>

-----------------------------------------------------------------------------
\* An await that raises (the node, the Indexer, the database), and the end of a process.
Fail(p) ==
  /\ phase[p] = "up" /\ task[p] # None
  /\ Ends(p)
  /\ UNCHANGED <<phase, contracts, pools, states, flaws, indexed, staked, ended>>

Crash(p) ==
  /\ phase[p] # "down"
  /\ phase' = [phase EXCEPT ![p] = "down"]
  /\ Ends(p)
  /\ UNCHANGED <<contracts, pools, states, flaws, indexed, staked, ended>>

\* The chain: accounts stake and withdraw, and the contract ends.
Stake(id) ==
  /\ staked' = [staked EXCEPT ![id] = ~@]
  /\ UNCHANGED <<phase, task, contracts, pools, states, flaws, indexed, ended>>

End(id) ==
  /\ ~ended[id]
  /\ ended' = [ended EXCEPT ![id] = TRUE]
  /\ UNCHANGED <<phase, task, contracts, pools, states, flaws, indexed, staked>>

Continue(p) ==
  \/ CheckSlot(p) \/ StoreContract(p) \/ BuildPool(p) \/ InsertPool(p) \/ InsertState(p)
  \/ FetchView(p) \/ WriteView(p)
Boot(p) == Startup(p) \/ ReadUndated(p) \/ WriteDates(p) \/ Serve(p)

Next ==
  \/ \E p \in Processes :
       \/ Boot(p) \/ Continue(p) \/ Fail(p) \/ Crash(p)
       \/ \E r \in Requests : Request(p, r)
       \/ \E id \in Ids : StartRefresh(p, id)
  \/ \E id \in Ids : Stake(id) \/ End(id)

Spec == Init /\ [][Next]_vars

-----------------------------------------------------------------------------
\* The background loop comes round again, a client repeats a request that was not answered,
\* and a process that dies is started again; failures and stakes come to an end.
Identical(p, id) ==
  /\ contracts[id] # None
  /\ \E r \in Requests :
       /\ r.id = id /\ r.declared = contracts[id].declared /\ r.dex = contracts[id].dex
       /\ Request(p, r)
Failure == \E p \in Processes : (Fail(p) \/ Crash(p)) /\ ~Continue(p)
Quiet == ~\E id \in Ids : Stake(id)

FairSpec ==
  /\ Spec
  /\ \A p \in Processes :
       WF_vars(phase[p] = "down" /\ Startup(p) /\ phase'[p] = "dates")
         /\ WF_vars(ReadUndated(p) \/ WriteDates(p) \/ (task[p] = None /\ Serve(p)))
         /\ WF_vars(Continue(p))
  /\ \A id \in Ids :
       /\ SF_vars(\E p \in Processes : StartRefresh(p, id) /\ ~Skipped(contracts[id], id))
       /\ SF_vars(\E p \in Processes : Identical(p, id))
  /\ <>[][~Failure /\ Quiet]_vars

-----------------------------------------------------------------------------
TypeOK ==
  /\ phase \in [Processes -> {"down", "dates", "up"}]
  /\ task \in [Processes -> Tasks \cup {None}]
  /\ contracts \in [Ids -> Contracts \cup {None}]
  /\ pools \in [Kinds -> [Ids -> PoolIdentities \cup {None}]]
  /\ states \in [Ids -> Kinds \cup {"other", None}]
  /\ staked \in [Ids -> BOOLEAN] /\ ended \in [Ids -> BOOLEAN]
  /\ indexed \subseteq Indexes

\* While a server is up no id stands for pools of both kinds and no collection the
\* registration writes has two documents for one id; a pool state that was created for a
\* contract is of the kind of the one pool the contract has.  Requests that name a DEX and
\* requests that do not race for the same id, and each store is checked by itself.
OneIdentity ==
  (\E p \in Processes : phase[p] = "up") =>
    /\ BothKinds = {}
    /\ \A c \in {"contract", "staking_pools", "farming_pools", "pool_states"} :
         <<c, "duplicates">> \notin flaws
    /\ \A id \in Ids : states[id] \in Kinds =>
         contracts[id] # None /\ KindOf(contracts[id]) = states[id]
           /\ pools[states[id]][id] = "own"

\* No flaw keeps every server from starting.
Servable == \A i \in DOMAIN Installs : ~Refused(Installs[i])

\* The contract a registration has stored stays what an identical request resumes from: of
\* the same type, version and kind, and with the fields its pool is built from, although
\* refreshes and the migration of other processes write back metadata they read before.
AnchorKept ==
  [][\A id \in Ids : contracts[id] # None =>
       /\ contracts'[id] # None
       /\ contracts'[id].declared = contracts[id].declared
       /\ KindOf(contracts'[id]) = KindOf(contracts[id])
       /\ PoolFields(contracts[id]) => PoolFields(contracts'[id])]_vars

\* A contract that was stored with the fields of a pool gets its pool and its pool state,
\* however often the request that stored it failed half-way, for an identical request
\* resumes it; unless an old record has its id and another identity.
Complete(id) ==
  contracts[id] # None
    /\ pools[KindOf(contracts[id])][id] = "own" /\ states[id] = KindOf(contracts[id])
Resumable(id) ==
  Servable /\ contracts[id] # None
    /\ PoolFields(contracts[id]) /\ AppOf[id].approval = contracts[id].declared
    /\ pools[KindOf(contracts[id])][id] # "other" /\ SlotFree(KindOf(contracts[id]), id)
    /\ states[id] \in {None, KindOf(contracts[id])}
RegistrationCompletes == \A id \in Ids : Resumable(id) ~> Complete(id)

\* Once nothing is staked or withdrawn any more, the cached view of a contract comes to say
\* what the chain says, and stays so, although refreshes write back what they read before
\* they waited; except for a contract the background task has stopped to refresh.
CacheConverges ==
  \A id \in Ids :
    <>[](~Servable \/ contracts[id] = None
           \/ Views(AppOf[id], id, contracts[id].declared) = {}
           \/ contracts[id].cache = ViewOf(id) \/ Skipped(contracts[id], id))
=============================================================================
