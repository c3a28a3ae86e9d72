------------------------------- MODULE LpSync -------------------------------
(***************************************************************************)
(* The liquidity-pool projector: sync_pools_loop with its snapshot cutover *)
(* (flex/sync_pools.py, flex/data/lp_states.py), the Mongo lease and       *)
(* checkpoint (flex/db/sync_coordinator.py) and the event projection into  *)
(* one state document per pool (flex/db/lp_projection.py).                 *)
(*                                                                         *)
(* Several workers run the loop.  Every Mongo command and every Indexer    *)
(* call is one step; a worker may fail or die between any two.  Standalone *)
(* Mongo updates one document at a time, so the state of a pool and the    *)
(* marker of an event are written in two steps.                            *)
(*                                                                         *)
(* The chain is a constant: which events of which pools its blocks hold,   *)
(* and what each pool holds at each cursor.  An event stands for one       *)
(* LpTransaction, its pos for the place among the sorted ones of its block.*)
(***************************************************************************)
EXTENDS Integers, FiniteSets

CONSTANTS
  Pools,        \* liquidity pools
  Workers,      \* sync processes
  Events,       \* the chain's events: records of round, pos, pool and delta
  BalanceAt,    \* BalanceAt[p][c]: what pool p holds on chain at cursor c
  MaxRound,     \* bound: rounds 0 .. MaxRound are modelled, 0 being where the sync starts
  End,          \* the pos of a round-end cursor, after those of all events
  Lag,          \* rounds a snapshot or a node may be behind the Indexer's blocks
  MaxAttempts,  \* settings.sync_round_max_attempts
  Registered,   \* pools registered before the first worker starts
  None,         \* Python's None
  Gone          \* the lease owner id of a process that died

Rounds == 0 .. MaxRound
Cursors == [round : Rounds, pos : 1 .. End]
RoundEnd(r) == [round |-> r, pos |-> End]
At(e) == [round |-> e.round, pos |-> e.pos]
Before(c, d) == c.round < d.round \/ (c.round = d.round /\ c.pos < d.pos)

\* No event of pool p lies after cursor c and up to cursor d.
Quiet(p, c, d) == \A e \in Events : e.pool = p => ~(Before(c, At(e)) /\ ~Before(d, At(e)))

ASSUME NamesAssumption == /\ None \notin Workers \cup Nat
                          /\ Gone \notin Workers \cup {None}
                          /\ None \notin [cursor : Cursors, balance : Nat]
                          /\ None \notin [pool : Pools, round : Rounds]
                          /\ None \notin Cursors
ASSUME NumbersAssumption == /\ MaxRound \in Nat \ {0}
                            /\ End \in Nat \ {0}
                            /\ Lag \in Nat
                            /\ MaxAttempts \in Nat \ {0}
                            /\ Registered \subseteq Pools
ASSUME EventsAssumption ==
  /\ Events \subseteq [round : 1 .. MaxRound, pos : 1 .. End - 1, pool : Pools, delta : Int]
  /\ \A e, f \in Events : At(e) = At(f) => e = f

\* The chain: balances change by the events and by nothing else.
ASSUME ChainAssumption ==
  /\ BalanceAt \in [Pools -> [Cursors -> Nat]]
  /\ \A p \in Pools, c, d \in Cursors : Before(c, d) /\ Quiet(p, c, d) =>
       BalanceAt[p][d] = BalanceAt[p][c]
  /\ \A e \in Events, c \in Cursors :
       /\ Before(c, At(e))
       /\ \A f \in Events : f.pool = e.pool => ~(Before(c, At(f)) /\ Before(At(f), At(e)))
       => BalanceAt[e.pool][At(e)] = BalanceAt[e.pool][c] + e.delta

VARIABLES
  head,        \* the last round the Indexer has
  registered,  \* the farming pools, which get a state at the next cutover
  states,      \* lp_states: of each pool None, or its cursor and balance
  markers,     \* lp_transactions: the events recorded as projected
  sync,        \* sync_states/main: last_round, claimed_round, owner, lease
  pc,          \* the next step of each worker
  view,        \* its sync_state.last_round
  todo,        \* pools it has still to snapshot; the pools it tracks in a round
  low,         \* the checkpoint its snapshots allow so far, None after a failure
  snap,        \* the snapshot it fetched, or None
  done,        \* the pos of the last event of the round it projected
  cursor,      \* the cursor of the state it read, or None
  attempts     \* processing_attempts

workerVars == <<pc, view, todo, low, snap, done, cursor, attempts>>
vars == <<head, registered, states, markers, sync, workerVars>>

NoClaim == [claimed |-> None, owner |-> None, live |-> FALSE]
SyncDoc(last, claim) == [last |-> last, claimed |-> claim.claimed, owner |-> claim.owner,
                         live |-> claim.live]

Init == /\ head = 0
        /\ registered = Registered
        /\ states = [p \in Pools |-> None]
        /\ markers = {}
        /\ sync = SyncDoc(None, NoClaim)
        /\ pc = [w \in Workers |-> "down"]
        /\ view = [w \in Workers |-> None]
        /\ todo = [w \in Workers |-> {}]
        /\ low = [w \in Workers |-> None]
        /\ snap = [w \in Workers |-> None]
        /\ done = [w \in Workers |-> 0]
        /\ cursor = [w \in Workers |-> None]
        /\ attempts = [w \in Workers |-> 0]

\* What the node or the Indexer may report as the current round.
SeenRounds == {r \in Rounds : r + Lag >= head /\ r <= head}

Tracked == {p \in Pools : states[p] # None}

-----------------------------------------------------------------------------
(* Cutover: reconcile_sync_checkpoint.                                     *)

\* The process starts and reads the checkpoint, get_sync_state.
Start(w) ==
  /\ pc[w] = "down"
  /\ pc' = [pc EXCEPT ![w] = "pools"]
  /\ view' = [view EXCEPT ![w] = sync.last]
  /\ UNCHANGED <<head, registered, states, markers, sync, todo, low, snap, done, cursor, attempts>>

\* get_current_round, and the list of farming pools.
ReadPools(w) ==
  /\ pc[w] = "pools"
  /\ pc' = [pc EXCEPT ![w] = "create"]
  /\ \E r \in SeenRounds : low' = [low EXCEPT ![w] = r]
  /\ todo' = [todo EXCEPT ![w] = registered]
  /\ UNCHANGED <<head, registered, states, markers, sync, view, snap, done, cursor, attempts>>

\* The next pool that has no state yet: its snapshot is fetched.
CreateFetch(w, p) ==
  /\ pc[w] = "create"
  /\ p \in todo[w]
  /\ states[p] = None
  /\ \E r \in SeenRounds : snap' = [snap EXCEPT ![w] = [pool |-> p, round |-> r]]
  /\ pc' = [pc EXCEPT ![w] = "insert"]
  /\ UNCHANGED <<head, registered, states, markers, sync, view, todo, low, done, cursor, attempts>>

\* lp_states.get_or_create.
CreateInsert(w) ==
  /\ pc[w] = "insert"
  /\ LET p == snap[w].pool
         end == RoundEnd(snap[w].round)
     IN /\ states' = IF states[p] # None THEN states
                     ELSE [states EXCEPT ![p] = [cursor |-> end, balance |-> BalanceAt[p][end]]]
        /\ todo' = [todo EXCEPT ![w] = @ \ {p}]
  /\ pc' = [pc EXCEPT ![w] = "create"]
  /\ snap' = [snap EXCEPT ![w] = None]
  /\ UNCHANGED <<head, registered, markers, sync, view, low, done, cursor, attempts>>

\* Every farming pool has a state: all of them get a fresh snapshot.
CreateDone(w) ==
  /\ pc[w] = "create"
  /\ \A p \in todo[w] : states[p] # None
  /\ pc' = [pc EXCEPT ![w] = "snapshot"]
  /\ todo' = [todo EXCEPT ![w] = Tracked]
  /\ UNCHANGED <<head, registered, states, markers, sync, view, low, snap, done, cursor, attempts>>

\* get_address_asset_snapshot: balances and their round in one response.
SnapshotFetch(w, p) ==
  /\ pc[w] = "snapshot"
  /\ p \in todo[w]
  /\ \E r \in SeenRounds : snap' = [snap EXCEPT ![w] = [pool |-> p, round |-> r]]
  /\ todo' = [todo EXCEPT ![w] = @ \ {p}]
  /\ pc' = [pc EXCEPT ![w] = "replace"]
  /\ UNCHANGED <<head, registered, states, markers, sync, view, low, done, cursor, attempts>>

\* One pool fails; the others are still taken, but no checkpoint follows.
SnapshotFails(w, p) ==
  /\ pc[w] = "snapshot"
  /\ p \in todo[w]
  /\ low' = [low EXCEPT ![w] = None]
  /\ todo' = [todo EXCEPT ![w] = @ \ {p}]
  /\ UNCHANGED <<head, registered, states, markers, sync, pc, view, snap, done, cursor, attempts>>

\* An event cursor is taken to cover the round it is in the middle of.
CompleteThroughEvent(c) == c.round

\* lp_cursor_complete_through.
CompleteThrough(c) == IF c.pos = End THEN c.round ELSE c.round - 1

Lower(a, b) == IF a < b THEN a ELSE b

\* replace_snapshot: only over an older cursor; other balances at the very same
\* cursor are an error.
Replace(w) ==
  /\ pc[w] = "replace"
  /\ LET p == snap[w].pool
         end == RoundEnd(snap[w].round)
         conflict == states[p].cursor = end /\ states[p].balance # BalanceAt[p][end]
     IN /\ states' = IF Before(states[p].cursor, end)
                     THEN [states EXCEPT ![p] = [cursor |-> end, balance |-> BalanceAt[p][end]]]
                     ELSE states
        /\ low' = [low EXCEPT ![w] = IF @ = None \/ conflict THEN None
                                     ELSE Lower(@, CompleteThrough(states'[p].cursor))]
  /\ pc' = [pc EXCEPT ![w] = "snapshot"]
  /\ snap' = [snap EXCEPT ![w] = None]
  /\ UNCHANGED <<head, registered, markers, sync, view, todo, done, cursor, attempts>>

\* The checkpoint moves to the snapshots even if they are older than it.
MayRegress(w) == sync.last = view[w] /\ ~sync.live

\* A claim is respected for ever, whatever became of its lease.
MayAdvanceUnowned(w) == /\ view[w] # None => low[w] >= view[w]
                        /\ sync.last = view[w]
                        /\ sync.owner = None

\* _snapshot_checkpoint_round and the filter of advance_snapshot.
MayAdvance(w) == /\ view[w] # None => low[w] >= view[w]
                 /\ sync.last = view[w]
                 /\ ~sync.live

\* advance_snapshot.  If it raises a SyncCoordinatorError the loop asks what a
\* competitor has done; a failed snapshot ends the process.
AdvanceSnapshot(w) ==
  /\ pc[w] = "snapshot"
  /\ todo[w] = {}
  /\ IF low[w] # None /\ MayAdvance(w)
     THEN /\ sync' = SyncDoc(low[w], NoClaim)
          /\ view' = [view EXCEPT ![w] = low[w]]
          /\ pc' = [pc EXCEPT ![w] = "claim"]
     ELSE /\ pc' = [pc EXCEPT ![w] = IF low[w] = None THEN "down" ELSE "refresh"]
          /\ UNCHANGED <<sync, view>>
  /\ low' = [low EXCEPT ![w] = None]
  /\ UNCHANGED <<head, registered, states, markers, todo, snap, done, cursor, attempts>>

\* The get_sync_state after a SyncCoordinatorError.
Refresh(w) ==
  /\ pc[w] = "refresh"
  /\ pc' = [pc EXCEPT ![w] = IF sync.last = view[w] THEN "down" ELSE "claim"]
  /\ view' = [view EXCEPT ![w] = sync.last]
  /\ UNCHANGED <<head, registered, states, markers, sync, todo, low, snap, done, cursor, attempts>>

-----------------------------------------------------------------------------
(* The block loop.                                                         *)

Holds(w) == sync.owner = w /\ sync.claimed = view[w] + 1

\* The filter of claim_round.
MayClaim(w) == sync.last = view[w] /\ (~sync.live \/ sync.owner = w)

\* block_info and claim_round.  A refused worker reads the checkpoint again.
Claim(w) ==
  /\ pc[w] = "claim"
  /\ view[w] + 1 <= head
  /\ IF MayClaim(w)
     THEN /\ sync' = SyncDoc(sync.last, [claimed |-> view[w] + 1, owner |-> w, live |-> TRUE])
          /\ pc' = [pc EXCEPT ![w] = "load"]
          /\ UNCHANGED view
     ELSE /\ view' = [view EXCEPT ![w] = sync.last]
          /\ UNCHANGED <<sync, pc>>
  /\ UNCHANGED <<head, registered, states, markers, todo, low, snap, done, cursor, attempts>>

\* get_lp_tracked_assets_by_address, once per block.
LoadTracked(w) ==
  /\ pc[w] = "load"
  /\ todo' = [todo EXCEPT ![w] = Tracked]
  /\ done' = [done EXCEPT ![w] = 0]
  /\ pc' = [pc EXCEPT ![w] = "project"]
  /\ UNCHANGED <<head, registered, states, markers, sync, view, low, snap, cursor, attempts>>

\* What is left of the sorted LpTransactions of the block.
Pending(w) == {e \in Events : e.round = view[w] + 1 /\ e.pool \in todo[w] /\ e.pos > done[w]}
Current(w) == CHOOSE e \in Pending(w) : \A f \in Pending(w) : e.pos <= f.pos

\* Worker w is done with its current event.
NextEvent(w) == /\ done' = [done EXCEPT ![w] = Current(w).pos]
                /\ cursor' = [cursor EXCEPT ![w] = None]
                /\ pc' = [pc EXCEPT ![w] = "project"]

GoTo(w, step) == pc' = [pc EXCEPT ![w] = step] /\ UNCHANGED <<done, cursor>>

\* The state the projection of an event starts from.
ReadState(w) ==
  /\ pc[w] = "project"
  /\ Pending(w) # {}
  /\ cursor' = [cursor EXCEPT ![w] = states[Current(w).pool].cursor]
  /\ pc' = [pc EXCEPT ![w] = "lookup"]
  /\ UNCHANGED <<head, registered, states, markers, sync, view, todo, low, snap, done, attempts>>

\* A snapshot of the event's round or of a later one, snapshot_covers_event.
SnapshotCovers(c, e) == c.pos = End /\ c.round >= e.round

\* The marker alone tells whether the event has to be applied.
LookupUnmarked(w) ==
  /\ pc[w] = "lookup"
  /\ IF Current(w) \in markers THEN NextEvent(w) ELSE GoTo(w, "apply")
  /\ UNCHANGED <<head, registered, states, markers, sync, view, todo, low, snap, attempts>>

\* The marker of the event is looked up and compared with the cursor read before.
Lookup(w) ==
  /\ pc[w] = "lookup"
  /\ LET e == Current(w)
         c == cursor[w]
     IN IF e \in markers THEN IF Before(c, At(e)) THEN GoTo(w, "reread") ELSE NextEvent(w)
        ELSE IF c = At(e) THEN GoTo(w, "record")
        ELSE IF Before(c, At(e)) THEN GoTo(w, "apply")
        ELSE IF SnapshotCovers(c, e) THEN NextEvent(w)
        ELSE GoTo(w, "corrupt")
  /\ UNCHANGED <<head, registered, states, markers, sync, view, todo, low, snap, attempts>>

\* The state read before the marker is believed.
BehindAsRead(w) == Before(cursor[w], At(Current(w)))

\* The state is behind an event that is recorded.
Behind(w) == Before(states[Current(w).pool].cursor, At(Current(w)))

\* A marker ahead of the state: the state is read once more.
Reread(w) ==
  /\ pc[w] = "reread"
  /\ IF Behind(w) THEN GoTo(w, "corrupt") ELSE NextEvent(w)
  /\ UNCHANGED <<head, registered, states, markers, sync, view, todo, low, snap, attempts>>

\* The filter without the cursor.
MatchesAnyway(w) == TRUE

\* The state still has the cursor that was read.
Matches(w) == states[Current(w).pool].cursor = cursor[w]

\* The balance is written without its cursor.
AppliedInPlace(s, e) == [s EXCEPT !.balance = @ + e.delta]

Applied(s, e) == [cursor |-> At(e), balance |-> s.balance + e.delta]

\* _apply_delta: cursor and balance in one update, if the cursor is as read and
\* the balance does not underflow; projected anew if another worker was faster.
Apply(w) ==
  /\ pc[w] = "apply"
  /\ LET e == Current(w)
         s == states[e.pool]
         fits == s.balance + e.delta >= 0
     IN IF Matches(w) /\ fits
        THEN states' = [states EXCEPT ![e.pool] = Applied(s, e)] /\ GoTo(w, "record")
        ELSE UNCHANGED states /\ GoTo(w, IF Matches(w) THEN "corrupt" ELSE "project")
  /\ UNCHANGED <<head, registered, markers, sync, view, todo, low, snap, attempts>>

\* _record_event, the marker last.
Record(w) ==
  /\ pc[w] = "record"
  /\ markers' = markers \cup {Current(w)}
  /\ NextEvent(w)
  /\ UNCHANGED <<head, registered, states, sync, view, todo, low, snap, attempts>>

\* complete_round, refused to a worker that lost its claim or its lease.
Complete(w) ==
  /\ pc[w] = "project"
  /\ Pending(w) = {}
  /\ IF sync.last = view[w] /\ Holds(w) /\ sync.live
     THEN /\ sync' = SyncDoc(sync.claimed, NoClaim)
          /\ view' = [view EXCEPT ![w] = sync.claimed]
          /\ pc' = [pc EXCEPT ![w] = "save"]
     ELSE /\ pc' = [pc EXCEPT ![w] = "release"]
          /\ UNCHANGED <<sync, view>>
  /\ todo' = [todo EXCEPT ![w] = {}]
  /\ done' = [done EXCEPT ![w] = 0]
  /\ UNCHANGED <<head, registered, states, markers, low, snap, cursor, attempts>>

\* The SyncBlock is stored; only then are the failed attempts forgotten.
SaveBlock(w) ==
  /\ pc[w] = "save"
  /\ pc' = [pc EXCEPT ![w] = "claim"]
  /\ attempts' = [attempts EXCEPT ![w] = 0]
  /\ UNCHANGED <<head, registered, states, markers, sync, view, todo, low, snap, done, cursor>>

\* The exception handler is entered, the locals of the round are gone.
Abandon(w) ==
  /\ pc' = [pc EXCEPT ![w] = "release"]
  /\ todo' = [todo EXCEPT ![w] = {}]
  /\ done' = [done EXCEPT ![w] = 0]
  /\ cursor' = [cursor EXCEPT ![w] = None]
  /\ UNCHANGED <<head, registered, states, markers, sync, view, low, snap, attempts>>

\* LpProjectionPersistenceError: state and markers diverge.
Alarm(w) == pc[w] = "corrupt" /\ Abandon(w)

\* A Mongo command of a claimed round raises, before or after its effect.
Fail(w) == pc[w] \in {"load", "project", "lookup", "reread", "apply", "record", "save"} /\ Abandon(w)

\* One attempt more than the setting allows.
ExhaustedLate(w) == attempts[w] >= MaxAttempts

Exhausted(w) == attempts[w] + 1 >= MaxAttempts

\* release_after_error, then another attempt from the persisted checkpoint, or
\* the end of the process after the last one.
Release(w) ==
  /\ pc[w] = "release"
  /\ sync' = IF Holds(w) THEN SyncDoc(sync.last, NoClaim) ELSE sync
  /\ IF Exhausted(w)
     THEN /\ pc' = [pc EXCEPT ![w] = "down"]
          /\ attempts' = [attempts EXCEPT ![w] = 0]
          /\ view' = [view EXCEPT ![w] = None]
     ELSE /\ pc' = [pc EXCEPT ![w] = "claim"]
          /\ attempts' = [attempts EXCEPT ![w] = @ + 1]
          /\ view' = [view EXCEPT ![w] = sync.last]
  /\ UNCHANGED <<head, registered, states, markers, todo, low, snap, done, cursor>>

\* The process dies; the next one has another worker_id.
Crash(w) ==
  /\ pc[w] # "down"
  /\ sync' = IF sync.owner = w THEN [sync EXCEPT !.owner = Gone] ELSE sync
  /\ pc' = [pc EXCEPT ![w] = "down"]
  /\ view' = [view EXCEPT ![w] = None]
  /\ todo' = [todo EXCEPT ![w] = {}]
  /\ low' = [low EXCEPT ![w] = None]
  /\ snap' = [snap EXCEPT ![w] = None]
  /\ done' = [done EXCEPT ![w] = 0]
  /\ cursor' = [cursor EXCEPT ![w] = None]
  /\ attempts' = [attempts EXCEPT ![w] = 0]
  /\ UNCHANGED <<head, registered, states, markers>>

-----------------------------------------------------------------------------
(* The clock, the chain and the registration of pools.                     *)

\* lease_until passes, the owner dead or merely slow.
ExpireLease ==
  /\ sync.live
  /\ sync' = [sync EXCEPT !.live = FALSE]
  /\ UNCHANGED <<head, registered, states, markers, workerVars>>

NewBlock ==
  /\ head < MaxRound
  /\ head' = head + 1
  /\ UNCHANGED <<registered, states, markers, sync, workerVars>>

\* Another pool becomes a farming pool.
Register(p) ==
  /\ registered' = registered \cup {p}
  /\ UNCHANGED <<head, states, markers, sync, workerVars>>

Cutover(w) == \/ Start(w) \/ ReadPools(w)
              \/ \E p \in Pools : CreateFetch(w, p) \/ SnapshotFetch(w, p)
              \/ CreateInsert(w) \/ CreateDone(w)
              \/ Replace(w) \/ AdvanceSnapshot(w) \/ Refresh(w)

Loop(w) == \/ Claim(w) \/ LoadTracked(w)
           \/ ReadState(w) \/ Lookup(w) \/ Reread(w) \/ Apply(w) \/ Record(w)
           \/ Complete(w) \/ SaveBlock(w) \/ Alarm(w) \/ Release(w)

Fault(w) == Crash(w) \/ Fail(w) \/ \E p \in Pools : SnapshotFails(w, p)

Next == \/ \E w \in Workers : Cutover(w) \/ Loop(w) \/ Fault(w)
        \/ ExpireLease
        \/ NewBlock
        \/ \E p \in Pools : Register(p)

Spec == Init /\ [][Next]_vars

\* What may go on for ever but, for a sync to make progress, must not: failures,
\* and leases that end before their owner is through with its block.
Disturbance == \/ \E w \in Workers : Fault(w)
               \/ ExpireLease /\ sync.owner # Gone

\* A process runs and is restarted when it ended, the chain grows, the clock
\* ends the lease of a dead owner, and disturbances cease.
FairSpec == /\ Spec
            /\ \A w \in Workers : WF_vars(Cutover(w)) /\ WF_vars(Loop(w))
            /\ WF_vars(NewBlock)
            /\ WF_vars(ExpireLease /\ sync.owner = Gone)
            /\ <>[][~Disturbance]_vars

-----------------------------------------------------------------------------
Steps == {"down", "pools", "create", "insert", "snapshot", "replace", "refresh", "claim", "load",
          "project", "lookup", "reread", "apply", "record", "save", "corrupt", "release"}

\* Every variable has its type; no process makes more attempts than the setting allows.
TypeOK ==
  /\ head \in Rounds
  /\ registered \subseteq Pools
  /\ states \in [Pools -> [cursor : Cursors, balance : Nat] \cup {None}]
  /\ markers \subseteq Events
  /\ sync \in [last : Rounds \cup {None}, claimed : Rounds \cup {None},
               owner : Workers \cup {None, Gone}, live : BOOLEAN]
  /\ pc \in [Workers -> Steps]
  /\ view \in [Workers -> Rounds \cup {None}]
  /\ todo \in [Workers -> SUBSET Pools]
  /\ low \in [Workers -> Rounds \cup {None}]
  /\ snap \in [Workers -> [pool : Pools, round : Rounds] \cup {None}]
  /\ done \in [Workers -> 0 .. End - 1]
  /\ cursor \in [Workers -> Cursors \cup {None}]
  /\ attempts \in [Workers -> 0 .. MaxAttempts - 1]

\* The ledger of a pool is the balance the chain had at its cursor: replay and
\* snapshots, of whatever workers, converge to the chain (project, replace_snapshot).
LedgerExact ==
  \A p \in Tracked : states[p].balance = BalanceAt[p][states[p].cursor]

\* The checkpoint passes no event of a pool that its ledger has not reached: what
\* lies behind sync_states.last_round is never fetched again (complete_round,
\* advance_snapshot, lp_cursor_complete_through).
CheckpointCovered ==
  sync.last # None =>
    \A e \in Events : e.pool \in Tracked /\ e.round <= sync.last =>
      ~Before(states[e.pool].cursor, At(e))

\* Marker last: no event is recorded as projected before the state holds it.
\* A marker ahead of its state stops the projector for good.
MarkersBehindCursor ==
  \A e \in markers : ~Before(states[e.pool].cursor, At(e))

\* A worker with the standing claim never finds state and markers diverged: crashes
\* and expired leases leave nothing that only an operator can repair.  A worker that
\* lost its claim may, when the state went past a snapshot it has not seen.
NoFalseAlarm == \A w \in Workers : pc[w] = "corrupt" => ~Holds(w)

\* The checkpoint never regresses, whichever worker's snapshot or block moves it.
CheckpointAdvances ==
  [][sync'.last # sync.last /\ sync.last # None => sync'.last > sync.last]_vars

\* Every block of the chain is projected in the end, if failures cease and slow
\* workers keep their leases.
Progress == \A r \in Rounds : head >= r ~> (sync.last # None /\ sync.last >= r)

\* Each projection is one of the abstract ledger's moves: forward along the chain
\* and to the chain's own balance, or nothing at all.
Ledger == INSTANCE LpLedger WITH ledger <- states
ImplementsLedger == Ledger!Spec

=============================================================================
