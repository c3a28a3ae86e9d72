------------------------------ MODULE Lottery ------------------------------
(***************************************************************************)
(* The NFT lottery of api/nft_lottery.py for one staking lottery and one   *)
(* wallet: the entitlement document that guards the rolling window, the    *)
(* draws it leads to, and the payout of their prizes.                      *)
(*                                                                         *)
(* Requests of the wallet run in any number of processes, and so do the    *)
(* payout workers.  One action is one Mongo command (an update that was    *)
(* refused and the read that only reports why are one), one Indexer lookup *)
(* or one call of the transfer service; a process may die or raise at any  *)
(* of them.  The identity of a staking draw is the generation it was       *)
(* reserved for: a fresh uuid is stored by the reservation that wins only. *)
(*                                                                         *)
(* transfer is what the outbound-transfer service promises (module Payout) *)
(* for the operation nft:lottery:<draw>: it moves the prize at most once,  *)
(* possibly after its caller was told of an error, or it expires for ever. *)
(***************************************************************************)
EXTENDS Naturals, FiniteSets

CONSTANTS
  Requests,    \* processes that serve a request of the wallet
  Payers,      \* processes that run send_all_prizes
  Nfts,        \* the one-of-one assets that can be won
  Legacy,      \* draws stored before entitlements and operation ids existed
  LegacyDocs,  \* bound: what the document of such a draw may look like
  Swaps,       \* bound: draws of swap lotteries that will be made
  Interval,    \* MIN_DRAW_INTERVAL
  MaxTime,     \* bound: the clock stops here
  None         \* Python's None

Generations == 1 .. MaxTime + 1
DrawIds == Legacy \cup Swaps \cup Generations
Times == 0 .. MaxTime
Prizes == Nfts \cup {None}

PayoutStatus == {"missing", "pending", "prepared", "confirmed", "unresolved",
                 "reconciliation_required"}

\* A draw whose payment failed once is not taken up again.
PayableOnce == {"pending", "prepared"}

Payable == {"pending", "prepared", "unresolved"}

EntitlementStatus == {"reserved", "prepared", "materialized", "confirmed", "no_prize",
                      "unresolved"}

\* A draw: whether it has an id and refers to its own payout operation, and
\* the generation of the entitlement it belongs to, 0 for none.
Docs == [key : DrawIds, id : BOOLEAN, prize : Prizes, time : Times \cup {None},
         status : PayoutStatus, claimed : {"missing", "no", "yes"}, op : BOOLEAN,
         generation : {0} \cup Generations]

TransferStates == {"none", "sent", "paid", "expired"}

Actives == [draw : DrawIds, time : Times, prize : Prizes, status : EntitlementStatus]
Entitlements == [generation : {0} \cup Generations, eligible : 0 .. MaxTime + Interval,
                 active : Actives \cup {None}]

Incomplete(doc) == ~doc.id \/ doc.status = "missing" \/ doc.claimed = "missing"

\* A draw without an operation that is not paid as it stands: it waits for its migration
\* or was migrated, or an old worker recorded that it paid.
SetAside(doc) == Incomplete(doc) \/ doc.claimed = "yes" \/ doc.status = "reconciliation_required"

ASSUME IntervalAssumption == Interval \in Nat \ {0} /\ MaxTime \in Nat
ASSUME IdsAssumption == /\ Legacy \cap (Swaps \cup Generations) = {}
                        /\ Swaps \cap Generations = {}
ASSUME NoneAssumption == /\ None \notin Docs /\ None \notin Entitlements
                         /\ None \notin Actives /\ None \notin Nfts /\ None \notin Times
ASSUME LegacyAssumption ==
  \A d \in LegacyDocs : /\ d \in Docs
                        /\ d.key \in Legacy
                        /\ d.generation = 0
                        /\ d.op \/ SetAside(d)

VARIABLES
  time,         \* the clock the requests read
  available,    \* available_nfts of the stored lottery, empty when it was removed
  draws,        \* the collection of draws, by their Mongo identity
  entitlement,  \* the entitlement document
  transfer,     \* the payout operation of each draw
  old,          \* legacy draws an old worker may have paid without a trace
  req,          \* the request each process serves
  payer         \* the draw each payout worker handles

store == <<available, draws, entitlement>>
vars == <<time, store, transfer, old, req, payer>>

RequestSteps == {"idle", "latest", "outstanding", "backfill", "seed", "claim", "read",
                 "lookup", "repair", "draw", "reread", "upsert", "status"}
PayerSteps == {"idle", "backfill", "prepare", "send", "record", "confirm", "unresolve", "fail"}

RequestStates == [step : RequestSteps, now : Times, latest : Docs \cup {None},
                  doc : Docs \cup {None}, entitlement : Entitlements \cup {None},
                  stock : SUBSET Nfts]
PayerStates == [step : PayerSteps, draw : DrawIds \cup {None}, doc : Docs \cup {None}]

NoRequest == [step |-> "idle", now |-> 0, latest |-> None, doc |-> None,
              entitlement |-> None, stock |-> {}]
NoPayout == [step |-> "idle", draw |-> None, doc |-> None]

Stored == {draws[d] : d \in {x \in DrawIds : draws[x] # None}}

Init ==
  /\ time = 0
  /\ available = Nfts
  /\ \E f \in [Legacy -> LegacyDocs \cup {None}] :
        /\ \A d \in Legacy : f[d] # None => f[d].key = d
        /\ draws = [d \in DrawIds |-> IF d \in Legacy THEN f[d] ELSE None]
  /\ entitlement = None
  /\ transfer \in [DrawIds -> TransferStates]
  /\ \A d \in DrawIds : IF draws[d] # None /\ draws[d].op
                        THEN draws[d].claimed = "yes" => transfer[d] = "paid"
                        ELSE transfer[d] = "none"
  /\ old = {d \in Legacy : draws[d] # None /\ draws[d].prize # None /\ ~draws[d].op}
  /\ req = [r \in Requests |-> NoRequest]
  /\ payer = [p \in Payers |-> NoPayout]

-----------------------------------------------------------------------------
(* Draw documents.                                                         *)

Unclaimed(doc) == doc.claimed # "yes" /\ doc.prize # None

\* A legacy draw without an operation is resumed like one that has it.
MigratedForPayment(doc) ==
  [doc EXCEPT !.id = TRUE,
              !.status = IF doc.claimed = "yes" THEN "confirmed" ELSE "prepared",
              !.claimed = IF doc.claimed = "missing" THEN "no" ELSE doc.claimed]

\* What _backfill_draw_id stores for an incomplete document.
Migrated(doc) ==
  [doc EXCEPT !.id = TRUE,
              !.status = IF doc.claimed = "yes" THEN "confirmed"
                         ELSE IF doc.op THEN "prepared"
                         ELSE "reconciliation_required",
              !.claimed = IF doc.claimed = "missing" THEN "no" ELSE doc.claimed]

\* Its update requires the four fields it depends on to be unchanged; the
\* document read otherwise is a complete one, which ends the loop.
SameIdentity(a, b) == /\ a.id = b.id
                      /\ a.status = b.status
                      /\ a.claimed = b.claimed
                      /\ a.op = b.op

Backfilled(doc) == IF SameIdentity(draws[doc.key], doc) THEN Migrated(doc) ELSE draws[doc.key]

\* The last of a set of draws by timestamp; a missing one sorts first.
IsLast(doc, S) == /\ doc \in S
                  /\ \A other \in S :
                        other.time # None => doc.time # None /\ doc.time >= other.time

StakingDraws == {doc \in Stored : doc.key \notin Swaps}

-----------------------------------------------------------------------------
(* A request: lottery_for_staking and _claim_staking_entitlement.          *)

RequestGoes(r, new) == /\ req' = [req EXCEPT ![r] = new]
                       /\ UNCHANGED <<time, transfer, old, payer>>

\* The request ends, with its answer or with an error.
Reply(r) == RequestGoes(r, NoRequest)

\* An entitlement that exists is not seeded again: when no draw waits for its
\* migration either, the steps of the seeding change nothing and are skipped.
FirstStep == IF entitlement # None /\ ~\E doc \in StakingDraws : Incomplete(doc)
             THEN "claim" ELSE "latest"

Start(r) ==
  /\ req[r].step = "idle"
  /\ available # {}
  /\ RequestGoes(r, [NoRequest EXCEPT !.step = FirstStep, !.now = time, !.stock = available])
  /\ UNCHANGED store

SeedLatest(r) ==
  /\ req[r].step = "latest"
  /\ \/ \E doc \in StakingDraws :
          /\ IsLast(doc, StakingDraws)
          /\ RequestGoes(r, [req[r] EXCEPT !.step = "outstanding", !.latest = doc])
     \/ StakingDraws = {} /\ RequestGoes(r, [req[r] EXCEPT !.step = "seed"])
  /\ UNCHANGED store

\* The draw that may be outstanding, or else the latest one.
SeedOutstanding(r) ==
  LET unclaimed == {doc \in StakingDraws : Unclaimed(doc)}
  IN /\ req[r].step = "outstanding"
     /\ \E doc \in unclaimed \cup {req[r].latest} :
          /\ IF unclaimed = {} THEN doc = req[r].latest ELSE IsLast(doc, unclaimed)
          /\ RequestGoes(r, [req[r] EXCEPT !.doc = doc,
                                           !.step = IF Incomplete(doc) THEN "backfill"
                                                                       ELSE "seed"])
     /\ UNCHANGED store

SeedBackfill(r) ==
  LET doc == Backfilled(req[r].doc)
  IN /\ req[r].step = "backfill"
     /\ draws' = [draws EXCEPT ![doc.key] = doc]
     /\ RequestGoes(r, [req[r] EXCEPT !.step = "seed", !.doc = doc])
     /\ UNCHANGED <<available, entitlement>>

SeedStatus(doc) == IF doc.prize = None THEN "no_prize"
                   ELSE IF doc.claimed = "yes" THEN "confirmed" ELSE "unresolved"

\* The window is counted from the guarded draw instead of the latest one.
SeedFromGuarded(latest, doc, now) ==
  IF doc = None THEN [generation |-> 0, eligible |-> 0, active |-> None]
  ELSE LET valid == doc.time # None /\ latest.time # None
       IN [generation |-> 0,
           eligible |-> (IF valid THEN doc.time ELSE now) + Interval,
           active |-> [draw |-> doc.key, time |-> IF valid THEN doc.time ELSE now,
                       prize |-> doc.prize,
                       status |-> IF valid THEN SeedStatus(doc) ELSE "unresolved"]]

\* The entitlement that stands for the draws found.
Seed(latest, doc, now) ==
  IF doc = None THEN [generation |-> 0, eligible |-> 0, active |-> None]
  ELSE LET valid == doc.time # None /\ latest.time # None
       IN [generation |-> 0,
           eligible |-> (IF valid THEN latest.time ELSE now) + Interval,
           active |-> [draw |-> doc.key, time |-> IF valid THEN doc.time ELSE now,
                       prize |-> doc.prize,
                       status |-> IF valid THEN SeedStatus(doc) ELSE "unresolved"]]

\* $setOnInsert: an entitlement that exists is left alone.
SeedInsert(r) ==
  LET q == req[r]
  IN /\ q.step = "seed"
     /\ entitlement' = IF entitlement = None THEN Seed(q.latest, q.doc, q.now) ELSE entitlement
     /\ RequestGoes(r, [q EXCEPT !.step = "claim", !.latest = None, !.doc = None])
     /\ UNCHANGED <<available, draws>>

\* An unresolved draw does not hold the next generation back.
ClaimableUnlessOpen(now) ==
  /\ entitlement.eligible <= now
  /\ entitlement.active # None =>
       entitlement.active.status \notin {"reserved", "prepared", "materialized"}

\* The filter of the reservation.
Claimable(now) ==
  /\ entitlement.eligible <= now
  /\ entitlement.active # None => entitlement.active.status \in {"confirmed", "no_prize"}

ClaimNew(r) ==
  LET g == entitlement.generation + 1
      new == [generation |-> g, eligible |-> req[r].now + Interval,
              active |-> [draw |-> g, time |-> req[r].now, prize |-> None,
                          status |-> "reserved"]]
  IN /\ req[r].step = "claim"
     /\ Claimable(req[r].now)
     /\ entitlement' = new
     /\ RequestGoes(r, [req[r] EXCEPT !.step = "draw", !.entitlement = new])
     /\ UNCHANGED <<available, draws>>

ClaimRefused(r) ==
  /\ req[r].step = "claim"
  /\ ~Claimable(req[r].now)
  /\ RequestGoes(r, [req[r] EXCEPT !.step = "read"])
  /\ UNCHANGED store

\* The refused request reads the entitlement: it helps a reservation, looks at
\* the draw of an open one, and has nothing to do for a settled one.
StepFor(status) == CASE status = "reserved" -> "draw"
                     [] status = "prepared" -> "upsert"
                     [] OTHER -> "lookup"
ReadCurrent(r) ==
  LET active == entitlement.active
  IN /\ req[r].step = "read"
     /\ IF active = None \/ active.status \in {"confirmed", "no_prize"} THEN Reply(r)
        ELSE RequestGoes(r, [req[r] EXCEPT !.step = StepFor(active.status),
                                           !.entitlement = entitlement])
     /\ UNCHANGED store

\* The draw behind an open entitlement is not looked at.
LookupNothing(r) == /\ req[r].step = "lookup"
                    /\ Reply(r)
                    /\ UNCHANGED store

LookupDraw(r) ==
  LET doc == draws[req[r].entitlement.active.draw]
  IN /\ req[r].step = "lookup"
     /\ IF doc # None /\ doc.claimed = "yes" /\ doc.status = "confirmed"
        THEN RequestGoes(r, [req[r] EXCEPT !.step = "repair"])
        ELSE Reply(r)
     /\ UNCHANGED store

\* Does the entitlement still stand where the copy e saw it?
StillAt(e) == /\ entitlement.generation = e.generation
              /\ entitlement.active # None
              /\ entitlement.active.draw = e.active.draw
              /\ entitlement.active.status = e.active.status

\* A paid draw settles its generation; the request then claims once more.
Repair(r) ==
  /\ req[r].step = "repair"
  /\ IF StillAt(req[r].entitlement)
     THEN /\ entitlement' = [entitlement EXCEPT !.active.status = "confirmed"]
          /\ RequestGoes(r, [req[r] EXCEPT !.step = FirstStep, !.entitlement = None])
     ELSE /\ UNCHANGED entitlement
          /\ Reply(r)
  /\ UNCHANGED <<available, draws>>

-----------------------------------------------------------------------------
(* _prepare_staking_prize with draw_id, and _materialize_staking_draw.     *)

\* Is the asset still in the hot wallet?
InWallet(n) == \A d \in DrawIds : ~(transfer[d] = "paid" /\ draws[d].prize = n)

\* The asset is gone: it is taken off the list, and the lottery written back.
DrawAgain(r) ==
  /\ req[r].step = "draw"
  /\ \E n \in req[r].stock :
        /\ ~InWallet(n)
        /\ available' = req[r].stock \ {n}
        /\ RequestGoes(r, [req[r] EXCEPT !.stock = @ \ {n}])
  /\ UNCHANGED <<draws, entitlement>>

\* The status is left out of the filter.
StillReserved(e) == /\ entitlement.generation = e.generation
                    /\ entitlement.active.draw = e.active.draw

\* The reservation takes the prize of the first request to get there.
StillUndrawn(e) == StillAt(e)

\* The prize drawn: none, or an asset the Indexer still sees in the wallet; it
\* may lag behind the chain.  The draw is a step of its own in the code, but
\* touches nothing, so it is taken together with the reservation it ends in.
ReservePrize(r) ==
  /\ req[r].step = "draw"
  /\ IF StillUndrawn(req[r].entitlement)
     THEN \E prize \in req[r].stock \cup {None} :
            LET new == [entitlement EXCEPT !.active.prize = prize, !.active.status = "prepared"]
            IN /\ entitlement' = new
               /\ RequestGoes(r, [req[r] EXCEPT !.step = "upsert", !.entitlement = new])
     ELSE /\ UNCHANGED entitlement
          /\ RequestGoes(r, [req[r] EXCEPT !.step = "reread"])
  /\ UNCHANGED <<available, draws>>

\* The loser goes on with what the entitlement says now, or raises.
Reread(r) ==
  /\ req[r].step = "reread"
  /\ IF entitlement.active.status \in {"prepared", "materialized", "no_prize"}
     THEN RequestGoes(r, [req[r] EXCEPT !.step = "upsert", !.entitlement = entitlement])
     ELSE Reply(r)
  /\ UNCHANGED store

\* The document of a new draw.
NewDraw(d, prize, now, generation) ==
  [key |-> d, id |-> TRUE, prize |-> prize, time |-> now, status |-> "pending",
   claimed |-> "no", op |-> FALSE, generation |-> generation]

DrawInserted(doc, new) == IF doc = None THEN new ELSE doc

\* The stored draw must have the immutable fields of this generation.
UpsertDraw(r) ==
  LET e == req[r].entitlement
      new == NewDraw(e.active.draw, e.active.prize, e.active.time, e.generation)
      doc == DrawInserted(draws[e.active.draw], new)
  IN /\ req[r].step = "upsert"
     /\ draws' = [draws EXCEPT ![e.active.draw] = doc]
     /\ IF <<doc.prize, doc.time, doc.generation>> = <<new.prize, new.time, new.generation>>
        THEN RequestGoes(r, [req[r] EXCEPT !.step = "status"])
        ELSE Reply(r)
     /\ UNCHANGED <<available, entitlement>>

\* A refusal means that the draw was settled or given up meanwhile.
SetStatus(r) ==
  LET e == req[r].entitlement
      status == IF e.active.prize = None THEN "no_prize" ELSE "materialized"
  IN /\ req[r].step = "status"
     /\ entitlement' = IF /\ entitlement.generation = e.generation
                          /\ entitlement.active.draw = e.active.draw
                          /\ entitlement.active.status \in {"prepared", status}
                       THEN [entitlement EXCEPT !.active.status = status]
                       ELSE entitlement
     /\ Reply(r)
     /\ UNCHANGED <<available, draws>>

\* The process dies, or a command or a lookup raises.
RequestEnds(r) == /\ req[r].step # "idle"
                  /\ Reply(r)
                  /\ UNCHANGED store

RequestStep(r) ==
  \/ SeedLatest(r) \/ SeedOutstanding(r) \/ SeedBackfill(r) \/ SeedInsert(r)
  \/ ClaimNew(r) \/ ClaimRefused(r) \/ ReadCurrent(r) \/ LookupDraw(r) \/ Repair(r)
  \/ DrawAgain(r) \/ ReservePrize(r) \/ Reread(r) \/ UpsertDraw(r) \/ SetStatus(r)

\* draw_prize of a swap lottery: every swap makes a draw of its own.
SwapDraw(d) ==
  /\ draws[d] = None
  /\ \E prize \in Prizes : draws' = [draws EXCEPT ![d] = NewDraw(d, prize, time, 0)]
  /\ UNCHANGED <<time, available, entitlement, transfer, old, req, payer>>

-----------------------------------------------------------------------------
(* send_all_prizes.  The list of unclaimed draws is read at once and       *)
(* worked off later: the copy of a draw may be old when its turn comes.    *)

PayerGoes(p, step) == /\ payer' = [payer EXCEPT ![p].step = step, ![p].doc = None]
                      /\ UNCHANGED <<time, available, old, req>>

NextDraw(p) == /\ payer' = [payer EXCEPT ![p] = NoPayout]
               /\ UNCHANGED <<time, available, old, req>>

\* A draw of the list.  Only an incomplete one is looked at as it was read; of
\* the others nothing but what never changes is used, and the status decides.
Pick(p, d) ==
  /\ payer[p].step = "idle"
  /\ draws[d] # None
  /\ Unclaimed(draws[d])
  /\ Incomplete(draws[d]) \/ draws[d].status \in Payable
  /\ payer' = [payer EXCEPT ![p] =
                 IF Incomplete(draws[d]) THEN [step |-> "backfill", draw |-> d, doc |-> draws[d]]
                                         ELSE [step |-> "prepare", draw |-> d, doc |-> None]]
  /\ UNCHANGED <<time, store, transfer, old, req>>

\* The migration, and the decision whether this draw may be paid.
PayerBackfill(p) ==
  LET doc == Backfilled(payer[p].doc)
  IN /\ payer[p].step = "backfill"
     /\ draws' = [draws EXCEPT ![doc.key] = doc]
     /\ IF doc.claimed = "no" /\ doc.status \in Payable THEN PayerGoes(p, "prepare")
                                                       ELSE NextDraw(p)
     /\ UNCHANGED <<entitlement, transfer>>

\* The reservation of the payout; a draw another worker paid is settled only.
PreparePayout(p) ==
  LET doc == draws[payer[p].draw]
  IN /\ payer[p].step = "prepare"
     /\ IF doc.claimed = "no" /\ doc.status \in Payable
        THEN /\ draws' = [draws EXCEPT ![doc.key].op = TRUE, ![doc.key].status = "prepared"]
             /\ PayerGoes(p, "send")
        ELSE /\ UNCHANGED draws
             /\ PayerGoes(p, IF doc.claimed = "yes" THEN "confirm" ELSE "unresolve")
     /\ UNCHANGED <<entitlement, transfer>>

\* The transfer can be made, or was made before.
Sendable(d) == \/ transfer[d] = "paid"
               \/ transfer[d] \in {"none", "sent"} /\ InWallet(draws[d].prize)

\* Any error is taken for a payment.
SendAssumed(p) ==
  LET d == payer[p].draw
  IN /\ payer[p].step = "send"
     /\ transfer' = [transfer EXCEPT ![d] = IF @ = "none" THEN "sent" ELSE @]
     /\ PayerGoes(p, "record")
     /\ UNCHANGED <<draws, entitlement>>

\* send_nft returns the receipt of the transfer, made now or before.
SendPaid(p) ==
  LET d == payer[p].draw
  IN /\ payer[p].step = "send"
     /\ Sendable(d)
     /\ transfer' = [transfer EXCEPT ![d] = "paid"]
     /\ PayerGoes(p, "record")
     /\ UNCHANGED <<draws, entitlement>>

\* send_nft raises; the signed transaction may be out.
SendFails(p) ==
  LET d == payer[p].draw
  IN /\ payer[p].step = "send"
     /\ \/ UNCHANGED transfer
        \/ transfer' = [transfer EXCEPT ![d] = IF @ = "none" THEN "sent" ELSE @]
     /\ PayerGoes(p, "unresolve")
     /\ UNCHANGED <<draws, entitlement>>

\* The payment is recorded in the draw, by this worker or by another one.
RecordPayout(p) ==
  LET d == payer[p].draw
      doc == draws[d]
  IN /\ payer[p].step = "record"
     /\ IF doc.claimed = "no" /\ doc.op /\ doc.status # "reconciliation_required"
        THEN /\ draws' = [draws EXCEPT ![d].claimed = "yes", ![d].status = "confirmed"]
             /\ PayerGoes(p, "confirm")
        ELSE /\ UNCHANGED draws
             /\ PayerGoes(p, IF doc.claimed = "yes" THEN "confirm" ELSE "unresolve")
     /\ UNCHANGED <<entitlement, transfer>>

\* The entitlement that waits for this draw, if it belongs to one.
Guards(doc) == /\ doc.generation # 0
               /\ entitlement # None
               /\ entitlement.generation = doc.generation
               /\ entitlement.active.draw = doc.key

\* The status is set whatever it is.
Downgraded(e) == [e EXCEPT !.active.status = "unresolved"]

\* An entitlement that was confirmed does not become unresolved.
Unresolved(e) == IF e.active.status = "confirmed" THEN e
                 ELSE [e EXCEPT !.active.status = "unresolved"]

\* _update_staking_entitlement_status; a failure of it is only logged.
ConfirmEntitlement(p) ==
  /\ payer[p].step = "confirm"
  /\ entitlement' = IF Guards(draws[payer[p].draw]) THEN [entitlement EXCEPT !.active.status = "confirmed"]
                                            ELSE entitlement
  /\ NextDraw(p)
  /\ UNCHANGED <<draws, transfer>>

UnresolveEntitlement(p) ==
  /\ payer[p].step = "unresolve"
  /\ entitlement' = IF Guards(draws[payer[p].draw]) THEN Unresolved(entitlement) ELSE entitlement
  /\ PayerGoes(p, "fail")
  /\ UNCHANGED <<draws, transfer>>

FailDraw(p) ==
  LET d == payer[p].draw
  IN /\ payer[p].step = "fail"
     /\ draws' = IF /\ draws[d].claimed = "no"
                    /\ draws[d].op
                    /\ draws[d].status # "reconciliation_required"
                 THEN [draws EXCEPT ![d].status = "unresolved"]
                 ELSE draws
     /\ NextDraw(p)
     /\ UNCHANGED <<entitlement, transfer>>

\* A Mongo command before or after the transfer raises, whether or not it was
\* carried out: the payout counts as failed.
PayerRaises(p) == /\ payer[p].step \in {"prepare", "record", "confirm"}
                  /\ PayerGoes(p, "unresolve")
                  /\ UNCHANGED <<draws, entitlement, transfer>>

\* The process dies, or an error has no handler.
PayerEnds(p) == /\ payer[p].step # "idle"
                /\ NextDraw(p)
                /\ UNCHANGED <<draws, entitlement, transfer>>

PayerStep(p) ==
  \/ PayerBackfill(p) \/ PreparePayout(p) \/ SendPaid(p) \/ SendFails(p)
  \/ RecordPayout(p) \/ ConfirmEntitlement(p) \/ UnresolveEntitlement(p) \/ FailDraw(p)

-----------------------------------------------------------------------------
(* The chain and the clock.                                                *)

\* A transaction that is out is confirmed late, or expires.
Settle(d) ==
  /\ transfer[d] = "sent"
  /\ \E outcome \in {"paid", "expired"} :
        /\ outcome = "paid" => InWallet(draws[d].prize)
        /\ transfer' = [transfer EXCEPT ![d] = outcome]
  /\ UNCHANGED <<time, store, old, req, payer>>

Tick == /\ time < MaxTime
        /\ time' = time + 1
        /\ UNCHANGED <<store, transfer, old, req, payer>>

Next ==
  \/ \E r \in Requests : Start(r) \/ RequestStep(r) \/ RequestEnds(r)
  \/ \E p \in Payers : PayerStep(p) \/ PayerRaises(p) \/ PayerEnds(p) \/ \E d \in DrawIds : Pick(p, d)
  \/ \E d \in Swaps : SwapDraw(d)
  \/ \E d \in DrawIds : Settle(d)
  \/ Tick

Spec == Init /\ [][Next]_vars

-----------------------------------------------------------------------------
(* Properties.                                                             *)

\* The documents, the operations and the processes have their types.
TypeOK ==
  /\ time \in Times
  /\ available \subseteq Nfts
  /\ draws \in [DrawIds -> Docs \cup {None}]
  /\ entitlement \in Entitlements \cup {None}
  /\ transfer \in [DrawIds -> TransferStates]
  /\ old \subseteq Legacy
  /\ req \in [Requests -> RequestStates]
  /\ payer \in [Payers -> PayerStates]

\* Prizes of the staking lottery the wallet has not got yet: of unclaimed draws,
\* and of the reservation that will become a draw.
Liabilities == {doc.key : doc \in {x \in StakingDraws : Unclaimed(x)}} \cup
               {a.draw : a \in {x \in {IF entitlement = None THEN None ELSE entitlement.active} :
                                  x # None /\ x.status \in {"reserved", "prepared"}}}

\* However requests compete, help one another and die, the wallet never has two
\* liabilities of the lottery at once (_claim_staking_entitlement).
OneLiability == Cardinality(Liabilities) <= 1

\* A new generation starts an interval after every earlier draw, whichever
\* process reserved it and when it read the clock (the rolling window).
WindowKept ==
  [][\A doc \in StakingDraws :
        /\ entitlement # None
        /\ entitlement'.generation # entitlement.generation
        /\ doc.time # None
        => entitlement'.active.time >= doc.time + Interval]_vars

\* What the entitlement says of its draw is so: a settled one is paid and
\* claimed, an open one has a draw with this prize, and only a draw without a
\* prize is settled without payment.
GuardTruthful ==
  entitlement # None /\ entitlement.active # None =>
    LET a == entitlement.active
        doc == draws[a.draw]
    IN /\ a.status = "confirmed" => doc.claimed = "yes"
       /\ a.status \in {"materialized", "no_prize", "unresolved", "confirmed"} =>
            doc # None /\ doc.prize = a.prize
       /\ a.status = "no_prize" => a.prize = None
       /\ a.status = "materialized" => a.prize # None

\* A draw that one of the workers claimed was paid by its own operation.
ClaimedIsPaid ==
  \A d \in DrawIds :
     draws[d] # None /\ draws[d].claimed = "yes" /\ draws[d].op => transfer[d] = "paid"

\* A legacy draw that an old worker may have paid is never sent again: only one
\* that refers to its durable operation is resumed (_backfill_draw_id).
UnprovenIsNotSent == \A d \in old : transfer[d] = "none"

\* A settled generation stays settled until the next one is reserved, and a
\* claimed draw stays what it is, whatever a slow request or a failing worker
\* still writes.
SettledIsFinal ==
  [][/\ entitlement # None /\ entitlement.active # None
        /\ entitlement.active.status \in {"confirmed", "no_prize"}
        => \/ entitlement'.active = entitlement.active
           \/ entitlement'.generation = entitlement.generation + 1
     /\ \A doc \in Stored : /\ draws'[doc.key].prize = doc.prize
                            /\ doc.claimed = "yes" /\ ~Incomplete(doc) => draws'[doc.key] = doc
    ]_vars

-----------------------------------------------------------------------------
(* Liveness.  The wallet keeps asking, an operator keeps running the       *)
(* payout, and at some time processes stop to die and transfers to fail.   *)

\* (An end that the code would have come to in this step is none.)
Failure == \/ \E r \in Requests : RequestEnds(r) /\ ~RequestStep(r)
           \/ \E p \in Payers : \/ PayerRaises(p) /\ ~PayerStep(p)
                                \/ PayerEnds(p) /\ ~PayerStep(p)
                                \/ SendFails(p) /\ Sendable(payer[p].draw)

FairSpec == /\ Spec
            /\ <>[][~Failure]_vars
            /\ WF_vars(Tick)
            /\ \A r \in Requests : WF_vars(Start(r)) /\ WF_vars(RequestStep(r))
            /\ \A p \in Payers : /\ WF_vars(PayerStep(p))
                                 /\ \A d \in DrawIds : SF_vars(Pick(p, d))

Claimed(d) == draws[d] # None /\ draws[d].claimed = "yes"

\* A draw that was not lost to history: an old worker cannot have paid it.
Owed(d) == draws[d] # None /\ Unclaimed(draws[d]) /\ d \notin old

\* Its transfer never happens: it expired, or its asset went to another draw.
Lost(d) == /\ draws[d] # None
           /\ \/ transfer[d] = "expired"
              \/ ~InWallet(draws[d].prize) /\ transfer[d] # "paid"

\* A prize that is owed is paid in the end, through every crash and lost answer,
\* unless its transfer cannot happen any more: no state of a draw keeps the
\* payout workers from taking it up again.
PrizeIsPaid == \A d \in DrawIds : Owed(d) ~> Claimed(d) \/ Lost(d)

\* The entitlement waits for the draw, or is through with it.
WaitsFor(d) == /\ entitlement # None /\ entitlement.active # None
               /\ entitlement.active.draw = d
               /\ entitlement.active.status # "confirmed"

\* A paid prize does not block the wallet for ever: even if the worker that paid
\* it died, a later request settles the entitlement (unless the lottery is over).
GuardReleased == \A d \in DrawIds :
  WaitsFor(d) /\ Claimed(d) ~> ~WaitsFor(d) \/ available = {}
=============================================================================
