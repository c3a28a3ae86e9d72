--------------------------- MODULE LotteryProofs ---------------------------
(***************************************************************************)
(* Machine-checked facts about Lottery, for any number of requests, payout *)
(* workers, assets and old draws, and for any interval.                    *)
(***************************************************************************)
EXTENDS Lottery, FiniteSetTheorems, TLAPS

Staking == DrawIds \ Swaps
Settled == {"confirmed", "no_prize"}

\* The steps of a request that hold a copy of the entitlement.
Materializing == {"draw", "reread", "upsert", "status"}
Holding == Materializing \cup {"lookup", "repair"}

-----------------------------------------------------------------------------
(* The inductive invariant.                                                *)

\* A copy of a draw, read before: what of it still holds of the stored one.
CopyOK(doc) ==
  /\ doc \in Docs
  /\ draws[doc.key] # None
  /\ draws[doc.key].prize = doc.prize
  /\ draws[doc.key].time = doc.time
  /\ draws[doc.key].generation = doc.generation
  /\ doc.claimed = "yes" => draws[doc.key].claimed = "yes"
  /\ Incomplete(doc) => draws[doc.key] = doc \/ ~Incomplete(draws[doc.key])

\* A stored draw, its generation and its payment.
DrawOK(d) == draws[d] # None =>
  /\ draws[d].key = d
  /\ d \in Generations => /\ draws[d].generation = d
                          /\ entitlement # None
                          /\ d <= entitlement.generation
  /\ d \notin Generations => draws[d].generation = 0
  /\ draws[d].claimed = "yes" /\ draws[d].op => transfer[d] = "paid"

\* An old worker may have paid this draw.
OldOK(d) == /\ draws[d] # None
            /\ ~draws[d].op
            /\ SetAside(draws[d])
            /\ transfer[d] = "none"

\* What the status of an entitlement says of its draw.
ActiveOK(a) ==
  /\ a.status = "no_prize" => a.prize = None
  /\ a.status = "materialized" => a.prize # None
  /\ a.status \notin {"reserved", "prepared"} => draws[a.draw] # None
  /\ draws[a.draw] # None => a.status # "reserved" /\ draws[a.draw].prize = a.prize
  /\ a.status = "confirmed" => draws[a.draw].claimed = "yes"

\* The first entitlement stands for an old draw, each later one for a draw of its own.
GuardOK == entitlement # None =>
  /\ entitlement.generation <= entitlement.eligible
  /\ \A g \in Generations : g < entitlement.generation => draws[g] # None
  /\ entitlement.generation # 0 => /\ entitlement.active # None
                                   /\ entitlement.active.draw = entitlement.generation
  /\ entitlement.active # None => ActiveOK(entitlement.active)
  /\ entitlement.generation = 0 /\ entitlement.active # None =>
       /\ entitlement.active.draw \in Legacy
       /\ entitlement.active.status \in {"confirmed", "no_prize", "unresolved"}

\* A copy of the entitlement, read before: once a generation has its prize it keeps it.
Knows(e) ==
  /\ e \in Entitlements /\ e.active # None
  /\ entitlement # None /\ e.generation <= entitlement.generation
  /\ e.generation # 0 => e.active.draw = e.generation
  /\ e.generation = entitlement.generation =>
       /\ entitlement.active # None
       /\ entitlement.active.draw = e.active.draw
       /\ entitlement.active.time = e.active.time
       /\ e.active.status # "reserved" => /\ entitlement.active.status # "reserved"
                                          /\ entitlement.active.prize = e.active.prize

\* What a request knows at each step.
SeedOK(q) ==
  /\ q.latest # None => CopyOK(q.latest) /\ q.latest.key \notin Swaps
  /\ q.doc # None => CopyOK(q.doc) /\ q.doc.key \notin Swaps /\ q.latest # None
  /\ q.step = "outstanding" => q.latest # None
  /\ q.step = "backfill" => q.doc # None /\ Incomplete(q.doc)
HoldOK(q) ==
  /\ q.step \in {"claim", "read"} => entitlement # None
  /\ q.step \in Holding => Knows(q.entitlement)
  /\ q.step \in Materializing => q.entitlement.generation # 0
  /\ q.step = "draw" => q.entitlement.active.status = "reserved"
  /\ q.step \in {"upsert", "status"} =>
       q.entitlement.active.status \in {"prepared", "materialized", "no_prize"}
  /\ q.step \in {"lookup", "repair"} =>
       q.entitlement.active.status \in {"materialized", "unresolved"}
  /\ q.step = "status" => draws[q.entitlement.active.draw] # None
  /\ q.step = "repair" => /\ draws[q.entitlement.active.draw] # None
                          /\ draws[q.entitlement.active.draw].claimed = "yes"
ReqOK(q) == SeedOK(q) /\ HoldOK(q)

\* What a payout worker knows at each step.
PayOK(y) == y.step # "idle" =>
  /\ y.draw \in DrawIds /\ draws[y.draw] # None /\ draws[y.draw].prize # None
  /\ y.step = "backfill" => /\ y.doc # None /\ CopyOK(y.doc) /\ Incomplete(y.doc)
                            /\ y.doc.key = y.draw
  /\ y.step # "backfill" => ~Incomplete(draws[y.draw])
  /\ y.step \in {"send", "record"} => draws[y.draw].op
  /\ y.step = "record" => transfer[y.draw] = "paid"
  /\ y.step = "confirm" => draws[y.draw].claimed = "yes"

DrawsOK == (\A d \in DrawIds : DrawOK(d)) /\ \A d \in old : OldOK(d)

IInv == /\ TypeOK /\ DrawsOK /\ GuardOK
        /\ \A r \in Requests : ReqOK(req[r])
        /\ \A p \in Payers : PayOK(payer[p])

-----------------------------------------------------------------------------
(* What every step does.                                                   *)

\* The draws: none is lost or becomes another one, and a migration is final.
DrawsGrow == \A d \in DrawIds : draws[d] # None =>
  /\ draws'[d] # None
  /\ draws'[d].prize = draws[d].prize
  /\ draws'[d].time = draws[d].time
  /\ draws'[d].generation = draws[d].generation
  /\ draws[d].claimed = "yes" => draws'[d].claimed = "yes"
  /\ draws[d].op => draws'[d].op
  /\ draws'[d] = draws[d] \/ ~Incomplete(draws'[d])
  /\ ~Incomplete(draws[d]) /\ draws[d].claimed = "yes" => draws'[d] = draws[d]

\* A new draw of the staking lottery is the one the entitlement was reserved for.
NewDrawsGuarded == \A d \in DrawIds : draws[d] = None /\ draws'[d] # None =>
  \/ d \in Swaps
  \/ /\ d \in Generations /\ entitlement # None /\ entitlement.active # None
     /\ entitlement.generation = d /\ entitlement.active.draw = d
     /\ draws'[d].time = entitlement.active.time
     /\ entitlement' = entitlement

\* The entitlement: the generation stays, settled if it was, or the next one is reserved.
SameGeneration ==
  /\ entitlement'.generation = entitlement.generation
  /\ entitlement'.eligible = entitlement.eligible
  /\ entitlement.active = None => entitlement'.active = None
  /\ entitlement.active # None =>
       /\ entitlement'.active # None
       /\ entitlement'.active.draw = entitlement.active.draw
       /\ entitlement'.active.time = entitlement.active.time
       /\ entitlement.active.status # "reserved" =>
            /\ entitlement'.active.status # "reserved"
            /\ entitlement'.active.prize = entitlement.active.prize
       /\ entitlement.active.status \in Settled => entitlement'.active = entitlement.active
NextGeneration ==
  /\ entitlement'.generation = entitlement.generation + 1
  /\ entitlement.active = None \/ entitlement.active.status \in Settled
  /\ entitlement'.active # None
  /\ entitlement'.active.draw = entitlement.generation + 1
  /\ entitlement.eligible <= entitlement'.active.time
  /\ entitlement'.eligible = entitlement'.active.time + Interval
  /\ draws' = draws
GuardMoves == entitlement # None => entitlement' # None /\ (SameGeneration \/ NextGeneration)

PaidStays == \A d \in DrawIds : transfer[d] = "paid" => transfer'[d] = "paid"

Evolves == DrawsGrow /\ NewDrawsGuarded /\ GuardMoves /\ PaidStays

-----------------------------------------------------------------------------
(* Documents, and processes that do not step.                              *)

LEMMA DocTypes ==
  ASSUME NEW doc \in Docs
  PROVE  /\ doc # None /\ doc.key \in DrawIds /\ doc.prize \in Prizes
         /\ doc.time \in Times \cup {None} /\ doc.status \in PayoutStatus
         /\ doc.claimed \in {"missing", "no", "yes"}
         /\ doc.id \in BOOLEAN /\ doc.op \in BOOLEAN
         /\ doc.generation \in {0} \cup Generations
  BY NoneAssumption DEF Docs

LEMMA EntitlementTypes ==
  ASSUME NEW e \in Entitlements
  PROVE  /\ e # None /\ e.generation \in Nat /\ e.generation \in {0} \cup Generations
         /\ e.eligible \in 0 .. MaxTime + Interval /\ e.eligible \in Nat
         /\ e.active \in Actives \cup {None}
         /\ e.active # None => /\ e.active.draw \in DrawIds
                               /\ e.active.time \in Times /\ e.active.time \in Nat
                               /\ e.active.prize \in Prizes
                               /\ e.active.status \in EntitlementStatus
  BY NoneAssumption, IntervalAssumption DEF Entitlements, Generations, Actives, Times

LEMMA Numbers ==
  /\ Interval \in Nat /\ Interval >= 1 /\ MaxTime \in Nat
  /\ Generations \subseteq Nat /\ 0 \notin Generations
  /\ Times \subseteq Nat /\ 0 \in Times
  BY IntervalAssumption DEF Generations, Times

\* The migration of an incomplete draw changes neither what it is nor who was paid.
LEMMA MigratedDoc ==
  ASSUME NEW doc \in Docs
  PROVE  /\ Migrated(doc) \in Docs
         /\ ~Incomplete(Migrated(doc))
         /\ Migrated(doc).key = doc.key /\ Migrated(doc).prize = doc.prize
         /\ Migrated(doc).time = doc.time /\ Migrated(doc).generation = doc.generation
         /\ Migrated(doc).op = doc.op
         /\ Migrated(doc).claimed = "yes" <=> doc.claimed = "yes"
         /\ ~doc.op => SetAside(Migrated(doc))
<1>1. /\ doc.id \in BOOLEAN /\ doc.op \in BOOLEAN
      /\ doc.claimed \in {"missing", "no", "yes"}
  BY DocTypes
<1> DEFINE status == IF doc.claimed = "yes" THEN "confirmed"
                     ELSE IF doc.op THEN "prepared" ELSE "reconciliation_required"
           claimed == IF doc.claimed = "missing" THEN "no" ELSE doc.claimed
<1>2. Migrated(doc) = [doc EXCEPT !.id = TRUE, !.status = status, !.claimed = claimed]
  BY DEF Migrated
<1>3. /\ status \in PayoutStatus /\ status # "missing"
      /\ claimed \in {"no", "yes"} /\ (claimed = "yes" <=> doc.claimed = "yes")
  BY <1>1 DEF PayoutStatus
<1>4. ~doc.op => doc.claimed = "yes" \/ status = "reconciliation_required"
  OBVIOUS
<1> HIDE DEF status, claimed
<1>5. /\ Migrated(doc) \in Docs
      /\ Migrated(doc).id = TRUE /\ Migrated(doc).status = status
      /\ Migrated(doc).claimed = claimed
      /\ Migrated(doc).key = doc.key /\ Migrated(doc).prize = doc.prize
      /\ Migrated(doc).time = doc.time /\ Migrated(doc).generation = doc.generation
      /\ Migrated(doc).op = doc.op
  BY <1>2, <1>3 DEF Docs
<1>6. ~Incomplete(Migrated(doc))
  BY <1>3, <1>5 DEF Incomplete
<1>7. ~doc.op => SetAside(Migrated(doc))
  BY <1>3, <1>4, <1>5 DEF SetAside
<1> QED BY <1>3, <1>5, <1>6, <1>7

LEMMA CopyKept ==
  ASSUME DrawsGrow, NEW doc, CopyOK(doc)
  PROVE  CopyOK(doc)'
<1>1. doc \in Docs /\ doc.key \in DrawIds
  BY DocTypes DEF CopyOK
<1>2. draws[doc.key] # None
  BY DEF CopyOK
<1> QED BY <1>1, <1>2 DEF CopyOK, DrawsGrow

LEMMA GuardRanges ==
  ASSUME TypeOK, entitlement # None
  PROVE  entitlement \in Entitlements /\ entitlement.generation \in Nat
  BY EntitlementTypes DEF TypeOK

LEMMA KnownKept ==
  ASSUME IInv, GuardMoves, NEW e, Knows(e)
  PROVE  Knows(e)'
<1>1. /\ e \in Entitlements /\ e.generation \in Nat /\ e.active # None
      /\ entitlement # None /\ entitlement.generation \in Nat
      /\ e.generation <= entitlement.generation
  BY EntitlementTypes, GuardRanges DEF Knows, IInv
<1>2. entitlement' # None
  BY <1>1 DEF GuardMoves
<1>3. CASE SameGeneration
  BY <1>1, <1>2, <1>3 DEF SameGeneration, Knows
<1>4. CASE NextGeneration
  <2>1. entitlement'.generation = entitlement.generation + 1
    BY <1>4 DEF NextGeneration
  <2>2. e.generation <= entitlement'.generation /\ e.generation # entitlement'.generation
    BY <1>1, <2>1
  <2> QED BY <1>1, <1>2, <2>2 DEF Knows
<1> QED BY <1>1, <1>3, <1>4 DEF GuardMoves

\* A request that does not step knows what it knew.
LEMMA RequestKept ==
  ASSUME IInv, DrawsGrow, GuardMoves, NEW q \in RequestStates, ReqOK(q)
  PROVE  ReqOK(q)'
<1>1. SeedOK(q)'
  BY CopyKept DEF ReqOK, SeedOK
<1>2. /\ q.step \in {"claim", "read"} => entitlement' # None
      /\ q.step \in Holding => Knows(q.entitlement)'
  BY KnownKept DEF ReqOK, HoldOK, GuardMoves
<1>3. q.step \in Holding => q.entitlement.active.draw \in DrawIds
  BY EntitlementTypes DEF ReqOK, HoldOK, Knows
<1>4. HoldOK(q)'
  BY <1>2, <1>3 DEF ReqOK, HoldOK, DrawsGrow, Holding, Materializing
<1> QED BY <1>1, <1>4 DEF ReqOK

\* A payout worker that does not step knows what it knew.
LEMMA PayerKept ==
  ASSUME IInv, DrawsGrow, PaidStays, NEW y \in PayerStates, PayOK(y)
  PROVE  PayOK(y)'
<1>1. CASE y.step = "idle"
  BY <1>1 DEF PayOK
<1>2. CASE y.step # "idle"
  <2>1. y.draw \in DrawIds /\ draws[y.draw] # None
    BY <1>2 DEF PayOK
  <2>2. ~Incomplete(draws[y.draw]) => ~Incomplete(draws'[y.draw])
    BY <2>1 DEF DrawsGrow
  <2>3. y.step = "backfill" => CopyOK(y.doc)'
    BY <1>2, CopyKept DEF PayOK
  <2>4. y.step # "backfill" => ~Incomplete(draws'[y.draw])
    BY <1>2, <2>2 DEF PayOK
  <2> QED BY <1>2, <2>1, <2>3, <2>4 DEF PayOK, DrawsGrow, PaidStays
<1> QED BY <1>1, <1>2

-----------------------------------------------------------------------------
(* One process steps.                                                      *)

LEMMA RequestIs ==
  ASSUME NEW s \in Requests, NEW x, req'[s] = x, ReqOK(x)'
  PROVE  ReqOK(req[s])'
  BY DEF ReqOK, SeedOK, HoldOK, CopyOK, Knows

LEMMA PayerIs ==
  ASSUME NEW p \in Payers, NEW y, payer'[p] = y, PayOK(y)'
  PROVE  PayOK(payer[p])'
  BY DEF PayOK, CopyOK

LEMMA OthersKept ==
  ASSUME IInv, Evolves
  PROVE  /\ \A s \in Requests : req'[s] = req[s] => ReqOK(req[s])'
         /\ \A p \in Payers : payer'[p] = payer[p] => PayOK(payer[p])'
<1>1. ASSUME NEW s \in Requests, req'[s] = req[s] PROVE ReqOK(req[s])'
  <2>1. \E x \in RequestStates : x = req[s]
    BY DEF IInv, TypeOK
  <2>2. PICK x \in RequestStates : x = req[s]
    BY <2>1
  <2>3. ReqOK(x)
    BY <2>2 DEF IInv
  <2>4. ReqOK(x)'
    BY <2>3, RequestKept DEF Evolves
  <2> QED BY <1>1, <2>2, <2>4, RequestIs
<1>2. ASSUME NEW p \in Payers, payer'[p] = payer[p] PROVE PayOK(payer[p])'
  <2>1. \E y \in PayerStates : y = payer[p]
    BY DEF IInv, TypeOK
  <2>2. PICK y \in PayerStates : y = payer[p]
    BY <2>1
  <2>3. PayOK(y)
    BY <2>2 DEF IInv
  <2>4. PayOK(y)'
    BY <2>3, PayerKept DEF Evolves
  <2> QED BY <1>2, <2>2, <2>4, PayerIs
<1> QED BY <1>1, <1>2

LEMMA OneRequest ==
  ASSUME IInv, Evolves, DrawsOK', GuardOK',
         draws' \in [DrawIds -> Docs \cup {None}], entitlement' \in Entitlements \cup {None},
         NEW r \in Requests, NEW q \in RequestStates, ReqOK(q)',
         req' = [req EXCEPT ![r] = q], available' \subseteq Nfts,
         UNCHANGED <<time, transfer, old, payer>>
  PROVE  IInv'
<1>1. TypeOK'
  BY DEF IInv, TypeOK
<1>2. req'[r] = q /\ \A s \in Requests \ {r} : req'[s] = req[s]
  BY DEF IInv, TypeOK
<1>3. \A s \in Requests : ReqOK(req[s])'
  BY <1>2, RequestIs, OthersKept
<1>4. \A p \in Payers : PayOK(payer[p])'
  BY OthersKept
<1> QED BY <1>1, <1>3, <1>4 DEF IInv

LEMMA OnePayer ==
  ASSUME IInv, Evolves, DrawsOK', GuardOK',
         draws' \in [DrawIds -> Docs \cup {None}], entitlement' \in Entitlements \cup {None},
         transfer' \in [DrawIds -> TransferStates],
         NEW p \in Payers, NEW y \in PayerStates, PayOK(y)',
         payer' = [payer EXCEPT ![p] = y],
         UNCHANGED <<time, available, old, req>>
  PROVE  IInv'
<1>1. TypeOK'
  BY DEF IInv, TypeOK
<1>2. payer'[p] = y /\ \A u \in Payers \ {p} : payer'[u] = payer[u]
  BY DEF IInv, TypeOK
<1>3. \A s \in Requests : ReqOK(req[s])'
  BY OthersKept
<1>4. \A u \in Payers : PayOK(payer[u])'
  BY <1>2, PayerIs, OthersKept
<1> QED BY <1>1, <1>3, <1>4 DEF IInv

\* Neither request nor payout worker steps.
LEMMA NoProcess ==
  ASSUME IInv, Evolves, DrawsOK', GuardOK', TypeOK', UNCHANGED <<req, payer>>
  PROVE  IInv'
<1>1. /\ \A s \in Requests : ReqOK(req[s])'
      /\ \A p \in Payers : PayOK(payer[p])'
  BY OthersKept
<1> QED BY <1>1 DEF IInv

\* The stores stay.
LEMMA StoresStay ==
  ASSUME IInv, UNCHANGED <<draws, entitlement, transfer, old>>
  PROVE  Evolves /\ DrawsOK' /\ GuardOK'
<1>1. Evolves
  BY DEF Evolves, DrawsGrow, NewDrawsGuarded, GuardMoves, SameGeneration, PaidStays
<1>2. DrawsOK' /\ GuardOK'
  BY DEF IInv, DrawsOK, DrawOK, OldOK, GuardOK, ActiveOK
<1> QED BY <1>1, <1>2

LEMMA RequestOnly ==
  ASSUME IInv, NEW r \in Requests, NEW q \in RequestStates, ReqOK(q),
         req' = [req EXCEPT ![r] = q], available' \subseteq Nfts,
         UNCHANGED <<time, draws, entitlement, transfer, old, payer>>
  PROVE  IInv' /\ Evolves
<1>1. Evolves /\ DrawsOK' /\ GuardOK'
  BY StoresStay
<1>2. ReqOK(q)'
  BY <1>1, RequestKept DEF Evolves
<1> QED BY <1>1, <1>2, OneRequest DEF IInv, TypeOK

LEMMA PayerOnly ==
  ASSUME IInv, NEW p \in Payers, NEW y \in PayerStates, PayOK(y),
         payer' = [payer EXCEPT ![p] = y],
         UNCHANGED <<time, available, draws, entitlement, transfer, old, req>>
  PROVE  IInv' /\ Evolves
<1>1. Evolves /\ DrawsOK' /\ GuardOK'
  BY StoresStay
<1>2. PayOK(y)'
  BY <1>1, PayerKept DEF Evolves
<1> QED BY <1>1, <1>2, OnePayer DEF IInv, TypeOK

LEMMA Idle ==
  /\ NoRequest \in RequestStates /\ ReqOK(NoRequest) /\ ReqOK(NoRequest)'
  /\ NoPayout \in PayerStates /\ PayOK(NoPayout) /\ PayOK(NoPayout)'
<1>1. NoRequest \in RequestStates
  BY Numbers DEF NoRequest, RequestStates, RequestSteps
<1>2. NoPayout \in PayerStates
  BY DEF NoPayout, PayerStates, PayerSteps
<1>3. /\ NoRequest.step = "idle" /\ NoRequest.latest = None /\ NoRequest.doc = None
      /\ NoPayout.step = "idle"
  BY DEF NoRequest, NoPayout
<1> HIDE DEF NoRequest, NoPayout
<1>4. ReqOK(NoRequest) /\ ReqOK(NoRequest)'
  BY <1>3 DEF ReqOK, SeedOK, HoldOK, Holding, Materializing
<1>5. PayOK(NoPayout) /\ PayOK(NoPayout)'
  BY <1>3 DEF PayOK
<1> QED BY <1>1, <1>2, <1>4, <1>5

-----------------------------------------------------------------------------
(* The stores change.                                                      *)

\* A stored draw changes.
LEMMA DrawChanges ==
  ASSUME IInv, NEW d \in DrawIds, draws[d] # None, NEW new \in Docs,
         new.key = d, new.prize = draws[d].prize, new.time = draws[d].time,
         new.generation = draws[d].generation,
         draws[d].claimed = "yes" => new.claimed = "yes",
         draws[d].op => new.op,
         new = draws[d] \/ ~Incomplete(new),
         ~Incomplete(draws[d]) /\ draws[d].claimed = "yes" => new = draws[d],
         new.claimed = "yes" /\ new.op => transfer[d] = "paid",
         d \in old => ~new.op /\ SetAside(new),
         draws' = [draws EXCEPT ![d] = new], UNCHANGED <<entitlement, transfer, old>>
  PROVE  /\ Evolves /\ DrawsOK' /\ GuardOK'
         /\ draws' \in [DrawIds -> Docs \cup {None}]
         /\ draws'[d] = new
<1>1. draws \in [DrawIds -> Docs \cup {None}] /\ new # None
  BY DocTypes DEF IInv, TypeOK
<1>2. /\ draws' \in [DrawIds -> Docs \cup {None}]
      /\ draws'[d] = new
      /\ \A c \in DrawIds \ {d} : draws'[c] = draws[c]
  BY <1>1
<1>3. DrawsGrow
  BY <1>1, <1>2 DEF DrawsGrow
<1>4. NewDrawsGuarded
  BY <1>2 DEF NewDrawsGuarded
<1>5. GuardMoves /\ PaidStays
  BY DEF GuardMoves, SameGeneration, PaidStays
<1>6. ASSUME NEW c \in DrawIds PROVE DrawOK(c)'
  BY <1>1, <1>2 DEF IInv, DrawsOK, DrawOK
<1>7. ASSUME NEW c \in old PROVE OldOK(c)'
  <2>1. c \in DrawIds
    BY DEF IInv, TypeOK, DrawIds
  <2>2. CASE c = d
    <3>1. transfer[d] = "none" /\ ~new.op /\ SetAside(new)
      BY <1>7, <2>2 DEF IInv, DrawsOK, OldOK
    <3> QED BY <1>1, <1>2, <2>2, <3>1 DEF OldOK
  <2>3. CASE c # d
    BY <1>2, <1>7, <2>1, <2>3 DEF IInv, DrawsOK, OldOK
  <2> QED BY <2>2, <2>3
<1>8. GuardOK'
  <2>1. ASSUME entitlement # None, entitlement.active # None
        PROVE  ActiveOK(entitlement.active)'
    <3>1. entitlement.active.draw \in DrawIds /\ ActiveOK(entitlement.active)
      BY <2>1, GuardRanges, EntitlementTypes DEF IInv, GuardOK
    <3> QED BY <1>1, <1>2, <3>1 DEF ActiveOK
  <2>2. \A g \in Generations : draws[g] # None => draws'[g] # None
    BY <1>1, <1>2 DEF DrawIds
  <2> QED BY <2>1, <2>2 DEF IInv, GuardOK
<1> QED BY <1>2, <1>3, <1>4, <1>5, <1>6, <1>7, <1>8 DEF Evolves, DrawsOK

\* A draw is added.
LEMMA DrawAdded ==
  ASSUME IInv, NEW d \in DrawIds, draws[d] = None, NEW new \in Docs,
         new.key = d, new.claimed = "no",
         \/ d \in Swaps /\ new.generation = 0
         \/ /\ entitlement # None /\ entitlement.active # None
            /\ d \in Generations /\ d = entitlement.generation /\ new.generation = d
            /\ entitlement.active.status # "reserved"
            /\ new.prize = entitlement.active.prize /\ new.time = entitlement.active.time,
         draws' = [draws EXCEPT ![d] = new], UNCHANGED <<entitlement, transfer, old>>
  PROVE  /\ Evolves /\ DrawsOK' /\ GuardOK'
         /\ draws' \in [DrawIds -> Docs \cup {None}]
         /\ draws'[d] = new
<1>1. draws \in [DrawIds -> Docs \cup {None}] /\ new # None
  BY DocTypes DEF IInv, TypeOK
<1>2. /\ draws' \in [DrawIds -> Docs \cup {None}]
      /\ draws'[d] = new
      /\ \A c \in DrawIds \ {d} : draws'[c] = draws[c]
  BY <1>1
<1>3. DrawsGrow
  BY <1>2 DEF DrawsGrow
<1>4. NewDrawsGuarded
  <2>1. d \notin Swaps => entitlement.active.draw = d
    BY Numbers DEF IInv, GuardOK
  <2> QED BY <1>2, <2>1 DEF NewDrawsGuarded
<1>5. GuardMoves /\ PaidStays
  BY DEF GuardMoves, SameGeneration, PaidStays
<1>6. ASSUME NEW c \in DrawIds PROVE DrawOK(c)'
  <2>1. CASE c = d
    <3>1. d \in Swaps => d \notin Generations
      BY IdsAssumption
    <3>2. entitlement # None => entitlement.generation \in Nat
      BY GuardRanges DEF IInv
    <3> QED BY <1>2, <2>1, <3>1, <3>2, Numbers DEF DrawOK
  <2>2. CASE c # d
    BY <1>2, <2>2 DEF IInv, DrawsOK, DrawOK
  <2> QED BY <2>1, <2>2
<1>7. ASSUME NEW c \in old PROVE OldOK(c)'
  <2>1. c \in DrawIds /\ c # d
    BY DEF IInv, TypeOK, DrawIds, DrawsOK, OldOK
  <2> QED BY <1>2, <1>7, <2>1 DEF IInv, DrawsOK, OldOK
<1>8. GuardOK'
  <2>1. ASSUME entitlement # None, entitlement.active # None
        PROVE  ActiveOK(entitlement.active)'
    <3>1. entitlement.active.draw \in DrawIds /\ ActiveOK(entitlement.active)
      BY <2>1, GuardRanges, EntitlementTypes DEF IInv, GuardOK
    <3>2. CASE entitlement.active.draw # d
      BY <1>2, <3>1, <3>2 DEF ActiveOK
    <3>3. CASE entitlement.active.draw = d
      <4>1. d \notin Swaps
        <5>1. entitlement.active.draw \in Generations \cup Legacy
          BY <2>1, GuardRanges, EntitlementTypes, Numbers DEF IInv, GuardOK
        <5> QED BY <3>3, <5>1, IdsAssumption
      <4>2. /\ entitlement.active.status \in {"prepared"}
            /\ new.prize = entitlement.active.prize
        BY <3>1, <3>3, <4>1, GuardRanges, EntitlementTypes DEF IInv, ActiveOK, EntitlementStatus
      <4> QED BY <1>2, <3>1, <3>3, <4>2 DEF ActiveOK
    <3> QED BY <3>2, <3>3
  <2>2. \A g \in Generations : draws[g] # None => draws'[g] # None
    BY <1>1, <1>2 DEF DrawIds
  <2> QED BY <2>1, <2>2 DEF IInv, GuardOK
<1> QED BY <1>2, <1>3, <1>4, <1>5, <1>6, <1>7, <1>8 DEF Evolves, DrawsOK

\* The entitlement changes.
LEMMA GuardChanges ==
  ASSUME IInv, GuardMoves, entitlement' \in Entitlements, UNCHANGED <<draws, transfer, old>>
  PROVE  Evolves /\ DrawsOK'
<1>1. Evolves
  BY DEF Evolves, DrawsGrow, NewDrawsGuarded, PaidStays
<1>2. ASSUME NEW d \in DrawIds PROVE DrawOK(d)'
  <2>1. ASSUME d \in Generations, draws[d] # None
        PROVE  entitlement' # None /\ d <= entitlement'.generation
    <3>1. /\ entitlement # None /\ d <= entitlement.generation
          /\ entitlement.generation \in Nat /\ d \in Nat
      BY <2>1, GuardRanges, Numbers DEF IInv, DrawsOK, DrawOK
    <3>2. /\ entitlement' # None
          /\ \/ entitlement'.generation = entitlement.generation
             \/ entitlement'.generation = entitlement.generation + 1
      BY <3>1 DEF GuardMoves, SameGeneration, NextGeneration
    <3> QED BY <3>1, <3>2
  <2> QED BY <2>1 DEF IInv, DrawsOK, DrawOK
<1>3. ASSUME NEW d \in old PROVE OldOK(d)'
  BY <1>3 DEF IInv, DrawsOK, OldOK
<1> QED BY <1>1, <1>2, <1>3 DEF DrawsOK

\* The status of the entitlement changes.
LEMMA StatusChanges ==
  ASSUME IInv, entitlement # None, entitlement.active # None,
         NEW status \in EntitlementStatus \ {"reserved", "prepared"},
         entitlement.active.status \in Settled => status = entitlement.active.status,
         draws[entitlement.active.draw] # None,
         status = "confirmed" => draws[entitlement.active.draw].claimed = "yes",
         status = "no_prize" => entitlement.active.prize = None,
         status = "materialized" => entitlement.active.prize # None,
         entitlement.generation # 0 \/ status \in {"confirmed", "no_prize", "unresolved"},
         entitlement' = [entitlement EXCEPT !.active.status = status],
         UNCHANGED <<draws, transfer, old>>
  PROVE  /\ Evolves /\ DrawsOK' /\ GuardOK' /\ entitlement' \in Entitlements
         /\ SameGeneration
<1>1. /\ entitlement \in Entitlements /\ entitlement.active \in Actives
      /\ ActiveOK(entitlement.active)
  BY GuardRanges, EntitlementTypes DEF IInv, GuardOK
<1>2. /\ entitlement' \in Entitlements
      /\ entitlement'.generation = entitlement.generation
      /\ entitlement'.eligible = entitlement.eligible
      /\ entitlement'.active \in Actives
      /\ entitlement'.active.draw = entitlement.active.draw
      /\ entitlement'.active.time = entitlement.active.time
      /\ entitlement'.active.prize = entitlement.active.prize
      /\ entitlement'.active.status = status
      /\ status = entitlement.active.status => entitlement'.active = entitlement.active
  BY <1>1 DEF Entitlements, Actives
<1>3. entitlement' # None /\ entitlement'.active # None
  BY <1>2, NoneAssumption
<1>4. SameGeneration
  BY <1>2, <1>3 DEF SameGeneration, Settled
<1>5. GuardMoves
  BY <1>3, <1>4 DEF GuardMoves
<1>6. Evolves /\ DrawsOK'
  BY <1>2, <1>5, GuardChanges
<1>7. GuardOK'
  <2>1. ActiveOK(entitlement.active)'
    BY <1>1, <1>2 DEF ActiveOK
  <2> QED BY <1>1, <1>2, <1>3, <2>1 DEF IInv, GuardOK
<1> QED BY <1>2, <1>4, <1>6, <1>7

-----------------------------------------------------------------------------
(* The steps of a request.                                                 *)

LEMMA StoredIsCopy ==
  ASSUME IInv, NEW d \in DrawIds, draws[d] # None
  PROVE  draws[d] \in Docs /\ draws[d].key = d /\ CopyOK(draws[d])
<1>1. draws[d] \in Docs /\ draws[d].key = d
  BY DEF IInv, TypeOK, DrawsOK, DrawOK
<1> QED BY <1>1 DEF CopyOK

LEMMA StakingIsCopy ==
  ASSUME IInv, NEW doc \in StakingDraws
  PROVE  doc \in Docs /\ CopyOK(doc) /\ doc.key \notin Swaps
<1>1. PICK d \in DrawIds : draws[d] # None /\ doc = draws[d]
  BY DEF StakingDraws, Stored
<1> QED BY <1>1, StoredIsCopy DEF StakingDraws

LEMMA RequestHere ==
  ASSUME IInv, NEW r \in Requests
  PROVE  req[r] \in RequestStates /\ ReqOK(req[r])
  BY DEF IInv, TypeOK

\* A request ends.
LEMMA Replies ==
  ASSUME IInv, NEW r \in Requests, Reply(r), UNCHANGED store
  PROVE  IInv' /\ Evolves
<1>1. req' = [req EXCEPT ![r] = NoRequest] /\ UNCHANGED <<time, transfer, old, payer>>
  BY DEF Reply, RequestGoes
<1> QED BY <1>1, Idle, RequestOnly DEF store, IInv, TypeOK

\* A request ends with a change of the stores.
LEMMA RepliesAfter ==
  ASSUME IInv, Evolves, DrawsOK', GuardOK',
         draws' \in [DrawIds -> Docs \cup {None}], entitlement' \in Entitlements \cup {None},
         NEW r \in Requests, Reply(r), UNCHANGED available
  PROVE  IInv'
<1>1. req' = [req EXCEPT ![r] = NoRequest] /\ UNCHANGED <<time, transfer, old, payer>>
  BY DEF Reply, RequestGoes
<1> QED BY <1>1, Idle, OneRequest DEF IInv, TypeOK

LEMMA StartOK ==
  ASSUME IInv, NEW r \in Requests, Start(r)
  PROVE  IInv' /\ Evolves
<1> DEFINE q == [NoRequest EXCEPT !.step = FirstStep, !.now = time, !.stock = available]
<1>1. FirstStep \in {"claim", "latest"} /\ (FirstStep = "claim" => entitlement # None)
  BY DEF FirstStep
<1>2. /\ q \in RequestStates /\ q.step = FirstStep
      /\ q.latest = None /\ q.doc = None
  BY <1>1, Numbers DEF NoRequest, RequestStates, RequestSteps, IInv, TypeOK
<1>3. /\ req' = [req EXCEPT ![r] = q]
      /\ UNCHANGED <<time, available, draws, entitlement, transfer, old, payer>>
  BY DEF Start, RequestGoes, store
<1> HIDE DEF q
<1>4. ReqOK(q)
  BY <1>1, <1>2 DEF ReqOK, SeedOK, HoldOK, Holding, Materializing
<1> QED BY <1>2, <1>3, <1>4, RequestOnly DEF IInv, TypeOK

LEMMA SeedLatestOK ==
  ASSUME IInv, NEW r \in Requests, SeedLatest(r)
  PROVE  IInv' /\ Evolves
<1>1. req[r] \in RequestStates /\ ReqOK(req[r]) /\ req[r].step = "latest"
  BY RequestHere DEF SeedLatest
<1>2. ASSUME NEW doc \in StakingDraws,
             RequestGoes(r, [req[r] EXCEPT !.step = "outstanding", !.latest = doc]),
             UNCHANGED store
      PROVE  IInv' /\ Evolves
  <2> DEFINE q == [req[r] EXCEPT !.step = "outstanding", !.latest = doc]
  <2>1. doc \in Docs /\ CopyOK(doc) /\ doc.key \notin Swaps /\ doc # None
    BY StakingIsCopy, DocTypes
  <2>2. /\ q \in RequestStates /\ q.step = "outstanding"
        /\ q.latest = doc /\ q.doc = req[r].doc
    BY <1>1, <2>1 DEF RequestStates, RequestSteps
  <2>3. /\ req' = [req EXCEPT ![r] = q]
        /\ UNCHANGED <<time, available, draws, entitlement, transfer, old, payer>>
    BY <1>2 DEF RequestGoes, store
  <2> HIDE DEF q
  <2>4. ReqOK(q)
    BY <1>1, <2>1, <2>2 DEF ReqOK, SeedOK, HoldOK, Holding, Materializing
  <2> QED BY <2>2, <2>3, <2>4, RequestOnly DEF IInv, TypeOK
<1>3. ASSUME RequestGoes(r, [req[r] EXCEPT !.step = "seed"]), UNCHANGED store
      PROVE  IInv' /\ Evolves
  <2> DEFINE q == [req[r] EXCEPT !.step = "seed"]
  <2>2. /\ q \in RequestStates /\ q.step = "seed"
        /\ q.latest = req[r].latest /\ q.doc = req[r].doc
    BY <1>1 DEF RequestStates, RequestSteps
  <2>3. /\ req' = [req EXCEPT ![r] = q]
        /\ UNCHANGED <<time, available, draws, entitlement, transfer, old, payer>>
    BY <1>3 DEF RequestGoes, store
  <2> HIDE DEF q
  <2>4. ReqOK(q)
    BY <1>1, <2>2 DEF ReqOK, SeedOK, HoldOK, Holding, Materializing
  <2> QED BY <2>2, <2>3, <2>4, RequestOnly DEF IInv, TypeOK
<1> QED BY <1>2, <1>3 DEF SeedLatest

LEMMA SeedOutstandingOK ==
  ASSUME IInv, NEW r \in Requests, SeedOutstanding(r)
  PROVE  IInv' /\ Evolves
<1>1. /\ req[r] \in RequestStates /\ ReqOK(req[r]) /\ req[r].step = "outstanding"
      /\ UNCHANGED store
  BY RequestHere DEF SeedOutstanding
<1>2. PICK doc \in StakingDraws \cup {req[r].latest} :
        RequestGoes(r, [req[r] EXCEPT !.doc = doc,
                                      !.step = IF Incomplete(doc) THEN "backfill" ELSE "seed"])
  BY DEF SeedOutstanding
<1>3. req[r].latest # None /\ CopyOK(req[r].latest) /\ req[r].latest.key \notin Swaps
  BY <1>1 DEF ReqOK, SeedOK
<1>4. CopyOK(doc) /\ doc.key \notin Swaps
  BY <1>3, StakingIsCopy
<1>5. doc \in Docs /\ doc # None
  BY <1>4, DocTypes DEF CopyOK
<1> DEFINE q == [req[r] EXCEPT !.doc = doc,
                               !.step = IF Incomplete(doc) THEN "backfill" ELSE "seed"]
<1>6. /\ q \in RequestStates
      /\ q.step = IF Incomplete(doc) THEN "backfill" ELSE "seed"
      /\ q.latest = req[r].latest /\ q.doc = doc
  BY <1>1, <1>5 DEF RequestStates, RequestSteps
<1>7. /\ req' = [req EXCEPT ![r] = q]
      /\ UNCHANGED <<time, available, draws, entitlement, transfer, old, payer>>
  BY <1>1, <1>2 DEF RequestGoes, store
<1> HIDE DEF q
<1>8. /\ q.step \in {"backfill", "seed"}
      /\ q.step = "backfill" => Incomplete(q.doc)
  BY <1>6
<1>9. ReqOK(q)
  BY <1>3, <1>4, <1>5, <1>6, <1>8 DEF ReqOK, SeedOK, HoldOK, Holding, Materializing
<1> QED BY <1>6, <1>7, <1>9, RequestOnly DEF IInv, TypeOK

\* The migration of a draw, by a request or by a payout worker.
LEMMA BackfillStores ==
  ASSUME IInv, NEW doc, CopyOK(doc), Incomplete(doc), NEW new, new = Backfilled(doc),
         draws' = [draws EXCEPT ![new.key] = new], UNCHANGED <<entitlement, transfer, old>>
  PROVE  /\ Evolves /\ DrawsOK' /\ GuardOK'
         /\ draws' \in [DrawIds -> Docs \cup {None}]
         /\ new \in Docs /\ new # None /\ new.key = doc.key /\ draws'[doc.key] = new
         /\ new.prize = doc.prize /\ new.time = doc.time /\ ~Incomplete(new)
         /\ CopyOK(new)'
<1> DEFINE now == draws[doc.key]
<1>1. /\ doc \in Docs /\ doc.key \in DrawIds /\ now # None
      /\ now.prize = doc.prize /\ now.time = doc.time /\ now.generation = doc.generation
      /\ now = doc \/ ~Incomplete(now)
  BY DocTypes DEF CopyOK
<1>2. now \in Docs /\ now.key = doc.key
  BY <1>1, StoredIsCopy
<1>3. \/ new = now /\ ~Incomplete(now)
      \/ new = Migrated(now) /\ Incomplete(now)
  <2>1. CASE SameIdentity(now, doc)
    <3>1. Incomplete(now)
      BY <2>1 DEF SameIdentity, Incomplete
    <3> QED BY <1>1, <2>1, <3>1 DEF Backfilled
  <2>2. CASE ~SameIdentity(now, doc)
    <3>1. now # doc
      BY <2>2 DEF SameIdentity
    <3> QED BY <1>1, <2>2, <3>1 DEF Backfilled
  <2> QED BY <2>1, <2>2
<1> HIDE DEF now
<1>4. /\ new \in Docs /\ ~Incomplete(new)
      /\ new.key = doc.key /\ new.prize = now.prize
      /\ new.time = now.time /\ new.generation = now.generation
      /\ new.op = now.op
      /\ new.claimed = "yes" <=> now.claimed = "yes"
      /\ new = now \/ (Incomplete(now) /\ (~now.op => SetAside(new)))
  BY <1>2, <1>3, MigratedDoc
<1>5. new.claimed = "yes" /\ new.op => transfer[doc.key] = "paid"
  BY <1>1, <1>4 DEF now, IInv, DrawsOK, DrawOK
<1>6. doc.key \in old => ~new.op /\ SetAside(new)
  <2>1. doc.key \in old => ~now.op /\ SetAside(now)
    BY DEF now, IInv, DrawsOK, OldOK
  <2> QED BY <1>4, <2>1
<1>7. ~Incomplete(now) /\ now.claimed = "yes" => new = now
  BY <1>4
<1>8. /\ Evolves /\ DrawsOK' /\ GuardOK'
      /\ draws' \in [DrawIds -> Docs \cup {None}]
      /\ draws'[doc.key] = new
  BY <1>1, <1>4, <1>5, <1>6, <1>7, DrawChanges DEF now
<1>9. CopyOK(new)'
  <2>1. new.key' = new.key /\ draws'[new.key] = new
    BY <1>4, <1>8
  <2>2. new # None
    BY <1>4, DocTypes
  <2> QED BY <1>4, <2>1, <2>2 DEF CopyOK
<1> QED BY <1>1, <1>4, <1>8, <1>9, DocTypes

LEMMA SeedBackfillOK ==
  ASSUME IInv, NEW r \in Requests, SeedBackfill(r)
  PROVE  IInv' /\ Evolves
<1>1. /\ req[r] \in RequestStates /\ ReqOK(req[r]) /\ req[r].step = "backfill"
      /\ UNCHANGED <<available, entitlement>>
  BY RequestHere DEF SeedBackfill
<1>2. PICK new : /\ new = Backfilled(req[r].doc)
                 /\ draws' = [draws EXCEPT ![new.key] = new]
                 /\ RequestGoes(r, [req[r] EXCEPT !.step = "seed", !.doc = new])
  BY DEF SeedBackfill
<1>3. PICK doc : doc = req[r].doc
  OBVIOUS
<1>4. CopyOK(doc) /\ Incomplete(doc) /\ doc.key \notin Swaps /\ req[r].latest # None
  BY <1>1, <1>3 DEF ReqOK, SeedOK
<1>5. UNCHANGED <<time, transfer, old, payer>>
  BY <1>2 DEF RequestGoes
<1>6. /\ Evolves /\ DrawsOK' /\ GuardOK'
      /\ draws' \in [DrawIds -> Docs \cup {None}]
      /\ new \in Docs /\ new # None /\ new.key = doc.key
      /\ CopyOK(new)'
  BY <1>1, <1>2, <1>3, <1>4, <1>5, BackfillStores
<1>7. PICK q : q = [req[r] EXCEPT !.step = "seed", !.doc = new]
  OBVIOUS
<1>8. q \in RequestStates /\ q.step = "seed" /\ q.latest = req[r].latest /\ q.doc = new
  BY <1>1, <1>6, <1>7 DEF RequestStates, RequestSteps
<1>9. PICK latest : latest = req[r].latest
  OBVIOUS
<1>10. CopyOK(latest)' /\ latest.key \notin Swaps /\ latest # None
  <2>1. CopyOK(latest) /\ latest.key \notin Swaps /\ latest # None
    BY <1>1, <1>4, <1>9 DEF ReqOK, SeedOK
  <2> QED BY <1>6, <2>1, CopyKept DEF Evolves
<1>11. ReqOK(q)'
  BY <1>4, <1>6, <1>8, <1>9, <1>10 DEF ReqOK, SeedOK, HoldOK, Holding, Materializing
<1>12. req' = [req EXCEPT ![r] = q]
  BY <1>2, <1>7 DEF RequestGoes
<1> QED BY <1>1, <1>5, <1>6, <1>8, <1>11, <1>12, OneRequest DEF IInv, TypeOK

LEMMA SeedInsertOK ==
  ASSUME IInv, NEW r \in Requests, SeedInsert(r)
  PROVE  IInv' /\ Evolves
<1>1. /\ req[r] \in RequestStates /\ ReqOK(req[r]) /\ req[r].step = "seed"
      /\ UNCHANGED <<available, draws, time, transfer, old, payer>>
      /\ entitlement' = IF entitlement = None
                        THEN Seed(req[r].latest, req[r].doc, req[r].now) ELSE entitlement
  BY RequestHere DEF SeedInsert, RequestGoes
<1>2. PICK q : q = [req[r] EXCEPT !.step = "claim", !.latest = None, !.doc = None]
  OBVIOUS
<1>3. q \in RequestStates /\ q.step = "claim" /\ q.latest = None /\ q.doc = None
  BY <1>1, <1>2 DEF RequestStates, RequestSteps
<1>4. req' = [req EXCEPT ![r] = q]
  BY <1>2 DEF SeedInsert, RequestGoes
<1>5. ASSUME Evolves, DrawsOK', GuardOK', entitlement' \in Entitlements
      PROVE  IInv' /\ Evolves
  <2>1. entitlement' # None
    BY <1>5, NoneAssumption
  <2>2. ReqOK(q)'
    BY <1>3, <2>1 DEF ReqOK, SeedOK, HoldOK, Holding, Materializing
  <2> QED BY <1>1, <1>3, <1>4, <1>5, <2>2, OneRequest DEF IInv, TypeOK
<1>6. CASE entitlement # None
  <2>1. entitlement' = entitlement /\ entitlement \in Entitlements
    BY <1>1, <1>6 DEF IInv, TypeOK
  <2> QED BY <1>1, <1>5, <2>1, StoresStay
<1>7. CASE entitlement = None
  <2>1. entitlement' = Seed(req[r].latest, req[r].doc, req[r].now)
    BY <1>1, <1>7
  <2>2. GuardMoves
    BY <1>7 DEF GuardMoves
  <2>3. PICK doc, latest, now : doc = req[r].doc /\ latest = req[r].latest /\ now = req[r].now
    OBVIOUS
  <2>4. now \in Times /\ now \in Nat /\ now <= MaxTime
    BY <1>1, <2>3, Numbers DEF RequestStates, Times
  <2>5. CASE doc = None
    <3>1. entitlement' = [generation |-> 0, eligible |-> 0, active |-> None]
      BY <2>1, <2>3, <2>5 DEF Seed
    <3>2. entitlement' \in Entitlements
      BY <3>1, Numbers DEF Entitlements
    <3>3. GuardOK'
      BY <3>1, Numbers DEF GuardOK
    <3> QED BY <1>1, <1>5, <2>2, <3>2, <3>3, GuardChanges
  <2>6. CASE doc # None
    <3>1. /\ CopyOK(doc) /\ doc.key \notin Swaps /\ latest # None /\ CopyOK(latest)
      BY <1>1, <2>3, <2>6 DEF ReqOK, SeedOK
    <3>2. /\ doc \in Docs /\ doc.key \in DrawIds /\ doc.prize \in Prizes
          /\ doc.time \in Times \cup {None} /\ latest.time \in Times \cup {None}
      BY <3>1, DocTypes DEF CopyOK
    <3>3. doc.key \in Legacy
      <4>1. doc.key \notin Generations
        BY <1>7, <3>1, <3>2 DEF CopyOK, IInv, DrawsOK, DrawOK
      <4> QED BY <3>1, <3>2, <4>1 DEF DrawIds
    <3> DEFINE valid == doc.time # None /\ latest.time # None
               at == IF valid THEN doc.time ELSE now
               eligible == (IF valid THEN latest.time ELSE now) + Interval
               status == IF valid THEN SeedStatus(doc) ELSE "unresolved"
               active == [draw |-> doc.key, time |-> at, prize |-> doc.prize, status |-> status]
    <3>4. entitlement' = [generation |-> 0, eligible |-> eligible, active |-> active]
      BY <2>1, <2>3, <2>6 DEF Seed
    <3>5. at \in Times /\ eligible \in 0 .. MaxTime + Interval
      BY <2>4, <3>2, Numbers DEF Times
    <3>6. /\ status \in {"confirmed", "no_prize", "unresolved"}
          /\ status = "confirmed" => doc.claimed = "yes"
          /\ status = "no_prize" => doc.prize = None
      BY DEF SeedStatus
    <3> HIDE DEF at, eligible, status
    <3>7. active \in Actives /\ active # None
      BY <3>2, <3>5, <3>6, NoneAssumption DEF Actives, EntitlementStatus
    <3>8. entitlement' \in Entitlements
      BY <3>4, <3>5, <3>7 DEF Entitlements
    <3>9. ActiveOK(active)'
      <4>1. /\ draws'[doc.key] # None /\ draws'[doc.key].prize = doc.prize
            /\ doc.claimed = "yes" => draws'[doc.key].claimed = "yes"
        BY <1>1, <3>1 DEF CopyOK
      <4> QED BY <3>6, <4>1 DEF ActiveOK
    <3>10. /\ entitlement'.generation = 0 /\ entitlement'.eligible = eligible
           /\ entitlement'.active = active /\ active.draw = doc.key /\ active.status = status
      BY <3>4
    <3> HIDE DEF active
    <3>11. GuardOK'
      <4>1. ActiveOK(entitlement.active)'
        BY <3>9, <3>10 DEF ActiveOK
      <4>2. 0 <= eligible /\ ~\E g \in Generations : g < 0
        BY <3>5, Numbers DEF Generations
      <4> QED BY <3>3, <3>6, <3>7, <3>10, <4>1, <4>2 DEF GuardOK
    <3> QED BY <1>1, <1>5, <2>2, <3>8, <3>11, GuardChanges
  <2> QED BY <2>5, <2>6
<1> QED BY <1>6, <1>7

\* The next generation is reserved.
LEMMA ReserveStores ==
  ASSUME IInv, NEW now \in Times, entitlement # None, Claimable(now), NEW new,
         new = [generation |-> entitlement.generation + 1, eligible |-> now + Interval,
                active |-> [draw |-> entitlement.generation + 1, time |-> now, prize |-> None,
                            status |-> "reserved"]],
         entitlement' = new, UNCHANGED <<draws, transfer, old>>
  PROVE  /\ Evolves /\ DrawsOK' /\ GuardOK' /\ entitlement' \in Entitlements
         /\ new.active # None /\ new.active.status = "reserved"
         /\ new.generation # 0 /\ new.active.draw = new.generation
         /\ new.generation \in Nat
<1>1. PICK g : g = entitlement.generation + 1
  OBVIOUS
<1>2. /\ entitlement \in Entitlements /\ entitlement.generation \in Nat
      /\ entitlement.eligible \in Nat /\ entitlement.generation <= entitlement.eligible
      /\ entitlement.eligible <= now /\ now \in Nat /\ now <= MaxTime
  BY GuardRanges, EntitlementTypes, Numbers DEF IInv, GuardOK, Claimable, Times
<1>3. g \in Generations /\ g \in Nat /\ g # 0 /\ g \in DrawIds
  BY <1>1, <1>2, Numbers DEF Generations, DrawIds
<1>4. PICK active : active = [draw |-> g, time |-> now, prize |-> None, status |-> "reserved"]
  OBVIOUS
<1>5. /\ active \in Actives /\ active # None /\ active.draw = g
      /\ active.time = now /\ active.prize = None /\ active.status = "reserved"
  BY <1>3, <1>4, NoneAssumption DEF Actives, Prizes, EntitlementStatus
<1>6. new = [generation |-> g, eligible |-> now + Interval, active |-> active]
  BY <1>1, <1>4
<1>7. now + Interval \in 0 .. MaxTime + Interval
  BY <1>2, Numbers
<1>8. /\ new \in Entitlements /\ new # None
      /\ new.generation = g /\ new.eligible = now + Interval /\ new.active = active
  BY <1>3, <1>5, <1>6, <1>7, NoneAssumption DEF Entitlements
<1>9. entitlement.active = None \/ entitlement.active.status \in Settled
  BY DEF Claimable, Settled
<1>10. NextGeneration
  BY <1>1, <1>2, <1>5, <1>8, <1>9 DEF NextGeneration
<1>11. GuardMoves
  BY <1>8, <1>10 DEF GuardMoves
<1>12. Evolves /\ DrawsOK'
  BY <1>8, <1>11, GuardChanges
<1>13. draws[g] = None
  BY <1>1, <1>2, <1>3 DEF IInv, DrawsOK, DrawOK
<1>14. ASSUME NEW f \in Generations, f < g PROVE draws[f] # None
  <2>1. CASE f < entitlement.generation
    BY <2>1 DEF IInv, GuardOK
  <2>2. CASE f = entitlement.generation
    <3>1. /\ entitlement.active # None /\ entitlement.active.draw = f
          /\ ActiveOK(entitlement.active)
      BY <2>2, Numbers DEF IInv, GuardOK
    <3> QED BY <1>9, <3>1 DEF ActiveOK, Settled
  <2> QED BY <1>1, <1>2, <1>14, <2>1, <2>2, Numbers
<1>15. ActiveOK(active)'
  BY <1>5, <1>13 DEF ActiveOK
<1>16. GuardOK'
  <2>1. ActiveOK(entitlement.active)'
    BY <1>8, <1>15 DEF ActiveOK
  <2>2. g <= now + Interval
    BY <1>1, <1>2, Numbers
  <2> QED BY <1>3, <1>5, <1>8, <1>14, <2>1, <2>2 DEF GuardOK
<1> QED BY <1>3, <1>5, <1>8, <1>12, <1>16

LEMMA ClaimNewOK ==
  ASSUME IInv, NEW r \in Requests, ClaimNew(r)
  PROVE  IInv' /\ Evolves
<1>1. /\ req[r] \in RequestStates /\ ReqOK(req[r]) /\ req[r].step = "claim"
      /\ Claimable(req[r].now) /\ UNCHANGED <<available, draws, time, transfer, old, payer>>
  BY RequestHere DEF ClaimNew, RequestGoes
<1>2. entitlement # None /\ req[r].now \in Times
  BY <1>1 DEF ReqOK, HoldOK, RequestStates
<1>3. PICK new :
        /\ new = [generation |-> entitlement.generation + 1, eligible |-> req[r].now + Interval,
                  active |-> [draw |-> entitlement.generation + 1, time |-> req[r].now,
                              prize |-> None, status |-> "reserved"]]
        /\ entitlement' = new
        /\ req' = [req EXCEPT ![r] = [req[r] EXCEPT !.step = "draw", !.entitlement = new]]
  BY DEF ClaimNew, RequestGoes
<1>4. /\ Evolves /\ DrawsOK' /\ GuardOK' /\ entitlement' \in Entitlements
      /\ new.active # None /\ new.active.status = "reserved"
      /\ new.generation # 0 /\ new.active.draw = new.generation
      /\ new.generation \in Nat
  BY <1>1, <1>2, <1>3, ReserveStores
<1>5. PICK q : q = [req[r] EXCEPT !.step = "draw", !.entitlement = new]
  OBVIOUS
<1>6. /\ q \in RequestStates /\ q.step = "draw" /\ q.entitlement = new
      /\ q.latest = req[r].latest /\ q.doc = req[r].doc
  BY <1>1, <1>3, <1>4, <1>5 DEF RequestStates, RequestSteps
<1>7. Knows(new)'
  BY <1>3, <1>4, NoneAssumption DEF Knows
<1>8. PICK s \in RequestStates : s = req[r]
  BY <1>1
<1>9. SeedOK(s)'
  BY <1>1, <1>4, <1>8, RequestKept DEF Evolves, ReqOK
<1>10. SeedOK(q)'
  BY <1>6, <1>8, <1>9 DEF SeedOK
<1>11. HoldOK(q)'
  BY <1>4, <1>6, <1>7 DEF HoldOK, Holding, Materializing
<1> QED BY <1>1, <1>3, <1>4, <1>5, <1>6, <1>10, <1>11, OneRequest DEF ReqOK, IInv, TypeOK

\* A request that only takes the next step, or a new copy of the entitlement.
LEMMA StepOnly ==
  ASSUME IInv, NEW r \in Requests, NEW step \in RequestSteps \ {"outstanding", "backfill"},
         NEW e \in Entitlements \cup {None}, NEW q,
         q = [req[r] EXCEPT !.step = step, !.entitlement = e],
         req' = [req EXCEPT ![r] = q], UNCHANGED <<time, transfer, old, payer>>,
         UNCHANGED <<available, draws, entitlement>>, HoldOK(q)
  PROVE  IInv' /\ Evolves
<1>1. req[r] \in RequestStates /\ ReqOK(req[r])
  BY RequestHere
<1>2. /\ q \in RequestStates /\ q.step = step
      /\ q.latest = req[r].latest /\ q.doc = req[r].doc
  BY <1>1 DEF RequestStates
<1>3. ReqOK(q)
  BY <1>1, <1>2 DEF ReqOK, SeedOK
<1> QED BY <1>2, <1>3, RequestOnly DEF IInv, TypeOK

LEMMA ClaimRefusedOK ==
  ASSUME IInv, NEW r \in Requests, ClaimRefused(r)
  PROVE  IInv' /\ Evolves
<1>1. req[r] \in RequestStates /\ ReqOK(req[r]) /\ req[r].step = "claim"
  BY RequestHere DEF ClaimRefused
<1>2. PICK q : q = [req[r] EXCEPT !.step = "read", !.entitlement = req[r].entitlement]
  OBVIOUS
<1>3. /\ q = [req[r] EXCEPT !.step = "read"] /\ q.step = "read"
      /\ req[r].entitlement \in Entitlements \cup {None}
  BY <1>1, <1>2 DEF RequestStates
<1>4. /\ req' = [req EXCEPT ![r] = q] /\ UNCHANGED <<time, transfer, old, payer>>
      /\ UNCHANGED <<available, draws, entitlement>>
  BY <1>3 DEF ClaimRefused, RequestGoes, store
<1>5. HoldOK(q)
  BY <1>1, <1>3 DEF ReqOK, HoldOK, Holding, Materializing
<1> QED BY <1>2, <1>3, <1>4, <1>5, StepOnly DEF RequestSteps

\* The stored entitlement is a copy of itself.
LEMMA KnownNow ==
  ASSUME IInv, entitlement # None, entitlement.active # None
  PROVE  Knows(entitlement)
<1>1. entitlement \in Entitlements /\ entitlement.generation \in Nat
  BY GuardRanges DEF IInv
<1> QED BY <1>1 DEF Knows, IInv, GuardOK

LEMMA ReadCurrentOK ==
  ASSUME IInv, NEW r \in Requests, ReadCurrent(r)
  PROVE  IInv' /\ Evolves
<1>1. /\ req[r] \in RequestStates /\ ReqOK(req[r]) /\ req[r].step = "read"
      /\ UNCHANGED store
  BY RequestHere DEF ReadCurrent
<1>2. entitlement # None
  BY <1>1 DEF ReqOK, HoldOK
<1>3. CASE Reply(r)
  BY <1>1, <1>3, Replies
<1>4. CASE ~Reply(r)
  <2>1. PICK step :
          /\ step = StepFor(entitlement.active.status)
          /\ entitlement.active # None /\ entitlement.active.status \notin {"confirmed", "no_prize"}
          /\ RequestGoes(r, [req[r] EXCEPT !.step = step, !.entitlement = entitlement])
    BY <1>4 DEF ReadCurrent
  <2>2. /\ entitlement.active # None
        /\ \/ step = "draw" /\ entitlement.active.status = "reserved"
           \/ step = "upsert" /\ entitlement.active.status = "prepared"
           \/ step = "lookup" /\ entitlement.active.status \in {"materialized", "unresolved"}
    <3>1. entitlement.active.status \in EntitlementStatus
      BY <1>2, <2>1, GuardRanges, EntitlementTypes DEF IInv
    <3> QED BY <2>1, <3>1 DEF StepFor, EntitlementStatus
  <2>3. PICK q : q = [req[r] EXCEPT !.step = step, !.entitlement = entitlement]
    OBVIOUS
  <2>4. q.step = step /\ q.entitlement = entitlement
    BY <1>1, <2>3 DEF RequestStates
  <2>5. /\ req' = [req EXCEPT ![r] = q] /\ UNCHANGED <<time, transfer, old, payer>>
        /\ UNCHANGED <<available, draws, entitlement>>
    BY <1>1, <2>1, <2>3 DEF RequestGoes, store
  <2>6. Knows(entitlement)
    BY <1>2, <2>2, KnownNow
  <2>7. step \in {"draw", "upsert"} => entitlement.generation # 0
    BY <1>2, <2>2 DEF IInv, GuardOK
  <2>8. HoldOK(q)
    BY <2>2, <2>4, <2>6, <2>7 DEF HoldOK, Holding, Materializing
  <2>9. entitlement \in Entitlements /\ step \in RequestSteps \ {"outstanding", "backfill"}
    BY <1>2, <2>2, GuardRanges DEF IInv, RequestSteps
  <2> QED BY <2>3, <2>5, <2>8, <2>9, StepOnly
<1> QED BY <1>3, <1>4

LEMMA LookupOK ==
  ASSUME IInv, NEW r \in Requests, LookupDraw(r)
  PROVE  IInv' /\ Evolves
<1>1. /\ req[r] \in RequestStates /\ ReqOK(req[r]) /\ req[r].step = "lookup"
      /\ UNCHANGED store
  BY RequestHere DEF LookupDraw
<1>2. CASE Reply(r)
  BY <1>1, <1>2, Replies
<1>3. CASE ~Reply(r)
  <2>1. /\ draws[req[r].entitlement.active.draw] # None
        /\ draws[req[r].entitlement.active.draw].claimed = "yes"
        /\ RequestGoes(r, [req[r] EXCEPT !.step = "repair"])
    BY <1>3 DEF LookupDraw
  <2>2. PICK q : q = [req[r] EXCEPT !.step = "repair", !.entitlement = req[r].entitlement]
    OBVIOUS
  <2>3. /\ q = [req[r] EXCEPT !.step = "repair"] /\ q.step = "repair"
        /\ q.entitlement = req[r].entitlement
        /\ req[r].entitlement \in Entitlements \cup {None}
    BY <1>1, <2>2 DEF RequestStates
  <2>4. /\ req' = [req EXCEPT ![r] = q] /\ UNCHANGED <<time, transfer, old, payer>>
        /\ UNCHANGED <<available, draws, entitlement>>
    BY <1>1, <2>1, <2>3 DEF RequestGoes, store
  <2>5. HoldOK(q)
    BY <1>1, <2>1, <2>3 DEF ReqOK, HoldOK, Holding, Materializing
  <2> QED BY <2>2, <2>3, <2>4, <2>5, StepOnly DEF RequestSteps
<1> QED BY <1>2, <1>3

\* The same, with a change of the stores.
LEMMA StepAfter ==
  ASSUME IInv, Evolves, DrawsOK', GuardOK',
         draws' \in [DrawIds -> Docs \cup {None}], entitlement' \in Entitlements \cup {None},
         NEW r \in Requests, NEW step \in RequestSteps \ {"outstanding", "backfill"},
         NEW e \in Entitlements \cup {None}, NEW q,
         q = [req[r] EXCEPT !.step = step, !.entitlement = e],
         req' = [req EXCEPT ![r] = q], UNCHANGED <<time, available, transfer, old, payer>>,
         HoldOK(q)'
  PROVE  IInv'
<1>1. req[r] \in RequestStates /\ ReqOK(req[r])
  BY RequestHere
<1>2. /\ q \in RequestStates /\ q.step = step
      /\ q.latest = req[r].latest /\ q.doc = req[r].doc
  BY <1>1 DEF RequestStates
<1>3. PICK s \in RequestStates : s = req[r]
  BY <1>1
<1>4. SeedOK(s)'
  BY <1>1, <1>3, RequestKept DEF Evolves, ReqOK
<1>5. SeedOK(q)'
  BY <1>2, <1>3, <1>4 DEF SeedOK
<1> QED BY <1>2, <1>5, OneRequest DEF ReqOK, IInv, TypeOK

LEMMA RepairOK ==
  ASSUME IInv, NEW r \in Requests, Repair(r)
  PROVE  IInv' /\ Evolves
<1>1. /\ req[r] \in RequestStates /\ ReqOK(req[r]) /\ req[r].step = "repair"
      /\ UNCHANGED <<available, draws, time, transfer, old, payer>>
  BY RequestHere DEF Repair, RequestGoes, Reply
<1>2. PICK e : e = req[r].entitlement
  OBVIOUS
<1>3. /\ Knows(e) /\ e.active.status \in {"materialized", "unresolved"}
      /\ draws[e.active.draw] # None /\ draws[e.active.draw].claimed = "yes"
  BY <1>1, <1>2 DEF ReqOK, HoldOK, Holding
<1>4. CASE StillAt(e)
  <2>1. /\ entitlement' = [entitlement EXCEPT !.active.status = "confirmed"]
        /\ RequestGoes(r, [req[r] EXCEPT !.step = FirstStep, !.entitlement = None])
    BY <1>2, <1>4 DEF Repair
  <2>2. /\ entitlement # None /\ entitlement.active # None
        /\ entitlement.active.draw = e.active.draw
        /\ entitlement.active.status \notin Settled
    BY <1>3, <1>4 DEF Knows, StillAt, Settled
  <2>3. Evolves /\ DrawsOK' /\ GuardOK' /\ entitlement' \in Entitlements
    BY <1>1, <1>3, <2>1, <2>2, StatusChanges DEF EntitlementStatus
  <2>4. PICK q : q = [req[r] EXCEPT !.step = FirstStep, !.entitlement = None]
    OBVIOUS
  <2>5. FirstStep \in {"claim", "latest"}
    BY DEF FirstStep
  <2>6. q.step = FirstStep
    BY <1>1, <2>4 DEF RequestStates
  <2>7. entitlement' # None
    BY <2>3, EntitlementTypes
  <2>8. HoldOK(q)'
    <3>1. q.step \in {"claim", "latest"}
      BY <2>5, <2>6
    <3> HIDE DEF FirstStep
    <3> QED BY <2>7, <3>1 DEF HoldOK, Holding, Materializing
  <2>9. req' = [req EXCEPT ![r] = q]
    BY <2>1, <2>4 DEF RequestGoes
  <2>10. FirstStep \in RequestSteps \ {"outstanding", "backfill"}
    BY <2>5 DEF RequestSteps
  <2>11. draws' \in [DrawIds -> Docs \cup {None}]
    BY <1>1 DEF IInv, TypeOK
  <2>12. PICK step : step = FirstStep
    OBVIOUS
  <2> QED BY <1>1, <2>3, <2>4, <2>8, <2>9, <2>10, <2>11, <2>12, StepAfter
<1>5. CASE ~StillAt(e)
  <2>1. Reply(r) /\ UNCHANGED store
    BY <1>1, <1>2, <1>5 DEF Repair, store
  <2> QED BY <2>1, Replies
<1> QED BY <1>4, <1>5

LEMMA DrawAgainOK ==
  ASSUME IInv, NEW r \in Requests, DrawAgain(r)
  PROVE  IInv' /\ Evolves
<1>1. req[r] \in RequestStates /\ ReqOK(req[r]) /\ UNCHANGED <<draws, entitlement>>
  BY RequestHere DEF DrawAgain
<1>2. PICK n \in req[r].stock :
        /\ available' = req[r].stock \ {n}
        /\ RequestGoes(r, [req[r] EXCEPT !.stock = @ \ {n}])
  BY DEF DrawAgain
<1>3. PICK q : q = [req[r] EXCEPT !.stock = @ \ {n}]
  OBVIOUS
<1>4. /\ q \in RequestStates /\ available' \subseteq Nfts
      /\ q.step = req[r].step /\ q.latest = req[r].latest /\ q.doc = req[r].doc
      /\ q.entitlement = req[r].entitlement
  BY <1>1, <1>2, <1>3 DEF RequestStates
<1>5. ReqOK(q)
  BY <1>1, <1>4 DEF ReqOK, SeedOK, HoldOK
<1>6. req' = [req EXCEPT ![r] = q] /\ UNCHANGED <<time, transfer, old, payer>>
  BY <1>2, <1>3 DEF RequestGoes
<1> QED BY <1>1, <1>4, <1>5, <1>6, RequestOnly

LEMMA ReservePrizeOK ==
  ASSUME IInv, NEW r \in Requests, ReservePrize(r)
  PROVE  IInv' /\ Evolves
<1>1. /\ req[r] \in RequestStates /\ ReqOK(req[r]) /\ req[r].step = "draw"
      /\ UNCHANGED <<available, draws, time, transfer, old, payer>>
  BY RequestHere DEF ReservePrize, RequestGoes
<1>2. PICK e : e = req[r].entitlement
  OBVIOUS
<1>3. /\ Knows(e) /\ e.active.status = "reserved" /\ e.generation # 0
      /\ e \in Entitlements
  BY <1>1, <1>2 DEF ReqOK, HoldOK, Holding, Materializing, Knows
<1>4. CASE StillUndrawn(e)
  <2>1. PICK prize, new :
          /\ prize \in req[r].stock \cup {None}
          /\ new = [entitlement EXCEPT !.active.prize = prize, !.active.status = "prepared"]
          /\ entitlement' = new
          /\ RequestGoes(r, [req[r] EXCEPT !.step = "upsert", !.entitlement = new])
    BY <1>2, <1>4 DEF ReservePrize
  <2>2. /\ entitlement # None /\ entitlement.active # None
        /\ entitlement.active.status = "reserved" /\ entitlement.generation # 0
        /\ entitlement \in Entitlements /\ entitlement.active \in Actives
        /\ entitlement.generation \in Nat /\ ActiveOK(entitlement.active)
    BY <1>3, <1>4, GuardRanges, EntitlementTypes
       DEF Knows, StillUndrawn, StillAt, IInv, GuardOK
  <2>3. prize \in Prizes
    BY <1>1, <2>1 DEF RequestStates, Prizes
  <2>4. /\ new \in Entitlements
        /\ new.generation = entitlement.generation /\ new.eligible = entitlement.eligible
        /\ new.active \in Actives
        /\ new.active.draw = entitlement.active.draw
        /\ new.active.time = entitlement.active.time
        /\ new.active.prize = prize /\ new.active.status = "prepared"
    BY <2>1, <2>2, <2>3 DEF Entitlements, Actives, EntitlementStatus
  <2>5. new # None /\ new.active # None
    BY <2>4, NoneAssumption
  <2>6. GuardMoves
    BY <2>1, <2>2, <2>4, <2>5 DEF GuardMoves, SameGeneration, Settled
  <2>7. Evolves /\ DrawsOK'
    BY <1>1, <2>1, <2>4, <2>6, GuardChanges
  <2>8. ActiveOK(new.active)'
    BY <1>1, <2>2, <2>4 DEF ActiveOK
  <2>9. GuardOK'
    <3>1. ActiveOK(entitlement.active)'
      BY <2>1, <2>8 DEF ActiveOK
    <3> QED BY <1>1, <2>1, <2>2, <2>4, <2>5, <3>1 DEF IInv, GuardOK
  <2>10. Knows(new)'
    BY <2>1, <2>2, <2>4, <2>5, <2>9 DEF Knows, GuardOK
  <2>11. PICK q : q = [req[r] EXCEPT !.step = "upsert", !.entitlement = new]
    OBVIOUS
  <2>12. q.step = "upsert" /\ q.entitlement = new
    BY <1>1, <2>11 DEF RequestStates
  <2>13. HoldOK(q)'
    BY <2>2, <2>4, <2>10, <2>12 DEF HoldOK, Holding, Materializing
  <2>14. req' = [req EXCEPT ![r] = q]
    BY <2>1, <2>11 DEF RequestGoes
  <2>15. draws' \in [DrawIds -> Docs \cup {None}]
    BY <1>1 DEF IInv, TypeOK
  <2> QED BY <1>1, <2>1, <2>4, <2>7, <2>9, <2>11, <2>13, <2>14, <2>15, StepAfter
          DEF RequestSteps
<1>5. CASE ~StillUndrawn(e)
  <2>1. /\ RequestGoes(r, [req[r] EXCEPT !.step = "reread"]) /\ UNCHANGED entitlement
    BY <1>2, <1>5 DEF ReservePrize
  <2>2. PICK q : q = [req[r] EXCEPT !.step = "reread", !.entitlement = e]
    OBVIOUS
  <2>3. q = [req[r] EXCEPT !.step = "reread"] /\ q.step = "reread" /\ q.entitlement = e
    BY <1>1, <1>2, <2>2 DEF RequestStates
  <2>4. HoldOK(q)
    BY <1>3, <2>3 DEF HoldOK, Holding, Materializing
  <2>5. req' = [req EXCEPT ![r] = q]
    BY <2>1, <2>3 DEF RequestGoes
  <2> QED BY <1>1, <1>3, <2>1, <2>2, <2>4, <2>5, StepOnly DEF RequestSteps
<1> QED BY <1>4, <1>5

LEMMA RereadOK ==
  ASSUME IInv, NEW r \in Requests, Reread(r)
  PROVE  IInv' /\ Evolves
<1>1. /\ req[r] \in RequestStates /\ ReqOK(req[r]) /\ req[r].step = "reread"
      /\ UNCHANGED store
  BY RequestHere DEF Reread
<1>2. CASE Reply(r)
  BY <1>1, <1>2, Replies
<1>3. CASE ~Reply(r)
  <2>1. /\ entitlement.active.status \in {"prepared", "materialized", "no_prize"}
        /\ RequestGoes(r, [req[r] EXCEPT !.step = "upsert", !.entitlement = entitlement])
    BY <1>3 DEF Reread
  <2>2. PICK e : e = req[r].entitlement
    OBVIOUS
  <2>3. Knows(e) /\ e.generation # 0 /\ e.generation \in Nat
    BY <1>1, <2>2, EntitlementTypes DEF ReqOK, HoldOK, Holding, Materializing, Knows
  <2>4. /\ entitlement # None /\ entitlement.generation # 0 /\ entitlement \in Entitlements
        /\ entitlement.active # None
    BY <2>3, GuardRanges DEF IInv, Knows, GuardOK
  <2>5. Knows(entitlement)
    BY <2>4, KnownNow
  <2>6. PICK q : q = [req[r] EXCEPT !.step = "upsert", !.entitlement = entitlement]
    OBVIOUS
  <2>7. q.step = "upsert" /\ q.entitlement = entitlement
    BY <1>1, <2>6 DEF RequestStates
  <2>8. HoldOK(q)
    BY <2>1, <2>4, <2>5, <2>7 DEF HoldOK, Holding, Materializing
  <2>9. /\ req' = [req EXCEPT ![r] = q] /\ UNCHANGED <<time, transfer, old, payer>>
        /\ UNCHANGED <<available, draws, entitlement>>
    BY <1>1, <2>1, <2>6 DEF RequestGoes, store
  <2> QED BY <2>4, <2>6, <2>8, <2>9, StepOnly DEF RequestSteps
<1> QED BY <1>2, <1>3

LEMMA UpsertDrawOK ==
  ASSUME IInv, NEW r \in Requests, UpsertDraw(r)
  PROVE  IInv' /\ Evolves
<1>1. /\ req[r] \in RequestStates /\ ReqOK(req[r]) /\ req[r].step = "upsert"
      /\ UNCHANGED <<available, entitlement, time, transfer, old, payer>>
  BY RequestHere DEF UpsertDraw, RequestGoes, Reply
<1>2. PICK e : e = req[r].entitlement
  OBVIOUS
<1>3. /\ Knows(e) /\ e.active.status \in {"prepared", "materialized", "no_prize"}
      /\ e.generation # 0 /\ e.active.draw = e.generation
      /\ e \in Entitlements
      /\ entitlement # None
  BY <1>1, <1>2 DEF ReqOK, HoldOK, Holding, Materializing, Knows
<1>4. PICK d : d = e.active.draw
  OBVIOUS
<1>5. /\ d \in Generations /\ d = e.generation /\ d \in DrawIds /\ d \in Nat
      /\ e.active.prize \in Prizes /\ e.active.time \in Times
  BY <1>3, <1>4, EntitlementTypes, Numbers DEF DrawIds, Knows
<1>6. PICK new : new = NewDraw(d, e.active.prize, e.active.time, d)
  OBVIOUS
<1>7. /\ new \in Docs /\ new.key = d /\ new.claimed = "no" /\ new.generation = d
      /\ new.prize = e.active.prize /\ new.time = e.active.time
  BY <1>5, <1>6 DEF NewDraw, Docs, PayoutStatus
<1>8. /\ draws' = [draws EXCEPT ![d] = DrawInserted(draws[d], new)]
      /\ RequestGoes(r, [req[r] EXCEPT !.step = "status"]) \/ Reply(r)
  BY <1>2, <1>4, <1>5, <1>6 DEF UpsertDraw
<1>9. /\ Evolves /\ DrawsOK' /\ GuardOK'
      /\ draws' \in [DrawIds -> Docs \cup {None}] /\ draws'[d] # None
  <2>1. CASE draws[d] # None
    <3>1. draws' = draws
      BY <1>8, <2>1 DEF DrawInserted, IInv, TypeOK
    <3> QED BY <1>1, <2>1, <3>1, StoresStay DEF IInv, TypeOK
  <2>2. CASE draws[d] = None
    <3>1. draws' = [draws EXCEPT ![d] = new]
      BY <1>8, <2>2 DEF DrawInserted
    <3>2. e.generation <= entitlement.generation /\ entitlement.generation \in Nat
      BY <1>3, GuardRanges DEF Knows, IInv
    <3>3. ~(d < entitlement.generation)
      BY <1>3, <1>5, <2>2 DEF IInv, GuardOK
    <3>4. e.generation = entitlement.generation
      BY <1>5, <3>2, <3>3
    <3>5. /\ entitlement.active # None /\ entitlement.active.status # "reserved"
          /\ new.prize = entitlement.active.prize /\ new.time = entitlement.active.time
      BY <1>3, <1>7, <3>4 DEF Knows
    <3>6. new # None
      BY <1>7, DocTypes
    <3> QED BY <1>1, <1>3, <1>5, <1>7, <2>2, <3>1, <3>4, <3>5, <3>6, DrawAdded
  <2> QED BY <2>1, <2>2
<1>10. CASE Reply(r)
  BY <1>1, <1>9, <1>10, RepliesAfter DEF IInv, TypeOK
<1>11. CASE RequestGoes(r, [req[r] EXCEPT !.step = "status"])
  <2>1. PICK q : q = [req[r] EXCEPT !.step = "status", !.entitlement = e]
    OBVIOUS
  <2>2. q = [req[r] EXCEPT !.step = "status"] /\ q.step = "status" /\ q.entitlement = e
    BY <1>1, <1>2, <2>1 DEF RequestStates
  <2>3. Knows(e)'
    BY <1>3, <1>9, KnownKept DEF Evolves
  <2>4. HoldOK(q)'
    BY <1>3, <1>4, <1>9, <2>2, <2>3 DEF HoldOK, Holding, Materializing
  <2>5. req' = [req EXCEPT ![r] = q]
    BY <1>11, <2>2 DEF RequestGoes
  <2> QED BY <1>1, <1>3, <1>9, <2>1, <2>4, <2>5, StepAfter DEF RequestSteps, IInv, TypeOK
<1> QED BY <1>8, <1>10, <1>11

LEMMA SetStatusOK ==
  ASSUME IInv, NEW r \in Requests, SetStatus(r)
  PROVE  IInv' /\ Evolves
<1>1. /\ req[r] \in RequestStates /\ ReqOK(req[r]) /\ req[r].step = "status"
      /\ Reply(r) /\ UNCHANGED <<available, draws, time, transfer, old, payer>>
  BY RequestHere DEF SetStatus, RequestGoes, Reply
<1>2. PICK e : e = req[r].entitlement
  OBVIOUS
<1>3. /\ Knows(e) /\ e.active.status \in {"prepared", "materialized", "no_prize"}
      /\ e.generation # 0 /\ e.active.draw = e.generation /\ draws[e.active.draw] # None
      /\ entitlement # None
  BY <1>1, <1>2 DEF ReqOK, HoldOK, Holding, Materializing, Knows
<1>4. PICK status : status = IF e.active.prize = None THEN "no_prize" ELSE "materialized"
  OBVIOUS
<1>5. CASE /\ entitlement.generation = e.generation
           /\ entitlement.active.draw = e.active.draw
           /\ entitlement.active.status \in {"prepared", status}
  <2>1. entitlement' = [entitlement EXCEPT !.active.status = status]
    BY <1>2, <1>4, <1>5 DEF SetStatus
  <2>2. /\ entitlement.active # None /\ entitlement.active.prize = e.active.prize
        /\ entitlement.active.draw = e.active.draw
    BY <1>3, <1>5 DEF Knows
  <2>3. /\ status = "no_prize" => entitlement.active.prize = None
        /\ status = "materialized" => entitlement.active.prize # None
        /\ status \in {"no_prize", "materialized"}
        /\ entitlement.active.status \in Settled => status = entitlement.active.status
    BY <1>4, <1>5, <2>2 DEF Settled
  <2>4. Evolves /\ DrawsOK' /\ GuardOK' /\ entitlement' \in Entitlements
    BY <1>1, <1>3, <1>5, <2>1, <2>2, <2>3, StatusChanges DEF EntitlementStatus
  <2> QED BY <1>1, <2>4, RepliesAfter DEF IInv, TypeOK
<1>6. CASE ~(/\ entitlement.generation = e.generation
             /\ entitlement.active.draw = e.active.draw
             /\ entitlement.active.status \in {"prepared", status})
  <2>1. UNCHANGED store
    BY <1>1, <1>2, <1>4, <1>6 DEF SetStatus, store
  <2> QED BY <1>1, <2>1, Replies
<1> QED BY <1>5, <1>6

LEMMA RequestStepOK ==
  ASSUME IInv, NEW r \in Requests, Start(r) \/ RequestStep(r) \/ RequestEnds(r)
  PROVE  IInv' /\ Evolves
<1>1. CASE RequestEnds(r)
  BY <1>1, Replies DEF RequestEnds
<1>2. CASE RequestStep(r)
  BY <1>2, SeedLatestOK, SeedOutstandingOK, SeedBackfillOK, SeedInsertOK, ClaimNewOK,
     ClaimRefusedOK, ReadCurrentOK, LookupOK, RepairOK, DrawAgainOK, ReservePrizeOK, RereadOK,
     UpsertDrawOK, SetStatusOK DEF RequestStep
<1> QED BY <1>1, <1>2, StartOK

-----------------------------------------------------------------------------
(* The steps of a payout worker, of a swap lottery, of the chain.          *)

LEMMA PayerHere ==
  ASSUME IInv, NEW p \in Payers
  PROVE  payer[p] \in PayerStates /\ PayOK(payer[p])
  BY DEF IInv, TypeOK

\* The draw of a worker that is past the migration.
LEMMA PayerDraw ==
  ASSUME IInv, NEW p \in Payers, payer[p].step # "idle", NEW d, d = payer[p].draw
  PROVE  /\ d \in DrawIds /\ draws[d] # None /\ draws[d] \in Docs /\ draws[d].key = d
         /\ draws[d].prize # None
         /\ payer[p].step # "backfill" => ~Incomplete(draws[d])
<1>1. payer[p] \in PayerStates /\ PayOK(payer[p])
  BY PayerHere
<1>2. /\ d \in DrawIds /\ draws[d] # None /\ draws[d].prize # None
      /\ payer[p].step # "backfill" => ~Incomplete(draws[d])
  BY <1>1 DEF PayOK
<1> QED BY <1>2, StoredIsCopy

\* The worker takes the next step with its draw.
LEMMA PayerStepsOn ==
  ASSUME IInv, Evolves, DrawsOK', GuardOK',
         draws' \in [DrawIds -> Docs \cup {None}], entitlement' \in Entitlements \cup {None},
         transfer' \in [DrawIds -> TransferStates],
         NEW p \in Payers, payer[p].step # "idle", NEW step \in PayerSteps \ {"backfill"},
         PayerGoes(p, step),
         ~Incomplete(draws'[payer[p].draw]),
         step \in {"send", "record"} => draws'[payer[p].draw].op,
         step = "record" => transfer'[payer[p].draw] = "paid",
         step = "confirm" => draws'[payer[p].draw].claimed = "yes"
  PROVE  IInv'
<1>1. payer \in [Payers -> PayerStates] /\ payer[p] \in PayerStates
  BY DEF IInv, TypeOK
<1>2. PICK y : y = [payer[p] EXCEPT !.step = step, !.doc = None]
  OBVIOUS
<1>3. y \in PayerStates /\ y.step = step /\ y.draw = payer[p].draw
  BY <1>1, <1>2 DEF PayerStates
<1>4. payer' = [payer EXCEPT ![p] = y]
  BY <1>1, <1>2 DEF PayerGoes
<1>5. PICK d : d = payer[p].draw
  OBVIOUS
<1>6. d \in DrawIds /\ draws[d] # None /\ draws[d].prize # None
  BY <1>5, PayerDraw
<1>7. draws'[d] # None /\ draws'[d].prize # None
  BY <1>6 DEF Evolves, DrawsGrow
<1>8. PayOK(y)'
  BY <1>3, <1>5, <1>6, <1>7 DEF PayOK
<1> QED BY <1>3, <1>4, <1>8, OnePayer DEF PayerGoes

\* The worker is through with its draw.
LEMMA PayerDone ==
  ASSUME IInv, Evolves, DrawsOK', GuardOK',
         draws' \in [DrawIds -> Docs \cup {None}], entitlement' \in Entitlements \cup {None},
         transfer' \in [DrawIds -> TransferStates],
         NEW p \in Payers, NextDraw(p)
  PROVE  IInv'
  BY Idle, OnePayer DEF NextDraw

LEMMA PayerEndsOK ==
  ASSUME IInv, NEW p \in Payers, PayerEnds(p)
  PROVE  IInv' /\ Evolves
  BY StoresStay, PayerDone DEF PayerEnds, NextDraw, IInv, TypeOK

LEMMA PickOK ==
  ASSUME IInv, NEW p \in Payers, NEW d \in DrawIds, Pick(p, d)
  PROVE  IInv' /\ Evolves
<1>1. /\ draws[d] # None /\ draws[d].prize # None
      /\ draws[d] \in Docs /\ draws[d].key = d /\ CopyOK(draws[d])
      /\ UNCHANGED <<time, available, draws, entitlement, transfer, old, req>>
  BY StoredIsCopy DEF Pick, Unclaimed, store
<1>2. PICK y :
        /\ y = IF Incomplete(draws[d]) THEN [step |-> "backfill", draw |-> d, doc |-> draws[d]]
                                       ELSE [step |-> "prepare", draw |-> d, doc |-> None]
        /\ payer' = [payer EXCEPT ![p] = y]
  BY DEF Pick
<1>3. y \in PayerStates /\ y.draw = d
  BY <1>1, <1>2 DEF PayerStates, PayerSteps
<1>4. \/ y.step = "backfill" /\ Incomplete(draws[d]) /\ y.doc = draws[d]
      \/ y.step = "prepare" /\ ~Incomplete(draws[d])
  BY <1>2
<1>5. PICK doc : doc = draws[d]
  OBVIOUS
<1>6. CopyOK(doc) /\ doc # None /\ doc.key = d
  BY <1>1, <1>5
<1>7. PayOK(y)
  <2>1. CASE y.step = "backfill" /\ Incomplete(draws[d]) /\ y.doc = draws[d]
    <3>1. CopyOK(y.doc)
      BY <1>5, <1>6, <2>1
    <3> QED BY <1>1, <1>3, <2>1, <3>1 DEF PayOK
  <2>2. CASE y.step = "prepare" /\ ~Incomplete(draws[d])
    BY <1>1, <1>3, <2>2 DEF PayOK
  <2> QED BY <1>4, <2>1, <2>2
<1> QED BY <1>1, <1>2, <1>3, <1>7, PayerOnly

LEMMA PayerBackfillOK ==
  ASSUME IInv, NEW p \in Payers, PayerBackfill(p)
  PROVE  IInv' /\ Evolves
<1>1. /\ payer[p] \in PayerStates /\ PayOK(payer[p]) /\ payer[p].step = "backfill"
      /\ UNCHANGED <<entitlement, transfer, time, available, old, req>>
  BY PayerHere DEF PayerBackfill, PayerGoes, NextDraw
<1>2. PICK doc : doc = payer[p].doc
  OBVIOUS
<1>3. PICK new : new = Backfilled(doc)
  OBVIOUS
<1>4. /\ draws' = [draws EXCEPT ![new.key] = new]
      /\ PayerGoes(p, "prepare") \/ NextDraw(p)
  BY <1>2, <1>3 DEF PayerBackfill
<1>5. CopyOK(doc) /\ Incomplete(doc) /\ doc.key = payer[p].draw
  BY <1>1, <1>2 DEF PayOK
<1>6. /\ Evolves /\ DrawsOK' /\ GuardOK'
      /\ draws' \in [DrawIds -> Docs \cup {None}]
      /\ draws'[doc.key] = new /\ ~Incomplete(new)
  BY <1>1, <1>3, <1>4, <1>5, BackfillStores
<1>7. CASE PayerGoes(p, "prepare")
  BY <1>1, <1>5, <1>6, <1>7, PayerStepsOn DEF PayerSteps, IInv, TypeOK
<1>8. CASE NextDraw(p)
  BY <1>1, <1>6, <1>8, PayerDone DEF IInv, TypeOK
<1> QED BY <1>4, <1>6, <1>7, <1>8

\* The step of a worker that leaves the stores alone.
LEMMA PayerGoesOn ==
  ASSUME IInv, NEW p \in Payers, payer[p].step \notin {"idle", "backfill"},
         NEW step \in PayerSteps \ {"backfill", "send", "record"}, PayerGoes(p, step),
         step = "confirm" => draws[payer[p].draw].claimed = "yes",
         UNCHANGED <<draws, entitlement, transfer>>
  PROVE  IInv' /\ Evolves
<1>1. UNCHANGED old
  BY DEF PayerGoes
<1>2. Evolves /\ DrawsOK' /\ GuardOK'
  BY <1>1, StoresStay
<1>3. ~Incomplete(draws[payer[p].draw])
  BY PayerDraw
<1> QED BY <1>2, <1>3, PayerStepsOn DEF IInv, TypeOK

LEMMA PayerRaisesOK ==
  ASSUME IInv, NEW p \in Payers, PayerRaises(p)
  PROVE  IInv' /\ Evolves
  BY PayerGoesOn DEF PayerRaises, PayerSteps

LEMMA PreparePayoutOK ==
  ASSUME IInv, NEW p \in Payers, PreparePayout(p)
  PROVE  IInv' /\ Evolves
<1>1. /\ payer[p].step = "prepare"
      /\ UNCHANGED <<entitlement, transfer, time, available, old, req>>
  BY DEF PreparePayout, PayerGoes
<1>2. PICK d : d = payer[p].draw
  OBVIOUS
<1>3. /\ d \in DrawIds /\ draws[d] # None /\ draws[d] \in Docs /\ draws[d].key = d
      /\ draws[d].prize # None /\ ~Incomplete(draws[d])
  BY <1>1, <1>2, PayerDraw
<1>4. CASE draws[d].claimed = "no" /\ draws[d].status \in Payable
  <2>1. /\ draws' = [draws EXCEPT ![d].op = TRUE, ![d].status = "prepared"]
        /\ PayerGoes(p, "send")
    BY <1>2, <1>3, <1>4 DEF PreparePayout
  <2>2. PICK new : new = [draws[d] EXCEPT !.op = TRUE, !.status = "prepared"]
    OBVIOUS
  <2>3. /\ new \in Docs /\ new.key = d /\ new.prize = draws[d].prize
        /\ new.time = draws[d].time /\ new.generation = draws[d].generation
        /\ new.claimed = "no" /\ new.op = TRUE /\ new.id = draws[d].id
        /\ new.status = "prepared"
    BY <1>3, <1>4, <2>2 DEF Docs, PayoutStatus
  <2>4. draws' = [draws EXCEPT ![d] = new]
    BY <1>3, <2>1, <2>2 DEF IInv, TypeOK
  <2>5. d \notin old
    <3>1. ~SetAside(draws[d])
      BY <1>3, <1>4 DEF SetAside, Payable
    <3> QED BY <3>1 DEF IInv, DrawsOK, OldOK
  <2>6. ~Incomplete(new)
    BY <1>3, <2>3 DEF Incomplete
  <2>7. /\ Evolves /\ DrawsOK' /\ GuardOK'
        /\ draws' \in [DrawIds -> Docs \cup {None}] /\ draws'[d] = new
    BY <1>1, <1>3, <1>4, <2>3, <2>4, <2>5, <2>6, DrawChanges
  <2> QED BY <1>1, <1>2, <2>1, <2>3, <2>6, <2>7, PayerStepsOn DEF PayerSteps, IInv, TypeOK
<1>5. CASE ~(draws[d].claimed = "no" /\ draws[d].status \in Payable)
  <2>1. PICK step \in {"confirm", "unresolve"} :
          /\ PayerGoes(p, step) /\ UNCHANGED draws
          /\ step = "confirm" => draws[d].claimed = "yes"
    BY <1>2, <1>5 DEF PreparePayout
  <2> QED BY <1>1, <1>2, <2>1, PayerGoesOn DEF PayerSteps
<1> QED BY <1>4, <1>5

\* The operation of a draw moves on.
LEMMA TransferChanges ==
  ASSUME IInv, NEW d \in DrawIds, d \notin old, NEW new \in TransferStates,
         transfer[d] = "paid" => new = "paid",
         transfer' = [transfer EXCEPT ![d] = new], UNCHANGED <<draws, entitlement, old>>
  PROVE  /\ Evolves /\ DrawsOK' /\ GuardOK'
         /\ transfer' \in [DrawIds -> TransferStates] /\ transfer'[d] = new
<1>1. transfer \in [DrawIds -> TransferStates]
  BY DEF IInv, TypeOK
<1>2. /\ transfer' \in [DrawIds -> TransferStates] /\ transfer'[d] = new
      /\ \A c \in DrawIds \ {d} : transfer'[c] = transfer[c]
  BY <1>1
<1>3. PaidStays
  BY <1>2 DEF PaidStays
<1>4. DrawsGrow /\ NewDrawsGuarded /\ GuardMoves
  BY DEF DrawsGrow, NewDrawsGuarded, GuardMoves, SameGeneration
<1>5. ASSUME NEW c \in DrawIds PROVE DrawOK(c)'
  BY <1>3 DEF IInv, DrawsOK, DrawOK, PaidStays
<1>6. ASSUME NEW c \in old PROVE OldOK(c)'
  <2>1. c \in DrawIds /\ c # d
    BY DEF IInv, TypeOK, DrawIds
  <2> QED BY <1>2, <1>6, <2>1 DEF IInv, DrawsOK, OldOK
<1>7. GuardOK'
  BY DEF IInv, GuardOK, ActiveOK
<1> QED BY <1>2, <1>3, <1>4, <1>5, <1>6, <1>7 DEF Evolves, DrawsOK

LEMMA SendOK ==
  ASSUME IInv, NEW p \in Payers, SendPaid(p) \/ SendFails(p)
  PROVE  IInv' /\ Evolves
<1>1. /\ payer[p].step = "send" /\ UNCHANGED <<draws, entitlement>>
      /\ UNCHANGED <<time, available, old, req>>
  BY DEF SendPaid, SendFails, PayerGoes
<1>2. PICK d : d = payer[p].draw
  OBVIOUS
<1>3. /\ d \in DrawIds /\ draws[d] # None /\ ~Incomplete(draws[d])
  BY <1>1, <1>2, PayerDraw
<1>4. draws[d].op
  BY <1>1, <1>2, PayerHere DEF PayOK
<1>5. d \notin old /\ transfer \in [DrawIds -> TransferStates]
  BY <1>4 DEF IInv, TypeOK, DrawsOK, OldOK
<1>6. CASE SendPaid(p)
  <2>1. transfer' = [transfer EXCEPT ![d] = "paid"] /\ PayerGoes(p, "record")
    BY <1>2, <1>6 DEF SendPaid
  <2>2. /\ Evolves /\ DrawsOK' /\ GuardOK'
        /\ transfer' \in [DrawIds -> TransferStates] /\ transfer'[d] = "paid"
    BY <1>1, <1>3, <1>5, <2>1, TransferChanges DEF TransferStates
  <2> QED BY <1>1, <1>2, <1>3, <1>4, <2>1, <2>2, PayerStepsOn DEF PayerSteps, IInv, TypeOK
<1>7. CASE SendFails(p)
  <2>1. /\ PayerGoes(p, "unresolve")
        /\ \/ transfer' = transfer
           \/ transfer' = [transfer EXCEPT ![d] = IF @ = "none" THEN "sent" ELSE @]
    BY <1>2, <1>7 DEF SendFails
  <2>2. PICK new \in TransferStates :
          /\ transfer[d] = "paid" => new = "paid"
          /\ transfer' = [transfer EXCEPT ![d] = new]
    <3>1. CASE transfer' = transfer
      <4>1. transfer' = [transfer EXCEPT ![d] = transfer[d]] /\ transfer[d] \in TransferStates
        BY <1>3, <1>5, <3>1
      <4> QED BY <4>1
    <3>2. CASE transfer' = [transfer EXCEPT ![d] = IF @ = "none" THEN "sent" ELSE @]
      <4>1. /\ transfer' = [transfer EXCEPT ![d] = IF transfer[d] = "none" THEN "sent"
                                                                           ELSE transfer[d]]
            /\ (IF transfer[d] = "none" THEN "sent" ELSE transfer[d]) \in TransferStates
        BY <1>3, <1>5, <3>2 DEF TransferStates
      <4>2. transfer[d] = "paid" => (IF transfer[d] = "none" THEN "sent" ELSE transfer[d]) = "paid"
        OBVIOUS
      <4> QED BY <4>1, <4>2
    <3> QED BY <2>1, <3>1, <3>2
  <2>3. /\ Evolves /\ DrawsOK' /\ GuardOK'
        /\ transfer' \in [DrawIds -> TransferStates]
    BY <1>1, <1>3, <1>5, <2>2, TransferChanges
  <2> QED BY <1>1, <1>2, <1>3, <2>1, <2>3, PayerStepsOn DEF PayerSteps, IInv, TypeOK
<1> QED BY <1>6, <1>7

LEMMA RecordPayoutOK ==
  ASSUME IInv, NEW p \in Payers, RecordPayout(p)
  PROVE  IInv' /\ Evolves
<1>1. /\ payer[p].step = "record"
      /\ UNCHANGED <<entitlement, transfer, time, available, old, req>>
  BY DEF RecordPayout, PayerGoes
<1>2. PICK d : d = payer[p].draw
  OBVIOUS
<1>3. /\ d \in DrawIds /\ draws[d] # None /\ draws[d] \in Docs /\ draws[d].key = d
      /\ ~Incomplete(draws[d])
  BY <1>1, <1>2, PayerDraw
<1>4. draws[d].op /\ transfer[d] = "paid"
  BY <1>1, <1>2, PayerHere DEF PayOK
<1>5. CASE draws[d].claimed = "no" /\ draws[d].op /\ draws[d].status # "reconciliation_required"
  <2>1. /\ draws' = [draws EXCEPT ![d].claimed = "yes", ![d].status = "confirmed"]
        /\ PayerGoes(p, "confirm")
    BY <1>2, <1>5 DEF RecordPayout
  <2>2. PICK new : new = [draws[d] EXCEPT !.claimed = "yes", !.status = "confirmed"]
    OBVIOUS
  <2>3. /\ new \in Docs /\ new.key = d /\ new.prize = draws[d].prize
        /\ new.time = draws[d].time /\ new.generation = draws[d].generation
        /\ new.claimed = "yes" /\ new.op = draws[d].op /\ new.id = draws[d].id
        /\ new.status = "confirmed"
    BY <1>3, <2>2 DEF Docs, PayoutStatus
  <2>4. draws' = [draws EXCEPT ![d] = new]
    BY <1>3, <2>1, <2>2 DEF IInv, TypeOK
  <2>5. d \notin old
    BY <1>4 DEF IInv, DrawsOK, OldOK
  <2>6. ~Incomplete(new)
    BY <1>3, <2>3 DEF Incomplete
  <2>7. /\ Evolves /\ DrawsOK' /\ GuardOK'
        /\ draws' \in [DrawIds -> Docs \cup {None}] /\ draws'[d] = new
    BY <1>1, <1>3, <1>4, <1>5, <2>3, <2>4, <2>5, <2>6, DrawChanges
  <2> QED BY <1>1, <1>2, <2>1, <2>3, <2>6, <2>7, PayerStepsOn DEF PayerSteps, IInv, TypeOK
<1>6. CASE ~(draws[d].claimed = "no" /\ draws[d].op /\ draws[d].status # "reconciliation_required")
  <2>1. PICK step \in {"confirm", "unresolve"} :
          /\ PayerGoes(p, step) /\ UNCHANGED draws
          /\ step = "confirm" => draws[d].claimed = "yes"
    BY <1>2, <1>6 DEF RecordPayout
  <2> QED BY <1>1, <1>2, <2>1, PayerGoesOn DEF PayerSteps
<1> QED BY <1>5, <1>6

\* The entitlement of a draw that is being paid.
LEMMA GuardedDraw ==
  ASSUME IInv, NEW p \in Payers, payer[p].step # "idle", NEW d, d = payer[p].draw,
         Guards(draws[d])
  PROVE  /\ entitlement # None /\ entitlement.active # None /\ entitlement.generation # 0
         /\ entitlement.active.draw = d /\ draws[d] # None
         /\ entitlement.active.status # "no_prize"
<1>1. /\ draws[d] # None /\ draws[d].key = d /\ draws[d].prize # None
  BY PayerDraw
<1>2. /\ entitlement # None /\ entitlement.generation # 0 /\ entitlement.active.draw = d
  BY <1>1 DEF Guards
<1>3. entitlement.active # None /\ ActiveOK(entitlement.active)
  BY <1>2 DEF IInv, GuardOK
<1> QED BY <1>1, <1>2, <1>3 DEF ActiveOK

LEMMA ConfirmOK ==
  ASSUME IInv, NEW p \in Payers, ConfirmEntitlement(p)
  PROVE  IInv' /\ Evolves
<1>1. /\ payer[p].step = "confirm" /\ NextDraw(p)
      /\ UNCHANGED <<draws, transfer, time, available, old, req>>
  BY DEF ConfirmEntitlement, NextDraw
<1>2. PICK d : d = payer[p].draw
  OBVIOUS
<1>3. draws[d].claimed = "yes"
  BY <1>1, <1>2, PayerHere DEF PayOK
<1>4. CASE Guards(draws[d])
  <2>1. entitlement' = [entitlement EXCEPT !.active.status = "confirmed"]
    BY <1>2, <1>4 DEF ConfirmEntitlement
  <2>2. /\ entitlement # None /\ entitlement.active # None /\ entitlement.generation # 0
        /\ entitlement.active.draw = d /\ draws[d] # None
        /\ entitlement.active.status \in Settled => entitlement.active.status = "confirmed"
    BY <1>1, <1>2, <1>4, GuardedDraw DEF Settled
  <2>3. Evolves /\ DrawsOK' /\ GuardOK' /\ entitlement' \in Entitlements
    BY <1>1, <1>3, <2>1, <2>2, StatusChanges DEF EntitlementStatus
  <2> QED BY <1>1, <2>3, PayerDone DEF IInv, TypeOK
<1>5. CASE ~Guards(draws[d])
  <2>1. UNCHANGED entitlement
    BY <1>2, <1>5 DEF ConfirmEntitlement
  <2> QED BY <1>1, <2>1, StoresStay, PayerDone DEF IInv, TypeOK
<1> QED BY <1>4, <1>5

LEMMA UnresolveOK ==
  ASSUME IInv, NEW p \in Payers, UnresolveEntitlement(p)
  PROVE  IInv' /\ Evolves
<1>1. /\ payer[p].step = "unresolve" /\ PayerGoes(p, "fail")
      /\ UNCHANGED <<draws, transfer, time, available, old, req>>
  BY DEF UnresolveEntitlement, PayerGoes
<1>2. PICK d : d = payer[p].draw
  OBVIOUS
<1>3. CASE Guards(draws[d]) /\ entitlement.active.status # "confirmed"
  <2>1. entitlement' = [entitlement EXCEPT !.active.status = "unresolved"]
    BY <1>2, <1>3 DEF UnresolveEntitlement, Unresolved
  <2>2. /\ entitlement # None /\ entitlement.active # None /\ entitlement.generation # 0
        /\ entitlement.active.draw = d /\ draws[d] # None
        /\ entitlement.active.status \notin Settled
    BY <1>1, <1>2, <1>3, GuardedDraw DEF Settled
  <2>3. Evolves /\ DrawsOK' /\ GuardOK' /\ entitlement' \in Entitlements
    BY <1>1, <2>1, <2>2, StatusChanges DEF EntitlementStatus
  <2>4. ~Incomplete(draws[d])
    BY <1>1, <1>2, PayerDraw
  <2> QED BY <1>1, <1>2, <2>3, <2>4, PayerStepsOn DEF PayerSteps, IInv, TypeOK
<1>4. CASE ~(Guards(draws[d]) /\ entitlement.active.status # "confirmed")
  <2>1. UNCHANGED entitlement
    BY <1>2, <1>4 DEF UnresolveEntitlement, Unresolved
  <2> QED BY <1>1, <2>1, PayerGoesOn DEF PayerSteps
<1> QED BY <1>3, <1>4

LEMMA FailDrawOK ==
  ASSUME IInv, NEW p \in Payers, FailDraw(p)
  PROVE  IInv' /\ Evolves
<1>1. /\ payer[p].step = "fail" /\ NextDraw(p)
      /\ UNCHANGED <<entitlement, transfer, time, available, old, req>>
  BY DEF FailDraw, NextDraw
<1>2. PICK d : d = payer[p].draw
  OBVIOUS
<1>3. /\ d \in DrawIds /\ draws[d] # None /\ draws[d] \in Docs /\ draws[d].key = d
      /\ ~Incomplete(draws[d])
  BY <1>1, <1>2, PayerDraw
<1>4. CASE draws[d].claimed = "no" /\ draws[d].op /\ draws[d].status # "reconciliation_required"
  <2>1. draws' = [draws EXCEPT ![d].status = "unresolved"]
    BY <1>2, <1>4 DEF FailDraw
  <2>2. PICK new : new = [draws[d] EXCEPT !.status = "unresolved"]
    OBVIOUS
  <2>3. /\ new \in Docs /\ new.key = d /\ new.prize = draws[d].prize
        /\ new.time = draws[d].time /\ new.generation = draws[d].generation
        /\ new.claimed = draws[d].claimed /\ new.op = draws[d].op /\ new.id = draws[d].id
        /\ new.status = "unresolved"
    BY <1>3, <2>2 DEF Docs, PayoutStatus
  <2>4. draws' = [draws EXCEPT ![d] = new]
    BY <1>3, <2>1, <2>2 DEF IInv, TypeOK
  <2>5. d \notin old
    BY <1>4 DEF IInv, DrawsOK, OldOK
  <2>6. ~Incomplete(new)
    BY <1>3, <2>3 DEF Incomplete
  <2>7. /\ Evolves /\ DrawsOK' /\ GuardOK'
        /\ draws' \in [DrawIds -> Docs \cup {None}] /\ draws'[d] = new
    BY <1>1, <1>3, <1>4, <2>3, <2>4, <2>5, <2>6, DrawChanges
  <2> QED BY <1>1, <2>7, PayerDone DEF IInv, TypeOK
<1>5. CASE ~(draws[d].claimed = "no" /\ draws[d].op /\ draws[d].status # "reconciliation_required")
  <2>1. UNCHANGED draws
    BY <1>2, <1>5 DEF FailDraw
  <2> QED BY <1>1, <2>1, StoresStay, PayerDone DEF IInv, TypeOK
<1> QED BY <1>4, <1>5

LEMMA PayerStepOK ==
  ASSUME IInv, NEW p \in Payers,
         PayerStep(p) \/ PayerRaises(p) \/ PayerEnds(p) \/ \E d \in DrawIds : Pick(p, d)
  PROVE  IInv' /\ Evolves
<1>1. CASE PayerStep(p)
  BY <1>1, PayerBackfillOK, PreparePayoutOK, SendOK, RecordPayoutOK, ConfirmOK, UnresolveOK,
     FailDrawOK DEF PayerStep
<1> QED BY <1>1, PayerRaisesOK, PayerEndsOK, PickOK

LEMMA SwapDrawOK ==
  ASSUME IInv, NEW d \in Swaps, SwapDraw(d)
  PROVE  IInv' /\ Evolves
<1>1. /\ draws[d] = None /\ d \in DrawIds
      /\ UNCHANGED <<time, available, entitlement, transfer, old, req, payer>>
  BY DEF SwapDraw, DrawIds
<1>2. PICK prize, new : /\ prize \in Prizes /\ new = NewDraw(d, prize, time, 0)
                        /\ draws' = [draws EXCEPT ![d] = new]
  BY DEF SwapDraw
<1>3. /\ new \in Docs /\ new.key = d /\ new.claimed = "no" /\ new.generation = 0
  BY <1>1, <1>2 DEF NewDraw, Docs, PayoutStatus, IInv, TypeOK
<1>4. /\ Evolves /\ DrawsOK' /\ GuardOK' /\ draws' \in [DrawIds -> Docs \cup {None}]
  BY <1>1, <1>2, <1>3, DrawAdded
<1>5. TypeOK'
  BY <1>1, <1>4 DEF IInv, TypeOK
<1> QED BY <1>1, <1>4, <1>5, NoProcess

LEMMA SettleOK ==
  ASSUME IInv, NEW d \in DrawIds, Settle(d)
  PROVE  IInv' /\ Evolves
<1>1. /\ transfer[d] = "sent"
      /\ UNCHANGED <<time, available, draws, entitlement, old, req, payer>>
  BY DEF Settle, store
<1>2. PICK outcome \in {"paid", "expired"} : transfer' = [transfer EXCEPT ![d] = outcome]
  BY DEF Settle
<1>3. d \notin old
  BY <1>1 DEF IInv, DrawsOK, OldOK
<1>4. /\ Evolves /\ DrawsOK' /\ GuardOK' /\ transfer' \in [DrawIds -> TransferStates]
  BY <1>1, <1>2, <1>3, TransferChanges DEF TransferStates
<1>5. TypeOK'
  BY <1>1, <1>4 DEF IInv, TypeOK
<1> QED BY <1>1, <1>4, <1>5, NoProcess

LEMMA TickOK ==
  ASSUME IInv, Tick \/ UNCHANGED vars
  PROVE  IInv' /\ Evolves
<1>1. /\ UNCHANGED <<available, draws, entitlement, transfer, old, req, payer>>
      /\ time' \in Times
  BY Numbers DEF Tick, vars, store, IInv, TypeOK, Times
<1>2. Evolves /\ DrawsOK' /\ GuardOK'
  BY <1>1, StoresStay
<1>3. TypeOK'
  BY <1>1 DEF IInv, TypeOK
<1> QED BY <1>1, <1>2, <1>3, NoProcess

-----------------------------------------------------------------------------
(* The invariant, and what follows from it.                                *)

LEMMA InitOK ==
  ASSUME Init
  PROVE  IInv
<1>1. PICK f \in [Legacy -> LegacyDocs \cup {None}] :
        /\ \A d \in Legacy : f[d] # None => f[d].key = d
        /\ draws = [d \in DrawIds |-> IF d \in Legacy THEN f[d] ELSE None]
  BY DEF Init
<1>2. ASSUME NEW d \in DrawIds, draws[d] # None
      PROVE  d \in Legacy /\ draws[d] \in LegacyDocs /\ draws[d].key = d
  BY <1>1, <1>2
<1>3. TypeOK
  <2>1. time \in Times /\ available \subseteq Nfts /\ entitlement = None
    BY Numbers DEF Init, Times
  <2>2. draws \in [DrawIds -> Docs \cup {None}]
    BY <1>1, LegacyAssumption
  <2>3. NoRequest \in RequestStates /\ NoPayout \in PayerStates
    BY <2>1 DEF NoRequest, NoPayout, RequestStates, PayerStates, RequestSteps, PayerSteps,
                Init
  <2>4. req \in [Requests -> RequestStates] /\ payer \in [Payers -> PayerStates]
    BY <2>3 DEF Init
  <2>5. old \subseteq Legacy /\ transfer \in [DrawIds -> TransferStates]
    BY DEF Init
  <2> QED BY <2>1, <2>2, <2>4, <2>5 DEF TypeOK
<1>4. ASSUME NEW d \in DrawIds PROVE DrawOK(d)
  <2>1. CASE draws[d] # None
    <3>1. d \in Legacy /\ draws[d] \in LegacyDocs /\ draws[d].key = d
      BY <1>2, <2>1
    <3>2. d \notin Generations /\ draws[d].generation = 0
      BY <3>1, IdsAssumption, LegacyAssumption
    <3>3. draws[d].claimed = "yes" /\ draws[d].op => transfer[d] = "paid"
      BY <2>1 DEF Init
    <3> QED BY <3>1, <3>2, <3>3 DEF DrawOK
  <2> QED BY <2>1 DEF DrawOK
<1>5. ASSUME NEW d \in old PROVE OldOK(d)
  <2>1. d \in DrawIds /\ draws[d] # None /\ ~draws[d].op
    BY <1>5 DEF Init, DrawIds
  <2>2. draws[d] \in LegacyDocs
    BY <1>2, <2>1
  <2>3. SetAside(draws[d])
    BY <2>1, <2>2, LegacyAssumption
  <2>4. transfer[d] = "none"
    BY <2>1 DEF Init
  <2> QED BY <2>1, <2>3, <2>4 DEF OldOK
<1>6. ASSUME NEW r \in Requests PROVE ReqOK(req[r])
  <2>1. req[r] = NoRequest
    BY DEF Init
  <2> QED BY <2>1 DEF NoRequest, ReqOK, SeedOK, HoldOK, Holding, Materializing
<1>7. ASSUME NEW p \in Payers PROVE PayOK(payer[p])
  <2>1. payer[p] = NoPayout
    BY DEF Init
  <2> QED BY <2>1 DEF NoPayout, PayOK
<1>8. GuardOK
  BY DEF Init, GuardOK
<1> QED BY <1>3, <1>4, <1>5, <1>6, <1>7, <1>8 DEF IInv, DrawsOK

LEMMA StepOK ==
  ASSUME IInv, [Next]_vars
  PROVE  IInv' /\ Evolves
<1>1. CASE \E r \in Requests : Start(r) \/ RequestStep(r) \/ RequestEnds(r)
  BY <1>1, RequestStepOK
<1>2. CASE \E p \in Payers : PayerStep(p) \/ PayerRaises(p) \/ PayerEnds(p) \/ \E d \in DrawIds : Pick(p, d)
  BY <1>2, PayerStepOK
<1>3. CASE \E d \in Swaps : SwapDraw(d)
  BY <1>3, SwapDrawOK
<1>4. CASE \E d \in DrawIds : Settle(d)
  BY <1>4, SettleOK
<1>5. CASE Tick \/ UNCHANGED vars
  BY <1>5, TickOK
<1> QED BY <1>1, <1>2, <1>3, <1>4, <1>5 DEF Next

\* The inductive invariant holds in every reachable state.
THEOREM Invariant == Spec => []IInv
<1>1. Init => IInv
  BY InitOK
<1>2. IInv /\ [Next]_vars => IInv'
  BY StepOK
<1> QED BY <1>1, <1>2, PTL DEF Spec

\* The documents, the operations and the processes have their types.
THEOREM TypeCorrect == Spec => []TypeOK
<1>1. IInv => TypeOK
  BY DEF IInv
<1> QED BY <1>1, Invariant, PTL

\* What the entitlement says of its draw is so, whichever process wrote it and
\* whatever it had read before.
THEOREM TheGuardIsTruthful == Spec => []GuardTruthful
<1>1. IInv => GuardTruthful
  <2> SUFFICES ASSUME IInv, entitlement # None, entitlement.active # None
               PROVE  GuardTruthful
    BY DEF GuardTruthful
  <2>1. ActiveOK(entitlement.active)
    BY DEF IInv, GuardOK
  <2> QED BY <2>1 DEF ActiveOK, GuardTruthful
<1> QED BY <1>1, Invariant, PTL

\* A draw that one of the workers claimed was paid by its own operation.
THEOREM OnlyPaidDrawsAreClaimed == Spec => []ClaimedIsPaid
<1>1. IInv => ClaimedIsPaid
  BY DEF IInv, DrawsOK, DrawOK, ClaimedIsPaid
<1> QED BY <1>1, Invariant, PTL

\* A legacy draw that an old worker may have paid is never sent again.
THEOREM UnprovenDrawsAreNotSent == Spec => []UnprovenIsNotSent
<1>1. IInv => UnprovenIsNotSent
  BY DEF IInv, DrawsOK, OldOK, UnprovenIsNotSent
<1> QED BY <1>1, Invariant, PTL

\* A settled generation stays settled until the next one is reserved, and a
\* claimed draw stays what it is.
THEOREM SettlementIsFinal == Spec => SettledIsFinal
<1>1. ASSUME IInv, [Next]_vars
      PROVE  /\ entitlement # None /\ entitlement.active # None
                /\ entitlement.active.status \in {"confirmed", "no_prize"}
                => \/ entitlement'.active = entitlement.active
                   \/ entitlement'.generation = entitlement.generation + 1
             /\ \A doc \in Stored : /\ draws'[doc.key].prize = doc.prize
                                    /\ doc.claimed = "yes" /\ ~Incomplete(doc)
                                       => draws'[doc.key] = doc
  <2>1. Evolves
    BY <1>1, StepOK
  <2>2. entitlement # None /\ entitlement.active # None
        /\ entitlement.active.status \in {"confirmed", "no_prize"}
        => \/ entitlement'.active = entitlement.active
           \/ entitlement'.generation = entitlement.generation + 1
    BY <2>1 DEF Evolves, GuardMoves, SameGeneration, NextGeneration, Settled
  <2>3. ASSUME NEW doc \in Stored
        PROVE  /\ draws'[doc.key].prize = doc.prize
               /\ doc.claimed = "yes" /\ ~Incomplete(doc) => draws'[doc.key] = doc
    <3>1. PICK d \in DrawIds : draws[d] # None /\ doc = draws[d]
      BY <2>3 DEF Stored
    <3>2. doc.key = d
      BY <1>1, <3>1 DEF IInv, DrawsOK, DrawOK
    <3> QED BY <2>1, <3>1, <3>2 DEF Evolves, DrawsGrow
  <2> QED BY <2>2, <2>3
<1> QED BY <1>1, Invariant, PTL DEF Spec, SettledIsFinal

-----------------------------------------------------------------------------
(* The seeding: how an entitlement comes to be, and what a request found.  *)

Seeding == {"outstanding", "backfill", "seed"}

\* A staking draw whose prize the wallet has not got.
Open(d) == draws[d] # None /\ Unclaimed(draws[d])

LEMMA StepOf ==
  ASSUME IInv, NEW r \in Requests, NEW q, RequestGoes(r, q)
  PROVE  req'[r] = q /\ \A s \in Requests \ {r} : req'[s] = req[s]
  BY DEF RequestGoes, IInv, TypeOK

\* Only the steps of the seeding lead to a step of the seeding.
LEMMA SeedingSteps ==
  ASSUME IInv, [Next]_vars, NEW s \in Requests
  PROVE  \/ req'[s] = req[s]
         \/ req'[s].step \notin Seeding
         \/ SeedLatest(s) \/ SeedOutstanding(s) \/ SeedBackfill(s)
<1>1. ASSUME NEW r \in Requests, Start(r) \/ RequestStep(r) \/ RequestEnds(r)
      PROVE  \A t \in Requests \ {r} : req'[t] = req[t]
  <2>1. \E q : RequestGoes(r, q)
    BY <1>1 DEF Start, RequestStep, RequestEnds, Reply, SeedLatest, SeedOutstanding,
                SeedBackfill, SeedInsert, ClaimNew, ClaimRefused, ReadCurrent, LookupDraw,
                Repair, DrawAgain, ReservePrize, Reread, UpsertDraw, SetStatus
  <2> QED BY <2>1, StepOf
<1>2. CASE Start(s) \/ RequestStep(s) \/ RequestEnds(s)
  <2>1. req[s] \in RequestStates
    BY RequestHere
  <2>2. Reply(s) => req'[s].step = "idle"
    BY StepOf DEF Reply, NoRequest
  <2>3. ASSUME NEW step \in RequestSteps \ Seeding, NEW q, q.step = step, RequestGoes(s, q)
        PROVE  req'[s].step \notin Seeding
    BY <2>3, StepOf
  <2>4. FirstStep \in RequestSteps \ Seeding
    BY DEF FirstStep, RequestSteps, Seeding
  <2>5. CASE Start(s)
    BY <2>3, <2>4, <2>5 DEF Start, NoRequest
  <2>6. CASE RequestEnds(s) \/ SetStatus(s)
    BY <2>2, <2>6 DEF RequestEnds, SetStatus, Seeding
  <2>7. CASE SeedInsert(s) \/ ClaimNew(s) \/ ClaimRefused(s)
    <3>1. CASE SeedInsert(s)
      BY <2>1, <2>3, <3>1 DEF SeedInsert, RequestStates, RequestSteps, Seeding
    <3>2. CASE ClaimNew(s)
      <4>1. PICK new : RequestGoes(s, [req[s] EXCEPT !.step = "draw", !.entitlement = new])
        BY <3>2 DEF ClaimNew
      <4> QED BY <2>1, <2>3, <4>1 DEF RequestStates, RequestSteps, Seeding
    <3>3. CASE ClaimRefused(s)
      BY <2>1, <2>3, <3>3 DEF ClaimRefused, RequestStates, RequestSteps, Seeding
    <3> QED BY <2>7, <3>1, <3>2, <3>3
  <2>8. CASE ReadCurrent(s)
    <3>1. \A status : StepFor(status) \in RequestSteps \ Seeding
      BY DEF StepFor, RequestSteps, Seeding
    <3> QED BY <2>1, <2>2, <2>3, <2>8, <3>1 DEF ReadCurrent, RequestStates, Seeding
  <2>9. CASE LookupDraw(s) \/ Reread(s) \/ UpsertDraw(s)
    BY <2>1, <2>2, <2>3, <2>9 DEF LookupDraw, Reread, UpsertDraw, RequestStates, RequestSteps,
                                  Seeding
  <2>10. CASE Repair(s)
    BY <2>1, <2>2, <2>3, <2>4, <2>10 DEF Repair, RequestStates, Seeding
  <2>11. CASE DrawAgain(s)
    BY <2>1, <2>3, <2>11 DEF DrawAgain, RequestStates, RequestSteps, Seeding
  <2>12. CASE ReservePrize(s)
    BY <2>1, <2>3, <2>12 DEF ReservePrize, RequestStates, RequestSteps, Seeding
  <2> QED BY <1>2, <2>5, <2>6, <2>7, <2>8, <2>9, <2>10, <2>11, <2>12 DEF RequestStep
<1>3. CASE UNCHANGED req
  BY <1>3
<1>4. \/ \E r \in Requests : Start(r) \/ RequestStep(r) \/ RequestEnds(r)
      \/ UNCHANGED req
  BY DEF Next, PayerStep, PayerRaises, PayerEnds, Pick, SwapDraw, Settle, Tick, vars, PayerBackfill,
         PreparePayout, SendPaid, SendFails, RecordPayout, ConfirmEntitlement,
         UnresolveEntitlement, FailDraw, PayerGoes, NextDraw
<1> QED BY <1>1, <1>2, <1>3, <1>4

\* Only the insertion of the seed makes an entitlement.
LEMMA SeedMakes ==
  ASSUME IInv, [Next]_vars, entitlement = None, entitlement' # None
  PROVE  \E r \in Requests : SeedInsert(r)
<1>1. ASSUME NEW r \in Requests
      PROVE  req[r].step \notin Holding \cup {"claim", "read"}
  <2>1. ReqOK(req[r])
    BY RequestHere
  <2> QED BY <2>1 DEF ReqOK, HoldOK, Knows
<1>2. ASSUME NEW r \in Requests, Start(r) \/ RequestStep(r) \/ RequestEnds(r)
      PROVE  SeedInsert(r)
  <2>1. ~(Start(r) \/ RequestEnds(r) \/ SeedLatest(r) \/ SeedOutstanding(r) \/ SeedBackfill(r))
    BY DEF Start, RequestEnds, SeedLatest, SeedOutstanding, SeedBackfill, store
  <2>2. ~(ClaimNew(r) \/ ClaimRefused(r) \/ ReadCurrent(r) \/ LookupDraw(r) \/ Repair(r)
          \/ DrawAgain(r) \/ ReservePrize(r) \/ Reread(r) \/ UpsertDraw(r) \/ SetStatus(r))
    BY <1>1 DEF ClaimNew, ClaimRefused, ReadCurrent, LookupDraw, Repair, DrawAgain,
                ReservePrize, Reread, UpsertDraw, SetStatus, Holding, Materializing
  <2> QED BY <1>2, <2>1, <2>2 DEF RequestStep
<1>3. ~\E p \in Payers : PayerStep(p) \/ PayerRaises(p) \/ PayerEnds(p) \/ \E d \in DrawIds : Pick(p, d)
  BY DEF PayerStep, PayerRaises, PayerEnds, Pick, PayerBackfill, PreparePayout, SendPaid,
         SendFails, RecordPayout, ConfirmEntitlement, UnresolveEntitlement, FailDraw, Guards,
         store
<1>4. ~(\E d \in Swaps : SwapDraw(d)) /\ ~(\E d \in DrawIds : Settle(d))
  BY DEF SwapDraw, Settle, store
<1>5. ~Tick /\ ~UNCHANGED vars
  BY DEF Tick, vars, store
<1> QED BY <1>2, <1>3, <1>4, <1>5 DEF Next

\* A draw of the collection, by its identity.
LEMMA StakingById ==
  ASSUME IInv, NEW d \in Staking, draws[d] # None
  PROVE  draws[d] \in StakingDraws /\ draws[d].key = d
<1>1. d \in DrawIds /\ d \notin Swaps
  BY DEF Staking
<1> QED BY <1>1, StoredIsCopy DEF StakingDraws, Stored

\* Before there is an entitlement, the draws are old ones.
LEMMA UnseededAreOld ==
  ASSUME IInv, entitlement = None, NEW d \in Staking, draws[d] # None
  PROVE  d \in Legacy
  BY DEF IInv, DrawsOK, DrawOK, Staking, DrawIds

LEMMA OldAreStaking == \A d \in Legacy : d \in Staking /\ d \in DrawIds
  BY IdsAssumption DEF Staking, DrawIds

-----------------------------------------------------------------------------
(* One liability at a time.                                                *)

\* The old code left at most one prize outstanding.
OneOpen == \A c, d \in Legacy : Open(c) /\ Open(d) => c = d

\* The open draw is the one the entitlement stands for.
OpenOK == entitlement # None =>
  \A d \in Staking : Open(d) => entitlement.active # None /\ d = entitlement.active.draw

\* A request that seeds has found the open draw.
FoundOpen(q) == q.step \in {"backfill", "seed"} =>
  \A d \in Legacy : Open(d) => q.doc # None /\ d = q.doc.key

LInv == /\ IInv /\ OneOpen /\ OpenOK
        /\ entitlement = None => \A r \in Requests : FoundOpen(req[r])

\* No draw is opened but by the entitlement that stands for it.
LEMMA OpenStays ==
  ASSUME IInv, Evolves, NEW d \in Staking, Open(d)'
  PROVE  \/ Open(d)
         \/ /\ d \in Generations /\ entitlement # None /\ entitlement.active # None
            /\ entitlement.active.draw = d /\ entitlement' = entitlement
<1>1. d \in DrawIds /\ d \notin Swaps
  BY DEF Staking
<1>2. CASE draws[d] = None
  BY <1>1, <1>2 DEF Evolves, NewDrawsGuarded, Open
<1>3. CASE draws[d] # None
  BY <1>1, <1>3 DEF Evolves, DrawsGrow, Open, Unclaimed
<1> QED BY <1>2, <1>3

\* The draw of a settled generation is not open.
LEMMA SettledIsNotOpen ==
  ASSUME IInv, entitlement # None, entitlement.active # None,
         entitlement.active.status \in Settled
  PROVE  ~Open(entitlement.active.draw)
<1>1. ActiveOK(entitlement.active)
  BY DEF IInv, GuardOK
<1> QED BY <1>1 DEF ActiveOK, Settled, Open, Unclaimed

LEMMA FoundIs ==
  ASSUME NEW s \in Requests, NEW x, req'[s] = x, FoundOpen(x)'
  PROVE  FoundOpen(req[s])'
  BY DEF FoundOpen, Open

LEMMA OldOpenStays ==
  ASSUME IInv, Evolves, NEW d \in Legacy, Open(d)'
  PROVE  Open(d)
  BY OpenStays, OldAreStaking, IdsAssumption

\* What a request found is still the only open draw.
LEMMA FoundKept ==
  ASSUME IInv, Evolves, NEW q, FoundOpen(q)
  PROVE  FoundOpen(q)'
  BY OldOpenStays DEF FoundOpen

LEMMA LStepOK ==
  ASSUME LInv, [Next]_vars
  PROVE  LInv'
<1>1. IInv /\ OneOpen /\ OpenOK /\ IInv' /\ Evolves
  BY StepOK DEF LInv
<1>2. OneOpen'
  BY <1>1, OldOpenStays DEF OneOpen
<1>3. OpenOK'
  <2> SUFFICES ASSUME entitlement' # None, NEW d \in Staking, Open(d)'
               PROVE  entitlement'.active # None /\ d = entitlement'.active.draw
    BY DEF OpenOK
  <2>1. CASE entitlement # None
    <3>1. CASE ~Open(d)
      BY <1>1, <3>1, OpenStays
    <3>2. CASE Open(d)
      <4>1. entitlement.active # None /\ d = entitlement.active.draw
        BY <1>1, <2>1, <3>2 DEF OpenOK
      <4>2. entitlement.active.status \notin Settled
        BY <1>1, <2>1, <3>2, <4>1, SettledIsNotOpen
      <4> QED BY <1>1, <2>1, <4>1, <4>2 DEF Evolves, GuardMoves, SameGeneration, NextGeneration
    <3> QED BY <3>1, <3>2
  <2>2. CASE entitlement = None
    <3>1. Open(d)
      BY <1>1, <2>2, OpenStays
    <3>2. d \in Legacy
      BY <1>1, <2>2, <3>1, UnseededAreOld DEF Open
    <3>3. PICK r \in Requests : SeedInsert(r)
      BY <1>1, <2>2, SeedMakes
    <3>4. /\ req[r].step = "seed"
          /\ entitlement' = Seed(req[r].latest, req[r].doc, req[r].now)
      BY <2>2, <3>3 DEF SeedInsert
    <3>5. req[r].doc # None /\ d = req[r].doc.key
      BY <2>2, <3>1, <3>2, <3>4 DEF LInv, FoundOpen
    <3>6. entitlement'.active.draw = d
      BY <3>4, <3>5 DEF Seed
    <3>7. entitlement'.active # None
      <4>1. PICK doc, now : doc = req[r].doc /\ now = req[r].now
        OBVIOUS
      <4>2. doc \in Docs /\ now \in Times
        BY <1>1, <3>5, <4>1, RequestHere DEF RequestStates
      <4>3. PICK at \in Times, status \in EntitlementStatus :
              entitlement'.active = [draw |-> doc.key, time |-> at, prize |-> doc.prize,
                                     status |-> status]
        <5>1. /\ entitlement' = Seed(req[r].latest, doc, now) /\ doc # None
              /\ doc.time \in Times \cup {None}
              /\ SeedStatus(doc) \in EntitlementStatus
          BY <3>4, <3>5, <4>1, <4>2, DocTypes DEF SeedStatus, EntitlementStatus
        <5>2. PICK valid \in BOOLEAN : valid <=> doc.time # None /\ req[r].latest.time # None
          OBVIOUS
        <5>3. entitlement'.active = [draw |-> doc.key, time |-> IF valid THEN doc.time ELSE now,
                                     prize |-> doc.prize,
                                     status |-> IF valid THEN SeedStatus(doc) ELSE "unresolved"]
          BY <5>1, <5>2 DEF Seed
        <5> QED BY <4>2, <5>1, <5>2, <5>3 DEF EntitlementStatus
      <4>4. entitlement'.active \in Actives
        BY <4>2, <4>3, DocTypes DEF Actives
      <4> QED BY <4>4, NoneAssumption
    <3> QED BY <3>6, <3>7
  <2> QED BY <2>1, <2>2
<1>4. ASSUME entitlement' = None, NEW s \in Requests
      PROVE  FoundOpen(req[s])'
  <2>1. entitlement = None
    BY <1>1, <1>4 DEF Evolves, GuardMoves
  <2>2. req[s] \in RequestStates /\ ReqOK(req[s])
    BY <1>1, RequestHere
  <2>3. FoundOpen(req[s])
    BY <2>1 DEF LInv
  <2>4. PICK q : q = req[s]
    OBVIOUS
  <2>5. PICK x : x = req'[s]
    OBVIOUS
  <2>6. CASE req'[s] = req[s]
    BY <1>1, <2>3, <2>4, <2>6, FoundKept, FoundIs
  <2>7. CASE x.step \notin Seeding
    <3>1. FoundOpen(x)'
      BY <2>7 DEF FoundOpen, Seeding
    <3> QED BY <2>5, <3>1, FoundIs
  <2>8. CASE SeedLatest(s)
    <3>1. CASE x.step \notin {"backfill", "seed"}
      <4>1. FoundOpen(x)'
        BY <3>1 DEF FoundOpen
      <4> QED BY <2>5, <4>1, FoundIs
    <3>2. CASE x.step \in {"backfill", "seed"}
      <4>1. StakingDraws = {}
        <5>1. ASSUME NEW doc,
                     RequestGoes(s, [req[s] EXCEPT !.step = "outstanding", !.latest = doc])
              PROVE  FALSE
          <6>1. PICK y : y = [req[s] EXCEPT !.step = "outstanding", !.latest = doc]
            OBVIOUS
          <6>2. y.step = "outstanding" /\ RequestGoes(s, y)
            BY <2>2, <5>1, <6>1 DEF RequestStates
          <6> QED BY <1>1, <2>5, <3>2, <6>2, StepOf
        <5> QED BY <2>8, <5>1 DEF SeedLatest
      <4>2. \A d \in Legacy : ~Open(d)
        BY <1>1, <4>1, StakingById, OldAreStaking DEF Open
      <4>3. FoundOpen(x)'
        BY <1>1, <4>2, OldOpenStays DEF FoundOpen
      <4> QED BY <2>5, <4>3, FoundIs
    <3> QED BY <3>1, <3>2
  <2>9. CASE SeedOutstanding(s)
    <3>1. PICK doc : /\ IF {e \in StakingDraws : Unclaimed(e)} = {} THEN doc = req[s].latest
                        ELSE doc \in StakingDraws /\ Unclaimed(doc)
                     /\ RequestGoes(s, [req[s] EXCEPT !.doc = doc,
                                          !.step = IF Incomplete(doc) THEN "backfill" ELSE "seed"])
      BY <2>9 DEF SeedOutstanding, IsLast
    <3>2. x.doc = doc
      <4>1. PICK y : y = [req[s] EXCEPT !.doc = doc, !.step = IF Incomplete(doc) THEN "backfill"
                                                                                 ELSE "seed"]
        OBVIOUS
      <4>2. y.doc = doc /\ RequestGoes(s, y)
        BY <2>2, <3>1, <4>1 DEF RequestStates
      <4> QED BY <1>1, <2>5, <4>2, StepOf
    <3>3. ASSUME NEW d \in Legacy, Open(d)
          PROVE  doc # None /\ d = doc.key
      <4>1. draws[d] \in StakingDraws /\ Unclaimed(draws[d])
        BY <1>1, <3>3, StakingById, OldAreStaking DEF Open
      <4>2. doc \in StakingDraws /\ Unclaimed(doc)
        BY <3>1, <4>1
      <4>3. PICK c \in DrawIds : draws[c] # None /\ doc = draws[c]
        BY <4>2 DEF StakingDraws, Stored
      <4>4. doc.key = c /\ doc # None
        BY <1>1, <4>3, StoredIsCopy
      <4>5. c \in Staking /\ Open(c)
        BY <4>2, <4>3, <4>4 DEF StakingDraws, Staking, Open
      <4>6. c \in Legacy
        BY <1>1, <2>1, <4>3, <4>5, UnseededAreOld
      <4> QED BY <1>1, <3>3, <4>4, <4>5, <4>6 DEF OneOpen
    <3>4. FoundOpen(x)'
      BY <1>1, <3>2, <3>3, OldOpenStays DEF FoundOpen
    <3> QED BY <2>5, <3>4, FoundIs
  <2>10. CASE SeedBackfill(s)
    <3>1. PICK doc : doc = req[s].doc
      OBVIOUS
    <3>2. PICK new : new = Backfilled(doc)
      OBVIOUS
    <3>3. /\ draws' = [draws EXCEPT ![new.key] = new]
          /\ RequestGoes(s, [req[s] EXCEPT !.step = "seed", !.doc = new])
          /\ req[s].step = "backfill" /\ UNCHANGED <<entitlement, transfer, old>>
      BY <3>1, <3>2, <2>10 DEF SeedBackfill, RequestGoes
    <3>4. CopyOK(doc) /\ Incomplete(doc)
      BY <2>2, <3>1, <3>3 DEF ReqOK, SeedOK
    <3>5. new # None /\ new.key = doc.key
      BY <1>1, <3>2, <3>3, <3>4, BackfillStores
    <3>6. x.doc = new
      <4>1. PICK y : y = [req[s] EXCEPT !.step = "seed", !.doc = new]
        OBVIOUS
      <4>2. y.doc = new /\ RequestGoes(s, y)
        BY <2>2, <3>3, <4>1 DEF RequestStates
      <4> QED BY <1>1, <2>5, <4>2, StepOf
    <3>7. \A d \in Legacy : Open(d) => d = doc.key
      BY <2>3, <3>1, <3>3 DEF FoundOpen
    <3>8. FoundOpen(x)'
      BY <1>1, <3>5, <3>6, <3>7, OldOpenStays DEF FoundOpen
    <3> QED BY <2>5, <3>8, FoundIs
  <2> QED BY <1>1, <2>5, <2>6, <2>7, <2>8, <2>9, <2>10, SeedingSteps
<1> QED BY <1>1, <1>2, <1>3, <1>4 DEF LInv

LEMMA AtMostOne ==
  ASSUME NEW S, \A a, b \in S : a = b
  PROVE  Cardinality(S) <= 1
<1>1. CASE S = {}
  BY <1>1, FS_EmptySet
<1>2. CASE S # {}
  <2>1. PICK a \in S : TRUE
    BY <1>2
  <2>2. S = {a}
    BY <2>1
  <2>3. Cardinality({a}) = 1
    BY FS_Singleton
  <2> QED BY <2>2, <2>3
<1> QED BY <1>1, <1>2

LEMMA LInvMeans ==
  ASSUME LInv
  PROVE  OneLiability
<1>1. IInv /\ OneOpen /\ OpenOK
  BY DEF LInv
<1>2. ASSUME NEW doc \in StakingDraws, Unclaimed(doc)
      PROVE  doc.key \in Staking /\ Open(doc.key)
  <2>1. PICK d \in DrawIds : draws[d] # None /\ doc = draws[d]
    BY DEF StakingDraws, Stored
  <2>2. doc.key = d
    BY <1>1, <2>1, StoredIsCopy
  <2> QED BY <1>2, <2>1, <2>2 DEF StakingDraws, Staking, Open
<1>3. CASE entitlement = None
  <2>1. \A a \in Liabilities : a \in Staking /\ Open(a)
    BY <1>2, <1>3 DEF Liabilities
  <2>2. \A a \in Liabilities : a \in Legacy
    BY <1>1, <1>3, <2>1, UnseededAreOld DEF Open
  <2>3. \A a, b \in Liabilities : a = b
    BY <1>1, <2>1, <2>2 DEF OneOpen
  <2> QED BY <2>3, AtMostOne DEF OneLiability
<1>4. CASE entitlement # None
  <2>1. \A a \in Liabilities : \/ a \in Staking /\ Open(a)
                               \/ a = entitlement.active.draw
    BY <1>2, <1>4 DEF Liabilities
  <2>2. \A a \in Liabilities : a = entitlement.active.draw
    BY <1>1, <1>4, <2>1 DEF OpenOK
  <2>3. \A a, b \in Liabilities : a = b
    BY <2>2
  <2> QED BY <2>3, AtMostOne DEF OneLiability
<1> QED BY <1>3, <1>4

\* However requests compete, help one another and die, the wallet never has two
\* liabilities of the lottery at once, if the old code did not leave it two.
THEOREM OneLiabilityAtATime == Spec /\ OneOpen => []OneLiability
<1>1. Init /\ OneOpen => LInv
  <2> SUFFICES ASSUME Init, OneOpen PROVE LInv
    OBVIOUS
  <2>1. entitlement = None /\ \A r \in Requests : req[r] = NoRequest
    BY DEF Init
  <2>2. \A r \in Requests : FoundOpen(req[r])
    BY <2>1 DEF FoundOpen, NoRequest
  <2> QED BY <2>1, <2>2, InitOK DEF LInv, OpenOK
<1>2. LInv /\ [Next]_vars => LInv'
  BY LStepOK
<1>3. LInv => OneLiability
  BY LInvMeans
<1> QED BY <1>1, <1>2, <1>3, PTL DEF Spec

-----------------------------------------------------------------------------
(* The rolling window.                                                     *)

\* Where the date of an old draw is missing, no old draw is from later than the start.
UndatedArePast == \A c, d \in Legacy :
  draws[c] # None /\ draws[d] # None /\ draws[c].time = None => draws[d].time \in {None, 0}

\* The window is counted from the latest of all draws.
WindowOK == entitlement # None =>
  /\ \A d \in Staking : draws[d] # None /\ draws[d].time # None =>
        draws[d].time + Interval <= entitlement.eligible
  /\ entitlement.active # None /\ entitlement.generation # 0 =>
        entitlement.active.time + Interval <= entitlement.eligible

\* No draw is later than the one a request found.
NotAfter(doc) == \A d \in Legacy : draws[d] # None =>
  /\ doc # None
  /\ draws[d].time # None => doc.time # None /\ draws[d].time <= doc.time

\* A request that seeds has found the latest draw, and one to guard.
FoundLatest(q) ==
  /\ q.step \in Seeding => NotAfter(q.latest)
  /\ q.step = "seed" /\ q.doc = None => q.latest = None

WInv == /\ IInv /\ UndatedArePast /\ WindowOK
        /\ entitlement = None => \A r \in Requests : FoundLatest(req[r])

\* The old draws are never more, and keep their dates.
LEMMA OldDrawsStay ==
  ASSUME IInv, Evolves, NEW d \in Legacy, draws'[d] # None
  PROVE  draws[d] # None /\ draws'[d].time = draws[d].time
<1>1. d \in DrawIds /\ d \notin Swaps /\ d \notin Generations
  BY OldAreStaking, IdsAssumption
<1> QED BY <1>1 DEF Evolves, NewDrawsGuarded, DrawsGrow

LEMMA LatestIs ==
  ASSUME NEW s \in Requests, NEW x, req'[s] = x, FoundLatest(x)'
  PROVE  FoundLatest(req[s])'
  BY DEF FoundLatest, NotAfter

LEMMA NotAfterKept ==
  ASSUME IInv, Evolves, NEW doc, NotAfter(doc)
  PROVE  NotAfter(doc)'
<1>1. ASSUME NEW d \in Legacy, draws'[d] # None
      PROVE  /\ doc # None
             /\ draws'[d].time # None => doc.time # None /\ draws'[d].time <= doc.time
  BY <1>1, OldDrawsStay DEF NotAfter
<1> QED BY <1>1 DEF NotAfter

LEMMA LatestKept ==
  ASSUME IInv, Evolves, NEW q, FoundLatest(q)
  PROVE  FoundLatest(q)'
  BY NotAfterKept DEF FoundLatest

\* The seed counts the window from the latest draw.
LEMMA SeedWindow ==
  ASSUME WInv, IInv', Evolves, entitlement = None, NEW r \in Requests, SeedInsert(r)
  PROVE  WindowOK'
<1>1. PICK latest, doc, now :
        latest = req[r].latest /\ doc = req[r].doc /\ now = req[r].now
  OBVIOUS
<1>2. /\ req[r].step = "seed" /\ draws' = draws /\ IInv
      /\ entitlement' = Seed(latest, doc, now)
      /\ req[r] \in RequestStates /\ ReqOK(req[r])
  BY <1>1, RequestHere DEF SeedInsert, WInv
<1>3. /\ now \in Nat
      /\ doc # None => /\ latest # None /\ CopyOK(doc) /\ CopyOK(latest)
                       /\ doc \in Docs /\ latest \in Docs /\ doc.key \notin Swaps
  BY <1>1, <1>2, Numbers DEF RequestStates, ReqOK, SeedOK, CopyOK
<1>4. NotAfter(latest) /\ (doc = None => latest = None)
  BY <1>1, <1>2 DEF WInv, FoundLatest, Seeding
<1>5. entitlement'.generation = 0
  BY <1>2 DEF Seed
<1>6. ASSUME NEW d \in Staking, draws[d] # None, draws[d].time # None
      PROVE  draws[d].time + Interval <= entitlement'.eligible
  <2>1. d \in Legacy
    BY <1>2, <1>6, UnseededAreOld
  <2>2. /\ latest # None /\ doc # None
        /\ latest.time # None /\ draws[d].time <= latest.time
    BY <1>4, <1>6, <2>1 DEF NotAfter
  <2>3. draws[d].time \in Nat /\ latest.time \in Nat
    <3>1. d \in DrawIds
      BY OldAreStaking, <2>1
    <3>2. draws[d] \in Docs
      BY <1>2, <1>6, <3>1, StoredIsCopy
    <3>3. draws[d].time \in Times /\ latest.time \in Times
      BY <1>3, <1>6, <2>2, <3>2, DocTypes
    <3> QED BY <3>3, Numbers
  <2>4. CASE doc.time # None
    <3>1. entitlement'.eligible = latest.time + Interval
      BY <1>2, <2>2, <2>4 DEF Seed
    <3> QED BY <2>2, <2>3, <3>1, Numbers
  <2>5. CASE doc.time = None
    <3>1. entitlement'.eligible = now + Interval
      BY <1>2, <2>2, <2>5 DEF Seed
    <3>2. doc.key \in Staking /\ draws[doc.key] # None /\ draws[doc.key].time = None
      BY <1>3, <2>2, <2>5, DocTypes DEF CopyOK, Staking
    <3>3. doc.key \in Legacy
      BY <1>2, <3>2, UnseededAreOld
    <3>4. draws[d].time = 0
      BY <1>6, <2>1, <3>2, <3>3 DEF WInv, UndatedArePast
    <3> QED BY <1>3, <3>1, <3>4, Numbers
  <2> QED BY <2>4, <2>5
<1> QED BY <1>2, <1>5, <1>6 DEF WindowOK

\* The next generation starts when the window is over.
LEMMA WindowMoves ==
  ASSUME IInv, WindowOK, Evolves, IInv', entitlement # None
  PROVE  WindowOK'
<1>1. /\ entitlement \in Entitlements /\ entitlement.eligible \in Nat
      /\ entitlement' # None /\ entitlement' \in Entitlements
  BY GuardRanges, EntitlementTypes DEF IInv, TypeOK, Evolves, GuardMoves
<1>2. PICK e \in Entitlements : e = entitlement'
  BY <1>1
<1>3. /\ e.eligible \in Nat /\ e.generation \in Nat
      /\ e.active # None => e.active.time \in Nat
  BY EntitlementTypes
<1>4. ASSUME NEW d \in Staking, draws[d] # None, draws[d].time # None
      PROVE  draws[d].time \in Nat /\ draws[d].time + Interval <= entitlement.eligible
  <2>1. draws[d] \in Docs
    BY <1>4, StoredIsCopy DEF Staking
  <2>2. draws[d].time \in Nat
    BY <1>4, <2>1, DocTypes, Numbers
  <2> QED BY <1>4, <2>2 DEF WindowOK
<1>5. CASE SameGeneration
  <2>1. ASSUME NEW d \in Staking, draws'[d] # None, draws'[d].time # None
        PROVE  draws'[d].time + Interval <= e.eligible
    <3>1. d \in DrawIds /\ d \notin Swaps
      BY DEF Staking
    <3>2. e.eligible = entitlement.eligible
      BY <1>2, <1>5 DEF SameGeneration
    <3>3. CASE draws[d] # None
      BY <1>4, <2>1, <3>1, <3>2, <3>3 DEF Evolves, DrawsGrow
    <3>4. CASE draws[d] = None
      <4>1. /\ entitlement.active # None /\ entitlement.generation # 0
            /\ draws'[d].time = entitlement.active.time
        BY <2>1, <3>1, <3>4, Numbers DEF Evolves, NewDrawsGuarded
      <4> QED BY <1>1, <3>2, <4>1 DEF WindowOK
    <3> QED BY <3>3, <3>4
  <2>2. e.active # None /\ e.generation # 0 => e.active.time + Interval <= e.eligible
    BY <1>2, <1>5 DEF SameGeneration, WindowOK
  <2> QED BY <1>2, <2>1, <2>2 DEF WindowOK
<1>6. CASE NextGeneration
  <2>1. /\ e.active # None /\ entitlement.eligible <= e.active.time
        /\ e.eligible = e.active.time + Interval /\ draws' = draws
    BY <1>2, <1>6 DEF NextGeneration
  <2>2. ASSUME NEW d \in Staking, draws'[d] # None, draws'[d].time # None
        PROVE  draws'[d].time + Interval <= e.eligible
    BY <1>1, <1>3, <1>4, <2>1, <2>2, Numbers
  <2> QED BY <1>2, <1>3, <2>1, <2>2, Numbers DEF WindowOK
<1> QED BY <1>5, <1>6 DEF Evolves, GuardMoves

LEMMA WStepOK ==
  ASSUME WInv, [Next]_vars
  PROVE  WInv'
<1>1. IInv /\ UndatedArePast /\ WindowOK /\ IInv' /\ Evolves
  BY StepOK DEF WInv
<1>2. UndatedArePast'
  BY <1>1, OldDrawsStay DEF UndatedArePast
<1>3. WindowOK'
  <2>1. CASE entitlement # None
    BY <1>1, <2>1, WindowMoves
  <2>2. CASE entitlement = None /\ entitlement' # None
    BY <1>1, <2>2, SeedMakes, SeedWindow
  <2>3. CASE entitlement' = None
    BY <2>3 DEF WindowOK
  <2> QED BY <2>1, <2>2, <2>3
<1>4. ASSUME entitlement' = None, NEW s \in Requests
      PROVE  FoundLatest(req[s])'
  <2>1. entitlement = None
    BY <1>1, <1>4 DEF Evolves, GuardMoves
  <2>2. req[s] \in RequestStates /\ ReqOK(req[s])
    BY <1>1, RequestHere
  <2>3. FoundLatest(req[s])
    BY <2>1 DEF WInv
  <2>4. PICK q : q = req[s]
    OBVIOUS
  <2>5. PICK x : x = req'[s]
    OBVIOUS
  <2>6. CASE req'[s] = req[s]
    BY <1>1, <2>3, <2>4, <2>6, LatestKept, LatestIs
  <2>7. CASE x.step \notin Seeding
    <3>1. FoundLatest(x)'
      BY <2>7 DEF FoundLatest, Seeding
    <3> QED BY <2>5, <3>1, LatestIs
  <2>8. CASE SeedLatest(s)
    <3>1. ASSUME NEW doc \in StakingDraws, IsLast(doc, StakingDraws),
                 RequestGoes(s, [req[s] EXCEPT !.step = "outstanding", !.latest = doc])
          PROVE  FoundLatest(req[s])'
      <4>1. PICK y : y = [req[s] EXCEPT !.step = "outstanding", !.latest = doc]
        OBVIOUS
      <4>2. y.step = "outstanding" /\ y.latest = doc /\ RequestGoes(s, y)
        BY <2>2, <3>1, <4>1 DEF RequestStates
      <4>3. doc # None
        BY <1>1, StakingIsCopy, DocTypes
      <4>4. NotAfter(doc)
        <5>1. ASSUME NEW d \in Legacy, draws[d] # None, draws[d].time # None
              PROVE  doc.time # None /\ draws[d].time <= doc.time
          <6>1. draws[d] \in StakingDraws /\ d \in DrawIds /\ draws[d] \in Docs
            BY <1>1, <5>1, StakingById, StoredIsCopy, OldAreStaking
          <6>2. doc.time # None /\ doc.time >= draws[d].time
            BY <3>1, <5>1, <6>1 DEF IsLast
          <6>3. doc.time \in Nat /\ draws[d].time \in Nat
            BY <1>1, <5>1, <6>1, <6>2, StakingIsCopy, DocTypes, Numbers
          <6> QED BY <6>2, <6>3
        <5> QED BY <4>3, <5>1 DEF NotAfter
      <4>5. FoundLatest(y)'
        BY <1>1, <4>2, <4>4, NotAfterKept DEF FoundLatest
      <4> QED BY <1>1, <4>2, <4>5, StepOf, LatestIs
    <3>2. ASSUME StakingDraws = {}, RequestGoes(s, [req[s] EXCEPT !.step = "seed"])
          PROVE  FoundLatest(req[s])'
      <4>1. PICK y : y = [req[s] EXCEPT !.step = "seed"]
        OBVIOUS
      <4>2. y.step = "seed" /\ y.latest = req[s].latest /\ RequestGoes(s, y)
        BY <2>2, <3>2, <4>1 DEF RequestStates
      <4>3. \A d \in Staking : draws[d] = None
        BY <1>1, <3>2, StakingById
      <4>4. y.latest = None
        <5>1. SUFFICES ASSUME y.latest # None PROVE FALSE
          OBVIOUS
        <5>2. CopyOK(y.latest) /\ y.latest.key \notin Swaps
          BY <2>2, <4>2, <5>1 DEF ReqOK, SeedOK
        <5>3. y.latest.key \in Staking /\ draws[y.latest.key] # None
          BY <5>2, DocTypes DEF CopyOK, Staking
        <5> QED BY <4>3, <5>3
      <4>5. NotAfter(y.latest)
        BY <4>3, OldAreStaking DEF NotAfter
      <4>6. PICK latest : latest = y.latest
        OBVIOUS
      <4>7. FoundLatest(y)'
        BY <1>1, <4>4, <4>5, <4>6, NotAfterKept DEF FoundLatest
      <4> QED BY <1>1, <4>2, <4>7, StepOf, LatestIs
    <3> QED BY <2>8, <3>1, <3>2 DEF SeedLatest
  <2>9. CASE SeedOutstanding(s) \/ SeedBackfill(s)
    <3>1. PICK y : /\ RequestGoes(s, y)
                   /\ y.latest = req[s].latest /\ y.doc # None
                   /\ req[s].step \in Seeding
      <4>1. CASE SeedOutstanding(s)
        <5>1. PICK doc \in StakingDraws \cup {req[s].latest} :
                RequestGoes(s, [req[s] EXCEPT !.doc = doc,
                                  !.step = IF Incomplete(doc) THEN "backfill" ELSE "seed"])
          BY <4>1 DEF SeedOutstanding
        <5>2. req[s].step = "outstanding" /\ req[s].latest # None
          BY <2>2, <4>1 DEF SeedOutstanding, ReqOK, SeedOK
        <5>3. doc # None
          BY <1>1, <5>1, <5>2, StakingIsCopy, DocTypes
        <5>4. PICK y : y = [req[s] EXCEPT !.doc = doc, !.step = IF Incomplete(doc) THEN "backfill"
                                                                                   ELSE "seed"]
          OBVIOUS
        <5>5. y.latest = req[s].latest /\ y.doc = doc /\ RequestGoes(s, y)
          BY <2>2, <5>1, <5>4 DEF RequestStates
        <5> QED BY <5>2, <5>3, <5>5 DEF Seeding
      <4>2. CASE SeedBackfill(s)
        <5>1. PICK doc : doc = req[s].doc
          OBVIOUS
        <5>2. PICK new : new = Backfilled(doc)
          OBVIOUS
        <5>3. /\ draws' = [draws EXCEPT ![new.key] = new]
              /\ RequestGoes(s, [req[s] EXCEPT !.step = "seed", !.doc = new])
              /\ req[s].step = "backfill" /\ UNCHANGED <<entitlement, transfer, old>>
          BY <4>2, <5>1, <5>2 DEF SeedBackfill, RequestGoes
        <5>4. CopyOK(doc) /\ Incomplete(doc)
          BY <2>2, <5>1, <5>3 DEF ReqOK, SeedOK
        <5>5. new # None
          BY <1>1, <5>2, <5>3, <5>4, BackfillStores
        <5>6. PICK y : y = [req[s] EXCEPT !.step = "seed", !.doc = new]
          OBVIOUS
        <5>7. y.latest = req[s].latest /\ y.doc = new /\ RequestGoes(s, y)
          BY <2>2, <5>3, <5>6 DEF RequestStates
        <5> QED BY <5>3, <5>5, <5>7 DEF Seeding
      <4> QED BY <2>9, <4>1, <4>2
    <3>2. PICK latest : latest = req[s].latest
      OBVIOUS
    <3>3. NotAfter(latest)
      BY <2>3, <3>1, <3>2 DEF FoundLatest
    <3>4. FoundLatest(y)'
      BY <1>1, <3>1, <3>2, <3>3, NotAfterKept DEF FoundLatest
    <3> QED BY <1>1, <3>1, <3>4, StepOf, LatestIs
  <2> QED BY <1>1, <2>5, <2>6, <2>7, <2>8, <2>9, SeedingSteps
<1> QED BY <1>1, <1>2, <1>3, <1>4 DEF WInv

\* A new generation starts an interval after every earlier draw, whichever
\* process reserved it and when it read the clock.
THEOREM TheWindowIsKept == Spec /\ UndatedArePast => WindowKept
<1>1. Init /\ UndatedArePast => WInv
  <2> SUFFICES ASSUME Init, UndatedArePast PROVE WInv
    OBVIOUS
  <2>1. entitlement = None /\ \A r \in Requests : req[r] = NoRequest
    BY DEF Init
  <2>2. \A r \in Requests : FoundLatest(req[r])
    BY <2>1 DEF FoundLatest, NoRequest, Seeding
  <2> QED BY <2>1, <2>2, InitOK DEF WInv, WindowOK
<1>2. WInv /\ [Next]_vars => WInv'
  BY WStepOK
<1>3. ASSUME WInv, [Next]_vars
      PROVE  \A doc \in StakingDraws :
               /\ entitlement # None
               /\ entitlement'.generation # entitlement.generation
               /\ doc.time # None
               => entitlement'.active.time >= doc.time + Interval
  <2> SUFFICES ASSUME NEW doc \in StakingDraws, entitlement # None, doc.time # None,
                      entitlement'.generation # entitlement.generation
               PROVE  entitlement'.active.time >= doc.time + Interval
    OBVIOUS
  <2>1. IInv /\ IInv' /\ Evolves /\ WindowOK
    BY <1>3, StepOK DEF WInv
  <2>2. NextGeneration
    BY <2>1 DEF Evolves, GuardMoves, SameGeneration
  <2>3. /\ entitlement.eligible <= entitlement'.active.time
        /\ entitlement'.active # None /\ entitlement' # None
    BY <2>1, <2>2 DEF NextGeneration, Evolves, GuardMoves
  <2>4. PICK e : e = entitlement'
    OBVIOUS
  <2>5. e.active.time \in Nat /\ entitlement.eligible \in Nat
    BY <2>1, <2>3, <2>4, EntitlementTypes DEF IInv, TypeOK
  <2>6. PICK d \in DrawIds : draws[d] # None /\ doc = draws[d]
    BY DEF StakingDraws, Stored
  <2>7. doc.key = d /\ doc \in Docs
    BY <2>1, <2>6, StoredIsCopy
  <2>8. doc.time + Interval <= entitlement.eligible
    BY <2>1, <2>6, <2>7 DEF StakingDraws, Staking, WindowOK
  <2>9. doc.time \in Nat
    BY <2>7, DocTypes, Numbers
  <2> QED BY <2>3, <2>4, <2>5, <2>8, <2>9, Numbers
<1> QED BY <1>1, <1>2, <1>3, PTL DEF Spec, WindowKept

=============================================================================
