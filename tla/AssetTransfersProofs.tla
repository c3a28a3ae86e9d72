------------------------ MODULE AssetTransfersProofs ------------------------
(***************************************************************************)
(* Machine-checked facts about AssetTransfers, for every set of operations,*)
(* terms and workers, every validity window and every bound on the chain.  *)
(***************************************************************************)
EXTENDS AssetTransfers, TLAPS

(***************************************************************************)
(* The inductive invariant.  The safety properties speak of the collection *)
(* and the chain; they are inductive only together with what each call     *)
(* knows between two of its steps.                                         *)
(***************************************************************************)

\* The steps of a call that works with the stored intent, and those of them
\* that execute takes.
LateSteps == ExecuteSteps \ {"prepare", "reserve"}
BoundSteps == LateSteps \cup ReconcileSteps

\* A stored intent belongs to its operation; an absent one is NoIntent.
IntentsBound == \A o \in Ops : \/ intents[o] = NoIntent
                               \/ /\ intents[o].tx \in Txn
                                  /\ intents[o].tx.op = o
                                  /\ intents[o].status # "none"

\* A pooled transaction is not confirmed yet.
PoolUnpaid == \A t \in pool : confirmedAt[t] = 0

\* The intent collection and the chain agree.
StoreOK == IntentsBound /\ WriteAhead /\ PoolUnpaid /\ RecordedIsPaid

\* A call works for its request ...
CallRequest(w) ==
  /\ pc[w] # "idle" => answer[w] = NoAnswer /\ req[w] \in Requests
  /\ pc[w] \in ExecuteSteps => req[w].terms \in Terms
  /\ pc[w] \in ReconcileSteps => req[w].terms = None

\* ... with a transaction of that request, which is the stored one as soon as
\* the call read or reserved the intent ...
CallTransaction(w) ==
  /\ pc[w] \in BoundSteps \cup {"reserve"} => tx[w] \in Txn /\ tx[w].op = req[w].op
  /\ pc[w] \in LateSteps \cup {"reserve"} => tx[w].terms = req[w].terms
  /\ pc[w] \in BoundSteps => intents[req[w].op].tx = tx[w]

\* ... and with facts it established by earlier steps.
CallKnowledge(w) ==
  /\ pc[w] = "broadcast" => intents[req[w].op].attempted
  /\ pc[w] \in {"confirm", "rec_confirm"} => seen[w] # 0 /\ confirmedAt[tx[w]] = seen[w]
  /\ pc[w] \in {"expired_lookup", "expired_error"} => LastValid(tx[w]) < round

\* Answers stay true after they were given.
ReceiptTrue(w) == /\ tx[w] \in Txn
                  /\ req[w] \in Requests
                  /\ answer[w].round # 0
                  /\ confirmedAt[tx[w]] = answer[w].round
                  /\ tx[w].op = req[w].op
                  /\ req[w].terms \in {None, tx[w].terms}
ConflictTrue(w) == /\ req[w] \in Requests
                   /\ intents[req[w].op] # NoIntent
                   /\ intents[req[w].op].tx.terms # req[w].terms
ExpiredTrue(w) == tx[w] \in Txn /\ LastValid(tx[w]) < round
AnswerTrue(w) ==
  /\ answer[w].kind = "receipt" => ReceiptTrue(w)
  /\ answer[w].kind = "conflict" => ConflictTrue(w)
  /\ answer[w].kind = "expired" => ExpiredTrue(w)

CallOK(w) == CallRequest(w) /\ CallTransaction(w) /\ CallKnowledge(w) /\ AnswerTrue(w)

IInv == TypeOK /\ StoreOK /\ \A w \in Workers : CallOK(w)

-----------------------------------------------------------------------------
(* Type correctness.                                                       *)

\* Records of the right shape: what the repository stores is an intent.
LEMMA IntentTypes ==
  ASSUME NEW i \in Intents, NEW t \in Txn, NEW r \in 0 .. MaxRound
  PROVE  /\ NoIntent \in Intents
         /\ Stored(i, t) \in Intents
         /\ Attempted(i) \in Intents
         /\ Submitted(i) \in Intents
         /\ Failed(i) \in Intents
         /\ Confirmed(i, r) \in Intents
<1> USE BoundsAssumption DEF Intents, Statuses
<1>1. NoIntent \in Intents
  BY DEF NoIntent
<1>2. Stored(i, t) \in Intents
  BY DEF Stored, PreparedIntent, NoIntent
<1>3. Attempted(i) \in Intents
  BY DEF Attempted, Updated
<1>4. Submitted(i) \in Intents
  BY DEF Submitted, Updated
<1>5. Failed(i) \in Intents
  BY DEF Failed, Updated
<1>6. Confirmed(i, r) \in Intents
  BY DEF Confirmed, Updated
<1> QED BY <1>1, <1>2, <1>3, <1>4, <1>5, <1>6

\* A repository update that ends or continues a call keeps the types.
LEMMA StoreType ==
  ASSUME TypeOK, NEW w \in Workers, NEW i \in Intents, NEW step \in Steps, Store(w, i, step)
  PROVE  TypeOK'
<1>1. intents' \in [Ops -> Intents]
  BY DEF TypeOK, Store
<1>2. UNCHANGED chainVars /\ UNCHANGED <<req, tx, seen>>
  BY DEF Store, Answer, Goto
<1>3. CASE i.status = "confirmed"
  <2>1. Answer(w, "receipt", i.round)
    BY <1>3 DEF Store
  <2>2. [kind |-> "receipt", round |-> i.round] \in Answers
    BY DEF Answers, AnswerKinds, Intents
  <2>3. "idle" \in Steps
    BY DEF Steps
  <2> QED BY <1>1, <1>2, <2>1, <2>2, <2>3 DEF TypeOK, Answer, chainVars
<1>4. CASE i.status # "confirmed"
  BY <1>1, <1>2, <1>4 DEF TypeOK, Store, Goto, chainVars
<1> QED BY <1>3, <1>4

\* Init establishes the types.
LEMMA InitType == Init => TypeOK
  BY BoundsAssumption DEF Init, TypeOK, Intents, NoIntent, Statuses, Steps, Answers, NoAnswer,
     AnswerKinds

\* What execute does with a well-typed intent keeps the types of the call.
LEMMA ProceedType ==
  ASSUME TypeOK, NEW w \in Workers, NEW i \in Intents, NEW r \in Requests, Proceed(w, i, r)
  PROVE  /\ pc' \in [Workers -> Steps]
         /\ req' \in [Workers -> Requests \cup {None}]
         /\ tx' \in [Workers -> Txn \cup {None}]
         /\ seen' \in [Workers -> 0 .. MaxRound]
         /\ answer' \in [Workers -> Answers]
<1>1. /\ {"idle", "window"} \subseteq Steps
      /\ NoAnswer \in Answers
      /\ [kind |-> "conflict", round |-> 0] \in Answers
      /\ [kind |-> "receipt", round |-> i.round] \in Answers
  BY BoundsAssumption DEF Steps, ExecuteSteps, NoAnswer, Answers, AnswerKinds, Intents
<1>2. i.tx \in Txn \cup {None}
  BY DEF Intents
<1> QED BY <1>1, <1>2 DEF TypeOK, Proceed

\* Recording an error keeps the types, whether the call fails or finds the
\* intent confirmed.
LEMMA GivenUpType ==
  ASSUME TypeOK, NEW w \in Workers, NEW step, NEW kind \in AnswerKinds,
         GivenUp(w, step, kind), req[w] \in Requests
  PROVE  TypeOK'
<1> DEFINE i == Failed(intents[req[w].op])
<1>1. i \in Intents
  <2>1. intents[req[w].op] \in Intents
    BY DEF TypeOK, Requests
  <2> QED BY <2>1 DEF Failed, Updated, Intents
<1>2. /\ "idle" \in Steps
      /\ [kind |-> "receipt", round |-> i.round] \in Answers
      /\ [kind |-> kind, round |-> 0] \in Answers
  BY <1>1, BoundsAssumption DEF Steps, Answers, AnswerKinds, Intents
<1>3. \/ Answer(w, "receipt", i.round)
      \/ Answer(w, kind, 0)
  BY DEF GivenUp
<1>4. UNCHANGED chainVars /\ intents' = [intents EXCEPT ![req[w].op] = i]
  BY DEF GivenUp
<1> HIDE DEF i
<1> QED BY <1>1, <1>2, <1>3, <1>4 DEF TypeOK, Answer, chainVars

\* Every step keeps the types, if calls work for requests and with transactions.
LEMMA StepType ==
  ASSUME TypeOK, \A w \in Workers : CallRequest(w) /\ CallTransaction(w), [Next]_vars
  PROVE  TypeOK'
<1> USE BoundsAssumption DEF TypeOK
<1> DEFINE Named == {"prepare", "reserve", "window", "expired_lookup", "expired_error",
                     "attempt", "broadcast", "submit", "wait", "wait_error", "confirm",
                     "rec_lookup", "rec_confirm", "idle"}
<1>0. /\ Named \subseteq Steps
      /\ NoAnswer \in Answers
      /\ \A k \in AnswerKinds : [kind |-> k, round |-> 0] \in Answers
  BY DEF Steps, ExecuteSteps, ReconcileSteps, NoAnswer, Answers, AnswerKinds
<1>1. CASE NewBlock
  BY <1>1 DEF NewBlock, callVars
<1>2. ASSUME NEW w \in Workers, NEW o \in Ops, NEW c \in Terms,
             ExecuteNew(w, [op |-> o, terms |-> c])
      PROVE  TypeOK'
  BY <1>0, <1>2 DEF ExecuteNew, Requests, chainVars
<1>3. ASSUME NEW w \in Workers, NEW o \in Ops, NEW c \in Terms,
             ExecuteKnown(w, [op |-> o, terms |-> c])
      PROVE  TypeOK'
  <2>1. [op |-> o, terms |-> c] \in Requests
    BY DEF Requests
  <2> QED BY <1>3, <2>1, ProceedType DEF ExecuteKnown, chainVars
<1>4. ASSUME NEW w \in Workers, NEW o \in Ops, ReconcileSettled(w, o)
      PROVE  TypeOK'
  <2>1. [op |-> o, terms |-> None] \in Requests
    BY DEF Requests
  <2>2. [kind |-> IF intents[o] = NoIntent THEN "missing" ELSE "receipt",
         round |-> intents[o].round] \in Answers
    BY DEF Answers, AnswerKinds, Intents
  <2>3. intents[o].tx \in Txn \cup {None}
    BY DEF Intents
  <2> QED BY <1>4, <2>1, <2>2, <2>3 DEF ReconcileSettled, chainVars
<1>5. ASSUME NEW w \in Workers, NEW o \in Ops, ReconcileOpen(w, o)
      PROVE  TypeOK'
  <2>1. [op |-> o, terms |-> None] \in Requests
    BY DEF Requests
  <2>2. intents[o].tx \in Txn \cup {None}
    BY DEF Intents
  <2> QED BY <1>0, <1>5, <2>1, <2>2 DEF ReconcileOpen, chainVars
<1>6. ASSUME NEW w \in Workers, Prepare(w)
      PROVE  TypeOK'
  <2>1. req[w] \in Requests /\ req[w].terms \in Terms
    BY <1>6 DEF Prepare, CallRequest, ExecuteSteps
  <2>2. \A r \in NodeRounds : [op |-> req[w].op, terms |-> req[w].terms, first |-> r] \in Txn
    BY <2>1 DEF Requests, Txn, NodeRounds
  <2> QED BY <1>0, <1>6, <2>2 DEF Prepare, chainVars
<1>7. ASSUME NEW w \in Workers, Reserve(w)
      PROVE  TypeOK'
  <2>1. req[w] \in Requests /\ tx[w] \in Txn
    BY <1>7 DEF Reserve, CallRequest, CallTransaction, ExecuteSteps
  <2>2. Stored(intents[req[w].op], tx[w]) \in Intents
    BY <2>1, IntentTypes DEF Requests
  <2> QED BY <1>7, <2>1, <2>2, ProceedType DEF Reserve, chainVars
<1>8. ASSUME NEW w \in Workers, CheckWindow(w)
      PROVE  TypeOK'
  BY <1>0, <1>8 DEF CheckWindow, Goto, chainVars
<1>9. ASSUME NEW w \in Workers, ExpiredLookupFails(w)
      PROVE  TypeOK'
  BY <1>0, <1>9 DEF ExpiredLookupFails, Goto, chainVars
<1>10. ASSUME NEW w \in Workers, BroadcastFails(w)
      PROVE  TypeOK'
  BY <1>0, <1>10 DEF BroadcastFails, Goto, chainVars
<1>11. ASSUME NEW w \in Workers, MarkSubmittedFails(w)
      PROVE  TypeOK'
  BY <1>0, <1>11 DEF MarkSubmittedFails, Goto, chainVars
<1>12. ASSUME NEW w \in Workers, AwaitFails(w)
      PROVE  TypeOK'
  BY <1>0, <1>12 DEF AwaitFails, Goto, chainVars
<1>13. ASSUME NEW w \in Workers, ExpiredLookupFinds(w)
      PROVE  TypeOK'
  <2>1. confirmedAt[tx[w]] \in 0 .. MaxRound
    BY <1>13 DEF ExpiredLookupFinds, CallTransaction, BoundSteps, LateSteps, ExecuteSteps
  <2> QED BY <1>0, <1>13, <2>1 DEF ExpiredLookupFinds, Learn, chainVars
<1>14. ASSUME NEW w \in Workers, AwaitConfirmation(w)
      PROVE  TypeOK'
  <2>1. confirmedAt[tx[w]] \in 0 .. MaxRound
    BY <1>14 DEF AwaitConfirmation, CallTransaction, BoundSteps, LateSteps, ExecuteSteps
  <2> QED BY <1>0, <1>14, <2>1 DEF AwaitConfirmation, Learn, chainVars
<1>15. ASSUME NEW w \in Workers, BroadcastAccepted(w)
      PROVE  TypeOK'
  <2>1. tx[w] \in Txn
    BY <1>15 DEF BroadcastAccepted, CallTransaction, BoundSteps, LateSteps, ExecuteSteps
  <2> QED BY <1>0, <1>15, <2>1 DEF BroadcastAccepted, Goto
<1>16. ASSUME NEW w \in Workers, RecordAttempt(w)
      PROVE  TypeOK'
  <2>1. req[w] \in Requests /\ tx[w] \in Txn
    BY <1>16 DEF RecordAttempt, CallRequest, CallTransaction, BoundSteps, LateSteps, ExecuteSteps
  <2>2. Attempted(intents[req[w].op]) \in Intents
    BY <2>1, IntentTypes DEF Requests
  <2> QED BY <1>0, <1>16, <2>2, StoreType DEF RecordAttempt
<1>17. ASSUME NEW w \in Workers, MarkSubmitted(w)
      PROVE  TypeOK'
  <2>1. req[w] \in Requests /\ tx[w] \in Txn
    BY <1>17 DEF MarkSubmitted, CallRequest, CallTransaction, BoundSteps, LateSteps, ExecuteSteps
  <2>2. Submitted(intents[req[w].op]) \in Intents
    BY <2>1, IntentTypes DEF Requests
  <2> QED BY <1>0, <1>17, <2>2, StoreType DEF MarkSubmitted
<1>18. ASSUME NEW w \in Workers, MarkConfirmed(w)
      PROVE  TypeOK'
  <2>1. req[w] \in Requests /\ tx[w] \in Txn /\ seen[w] \in 0 .. MaxRound
    BY <1>18 DEF MarkConfirmed, CallRequest, CallTransaction, BoundSteps, LateSteps,
                 ExecuteSteps, ReconcileSteps
  <2>2. Confirmed(intents[req[w].op], seen[w]) \in Intents
    BY <2>1, IntentTypes DEF Requests
  <2> QED BY <1>0, <1>18, <2>2, StoreType DEF MarkConfirmed
<1>19. ASSUME NEW w \in Workers, RecordExpired(w) \/ RecordUnresolved(w)
      PROVE  TypeOK'
  <2>1. req[w] \in Requests
    BY <1>19 DEF RecordExpired, RecordUnresolved, GivenUp, CallRequest
  <2>2. {"expired", "pending"} \subseteq AnswerKinds
    BY DEF AnswerKinds
  <2> QED BY <1>19, <2>1, <2>2, GivenUpType DEF RecordExpired, RecordUnresolved
<1>20. ASSUME NEW w \in Workers, ReconcileLookupFinds(w)
      PROVE  TypeOK'
  <2>1. confirmedAt[tx[w]] \in 0 .. MaxRound
    BY <1>20 DEF ReconcileLookupFinds, CallTransaction, BoundSteps, ReconcileSteps
  <2> QED BY <1>0, <1>20, <2>1 DEF ReconcileLookupFinds, Learn, chainVars
<1>21. ASSUME NEW w \in Workers, ReconcileLookupFails(w)
      PROVE  TypeOK'
  <2>1. [kind |-> "unavailable", round |-> 0] \in Answers
    BY DEF Answers, AnswerKinds
  <2> QED BY <1>0, <1>21, <2>1 DEF ReconcileLookupFails, Answer, chainVars
<1>22. ASSUME NEW w \in Workers, Abandon(w)
      PROVE  TypeOK'
  BY <1>0, <1>22 DEF Abandon, chainVars
<1>23. CASE UNCHANGED vars
  BY <1>23 DEF vars, chainVars, callVars
<1> QED
  BY <1>1, <1>2, <1>3, <1>4, <1>5, <1>6, <1>7, <1>8, <1>9, <1>10, <1>11, <1>12, <1>13, <1>14,
     <1>15, <1>16, <1>17, <1>18, <1>19, <1>20, <1>21, <1>22, <1>23
     DEF Next, Start, Call

-----------------------------------------------------------------------------
(* What no step undoes.                                                    *)

\* Intents keep their transaction and their attempt, confirmations keep their
\* round, and the chain does not go back.
Evolves ==
  /\ \A o \in Ops : intents[o] # NoIntent =>
       /\ intents'[o] # NoIntent
       /\ intents'[o].tx = intents[o].tx
       /\ intents[o].attempted => intents'[o].attempted
       /\ intents[o].status = "confirmed" => intents'[o] = intents[o]
  /\ \A t \in Txn : confirmedAt[t] # 0 => confirmedAt'[t] = confirmedAt[t]
  /\ round <= round'

\* An update the repository may make to the intent of operation o.
Admissible(o, i) ==
  /\ intents[o] # NoIntent
  /\ i.status # "none"
  /\ i.tx = intents[o].tx
  /\ intents[o].attempted => i.attempted
  /\ intents[o].status = "confirmed" => i = intents[o]
  /\ i.status = "confirmed" /\ intents[o].status # "confirmed" =>
       i.round # 0 /\ confirmedAt[i.tx] = i.round /\ ~i.error

\* Each update of the repository is one of these, given a confirmation on chain
\* for mark_confirmed.
LEMMA UpdatesAdmissible ==
  ASSUME TypeOK, IntentsBound, NEW o \in Ops, intents[o] # NoIntent
  PROVE  /\ Admissible(o, Attempted(intents[o]))
         /\ Admissible(o, Submitted(intents[o]))
         /\ Admissible(o, Failed(intents[o]))
         /\ \A r \in 0 .. MaxRound : r # 0 /\ confirmedAt[intents[o].tx] = r =>
              Admissible(o, Confirmed(intents[o], r))
<1> DEFINE i == intents[o]
<1>1. i \in Intents /\ i.status # "none" /\ i # NoIntent
  BY DEF TypeOK, IntentsBound
<1>2. CASE i.status = "confirmed"
  BY <1>1, <1>2 DEF Admissible, Attempted, Submitted, Failed, Confirmed, Updated
<1>3. CASE i.status # "confirmed"
  <2> USE <1>1, <1>3 DEF Intents, Admissible, Updated
  <2>1. Admissible(o, Attempted(i))
    BY DEF Attempted
  <2>2. Admissible(o, Submitted(i))
    BY DEF Submitted
  <2>3. Admissible(o, Failed(i))
    BY DEF Failed
  <2>4. \A r \in 0 .. MaxRound : r # 0 /\ confirmedAt[i.tx] = r => Admissible(o, Confirmed(i, r))
    BY DEF Confirmed
  <2> QED BY <2>1, <2>2, <2>3, <2>4
<1> QED BY <1>2, <1>3

\* An admissible update keeps collection and chain in agreement.
LEMMA UpdateKeepsStore ==
  ASSUME TypeOK, StoreOK, NEW o \in Ops, NEW i \in Intents, Admissible(o, i),
         intents' = [intents EXCEPT ![o] = i], UNCHANGED chainVars
  PROVE  StoreOK' /\ Evolves
<1>1. /\ intents'[o] = i
      /\ \A p \in Ops \ {o} : intents'[p] = intents[p]
      /\ UNCHANGED <<round, pool, confirmedAt>>
  BY DEF TypeOK, chainVars
<1>2. intents[o].tx \in Txn /\ intents[o].tx.op = o
  BY DEF Admissible, StoreOK, IntentsBound
<1>3. IntentsBound'
  BY <1>1, <1>2 DEF StoreOK, IntentsBound, Admissible
<1>4. WriteAhead'
  BY <1>1, <1>2 DEF StoreOK, WriteAhead, Admissible, Txn
<1>5. PoolUnpaid'
  BY <1>1 DEF StoreOK, PoolUnpaid
<1>6. RecordedIsPaid'
  BY <1>1, <1>2 DEF StoreOK, RecordedIsPaid, Admissible
<1>7. Evolves
  BY <1>1, <1>2 DEF Evolves, Admissible, TypeOK, NoIntent
<1> QED BY <1>3, <1>4, <1>5, <1>6, <1>7 DEF StoreOK

\* A transaction that expired stays expired.
LEMMA ExpiryStays ==
  ASSUME TypeOK, TypeOK', Evolves, NEW t \in Txn, LastValid(t) < round
  PROVE  LastValid(t) < round'
  BY BoundsAssumption DEF TypeOK, Evolves, LastValid, Txn

\* What a call knows survives every step of others.
LEMMA CallFrame ==
  ASSUME TypeOK, TypeOK', StoreOK, Evolves, NEW w \in Workers, CallOK(w),
         UNCHANGED <<pc[w], req[w], tx[w], seen[w], answer[w]>>
  PROVE  CallOK(w)'
<1>1. CallRequest(w)'
  BY DEF CallOK, CallRequest
<1>2. CallTransaction(w)'
  <2>1. pc[w] \in BoundSteps => req[w].op \in Ops /\ intents[req[w].op] # NoIntent
    BY NoneAssumption DEF CallOK, CallRequest, CallTransaction, BoundSteps, LateSteps, ExecuteSteps,
       ReconcileSteps, Requests, NoIntent
  <2> QED BY <2>1 DEF CallOK, CallTransaction, Evolves
<1>3. CallKnowledge(w)'
  <2>1. pc[w] = "broadcast" => intents'[req[w].op].attempted
    BY NoneAssumption DEF CallOK, CallRequest, CallTransaction, CallKnowledge, Evolves, Requests,
       BoundSteps, LateSteps, ExecuteSteps, NoIntent
  <2>2. pc[w] \in {"confirm", "rec_confirm"} => confirmedAt'[tx[w]] = confirmedAt[tx[w]]
    BY DEF CallOK, CallTransaction, CallKnowledge, Evolves, BoundSteps, LateSteps, ExecuteSteps,
       ReconcileSteps
  <2>3. pc[w] \in {"expired_lookup", "expired_error"} => LastValid(tx[w]) < round'
    <3>1. pc[w] \in {"expired_lookup", "expired_error"} => tx[w] \in Txn
      BY DEF CallOK, CallTransaction, BoundSteps, LateSteps, ExecuteSteps
    <3> QED BY <3>1, ExpiryStays DEF CallOK, CallKnowledge, Evolves
  <2> QED BY <2>1, <2>2, <2>3 DEF CallOK, CallKnowledge, LastValid
<1>4. AnswerTrue(w)'
  <2>1. ReceiptTrue(w) => ReceiptTrue(w)'
    BY DEF ReceiptTrue, Evolves
  <2>2. ConflictTrue(w) => ConflictTrue(w)'
    BY DEF ConflictTrue, Evolves, Requests
  <2>3. ExpiredTrue(w) => ExpiredTrue(w)'
    BY ExpiryStays DEF ExpiredTrue, Evolves, LastValid
  <2> QED BY <2>1, <2>2, <2>3 DEF CallOK, AnswerTrue
<1> QED BY <1>1, <1>2, <1>3, <1>4 DEF CallOK

\* A step that leaves collection and chain alone keeps them in agreement.
LEMMA QuietStep ==
  ASSUME TypeOK, StoreOK, UNCHANGED <<intents, chainVars>>
  PROVE  StoreOK' /\ Evolves
  BY DEF TypeOK, StoreOK, IntentsBound, WriteAhead, PoolUnpaid, RecordedIsPaid, Evolves, chainVars

-----------------------------------------------------------------------------
(* The step: collection and chain.                                         *)

LEMMA StepStore ==
  ASSUME IInv, TypeOK', [Next]_vars
  PROVE  StoreOK' /\ Evolves
<1> USE DEF IInv
<1>1. CASE NewBlock
  <2>1. PICK S \in SUBSET {t \in pool : t.first <= round' /\ round' <= LastValid(t)} :
             /\ confirmedAt' = [t \in Txn |-> IF t \in S THEN round' ELSE confirmedAt[t]]
             /\ pool' = {t \in pool \ S : round' < LastValid(t)}
    BY <1>1 DEF NewBlock
  <2>2. round' = round + 1 /\ intents' = intents /\ round \in 1 .. MaxRound
    BY <1>1 DEF NewBlock, TypeOK
  <2>3. \A t \in Txn : confirmedAt[t] # 0 => confirmedAt'[t] = confirmedAt[t]
    BY <2>1 DEF StoreOK, PoolUnpaid, TypeOK
  <2>4. \A t \in Txn : confirmedAt'[t] # 0 => confirmedAt[t] # 0 \/ t \in pool
    BY <2>1
  <2>5. pool' \subseteq pool /\ PoolUnpaid'
    BY <2>1 DEF StoreOK, PoolUnpaid, TypeOK
  <2>6. IntentsBound'
    BY <2>2 DEF StoreOK, IntentsBound
  <2>7. WriteAhead'
    BY <2>2, <2>4, <2>5 DEF StoreOK, WriteAhead
  <2>8. RecordedIsPaid'
    BY <2>2, <2>3 DEF StoreOK, RecordedIsPaid, IntentsBound, NoIntent
  <2>9. Evolves
    BY <2>2, <2>3, BoundsAssumption DEF Evolves
  <2> QED BY <2>5, <2>6, <2>7, <2>8, <2>9 DEF StoreOK
<1>2. ASSUME UNCHANGED <<intents, chainVars>>
      PROVE  StoreOK' /\ Evolves
  BY <1>2, QuietStep
<1>3. ASSUME NEW w \in Workers, Start(w)
      PROVE  StoreOK' /\ Evolves
  BY <1>2, <1>3 DEF Start, ExecuteNew, ExecuteKnown, ReconcileSettled, ReconcileOpen
<1>4. ASSUME NEW w \in Workers, Abandon(w)
      PROVE  StoreOK' /\ Evolves
  BY <1>2, <1>4 DEF Abandon
<1>5. ASSUME NEW w \in Workers,
             \/ Prepare(w) \/ CheckWindow(w) \/ ExpiredLookupFinds(w) \/ ExpiredLookupFails(w)
             \/ BroadcastFails(w) \/ MarkSubmittedFails(w) \/ AwaitConfirmation(w)
             \/ AwaitFails(w) \/ ReconcileLookupFinds(w) \/ ReconcileLookupFails(w)
      PROVE  StoreOK' /\ Evolves
  BY <1>2, <1>5 DEF Prepare, CheckWindow, ExpiredLookupFinds, ExpiredLookupFails, BroadcastFails,
     MarkSubmittedFails, AwaitConfirmation, AwaitFails, ReconcileLookupFinds,
     ReconcileLookupFails
<1>6. ASSUME NEW w \in Workers, Reserve(w)
      PROVE  StoreOK' /\ Evolves
  <2> DEFINE o == req[w].op
             winner == Stored(intents[o], tx[w])
  <2>1. o \in Ops /\ tx[w] \in Txn /\ tx[w].op = o
    BY <1>6 DEF Reserve, CallOK, CallRequest, CallTransaction, ExecuteSteps, Requests
  <2>2. intents' = [intents EXCEPT ![o] = winner] /\ UNCHANGED chainVars
    BY <1>6 DEF Reserve
  <2>3. CASE intents[o] # NoIntent
    <3>1. intents' = intents
      BY <2>1, <2>2, <2>3 DEF Stored, TypeOK
    <3> QED BY <1>2, <2>2, <3>1
  <2>4. CASE intents[o] = NoIntent
    <3>1. /\ intents'[o] = PreparedIntent(tx[w])
          /\ \A p \in Ops \ {o} : intents'[p] = intents[p]
          /\ UNCHANGED <<round, pool, confirmedAt>>
      BY <2>1, <2>2, <2>4 DEF Stored, TypeOK, chainVars
    <3>2. /\ PreparedIntent(tx[w]).tx = tx[w]
          /\ PreparedIntent(tx[w]).status = "prepared"
          /\ PreparedIntent(tx[w]) # NoIntent
      BY <2>1 DEF PreparedIntent, NoIntent
    <3>3. IntentsBound'
      BY <2>1, <3>1, <3>2 DEF StoreOK, IntentsBound
    <3>4. WriteAhead'
      BY <2>1, <2>4, <3>1, NoneAssumption DEF StoreOK, WriteAhead, NoIntent, Txn
    <3>5. PoolUnpaid' /\ RecordedIsPaid'
      BY <3>1, <3>2 DEF StoreOK, PoolUnpaid, RecordedIsPaid
    <3>6. Evolves
      BY <2>4, <3>1 DEF Evolves, TypeOK
    <3> QED BY <3>3, <3>4, <3>5, <3>6 DEF StoreOK
  <2> QED BY <2>3, <2>4
<1>7. ASSUME NEW w \in Workers, BroadcastAccepted(w)
      PROVE  StoreOK' /\ Evolves
  <2>1. /\ tx[w] \in Txn
        /\ intents[tx[w].op].tx = tx[w]
        /\ intents[tx[w].op].attempted
    BY <1>7 DEF BroadcastAccepted, CallOK, CallTransaction, CallKnowledge, BoundSteps, LateSteps,
       ExecuteSteps
  <2>2. /\ pool' = pool \cup {tx[w]}
        /\ confirmedAt[tx[w]] = 0
        /\ UNCHANGED <<intents, round, confirmedAt>>
    BY <1>7 DEF BroadcastAccepted, Acceptable
  <2>3. WriteAhead' /\ PoolUnpaid'
    BY <2>1, <2>2 DEF StoreOK, WriteAhead, PoolUnpaid
  <2>4. IntentsBound' /\ RecordedIsPaid'
    BY <2>2 DEF StoreOK, IntentsBound, RecordedIsPaid
  <2>5. Evolves
    BY <2>2 DEF Evolves, TypeOK
  <2> QED BY <2>3, <2>4, <2>5 DEF StoreOK
<1>8. ASSUME NEW w \in Workers,
             RecordAttempt(w) \/ MarkSubmitted(w) \/ MarkConfirmed(w)
                \/ RecordExpired(w) \/ RecordUnresolved(w)
      PROVE  StoreOK' /\ Evolves
  <2> DEFINE o == req[w].op
  <2>1. /\ o \in Ops /\ tx[w] \in Txn
        /\ intents[o].tx = tx[w] /\ intents[o] # NoIntent
        /\ pc[w] \in {"confirm", "rec_confirm"} => seen[w] # 0 /\ confirmedAt[tx[w]] = seen[w]
    BY <1>8, NoneAssumption DEF RecordAttempt, MarkSubmitted, MarkConfirmed, RecordExpired,
       RecordUnresolved, GivenUp, CallOK, CallRequest, CallTransaction, CallKnowledge, Requests,
       BoundSteps, LateSteps, ExecuteSteps, ReconcileSteps, NoIntent
  <2>2. seen[w] \in 0 .. MaxRound
    BY DEF TypeOK
  <2>3. PICK i \in {Attempted(intents[o]), Submitted(intents[o]), Failed(intents[o]),
                    Confirmed(intents[o], seen[w])} :
          /\ intents' = [intents EXCEPT ![o] = i]
          /\ Admissible(o, i)
    BY <1>8, <2>1, <2>2, UpdatesAdmissible DEF RecordAttempt, MarkSubmitted, MarkConfirmed,
       RecordExpired, RecordUnresolved, GivenUp, Store, StoreOK
  <2>4. i \in Intents
    BY <2>1, <2>3 DEF TypeOK
  <2>5. UNCHANGED chainVars
    BY <1>8 DEF RecordAttempt, MarkSubmitted, MarkConfirmed, RecordExpired, RecordUnresolved,
       GivenUp, Store
  <2> QED BY <2>1, <2>3, <2>4, <2>5, UpdateKeepsStore
<1>9. CASE UNCHANGED vars
  BY <1>2, <1>9 DEF vars
<1> QED
  BY <1>1, <1>3, <1>4, <1>5, <1>6, <1>7, <1>8, <1>9 DEF Next, Call

-----------------------------------------------------------------------------
(* The step: the calls.                                                    *)

\* A worker's step changes no other worker's call.
LEMMA OthersIdle ==
  ASSUME TypeOK, NEW w \in Workers, Start(w) \/ Call(w) \/ Abandon(w), NEW v \in Workers, v # w
  PROVE  UNCHANGED <<pc[v], req[v], tx[v], seen[v], answer[v]>>
<1> USE DEF TypeOK
<1>1. CASE Start(w)
  BY <1>1 DEF Start, ExecuteNew, ExecuteKnown, Proceed, ReconcileSettled, ReconcileOpen
<1>2. CASE Abandon(w)
  BY <1>2 DEF Abandon
<1>3. CASE Call(w)
  <2>1. CASE Prepare(w)
    BY <2>1 DEF Prepare
  <2>2. CASE Reserve(w)
    BY <2>2 DEF Reserve, Proceed
  <2>3. CASE \/ CheckWindow(w) \/ ExpiredLookupFails(w) \/ BroadcastAccepted(w) \/ BroadcastFails(w)
             \/ MarkSubmittedFails(w) \/ AwaitFails(w)
    BY <2>3 DEF CheckWindow, ExpiredLookupFails, BroadcastAccepted, BroadcastFails,
       MarkSubmittedFails, AwaitFails, Goto
  <2>4. CASE ExpiredLookupFinds(w) \/ AwaitConfirmation(w) \/ ReconcileLookupFinds(w)
    BY <2>4 DEF ExpiredLookupFinds, AwaitConfirmation, ReconcileLookupFinds, Learn
  <2>5. CASE RecordAttempt(w) \/ MarkSubmitted(w) \/ MarkConfirmed(w)
    BY <2>5 DEF RecordAttempt, MarkSubmitted, MarkConfirmed, Store, Answer, Goto
  <2>6. CASE RecordExpired(w) \/ RecordUnresolved(w) \/ ReconcileLookupFails(w)
    BY <2>6 DEF RecordExpired, RecordUnresolved, GivenUp, ReconcileLookupFails, Answer
  <2> QED BY <1>3, <2>1, <2>2, <2>3, <2>4, <2>5, <2>6 DEF Call
<1> QED BY <1>1, <1>2, <1>3

\* What execute does with an intent it just read or stored leaves a good call.
LEMMA ProceedOK ==
  ASSUME TypeOK, TypeOK', StoreOK', NEW w \in Workers, NEW r \in Requests, r.terms \in Terms,
         intents'[r.op] # NoIntent, Proceed(w, intents'[r.op], r)
  PROVE  CallOK(w)'
<1> DEFINE i == intents'[r.op]
<1>1. /\ r.op \in Ops
      /\ i \in Intents
      /\ i.tx \in Txn /\ i.tx.op = r.op
      /\ i.status = "confirmed" => i.round # 0 /\ confirmedAt'[i.tx] = i.round
  BY DEF StoreOK, IntentsBound, RecordedIsPaid, Requests, TypeOK
<1>2. /\ req'[w] = r
      /\ tx'[w] = i.tx
      /\ \/ /\ i.tx.terms # r.terms
            /\ pc'[w] = "idle"
            /\ answer'[w] = [kind |-> "conflict", round |-> 0]
         \/ /\ i.tx.terms = r.terms
            /\ i.status = "confirmed"
            /\ pc'[w] = "idle"
            /\ answer'[w] = [kind |-> "receipt", round |-> i.round]
         \/ /\ i.tx.terms = r.terms
            /\ pc'[w] = "window"
            /\ answer'[w] = NoAnswer
  BY DEF Proceed, TypeOK
<1> HIDE DEF i
<1>3. CallRequest(w)'
  BY <1>2 DEF CallRequest, ExecuteSteps, ReconcileSteps
<1>4. CallTransaction(w)'
  BY <1>1, <1>2 DEF CallTransaction, BoundSteps, LateSteps, ExecuteSteps, ReconcileSteps, i
<1>5. CallKnowledge(w)'
  BY <1>2 DEF CallKnowledge
<1>6. AnswerTrue(w)'
  BY <1>1, <1>2 DEF AnswerTrue, ReceiptTrue, ConflictTrue, NoAnswer, i
<1> QED BY <1>3, <1>4, <1>5, <1>6 DEF CallOK

\* A repository update by a call that holds the stored transaction.
LEMMA StoreCallOK ==
  ASSUME TypeOK, TypeOK', StoreOK', NEW w \in Workers, CallOK(w), pc[w] \in BoundSteps,
         NEW step \in {"broadcast", "wait", "idle"}, NEW i, Store(w, i, step), i.tx = tx[w],
         step = "broadcast" => i.attempted \/ i.status = "confirmed",
         step # "idle" => pc[w] \in LateSteps
  PROVE  CallOK(w)'
<1> DEFINE o == req[w].op
<1>1. /\ o \in Ops /\ req[w] \in Requests
      /\ tx[w] \in Txn /\ tx[w].op = o
      /\ answer[w] = NoAnswer
      /\ req[w].terms \in {None, tx[w].terms}
      /\ pc[w] \in LateSteps => req[w].terms \in Terms /\ tx[w].terms = req[w].terms
  BY DEF CallOK, CallRequest, CallTransaction, BoundSteps, LateSteps, ExecuteSteps,
     ReconcileSteps, Requests
<1>2. /\ intents'[o] = i /\ intents[o].tx = tx[w]
      /\ req'[w] = req[w] /\ tx'[w] = tx[w]
      /\ \/ /\ i.status = "confirmed"
            /\ pc'[w] = "idle"
            /\ answer'[w] = [kind |-> "receipt", round |-> i.round]
         \/ /\ i.status # "confirmed"
            /\ pc'[w] = step
            /\ answer'[w] = NoAnswer
  BY <1>1 DEF Store, Answer, Goto, TypeOK
<1>3. i.status = "confirmed" => i.round # 0 /\ confirmedAt'[i.tx] = i.round
  BY <1>1, <1>2 DEF StoreOK, RecordedIsPaid
<1>4. CallRequest(w)'
  BY <1>1, <1>2 DEF CallRequest, LateSteps, ExecuteSteps, ReconcileSteps
<1>5. CallTransaction(w)'
  BY <1>1, <1>2 DEF CallTransaction, BoundSteps, LateSteps, ExecuteSteps, ReconcileSteps
<1>6. CallKnowledge(w)'
  BY <1>1, <1>2 DEF CallKnowledge
<1>7. AnswerTrue(w)'
  BY <1>1, <1>2, <1>3 DEF AnswerTrue, ReceiptTrue, NoAnswer
<1> QED BY <1>4, <1>5, <1>6, <1>7 DEF CallOK

\* The error a call ends with after record_error.
LEMMA GivenUpCallOK ==
  ASSUME TypeOK, TypeOK', StoreOK', Evolves, NEW w \in Workers, CallOK(w),
         RecordExpired(w) \/ RecordUnresolved(w)
  PROVE  CallOK(w)'
<1> DEFINE o == req[w].op
           i == Failed(intents[o])
<1>1. /\ o \in Ops /\ req[w] \in Requests
      /\ tx[w] \in Txn /\ tx[w].op = o
      /\ tx[w].terms = req[w].terms
      /\ pc[w] = "expired_error" => LastValid(tx[w]) < round
  BY DEF RecordExpired, RecordUnresolved, GivenUp, CallOK, CallRequest, CallTransaction,
     CallKnowledge, BoundSteps, LateSteps, ExecuteSteps, Requests
<1>2. /\ intents'[o] = i /\ i.tx = tx[w] /\ round' = round
      /\ req'[w] = req[w] /\ tx'[w] = tx[w]
      /\ pc'[w] = "idle"
      /\ \/ i.status = "confirmed" /\ answer'[w] = [kind |-> "receipt", round |-> i.round]
         \/ answer'[w] = [kind |-> "pending", round |-> 0]
         \/ pc[w] = "expired_error" /\ answer'[w] = [kind |-> "expired", round |-> 0]
  <2>1. intents[o].tx = tx[w] /\ intents[o] \in Intents
    BY <1>1 DEF RecordExpired, RecordUnresolved, GivenUp, TypeOK
  <2>2. i.tx = tx[w]
    BY <2>1 DEF Failed, Updated, Intents
  <2> QED BY <1>1, <2>2 DEF RecordExpired, RecordUnresolved, GivenUp, Answer, TypeOK, chainVars
<1> HIDE DEF i
<1>3. i.status = "confirmed" => i.round # 0 /\ confirmedAt'[i.tx] = i.round
  BY <1>1, <1>2 DEF StoreOK, RecordedIsPaid
<1>4. CallRequest(w)' /\ CallTransaction(w)' /\ CallKnowledge(w)'
  BY <1>2 DEF CallRequest, CallTransaction, CallKnowledge, BoundSteps, LateSteps, ExecuteSteps,
     ReconcileSteps
<1>5. AnswerTrue(w)'
  BY <1>1, <1>2, <1>3 DEF AnswerTrue, ReceiptTrue, ExpiredTrue, LastValid
<1> QED BY <1>4, <1>5 DEF CallOK

\* The worker that takes a step leaves its own call good.
LEMMA ActorOK ==
  ASSUME IInv, TypeOK', StoreOK', Evolves, NEW w \in Workers, Start(w) \/ Call(w) \/ Abandon(w)
  PROVE  CallOK(w)'
<1> USE DEF IInv
<1>0. CallOK(w)
  OBVIOUS
<1>1. ASSUME NEW o \in Ops, NEW c \in Terms, ExecuteNew(w, [op |-> o, terms |-> c])
      PROVE  CallOK(w)'
  <2>1. /\ pc'[w] = "prepare"
        /\ req'[w] = [op |-> o, terms |-> c]
        /\ answer'[w] = NoAnswer
    BY <1>1 DEF ExecuteNew, TypeOK
  <2>2. [op |-> o, terms |-> c] \in Requests
    BY DEF Requests
  <2> QED BY <2>1, <2>2 DEF CallOK, CallRequest, CallTransaction, CallKnowledge, AnswerTrue,
          ExecuteSteps, ReconcileSteps, BoundSteps, LateSteps, NoAnswer
<1>2. ASSUME NEW o \in Ops, NEW c \in Terms, ExecuteKnown(w, [op |-> o, terms |-> c])
      PROVE  CallOK(w)'
  <2>1. [op |-> o, terms |-> c] \in Requests /\ intents' = intents
    BY <1>2 DEF Requests, ExecuteKnown
  <2> QED BY <1>2, <2>1, ProceedOK DEF ExecuteKnown
<1>3. ASSUME NEW o \in Ops, ReconcileSettled(w, o)
      PROVE  CallOK(w)'
  <2>1. /\ pc'[w] = "idle"
        /\ req'[w] = [op |-> o, terms |-> None]
        /\ tx'[w] = intents[o].tx
        /\ answer'[w] = [kind |-> IF intents[o] = NoIntent THEN "missing" ELSE "receipt",
                         round |-> intents[o].round]
        /\ confirmedAt' = confirmedAt
        /\ intents[o] # NoIntent => intents[o].status = "confirmed"
    BY <1>3 DEF ReconcileSettled, TypeOK, chainVars, StoreOK, IntentsBound
  <2>2. [op |-> o, terms |-> None] \in Requests
    BY DEF Requests
  <2>3. intents[o] # NoIntent =>
          /\ intents[o].tx \in Txn /\ intents[o].tx.op = o
          /\ intents[o].round # 0 /\ confirmedAt[intents[o].tx] = intents[o].round
    BY <2>1 DEF StoreOK, IntentsBound, RecordedIsPaid
  <2> QED BY <2>1, <2>2, <2>3 DEF CallOK, CallRequest, CallTransaction, CallKnowledge, AnswerTrue,
          ReceiptTrue, ExecuteSteps, ReconcileSteps, BoundSteps, LateSteps
<1>4. ASSUME NEW o \in Ops, ReconcileOpen(w, o)
      PROVE  CallOK(w)'
  <2>1. /\ pc'[w] = "rec_lookup"
        /\ req'[w] = [op |-> o, terms |-> None]
        /\ tx'[w] = intents[o].tx
        /\ answer'[w] = NoAnswer
        /\ intents' = intents
        /\ intents[o].tx \in Txn /\ intents[o].tx.op = o
    BY <1>4 DEF ReconcileOpen, TypeOK, StoreOK, IntentsBound, NoIntent
  <2>2. [op |-> o, terms |-> None] \in Requests
    BY DEF Requests
  <2> QED BY <2>1, <2>2 DEF CallOK, CallRequest, CallTransaction, CallKnowledge, AnswerTrue,
          ExecuteSteps, ReconcileSteps, BoundSteps, LateSteps, NoAnswer
<1>5. ASSUME Prepare(w)
      PROVE  CallOK(w)'
  <2>1. /\ pc[w] = "prepare" /\ pc'[w] = "reserve"
        /\ req'[w] = req[w] /\ answer'[w] = answer[w]
        /\ req[w] \in Requests /\ req[w].terms \in Terms /\ answer[w] = NoAnswer
    BY <1>5 DEF Prepare, TypeOK, CallOK, CallRequest, ExecuteSteps
  <2>2. tx'[w] \in Txn /\ tx'[w].op = req[w].op /\ tx'[w].terms = req[w].terms
    <3>1. PICK r \in NodeRounds :
            tx' = [tx EXCEPT ![w] = [op |-> req[w].op, terms |-> req[w].terms, first |-> r]]
      BY <1>5 DEF Prepare
    <3>2. r \in 1 .. MaxRound
      BY BoundsAssumption DEF NodeRounds, TypeOK
    <3>3. tx'[w] = [op |-> req[w].op, terms |-> req[w].terms, first |-> r]
      BY <3>1 DEF TypeOK
    <3> QED BY <2>1, <3>2, <3>3 DEF Txn, Requests
  <2> QED BY <2>1, <2>2 DEF CallOK, CallRequest, CallTransaction, CallKnowledge, AnswerTrue,
          ExecuteSteps, ReconcileSteps, BoundSteps, LateSteps, NoAnswer
<1>6. ASSUME Reserve(w)
      PROVE  CallOK(w)'
  <2>1. /\ req[w] \in Requests /\ req[w].terms \in Terms /\ req[w].op \in Ops
        /\ tx[w] \in Txn
    BY <1>6 DEF Reserve, CallOK, CallRequest, CallTransaction, ExecuteSteps, Requests
  <2>2. /\ intents'[req[w].op] = Stored(intents[req[w].op], tx[w])
        /\ Proceed(w, intents'[req[w].op], req[w])
    BY <1>6, <2>1 DEF Reserve, TypeOK
  <2>3. intents'[req[w].op] # NoIntent
    <3>1. PreparedIntent(tx[w]).status = "prepared" /\ NoIntent.status = "none"
      BY DEF PreparedIntent, NoIntent
    <3> QED BY <2>2, <3>1 DEF Stored
  <2> QED BY <2>1, <2>2, <2>3, ProceedOK
<1>7. ASSUME CheckWindow(w)
      PROVE  CallOK(w)'
  <2>1. PICK r \in NodeRounds :
          pc' = [pc EXCEPT ![w] = IF r > LastValid(tx[w]) THEN "expired_lookup" ELSE "attempt"]
    BY <1>7 DEF CheckWindow, Goto
  <2>2. /\ pc[w] = "window" /\ UNCHANGED <<intents, chainVars, req, tx, seen, answer>>
        /\ tx[w] \in Txn
    BY <1>7 DEF CheckWindow, Goto, CallOK, CallTransaction, BoundSteps, LateSteps, ExecuteSteps
  <2>3. r > LastValid(tx[w]) => LastValid(tx[w]) < round
    BY <2>2, BoundsAssumption DEF NodeRounds, LastValid, Txn, TypeOK
  <2>4. pc'[w] = "attempt" \/ (pc'[w] = "expired_lookup" /\ LastValid(tx[w]) < round)
    BY <2>1, <2>3 DEF TypeOK
  <2> QED BY <2>2, <2>4 DEF CallOK, CallRequest, CallTransaction, CallKnowledge, AnswerTrue,
          ExecuteSteps, ReconcileSteps, BoundSteps, LateSteps, NoAnswer, LastValid, chainVars
<1>8. ASSUME ExpiredLookupFinds(w) \/ AwaitConfirmation(w)
      PROVE  CallOK(w)'
  <2>1. /\ pc[w] \in {"expired_lookup", "wait"} /\ pc'[w] = "confirm"
        /\ seen'[w] = confirmedAt[tx[w]] /\ confirmedAt[tx[w]] # 0
        /\ UNCHANGED <<intents, chainVars, req, tx, answer>>
    BY <1>8 DEF ExpiredLookupFinds, AwaitConfirmation, Learn, TypeOK
  <2> QED BY <2>1 DEF CallOK, CallRequest, CallTransaction, CallKnowledge, AnswerTrue,
          ExecuteSteps, ReconcileSteps, BoundSteps, LateSteps, NoAnswer, chainVars
<1>9. ASSUME ExpiredLookupFails(w) \/ BroadcastFails(w) \/ MarkSubmittedFails(w) \/ AwaitFails(w)
             \/ BroadcastAccepted(w)
      PROVE  CallOK(w)'
  <2>1. /\ \/ pc[w] = "expired_lookup" /\ pc'[w] = "expired_error"
           \/ pc[w] \in LateSteps /\ pc'[w] \in {"wait", "submit", "wait_error"}
        /\ UNCHANGED <<intents, round, confirmedAt, req, tx, answer>>
    BY <1>9 DEF ExpiredLookupFails, BroadcastFails, MarkSubmittedFails, AwaitFails,
       BroadcastAccepted, Goto, TypeOK, LateSteps, ExecuteSteps, chainVars
  <2> QED BY <2>1 DEF CallOK, CallRequest, CallTransaction, CallKnowledge, AnswerTrue,
          ExecuteSteps, ReconcileSteps, BoundSteps, LateSteps, NoAnswer, LastValid
<1>10. ASSUME RecordAttempt(w) \/ MarkSubmitted(w) \/ MarkConfirmed(w)
       PROVE  CallOK(w)'
  <2> DEFINE i == intents[req[w].op]
  <2>1. /\ pc[w] \in BoundSteps /\ i.tx = tx[w] /\ i \in Intents
        /\ RecordAttempt(w) \/ MarkSubmitted(w) => pc[w] \in LateSteps
    <3>1. pc[w] \in BoundSteps /\ req[w].op \in Ops
      BY <1>10 DEF RecordAttempt, MarkSubmitted, MarkConfirmed, CallOK, CallRequest, Requests,
         BoundSteps, LateSteps, ExecuteSteps, ReconcileSteps
    <3> QED BY <1>10, <3>1 DEF RecordAttempt, MarkSubmitted, MarkConfirmed, Store, TypeOK,
            LateSteps, ExecuteSteps
  <2>2. /\ Attempted(i).tx = tx[w] /\ Submitted(i).tx = tx[w] /\ Confirmed(i, seen[w]).tx = tx[w]
        /\ Attempted(i).attempted \/ Attempted(i).status = "confirmed"
    BY <2>1 DEF Attempted, Submitted, Confirmed, Updated, Intents
  <2>3. \/ RecordAttempt(w) /\ Store(w, Attempted(i), "broadcast")
        \/ MarkSubmitted(w) /\ Store(w, Submitted(i), "wait")
        \/ Store(w, Confirmed(i, seen[w]), "idle")
    BY <1>10 DEF RecordAttempt, MarkSubmitted, MarkConfirmed
  <2> HIDE DEF i
  <2>4. CASE RecordAttempt(w) /\ Store(w, Attempted(i), "broadcast")
    BY <1>0, <2>1, <2>2, <2>4, StoreCallOK
  <2>5. CASE MarkSubmitted(w) /\ Store(w, Submitted(i), "wait")
    BY <1>0, <2>1, <2>2, <2>5, StoreCallOK
  <2>6. CASE Store(w, Confirmed(i, seen[w]), "idle")
    BY <1>0, <2>1, <2>2, <2>6, StoreCallOK
  <2> QED BY <2>3, <2>4, <2>5, <2>6
<1>11. ASSUME RecordExpired(w) \/ RecordUnresolved(w)
       PROVE  CallOK(w)'
  BY <1>0, <1>11, GivenUpCallOK
<1>12. ASSUME ReconcileLookupFinds(w)
       PROVE  CallOK(w)'
  <2>1. /\ pc[w] = "rec_lookup" /\ pc'[w] = "rec_confirm"
        /\ seen'[w] = confirmedAt[tx[w]] /\ confirmedAt[tx[w]] # 0
        /\ UNCHANGED <<intents, chainVars, req, tx, answer>>
    BY <1>12 DEF ReconcileLookupFinds, Learn, TypeOK
  <2> QED BY <1>0, <2>1 DEF CallOK, CallRequest, CallTransaction, CallKnowledge, AnswerTrue,
          ExecuteSteps, ReconcileSteps, BoundSteps, LateSteps, NoAnswer, chainVars
<1>13. ASSUME ReconcileLookupFails(w)
       PROVE  CallOK(w)'
  <2>1. /\ pc'[w] = "idle"
        /\ answer'[w] = [kind |-> "unavailable", round |-> 0]
        /\ UNCHANGED <<intents, chainVars, req, tx, seen>>
    BY <1>13 DEF ReconcileLookupFails, Answer, TypeOK
  <2> QED BY <2>1 DEF CallOK, CallRequest, CallTransaction, CallKnowledge, AnswerTrue,
          ExecuteSteps, ReconcileSteps, BoundSteps, LateSteps
<1>14. ASSUME Abandon(w)
       PROVE  CallOK(w)'
  <2>1. pc'[w] = "idle" /\ answer'[w] = NoAnswer
    BY <1>0, <1>14 DEF Abandon, CallOK, CallRequest, TypeOK
  <2> QED BY <2>1 DEF CallOK, CallRequest, CallTransaction, CallKnowledge, AnswerTrue, NoAnswer,
          ExecuteSteps, ReconcileSteps, BoundSteps, LateSteps
<1> QED
  BY <1>1, <1>2, <1>3, <1>4, <1>5, <1>6, <1>7, <1>8, <1>9, <1>10, <1>11, <1>12, <1>13, <1>14
  DEF Start, Call

-----------------------------------------------------------------------------
(* The inductive invariant holds.                                          *)

LEMMA InitInv == Init => IInv
<1> SUFFICES ASSUME Init PROVE IInv
  OBVIOUS
<1>1. TypeOK
  BY InitType
<1>2. StoreOK
  BY DEF Init, StoreOK, IntentsBound, WriteAhead, PoolUnpaid, RecordedIsPaid, NoIntent
<1>3. \A w \in Workers : CallOK(w)
  BY DEF Init, CallOK, CallRequest, CallTransaction, CallKnowledge, AnswerTrue, NoAnswer,
     ExecuteSteps, ReconcileSteps, BoundSteps, LateSteps
<1> QED BY <1>1, <1>2, <1>3 DEF IInv

LEMMA StepInv ==
  ASSUME IInv, [Next]_vars
  PROVE  IInv' /\ Evolves
<1>1. TypeOK'
  BY StepType DEF IInv, CallOK
<1>2. StoreOK' /\ Evolves
  BY <1>1, StepStore
<1>3. ASSUME NEW v \in Workers
      PROVE  CallOK(v)'
  <2>1. TypeOK /\ StoreOK /\ CallOK(v)
    BY DEF IInv
  <2>2. CASE UNCHANGED callVars
    BY <1>1, <1>2, <2>1, <2>2, CallFrame DEF callVars
  <2>3. ASSUME NEW w \in Workers, Start(w) \/ Call(w) \/ Abandon(w)
        PROVE  CallOK(v)'
    <3>1. CASE v = w
      BY <1>1, <1>2, <2>3, <3>1, ActorOK
    <3>2. CASE v # w
      <4>1. UNCHANGED <<pc[v], req[v], tx[v], seen[v], answer[v]>>
        BY <2>1, <2>3, <3>2, OthersIdle
      <4> QED BY <1>1, <1>2, <2>1, <4>1, CallFrame
    <3> QED BY <3>1, <3>2
  <2> QED BY <2>2, <2>3 DEF Next, NewBlock, vars
<1> QED BY <1>1, <1>2, <1>3 DEF IInv

\* The inductive invariant holds in every reachable state.
THEOREM InductiveInvariant == Spec => []IInv
<1>1. Init => IInv
  BY InitInv
<1>2. IInv /\ [Next]_vars => IInv'
  BY StepInv
<1> QED BY <1>1, <1>2, PTL DEF Spec

-----------------------------------------------------------------------------
(* The safety properties.                                                  *)

\* The types hold.
THEOREM TypeCorrect == Spec => []TypeOK
<1>1. IInv => TypeOK
  BY DEF IInv
<1> QED BY <1>1, InductiveInvariant, PTL

\* No transaction reaches a node before it and the attempt to send it are stored.
THEOREM WriteAheadHolds == Spec => []WriteAhead
<1>1. IInv => WriteAhead
  BY DEF IInv, StoreOK
<1> QED BY <1>1, InductiveInvariant, PTL

\* No operation is paid by two transactions: both would be the stored one.
THEOREM AtMostOncePayment == Spec => []PaidAtMostOnce
<1>1. IInv => PaidAtMostOnce
  BY DEF IInv, StoreOK, WriteAhead, PaidAtMostOnce
<1> QED BY <1>1, InductiveInvariant, PTL

\* What the collection calls confirmed is confirmed on chain.
THEOREM RecordsTruthful == Spec => []RecordedIsPaid
<1>1. IInv => RecordedIsPaid
  BY DEF IInv, StoreOK
<1> QED BY <1>1, InductiveInvariant, PTL

\* Receipts and conflicts a caller gets are true, and stay true.
THEOREM AnswersHold == Spec => []AnswersTruthful
<1>1. IInv => AnswersTruthful
  BY DEF IInv, CallOK, AnswerTrue, ReceiptTrue, ConflictTrue, AnswersTruthful
<1> QED BY <1>1, InductiveInvariant, PTL

\* A confirmed intent, and the transaction of any intent, are never overwritten.
THEOREM ConfirmedStays == Spec => ConfirmedIsTerminal
<1> DEFINE Kept == \A o \in Ops :
             /\ intents[o].tx # None => intents'[o].tx = intents[o].tx
             /\ intents[o].status = "confirmed" => intents'[o] = intents[o]
<1>1. IInv /\ [Next]_vars => Kept
  <2> SUFFICES ASSUME IInv, [Next]_vars PROVE Kept
    OBVIOUS
  <2>1. Evolves
    BY StepInv
  <2> QED BY <2>1 DEF Evolves, NoIntent
<1> QED BY <1>1, InductiveInvariant, PTL DEF Spec, ConfirmedIsTerminal

\* A transaction reported as expired is never paid any more.
THEOREM ExpiryIsFinal == Spec => ExpiredIsFinal
<1> DEFINE Final == \A w \in Workers :
             answer[w].kind = "expired" =>
               (confirmedAt[tx[w]] = 0 => confirmedAt'[tx[w]] = 0)
<1>1. IInv /\ [Next]_vars => Final
  <2> SUFFICES ASSUME IInv, [Next]_vars, NEW w \in Workers,
                      answer[w].kind = "expired",
                      confirmedAt[tx[w]] = 0
               PROVE  confirmedAt'[tx[w]] = 0
    OBVIOUS
  <2>1. tx[w] \in Txn /\ LastValid(tx[w]) < round
    BY DEF IInv, CallOK, AnswerTrue, ExpiredTrue
  <2>2. CASE NewBlock
    <3>1. ~(round' <= LastValid(tx[w])) /\ round' = round + 1
      BY <2>1, <2>2, BoundsAssumption DEF NewBlock, IInv, TypeOK, LastValid, Txn
    <3> QED BY <2>1, <2>2, <3>1 DEF NewBlock
  <2>3. CASE confirmedAt' = confirmedAt
    BY <2>3
  <2>4. NewBlock \/ confirmedAt' = confirmedAt
    <3>1. ASSUME NEW v \in Workers, Start(v) PROVE confirmedAt' = confirmedAt
      BY <3>1 DEF Start, ExecuteNew, ExecuteKnown, ReconcileSettled, ReconcileOpen,
         Store, chainVars
    <3>2. ASSUME NEW v \in Workers, Call(v) PROVE confirmedAt' = confirmedAt
      BY <3>2 DEF Call, Prepare, Reserve, CheckWindow, ExpiredLookupFinds, ExpiredLookupFails,
         RecordExpired, RecordAttempt, BroadcastAccepted, BroadcastFails, MarkSubmitted,
         MarkSubmittedFails, AwaitConfirmation, AwaitFails, RecordUnresolved, MarkConfirmed,
         ReconcileLookupFinds, ReconcileLookupFails, GivenUp, Store, chainVars
    <3>3. ASSUME NEW v \in Workers, Abandon(v) PROVE confirmedAt' = confirmedAt
      BY <3>3 DEF Abandon, Store, chainVars
    <3>4. CASE UNCHANGED vars
      BY <3>4 DEF vars, chainVars
    <3> QED BY <3>1, <3>2, <3>3, <3>4 DEF Next
  <2> QED BY <2>2, <2>3, <2>4
<1> QED BY <1>1, InductiveInvariant, PTL DEF Spec, ExpiredIsFinal

-----------------------------------------------------------------------------
(* Refinement of the abstract payout.                                      *)

\* Only a reservation that finds no intent binds an operation, and only the
\* chain pays.
LEMMA WorkersBindAndPay ==
  ASSUME IInv, NEW w \in Workers, Start(w) \/ Call(w) \/ Abandon(w),
         ~(Reserve(w) /\ intents[req[w].op] = NoIntent), Evolves, TypeOK'
  PROVE  confirmedAt' = confirmedAt /\ \A o \in Ops : intents'[o].tx = intents[o].tx
<1> USE DEF IInv
<1>1. confirmedAt' = confirmedAt
  BY DEF Start, Call, ExecuteNew, ExecuteKnown, ReconcileSettled, ReconcileOpen, Prepare,
     Reserve, CheckWindow, ExpiredLookupFinds, ExpiredLookupFails, RecordExpired, RecordAttempt,
     BroadcastAccepted, BroadcastFails, MarkSubmitted, MarkSubmittedFails, AwaitConfirmation,
     AwaitFails, RecordUnresolved, MarkConfirmed, ReconcileLookupFinds,
     ReconcileLookupFails, Abandon, GivenUp, Store, chainVars
<1>2. ASSUME NEW o \in Ops, intents[o] = NoIntent
      PROVE  intents'[o] = intents[o]
  <2>1. CASE intents' = intents
    BY <2>1
  <2>2. CASE Reserve(w)
    <3>1. intents[req[w].op] # NoIntent
      BY <2>2
    <3> QED BY <1>2, <2>2, <3>1 DEF Reserve, Stored, TypeOK
  <2>3. CASE RecordAttempt(w) \/ MarkSubmitted(w) \/ MarkConfirmed(w) \/ RecordExpired(w)
             \/ RecordUnresolved(w)
    <3>1. tx[w] \in Txn /\ intents[req[w].op].tx = tx[w]
      BY <2>3 DEF RecordAttempt, MarkSubmitted, MarkConfirmed, RecordExpired, RecordUnresolved,
         GivenUp, CallOK, CallTransaction, BoundSteps, LateSteps, ExecuteSteps, ReconcileSteps
    <3>2. req[w].op # o
      BY <1>2, <3>1, NoneAssumption DEF NoIntent
    <3> QED BY <2>3, <3>2 DEF RecordAttempt, MarkSubmitted, MarkConfirmed, RecordExpired,
            RecordUnresolved, GivenUp, Store, TypeOK
  <2> QED BY <2>1, <2>2, <2>3 DEF Start, Call, ExecuteNew, ExecuteKnown, ReconcileSettled,
          ReconcileOpen, Prepare, CheckWindow, ExpiredLookupFinds, ExpiredLookupFails,
          BroadcastAccepted, BroadcastFails, MarkSubmittedFails, AwaitConfirmation, AwaitFails,
          ReconcileLookupFinds, ReconcileLookupFails, Abandon
<1> QED BY <1>1, <1>2 DEF Evolves

\* A worker's step changes only what its own caller was told.
LEMMA WorkersTell ==
  ASSUME TypeOK, TypeOK', NEW w \in Workers, Start(w) \/ Call(w) \/ Abandon(w)
  PROVE  ToldTransactions' = [ToldTransactions EXCEPT ![w] = ToldTransactions'[w]]
<1>1. \A v \in Workers \ {w} : ToldTransactions'[v] = ToldTransactions[v]
  BY OthersIdle DEF ToldTransactions
<1> QED BY <1>1 DEF ToldTransactions

\* Every step of the service is a step of the abstract payout or changes nothing
\* of it.
LEMMA StepPayout ==
  ASSUME IInv, IInv', Evolves, [Next]_vars
  PROVE  [Payouts!Next]_(Payouts!vars)
<1> DEFINE bound == [o \in Ops |-> intents[o].tx]
<1> USE DEF IInv
<1>1. CASE NewBlock
  <2>1. PICK S \in SUBSET {t \in pool : t.first <= round' /\ round' <= LastValid(t)} :
             confirmedAt' = [t \in Txn |-> IF t \in S THEN round' ELSE confirmedAt[t]]
    BY <1>1 DEF NewBlock
  <2>2. S \subseteq Txn /\ S \subseteq pool /\ round' # 0
    BY <1>1, <2>1, BoundsAssumption DEF TypeOK, NewBlock
  <2>3. S \cap PaidTransactions = {}
    BY <2>2 DEF StoreOK, PoolUnpaid, PaidTransactions
  <2>4. \A t \in S : t.op \in Ops /\ intents[t.op].tx = t
    BY <2>2 DEF StoreOK, WriteAhead, Txn
  <2>5. PaidTransactions' = PaidTransactions \cup S
    BY <2>1, <2>2 DEF PaidTransactions
  <2>6. bound' = bound /\ ToldTransactions' = ToldTransactions
    BY <1>1 DEF NewBlock, callVars, ToldTransactions
  <2>7. Payouts!Pay(S)
    BY <2>3, <2>4, <2>5, <2>6 DEF Payouts!Pay
  <2> QED BY <2>2, <2>7 DEF Payouts!Next
<1>2. ASSUME NEW w \in Workers, Start(w) \/ Call(w) \/ Abandon(w)
      PROVE  [Payouts!Next]_(Payouts!vars)
  <2>1. ToldTransactions' = [ToldTransactions EXCEPT ![w] = ToldTransactions'[w]]
    BY <1>2, WorkersTell
  <2>2. CASE Reserve(w) /\ intents[req[w].op] = NoIntent
    <3> DEFINE o == req[w].op
    <3>1. /\ o \in Ops /\ tx[w] \in Txn /\ tx[w].op = o
          /\ answer[w] = NoAnswer /\ tx[w].terms = req[w].terms
      BY <2>2 DEF Reserve, CallOK, CallRequest, CallTransaction, ExecuteSteps, Requests
    <3>2. /\ intents' = [intents EXCEPT ![o] = PreparedIntent(tx[w])]
          /\ Proceed(w, PreparedIntent(tx[w]), req[w])
          /\ confirmedAt' = confirmedAt
      BY <2>2 DEF Reserve, Stored, chainVars
    <3>3. PreparedIntent(tx[w]).tx = tx[w] /\ PreparedIntent(tx[w]).status = "prepared"
      BY DEF PreparedIntent, NoIntent
    <3>4. answer'[w].kind # "receipt"
      BY <3>1, <3>2, <3>3 DEF Proceed, NoAnswer, TypeOK
    <3>5. ToldTransactions' = ToldTransactions
      <4>1. ToldTransactions[w] = None /\ ToldTransactions'[w] = None
        BY <3>1, <3>4 DEF ToldTransactions, NoAnswer
      <4> QED BY <2>1, <4>1 DEF ToldTransactions
    <3>6. bound[o] = None /\ bound' = [bound EXCEPT ![o] = tx[w]]
      BY <2>2, <3>1, <3>2, <3>3 DEF NoIntent, TypeOK
    <3>7. PaidTransactions' = PaidTransactions
      BY <3>2 DEF PaidTransactions
    <3>8. \E p \in Ops, t \in Txn : Payouts!Bind(p, t)
      BY <3>1, <3>5, <3>6, <3>7 DEF Payouts!Bind
    <3> QED BY <3>8 DEF Payouts!Next
  <2>3. CASE ~(Reserve(w) /\ intents[req[w].op] = NoIntent)
    <3>1. confirmedAt' = confirmedAt /\ bound' = bound
      BY <1>2, <2>3, WorkersBindAndPay
    <3>2. PaidTransactions' = PaidTransactions
      BY <3>1 DEF PaidTransactions
    <3>3. CASE answer'[w].kind = "receipt"
      <4>1. ToldTransactions'[w] = tx'[w]
        BY <3>3 DEF ToldTransactions
      <4>2. tx'[w] \in PaidTransactions /\ tx'[w] \in Txn
        BY <3>1, <3>3 DEF CallOK, AnswerTrue, ReceiptTrue, PaidTransactions
      <4>3. Payouts!Tell(w, tx'[w])
        BY <2>1, <3>1, <3>2, <4>1, <4>2 DEF Payouts!Tell
      <4> QED BY <4>2, <4>3 DEF Payouts!Next
    <3>4. CASE answer'[w].kind # "receipt"
      <4>1. ToldTransactions'[w] = None
        BY <3>4 DEF ToldTransactions
      <4>2. Payouts!Forget(w)
        BY <2>1, <3>1, <3>2, <4>1 DEF Payouts!Forget
      <4> QED BY <4>2 DEF Payouts!Next
    <3> QED BY <3>3, <3>4
  <2> QED BY <2>2, <2>3
<1>3. CASE UNCHANGED vars
  BY <1>3 DEF vars, callVars, chainVars, Payouts!vars, PaidTransactions, ToldTransactions
<1> QED BY <1>1, <1>2, <1>3 DEF Next

\* The service implements the abstract payout: an operation is bound once, only
\* its transaction moves assets, once, and callers learn only of real payments.
THEOREM Refinement == Spec => ImplementsPayout
<1>1. Init => Payouts!Init
  BY DEF Init, Payouts!Init, PaidTransactions, ToldTransactions, NoIntent, NoAnswer
<1>2. IInv /\ [Next]_vars => [Payouts!Next]_(Payouts!vars)
  BY StepInv, StepPayout
<1> QED BY <1>1, <1>2, InductiveInvariant, PTL DEF Spec, ImplementsPayout, Payouts!Spec
=============================================================================
