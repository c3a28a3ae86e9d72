--------------------------- MODULE AssetTransfers ---------------------------
(***************************************************************************)
(* Replay-safe outbound asset transfers: AssetTransferService.execute and  *)
(* .reconcile, the Mongo intent repository and the Algorand gateway.       *)
(*                                                                         *)
(* Several processes run the service against one intent collection and one *)
(* chain.  Every repository call and every gateway call is one step, so    *)
(* calls of different processes interleave between any two of them, and a  *)
(* process may die (or an exception may end its call) at any step.         *)
(*                                                                         *)
(* A transaction is identified by the fields the service chooses: the      *)
(* operation (its lease), the terms (receiver, asset, amount and note) and *)
(* the first valid round of the suggested parameters.  Signing is          *)
(* deterministic, so two preparations in one round give one transaction.   *)
(* The chain accepts a transaction once, inside its validity window; the   *)
(* lease it would also enforce is left out, so nothing relies on it.       *)
(***************************************************************************)
EXTENDS Naturals, FiniteSets

CONSTANTS
  Ops,       \* operation ids, e.g. airdrop:<campaign>:<address>
  Terms,     \* what a request asks for: receiver, asset, amount and note
  Workers,   \* processes that run the service
  Window,    \* last valid round minus first valid round
  MaxRound,  \* bound: the chain stops producing blocks at this round
  MaxLag,    \* how many rounds an algod node may be behind the chain
  None       \* Python's None

Txn == [op : Ops, terms : Terms, first : 1 .. MaxRound]
Requests == [op : Ops, terms : Terms \cup {None}]

ASSUME NoneAssumption == None \notin Txn /\ None \notin Requests /\ None \notin Terms
ASSUME BoundsAssumption == Window \in Nat /\ MaxRound \in Nat \ {0} /\ MaxLag \in Nat

VARIABLES
  intents,      \* the asset transfer intent collection, by operation id
  round,        \* the chain's last round
  pool,         \* transactions accepted by a node and not yet in a block
  confirmedAt,  \* the round a transaction was confirmed in, 0 if it was not
  pc,           \* the next repository or gateway call of each worker
  req,          \* the request of the call a worker runs or ran last
  tx,           \* the transaction that call works with
  seen,         \* a round that call read from the chain
  answer        \* what the call returned or raised

chainVars == <<round, pool, confirmedAt>>
callVars == <<pc, req, tx, seen, answer>>
vars == <<intents, chainVars, callVars>>

Statuses == {"none", "prepared", "submitted", "confirmed"}
Intents == [tx : Txn \cup {None}, status : Statuses, attempted : BOOLEAN,
            error : BOOLEAN, round : 0 .. MaxRound]
NoIntent == [tx |-> None, status |-> "none", attempted |-> FALSE,
             error |-> FALSE, round |-> 0]
AnswerKinds == {"none", "receipt", "conflict", "expired", "pending", "missing",
                "unavailable"}
Answers == [kind : AnswerKinds, round : 0 .. MaxRound]
NoAnswer == [kind |-> "none", round |-> 0]

ExecuteSteps == {"prepare", "reserve", "window", "expired_lookup", "expired_error",
                 "attempt", "broadcast", "submit", "wait", "wait_error", "confirm"}
ReconcileSteps == {"rec_lookup", "rec_confirm"}
Steps == {"idle"} \cup ExecuteSteps \cup ReconcileSteps

LastValid(t) == t.first + Window

\* The rounds a node that answers for the chain may report as the last one.
NodeRounds == {r \in 1 .. round : r + MaxLag >= round}

Init == /\ intents = [o \in Ops |-> NoIntent]
        /\ round = 1
        /\ pool = {}
        /\ confirmedAt = [t \in Txn |-> 0]
        /\ pc = [w \in Workers |-> "idle"]
        /\ req = [w \in Workers |-> None]
        /\ tx = [w \in Workers |-> None]
        /\ seen = [w \in Workers |-> 0]
        /\ answer = [w \in Workers |-> NoAnswer]

-----------------------------------------------------------------------------
(* How a call moves on, and how it ends.                                   *)

Goto(w, step) == /\ pc' = [pc EXCEPT ![w] = step]
                 /\ UNCHANGED <<req, tx, seen, answer>>

\* The call goes on with a round it read from the chain.
Learn(w, step, r) == /\ pc' = [pc EXCEPT ![w] = step]
                     /\ seen' = [seen EXCEPT ![w] = r]
                     /\ UNCHANGED <<req, tx, answer>>

Answer(w, kind, r) == /\ pc' = [pc EXCEPT ![w] = "idle"]
                      /\ answer' = [answer EXCEPT ![w] = [kind |-> kind, round |-> r]]
                      /\ UNCHANGED <<req, tx, seen>>

-----------------------------------------------------------------------------
(* The intent repository.  Its updates match an intent by operation id,    *)
(* transaction and a status below "confirmed", and otherwise return the    *)
(* confirmed intent of that transaction as it is.  They raise when the     *)
(* intent holds another transaction, which ends the call like Abandon.     *)

\* The intent is stored with a status TransferStatus does not have.
PreparedIntentUnsent(t) == [NoIntent EXCEPT !.tx = t, !.status = "unsent"]

PreparedIntent(t) == [NoIntent EXCEPT !.tx = t, !.status = "prepared"]

\* reserve replaces the stored intent ($set where the code has $setOnInsert).
StoredOverwritten(i, t) == PreparedIntent(t)

\* reserve: insert the prepared intent, unless one is stored already.
Stored(i, t) == IF i = NoIntent THEN PreparedIntent(t) ELSE i

\* The filter on the status is dropped.
UpdatedAnyway(i, new) == new

\* _update_non_terminal.
Updated(i, new) == IF i.status = "confirmed" THEN i ELSE new

Attempted(i) == Updated(i, [i EXCEPT !.attempted = TRUE])
Submitted(i) == Updated(i, [i EXCEPT !.status = "submitted", !.error = FALSE])
Failed(i) == Updated(i, [i EXCEPT !.error = TRUE])
Confirmed(i, r) == Updated(i, [i EXCEPT !.status = "confirmed", !.error = FALSE, !.round = r])

\* Worker w's repository call leaves intent i; a confirmed one is the receipt
\* of the call, otherwise the call goes on.
Store(w, i, step) ==
  /\ intents[req[w].op].tx = tx[w]
  /\ intents' = [intents EXCEPT ![req[w].op] = i]
  /\ IF i.status = "confirmed" THEN Answer(w, "receipt", i.round) ELSE Goto(w, step)
  /\ UNCHANGED chainVars

-----------------------------------------------------------------------------
(* AssetTransferService.execute                                            *)

\* The conflict test of _assert_same_transfer is dropped.
ProceedUnchecked(w, i, r) ==
  /\ req' = [req EXCEPT ![w] = r]
  /\ tx' = [tx EXCEPT ![w] = i.tx]
  /\ pc' = [pc EXCEPT ![w] = IF i.status = "confirmed" THEN "idle" ELSE "window"]
  /\ answer' = [answer EXCEPT ![w] = IF i.status = "confirmed"
                                     THEN [kind |-> "receipt", round |-> i.round]
                                     ELSE NoAnswer]
  /\ UNCHANGED seen

\* What execute does with the intent it read or reserved.
Proceed(w, i, r) ==
  /\ req' = [req EXCEPT ![w] = r]
  /\ tx' = [tx EXCEPT ![w] = i.tx]
  /\ LET conflict == i.tx.terms # r.terms
         done == conflict \/ i.status = "confirmed"
     IN /\ pc' = [pc EXCEPT ![w] = IF done THEN "idle" ELSE "window"]
        /\ answer' = [answer EXCEPT ![w] =
                        IF conflict THEN [kind |-> "conflict", round |-> 0]
                        ELSE IF done THEN [kind |-> "receipt", round |-> i.round]
                        ELSE NoAnswer]
  /\ UNCHANGED seen

\* repository.get finds nothing: a transaction has to be prepared.
ExecuteNew(w, r) ==
  /\ pc[w] = "idle"
  /\ intents[r.op] = NoIntent
  /\ pc' = [pc EXCEPT ![w] = "prepare"]
  /\ req' = [req EXCEPT ![w] = r]
  /\ tx' = [tx EXCEPT ![w] = None]
  /\ answer' = [answer EXCEPT ![w] = NoAnswer]
  /\ UNCHANGED <<intents, chainVars, seen>>

\* repository.get finds the intent of an earlier or a concurrent call.
ExecuteKnown(w, r) ==
  /\ pc[w] = "idle"
  /\ intents[r.op] # NoIntent
  /\ Proceed(w, intents[r.op], r)
  /\ UNCHANGED <<intents, chainVars>>

\* gateway.prepare signs a transaction valid from the round the node reports.
Prepare(w) ==
  /\ pc[w] = "prepare"
  /\ \E r \in NodeRounds :
        tx' = [tx EXCEPT ![w] = [op |-> req[w].op, terms |-> req[w].terms, first |-> r]]
  /\ pc' = [pc EXCEPT ![w] = "reserve"]
  /\ UNCHANGED <<intents, chainVars, req, seen, answer>>

\* The loser of a reservation goes on with the transaction it signed itself.
ReserveKeepingOwn(w) ==
  /\ pc[w] = "reserve"
  /\ intents' = [intents EXCEPT ![req[w].op] = Stored(intents[req[w].op], tx[w])]
  /\ Goto(w, "broadcast")
  /\ UNCHANGED chainVars

\* repository.reserve: the call goes on with whatever intent is stored.
Reserve(w) ==
  /\ pc[w] = "reserve"
  /\ LET winner == Stored(intents[req[w].op], tx[w])
     IN /\ intents' = [intents EXCEPT ![req[w].op] = winner]
        /\ Proceed(w, winner, req[w])
  /\ UNCHANGED chainVars

\* An expired transaction is given up without looking it up on the chain.
CheckWindowOnly(w) ==
  /\ pc[w] = "window"
  /\ \E r \in NodeRounds :
        Goto(w, IF r > LastValid(tx[w]) THEN "expired_error" ELSE "attempt")
  /\ UNCHANGED <<intents, chainVars>>

\* gateway.current_round decides whether the transaction may still be sent.
CheckWindow(w) ==
  /\ pc[w] = "window"
  /\ \E r \in NodeRounds :
        Goto(w, IF r > LastValid(tx[w]) THEN "expired_lookup" ELSE "attempt")
  /\ UNCHANGED <<intents, chainVars>>

\* gateway.lookup_confirmed_round asks algod and then the Indexer, whose call
\* raises for a transaction it does not hold: the lookup of a transaction
\* without a confirmation raises, and so may that of a confirmed one while the
\* Indexer is behind or away.  After expiry the error ends in record_error.
ExpiredLookupFinds(w) ==
  /\ pc[w] = "expired_lookup"
  /\ confirmedAt[tx[w]] # 0
  /\ Learn(w, "confirm", confirmedAt[tx[w]])
  /\ UNCHANGED <<intents, chainVars>>

ExpiredLookupFails(w) ==
  /\ pc[w] = "expired_lookup"
  /\ Goto(w, "expired_error")
  /\ UNCHANGED <<intents, chainVars>>

\* repository.record_attempt, before every broadcast.
RecordAttempt(w) ==
  /\ pc[w] = "attempt"
  /\ Store(w, Attempted(intents[req[w].op]), "broadcast")

\* gateway.broadcast.  A node takes a valid transaction that is not in the
\* ledger; its answer may be lost after that, and the call may fail before.
Acceptable(t) == confirmedAt[t] = 0 /\ round < LastValid(t)

BroadcastAccepted(w) ==
  /\ pc[w] = "broadcast"
  /\ Acceptable(tx[w])
  /\ pool' = pool \cup {tx[w]}
  /\ \E step \in {"submit", "wait"} : Goto(w, step)
  /\ UNCHANGED <<intents, round, confirmedAt>>

BroadcastFails(w) ==
  /\ pc[w] = "broadcast"
  /\ Goto(w, "wait")
  /\ UNCHANGED <<intents, chainVars>>

\* repository.mark_submitted; execute swallows its failure like the node's.
MarkSubmitted(w) ==
  /\ pc[w] = "submit"
  /\ Store(w, Submitted(intents[req[w].op]), "wait")

MarkSubmittedFails(w) ==
  /\ pc[w] = "submit"
  /\ Goto(w, "wait")
  /\ UNCHANGED <<intents, chainVars>>

\* The end of the waiting time is taken for a confirmation in this round.
AwaitConfirmationBlindly(w) ==
  /\ pc[w] = "wait"
  /\ Learn(w, "confirm", round)
  /\ UNCHANGED <<intents, chainVars>>

\* gateway.wait_for_confirmation sees the transaction in a block, or raises.
AwaitConfirmation(w) ==
  /\ pc[w] = "wait"
  /\ confirmedAt[tx[w]] # 0
  /\ Learn(w, "confirm", confirmedAt[tx[w]])
  /\ UNCHANGED <<intents, chainVars>>

AwaitFails(w) ==
  /\ pc[w] = "wait"
  /\ Goto(w, "wait_error")
  /\ UNCHANGED <<intents, chainVars>>

\* The two record_error calls, and the error execute raises after each.
GivenUp(w, step, kind) ==
  LET o == req[w].op
      i == Failed(intents[o])
  IN /\ pc[w] = step
     /\ intents[o].tx = tx[w]
     /\ intents' = [intents EXCEPT ![o] = i]
     /\ IF i.status = "confirmed" THEN Answer(w, "receipt", i.round) ELSE Answer(w, kind, 0)
     /\ UNCHANGED chainVars

RecordExpired(w) == GivenUp(w, "expired_error", "expired")

\* A confirmation that was not seen in time is reported as an expiry.
RecordUnresolvedExpired(w) == GivenUp(w, "wait_error", "expired")

RecordUnresolved(w) == GivenUp(w, "wait_error", "pending")

\* repository.mark_confirmed, of execute and of reconcile: idempotent for the
\* same round, and an error (Abandon) for another one.
MarkConfirmed(w) ==
  LET i == Confirmed(intents[req[w].op], seen[w])
  IN /\ pc[w] \in {"confirm", "rec_confirm"}
     /\ i.round = seen[w]
     /\ Store(w, i, "idle")

-----------------------------------------------------------------------------
(* AssetTransferService.reconcile                                          *)

\* repository.get finds nothing, or an intent that is confirmed already.
ReconcileSettled(w, o) ==
  LET i == intents[o]
  IN /\ pc[w] = "idle"
     /\ i.status \in {"none", "confirmed"}
     /\ req' = [req EXCEPT ![w] = [op |-> o, terms |-> None]]
     /\ tx' = [tx EXCEPT ![w] = i.tx]
     /\ answer' = [answer EXCEPT ![w] = [kind |-> IF i = NoIntent THEN "missing" ELSE "receipt",
                                         round |-> i.round]]
     /\ UNCHANGED <<intents, chainVars, pc, seen>>

ReconcileOpen(w, o) ==
  /\ pc[w] = "idle"
  /\ intents[o].status \in {"prepared", "submitted"}
  /\ pc' = [pc EXCEPT ![w] = "rec_lookup"]
  /\ req' = [req EXCEPT ![w] = [op |-> o, terms |-> None]]
  /\ tx' = [tx EXCEPT ![w] = intents[o].tx]
  /\ answer' = [answer EXCEPT ![w] = NoAnswer]
  /\ UNCHANGED <<intents, chainVars, seen>>

\* The lookup finds a confirmation, or raises, which ends the call: see
\* ExpiredLookupFinds.  What reconcile does with a lookup that returns None is
\* for a gateway that can: the Indexer has no transaction without its round.
ReconcileLookupFinds(w) ==
  /\ pc[w] = "rec_lookup"
  /\ confirmedAt[tx[w]] # 0
  /\ Learn(w, "rec_confirm", confirmedAt[tx[w]])
  /\ UNCHANGED <<intents, chainVars>>

ReconcileLookupFails(w) ==
  /\ pc[w] = "rec_lookup"
  /\ Answer(w, "unavailable", 0)
  /\ UNCHANGED <<intents, chainVars>>

-----------------------------------------------------------------------------
(* A process that dies, or a call that ends in an exception of a driver.   *)

Abandon(w) ==
  /\ pc[w] # "idle"
  /\ pc' = [pc EXCEPT ![w] = "idle"]
  /\ req' = [req EXCEPT ![w] = None]
  /\ tx' = [tx EXCEPT ![w] = None]
  /\ UNCHANGED <<intents, chainVars, seen, answer>>

\* The chain: the next block confirms some of the valid pooled transactions,
\* and transactions whose window has passed leave the pool.
NewBlock ==
  /\ round < MaxRound
  /\ round' = round + 1
  /\ \E S \in SUBSET {t \in pool : t.first <= round' /\ round' <= LastValid(t)} :
        /\ confirmedAt' = [t \in Txn |-> IF t \in S THEN round' ELSE confirmedAt[t]]
        /\ pool' = {t \in pool \ S : round' < LastValid(t)}
  /\ UNCHANGED <<intents, callVars>>

Call(w) == \/ Prepare(w) \/ Reserve(w) \/ CheckWindow(w)
           \/ ExpiredLookupFinds(w) \/ ExpiredLookupFails(w) \/ RecordExpired(w)
           \/ RecordAttempt(w) \/ BroadcastAccepted(w) \/ BroadcastFails(w)
           \/ MarkSubmitted(w) \/ MarkSubmittedFails(w)
           \/ AwaitConfirmation(w) \/ AwaitFails(w) \/ RecordUnresolved(w)
           \/ MarkConfirmed(w)
           \/ ReconcileLookupFinds(w) \/ ReconcileLookupFails(w)

Start(w) == \/ \E o \in Ops, c \in Terms : \/ ExecuteNew(w, [op |-> o, terms |-> c])
                                           \/ ExecuteKnown(w, [op |-> o, terms |-> c])
            \/ \E o \in Ops : ReconcileSettled(w, o) \/ ReconcileOpen(w, o)

Next == \/ NewBlock
        \/ \E w \in Workers : Start(w) \/ Call(w) \/ Abandon(w)

Spec == Init /\ [][Next]_vars

-----------------------------------------------------------------------------
(* Properties                                                              *)

\* Every variable stays within its type; in particular a stored intent has one
\* of the three statuses of TransferStatus.
TypeOK == /\ intents \in [Ops -> Intents]
          /\ round \in 1 .. MaxRound
          /\ pool \subseteq Txn
          /\ confirmedAt \in [Txn -> 0 .. MaxRound]
          /\ pc \in [Workers -> Steps]
          /\ req \in [Workers -> Requests \cup {None}]
          /\ tx \in [Workers -> Txn \cup {None}]
          /\ seen \in [Workers -> 0 .. MaxRound]
          /\ answer \in [Workers -> Answers]

\* The chain never pays an operation with two transactions, however many
\* processes prepare, crash, retry and broadcast (execute and reserve).
PaidAtMostOnce == \A t, u \in Txn :
  confirmedAt[t] # 0 /\ confirmedAt[u] # 0 /\ t.op = u.op => t = u

\* Write-ahead: a transaction a node has seen was persisted, and its attempt
\* recorded, before it was broadcast (reserve and record_attempt precede
\* broadcast on every path of execute).
WriteAhead == \A t \in Txn : t \in pool \/ confirmedAt[t] # 0 =>
  intents[t.op].tx = t /\ intents[t.op].attempted

\* A "confirmed" intent is confirmed on chain in the recorded round, and holds
\* no error of a slower process (mark_confirmed, record_error).
RecordedIsPaid == \A o \in Ops : intents[o].status = "confirmed" =>
  /\ intents[o].round # 0
  /\ confirmedAt[intents[o].tx] = intents[o].round
  /\ ~intents[o].error

\* A receipt names a transaction with the terms the caller asked for, in the
\* round the chain confirmed it; a conflict is raised only for an operation
\* stored with other terms (_assert_same_transfer, _confirmed_receipt).
AnswersTruthful == \A w \in Workers :
  /\ answer[w].kind = "receipt" =>
       /\ answer[w].round # 0
       /\ confirmedAt[tx[w]] = answer[w].round
       /\ tx[w].op = req[w].op
       /\ req[w].terms \in {None, tx[w].terms}
  /\ answer[w].kind = "conflict" => intents[req[w].op].tx.terms # req[w].terms

\* Once a caller was told that a transaction expired, the chain never confirms
\* it any more: what the lookup finds after the error is final.
ExpiredIsFinal ==
  [][\A w \in Workers : answer[w].kind = "expired" =>
        (confirmedAt[tx[w]] = 0 => confirmedAt'[tx[w]] = 0)]_vars

\* Receiver, amount and signed transaction of an operation never change, and a
\* confirmed intent is not touched by slower workers' updates.
ConfirmedIsTerminal ==
  [][\A o \in Ops : /\ intents[o].tx # None => intents'[o].tx = intents[o].tx
                    /\ intents[o].status = "confirmed" => intents'[o] = intents[o]]_vars

\* The service implements the abstract payout: see module Payout.
PaidTransactions == {t \in Txn : confirmedAt[t] # 0}
ToldTransactions == [w \in Workers |-> IF answer[w].kind = "receipt" THEN tx[w] ELSE None]
Payouts == INSTANCE Payout WITH Callers <- Workers,
                                bound <- [o \in Ops |-> intents[o].tx],
                                paid <- PaidTransactions,
                                told <- ToldTransactions
ImplementsPayout == Payouts!Spec

-----------------------------------------------------------------------------
(* Liveness.  Processes take their steps, crashes stop at some point, the  *)
(* operator retries with the stored operation id, and a lookup repeated    *)
(* for ever does not fail for ever.                                        *)

Retry(w) == \E o \in Ops : intents[o] # NoIntent
                           /\ ExecuteKnown(w, [op |-> o, terms |-> intents[o].tx.terms])

FairSpec == /\ Spec
            /\ <>[][\A w \in Workers : ~Abandon(w)]_vars
            /\ WF_vars(NewBlock)
            /\ \A w \in Workers : /\ WF_vars(Call(w))
                                  /\ SF_vars(Retry(w))
                                  /\ SF_vars(AwaitConfirmation(w))
                                  /\ SF_vars(ExpiredLookupFinds(w))

\* A payment the chain confirmed is recorded in the end: neither a lost answer
\* nor a crash nor the expiry of the window leaves it unknown for ever.
PaidIsRecorded == \A t \in Txn :
  confirmedAt[t] # 0 ~> intents[t.op].status = "confirmed"
=============================================================================
