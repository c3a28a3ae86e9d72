------------------------------ MODULE Airdrop ------------------------------
(***************************************************************************)
(* send_airdrop of flex/tools/airdrop.py: one campaign, run again and      *)
(* again by any number of processes until every recipient is paid.         *)
(*                                                                         *)
(* The stores are the campaign's manifest and one reward per recipient;    *)
(* transfer is what the outbound-transfer service promises (module Payout) *)
(* for the operation airdrop:<campaign>:<recipient>.  A plan is what the   *)
(* operator asks for; the asset and the notes bind like the amounts do and *)
(* are part of them.  One action is one Mongo command or one call of the   *)
(* transfer service.                                                       *)
(***************************************************************************)
EXTENDS Allocation

CONSTANTS
  Workers,  \* processes that run send_airdrop for this campaign
  N,        \* number of recipients
  Plans,    \* budgets and shares that operators ask for
  None      \* Python's None

Recipients == 1 .. N

Amounts(plan) == Allocate(plan.total, plan.shares)
PlanAmounts == {Amounts(plan) : plan \in Plans}
Units == UNION {{amounts[r] : r \in Recipients} : amounts \in PlanAmounts}

\* A budget that leaves nothing for a recipient is too small.
Sufficient(amounts) == \A r \in Recipients : amounts[r] > 0

\* A reward of a transaction from before operation ids existed is legacy; it is
\* linked when it names the operation and the round of its confirmation.
Rewards == [amount : Units, legacy : BOOLEAN, linked : BOOLEAN]
Manifests == [amounts : PlanAmounts, status : {"prepared", "partial", "complete"}]
Transfers == [amount : Units, status : {"sent", "paid", "expired"}]

ASSUME RecipientsAssumption == N \in Nat \ {0}
ASSUME PlansAssumption ==
  \A plan \in Plans : plan.total \in Nat \ {0} /\ plan.shares \in [Recipients -> Nat \ {0}]
ASSUME NoneAssumption ==
  None \notin Rewards /\ None \notin Manifests /\ None \notin Transfers /\ None \notin PlanAmounts

VARIABLES
  manifest,  \* the campaign's manifest
  rewards,   \* its reward documents
  transfer,  \* the operation of each recipient at the transfer service
  onChain,   \* recipients whose legacy transaction was confirmed as recorded
  worker     \* the run each process is in

vars == <<manifest, rewards, transfer, onChain, worker>>

Steps == {"idle", "manifest", "validate", "check", "link", "reserve", "next", "relink",
          "execute", "persist", "mark", "returned"}

Run(step, amounts, at, failed) ==
  [step |-> step, amounts |-> amounts, at |-> at, failed |-> failed]
Idle == Run("idle", None, 1, FALSE)

Reward(amount, legacy, linked) == [amount |-> amount, legacy |-> legacy, linked |-> linked]
LegacyReward(amount) == Reward(amount, TRUE, FALSE)

\* A campaign from before manifests may have rewards, confirmed or not; an
\* operator may have migrated it by storing its manifest.
Init ==
  /\ \E S \in SUBSET Recipients, amounts \in PlanAmounts :
        /\ Sufficient(amounts)
        /\ rewards = [r \in Recipients |-> IF r \in S THEN LegacyReward(amounts[r]) ELSE None]
        /\ onChain \in SUBSET S
        /\ manifest \in {None} \cup
             {m \in Manifests : S # {} /\ m.status = "prepared" /\ Sufficient(m.amounts)}
  /\ transfer = [r \in Recipients |-> None]
  /\ worker = [w \in Workers |-> Idle]

Rewarded == {r \in Recipients : rewards[r] # None}

-----------------------------------------------------------------------------
(* Moving a run along.                                                     *)

Goes(w, step) ==
  worker' = [worker EXCEPT ![w] = Run(step, @.amounts, @.at, @.failed)]

\* An error ends the call; so does the end of the process.
Raises(w) == worker' = [worker EXCEPT ![w] = Idle]

\* The next round of the loop whose step this is, or what follows the loop.
NextOf(w, loop, after, failed) ==
  worker' = [worker EXCEPT ![w] =
    Run(IF @.at < N THEN loop ELSE after, @.amounts, IF @.at < N THEN @.at + 1 ELSE 1,
        @.failed \/ failed)]

NextCheck(w) == NextOf(w, "validate", "reserve", FALSE)
NextRecipient(w, failed) == NextOf(w, "next", "mark", failed)

Amount(w) == worker[w].amounts[worker[w].at]

\* _assert_reward_matches
RewardMatches(w) == rewards[worker[w].at].amount = Amount(w)

\* _assert_same_transfer of the service.
TransferMatches(w) ==
  LET t == transfer[worker[w].at] IN t # None => t.amount = Amount(w)

-----------------------------------------------------------------------------
(* The checks before anything is sent.                                     *)

Start(w, plan) ==
  /\ worker[w].step \in {"idle", "returned"}
  /\ Sufficient(Amounts(plan))
  /\ worker' = [worker EXCEPT ![w] =
        Run(IF Rewarded # {} THEN "manifest" ELSE "validate", Amounts(plan), 1, FALSE)]
  /\ UNCHANGED <<manifest, rewards, transfer, onChain>>

\* A campaign that has rewards is never run again.
RefuseRewarded(w) ==
  /\ worker[w].step = "manifest"
  /\ Raises(w)
  /\ UNCHANGED <<manifest, rewards, transfer, onChain>>

\* Rewards without a manifest are left to the operator.
RequireManifest(w) ==
  /\ worker[w].step = "manifest"
  /\ IF manifest # None THEN Goes(w, "validate") ELSE Raises(w)
  /\ UNCHANGED <<manifest, rewards, transfer, onChain>>

Validate(w) ==
  /\ worker[w].step = "validate"
  /\ IF TransferMatches(w) THEN Goes(w, "check") ELSE Raises(w)
  /\ UNCHANGED <<manifest, rewards, transfer, onChain>>

Check(w) ==
  /\ worker[w].step = "check"
  /\ IF rewards[worker[w].at] = None THEN NextCheck(w)
     ELSE IF RewardMatches(w) THEN Goes(w, "link")
     ELSE Raises(w)
  /\ UNCHANGED <<manifest, rewards, transfer, onChain>>

\* A reward without its operation is looked up on the chain.
Linkable(r) == rewards[r].linked \/ r \in onChain

Linked(r) == rewards' = [rewards EXCEPT ![r] = Reward(@.amount, @.legacy, TRUE)]

\* _reconcile_existing_reward: the lookup of an old transaction and the update.
Link(w) ==
  /\ worker[w].step = "link"
  /\ IF Linkable(worker[w].at)
     THEN Linked(worker[w].at) /\ NextCheck(w)
     ELSE Raises(w) /\ UNCHANGED rewards
  /\ UNCHANGED <<manifest, transfer, onChain>>

\* The manifest found is taken for the own one.
SameManifestAssumed(w) == TRUE

\* The immutable fields; they follow from the amounts.
SameManifest(w) == manifest # None => manifest.amounts = worker[w].amounts

ReserveManifest(w) ==
  /\ worker[w].step = "reserve"
  /\ manifest' = IF manifest = None
                 THEN [amounts |-> worker[w].amounts, status |-> "prepared"]
                 ELSE manifest
  /\ IF SameManifest(w) THEN Goes(w, "next") ELSE Raises(w)
  /\ UNCHANGED <<rewards, transfer, onChain>>

-----------------------------------------------------------------------------
(* The recipients, one after the other; an error costs its recipient only. *)

ReadReward(w) ==
  /\ worker[w].step = "next"
  /\ IF rewards[worker[w].at] = None THEN Goes(w, "execute")
     ELSE IF RewardMatches(w) THEN Goes(w, "relink")
     ELSE NextRecipient(w, TRUE)
  /\ UNCHANGED <<manifest, rewards, transfer, onChain>>

Relink(w) ==
  /\ worker[w].step = "relink"
  /\ IF Linkable(worker[w].at)
     THEN Linked(worker[w].at) /\ NextRecipient(w, FALSE)
     ELSE NextRecipient(w, TRUE) /\ UNCHANGED rewards
  /\ UNCHANGED <<manifest, transfer, onChain>>

\* service.execute binds the operation to these terms and sends.
Send(w) ==
  /\ worker[w].step = "execute"
  /\ transfer[worker[w].at] = None
  /\ transfer' = [transfer EXCEPT ![worker[w].at] = [amount |-> Amount(w), status |-> "sent"]]
  /\ UNCHANGED <<manifest, rewards, onChain, worker>>

\* It returns a receipt when the bound transaction is confirmed.
Confirmed(w) == /\ worker[w].step = "execute"
                /\ transfer[worker[w].at] # None
                /\ TransferMatches(w)
                /\ transfer[worker[w].at].status = "paid"

SendReturns(w) ==
  /\ Confirmed(w)
  /\ Goes(w, "persist")
  /\ UNCHANGED <<manifest, rewards, transfer, onChain>>

\* _persist_reward inserts, or finds the reward of the same transaction.
Persist(w) ==
  LET r == worker[w].at
  IN /\ worker[w].step = "persist"
     /\ rewards' = IF rewards[r] # None THEN rewards
                   ELSE [rewards EXCEPT ![r] = Reward(Amount(w), FALSE, TRUE)]
     /\ NextRecipient(w, rewards[r] # None /\ (rewards[r].legacy \/ ~RewardMatches(w)))
     /\ UNCHANGED <<manifest, transfer, onChain>>

\* Reading, linking, sending or storing fails; the loop goes on.
RecipientFails(w) ==
  /\ worker[w].step \in {"next", "relink", "execute", "persist"}
  /\ NextRecipient(w, TRUE)
  /\ UNCHANGED <<manifest, rewards, transfer, onChain>>

-----------------------------------------------------------------------------
(* The end of a run.                                                       *)

\* Failures are forgotten once the loop is over.
FailedForgotten(w) == FALSE

Failed(w) == worker[w].failed

\* partial is written over complete.
PartialAlways == "partial"

\* partial does not replace complete.
PartialStatus == IF manifest.status = "complete" THEN "complete" ELSE "partial"

\* A run with failures ends well if another one completed the campaign.
MarkPartial(w) ==
  /\ worker[w].step = "mark"
  /\ Failed(w)
  /\ manifest' = [manifest EXCEPT !.status = PartialStatus]
  /\ IF manifest.status = "complete" THEN Goes(w, "returned") ELSE Raises(w)
  /\ UNCHANGED <<rewards, transfer, onChain>>

MarkComplete(w) ==
  /\ worker[w].step = "mark"
  /\ ~Failed(w)
  /\ manifest' = [manifest EXCEPT !.status = "complete"]
  /\ Goes(w, "returned")
  /\ UNCHANGED <<rewards, transfer, onChain>>

\* An error outside the loop, or the process dies.
Abandon(w) == /\ worker[w].step \notin {"idle", "returned"}
              /\ Raises(w)
              /\ UNCHANGED <<manifest, rewards, transfer, onChain>>

\* A transaction that is out is confirmed, or it expires.
Settle(r) ==
  /\ transfer[r] # None
  /\ transfer[r].status = "sent"
  /\ \E outcome \in {"paid", "expired"} : transfer' = [transfer EXCEPT ![r].status = outcome]
  /\ UNCHANGED <<manifest, rewards, onChain, worker>>

\* What a run does next when nothing fails.
Step(w) ==
  \/ RequireManifest(w) \/ Validate(w) \/ Check(w) \/ Link(w) \/ ReserveManifest(w)
  \/ ReadReward(w) \/ Relink(w) \/ Send(w) \/ SendReturns(w) \/ Persist(w)
  \/ MarkPartial(w) \/ MarkComplete(w)

Next ==
  \/ \E w \in Workers : \/ \E plan \in Plans : Start(w, plan)
                        \/ Step(w) \/ RecipientFails(w) \/ Abandon(w)
  \/ \E r \in Recipients : Settle(r)

Spec == Init /\ [][Next]_vars

-----------------------------------------------------------------------------
(* Properties.                                                             *)

\* The documents, the operations and the runs have their types.
TypeOK ==
  /\ manifest \in Manifests \cup {None}
  /\ rewards \in [Recipients -> Rewards \cup {None}]
  /\ transfer \in [Recipients -> Transfers \cup {None}]
  /\ onChain \subseteq Recipients
  /\ worker \in [Workers -> [step : Steps, amounts : PlanAmounts \cup {None},
                             at : Recipients, failed : BOOLEAN]]

\* Whatever leaves the wallet is what the manifest allocates, and nothing leaves
\* it for a recipient an old transaction was recorded for: runs of different
\* plans and of one plan at once never spend more than one budget ("without
\* exceeding its integer budget", send_airdrop).
WithinBudget ==
  \A r \in Recipients : transfer[r] # None =>
     /\ manifest # None
     /\ transfer[r].amount = manifest.amounts[r]
     /\ rewards[r] # None => ~rewards[r].legacy

PaidTo(r) == IF rewards[r] # None /\ rewards[r].legacy /\ r \in onChain THEN rewards[r].amount
             ELSE IF transfer[r] # None /\ transfer[r].status = "paid" THEN transfer[r].amount
             ELSE 0

\* A complete campaign, and one a caller was told has run, has paid every
\* recipient its part of the budget, each recorded with its operation.
CompleteMeansPaid ==
  /\ \A w \in Workers : worker[w].step = "returned" =>
        /\ manifest # None
        /\ manifest.status = "complete"
        /\ manifest.amounts = worker[w].amounts
  /\ manifest # None /\ manifest.status = "complete" =>
        /\ \A r \in Recipients : rewards[r] # None /\ rewards[r].linked
        /\ [r \in Recipients |-> PaidTo(r)] = manifest.amounts
        /\ \E plan \in Plans :
              ExactDivision(plan.total, plan.shares, [r \in Recipients |-> PaidTo(r)])

\* A campaign that is complete stays so, its plan never changes and a recorded
\* reward keeps its transaction, whatever slower runs still write.
CompleteIsFinal ==
  [][/\ manifest # None =>
          /\ manifest'.amounts = manifest.amounts
          /\ manifest.status = "complete" => manifest'.status = "complete"
     /\ \A r \in Rewarded : /\ rewards'[r] # None
                            /\ rewards'[r].legacy = rewards[r].legacy
                            /\ rewards[r].linked => rewards'[r].linked]_vars

-----------------------------------------------------------------------------
(* Liveness: operators keep running the plan of the manifest, as            *)
(* AirdropIncompleteError tells them, and processes and calls stop to fail. *)

\* A call of execute on a transaction that has not settled times out, and one
\* on an expired transaction raises; these are no failures that cease.
Unpayable(w) == /\ worker[w].step = "execute"
                /\ transfer[worker[w].at] # None
                /\ ~Confirmed(w)

Failure == \E w \in Workers :
              \/ RecipientFails(w) /\ ~Unpayable(w) /\ ~Step(w)
              \/ Abandon(w) /\ ~Step(w)

Rerun == /\ manifest # None
         /\ \E w \in Workers, plan \in Plans :
               manifest.amounts = Amounts(plan) /\ Start(w, plan)

FairSpec == /\ Spec
            /\ <>[][~Failure]_vars
            /\ \A r \in Recipients : WF_vars(Settle(r))
            /\ \A w \in Workers : WF_vars(Step(w) \/ (Unpayable(w) /\ RecipientFails(w)))
            /\ SF_vars(Rerun)

\* The operator has to look into it: a transaction expired, an old one is not
\* on the chain, or old rewards are not those of the manifest.
Stuck == \E r \in Recipients :
            \/ transfer[r] # None /\ transfer[r].status = "expired"
            \/ rewards[r] # None /\ rewards[r].legacy /\ r \notin onChain
            \/ rewards[r] # None /\ manifest # None /\ rewards[r].amount # manifest.amounts[r]

\* A campaign that was begun is complete in the end, through partial runs, lost
\* answers and crashes, unless the operator has to look into it.
CampaignCompletes == manifest # None ~> (manifest # None /\ manifest.status = "complete") \/ Stuck
=============================================================================
