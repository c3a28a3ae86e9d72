--------------------------- MODULE AirdropProofs ---------------------------
(***************************************************************************)
(* Machine-checked facts about Airdrop, for any number of processes,       *)
(* recipients and plans.                                                   *)
(***************************************************************************)
EXTENDS Airdrop, AllocationProofs

\* The steps of the loop over the recipients, and those after the manifest is reserved.
Paying == {"next", "relink", "execute", "persist"}
Reserved == Paying \cup {"mark", "returned"}

\* The recipient's part is recorded with its operation.
Done(r, amounts) == /\ rewards[r] # None
                    /\ rewards[r].linked
                    /\ rewards[r].amount = amounts[r]

\* An old transaction and a transfer of the service never meet at a recipient.
Old(r) == rewards[r] # None /\ rewards[r].legacy =>
            /\ transfer[r] = None
            /\ rewards[r].linked => r \in onChain

\* A reward of this code was written after its transfer was confirmed.
Recorded(r) == rewards[r] # None /\ ~rewards[r].legacy =>
            /\ rewards[r].linked
            /\ transfer[r] # None
            /\ transfer[r].status = "paid"
            /\ transfer[r].amount = rewards[r].amount

Allocated(r) == transfer[r] # None => /\ manifest # None
                                      /\ transfer[r].amount = manifest.amounts[r]

\* What a run knows at each step.
Planned(run) == /\ run.step # "idle" => run.amounts \in PlanAmounts
                /\ run.step \in Reserved => manifest # None /\ manifest.amounts = run.amounts
Unpaid(run) == run.step \in {"execute", "persist"} =>
                  rewards[run.at] = None \/ ~rewards[run.at].legacy
Receipt(run) == run.step = "persist" => /\ transfer[run.at] # None
                                        /\ transfer[run.at].status = "paid"
                                        /\ transfer[run.at].amount = run.amounts[run.at]
Seen(run) == /\ run.step = "link" => rewards[run.at] # None
             /\ run.step = "relink" => /\ rewards[run.at] # None
                                       /\ rewards[run.at].amount = run.amounts[run.at]
Progress(run) ==
  /\ run.step \in Paying /\ ~run.failed =>
       \A r \in Recipients : r < run.at => Done(r, run.amounts)
  /\ run.step = "mark" /\ ~run.failed => \A r \in Recipients : Done(r, run.amounts)
Finished(run) == run.step = "returned" => manifest.status = "complete"

Fresh(run) == run.step = "reserve" => run.at = 1

RunOK(run) == /\ Planned(run) /\ Unpaid(run) /\ Receipt(run)
              /\ Seen(run) /\ Progress(run) /\ Finished(run) /\ Fresh(run)

CompleteOK == manifest # None /\ manifest.status = "complete" =>
                \A r \in Recipients : Done(r, manifest.amounts)

StoresOK == \A r \in Recipients : Old(r) /\ Recorded(r) /\ Allocated(r)

IInv == TypeOK /\ StoresOK /\ CompleteOK /\ \A w \in Workers : RunOK(worker[w])

\* What every step does with the stores.
Grow ==
  /\ \A r \in Recipients : rewards[r] # None =>
        /\ rewards'[r] # None
        /\ rewards'[r].amount = rewards[r].amount
        /\ rewards'[r].legacy = rewards[r].legacy
        /\ rewards[r].linked => rewards'[r].linked
  /\ \A r \in Recipients : rewards[r] = None /\ rewards'[r] # None => ~rewards'[r].legacy
  /\ \A r \in Recipients : transfer[r] # None =>
        /\ transfer'[r] # None
        /\ transfer'[r].amount = transfer[r].amount
        /\ transfer[r].status = "paid" => transfer'[r].status = "paid"
  /\ manifest # None => /\ manifest' # None
                        /\ manifest'.amounts = manifest.amounts
                        /\ manifest.status = "complete" => manifest'.status = "complete"

RunType == [step : Steps, amounts : PlanAmounts \cup {None}, at : Recipients, failed : BOOLEAN]

-----------------------------------------------------------------------------
\* Amounts are amounts of recipients.
LEMMA AmountsType ==
  ASSUME NEW amounts \in PlanAmounts
  PROVE  /\ DOMAIN amounts = Recipients
         /\ amounts = [r \in Recipients |-> amounts[r]]
         /\ \A r \in Recipients : amounts[r] \in Units
<1>1. PICK plan \in Plans : amounts = Amounts(plan)
  BY DEF PlanAmounts
<1>2. DOMAIN plan.shares = Recipients
  BY PlansAssumption
<1>3. \E F : amounts = [r \in DOMAIN plan.shares |-> F[r]]
  <2> DEFINE floor == Floor(plan.total, plan.shares)
             rest == Remainder(plan.total, plan.shares)
             undistributed == plan.total - Total(floor)
             e(r) == IF Cardinality(Ahead(rest, r)) < undistributed THEN floor[r] + 1 ELSE floor[r]
             F == [r \in DOMAIN plan.shares |-> e(r)]
  <2>1. amounts = F
    BY <1>1, Zenon DEF Amounts, Allocate
  <2>2. F = [r \in DOMAIN plan.shares |-> F[r]]
    OBVIOUS
  <2> HIDE DEF F
  <2> QED BY <2>1, <2>2
<1>4. DOMAIN amounts = Recipients /\ amounts = [r \in Recipients |-> amounts[r]]
  BY <1>2, <1>3
<1>5. \A r \in Recipients : amounts[r] \in Units
  BY DEF Units
<1> QED BY <1>4, <1>5

\* A run that does not step knows what it knew.
LEMMA Kept ==
  ASSUME TypeOK, Grow, NEW u \in Workers, RunOK(worker[u]), worker'[u] = worker[u]
  PROVE  RunOK(worker[u])'
<1>1. worker[u] \in RunType /\ worker[u].at \in Recipients
  BY DEF TypeOK, RunType
<1>2. Planned(worker[u])'
  BY DEF RunOK, Planned, Grow
<1>3. Unpaid(worker[u])'
  BY <1>1 DEF RunOK, Unpaid, Grow
<1>4. Receipt(worker[u])'
  BY <1>1 DEF RunOK, Receipt, Grow
<1>5. Seen(worker[u])'
  BY <1>1 DEF RunOK, Seen, Grow
<1>6. Progress(worker[u])'
  BY <1>1 DEF RunOK, Progress, Grow, Done
<1>7. Finished(worker[u])'
  BY DEF RunOK, Finished, Grow, Planned, Reserved
<1> QED BY <1>2, <1>3, <1>4, <1>5, <1>6, <1>7 DEF RunOK, Fresh

\* A complete campaign stays as it is.
LEMMA CompleteKept ==
  ASSUME Grow, CompleteOK,
         manifest' # None /\ manifest'.status = "complete" =>
            manifest # None /\ manifest.status = "complete"
  PROVE  CompleteOK'
  BY DEF Grow, CompleteOK, Done

\* One run steps.
LEMMA OneRunSteps ==
  ASSUME IInv, Grow, TypeOK', StoresOK', CompleteOK', NEW w \in Workers,
         \A u \in Workers \ {w} : worker'[u] = worker[u],
         RunOK(worker[w])'
  PROVE  IInv'
<1>1. ASSUME NEW u \in Workers PROVE RunOK(worker[u])'
  BY Kept DEF IInv
<1> QED BY <1>1 DEF IInv

\* A run steps and the stores stay.
LEMMA QuietStep ==
  ASSUME IInv, NEW w \in Workers, NEW run \in RunType, RunOK(run),
         worker' = [worker EXCEPT ![w] = run], UNCHANGED <<manifest, rewards, transfer, onChain>>
  PROVE  IInv' /\ Grow
<1>1. Grow
  BY DEF Grow
<1>2. TypeOK'
  BY DEF IInv, TypeOK, RunType
<1>3. StoresOK'
  BY DEF IInv, StoresOK, Old, Recorded, Allocated
<1>4. CompleteOK'
  BY DEF IInv, CompleteOK, Done
<1>5. worker'[w] = run /\ \A u \in Workers \ {w} : worker'[u] = worker[u]
  BY DEF IInv, TypeOK
<1>6. RunOK(worker'[w])
  BY <1>5
<1>7. RunOK(worker[w])'
  BY <1>6 DEF RunOK, Planned, Unpaid, Receipt, Seen, Progress, Finished, Done, Fresh
<1> QED BY <1>1, <1>2, <1>3, <1>4, <1>5, <1>7, OneRunSteps

\* A run that goes on to a step of which little is asked.
LEMMA GoesOK ==
  ASSUME IInv, NEW w \in Workers, NEW step \in Steps, Goes(w, step),
         RunOK(Run(step, worker[w].amounts, worker[w].at, worker[w].failed)),
         UNCHANGED <<manifest, rewards, transfer, onChain>>
  PROVE  IInv' /\ Grow
<1> DEFINE run == Run(step, worker[w].amounts, worker[w].at, worker[w].failed)
<1>1. run \in RunType
  BY DEF IInv, TypeOK, RunType, Run
<1>2. worker' = [worker EXCEPT ![w] = run]
  BY DEF Goes
<1> HIDE DEF run
<1>3. RunOK(run)
  BY DEF run
<1> QED BY <1>1, <1>2, <1>3, QuietStep

LEMMA RaisesOK ==
  ASSUME IInv, NEW w \in Workers, Raises(w), UNCHANGED <<manifest, rewards, transfer, onChain>>
  PROVE  IInv' /\ Grow
<1>1. Idle \in RunType
  BY RecipientsAssumption DEF Idle, Run, RunType, Steps, Recipients
<1>2. RunOK(Idle)
  BY DEF Idle, Run, RunOK, Planned, Unpaid, Receipt, Seen, Progress, Finished, Fresh, Reserved, Paying
<1>3. worker' = [worker EXCEPT ![w] = Idle]
  BY DEF Raises
<1> HIDE DEF Idle
<1> QED BY <1>1, <1>2, <1>3, QuietStep

\* The run after a recipient.
After(w, loop, after, failed) ==
  Run(IF worker[w].at < N THEN loop ELSE after, worker[w].amounts,
      IF worker[w].at < N THEN worker[w].at + 1 ELSE 1, worker[w].failed \/ failed)

LEMMA AfterType ==
  ASSUME IInv, NEW w \in Workers, NEW loop \in Steps, NEW after \in Steps, NEW failed \in BOOLEAN
  PROVE  After(w, loop, after, failed) \in RunType
<1>1. /\ worker[w].at \in Recipients /\ worker[w].failed \in BOOLEAN
      /\ worker[w].amounts \in PlanAmounts \cup {None}
  BY DEF IInv, TypeOK
<1>2. (IF worker[w].at < N THEN worker[w].at + 1 ELSE 1) \in Recipients
  BY <1>1, RecipientsAssumption DEF Recipients
<1>3. (worker[w].failed \/ failed) \in BOOLEAN
  OBVIOUS
<1>4. (IF worker[w].at < N THEN loop ELSE after) \in Steps
  OBVIOUS
<1> QED BY <1>1, <1>2, <1>3, <1>4, Zenon DEF After, Run, RunType

\* The loops of the checks.
LEMMA NextCheckOK ==
  ASSUME IInv, NEW w \in Workers, worker[w].step # "idle"
  PROVE  RunOK(After(w, "validate", "reserve", FALSE))
<1>1. worker[w].amounts \in PlanAmounts
  BY DEF IInv, RunOK, Planned
<1>2. After(w, "validate", "reserve", FALSE).amounts = worker[w].amounts
  BY DEF After, Run
<1>3. /\ After(w, "validate", "reserve", FALSE).step \in {"validate", "reserve"}
      /\ After(w, "validate", "reserve", FALSE).step = "reserve" =>
            After(w, "validate", "reserve", FALSE).at = 1
  BY DEF After, Run
<1> HIDE DEF After
<1> QED BY <1>1, <1>2, <1>3
        DEF RunOK, Planned, Unpaid, Receipt, Seen, Progress, Finished, Fresh, Reserved, Paying

\* The loop over the recipients: another one is done, or the run has failed.
LEMMA NextRecipientOK ==
  ASSUME IInv, Grow, NEW w \in Workers, worker[w].step \in Paying,
         NEW failed \in BOOLEAN, NextRecipient(w, failed),
         ~failed => /\ rewards'[worker[w].at] # None
                    /\ rewards'[worker[w].at].linked
                    /\ rewards'[worker[w].at].amount = worker[w].amounts[worker[w].at]
  PROVE  /\ RunOK(worker[w])'
         /\ worker' \in [Workers -> RunType]
         /\ \A u \in Workers \ {w} : worker'[u] = worker[u]
<1> DEFINE run == After(w, "next", "mark", failed)
<1>1. worker' = [worker EXCEPT ![w] = run]
  BY DEF NextRecipient, NextOf, After
<1>2. run \in RunType
  BY AfterType DEF Steps
<1>3. /\ run.step = IF worker[w].at < N THEN "next" ELSE "mark"
      /\ run.amounts = worker[w].amounts
      /\ run.at = IF worker[w].at < N THEN worker[w].at + 1 ELSE 1
      /\ run.failed = (worker[w].failed \/ failed)
  BY DEF After, Run
<1> HIDE DEF run
<1>4. worker \in [Workers -> RunType]
  BY DEF IInv, TypeOK, RunType
<1>5. /\ worker'[w] = run
      /\ worker' \in [Workers -> RunType]
      /\ \A u \in Workers \ {w} : worker'[u] = worker[u]
  BY <1>1, <1>2, <1>4
<1>6. /\ worker[w].at \in 1 .. N /\ N \in Nat
      /\ worker[w].failed \in BOOLEAN
  BY <1>4, RecipientsAssumption DEF RunType, Recipients
<1>7. /\ run.amounts \in PlanAmounts
      /\ manifest # None /\ manifest.amounts = run.amounts
      /\ manifest' # None /\ manifest'.amounts = run.amounts
  BY <1>3 DEF IInv, RunOK, Planned, Reserved, Paying, Grow
<1>8. ASSUME ~run.failed
      PROVE  /\ ~failed /\ ~worker[w].failed
  BY <1>3, <1>6, <1>8
<1>9. ASSUME ~run.failed, NEW r \in Recipients, r <= worker[w].at
      PROVE  /\ rewards'[r] # None
             /\ rewards'[r].linked
             /\ rewards'[r].amount = run.amounts[r]
  <2>1. CASE r = worker[w].at
    BY <1>3, <1>8, <1>9, <2>1
  <2>2. CASE r < worker[w].at
    <3>1. Done(r, worker[w].amounts)
      BY <1>8, <1>9, <2>2 DEF IInv, RunOK, Progress
    <3> QED BY <3>1, <1>3 DEF Done, Grow
  <2> QED BY <1>6, <1>9, <2>1, <2>2 DEF Recipients
<1>10. Progress(worker[w])'
  <2>1. CASE worker[w].at < N
    <3>1. run.step = "next" /\ run.at = worker[w].at + 1
      BY <1>3, <2>1
    <3>2. \A r \in Recipients : r < run.at => r <= worker[w].at
      BY <3>1, <1>6 DEF Recipients
    <3> QED BY <1>5, <1>9, <3>1, <3>2 DEF Progress, Done
  <2>2. CASE ~(worker[w].at < N)
    <3>1. run.step = "mark"
      BY <1>3, <2>2
    <3>2. \A r \in Recipients : r <= worker[w].at
      BY <2>2, <1>6 DEF Recipients
    <3> QED BY <1>5, <1>9, <3>1, <3>2 DEF Progress, Done, Paying
  <2> QED BY <2>1, <2>2
<1>11. run.step \in {"next", "mark"}
  BY <1>3
<1>12. RunOK(worker[w])'
  BY <1>5, <1>7, <1>10, <1>11
     DEF RunOK, Planned, Unpaid, Receipt, Seen, Finished, Fresh
<1> QED BY <1>5, <1>12

-----------------------------------------------------------------------------
\* The steps that leave the stores alone.
LEMMA Quiet ==
  ASSUME IInv, NEW w \in Workers,
         \/ \E plan \in Plans : Start(w, plan)
         \/ RequireManifest(w) \/ Validate(w) \/ Check(w) \/ ReadReward(w)
         \/ SendReturns(w) \/ RecipientFails(w) \/ Abandon(w)
  PROVE  IInv' /\ Grow
<1>t. worker[w] \in RunType /\ worker[w].at \in Recipients
  BY DEF IInv, TypeOK, RunType
<1>r. RunOK(worker[w])
  BY DEF IInv
<1>q. UNCHANGED <<manifest, rewards, transfer, onChain>> => Grow
  BY DEF Grow
<1>g. ASSUME NEW failed \in BOOLEAN, NextRecipient(w, failed), worker[w].step \in Paying,
             ~failed => Done(worker[w].at, worker[w].amounts),
             UNCHANGED <<manifest, rewards, transfer, onChain>>
      PROVE  IInv' /\ Grow
  <2>1. Grow
    BY <1>q, <1>g
  <2>2. /\ RunOK(worker[w])'
        /\ worker' \in [Workers -> RunType]
        /\ \A u \in Workers \ {w} : worker'[u] = worker[u]
    BY <2>1, <1>g, NextRecipientOK DEF Done
  <2>3. TypeOK'
    BY <2>2, <1>g DEF IInv, TypeOK, RunType
  <2>4. StoresOK' /\ CompleteOK'
    BY <1>g DEF IInv, StoresOK, Old, Recorded, Allocated, CompleteOK, Done
  <2> QED BY <2>1, <2>2, <2>3, <2>4, OneRunSteps
<1>1. ASSUME NEW plan \in Plans, Start(w, plan) PROVE IInv' /\ Grow
  <2> DEFINE step == IF Rewarded # {} THEN "manifest" ELSE "validate"
             run == Run(step, Amounts(plan), 1, FALSE)
  <2>1. run \in RunType
    BY RecipientsAssumption DEF Run, RunType, Steps, Recipients, PlanAmounts
  <2>2. RunOK(run)
    BY DEF Run, RunOK, Planned, Unpaid, Receipt, Seen, Progress, Finished, Fresh, Reserved, Paying,
           PlanAmounts
  <2>3. /\ worker' = [worker EXCEPT ![w] = run]
        /\ UNCHANGED <<manifest, rewards, transfer, onChain>>
    BY <1>1 DEF Start
  <2> HIDE DEF run
  <2> QED BY <2>1, <2>2, <2>3, QuietStep
<1>2. CASE RequireManifest(w)
  <2>1. RunOK(Run("validate", worker[w].amounts, worker[w].at, worker[w].failed))
    BY <1>2, <1>r DEF RequireManifest, Run, RunOK, Planned, Unpaid, Receipt, Seen, Progress,
                      Finished, Fresh, Reserved, Paying
  <2> QED BY <1>2, <2>1, GoesOK, RaisesOK DEF RequireManifest, Steps
<1>3. CASE Validate(w)
  <2>1. RunOK(Run("check", worker[w].amounts, worker[w].at, worker[w].failed))
    BY <1>3, <1>r DEF Validate, Run, RunOK, Planned, Unpaid, Receipt, Seen, Progress,
                      Finished, Fresh, Reserved, Paying
  <2> QED BY <1>3, <2>1, GoesOK, RaisesOK DEF Validate, Steps
<1>4. CASE Check(w)
  <2>0. /\ worker[w].step = "check"
        /\ UNCHANGED <<manifest, rewards, transfer, onChain>>
    BY <1>4 DEF Check
  <2>1. CASE NextCheck(w)
    <3> DEFINE run == After(w, "validate", "reserve", FALSE)
    <3>1. run \in RunType
      BY AfterType DEF Steps
    <3>2. RunOK(run)
      BY <2>0, NextCheckOK
    <3>3. worker' = [worker EXCEPT ![w] = run]
      BY <2>1 DEF NextCheck, NextOf, After
    <3> HIDE DEF run
    <3> QED BY <2>0, <3>1, <3>2, <3>3, QuietStep
  <2>2. CASE rewards[worker[w].at] # None /\ Goes(w, "link")
    <3>1. RunOK(Run("link", worker[w].amounts, worker[w].at, worker[w].failed))
      BY <2>0, <2>2, <1>r DEF Run, RunOK, Planned, Unpaid, Receipt, Seen, Progress,
                        Finished, Fresh, Reserved, Paying
    <3> QED BY <2>0, <2>2, <3>1, GoesOK DEF Steps
  <2>3. CASE Raises(w)
    BY <2>0, <2>3, RaisesOK
  <2> QED BY <1>4, <2>1, <2>2, <2>3 DEF Check
<1>5. CASE ReadReward(w)
  <2>0. /\ worker[w].step = "next"
        /\ UNCHANGED <<manifest, rewards, transfer, onChain>>
    BY <1>5 DEF ReadReward
  <2>1. CASE rewards[worker[w].at] = None /\ Goes(w, "execute")
    <3>1. RunOK(Run("execute", worker[w].amounts, worker[w].at, worker[w].failed))
      BY <2>0, <2>1, <1>r DEF Run, RunOK, Planned, Unpaid, Receipt, Seen, Progress,
                        Finished, Fresh, Reserved, Paying
    <3> QED BY <2>0, <2>1, <3>1, GoesOK DEF Steps
  <2>2. CASE rewards[worker[w].at] # None /\ RewardMatches(w) /\ Goes(w, "relink")
    <3>1. RunOK(Run("relink", worker[w].amounts, worker[w].at, worker[w].failed))
      BY <2>0, <2>2, <1>r DEF Run, RunOK, Planned, Unpaid, Receipt, Seen, Progress,
                        Finished, Fresh, Reserved, Paying, RewardMatches, Amount
    <3> QED BY <2>0, <2>2, <3>1, GoesOK DEF Steps
  <2>3. CASE NextRecipient(w, TRUE)
    BY <2>0, <2>3, <1>g DEF Paying
  <2> QED BY <1>5, <2>1, <2>2, <2>3 DEF ReadReward
<1>6. CASE SendReturns(w)
  <2>0. /\ worker[w].step = "execute" /\ Goes(w, "persist")
        /\ UNCHANGED <<manifest, rewards, transfer, onChain>>
    BY <1>6 DEF SendReturns, Confirmed
  <2>1. RunOK(Run("persist", worker[w].amounts, worker[w].at, worker[w].failed))
    BY <1>6, <1>r DEF SendReturns, Confirmed, TransferMatches, Amount, Run, RunOK, Planned, Unpaid,
                      Receipt, Seen, Progress, Finished, Fresh, Reserved, Paying
  <2> QED BY <2>0, <2>1, GoesOK DEF Steps
<1>7. CASE RecipientFails(w)
  BY <1>7, <1>g DEF RecipientFails, Paying
<1>8. CASE Abandon(w)
  BY <1>8, RaisesOK DEF Abandon
<1> QED BY <1>1, <1>2, <1>3, <1>4, <1>5, <1>6, <1>7, <1>8

-----------------------------------------------------------------------------
\* A reward gets its operation.
LEMMA LinkStores ==
  ASSUME IInv, NEW r \in Recipients, rewards[r] # None, Linkable(r), Linked(r),
         UNCHANGED <<manifest, transfer, onChain>>
  PROVE  /\ Grow /\ StoresOK' /\ CompleteOK'
         /\ rewards' \in [Recipients -> Rewards \cup {None}]
         /\ rewards'[r] # None /\ rewards'[r].linked /\ rewards'[r].amount = rewards[r].amount
<1>1. rewards \in [Recipients -> Rewards \cup {None}] /\ rewards[r] \in Rewards
  BY DEF IInv, TypeOK
<1> DEFINE new == Reward(rewards[r].amount, rewards[r].legacy, TRUE)
<1>2. new \in Rewards /\ new.linked = TRUE /\ new.amount = rewards[r].amount /\ new.legacy = rewards[r].legacy
  BY <1>1 DEF Rewards, Reward
<1>5. rewards' = [rewards EXCEPT ![r] = new]
  BY DEF Linked
<1> HIDE DEF new
<1>6. rewards'[r] = new /\ \A s \in Recipients \ {r} : rewards'[s] = rewards[s]
  BY <1>1, <1>5
<1>7. rewards' \in [Recipients -> Rewards \cup {None}]
  BY <1>1, <1>2, <1>5
<1>8. new # None
  BY <1>2, NoneAssumption
<1>9. Grow
  BY <1>2, <1>6, <1>8 DEF Grow
<1>10. StoresOK'
  BY <1>2, <1>6 DEF IInv, StoresOK, Old, Recorded, Allocated, Linkable
<1>11. CompleteOK'
  BY <1>9, CompleteKept DEF IInv
<1> QED BY <1>2, <1>6, <1>7, <1>8, <1>9, <1>10, <1>11

LEMMA LinkOK ==
  ASSUME IInv, NEW w \in Workers, Link(w)
  PROVE  IInv' /\ Grow
<1> DEFINE at == worker[w].at
           run == After(w, "validate", "reserve", FALSE)
<1>1. worker[w].step = "link" /\ at \in Recipients /\ rewards[at] # None
  BY DEF Link, IInv, TypeOK, RunOK, Seen
<1>2. CASE Linkable(at)
  <2>1. Linked(at) /\ NextCheck(w) /\ UNCHANGED <<manifest, transfer, onChain>>
    BY <1>2 DEF Link
  <2>2. /\ Grow /\ StoresOK' /\ CompleteOK' /\ rewards' \in [Recipients -> Rewards \cup {None}]
    BY <1>1, <1>2, <2>1, LinkStores
  <2>3. run \in RunType /\ RunOK(run)
    BY <1>1, AfterType, NextCheckOK DEF Steps
  <2>4. /\ run.step \in {"validate", "reserve"} /\ run.amounts \in PlanAmounts
        /\ run.step = "reserve" => run.at = 1
    BY <1>1 DEF After, Run, IInv, RunOK, Planned
  <2>5. worker' = [worker EXCEPT ![w] = run]
    BY <2>1 DEF NextCheck, NextOf, After
  <2> HIDE DEF run
  <2>6. worker'[w] = run /\ \A u \in Workers \ {w} : worker'[u] = worker[u]
    BY <2>5 DEF IInv, TypeOK
  <2>7. TypeOK'
    BY <2>1, <2>2, <2>3, <2>5 DEF IInv, TypeOK, RunType
  <2>8. RunOK(worker[w])'
    BY <2>4, <2>6
       DEF RunOK, Planned, Unpaid, Receipt, Seen, Progress, Finished, Fresh, Reserved, Paying
  <2> QED BY <2>2, <2>6, <2>7, <2>8, OneRunSteps
<1>3. CASE ~Linkable(at)
  BY <1>3, RaisesOK DEF Link
<1> QED BY <1>2, <1>3

LEMMA RelinkOK ==
  ASSUME IInv, NEW w \in Workers, Relink(w)
  PROVE  IInv' /\ Grow
<1> DEFINE at == worker[w].at
<1>1. /\ worker[w].step = "relink" /\ at \in Recipients /\ rewards[at] # None
      /\ rewards[at].amount = worker[w].amounts[at]
  BY DEF Relink, IInv, TypeOK, RunOK, Seen
<1>2. CASE Linkable(at)
  <2>1. Linked(at) /\ NextRecipient(w, FALSE) /\ UNCHANGED <<manifest, transfer, onChain>>
    BY <1>2 DEF Relink
  <2>2. /\ Grow /\ StoresOK' /\ CompleteOK' /\ rewards' \in [Recipients -> Rewards \cup {None}]
        /\ rewards'[at] # None /\ rewards'[at].linked /\ rewards'[at].amount = rewards[at].amount
    BY <1>1, <1>2, <2>1, LinkStores
  <2>3. /\ RunOK(worker[w])'
        /\ worker' \in [Workers -> RunType]
        /\ \A u \in Workers \ {w} : worker'[u] = worker[u]
    BY <1>1, <2>1, <2>2, NextRecipientOK DEF Paying
  <2>4. TypeOK'
    BY <2>1, <2>2, <2>3 DEF IInv, TypeOK, RunType
  <2> QED BY <2>2, <2>3, <2>4, OneRunSteps
<1>3. CASE ~Linkable(at)
  <2>1. NextRecipient(w, TRUE) /\ UNCHANGED <<manifest, rewards, transfer, onChain>>
    BY <1>3 DEF Relink
  <2>2. Grow
    BY <2>1 DEF Grow
  <2>3. /\ RunOK(worker[w])'
        /\ worker' \in [Workers -> RunType]
        /\ \A u \in Workers \ {w} : worker'[u] = worker[u]
    BY <1>1, <2>1, <2>2, NextRecipientOK DEF Paying
  <2>4. TypeOK' /\ StoresOK' /\ CompleteOK'
    BY <2>1, <2>3 DEF IInv, TypeOK, RunType, StoresOK, Old, Recorded, Allocated, CompleteOK, Done
  <2> QED BY <2>2, <2>3, <2>4, OneRunSteps
<1> QED BY <1>2, <1>3

\* The manifest is stored, or the one that is there is compared.
LEMMA ReserveOK ==
  ASSUME IInv, NEW w \in Workers, ReserveManifest(w)
  PROVE  IInv' /\ Grow
<1>1. /\ worker[w].step = "reserve" /\ worker[w].amounts \in PlanAmounts
      /\ UNCHANGED <<rewards, transfer, onChain>>
  BY DEF ReserveManifest, IInv, RunOK, Planned
<1> DEFINE new == [amounts |-> worker[w].amounts, status |-> "prepared"]
           run == Run("next", worker[w].amounts, worker[w].at, worker[w].failed)
<1>2. new \in Manifests /\ new # None /\ new.status = "prepared" /\ new.amounts = worker[w].amounts
  BY <1>1, NoneAssumption DEF Manifests
<1>3. manifest' = IF manifest = None THEN new ELSE manifest
  BY DEF ReserveManifest
<1> HIDE DEF new
<1>4. Grow
  BY <1>1, <1>3 DEF Grow
<1>5. manifest' \in Manifests \cup {None} /\ manifest' # None
  BY <1>2, <1>3 DEF IInv, TypeOK
<1>6. StoresOK'
  BY <1>1, <1>3, <1>4 DEF IInv, StoresOK, Old, Recorded, Allocated, Grow
<1>7. CompleteOK'
  BY <1>2, <1>3, <1>4, CompleteKept DEF IInv
<1>8. CASE SameManifest(w) /\ Goes(w, "next")
  <2>1. worker' = [worker EXCEPT ![w] = run]
    BY <1>8 DEF Goes
  <2>2. run \in RunType /\ run.step = "next" /\ run.amounts = worker[w].amounts /\ run.at = worker[w].at
    BY DEF IInv, TypeOK, Run, RunType, Steps
  <2>3. manifest'.amounts = run.amounts
    BY <1>2, <1>3, <1>8, <2>2 DEF SameManifest
  <2> HIDE DEF run
  <2>4. worker'[w] = run /\ \A u \in Workers \ {w} : worker'[u] = worker[u]
    BY <2>1 DEF IInv, TypeOK
  <2>5. TypeOK'
    BY <1>1, <1>5, <2>1, <2>2 DEF IInv, TypeOK, RunType
  <2>6. run.at = 1
    BY <1>1, <2>2 DEF IInv, RunOK, Fresh
  <2>7. \A r \in Recipients : ~(r < run.at)
    BY <2>6 DEF Recipients
  <2>8. RunOK(worker[w])'
    BY <1>1, <1>5, <2>2, <2>3, <2>4, <2>7
       DEF RunOK, Planned, Unpaid, Receipt, Seen, Progress, Finished, Fresh, Reserved, Paying
  <2> QED BY <1>4, <1>6, <1>7, <2>4, <2>5, <2>8, OneRunSteps
<1>9. CASE Raises(w)
  <2>1. worker' = [worker EXCEPT ![w] = Idle] /\ Idle \in RunType /\ Idle.step = "idle"
    BY <1>9, RecipientsAssumption DEF Raises, Idle, Run, RunType, Steps, Recipients
  <2>2. worker'[w] = Idle /\ \A u \in Workers \ {w} : worker'[u] = worker[u]
    BY <2>1 DEF IInv, TypeOK
  <2>3. TypeOK'
    BY <1>1, <1>5, <2>1 DEF IInv, TypeOK, RunType
  <2>4. RunOK(worker[w])'
    BY <2>1, <2>2
       DEF RunOK, Planned, Unpaid, Receipt, Seen, Progress, Finished, Fresh, Reserved, Paying
  <2> QED BY <1>4, <1>6, <1>7, <2>2, <2>3, <2>4, OneRunSteps
<1> QED BY <1>8, <1>9 DEF ReserveManifest

-----------------------------------------------------------------------------
\* The transfer service binds the operation, or its transaction settles.
LEMMA TransferStores ==
  ASSUME IInv, NEW r \in Recipients, NEW new \in Transfers,
         transfer' = [transfer EXCEPT ![r] = new], UNCHANGED <<manifest, rewards, onChain>>,
         rewards[r] = None \/ ~rewards[r].legacy,
         manifest # None /\ new.amount = manifest.amounts[r],
         transfer[r] # None => /\ transfer[r].amount = new.amount
                               /\ transfer[r].status # "paid"
  PROVE  Grow /\ StoresOK' /\ CompleteOK' /\ transfer' \in [Recipients -> Transfers \cup {None}]
<1>1. /\ transfer \in [Recipients -> Transfers \cup {None}]
      /\ transfer'[r] = new /\ \A s \in Recipients \ {r} : transfer'[s] = transfer[s]
      /\ new # None
  BY NoneAssumption DEF IInv, TypeOK
<1>2. Grow
  BY <1>1 DEF Grow
<1>3. StoresOK'
  <2>1. \A s \in Recipients \ {r} : (Old(s) /\ Recorded(s) /\ Allocated(s))'
    BY <1>1 DEF IInv, StoresOK, Old, Recorded, Allocated
  <2>2. (Old(r) /\ Recorded(r) /\ Allocated(r))'
    BY <1>1 DEF IInv, StoresOK, Old, Recorded, Allocated
  <2> QED BY <2>1, <2>2 DEF StoresOK
<1>4. CompleteOK'
  BY <1>2, CompleteKept DEF IInv
<1>5. transfer' \in [Recipients -> Transfers \cup {None}]
  BY <1>1
<1> QED BY <1>2, <1>3, <1>4, <1>5

LEMMA SendOK ==
  ASSUME IInv, NEW w \in Workers, Send(w)
  PROVE  IInv' /\ Grow
<1> DEFINE at == worker[w].at
           new == [amount |-> Amount(w), status |-> "sent"]
<1>1. /\ worker[w].step = "execute" /\ at \in Recipients
      /\ worker[w].amounts \in PlanAmounts
      /\ manifest # None /\ manifest.amounts = worker[w].amounts
      /\ rewards[at] = None \/ ~rewards[at].legacy
      /\ transfer[at] = None
  BY DEF Send, IInv, TypeOK, RunOK, Planned, Unpaid, Reserved, Paying
<1>2. new \in Transfers /\ new.amount = manifest.amounts[at]
  BY <1>1, AmountsType DEF Transfers, Amount
<1>3. /\ transfer' = [transfer EXCEPT ![at] = new]
      /\ UNCHANGED <<manifest, rewards, onChain, worker>>
  BY DEF Send
<1> HIDE DEF new
<1>4. Grow /\ StoresOK' /\ CompleteOK' /\ transfer' \in [Recipients -> Transfers \cup {None}]
  BY <1>1, <1>2, <1>3, TransferStores
<1>5. TypeOK'
  BY <1>3, <1>4 DEF IInv, TypeOK
<1>6. RunOK(worker[w])'
  BY <1>3, <1>4, Kept DEF IInv
<1> QED BY <1>3, <1>4, <1>5, <1>6, OneRunSteps

LEMMA SettleOK ==
  ASSUME IInv, NEW r \in Recipients, Settle(r)
  PROVE  IInv' /\ Grow
<1>1. PICK outcome \in {"paid", "expired"} : transfer' = [transfer EXCEPT ![r].status = outcome]
  BY DEF Settle
<1>2. /\ transfer[r] # None /\ transfer[r].status = "sent" /\ transfer[r] \in Transfers
      /\ UNCHANGED <<manifest, rewards, onChain, worker>>
  BY DEF Settle, IInv, TypeOK
<1> DEFINE new == [amount |-> transfer[r].amount, status |-> outcome]
<1>3. new \in Transfers /\ new.amount = transfer[r].amount
  BY <1>2 DEF Transfers
<1>4. [transfer[r] EXCEPT !.status = outcome] = new
  BY <1>2 DEF Transfers
<1>5. transfer' = [transfer EXCEPT ![r] = [transfer[r] EXCEPT !.status = outcome]]
  BY <1>1
<1>6. transfer' = [transfer EXCEPT ![r] = new]
  BY <1>4, <1>5
<1> HIDE DEF new
<1>7. /\ rewards[r] = None \/ ~rewards[r].legacy
      /\ manifest # None /\ new.amount = manifest.amounts[r]
  BY <1>2, <1>3 DEF IInv, StoresOK, Old, Allocated
<1>8. Grow /\ StoresOK' /\ CompleteOK' /\ transfer' \in [Recipients -> Transfers \cup {None}]
  BY <1>2, <1>3, <1>6, <1>7, TransferStores
<1>9. TypeOK'
  BY <1>2, <1>8 DEF IInv, TypeOK
<1>10. ASSUME NEW u \in Workers PROVE RunOK(worker[u])'
  BY <1>2, <1>8, Kept DEF IInv
<1> QED BY <1>8, <1>9, <1>10 DEF IInv

LEMMA PersistOK ==
  ASSUME IInv, NEW w \in Workers, Persist(w)
  PROVE  IInv' /\ Grow
<1>0. PICK at \in Recipients : at = worker[w].at
  BY DEF IInv, TypeOK
<1> DEFINE new == Reward(Amount(w), FALSE, TRUE)
           failed == rewards[at] # None /\ (rewards[at].legacy \/ ~RewardMatches(w))
<1>1. /\ worker[w].step = "persist" /\ at \in Recipients
      /\ worker[w].amounts \in PlanAmounts
      /\ transfer[at] # None /\ transfer[at].status = "paid"
      /\ transfer[at].amount = worker[w].amounts[at]
      /\ rewards[at] = None \/ ~rewards[at].legacy
  BY <1>0 DEF Persist, IInv, TypeOK, RunOK, Planned, Unpaid, Receipt
<1>2. /\ new \in Rewards /\ new # None
      /\ new.amount = worker[w].amounts[at] /\ new.legacy = FALSE /\ new.linked = TRUE
  <2>1. Amount(w) \in Units /\ Amount(w) = worker[w].amounts[at]
    BY <1>0, <1>1, AmountsType DEF Amount
  <2>2. new \in Rewards
    BY <2>1 DEF Rewards, Reward
  <2> QED BY <2>1, <2>2, NoneAssumption DEF Reward
<1>3. /\ rewards' = IF rewards[at] # None THEN rewards ELSE [rewards EXCEPT ![at] = new]
      /\ NextRecipient(w, failed)
      /\ UNCHANGED <<manifest, transfer, onChain>>
  BY <1>0 DEF Persist
<1> HIDE DEF new
<1>4. /\ rewards \in [Recipients -> Rewards \cup {None}]
      /\ rewards' \in [Recipients -> Rewards \cup {None}]
      /\ \A s \in Recipients \ {at} : rewards'[s] = rewards[s]
      /\ rewards'[at] = IF rewards[at] # None THEN rewards[at] ELSE new
  BY <1>1, <1>2, <1>3 DEF IInv, TypeOK
<1>5. Grow
  BY <1>2, <1>3, <1>4 DEF Grow
<1>6. StoresOK'
  <2>1. \A s \in Recipients \ {at} : (Old(s) /\ Recorded(s) /\ Allocated(s))'
    BY <1>3, <1>4 DEF IInv, StoresOK, Old, Recorded, Allocated
  <2>2. (Old(at) /\ Recorded(at) /\ Allocated(at))'
    BY <1>1, <1>2, <1>3, <1>4 DEF IInv, StoresOK, Old, Recorded, Allocated
  <2> HIDE DEF failed
  <2> QED BY <2>1, <2>2 DEF StoresOK
<1>7. CompleteOK'
  BY <1>3, <1>5, CompleteKept DEF IInv
<1>8. failed \in BOOLEAN
  OBVIOUS
<1>9. ~failed => /\ rewards'[at] # None
                 /\ rewards'[at].linked
                 /\ rewards'[at].amount = worker[w].amounts[at]
  BY <1>0, <1>1, <1>2, <1>4 DEF RewardMatches, Amount, IInv, StoresOK, Recorded
<1> HIDE DEF failed
<1>10. /\ RunOK(worker[w])'
       /\ worker' \in [Workers -> RunType]
       /\ \A u \in Workers \ {w} : worker'[u] = worker[u]
  BY <1>0, <1>1, <1>3, <1>5, <1>8, <1>9, NextRecipientOK DEF Paying
<1>11. TypeOK'
  BY <1>3, <1>4, <1>10 DEF IInv, TypeOK, RunType
<1> QED BY <1>5, <1>6, <1>7, <1>10, <1>11, OneRunSteps

-----------------------------------------------------------------------------
\* The end of a run.
LEMMA MarkOK ==
  ASSUME IInv, NEW w \in Workers, MarkPartial(w) \/ MarkComplete(w)
  PROVE  IInv' /\ Grow
<1>1. /\ worker[w].step = "mark" /\ worker[w].amounts \in PlanAmounts
      /\ manifest # None /\ manifest \in Manifests /\ manifest.amounts = worker[w].amounts
      /\ UNCHANGED <<rewards, transfer, onChain>>
  BY DEF MarkPartial, MarkComplete, IInv, TypeOK, RunOK, Planned, Reserved
<1>2. PICK status \in {"partial", "complete"} :
        /\ manifest' = [manifest EXCEPT !.status = status]
        /\ manifest.status = "complete" => status = "complete"
        /\ status = "complete" => manifest.status = "complete" \/ ~worker[w].failed
        /\ (status = "complete" /\ Goes(w, "returned")) \/ Raises(w)
  <2>1. CASE MarkPartial(w)
    <3>1. CASE manifest.status = "complete"
      BY <2>1, <3>1 DEF MarkPartial, PartialStatus
    <3>2. CASE manifest.status # "complete"
      BY <2>1, <3>2 DEF MarkPartial, PartialStatus
    <3> QED BY <3>1, <3>2
  <2>2. CASE MarkComplete(w)
    BY <2>2 DEF MarkComplete, Failed
  <2> QED BY <2>1, <2>2
<1>3. manifest' \in Manifests /\ manifest'.amounts = manifest.amounts /\ manifest'.status = status
  BY <1>1, <1>2 DEF Manifests
<1>4. manifest' # None
  BY <1>3, NoneAssumption
<1>5. Grow
  BY <1>1, <1>2, <1>3, <1>4 DEF Grow
<1>6. StoresOK'
  BY <1>1, <1>3, <1>4 DEF IInv, StoresOK, Old, Recorded, Allocated
<1>7. CompleteOK'
  <2>1. CASE manifest.status = "complete"
    BY <1>1, <1>5, <2>1, CompleteKept DEF IInv
  <2>2. CASE status = "complete" /\ ~worker[w].failed
    <3>1. \A r \in Recipients : Done(r, worker[w].amounts)
      BY <1>1, <2>2 DEF IInv, RunOK, Progress
    <3> QED BY <1>1, <1>3, <3>1 DEF CompleteOK, Done
  <2>3. CASE status # "complete"
    BY <1>3, <2>3 DEF CompleteOK
  <2> QED BY <1>2, <2>1, <2>2, <2>3
<1>8. CASE status = "complete" /\ Goes(w, "returned")
  <2> DEFINE run == Run("returned", worker[w].amounts, worker[w].at, worker[w].failed)
  <2>1. worker' = [worker EXCEPT ![w] = run]
    BY <1>8 DEF Goes
  <2>2. run \in RunType /\ run.step = "returned" /\ run.amounts = worker[w].amounts
    BY DEF IInv, TypeOK, Run, RunType, Steps
  <2> HIDE DEF run
  <2>3. worker'[w] = run /\ \A u \in Workers \ {w} : worker'[u] = worker[u]
    BY <2>1 DEF IInv, TypeOK
  <2>4. TypeOK'
    BY <1>1, <1>3, <2>1, <2>2 DEF IInv, TypeOK, RunType
  <2>5. RunOK(worker[w])'
    BY <1>1, <1>3, <1>4, <1>8, <2>2, <2>3
       DEF RunOK, Planned, Unpaid, Receipt, Seen, Progress, Finished, Fresh, Reserved, Paying
  <2> QED BY <1>5, <1>6, <1>7, <2>3, <2>4, <2>5, OneRunSteps
<1>9. CASE Raises(w)
  <2>1. worker' = [worker EXCEPT ![w] = Idle] /\ Idle \in RunType /\ Idle.step = "idle"
    BY <1>9, RecipientsAssumption DEF Raises, Idle, Run, RunType, Steps, Recipients
  <2>2. worker'[w] = Idle /\ \A u \in Workers \ {w} : worker'[u] = worker[u]
    BY <2>1 DEF IInv, TypeOK
  <2>3. TypeOK'
    BY <1>1, <1>3, <2>1 DEF IInv, TypeOK, RunType
  <2>4. RunOK(worker[w])'
    BY <2>1, <2>2
       DEF RunOK, Planned, Unpaid, Receipt, Seen, Progress, Finished, Fresh, Reserved, Paying
  <2> QED BY <1>5, <1>6, <1>7, <2>2, <2>3, <2>4, OneRunSteps
<1> QED BY <1>2, <1>8, <1>9

-----------------------------------------------------------------------------
LEMMA InitInv == ASSUME Init PROVE IInv
<1>1. PICK S \in SUBSET Recipients, amounts \in PlanAmounts :
        /\ rewards = [r \in Recipients |-> IF r \in S THEN LegacyReward(amounts[r]) ELSE None]
        /\ onChain \in SUBSET S
        /\ manifest \in {None} \cup
             {m \in Manifests : S # {} /\ m.status = "prepared" /\ Sufficient(m.amounts)}
  BY DEF Init
<1>2. /\ transfer = [r \in Recipients |-> None]
      /\ worker = [w \in Workers |-> Idle]
  BY DEF Init
<1>3. \A r \in Recipients : LegacyReward(amounts[r]) \in Rewards
  BY AmountsType DEF LegacyReward, Reward, Rewards
<1>4. rewards \in [Recipients -> Rewards \cup {None}]
  BY <1>1, <1>3
<1>5. /\ Idle \in RunType /\ Idle.step = "idle"
  BY RecipientsAssumption DEF Idle, Run, RunType, Steps, Recipients
<1>6. TypeOK
  BY <1>1, <1>2, <1>4, <1>5 DEF TypeOK, RunType
<1>7. StoresOK
  <2>1. \A r \in Recipients : rewards[r] # None => rewards[r].legacy /\ ~rewards[r].linked
    BY <1>1 DEF LegacyReward, Reward
  <2> QED BY <1>2, <2>1 DEF StoresOK, Old, Recorded, Allocated
<1>8. CompleteOK
  BY <1>1 DEF CompleteOK
<1>9. \A w \in Workers : RunOK(worker[w])
  BY <1>2, <1>5
     DEF RunOK, Planned, Unpaid, Receipt, Seen, Progress, Finished, Fresh, Reserved, Paying
<1> QED BY <1>6, <1>7, <1>8, <1>9 DEF IInv

LEMMA StepInv == ASSUME IInv, Next PROVE IInv' /\ Grow
<1>1. ASSUME NEW w \in Workers, (\E plan \in Plans : Start(w, plan)) \/ Step(w)
                                \/ RecipientFails(w) \/ Abandon(w)
      PROVE  IInv' /\ Grow
  BY <1>1, Quiet, LinkOK, RelinkOK, ReserveOK, SendOK, PersistOK, MarkOK DEF Step
<1>2. ASSUME NEW r \in Recipients, Settle(r) PROVE IInv' /\ Grow
  BY <1>2, SettleOK
<1> QED BY <1>1, <1>2 DEF Next

\* What stores and runs know of each other holds in every reachable state.
THEOREM AirdropInvariant == Spec => []IInv
<1>1. ASSUME IInv, [Next]_vars PROVE IInv'
  <2>1. CASE Next
    BY <1>1, <2>1, StepInv
  <2>2. CASE UNCHANGED vars
    BY <1>1, <2>2 DEF vars, IInv, TypeOK, StoresOK, Old, Recorded, Allocated, CompleteOK, Done,
          RunOK, Planned, Unpaid, Receipt, Seen, Progress, Finished, Fresh
  <2> QED BY <1>1, <2>1, <2>2
<1> QED BY <1>1, InitInv, PTL DEF Spec

\* The documents, the operations and the runs keep their types.
THEOREM AirdropTypes == Spec => []TypeOK
<1>1. IInv => TypeOK
  BY DEF IInv
<1> QED BY <1>1, AirdropInvariant, PTL

\* Nothing leaves the wallet but what the manifest allocates (send_airdrop).
THEOREM NothingBeyondTheBudget == Spec => []WithinBudget
<1>1. IInv => WithinBudget
  BY DEF IInv, StoresOK, Old, Allocated, WithinBudget
<1> QED BY <1>1, AirdropInvariant, PTL

\* A complete campaign stays complete, its plan and its rewards stay (_mark_airdrop_manifest).
THEOREM CompleteStays == Spec => CompleteIsFinal
<1> DEFINE Final ==
     /\ manifest # None =>
          /\ manifest'.amounts = manifest.amounts
          /\ manifest.status = "complete" => manifest'.status = "complete"
     /\ \A r \in Rewarded : /\ rewards'[r] # None
                            /\ rewards'[r].legacy = rewards[r].legacy
                            /\ rewards[r].linked => rewards'[r].linked
<1>1. ASSUME IInv, [Next]_vars PROVE [Final]_vars
  BY <1>1, StepInv DEF Grow, Rewarded
<1> QED BY <1>1, AirdropInvariant, PTL DEF Spec, CompleteIsFinal

\* Every plan's budget is divided exactly.
LEMMA PlansAreExact ==
  \A plan \in Plans : ExactDivision(plan.total, plan.shares, Amounts(plan))
<1>1. IsFiniteSet(Recipients) /\ Recipients # {} /\ \A r \in Recipients : r \in Int
  <2>1. IsFiniteSet(1 .. N)
    BY RecipientsAssumption, FS_Interval
  <2> QED BY <2>1, RecipientsAssumption DEF Recipients
<1>2. ASSUME NEW plan \in Plans
      PROVE  ExactDivision(plan.total, plan.shares, Allocate(plan.total, plan.shares))
  <2>1. plan.total \in Nat /\ plan.shares \in [Recipients -> Nat \ {0}]
    BY PlansAssumption
  <2> QED BY <1>1, <2>1, AllocationIsExact
<1> QED BY <1>2 DEF Amounts

\* A complete campaign has paid its plan: every recipient the exact share, to the unit, and all
\* of the budget (send_airdrop).
THEOREM CompleteIsPaid == Spec => []CompleteMeansPaid
<1>1. ASSUME IInv PROVE CompleteMeansPaid
  <2>1. ASSUME NEW w \in Workers, worker[w].step = "returned"
        PROVE  /\ manifest # None
               /\ manifest.status = "complete"
               /\ manifest.amounts = worker[w].amounts
    BY <1>1, <2>1 DEF IInv, RunOK, Planned, Finished, Reserved
  <2>2. ASSUME manifest # None, manifest.status = "complete"
        PROVE  /\ \A r \in Recipients : rewards[r] # None /\ rewards[r].linked
               /\ [r \in Recipients |-> PaidTo(r)] = manifest.amounts
               /\ \E plan \in Plans :
                     ExactDivision(plan.total, plan.shares, [r \in Recipients |-> PaidTo(r)])
    <3>1. \A r \in Recipients : Done(r, manifest.amounts)
      BY <1>1, <2>2 DEF IInv, CompleteOK
    <3>2. ASSUME NEW r \in Recipients PROVE PaidTo(r) = manifest.amounts[r]
      <4>1. rewards[r] # None /\ rewards[r].linked /\ rewards[r].amount = manifest.amounts[r]
        BY <3>1 DEF Done
      <4>2. CASE rewards[r].legacy
        BY <1>1, <4>1, <4>2 DEF IInv, StoresOK, Old, PaidTo
      <4>3. CASE ~rewards[r].legacy
        BY <1>1, <4>1, <4>3 DEF IInv, StoresOK, Recorded, PaidTo
      <4> QED BY <4>2, <4>3
    <3>3. manifest.amounts \in PlanAmounts
      BY <1>1, <2>2 DEF IInv, TypeOK, Manifests
    <3>4. manifest.amounts = [r \in Recipients |-> manifest.amounts[r]]
      BY <3>3, AmountsType
    <3>5. [r \in Recipients |-> PaidTo(r)] = manifest.amounts
      BY <3>2, <3>4
    <3>6. \E plan \in Plans : ExactDivision(plan.total, plan.shares, manifest.amounts)
      BY <3>3, PlansAreExact DEF PlanAmounts
    <3> QED BY <3>1, <3>5, <3>6 DEF Done
  <2> QED BY <2>1, <2>2 DEF CompleteMeansPaid
<1> QED BY <1>1, AirdropInvariant, PTL
=============================================================================
