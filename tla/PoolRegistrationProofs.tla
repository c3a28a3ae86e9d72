----------------------- MODULE PoolRegistrationProofs -----------------------
(***************************************************************************)
(* Machine-checked facts about PoolRegistration, for any contracts,        *)
(* processes, applications, requests and inherited stores.                 *)
(***************************************************************************)
EXTENDS PoolRegistration, SequenceTheorems, TLAPS

\* The collections a registration writes.
Written == {"contract", "staking_pools", "farming_pools", "pool_states"}

\* The steps of a task that work for a stored contract, and those that hold a copy of one.
Building == {"recheck", "pool", "state"}
Copying == {"fetch", "write", "dates"}

-----------------------------------------------------------------------------
(* The inductive invariant.                                                *)

\* What the start of a server has made sure of.
Clean == /\ Written \subseteq indexed
         /\ BothKinds = {}
         /\ \A c \in Written : <<c, "duplicates">> \notin flaws
CleanOK == (\E p \in Processes : phase[p] # "down") => Clean

\* A pool state is of the kind of the contract and of its own pool.
StatesOK == \A id \in Ids : states[id] \in Kinds =>
  /\ contracts[id] # None /\ KindOf(contracts[id]) = states[id]
  /\ pools[states[id]][id] = "own"

\* Two documents of a contract name a DEX both or neither, and have all block numbers both
\* or neither.
Alike(doc, copy) == /\ doc.dex = copy.dex
                    /\ (doc.blocks = "all") <=> (copy.blocks = "all")

\* A task builds for the contract as it is stored, in a slot that is still free; the copy it
\* writes back is like the stored contract, and the one the migration writes has a view.
TaskOK(t) ==
  /\ t.at \in Building => contracts[t.id] # None /\ KindOf(contracts[t.id]) = t.kind
  /\ t.at = "pool" => SlotFree(t.kind, t.id)
  /\ t.at = "state" => pools[t.kind][t.id] = "own"
  /\ t.at \in Copying => contracts[t.id] # None /\ Alike(contracts[t.id], t.copy)
  /\ t.at = "dates" => t.copy.cache # "none"
ProcessOK(p) == task[p] # None => phase[p] # "down" /\ TaskOK(task[p])

IInv == /\ TypeOK /\ CleanOK /\ StatesOK
        /\ \A p \in Processes : ProcessOK(p)

-----------------------------------------------------------------------------
(* What every step does.                                                   *)

\* The type, the version, the DEX and the block numbers of a contract stay, and it does not
\* lose its view, whatever copies are written back.
Anchors(doc, new) == /\ new.declared = doc.declared
                     /\ Alike(doc, new)
                     /\ doc.cache # "none" => new.cache # "none"
ContractsKept == \A id \in Ids : contracts[id] # None =>
  contracts'[id] # None /\ Anchors(contracts[id], contracts'[id])

\* A pool stays, and a new one is of the kind of its contract.
PoolsKept == \A kind \in Kinds, id \in Ids :
  /\ pools[kind][id] # None => pools'[kind][id] = pools[kind][id]
  /\ pools[kind][id] = None /\ pools'[kind][id] # None =>
       contracts[id] # None /\ kind = KindOf(contracts[id])

\* A pool state stays.
StatesKept == \A id \in Ids : states[id] # None => states'[id] = states[id]

Evolves == ContractsKept /\ PoolsKept /\ StatesKept

-----------------------------------------------------------------------------
(* Types.                                                                  *)

LEMMA KindTypes ==
  /\ \A doc : KindOf(doc) \in Kinds
  /\ \A kind \in Kinds : Opposite(kind) \in Kinds /\ Opposite(kind) # kind
  /\ \A kind \in Kinds : kind # None
  /\ "own" # None /\ "other" # None
  BY NoneAssumption DEF KindOf, Kinds, Opposite, PoolIdentities

LEMMA ContractTypes ==
  ASSUME NEW doc \in Contracts
  PROVE  /\ doc # None /\ doc.declared \in DOMAIN Layouts /\ doc.dex \in BOOLEAN
         /\ doc.dated \in BOOLEAN
  BY NoneAssumption DEF Contracts

\* The fields of a task, by its step.
LEMMA TaskTypes ==
  ASSUME NEW t \in Tasks
  PROVE  /\ t # None /\ t.id \in Ids
         /\ t.at \in {"slot", "store"} => t \in Registrations /\ t.doc \in Contracts
         /\ t.at \in Building => t \in Builds /\ t.kind \in Kinds
         /\ t.at \in Copying => t.copy \in Contracts
         /\ t.at = "fetch" => t \in Refreshes
         /\ t.at = "write" => t.cache \in Caches
<1>1. t # None
  BY NoneAssumption
<1>2. CASE t \in Registrations
  BY <1>1, <1>2 DEF Registrations, Building, Copying
<1>3. CASE t \in Builds
  BY <1>1, <1>3 DEF Builds, Building, Copying
<1>4. CASE t \in Refreshes
  BY <1>1, <1>4 DEF Refreshes, Building, Copying
<1>5. CASE t \in Writes
  BY <1>1, <1>5 DEF Writes, Building, Copying
<1> QED BY <1>2, <1>3, <1>4, <1>5 DEF Tasks

\* What can be said of a process with a task.
LEMMA Busy ==
  ASSUME IInv, NEW p \in Processes, task[p] # None
  PROVE  task[p] \in Tasks /\ phase[p] # "down" /\ TaskOK(task[p]) /\ Clean
  BY DEF IInv, TypeOK, ProcessOK, CleanOK

-----------------------------------------------------------------------------
(* The start of a server.                                                  *)

Collections ==
  {"contract", "airdrop_manifests", "airdrop_rewards", "assets", "asset_transfer_intents",
   "farming_pools", "pool_transactions", "lp_transactions", "lp_tokens", "staking_pools",
   "lp_states", "pool_states", "user_states"}
Steps == {FailClosed(c) : c \in Collections}
           \cup {RetiredPrices, Deduplicated("asset_prices"), Disjoint, SyncSingleton}
Has(s, step) == \E i \in 1 .. Len(s) : s[i] = step

LEMMA HasConcat ==
  ASSUME NEW s \in Seq(Steps), NEW t \in Seq(Steps)
  PROVE  /\ s \o t \in Seq(Steps)
         /\ \A step : Has(s, step) \/ Has(t, step) => Has(s \o t, step)
<1>1. /\ s \o t \in Seq(Steps) /\ Len(s \o t) = Len(s) + Len(t)
      /\ Len(s) \in Nat /\ Len(t) \in Nat
      /\ \A i \in 1 .. Len(s) : (s \o t)[i] = s[i]
      /\ \A i \in 1 .. Len(t) : (s \o t)[Len(s) + i] = t[i]
  BY SMT
<1>2. ASSUME NEW step, Has(s, step) PROVE Has(s \o t, step)
  <2>1. PICK i \in 1 .. Len(s) : s[i] = step
    BY <1>2 DEF Has
  <2>2. i \in 1 .. Len(s \o t) /\ (s \o t)[i] = step
    BY <1>1, <2>1
  <2> QED BY <2>2 DEF Has
<1>3. ASSUME NEW step, Has(t, step) PROVE Has(s \o t, step)
  <2>1. PICK i \in 1 .. Len(t) : t[i] = step
    BY <1>3 DEF Has
  <2>2. Len(s) + i \in 1 .. Len(s \o t) /\ (s \o t)[Len(s) + i] = step
    BY <1>1, <2>1
  <2> QED BY <2>2 DEF Has
<1> QED BY <1>1, <1>2, <1>3

LEMMA HasFirst ==
  ASSUME NEW a, NEW b
  PROVE  Has(<<a, b>>, a) /\ Has(<<a, b>>, b)
<1>1. Len(<<a, b>>) = 2 /\ <<a, b>>[1] = a /\ <<a, b>>[2] = b
  OBVIOUS
<1> QED BY <1>1 DEF Has

LEMMA TwoOf ==
  ASSUME NEW S, NEW a \in S, NEW b \in S
  PROVE  <<a, b>> \in Seq(S)
  OBVIOUS

LEMMA ThreeOf ==
  ASSUME NEW S, NEW a \in S, NEW b \in S, NEW c \in S
  PROVE  <<a, b, c>> \in Seq(S)
  OBVIOUS

LEMMA EightOf ==
  ASSUME NEW S, NEW a \in S, NEW b \in S, NEW c \in S, NEW d \in S,
         NEW e \in S, NEW f \in S, NEW g \in S, NEW h \in S
  PROVE  <<a, b, c, d, e, f, g, h>> \in Seq(S)
  OBVIOUS

\* The steps that a server cannot do without are among those it takes.
LEMMA Required ==
  /\ Installs \in Seq(Steps)
  /\ Has(Installs, FailClosed("contract"))
  /\ Has(Installs, FailClosed("staking_pools"))
  /\ Has(Installs, FailClosed("farming_pools"))
  /\ Has(Installs, FailClosed("pool_states"))
  /\ Has(Installs, Disjoint)
<1>1. /\ \A c \in Collections : FailClosed(c) \in Steps
      /\ RetiredPrices \in Steps /\ Deduplicated("asset_prices") \in Steps
       /\ Disjoint \in Steps /\ SyncSingleton \in Steps
      /\ ContractIds = FailClosed("contract")
  <2>1. "contract" \in Collections
    BY DEF Collections
  <2> QED BY <2>1, Zenon DEF Steps, ContractIds
<1> DEFINE S1 == <<ContractIds, RetiredPrices>>
           S2 == S1 \o AirdropIndexes
           S3 == S2 \o <<Disjoint>>
           S4 == S3 \o UniqueIds
           S5 == S4 \o <<SyncSingleton>>
<1>2. S1 \in Seq(Steps) /\ AirdropIndexes \in Seq(Steps)
  <2>1. /\ FailClosed("airdrop_manifests") \in Steps /\ FailClosed("airdrop_rewards") \in Steps
        /\ FailClosed("contract") \in Steps
    BY <1>1 DEF Collections
  <2> QED BY <1>1, <2>1, TwoOf, Zenon DEF AirdropIndexes
<1>3. <<Disjoint>> \in Seq(Steps) /\ <<SyncSingleton>> \in Seq(Steps)
  BY <1>1
<1>4. UniqueIds \in Seq(Steps)
  <2>1. /\ FailClosed("assets") \in Steps /\ Deduplicated("asset_prices") \in Steps
        /\ FailClosed("asset_transfer_intents") \in Steps
        /\ FailClosed("farming_pools") \in Steps /\ FailClosed("pool_transactions") \in Steps
        /\ FailClosed("lp_transactions") \in Steps /\ FailClosed("lp_tokens") \in Steps
        /\ FailClosed("staking_pools") \in Steps
    BY <1>1 DEF Collections
  <2> QED BY <1>1, <2>1, EightOf, Zenon DEF UniqueIds
<1>5. HotIndexes \in Seq(Steps)
  <2>1. /\ FailClosed("lp_states") \in Steps /\ FailClosed("pool_states") \in Steps
        /\ FailClosed("user_states") \in Steps
    BY <1>1 DEF Collections
  <2> QED BY <2>1, ThreeOf, Zenon DEF HotIndexes
<1>6. Has(S1, FailClosed("contract"))
  BY <1>1, HasFirst
<1>7. Has(<<Disjoint>>, Disjoint)
  <2>1. Len(<<Disjoint>>) = 1 /\ <<Disjoint>>[1] = Disjoint
    OBVIOUS
  <2> QED BY <2>1 DEF Has
<1>8. Has(UniqueIds, FailClosed("staking_pools")) /\ Has(UniqueIds, FailClosed("farming_pools"))
  <2>1. Len(UniqueIds) = 8 /\ UniqueIds[8] = FailClosed("staking_pools")
        /\ UniqueIds[4] = FailClosed("farming_pools")
    BY DEF UniqueIds
  <2> QED BY <2>1 DEF Has
<1>9. Has(HotIndexes, FailClosed("pool_states"))
  <2>1. Len(HotIndexes) = 3 /\ HotIndexes[2] = FailClosed("pool_states")
    BY DEF HotIndexes
  <2> QED BY <2>1 DEF Has
<1> HIDE DEF S1
<1>10. S2 \in Seq(Steps) /\ Has(S2, FailClosed("contract"))
  BY <1>2, <1>6, HasConcat
<1> HIDE DEF S2
<1>11. S3 \in Seq(Steps) /\ Has(S3, FailClosed("contract")) /\ Has(S3, Disjoint)
  BY <1>3, <1>7, <1>10, HasConcat
<1> HIDE DEF S3
<1>12. /\ S4 \in Seq(Steps) /\ Has(S4, FailClosed("contract")) /\ Has(S4, Disjoint)
       /\ Has(S4, FailClosed("staking_pools")) /\ Has(S4, FailClosed("farming_pools"))
  BY <1>4, <1>8, <1>11, HasConcat
<1> HIDE DEF S4
<1>13. /\ S5 \in Seq(Steps) /\ Has(S5, FailClosed("contract")) /\ Has(S5, Disjoint)
       /\ Has(S5, FailClosed("staking_pools")) /\ Has(S5, FailClosed("farming_pools"))
  BY <1>3, <1>12, HasConcat
<1> HIDE DEF S5
<1>14. Installs = S5 \o HotIndexes
  BY DEF S1, S2, S3, S4, S5, Installs
<1> QED BY <1>5, <1>9, <1>13, <1>14, HasConcat

\* A server that is past the steps has found the collections clean, and indexed them.
LEMMA AllInstalled ==
  ASSUME NEW done, done = {Installs[i] : i \in 1 .. Len(Installs)},
         \A step \in done : ~Refused(step)
  PROVE  /\ BothKinds = {}
         /\ \A c \in Written : /\ <<c, "duplicates">> \notin flaws
                               /\ \E step \in done : step.collection = c /\ step.index
<1>1. \A step : Has(Installs, step) => step \in done
  BY DEF Has
<1>2. BothKinds = {}
  <2>1. Disjoint \in done
    BY <1>1, Required
  <2>2. Disjoint.collection = "pools" /\ Disjoint.refuses = {"both kinds"}
    BY DEF Disjoint, Install
  <2>3. <<"pools", "both kinds">> \in FlawsOf(Disjoint, Disjoint.refuses)
    BY <2>2 DEF FlawsOf
  <2>4. <<"pools", "both kinds">> \notin Present
    BY <2>1, <2>3 DEF Refused
  <2> QED BY <2>4 DEF Present
<1>3. ASSUME NEW c \in Written
      PROVE  /\ <<c, "duplicates">> \notin flaws
             /\ \E step \in done : step.collection = c /\ step.index
  <2>1. FailClosed(c) \in done
    BY <1>1, Required DEF Written
  <2>2. /\ FailClosed(c).collection = c /\ FailClosed(c).refuses = {"duplicates"}
        /\ FailClosed(c).index = TRUE
    BY DEF FailClosed, Install
  <2>3. <<c, "duplicates">> \in FlawsOf(FailClosed(c), FailClosed(c).refuses)
    BY <2>2 DEF FlawsOf
  <2>4. <<c, "duplicates">> \notin Present
    BY <2>1, <2>3 DEF Refused
  <2> QED BY <2>1, <2>2, <2>4 DEF Present
<1> QED BY <1>2, <1>3


-----------------------------------------------------------------------------
(* What the others' knowledge survives.                                    *)

\* A contract stays one of its kind.
LEMMA KindKept ==
  ASSUME ContractsKept, NEW id \in Ids, contracts[id] # None
  PROVE  contracts'[id] # None /\ KindOf(contracts'[id]) = KindOf(contracts[id])
  BY DEF ContractsKept, Anchors, Alike, KindOf

\* What a task knows of the stores outlives every step of the other processes.
LEMMA TaskKept ==
  ASSUME NEW t \in Tasks, TaskOK(t), Evolves
  PROVE  TaskOK(t)'
<1>1. t.id \in Ids /\ (t.at \in Building => t.kind \in Kinds)
  BY TaskTypes
<1>2. ASSUME t.at \in Building
      PROVE  contracts'[t.id] # None /\ KindOf(contracts'[t.id]) = t.kind
  BY <1>1, <1>2, KindKept DEF TaskOK, Evolves
<1>3. ASSUME t.at = "pool" PROVE SlotFree(t.kind, t.id)'
  <2>1. t.at \in Building
    BY <1>3 DEF Building
  <2>2. PICK other \in Kinds : other = Opposite(t.kind) /\ other # t.kind
    BY <1>1, <2>1, KindTypes
  <2>3. pools[other][t.id] = None /\ KindOf(contracts[t.id]) = t.kind
    BY <1>3, <2>1, <2>2 DEF TaskOK, SlotFree
  <2>4. pools'[other][t.id] = None
    BY <1>1, <2>2, <2>3 DEF Evolves, PoolsKept
  <2> QED BY <2>2, <2>4 DEF SlotFree
<1>4. ASSUME t.at = "state" PROVE pools'[t.kind][t.id] = "own"
  <2>1. t.at \in Building
    BY <1>4 DEF Building
  <2> QED BY <1>1, <1>4, <2>1, KindTypes DEF TaskOK, Evolves, PoolsKept
<1>5. ASSUME t.at \in Copying
      PROVE  contracts'[t.id] # None /\ Alike(contracts'[t.id], t.copy)
  BY <1>1, <1>5 DEF TaskOK, Evolves, ContractsKept, Anchors, Alike
<1> QED BY <1>2, <1>3, <1>4, <1>5 DEF TaskOK

\* One process takes its task further; what it knows is shown, what the others know is kept.
LEMMA ProcessesKept ==
  ASSUME IInv, Evolves, NEW p \in Processes, NEW t \in Tasks \cup {None},
         task' = [task EXCEPT ![p] = t],
         \A q \in Processes : q # p => phase'[q] = phase[q],
         t # None => phase'[p] # "down" /\ TaskOK(t)'
  PROVE  /\ \A q \in Processes : ProcessOK(q)'
         /\ task' \in [Processes -> Tasks \cup {None}]
<1>1. task \in [Processes -> Tasks \cup {None}]
  BY DEF IInv, TypeOK
<1>2. /\ task' \in [Processes -> Tasks \cup {None}] /\ task'[p] = t
      /\ \A q \in Processes : q # p => task'[q] = task[q]
  BY <1>1
<1>3. ASSUME NEW q \in Processes PROVE ProcessOK(q)'
  <2>1. CASE q = p
    BY <1>2, <2>1 DEF ProcessOK
  <2>2. CASE q # p
    <3>1. CASE task[q] = None
      BY <1>2, <2>2, <3>1 DEF ProcessOK
    <3>2. CASE task[q] # None
      <4>1. PICK s \in Tasks : s = task[q]
        BY <1>1, <3>2
      <4>2. TaskOK(s) /\ phase[q] # "down"
        BY <3>2, <4>1 DEF IInv, ProcessOK
      <4>3. TaskOK(s)'
        BY <4>2, TaskKept
      <4>4. task'[q] = s /\ phase'[q] # "down"
        BY <1>2, <2>2, <4>1, <4>2
      <4> QED BY <4>3, <4>4 DEF ProcessOK
    <3> QED BY <3>1, <3>2
  <2> QED BY <2>1, <2>2
<1> QED BY <1>2, <1>3

\* What the pool states say outlives every step that writes none.
LEMMA StatesAreKept ==
  ASSUME TypeOK, StatesOK, Evolves, NEW id \in Ids, states'[id] = states[id], states'[id] \in Kinds
  PROVE  /\ contracts'[id] # None /\ KindOf(contracts'[id]) = states'[id]
         /\ pools'[states'[id]][id] = "own"
<1>1. PICK kind \in Kinds : kind = states[id] /\ kind = states'[id]
  OBVIOUS
<1>2. contracts[id] # None /\ KindOf(contracts[id]) = kind /\ pools[kind][id] = "own"
  BY <1>1 DEF StatesOK
<1>3. contracts'[id] # None /\ KindOf(contracts'[id]) = kind
  BY <1>2, KindKept DEF Evolves
<1>4. pools'[kind][id] = "own"
  BY <1>2, KindTypes DEF Evolves, PoolsKept
<1> QED BY <1>1, <1>3, <1>4

LEMMA NothingStored ==
  ASSUME UNCHANGED <<contracts, pools, states>>
  PROVE  Evolves
  BY DEF Evolves, ContractsKept, Anchors, Alike, PoolsKept, StatesKept

-----------------------------------------------------------------------------
(* The three shapes of a step.                                             *)

\* A step that only takes a task further.
LEMMA TaskStep ==
  ASSUME IInv, NEW p \in Processes, NEW t \in Tasks \cup {None},
         task' = [task EXCEPT ![p] = t],
         t # None => phase[p] # "down" /\ TaskOK(t),
         UNCHANGED <<phase, contracts, pools, states, flaws, indexed, staked, ended>>
  PROVE  IInv' /\ Evolves
<1>1. Evolves
  BY NothingStored
<1>2. t # None => phase'[p] # "down" /\ TaskOK(t)'
  BY DEF TaskOK, SlotFree
<1>3. (\A q \in Processes : ProcessOK(q)') /\ task' \in [Processes -> Tasks \cup {None}]
  BY <1>1, <1>2, ProcessesKept
<1>4. TypeOK'
  BY <1>3 DEF IInv, TypeOK
<1>5. CleanOK' /\ StatesOK'
  BY DEF IInv, CleanOK, Clean, BothKinds, StatesOK
<1> QED BY <1>1, <1>3, <1>4, <1>5 DEF IInv

\* A step that writes one contract, with what a registration resumes from kept.
LEMMA ContractStep ==
  ASSUME IInv, NEW p \in Processes, NEW t \in Tasks \cup {None}, NEW id \in Ids,
         NEW doc \in Contracts,
         task' = [task EXCEPT ![p] = t],
         contracts' = [contracts EXCEPT ![id] = doc],
         contracts[id] # None => Anchors(contracts[id], doc),
         t # None => phase[p] # "down" /\ TaskOK(t)',
         UNCHANGED <<phase, pools, states, flaws, indexed, staked, ended>>
  PROVE  IInv' /\ Evolves
<1>1. contracts \in [Ids -> Contracts \cup {None}]
  BY DEF IInv, TypeOK
<1>2. /\ contracts' \in [Ids -> Contracts \cup {None}] /\ contracts'[id] = doc
      /\ \A other \in Ids : other # id => contracts'[other] = contracts[other]
  BY <1>1
<1>3. Evolves
  <2>1. ContractsKept
    BY <1>2, ContractTypes DEF ContractsKept, Anchors, Alike
  <2> QED BY <2>1 DEF Evolves, PoolsKept, StatesKept
<1>4. (\A q \in Processes : ProcessOK(q)') /\ task' \in [Processes -> Tasks \cup {None}]
  BY <1>3, ProcessesKept
<1>5. TypeOK'
  BY <1>2, <1>4 DEF IInv, TypeOK
<1>6. CleanOK'
  BY DEF IInv, CleanOK, Clean, BothKinds
<1>7. StatesOK'
  BY <1>3, StatesAreKept DEF IInv, StatesOK
<1> QED BY <1>3, <1>4, <1>5, <1>6, <1>7 DEF IInv

\* A step of a process that is up or goes down, and of the chain.
LEMMA PhaseStep ==
  ASSUME IInv, NEW p \in Processes, NEW s \in {"down", "up"},
         phase' = [phase EXCEPT ![p] = s], phase[p] # "down",
         task' = [task EXCEPT ![p] = None],
         UNCHANGED <<contracts, pools, states, flaws, indexed, staked, ended>>
  PROVE  IInv' /\ Evolves
<1>1. phase \in [Processes -> {"down", "dates", "up"}]
  BY DEF IInv, TypeOK
<1>2. /\ phase' \in [Processes -> {"down", "dates", "up"}] /\ phase'[p] = s
      /\ \A q \in Processes : q # p => phase'[q] = phase[q]
  BY <1>1
<1>3. Evolves
  BY NothingStored
<1>4. (\A q \in Processes : ProcessOK(q)') /\ task' \in [Processes -> Tasks \cup {None}]
  <2>1. PICK t \in Tasks \cup {None} : t = None
    OBVIOUS
  <2> QED BY <1>2, <1>3, <2>1, ProcessesKept
<1>5. TypeOK'
  BY <1>2, <1>4 DEF IInv, TypeOK
<1>6. CleanOK'
  <2>1. Clean
    BY DEF IInv, CleanOK
  <2>2. Clean'
    BY <2>1 DEF Clean, BothKinds
  <2> QED BY <2>2 DEF CleanOK
<1>7. StatesOK'
  BY DEF IInv, StatesOK
<1> QED BY <1>3, <1>4, <1>5, <1>6, <1>7 DEF IInv

-----------------------------------------------------------------------------
(* The start of a server, step by step.                                    *)

\* The steps taken repair some flaws and index some collections; a server that has taken
\* all of them has found and left the stores clean.
LEMMA StartupKeeps ==
  ASSUME IInv, NEW p \in Processes, Startup(p)
  PROVE  IInv' /\ Evolves
<1>1. PICK n \in 0 .. Len(Installs) :
        LET done == {Installs[i] : i \in 1 .. n} IN
        /\ \A step \in done : ~Refused(step)
        /\ flaws' = flaws \ UNION {FlawsOf(step, step.repairs) : step \in done}
        /\ indexed' = indexed \cup {step.collection : step \in {s \in done : s.index}}
        /\ phase' = [phase EXCEPT ![p] = IF n = Len(Installs) THEN "dates" ELSE "down"]
  BY Zenon DEF Startup
<1>2. PICK done : done = {Installs[i] : i \in 1 .. n}
  OBVIOUS
<1>3. /\ \A step \in done : ~Refused(step)
      /\ flaws' \subseteq flaws
      /\ indexed' = indexed \cup {step.collection : step \in {s \in done : s.index}}
      /\ phase' = [phase EXCEPT ![p] = IF n = Len(Installs) THEN "dates" ELSE "down"]
  BY <1>1, <1>2, Zenon
<1>4. UNCHANGED <<task, contracts, pools, states, staked, ended>> /\ phase[p] = "down"
  BY DEF Startup
<1>5. /\ phase \in [Processes -> {"down", "dates", "up"}] /\ indexed \subseteq Indexes
      /\ task[p] = None
  BY <1>4 DEF IInv, TypeOK, ProcessOK
<1>6. indexed \subseteq indexed'
  BY <1>3
<1>7. indexed' \subseteq Indexes
  <2>1. 1 .. n \subseteq DOMAIN Installs
    <3>1. Installs \in Seq(Steps)
      BY Required
    <3> QED BY <3>1
  <2>2. ASSUME NEW step \in done, step.index PROVE step.collection \in Indexes
    BY <1>2, <2>1, <2>2 DEF Indexes
  <2> QED BY <1>3, <1>5, <2>2
<1>8. /\ phase'[p] \in {"down", "dates"} /\ phase' \in [Processes -> {"down", "dates", "up"}]
      /\ \A q \in Processes : q # p => phase'[q] = phase[q]
      /\ phase'[p] = "dates" => n = Len(Installs)
  BY <1>3, <1>5
<1>9. TypeOK'
  BY <1>4, <1>7, <1>8 DEF IInv, TypeOK
<1>10. CleanOK'
  <2>1. SUFFICES ASSUME NEW q \in Processes, phase'[q] # "down" PROVE Clean'
    BY DEF CleanOK
  <2>2. CASE q # p
    <3>1. Clean
      BY <1>8, <2>1, <2>2 DEF IInv, CleanOK
    <3> QED BY <1>3, <1>4, <1>6, <3>1 DEF Clean, BothKinds
  <2>3. CASE q = p
    <3>1. done = {Installs[i] : i \in 1 .. Len(Installs)}
      BY <1>2, <1>8, <2>1, <2>3
    <3>2. /\ BothKinds = {}
          /\ \A c \in Written : /\ <<c, "duplicates">> \notin flaws
                                /\ \E step \in done : step.collection = c /\ step.index
      BY <1>3, <3>1, AllInstalled
    <3>3. Written \subseteq indexed'
      BY <1>3, <3>2
    <3> QED BY <1>3, <1>4, <3>2, <3>3 DEF Clean, BothKinds
  <2> QED BY <2>2, <2>3
<1>11. StatesOK'
  BY <1>4 DEF IInv, StatesOK
<1>12. ASSUME NEW q \in Processes PROVE ProcessOK(q)'
  <2>1. task'[q] = task[q] /\ (q # p => phase'[q] = phase[q]) /\ ProcessOK(q)
    BY <1>4, <1>8 DEF IInv
  <2>2. CASE task[q] = None
    BY <2>1, <2>2 DEF ProcessOK
  <2>3. CASE task[q] # None
    <3>1. q # p
      BY <1>5, <2>3
    <3> QED BY <1>4, <2>1, <2>3, <3>1 DEF ProcessOK, TaskOK, SlotFree
  <2> QED BY <2>2, <2>3
<1>13. Evolves
  BY <1>4, NothingStored
<1> QED BY <1>9, <1>10, <1>11, <1>12, <1>13 DEF IInv

LEMMA ReadUndatedKeeps ==
  ASSUME IInv, NEW p \in Processes, ReadUndated(p)
  PROVE  IInv' /\ Evolves
<1>1. PICK id \in Undated :
        task' = [task EXCEPT ![p] = [at |-> "dates", id |-> id, copy |-> contracts[id]]]
  BY DEF ReadUndated
<1>2. /\ id \in Ids /\ contracts[id] \in Contracts /\ contracts[id] # None
      /\ contracts[id].cache # "none"
  BY DEF Undated, IInv, TypeOK
<1>3. PICK t : t = [at |-> "dates", id |-> id, copy |-> contracts[id]]
  OBVIOUS
<1>4. t \in Tasks /\ t.at = "dates" /\ t.id = id /\ t.copy = contracts[id]
  BY <1>2, <1>3 DEF Tasks, Refreshes
<1>5. TaskOK(t)
  BY <1>2, <1>4 DEF TaskOK, Building, Alike
<1>6. /\ phase[p] # "down"
      /\ UNCHANGED <<phase, contracts, pools, states, flaws, indexed, staked, ended>>
  BY DEF ReadUndated
<1> QED BY <1>1, <1>3, <1>4, <1>5, <1>6, TaskStep

\* Neither the migration nor a refresh takes away what a registration resumes from.
LEMMA MigratedIs ==
  ASSUME NEW doc \in Contracts, NEW copy \in Contracts, Alike(doc, copy), copy.cache # "none"
  PROVE  Migrated(doc, copy) \in Contracts /\ Anchors(doc, Migrated(doc, copy))
  BY DEF Contracts, Migrated, Alike, Anchors

LEMMA RefreshedIs ==
  ASSUME NEW doc \in Contracts, NEW copy \in Contracts, Alike(doc, copy), NEW cache \in Caches
  PROVE  Refreshed(doc, copy, cache) \in Contracts /\ Anchors(doc, Refreshed(doc, copy, cache))
  BY DEF Contracts, Refreshed, Alike, Anchors, Caches

LEMMA WriteDatesKeeps ==
  ASSUME IInv, NEW p \in Processes, WriteDates(p)
  PROVE  IInv' /\ Evolves
<1>1. /\ task[p] # None /\ task[p].at = "dates"
      /\ contracts' = [contracts EXCEPT ![task[p].id] = Migrated(@, task[p].copy)]
      /\ task' = [task EXCEPT ![p] = None]
      /\ UNCHANGED <<phase, pools, states, flaws, indexed, staked, ended>>
  BY DEF WriteDates
<1>2. PICK t \in Tasks : t = task[p]
  BY <1>1, Busy
<1>3. TaskOK(t) /\ t.at \in Copying /\ t.at = "dates"
  BY <1>1, <1>2, Busy DEF Copying
<1>4. /\ t.id \in Ids /\ t.copy \in Contracts /\ contracts[t.id] # None
      /\ Alike(contracts[t.id], t.copy) /\ t.copy.cache # "none"
  BY <1>3, TaskTypes DEF TaskOK
<1>5. contracts[t.id] \in Contracts
  BY <1>4 DEF IInv, TypeOK
<1>6. PICK doc : doc = Migrated(contracts[t.id], t.copy)
  OBVIOUS
<1>7. doc \in Contracts /\ Anchors(contracts[t.id], doc)
  BY <1>4, <1>5, <1>6, MigratedIs
<1>8. contracts' = [contracts EXCEPT ![t.id] = doc]
  BY <1>1, <1>2, <1>6 DEF Migrated
<1>9. PICK n \in Tasks \cup {None} : n = None
  OBVIOUS
<1> QED BY <1>1, <1>4, <1>7, <1>8, <1>9, ContractStep

LEMMA ServeKeeps ==
  ASSUME IInv, NEW p \in Processes, Serve(p)
  PROVE  IInv' /\ Evolves
<1>1. PICK s \in {"down", "up"} : s = "up"
  OBVIOUS
<1> QED BY <1>1, PhaseStep DEF Serve

-----------------------------------------------------------------------------
(* The registration, step by step.                                         *)

LEMMA RequestKeeps ==
  ASSUME IInv, NEW p \in Processes, NEW r \in Requests, Request(p, r)
  PROVE  IInv' /\ Evolves
<1>1. /\ phase[p] = "up" /\ Admitted(r)
      /\ task' = [task EXCEPT ![p] = [at |-> "slot", id |-> r.id, doc |-> Candidate(r)]]
      /\ UNCHANGED <<phase, contracts, pools, states, flaws, indexed, staked, ended>>
  BY DEF Request, Goes
<1>2. r.id \in Ids /\ r.dex \in BOOLEAN /\ ViewOf(r.id) \in Caches
  BY RequestsAssumption DEF ViewOf, Caches
<1>3. r.declared \in DOMAIN Layouts
  BY <1>1 DEF Admitted, Views
<1>4. Candidate(r) \in Contracts
  BY <1>2, <1>3 DEF Candidate, Contracts
<1>5. PICK t : t = [at |-> "slot", id |-> r.id, doc |-> Candidate(r)]
  OBVIOUS
<1>6. t \in Tasks /\ t.at = "slot"
  BY <1>2, <1>4, <1>5 DEF Tasks, Registrations
<1>7. TaskOK(t)
  BY <1>6 DEF TaskOK, Building, Copying
<1> QED BY <1>1, <1>5, <1>6, <1>7, TaskStep

LEMMA EndsKeeps ==
  ASSUME IInv, NEW p \in Processes, Ends(p),
         UNCHANGED <<phase, contracts, pools, states, flaws, indexed, staked, ended>>
  PROVE  IInv' /\ Evolves
<1>1. PICK t \in Tasks \cup {None} : t = None
  OBVIOUS
<1> QED BY <1>1, TaskStep DEF Ends, Goes

LEMMA CheckSlotKeeps ==
  ASSUME IInv, NEW p \in Processes, CheckSlot(p)
  PROVE  IInv' /\ Evolves
<1>1. /\ task[p] # None /\ task[p].at = "slot"
      /\ UNCHANGED <<phase, contracts, pools, states, flaws, indexed, staked, ended>>
      /\ Ends(p) \/ Goes(p, [task[p] EXCEPT !.at = "store"])
  BY DEF CheckSlot
<1>2. CASE Ends(p)
  BY <1>1, <1>2, EndsKeeps
<1>3. CASE Goes(p, [task[p] EXCEPT !.at = "store"])
  <2>1. PICK t : t = [task[p] EXCEPT !.at = "store"]
    OBVIOUS
  <2>2. task[p] \in Tasks /\ phase[p] # "down"
    BY <1>1, Busy
  <2>3. task[p] \in Registrations
    BY <1>1, <2>2, TaskTypes
  <2>4. t \in Registrations /\ t.at = "store"
    BY <2>1, <2>3 DEF Registrations
  <2>5. TaskOK(t) /\ t \in Tasks
    BY <2>4 DEF TaskOK, Building, Copying, Tasks
  <2> QED BY <1>1, <1>3, <2>1, <2>2, <2>5, TaskStep DEF Goes
<1> QED BY <1>1, <1>2, <1>3

\* In an indexed collection an upsert leaves no second document.
LEMMA Indexed ==
  ASSUME Clean, NEW c \in Written
  PROVE  UpsertFlaws(c) = flaws
  BY DEF Clean, UpsertFlaws

LEMMA StoreContractKeeps ==
  ASSUME IInv, NEW p \in Processes, StoreContract(p)
  PROVE  IInv' /\ Evolves
<1>1. PICK old : old = task[p]
  OBVIOUS
<1>2. PICK stored : stored = Stored(old.id, old.doc)
  OBVIOUS
<1>3. /\ old # None /\ old.at = "store"
      /\ contracts' = [contracts EXCEPT ![old.id] = stored]
      /\ flaws' = UpsertFlaws("contract")
      /\ Ends(p) \/ Goes(p, BuildFrom(old.id, stored))
      /\ UNCHANGED <<phase, pools, states, indexed, staked, ended>>
  BY <1>1, <1>2 DEF StoreContract
<1>4. old \in Tasks /\ phase[p] # "down" /\ Clean
  BY <1>1, <1>3, Busy
<1>5. old.id \in Ids /\ old.doc \in Contracts
  BY <1>3, <1>4, TaskTypes
<1>6. flaws' = flaws
  BY <1>3, <1>4, Indexed DEF Written
<1>7. /\ stored \in Contracts
      /\ contracts[old.id] # None => Anchors(contracts[old.id], stored)
  BY <1>2, <1>5 DEF Stored, IInv, TypeOK, Anchors, Alike
<1>8. contracts'[old.id] = stored /\ contracts'[old.id] # None
  <2>1. contracts \in [Ids -> Contracts \cup {None}] /\ stored # None
    BY <1>7, ContractTypes DEF IInv, TypeOK
  <2> QED BY <1>3, <1>5, <2>1
<1>9. CASE Ends(p)
  <2>1. PICK t \in Tasks \cup {None} : t = None
    OBVIOUS
  <2> QED BY <1>3, <1>5, <1>6, <1>7, <1>9, <2>1, ContractStep DEF Ends, Goes
<1>10. CASE Goes(p, BuildFrom(old.id, stored))
  <2>1. PICK t : t = BuildFrom(old.id, stored)
    OBVIOUS
  <2>2. /\ t \in Tasks /\ t.at = "recheck" /\ t.id = old.id /\ t.kind = KindOf(stored)
    <3>1. KindOf(stored) \in Kinds /\ PoolFields(stored) \in BOOLEAN
      BY KindTypes DEF PoolFields
    <3> QED BY <1>5, <2>1, <3>1 DEF BuildFrom, Tasks, Builds
  <2>3. TaskOK(t)'
    BY <1>8, <2>2 DEF TaskOK, Copying
  <2>4. task' = [task EXCEPT ![p] = t]
    BY <1>10, <2>1 DEF Goes
  <2> QED BY <1>3, <1>4, <1>5, <1>6, <1>7, <2>2, <2>3, <2>4, ContractStep
<1> QED BY <1>3, <1>9, <1>10

LEMMA BuildPoolKeeps ==
  ASSUME IInv, NEW p \in Processes, BuildPool(p)
  PROVE  IInv' /\ Evolves
<1>1. PICK old : old = task[p]
  OBVIOUS
<1>2. /\ old # None /\ old.at = "recheck"
      /\ UNCHANGED <<phase, contracts, pools, states, flaws, indexed, staked, ended>>
      /\ \/ Ends(p)
         \/ SlotFree(old.kind, old.id) /\ Goes(p, [old EXCEPT !.at = "pool"])
  BY <1>1 DEF BuildPool
<1>3. CASE Ends(p)
  BY <1>2, <1>3, EndsKeeps
<1>4. CASE SlotFree(old.kind, old.id) /\ Goes(p, [old EXCEPT !.at = "pool"])
  <2>1. old \in Tasks /\ phase[p] # "down" /\ TaskOK(old) /\ old.at \in Building
    BY <1>1, <1>2, Busy DEF Building
  <2>2. old \in Builds
    BY <2>1, TaskTypes
  <2>3. PICK t : t = [old EXCEPT !.at = "pool"]
    OBVIOUS
  <2>4. t \in Builds /\ t.at = "pool" /\ t.id = old.id /\ t.kind = old.kind
    BY <2>2, <2>3 DEF Builds
  <2>5. TaskOK(t) /\ t \in Tasks
    BY <1>4, <2>1, <2>4 DEF TaskOK, Copying, Tasks
  <2> QED BY <1>2, <1>4, <2>1, <2>3, <2>5, TaskStep DEF Goes
<1> QED BY <1>2, <1>3, <1>4

\* The pool is inserted for the contract, where no pool of the other kind is; the two stores
\* of pools stay disjoint.
LEMMA InsertPoolKeeps ==
  ASSUME IInv, NEW p \in Processes, InsertPool(p)
  PROVE  IInv' /\ Evolves
<1>1. PICK old : old = task[p]
  OBVIOUS
<1>2. PICK was : was = pools[old.kind][old.id]
  OBVIOUS
<1>3. PICK now : now = IF was = None THEN "own" ELSE was
  OBVIOUS
<1>4. /\ old # None /\ old.at = "pool"
      /\ pools' = [pools EXCEPT ![old.kind][old.id] = now]
      /\ flaws' = UpsertFlaws(CollectionOf(old.kind))
      /\ IF pools'[old.kind][old.id] = "own" THEN Goes(p, [old EXCEPT !.at = "state"]) ELSE Ends(p)
      /\ UNCHANGED <<phase, contracts, states, indexed, staked, ended>>
  BY <1>1, <1>2, <1>3 DEF InsertPool
<1>5. old \in Tasks /\ phase[p] # "down" /\ TaskOK(old) /\ Clean /\ old.at \in Building
  BY <1>1, <1>4, Busy DEF Building
<1>6. old.id \in Ids /\ old.kind \in Kinds /\ old \in Builds
  BY <1>5, TaskTypes
<1>7. /\ contracts[old.id] # None /\ KindOf(contracts[old.id]) = old.kind
      /\ SlotFree(old.kind, old.id)
  BY <1>4, <1>5 DEF TaskOK
<1>8. flaws' = flaws
  <2>1. CollectionOf(old.kind) \in Written
    BY DEF CollectionOf, Written
  <2> QED BY <1>4, <1>5, <2>1, Indexed
<1>9. pools \in [Kinds -> [Ids -> PoolIdentities \cup {None}]]
  BY DEF IInv, TypeOK
<1>10. now \in PoolIdentities /\ now # None /\ (was # None => now = was)
  <2>1. was \in PoolIdentities \cup {None} /\ "own" \in PoolIdentities
    BY <1>2, <1>6, <1>9 DEF PoolIdentities
  <2>2. None \notin PoolIdentities
    BY NoneAssumption
  <2> QED BY <1>3, <2>1, <2>2
<1>11. /\ pools' \in [Kinds -> [Ids -> PoolIdentities \cup {None}]]
       /\ pools'[old.kind][old.id] = now
       /\ \A kind \in Kinds, id \in Ids :
            kind # old.kind \/ id # old.id => pools'[kind][id] = pools[kind][id]
  BY <1>4, <1>6, <1>9, <1>10
<1>12. Evolves
  <2>1. ASSUME NEW kind \in Kinds, NEW id \in Ids
        PROVE  /\ pools[kind][id] # None => pools'[kind][id] = pools[kind][id]
               /\ pools[kind][id] = None /\ pools'[kind][id] # None =>
                    contracts[id] # None /\ kind = KindOf(contracts[id])
    <3>1. CASE kind = old.kind /\ id = old.id
      BY <1>2, <1>7, <1>10, <1>11, <3>1
    <3>2. CASE kind # old.kind \/ id # old.id
      BY <1>11, <3>2
    <3> QED BY <3>1, <3>2
  <2>2. ContractsKept /\ StatesKept
    BY <1>4 DEF ContractsKept, Anchors, Alike, StatesKept
  <2> QED BY <2>1, <2>2 DEF Evolves, PoolsKept
<1>13. BothKinds' = {}
  <2>1. SUFFICES ASSUME NEW id \in Ids PROVE \E kind \in Kinds : pools'[kind][id] = None
    BY DEF BothKinds
  <2>2. CASE id = old.id
    <3>1. PICK kind \in Kinds : kind = Opposite(old.kind) /\ kind # old.kind
      BY <1>6, KindTypes
    <3>2. pools[kind][id] = None
      BY <1>7, <2>2, <3>1 DEF SlotFree
    <3> QED BY <1>11, <2>2, <3>1, <3>2
  <2>3. CASE id # old.id
    <3>1. PICK kind \in Kinds : pools[kind][id] = None
      BY <1>5 DEF Clean, BothKinds
    <3> QED BY <1>11, <2>3, <3>1
  <2> QED BY <2>2, <2>3
<1>14. CleanOK'
  BY <1>4, <1>5, <1>8, <1>13 DEF CleanOK, Clean
<1>15. StatesOK'
  BY <1>4, <1>12, StatesAreKept DEF IInv, StatesOK
<1>16. (\A q \in Processes : ProcessOK(q)') /\ task' \in [Processes -> Tasks \cup {None}]
  <2>1. CASE now # "own"
    <3>1. PICK t \in Tasks \cup {None} : t = None
      OBVIOUS
    <3> QED BY <1>4, <1>11, <1>12, <2>1, <3>1, ProcessesKept DEF Ends, Goes
  <2>2. CASE now = "own"
    <3>1. PICK t : t = [old EXCEPT !.at = "state"]
      OBVIOUS
    <3>2. t \in Builds /\ t.at = "state" /\ t.id = old.id /\ t.kind = old.kind
      BY <1>6, <3>1 DEF Builds
    <3>3. TaskOK(t)' /\ t \in Tasks
      BY <1>4, <1>7, <1>11, <2>2, <3>2 DEF TaskOK, Copying, Tasks
    <3>4. task' = [task EXCEPT ![p] = t]
      BY <1>4, <1>11, <2>2, <3>1 DEF Goes
    <3> QED BY <1>4, <1>5, <1>12, <3>3, <3>4, ProcessesKept
  <2> QED BY <2>1, <2>2
<1>17. TypeOK'
  BY <1>4, <1>11, <1>16 DEF IInv, TypeOK
<1> QED BY <1>12, <1>14, <1>15, <1>16, <1>17 DEF IInv

\* The pool state is inserted for a pool that is the contract's own.
LEMMA InsertStateKeeps ==
  ASSUME IInv, NEW p \in Processes, InsertState(p)
  PROVE  IInv' /\ Evolves
<1>1. PICK old : old = task[p]
  OBVIOUS
<1>2. PICK now : now = IF states[old.id] = None THEN old.kind ELSE states[old.id]
  OBVIOUS
<1>3. /\ old # None /\ old.at = "state"
      /\ states' = [states EXCEPT ![old.id] = now]
      /\ flaws' = UpsertFlaws("pool_states")
      /\ task' = [task EXCEPT ![p] = None]
      /\ UNCHANGED <<phase, contracts, pools, indexed, staked, ended>>
  BY <1>1, <1>2 DEF InsertState, Ends, Goes
<1>4. old \in Tasks /\ TaskOK(old) /\ Clean /\ old.at \in Building
  BY <1>1, <1>3, Busy DEF Building
<1>5. old.id \in Ids /\ old.kind \in Kinds
  BY <1>4, TaskTypes
<1>6. /\ contracts[old.id] # None /\ KindOf(contracts[old.id]) = old.kind
      /\ pools[old.kind][old.id] = "own"
  BY <1>3, <1>4 DEF TaskOK
<1>7. flaws' = flaws
  BY <1>3, <1>4, Indexed DEF Written
<1>8. states \in [Ids -> Kinds \cup {"other", None}]
  BY DEF IInv, TypeOK
<1>9. /\ states' \in [Ids -> Kinds \cup {"other", None}] /\ states'[old.id] = now
      /\ \A id \in Ids : id # old.id => states'[id] = states[id]
  BY <1>2, <1>3, <1>5, <1>8
<1>10. Evolves
  BY <1>2, <1>3, <1>9 DEF Evolves, ContractsKept, Anchors, Alike, PoolsKept, StatesKept
<1>11. (\A q \in Processes : ProcessOK(q)') /\ task' \in [Processes -> Tasks \cup {None}]
  <2>1. PICK t \in Tasks \cup {None} : t = None
    OBVIOUS
  <2> QED BY <1>3, <1>10, <2>1, ProcessesKept
<1>12. TypeOK'
  BY <1>3, <1>9, <1>11 DEF IInv, TypeOK
<1>13. CleanOK'
  BY <1>3, <1>7 DEF IInv, CleanOK, Clean, BothKinds
<1>14. StatesOK'
  <2>1. SUFFICES ASSUME NEW id \in Ids, states'[id] \in Kinds
                 PROVE  /\ contracts'[id] # None /\ KindOf(contracts'[id]) = states'[id]
                        /\ pools'[states'[id]][id] = "own"
    BY DEF StatesOK
  <2>2. CASE states'[id] = states[id]
    BY <1>10, <2>1, <2>2, StatesAreKept DEF IInv
  <2>3. CASE states'[id] # states[id]
    <3>1. id = old.id /\ states'[id] = old.kind
      BY <1>2, <1>9, <2>3
    <3> QED BY <1>3, <1>6, <3>1
  <2> QED BY <2>2, <2>3
<1> QED BY <1>10, <1>11, <1>12, <1>13, <1>14 DEF IInv

-----------------------------------------------------------------------------
(* The refresh of a view, step by step.                                    *)

LEMMA StartRefreshKeeps ==
  ASSUME IInv, NEW p \in Processes, NEW id \in Ids, StartRefresh(p, id)
  PROVE  IInv' /\ Evolves
<1>1. PICK t : t = [at |-> "fetch", id |-> id, copy |-> contracts[id]]
  OBVIOUS
<1>2. /\ phase[p] # "down" /\ contracts[id] # None /\ task' = [task EXCEPT ![p] = t]
      /\ UNCHANGED <<phase, contracts, pools, states, flaws, indexed, staked, ended>>
  BY <1>1 DEF StartRefresh, Goes
<1>3. contracts[id] \in Contracts
  BY <1>2 DEF IInv, TypeOK
<1>4. t \in Tasks /\ t.at = "fetch" /\ t.id = id /\ t.copy = contracts[id]
  BY <1>1, <1>3 DEF Tasks, Refreshes
<1>5. TaskOK(t)
  BY <1>2, <1>4 DEF TaskOK, Building, Alike
<1> QED BY <1>2, <1>4, <1>5, TaskStep

LEMMA FetchViewKeeps ==
  ASSUME IInv, NEW p \in Processes, FetchView(p)
  PROVE  IInv' /\ Evolves
<1>1. PICK old : old = task[p]
  OBVIOUS
<1>2. PICK t : t = [at |-> "write", id |-> old.id, copy |-> old.copy, cache |-> ViewOf(old.id)]
  OBVIOUS
<1>3. /\ old # None /\ old.at = "fetch"
      /\ UNCHANGED <<phase, contracts, pools, states, flaws, indexed, staked, ended>>
      /\ Ends(p) \/ Goes(p, t)
  BY <1>1, <1>2 DEF FetchView
<1>4. CASE Ends(p)
  BY <1>3, <1>4, EndsKeeps
<1>5. CASE Goes(p, t)
  <2>1. old \in Tasks /\ phase[p] # "down" /\ TaskOK(old) /\ old.at \in Copying
    BY <1>1, <1>3, Busy DEF Copying
  <2>2. /\ old.id \in Ids /\ old.copy \in Contracts
        /\ contracts[old.id] # None /\ Alike(contracts[old.id], old.copy)
    BY <2>1, TaskTypes DEF TaskOK
  <2>3. ViewOf(old.id) \in Caches
    BY DEF ViewOf, Caches
  <2>4. t \in Tasks /\ t.at = "write" /\ t.id = old.id /\ t.copy = old.copy
    BY <1>2, <2>2, <2>3 DEF Tasks, Writes
  <2>5. TaskOK(t)
    BY <2>2, <2>4 DEF TaskOK, Building
  <2> QED BY <1>3, <1>5, <2>1, <2>4, <2>5, TaskStep DEF Goes
<1> QED BY <1>3, <1>4, <1>5

LEMMA WriteViewKeeps ==
  ASSUME IInv, NEW p \in Processes, WriteView(p)
  PROVE  IInv' /\ Evolves
<1>1. /\ task[p] # None /\ task[p].at = "write"
      /\ contracts' = [contracts EXCEPT ![task[p].id] = Refreshed(@, task[p].copy, task[p].cache)]
      /\ task' = [task EXCEPT ![p] = None]
      /\ UNCHANGED <<phase, pools, states, flaws, indexed, staked, ended>>
  BY DEF WriteView, Ends, Goes
<1>2. PICK t \in Tasks : t = task[p]
  BY <1>1, Busy
<1>3. TaskOK(t) /\ t.at \in Copying /\ t.at = "write"
  BY <1>1, <1>2, Busy DEF Copying
<1>4. /\ t.id \in Ids /\ t.copy \in Contracts /\ t.cache \in Caches /\ contracts[t.id] # None
      /\ Alike(contracts[t.id], t.copy)
  BY <1>3, TaskTypes DEF TaskOK
<1>5. contracts[t.id] \in Contracts
  BY <1>4 DEF IInv, TypeOK
<1>6. PICK doc : doc = Refreshed(contracts[t.id], t.copy, t.cache)
  OBVIOUS
<1>7. doc \in Contracts /\ Anchors(contracts[t.id], doc)
  BY <1>4, <1>5, <1>6, RefreshedIs
<1>8. contracts' = [contracts EXCEPT ![t.id] = doc]
  BY <1>1, <1>2, <1>6 DEF Refreshed
<1>9. PICK n \in Tasks \cup {None} : n = None
  OBVIOUS
<1> QED BY <1>1, <1>4, <1>7, <1>8, <1>9, ContractStep

-----------------------------------------------------------------------------
(* A failure, a crash, and the chain.                                      *)

LEMMA FailKeeps ==
  ASSUME IInv, NEW p \in Processes, Fail(p)
  PROVE  IInv' /\ Evolves
  BY EndsKeeps DEF Fail

LEMMA CrashKeeps ==
  ASSUME IInv, NEW p \in Processes, Crash(p)
  PROVE  IInv' /\ Evolves
<1>1. PICK s \in {"down", "up"} : s = "down"
  OBVIOUS
<1> QED BY <1>1, PhaseStep DEF Crash, Ends, Goes

LEMMA ChainKeeps ==
  ASSUME IInv, staked' \in [Ids -> BOOLEAN], ended' \in [Ids -> BOOLEAN],
         UNCHANGED <<phase, task, contracts, pools, states, flaws, indexed>>
  PROVE  IInv' /\ Evolves
<1>1. TypeOK'
  BY DEF IInv, TypeOK
<1>2. CleanOK' /\ StatesOK'
  BY DEF IInv, CleanOK, Clean, BothKinds, StatesOK
<1>3. ASSUME NEW p \in Processes PROVE ProcessOK(p)'
  BY DEF IInv, ProcessOK, TaskOK, SlotFree
<1> QED BY <1>1, <1>2, <1>3, NothingStored DEF IInv

LEMMA StakeKeeps ==
  ASSUME IInv, NEW id \in Ids, Stake(id) \/ End(id)
  PROVE  IInv' /\ Evolves
<1>1. staked \in [Ids -> BOOLEAN] /\ ended \in [Ids -> BOOLEAN]
  BY DEF IInv, TypeOK
<1>2. staked' \in [Ids -> BOOLEAN] /\ ended' \in [Ids -> BOOLEAN]
  BY <1>1 DEF Stake, End
<1> QED BY <1>2, ChainKeeps DEF Stake, End

-----------------------------------------------------------------------------
(* Every step, and the theorems.                                           *)

LEMMA InitOK == Init => IInv
<1> SUFFICES ASSUME Init PROVE IInv
  OBVIOUS
<1>1. PICK old \in OldStores :
        /\ contracts = old.contracts /\ pools = old.pools /\ states = old.states
        /\ flaws = old.flaws
  BY DEF Init
<1>2. /\ phase = [p \in Processes |-> "down"] /\ task = [p \in Processes |-> None]
      /\ indexed = {} /\ staked = [id \in Ids |-> FALSE] /\ ended = [id \in Ids |-> FALSE]
  BY DEF Init
<1>3. /\ contracts \in [Ids -> Contracts \cup {None}]
      /\ pools \in [Kinds -> [Ids -> PoolIdentities \cup {None}]]
      /\ states \in [Ids -> Kinds \cup {"other", None}]
      /\ StatesOK
  BY <1>1, OldStoresAssumption DEF StatesOK
<1>4. TypeOK
  BY <1>2, <1>3 DEF TypeOK
<1>5. CleanOK /\ \A p \in Processes : ProcessOK(p)
  BY <1>2 DEF CleanOK, ProcessOK
<1> QED BY <1>3, <1>4, <1>5 DEF IInv

LEMMA StepOK == IInv /\ [Next]_vars => IInv' /\ Evolves
<1> SUFFICES ASSUME IInv, [Next]_vars PROVE IInv' /\ Evolves
  OBVIOUS
<1>1. CASE UNCHANGED vars
  <2>1. /\ UNCHANGED <<phase, task, contracts, pools, states, flaws, indexed>>
        /\ staked' \in [Ids -> BOOLEAN] /\ ended' \in [Ids -> BOOLEAN]
    BY <1>1 DEF vars, IInv, TypeOK
  <2> QED BY <2>1, ChainKeeps
<1>2. ASSUME NEW p \in Processes, Boot(p) PROVE IInv' /\ Evolves
  BY <1>2, StartupKeeps, ReadUndatedKeeps, WriteDatesKeeps, ServeKeeps DEF Boot
<1>3. ASSUME NEW p \in Processes, Continue(p) PROVE IInv' /\ Evolves
  BY <1>3, CheckSlotKeeps, StoreContractKeeps, BuildPoolKeeps, InsertPoolKeeps,
     InsertStateKeeps, FetchViewKeeps, WriteViewKeeps DEF Continue
<1>4. ASSUME NEW p \in Processes, Fail(p) \/ Crash(p) PROVE IInv' /\ Evolves
  BY <1>4, FailKeeps, CrashKeeps
<1>5. ASSUME NEW p \in Processes, NEW r \in Requests, Request(p, r) PROVE IInv' /\ Evolves
  BY <1>5, RequestKeeps
<1>6. ASSUME NEW p \in Processes, NEW id \in Ids, StartRefresh(p, id) PROVE IInv' /\ Evolves
  BY <1>6, StartRefreshKeeps
<1>7. ASSUME NEW id \in Ids, Stake(id) \/ End(id) PROVE IInv' /\ Evolves
  BY <1>7, StakeKeeps
<1> QED BY <1>1, <1>2, <1>3, <1>4, <1>5, <1>6, <1>7 DEF Next

\* What a server that has started has made sure of stays so, and every task in flight knows
\* what its next step relies on (ensure_database_indexes, create_contract_with,
\* create_pool_from_contract, update_contract).
THEOREM Invariant == Spec => []IInv
<1>1. Init => IInv
  BY InitOK
<1>2. IInv /\ [Next]_vars => IInv'
  BY StepOK
<1> QED BY <1>1, <1>2, PTL DEF Spec

\* The stores hold documents of their collections, and every process is at a step of the code.
THEOREM TypeCorrect == Spec => []TypeOK
<1>1. IInv => TypeOK
  BY DEF IInv
<1> QED BY <1>1, Invariant, PTL

\* While a server is up an id stands for one pool, no collection the registration writes has
\* two documents for one id, and a pool state is that of its contract and of its own pool
\* (flex/db/indexes.py, create_pool_from_contract, create_pool_state_from_contract).
THEOREM IdsAreOfOneKind == Spec => []OneIdentity
<1>1. IInv => OneIdentity
  <2> SUFFICES ASSUME IInv, NEW p \in Processes, phase[p] = "up" PROVE OneIdentity
    BY DEF OneIdentity
  <2>1. Clean
    BY DEF IInv, CleanOK
  <2>2. StatesOK
    BY DEF IInv
  <2> QED BY <2>1, <2>2 DEF Clean, Written, StatesOK, OneIdentity
<1> QED BY <1>1, Invariant, PTL

\* No step takes a contract away, changes its type, its version or its kind, or loses a field
\* its pool is built from, although refreshes and the migration write back copies they have
\* read before they waited (update_contract, init_app, get_or_create_contract).
THEOREM AnchorsAreKept == Spec => AnchorKept
<1> DEFINE Kept == \A id \in Ids : contracts[id] # None =>
             /\ contracts'[id] # None
             /\ contracts'[id].declared = contracts[id].declared
             /\ KindOf(contracts'[id]) = KindOf(contracts[id])
             /\ PoolFields(contracts[id]) => PoolFields(contracts'[id])
<1>1. IInv /\ [Next]_vars => Kept
  <2> SUFFICES ASSUME IInv, [Next]_vars, NEW id \in Ids, contracts[id] # None
               PROVE  /\ contracts'[id] # None
                      /\ contracts'[id].declared = contracts[id].declared
                      /\ KindOf(contracts'[id]) = KindOf(contracts[id])
                      /\ PoolFields(contracts[id]) => PoolFields(contracts'[id])
    OBVIOUS
  <2>1. contracts'[id] # None /\ Anchors(contracts[id], contracts'[id])
    BY StepOK DEF Evolves, ContractsKept
  <2> QED BY <2>1 DEF Anchors, Alike, KindOf, PoolFields
<1> QED BY <1>1, Invariant, PTL DEF Spec, AnchorKept

\* No step changes a pool or a pool state, and a new pool is of the kind of its stored
\* contract (create_pool_from_contract, create_pool_state_from_contract).
THEOREM RecordsAreKept == Spec => [][Evolves]_vars
<1>1. IInv /\ [Next]_vars => [Evolves]_vars
  BY StepOK
<1> QED BY <1>1, Invariant, PTL DEF Spec

=============================================================================
