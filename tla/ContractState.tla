--------------------------- MODULE ContractState ---------------------------
(***************************************************************************)
(* The codec of the Reach contracts (flex/blockchain/contract_state.py):   *)
(* the four supported layouts, the checks an application has to pass       *)
(* before its state is believed, and the view that is decoded from it.     *)
(* Bytes are not represented.  A layout is the positions its fields take   *)
(* in the state vector, a digest is the pair <<type, version>> whose       *)
(* program it identifies, and an application is the facts about it that    *)
(* the codec compares.                                                     *)
(***************************************************************************)
EXTENDS Integers, Sequences

\* _CURRENT_REACH_STEP, _LOCAL_MAP_BYTES and the width of the beneficiary's key.
CurrentStep == 4
LocalMapBytes == 60
KeyBytes == 32

\* Consecutive big-endian words, named in the order of the vector: the field at
\* position i starts at base + width * (i - 1).
Words(names, base, width) ==
  {[field |-> names[i], first |-> base + width * (i - 1), size |-> width] : i \in DOMAIN names}

\* The rewards of the older compilers are rates, those of the newer ones totals.
RateFields == <<"rewardPerBlock", "extraAlgoRewardPerBlock">>
TotalFields == <<"totalRewardAmount", "totalAlgoRewardAmount">>

InitialNames(tokens, rewards) ==
  <<"creationFee", "flatAlgoCreationFee">> \o tokens \o <<"beginBlock", "endBlock">>
    \o rewards \o <<"lockLengthBlocks">>

\* One entry of _LAYOUTS.  "update" and "staked" are the positions of lastUpdateBlock and
\* totalStaked, "paid" of the one 256-bit word.
LayoutOf(keys, bytes, pages, tokens, rewards, update, paid, staked) ==
  [keys |-> keys, bytes |-> bytes, pages |-> pages,
   initial |-> Words(InitialNames(tokens, rewards), KeyBytes, 8),
   global |-> Words(<<"lastUpdateBlock">>, update, 8) \cup Words(<<"totalStaked">>, staked, 8)
              \cup Words(<<"rewardPerTokenStored">>, paid, 32)]

FarmTokens == <<"stakeToken", "rewardToken">>
Layouts ==
  [k \in {<<"farm", "17.2.4">>, <<"farm", "17.2.5">>,
          <<"distribution", "17.0.4">>, <<"distribution", "17.0.5">>} |->
     CASE k = <<"farm", "17.2.4">> -> LayoutOf(2, 226, 2, FarmTokens, RateFields, 128, 136, 176)
       [] k = <<"farm", "17.2.5">> -> LayoutOf(3, 282, 2, FarmTokens, TotalFields, 144, 192, 232)
       [] k = <<"distribution", "17.0.4">> ->
            LayoutOf(2, 226, 1, <<"token">>, RateFields, 120, 128, 168)
       [] k = <<"distribution", "17.0.5">> ->
            LayoutOf(3, 282, 1, <<"token">>, TotalFields, 136, 184, 224)]

\* _validate_application_identity and _validate_schema: the answer is about the application
\* asked for, which runs the declared program and has the storage that program was given.
SameApplication(app, id, layout, declared) ==
  /\ app.id = id
  /\ app.approval = declared
  /\ app.clear = "reach"
  /\ app.pages = layout.pages
  /\ app.globalSlices = layout.keys + 1 /\ app.globalUints = 0
  /\ app.localSlices = 1 /\ app.localUints = 0

\* _recover_global_vector: the contract is past its set-up, and the chunks are all there
\* and have the size of the vector.
Recovered(app, layout) ==
  /\ app.step = CurrentStep
  /\ layout.keys <= app.chunks
  /\ app.bytes = layout.bytes

\* decode_contract_view: the names of the fields a view of that type and version has.
Names(words) == {w.field : w \in words}
FieldsOf(declared) ==
  Names(Layouts[declared].initial) \cup Names(Layouts[declared].global) \cup {"beneficiary"}

\* fetch_contract_views, when the node answers: the names of the fields that were
\* decoded, or none (ContractStateDecodeError).
Views(app, id, declared) ==
  IF /\ declared \in DOMAIN Layouts
     /\ SameApplication(app, id, Layouts[declared], declared)
     /\ Recovered(app, Layouts[declared])
  THEN FieldsOf(declared)
  ELSE {}

\* decode_local_view: four optional words, each with its tag; the last is 256 bits wide.
LocalWords ==
  Words(<<"staked", "reward", "lockTimestamp">>, 0, 9)
    \cup Words(<<"rewardPerTokenPaid">>, 27, 33)

-----------------------------------------------------------------------------
\* What the tables must satisfy: no byte belongs to two fields, none to the beneficiary's
\* key, and none lies beyond the vector (_uint raises for a field that does).
Bytes(w) == w.first .. (w.first + w.size - 1)
WellLaid(words, from, bytes) ==
  /\ \A w \in words : Bytes(w) \subseteq from .. (bytes - 1)
  /\ \A v, w \in words : v # w => Bytes(v) \cap Bytes(w) = {}

LayoutsWellLaid ==
  /\ \A k \in DOMAIN Layouts :
       WellLaid(Layouts[k].initial \cup Layouts[k].global, KeyBytes, Layouts[k].bytes)
  /\ WellLaid(LocalWords, 0, LocalMapBytes)
=============================================================================
