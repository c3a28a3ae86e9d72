------------------------ MODULE CircuitBreakerProofs ------------------------
(***************************************************************************)
(* Machine-checked facts about CircuitBreaker, for every set of callers,   *)
(* every failure threshold and every recovery timeout.                     *)
(***************************************************************************)
EXTENDS CircuitBreaker, TLAPS

\* The count is at the threshold only while the circuit is not closed: any
\* success resets it, and the failure that reaches it opens the circuit.
TrippedWhileFailing == failureCount >= Threshold => state # "closed"

\* The invariants are inductive together.
IInv == TypeOK /\ SlotIsHeld /\ TrippedWhileFailing

LEMMA InitInv == Init => IInv
<1> SUFFICES ASSUME Init PROVE IInv
  OBVIOUS
<1>1. TypeOK
  <2>1. probeInFlight \in BOOLEAN
    BY DEF Init
  <2>2. failureCount \in 0 .. Threshold
    BY BreakerAssumption DEF Init
  <2> QED BY <2>1, <2>2 DEF Init, TypeOK, States
<1>2. SlotIsHeld
  BY DEF Init, SlotIsHeld
<1>3. TrippedWhileFailing
  BY BreakerAssumption DEF Init, TrippedWhileFailing
<1> QED BY <1>1, <1>2, <1>3 DEF IInv

LEMMA StepInv == IInv /\ [Next]_vars => IInv'
<1> SUFFICES ASSUME IInv, [Next]_vars PROVE IInv'
  OBVIOUS
<1> USE BreakerAssumption DEF IInv, TypeOK, SlotIsHeld, TrippedWhileFailing, States
<1>1. CASE Tick
  BY <1>1 DEF Tick
<1>2. ASSUME NEW c \in Callers, Enter(c)
      PROVE  IInv'
  <2>1. TypeOK' /\ TrippedWhileFailing'
    BY <1>2 DEF Enter, StateToEnter
  <2>2. probeInFlight' <=> state' = "half_open"
    BY <1>2 DEF Enter, StateToEnter
  <2>3. CASE StateToEnter = "half_open"
    <3>1. calls'[c] = "probe"
      BY <1>2, <2>3 DEF Enter
    <3> QED BY <2>1, <2>2, <3>1
  <2>4. CASE StateToEnter # "half_open"
    <3>1. ~probeInFlight'
      BY <1>2, <2>2, <2>4 DEF Enter
    <3> QED BY <2>1, <2>2, <3>1
  <2> QED BY <2>3, <2>4
<1>3. ASSUME NEW c \in Callers, FailFast(c)
      PROVE  IInv'
  BY <1>3 DEF FailFast, Cooled, StateToEnter
<1>4. ASSUME NEW c \in Callers, Succeed(c)
      PROVE  IInv'
  <2>1. /\ failureCount' \in 0 .. Threshold
        /\ ~(failureCount' >= Threshold)
    BY <1>4 DEF Succeed
  <2>2. state' \in States \ {"half_open"} /\ probeInFlight' = FALSE /\ lastFailure' = lastFailure
    BY <1>4 DEF Succeed
  <2>3. calls' \in [Callers -> {"none", "call", "probe"}]
    BY <1>4 DEF Succeed, Done
  <2>4. probeInFlight' \in BOOLEAN
    BY <2>2
  <2> QED BY <2>1, <2>2, <2>3, <2>4
<1>5. ASSUME NEW c \in Callers, Fail(c)
      PROVE  IInv'
  <2>1. failureCount' \in 0 .. Threshold
    BY <1>5 DEF Fail, Counted
  <2>2. /\ state' \in States \ {"half_open"} /\ probeInFlight' = FALSE
        /\ lastFailure' \in 0 .. Timeout
        /\ failureCount' >= Threshold => state' = "open"
    BY <1>5 DEF Fail
  <2>3. calls' \in [Callers -> {"none", "call", "probe"}]
    BY <1>5 DEF Fail, Done
  <2>4. probeInFlight' \in BOOLEAN
    BY <2>2
  <2> QED BY <2>1, <2>2, <2>3, <2>4
<1>6. ASSUME NEW c \in Callers, Cancel(c)
      PROVE  IInv'
  BY <1>6 DEF Cancel, Done
<1>7. CASE UNCHANGED vars
  BY <1>7 DEF vars
<1> QED BY <1>1, <1>2, <1>3, <1>4, <1>5, <1>6, <1>7 DEF Next

\* They hold in every reachable state.
THEOREM BreakerInvariant == Spec => []IInv
  BY InitInv, StepInv, PTL DEF Spec

\* The state, its counter and what callers do have their types.
THEOREM BreakerTypes == Spec => []TypeOK
<1>1. IInv => TypeOK
  BY DEF IInv
<1> QED BY <1>1, BreakerInvariant, PTL

\* The slot of the probe is never leaked: while it is taken, a probe still runs.
THEOREM ProbeSlotHeld == Spec => []SlotIsHeld
<1>1. IInv => SlotIsHeld
  BY DEF IInv
<1> QED BY <1>1, BreakerInvariant, PTL

\* After as many failures as the threshold says only a probe is let through,
\* and only after the timeout.
THEOREM OnlyProbes == Spec => OnlyProbesWhileFailing
<1> DEFINE Guarded == \A c \in Callers :
             calls[c] = "none" /\ calls'[c] # "none" /\ failureCount >= Threshold
               => calls'[c] = "probe" /\ RetryAfter = 0
<1>1. IInv /\ [Next]_vars => [Guarded]_vars
  <2> SUFFICES ASSUME IInv, Next, NEW c \in Callers,
                      calls[c] = "none", calls'[c] # "none", failureCount >= Threshold
               PROVE  calls'[c] = "probe" /\ RetryAfter = 0
    OBVIOUS
  <2>1. Enter(c)
    BY DEF IInv, TypeOK, Next, Tick, Enter, FailFast, Succeed, Fail, Cancel, Done
  <2>2. state = "open"
    BY <2>1 DEF IInv, TypeOK, SlotIsHeld, TrippedWhileFailing, States, Enter, StateToEnter
  <2> QED BY <2>1, <2>2 DEF IInv, TypeOK, Enter, Cooled, StateToEnter
<1> QED BY <1>1, BreakerInvariant, PTL DEF Spec, OnlyProbesWhileFailing

\* Only a probe leaves the open state, and only when the timeout has passed.
THEOREM OpenStays == Spec => OpenUntilProbed
<1>1. [Next]_vars => [state = "open" => \/ state' = "open"
                                        \/ state' = "half_open" /\ RetryAfter = 0]_vars
  BY DEF Next, Tick, Enter, Cooled, StateToEnter, FailFast, Succeed, Fail, Cancel, vars
<1> QED BY <1>1, PTL DEF Spec, OpenUntilProbed
=============================================================================
