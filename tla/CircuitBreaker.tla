--------------------------- MODULE CircuitBreaker ---------------------------
(***************************************************************************)
(* The process-local circuit breaker of core/circuit_breaker.py.           *)
(*                                                                         *)
(* Tasks of one event loop call execute.  _before_call and the three       *)
(* _record methods hold the lock and suspend nowhere inside it, so each is *)
(* one step; the protected call is awaited between two of them, and other  *)
(* tasks run meanwhile.  Time is counted in ticks, and the age of the last *)
(* failure only up to the recovery timeout, where it stops to matter.      *)
(***************************************************************************)
EXTENDS Integers

CONSTANTS Callers,    \* tasks that may be in execute at the same time
          Threshold,  \* failure_threshold
          Timeout,    \* recovery_timeout, in ticks
          None        \* Python's None

ASSUME BreakerAssumption == Threshold \in Nat \ {0} /\ Timeout \in Nat /\ None \notin Nat

VARIABLES state,          \* CircuitState
          failureCount,   \* failure_count, up to Threshold
          lastFailure,    \* ticks since last_failure_time, up to Timeout, or None
          probeInFlight,  \* _probe_in_flight
          calls           \* how each task was admitted: not at all, closed, or as a probe

vars == <<state, failureCount, lastFailure, probeInFlight, calls>>

States == {"closed", "open", "half_open"}

Init == /\ state = "closed"
        /\ failureCount = 0
        /\ lastFailure = None
        /\ probeInFlight = FALSE
        /\ calls = [c \in Callers |-> "none"]

RetryAfter == IF lastFailure = None THEN Timeout ELSE Timeout - lastFailure

\* _before_call, up to the question whether the slot of the probe is free.
Cooled == state # "open" \/ RetryAfter = 0
StateToEnter == IF state = "open" THEN "half_open" ELSE state

\* The call is let through.
Enter(c) ==
  /\ calls[c] = "none"
  /\ Cooled
  /\ StateToEnter = "half_open" => ~probeInFlight
  /\ state' = StateToEnter
  /\ probeInFlight' = (probeInFlight \/ StateToEnter = "half_open")
  /\ calls' = [calls EXCEPT ![c] = IF StateToEnter = "half_open" THEN "probe" ELSE "call"]
  /\ UNCHANGED <<failureCount, lastFailure>>

\* CircuitOpenError: the call fails fast, still cooling or behind a probe.
FailFast(c) ==
  /\ calls[c] = "none"
  /\ ~Cooled \/ (StateToEnter = "half_open" /\ probeInFlight)
  /\ state' = IF Cooled THEN StateToEnter ELSE state
  /\ UNCHANGED <<failureCount, lastFailure, probeInFlight, calls>>

Done(c) == /\ calls[c] # "none"
           /\ calls' = [calls EXCEPT ![c] = "none"]

\* A success closes the circuit in every state.
SucceedAlwaysClosing(c) ==
  /\ Done(c)
  /\ failureCount' = 0
  /\ state' = "closed"
  /\ probeInFlight' = FALSE
  /\ UNCHANGED lastFailure

\* A success takes one failure back instead of all.
SucceedForgivingOne(c) ==
  /\ Done(c)
  /\ failureCount' = failureCount - 1
  /\ state' = IF state = "half_open" THEN "closed" ELSE state
  /\ probeInFlight' = FALSE
  /\ UNCHANGED lastFailure

\* _record_success, also for an exception that is no failure of the provider.
Succeed(c) ==
  /\ Done(c)
  /\ failureCount' = 0
  /\ state' = IF state = "half_open" THEN "closed" ELSE state
  /\ probeInFlight' = FALSE
  /\ UNCHANGED lastFailure

Counted(n) == IF n < Threshold THEN n + 1 ELSE n

\* The count reaches Threshold before the test, not at it.
FailOneLate(c) ==
  /\ Done(c)
  /\ failureCount' = Counted(failureCount)
  /\ lastFailure' = 0
  /\ state' = IF state = "half_open" \/ failureCount >= Threshold THEN "open" ELSE state
  /\ probeInFlight' = FALSE

\* _record_failure.
Fail(c) ==
  /\ Done(c)
  /\ failureCount' = Counted(failureCount)
  /\ lastFailure' = 0
  /\ state' = IF state = "half_open" \/ failureCount' >= Threshold THEN "open" ELSE state
  /\ probeInFlight' = FALSE

\* The cancelled probe keeps its slot.
CancelKeepingSlot(c) ==
  /\ Done(c)
  /\ state' = IF state = "half_open" THEN "open" ELSE state
  /\ UNCHANGED <<failureCount, lastFailure, probeInFlight>>

\* The cancelled probe neither frees its slot nor opens the circuit again.
CancelUnrecorded(c) ==
  /\ Done(c)
  /\ UNCHANGED <<state, failureCount, lastFailure, probeInFlight>>

\* _record_cancellation.
Cancel(c) ==
  /\ Done(c)
  /\ state' = IF state = "half_open" THEN "open" ELSE state
  /\ probeInFlight' = FALSE
  /\ UNCHANGED <<failureCount, lastFailure>>

\* The clock.
Tick == /\ lastFailure # None
        /\ lastFailure < Timeout
        /\ lastFailure' = lastFailure + 1
        /\ UNCHANGED <<state, failureCount, probeInFlight, calls>>

Next == \/ Tick
        \/ \E c \in Callers : Enter(c) \/ FailFast(c) \/ Succeed(c) \/ Fail(c) \/ Cancel(c)

Spec == Init /\ [][Next]_vars

-----------------------------------------------------------------------------
(* Properties                                                              *)

\* Every variable stays within its type.
TypeOK == /\ state \in States
          /\ failureCount \in 0 .. Threshold
          /\ lastFailure \in 0 .. Timeout \cup {None}
          /\ probeInFlight \in BOOLEAN
          /\ calls \in [Callers -> {"none", "call", "probe"}]

\* The slot of the probe is taken exactly while the circuit is half open, by a
\* probe that still runs: a slot nobody frees would refuse calls for ever.
SlotIsHeld == /\ probeInFlight <=> state = "half_open"
              /\ probeInFlight => \E c \in Callers : calls[c] = "probe"

\* After as many failures as the threshold says, and no success of any call
\* since (a late one's included: it resets the count of _record_success), a
\* call reaches the provider only as a probe, after the recovery timeout.
OnlyProbesWhileFailing ==
  [][\A c \in Callers :
        calls[c] = "none" /\ calls'[c] # "none" /\ failureCount >= Threshold
          => calls'[c] = "probe" /\ RetryAfter = 0]_vars

\* An open circuit opens to a probe only, and only after the recovery timeout:
\* no late success of a call from before closes it at once.
OpenUntilProbed ==
  [][state = "open" => \/ state' = "open"
                       \/ state' = "half_open" /\ RetryAfter = 0]_vars

-----------------------------------------------------------------------------
(* Liveness.  The provider recovers: from some time on every call ends, and *)
(* ends well.  Tasks keep calling, and the clock goes on.                  *)

RecoverySpec == /\ Spec
                /\ <>[][\A c \in Callers : ~Fail(c) /\ ~Cancel(c)]_vars
                /\ WF_vars(Tick)
                /\ \A c \in Callers : WF_vars(Enter(c)) /\ WF_vars(Succeed(c))

\* The circuit closes again after the provider has recovered, and stays closed.
Recovers == <>[](state = "closed")
=============================================================================
