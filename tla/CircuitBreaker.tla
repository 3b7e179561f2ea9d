--------------------------- MODULE CircuitBreaker ---------------------------
(***************************************************************************)
(* One circuit breaker (aim/utils/circuit_breaker.py) and the coroutines   *)
(* that call a downstream service through it.  The lock is never held over *)
(* an await, so each critical section is one action; what runs between two *)
(* of them is the call in flight.                                          *)
(*                                                                         *)
(* Time enters only as `elapsed`, the age of _last_failure_time, which     *)
(* stops at ResetTimeout: the code tests nothing else.                     *)
(***************************************************************************)
EXTENDS Integers

CONSTANTS Caller,         \* coroutines that use the breaker
          Threshold,      \* failure_threshold
          ResetTimeout,   \* reset_timeout
          MaxFailures     \* bound of the model on the failure counter

ASSUME ConstantsAssumption ==
    /\ Threshold \in Nat \ {0}
    /\ ResetTimeout \in Nat \ {0}
    /\ MaxFailures \in Nat

VARIABLES
    cstate,      \* _state: what the breaker stores (never "half_open")
    failures,    \* _failures
    elapsed,     \* time.monotonic() - _last_failure_time, up to ResetTimeout
    flight,      \* what each caller awaits: nothing, a call, or a probe call
    since        \* history: time since a call last failed, up to ResetTimeout

vars == <<cstate, failures, elapsed, flight, since>>

\* One breaker and its callers; the timer stops at the reset timeout.
TypeOK ==
    /\ cstate \in {"closed", "open"}
    /\ failures \in Nat
    /\ elapsed \in 0..ResetTimeout
    /\ flight \in [Caller -> {"none", "call", "probe"}]
    /\ since \in 0..ResetTimeout

Init ==
    /\ cstate = "closed"
    /\ failures = 0
    /\ elapsed = ResetTimeout
    /\ flight = [c \in Caller |-> "none"]
    /\ since = ResetTimeout

\* Mutant of State: the reset timeout is never consulted.
StateNeverResets == cstate

\* The property `state`: an OPEN circuit reads HALF_OPEN once the timer is over.
State == IF cstate = "open" /\ elapsed >= ResetTimeout THEN "half_open" ELSE cstate

-----------------------------------------------------------------------------
\* call(), first section: a caller passes unless the circuit is OPEN (then it
\* gets a CircuitOpenError and nothing changes).  The probe of a HALF_OPEN
\* circuit stores OPEN again, which it already is.
Admit(c) ==
    /\ flight[c] = "none"
    /\ State # "open"
    /\ flight' = [flight EXCEPT ![c] = IF State = "half_open" THEN "probe" ELSE "call"]
    /\ cstate' = IF State = "half_open" THEN "open" ELSE cstate
    /\ UNCHANGED <<failures, elapsed, since>>

\* Mutant of OnSuccess: the counter survives a success.
OnSuccessKeepsCount(c) ==
    /\ flight[c] # "none"
    /\ flight' = [flight EXCEPT ![c] = "none"]
    /\ cstate' = "closed"
    /\ UNCHANGED <<failures, elapsed, since>>

\* _on_success, for any call in flight, whenever it was admitted.
OnSuccess(c) ==
    /\ flight[c] # "none"
    /\ flight' = [flight EXCEPT ![c] = "none"]
    /\ cstate' = "closed"
    /\ failures' = 0
    /\ UNCHANGED <<elapsed, since>>

\* Mutant of OnFailure: a failure in OPEN leaves the timer alone.
OnFailureKeepsTimer(c) ==
    /\ flight[c] # "none"
    /\ failures < MaxFailures
    /\ flight' = [flight EXCEPT ![c] = "none"]
    /\ failures' = failures + 1
    /\ elapsed' = IF cstate = "open" THEN elapsed ELSE 0
    /\ since' = 0
    /\ cstate' = IF failures' >= Threshold THEN "open" ELSE cstate

\* _on_failure: the call raised, or its caller was cancelled while the service
\* was perhaps well: both count.
OnFailure(c) ==
    /\ flight[c] # "none"
    /\ failures < MaxFailures
    /\ flight' = [flight EXCEPT ![c] = "none"]
    /\ failures' = failures + 1
    /\ elapsed' = 0
    /\ since' = 0
    /\ cstate' = IF failures' >= Threshold THEN "open" ELSE cstate

\* The call itself raised CircuitOpenError, from a breaker further down: it is
\* passed on and counts neither way.
PassOn(c) ==
    /\ flight[c] # "none"
    /\ flight' = [flight EXCEPT ![c] = "none"]
    /\ UNCHANGED <<cstate, failures, elapsed, since>>

Reset ==
    /\ cstate' = "closed"
    /\ failures' = 0
    /\ UNCHANGED <<elapsed, flight, since>>

\* Time passes.
Tick ==
    /\ elapsed < ResetTimeout \/ since < ResetTimeout
    /\ elapsed' = IF elapsed < ResetTimeout THEN elapsed + 1 ELSE elapsed
    /\ since' = IF since < ResetTimeout THEN since + 1 ELSE since
    /\ UNCHANGED <<cstate, failures, flight>>

Next ==
    \/ \E c \in Caller : Admit(c) \/ OnSuccess(c) \/ OnFailure(c) \/ PassOn(c)
    \/ Reset
    \/ Tick

Spec == Init /\ [][Next]_vars

\* Only time is fair: callers may stop calling, and calls may hang.
FairSpec == Spec /\ WF_vars(Tick)

-----------------------------------------------------------------------------
\* The counter and the state tell one story: the circuit is open exactly while
\* the failures since the last success or reset reach the threshold, whatever
\* late answers of earlier calls do to either.
OpenIffThreshold == cstate = "open" <=> failures >= Threshold

\* After any failure an open circuit keeps callers away for a full
\* reset_timeout: a failed probe, or a late failure, restarts the wait.
BacksOff ==
    [][\A c \in Caller : flight[c] = "none" /\ flight'[c] # "none" =>
          cstate = "closed" \/ since >= ResetTimeout]_vars

\* A circuit opens again for as long as calls fail or callers are cancelled.
\* From the moment neither happens any more it stops turning callers away for
\* good, even if nobody calls in the meantime.
StopsRejecting ==
    <>[][failures' <= failures]_vars => <>[](State # "open")

\* State, counter and timer of the breaker stay one story, across answers that come
\* late (_on_success, _on_failure).
BreakerConsistent == TypeOK /\ OpenIffThreshold
=============================================================================
