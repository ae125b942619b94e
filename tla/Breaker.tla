------------------------------ MODULE Breaker ------------------------------
(***************************************************************************)
(* The circuit breaker of shared/libs/go/resilience as its callers see it: *)
(* operators on the record that stands for one breaker.                    *)
(*                                                                         *)
(* The library below it numbers its generations (a new one begins with     *)
(* every change of state and with every new counting window) and ignores   *)
(* the result of a call that was let in by an older generation. Instead of *)
(* the number, calls holds the calls of the current generation.            *)
(***************************************************************************)
EXTENDS Naturals

CONSTANT FailureThreshold   \* consecutive failures that trip the breaker

ASSUME ThresholdAssumption == FailureThreshold \in Nat \ {0}

BreakerOf(Calls) ==
    [state : {"closed", "open", "half_open"}, failures : 0..FailureThreshold,
     calls : SUBSET Calls]

Fresh(state) == [state |-> state, failures |-> 0, calls |-> {}]

\* Closed lets everything in, half-open a single probe (MaxRequests: 1).
Admits(b) == b.state = "closed" \/ (b.state = "half_open" /\ b.calls = {})

Admitted(b, c) == [b EXCEPT !.calls = @ \cup {c}]

Succeeded(b, c) ==
    IF b.state = "half_open" THEN Fresh("closed")
    ELSE [b EXCEPT !.calls = @ \ {c}, !.failures = 0]

\* A failed probe opens the breaker again.
Failed(b, c) ==
    IF b.state = "half_open" \/ b.failures + 1 >= FailureThreshold THEN Fresh("open")
    ELSE [b EXCEPT !.calls = @ \ {c}, !.failures = @ + 1]

\* A call ends. Execute counts every error as a failure, whatever its status
\* (IsSuccessful), and a panic too.
Report(b, c, success) ==
    IF c \notin b.calls THEN b
    ELSE IF success THEN Succeeded(b, c) ELSE Failed(b, c)
=============================================================================
