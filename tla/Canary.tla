------------------------------ MODULE Canary -------------------------------
(***************************************************************************)
(* scripts/canary.sh: the operator's runs of promote, set and rollback,    *)
(* command by command, against the route weight and the canary pods they   *)
(* change. A command that fails ends the script (set -e) wherever it is,   *)
(* as does the operator's interrupt; the next run starts from what is left.*)
(* One operator runs one script at a time: nothing in it keeps two apart.  *)
(***************************************************************************)
EXTENDS Naturals, Sequences, SequencesExt

CONSTANTS
    Weights,        \* weights the operator sets by hand
    MaxFailures     \* bound: failing commands and interrupts in one behaviour

\* The canary gets this share of the traffic, step by step.
STEPS == <<5, 25, 50, 100>>

ASSUME WeightsAssumption == Weights \subseteq 0..100 /\ MaxFailures \in Nat

VARIABLES
    weight,     \* percent of the traffic the VirtualService sends to the canary
    routedBy,   \* the action that set it last
    pods,       \* the canary deployment has pods
    faulty,     \* the canary version answers with too many errors
    pc,         \* next command of the running script, "idle" without one
    action,     \* "promote", "set" or "rollback"
    step,       \* of the promotion
    measured,   \* error rate of the last query: see Readings
    failures,
    copied      \* history: stable had replicas to copy at the last ScaleUp

clusterVars == <<weight, routedBy, pods, copied>>
scriptVars  == <<pc, action, step, measured>>
canaryVars == <<clusterVars, faulty, scriptVars, failures>>

\* What canary_error_rate prints: a rate, NaN when the canary had no traffic in the
\* last minute, 0 when it never had any, nothing when Prometheus did not answer.
Readings == {"low", "high", "nan", "zero", "empty"}

\* What awk may find of it: nothing is not more than the threshold, and whether NaN is
\* depends on the awk (one that takes it for a string says yes).
ExceedsThreshold(reading) ==
    IF reading = "nan" THEN BOOLEAN ELSE {reading = "high"}

Failing == failures < MaxFailures /\ failures' = failures + 1

Goto(l) == pc' = l /\ UNCHANGED <<action, step>>

----------------------------------------------------------------------------
\* Commands

\* Any of them fails, or is interrupted, and the script ends.
Abort ==
    /\ pc # "idle" /\ Failing
    /\ pc' = "idle" /\ measured' = "none"
    /\ UNCHANGED <<clusterVars, faulty, action, step>>

\* Mutant: a promotion routes before it has pods.
mainRoutesFirst ==
    /\ pc = "idle"
    /\ action' \in {"promote", "set", "rollback"} /\ pc' = "set_weight"
    /\ step' = 1 /\ measured' = "none"
    /\ UNCHANGED <<clusterVars, faulty, failures>>

main ==
    /\ pc = "idle"
    /\ \/ action' = "promote" /\ pc' = "scale_canary"
       \/ action' \in {"set", "rollback"} /\ pc' = "set_weight"
    /\ step' = 1 /\ measured' = "none"
    /\ UNCHANGED <<clusterVars, faulty, failures>>

\* A promotion starts with as many canary pods as stable is told to have and waits for
\* them; a stable that is scaled to nothing leaves the canary without any. The pods may
\* run another version than the last ones.
ScaleUp ==
    /\ pc = "scale_canary" /\ action = "promote"
    /\ \E some \in BOOLEAN : pods' = some /\ copied' = some
    /\ faulty' \in BOOLEAN
    /\ Goto("set_weight")
    /\ UNCHANGED <<weight, routedBy, measured, failures>>

Route(w) == weight' = w /\ routedBy' = action

set_weight ==
    /\ pc = "set_weight"
    /\ \/ action = "promote" /\ Route(STEPS[step]) /\ Goto("measure")
       \/ action = "set" /\ (\E w \in Weights : Route(w)) /\ Goto("idle")
       \/ action = "rollback" /\ Route(0) /\ Goto("scale_down")
    /\ UNCHANGED <<pods, copied, faulty, measured, failures>>

\* What the query can say after the traffic had time to stabilize.
canary_error_rate ==
    {"nan", "zero", "empty"} \cup (IF faulty THEN {"high"} ELSE {"low"})

Measure ==
    /\ pc = "measure"
    /\ measured' \in canary_error_rate
    /\ Goto("decide")
    /\ UNCHANGED <<clusterVars, faulty, failures>>

RollBack == action' = "rollback" /\ pc' = "set_weight" /\ UNCHANGED step

\* Mutant: one step too many.
AdvanceOnceMore ==
    IF step <= Len(STEPS)
    THEN step' = step + 1 /\ pc' = "set_weight" /\ UNCHANGED action
    ELSE Goto("idle")

Advance ==
    IF step < Len(STEPS)
    THEN step' = step + 1 /\ pc' = "set_weight" /\ UNCHANGED action
    ELSE Goto("idle")

\* Mutant: the script stops where it is instead of rolling back.
DecideToStop ==
    /\ pc = "decide"
    /\ \E exceeds \in ExceedsThreshold(measured) : IF exceeds THEN Goto("idle") ELSE Advance
    /\ UNCHANGED <<clusterVars, faulty, measured, failures>>

Decide ==
    /\ pc = "decide"
    /\ \E exceeds \in ExceedsThreshold(measured) : IF exceeds THEN RollBack ELSE Advance
    /\ UNCHANGED <<clusterVars, faulty, measured, failures>>

ScaleDown ==
    /\ pc = "scale_down"
    /\ pods' = FALSE
    /\ Goto("idle")
    /\ UNCHANGED <<weight, routedBy, copied, faulty, measured, failures>>

----------------------------------------------------------------------------
\* Specification

CanaryInit ==
    /\ weight = 0 /\ routedBy = "rollback" /\ pods = FALSE /\ copied = TRUE
    /\ faulty \in BOOLEAN
    /\ pc = "idle" /\ action = "rollback" /\ step = 1 /\ measured = "none"
    /\ failures = 0

Command == ScaleUp \/ set_weight \/ Measure \/ Decide \/ ScaleDown

CanaryNext == main \/ Command \/ Abort

CanarySpec == CanaryInit /\ [][CanaryNext]_canaryVars

\* A script that was started goes on.
FairCanarySpec == CanarySpec /\ WF_canaryVars(Command)

----------------------------------------------------------------------------
\* Properties

CanaryTypeOK ==
    /\ weight \in 0..100 /\ pods \in BOOLEAN /\ copied \in BOOLEAN /\ faulty \in BOOLEAN
    /\ pc \in {"idle", "scale_canary", "set_weight", "measure", "decide", "scale_down"}
    /\ {action, routedBy} \subseteq {"promote", "set", "rollback"}
    /\ step \in DOMAIN STEPS
    /\ measured \in Readings \cup {"none"}
    /\ failures \in 0..MaxFailures

\* Traffic that promote or rollback left on the canary has pods to go to, wherever the
\* script or the one before it was cut off, unless the last promotion found a stable
\* scaled to nothing and copied that.
CanaryHasPods == weight > 0 /\ routedBy # "set" => pods \/ ~copied

\* No promotion, however many were cut off before it, gives a faulty canary more than the
\* first step's share after a query that had a rate of it.
PromotesUnseenOnly ==
    [][faulty /\ routedBy' = "promote" /\ weight' > STEPS[1] /\ ~UNCHANGED weight
         => measured \in {"nan", "zero", "empty"}]_canaryVars

\* A faulty canary gets more traffic only while Prometheus has no rate of it, and loses
\* all of it once it has, unless the script is cut off.
FaultyCanaryIsHeldBack ==
    /\ PromotesUnseenOnly
    /\ measured = "high" ~> (weight = 0 \/ measured = "none")
=============================================================================
