---------------------------- MODULE RunOutcome ----------------------------
(***************************************************************************)
(* What a backtest run promises to whoever started it: it is decided once, *)
(* and what is recorded of it is the decision and stays recorded.          *)
(***************************************************************************)
CONSTANT Outcomes

VARIABLES
    outcome,  \* {} while the run is open, {o} once it is decided
    record    \* {} until the decision is on disk, then {o}

vars == <<outcome, record>>

Init == outcome = {} /\ record = {}

Decide ==
    /\ outcome = {}
    /\ \E o \in Outcomes : outcome' = {o}
    /\ UNCHANGED record

Record ==
    /\ outcome # {}
    /\ record' = outcome
    /\ UNCHANGED outcome

Spec == Init /\ [][Decide \/ Record]_vars
=============================================================================
