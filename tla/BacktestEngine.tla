--------------------------- MODULE BacktestEngine ---------------------------
(***************************************************************************)
(* The backtest engine: a batch of runs up to the bars and prices they are *)
(* replayed on, and the two books one run keeps bar by bar, the broker's,  *)
(* of the underlying, and the tracker's, of option spreads.  A fill never  *)
(* touches a spread nor a leg the broker, and their cash adds up to one    *)
(* number; each draws the prices the batch prepares.  A behaviour is one   *)
(* of one of the three, the others at rest.                                *)
(***************************************************************************)
EXTENDS Broker, Spreads, Preparation

VARIABLE book  \* the part at work

engineVars == <<book, vars, spreadVars, prepVars>>

\* What a batch is asked for matters only where there is one.
EngineInit ==
    /\ book \in {"broker", "spreads", "batch"}
    /\ Init /\ SpreadInit /\ PrepInit
    /\ book # "batch" => batchConfig = CHOOSE config \in Workers \X Warmups \X Registered : TRUE

EngineNext ==
    \/ book = "broker" /\ Next /\ UNCHANGED <<book, spreadVars, prepVars>>
    \/ book = "spreads" /\ SpreadNext /\ UNCHANGED <<book, vars, prepVars>>
    \/ book = "batch" /\ PrepNext /\ UNCHANGED <<book, vars, spreadVars>>

EngineSpec == EngineInit /\ [][EngineNext]_engineVars
=============================================================================
