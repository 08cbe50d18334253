----------------------------- MODULE ApiServer -----------------------------
(***************************************************************************)
(* The parts of the API server's process that keep state of their own      *)
(* under a lock of their own: the cache of option chains, the traffic      *)
(* meter, the cache of API keys, the rate limiter and the rebuilds of      *)
(* universes.  They share nothing, so that a behaviour is one of one of    *)
(* them, the others at rest.                                               *)
(***************************************************************************)
EXTENDS ChainCache, TrafficMeter, KeyAuth, RateLimiter, UniverseRebuild

VARIABLE part  \* the part at work

Parts == {"chains", "traffic", "keys", "limiter", "universe"}

serverVars == <<part, vars, trafficVars, keyVars, limiterVars, universeVars>>

ServerInit ==
    /\ part \in Parts
    /\ Init /\ TrafficInit /\ LimiterInit
    /\ KeyInit /\ (part # "keys" => expiry = CHOOSE e \in Expiries : TRUE)
    /\ UniverseInit /\ (part # "universe" => bars = CHOOSE b \in BarsMaySay : TRUE)

Chains(step) == part = "chains" /\ step /\ UNCHANGED <<part, trafficVars, keyVars, limiterVars, universeVars>>

ServerNext ==
    \/ Chains(Next)
    \/ part = "traffic" /\ TrafficNext /\ UNCHANGED <<part, vars, keyVars, limiterVars, universeVars>>
    \/ part = "keys" /\ KeyNext /\ UNCHANGED <<part, vars, trafficVars, limiterVars, universeVars>>
    \/ part = "limiter" /\ LimiterNext /\ UNCHANGED <<part, vars, trafficVars, keyVars, universeVars>>
    \/ part = "universe" /\ UniverseNext /\ UNCHANGED <<part, vars, trafficVars, keyVars, limiterVars>>

\* The fairness is that of the callers of the chain cache.
ServerSpec ==
    /\ ServerInit /\ [][ServerNext]_serverVars
    /\ \A c \in Callers : WF_serverVars(Chains(GetOrLoad(c)))
=============================================================================
