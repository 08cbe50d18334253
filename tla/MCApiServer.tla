---------------------------- MODULE MCApiServer -----------------------------
EXTENDS ApiServer

CONSTANTS r1, r2, k1, k2

\* One lookback; one symbol is among every day's top with the same score, the
\* other rises after the first day: their days make three intervals, of which
\* a query of the universe returns two.
MCBars == {[l \in {20} |-> [d \in 1..LastDay |->
              [s \in {k1, k2} |-> IF s = k2 THEN 1 ELSE IF d = 1 THEN 2 ELSE 3]]]}
=============================================================================
