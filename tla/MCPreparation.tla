--------------------------- MODULE MCPreparation ----------------------------
EXTENDS Preparation

CONSTANT p1

\* A run on minutes that trades an hourly security, one interval being two of
\* the other: its bars are complete and on time.
MCInterval == [s \in Series |-> IF s = "hourly" THEN 2 ELSE 1]
MCHistories == [s \in Series |-> IF s = "hourly" THEN {<<0, 2, 4>>} ELSE {<<0, 1, 2, 3, 4, 5>>}]
MCWarmups == {[p \in ParamSets |-> 0]}
=============================================================================
