------------------------------ MODULE MCGreeks ------------------------------
EXTENDS GreeksBackfill
CONSTANTS a, b
MCFillersOf == [x \in {a, b} |-> IF x = a THEN {a, b} ELSE {a}]
MCPrices == {{<<1, 1>>, <<1, 2>>, <<2, 1>>}}
=============================================================================
