--------------------------- MODULE MCBacktestRun ---------------------------
EXTENDS BacktestRun

CONSTANTS c1, c2, x1, x2, e
=============================================================================
