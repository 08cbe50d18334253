--------------------------- MODULE MCSyncPipeline ---------------------------
EXTENDS SyncPipeline, ArchiveCases

CONSTANTS a, b

\* One backfill has two fillers, one a single one; only the first task has prices.
MCFillersOf == [x \in {a, b} |-> IF x = a THEN {a, b} ELSE {a}]
MCPrices == {{<<1, 1>>, <<1, 2>>}}

\* The archives of these runs are in order.
ASSUME MCStreamsInOrder == StreamsInOrder
=============================================================================
