-------------------------- MODULE MCBacktestEngine --------------------------
EXTENDS BacktestEngine, TLC

CONSTANTS long, short, p1, p2

\* A long entry that grows, a TWAP order for it that is sized when it fills, a
\* reversal of it and a TWAP order that closes it; a short entry by a priced
\* order and a priced order that closes it; and an order without an entry.
\* All of them may be scheduled.
MCRequests ==
    { [entry |-> long,    side |-> 1,  kind |-> "market", qty |-> 8, reduceOnly |-> FALSE],
      [entry |-> long,    side |-> 1,  kind |-> "twap",   qty |-> 0, reduceOnly |-> FALSE],
      [entry |-> long,    side |-> -1, kind |-> "market", qty |-> 12, reduceOnly |-> FALSE],
      [entry |-> long,    side |-> -1, kind |-> "twap",   qty |-> 0, reduceOnly |-> TRUE],
      [entry |-> short,   side |-> -1, kind |-> "priced", qty |-> 0, reduceOnly |-> FALSE],
      [entry |-> short,   side |-> 1,  kind |-> "priced", qty |-> 0, reduceOnly |-> TRUE],
      [entry |-> NoEntry, side |-> 1,  kind |-> "market", qty |-> 4, reduceOnly |-> FALSE] }

\* A leg that is bought and expires on the second bar, and a spread of two
\* legs that expire one after the other.
MCTemplates ==
    { <<[side |-> 1, expiry |-> 2]>>,
      <<[side |-> -1, expiry |-> 2], [side |-> 1, expiry |-> 3]>> }

\* A second security of a slower interval whose bars may be late, one with a
\* gap, and a slow factor; runs of the same and of another warmup.
MCInterval == [s \in Series |-> IF s \in {"hourly", "factor"} THEN 2 ELSE 1]
MCHistories == [s \in Series |-> CASE s = "spy" -> {<<0, 1, 2, 3>>, <<0>>}
                                   [] s = "hourly" -> {<<0, 2>>, <<2>>}
                                   [] s = "gappy" -> {<<0, 1, 3>>}
                                   [] s = "factor" -> {<<0, 2>>}]
MCWarmups == {[p \in ParamSets |-> 1], [p \in ParamSets |-> IF p = p1 THEN 1 ELSE 0]}
MCRegistered == {Series} \cup {Series \ {s} : s \in Series}
=============================================================================
