------------------------------ MODULE MCSpreads -----------------------------
EXTENDS Spreads, TLC

\* A leg that is bought and expires on the second bar, and a spread of two
\* legs that expire one after the other.
MCTemplates ==
    { <<[side |-> 1, expiry |-> 2]>>,
      <<[side |-> -1, expiry |-> 2], [side |-> 1, expiry |-> 3]>> }
=============================================================================
