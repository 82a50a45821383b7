--------------------------- MODULE MCToneSignals ---------------------------
EXTENDS ToneSignals

\* Every way a signal goes, and the least and the most a card's buffer may hold.
MCWays == {"ds5bt", "ds4bt", "card", "light"}
MCCaps == {2, 10}
=============================================================================
