---------------------------- MODULE MCTradeSaga ----------------------------
\* TradeSaga with model values for TLC.
EXTENDS TradeSaga

CONSTANTS s1, s2, c1
=============================================================================
