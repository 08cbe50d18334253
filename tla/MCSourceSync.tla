---------------------------- MODULE MCSourceSync ----------------------------
EXTENDS SourceSync, TLC

CONSTANTS a, b, c
=============================================================================
