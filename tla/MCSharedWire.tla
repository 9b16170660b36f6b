---------------------------- MODULE MCSharedWire ----------------------------
EXTENDS SharedWire

CONSTANTS a, b
=============================================================================
