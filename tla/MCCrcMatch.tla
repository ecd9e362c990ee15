----------------------------- MODULE MCCrcMatch -----------------------------
EXTENDS CrcMatch
CONSTANTS a, b
MCMate(c) == IF c = a THEN b ELSE a
=============================================================================
