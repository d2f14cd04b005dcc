------------------------------- MODULE MCAttach -------------------------------
EXTENDS Attach

CONSTANTS a, b, c1, c2, tls
=============================================================================
