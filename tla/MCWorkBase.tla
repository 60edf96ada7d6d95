----------------------------- MODULE MCWorkBase -----------------------------
\* Model values for WorkBase.
EXTENDS WorkBase

CONSTANTS c1, c2, x, y

=============================================================================
