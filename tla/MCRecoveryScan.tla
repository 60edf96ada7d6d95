--------------------------- MODULE MCRecoveryScan ---------------------------
\* RecoveryScan as it stands: coils are numbers, the surface is a model value.
EXTENDS RecoveryScan

CONSTANTS S

=============================================================================
