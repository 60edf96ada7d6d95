--------------------------- MODULE MCAreaPipeline ---------------------------
\* The surfaces in the order of the configuration, and a coil.
EXTENDS AreaPipeline

CONSTANTS S, L, x

BothSurfaces == <<S, L>>

=============================================================================
