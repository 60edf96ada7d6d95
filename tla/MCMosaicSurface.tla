--------------------------- MODULE MCMosaicSurface ---------------------------
\* Two coils for MosaicSurface.
EXTENDS MosaicSurface

CONSTANTS x, y

=============================================================================
