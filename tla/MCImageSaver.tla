---------------------------- MODULE MCImageSaver ----------------------------
\* Model values for ImageSaver.
EXTENDS ImageSaver

CONSTANTS a1, w1, w2

=============================================================================
