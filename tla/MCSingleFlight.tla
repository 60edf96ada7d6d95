--------------------------- MODULE MCSingleFlight ---------------------------
\* Up to three threads; keys of size 1, and one too large for the cache.
EXTENDS SingleFlight

CONSTANTS a, b, c, k1, k2, huge

MCSizeOf == [k \in Keys |-> IF k = huge THEN 4 ELSE 1]

=============================================================================
