---------------------------- MODULE MCPlcWriter ----------------------------
\* Three process ids and three files, one more than can be open at a time; two
\* threads of the bridge, so that one waits for the other; two SDK clients, one
\* more than the manager keeps.
EXTENDS PlcWriter

=============================================================================
