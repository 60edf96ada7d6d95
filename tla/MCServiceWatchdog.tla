-------------------------- MODULE MCServiceWatchdog --------------------------
\* ServiceWatchdog as it stands: its constants are model values and strings.
EXTENDS ServiceWatchdog

=============================================================================
