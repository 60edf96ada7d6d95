-------------------------- MODULE MCCaptureSwitch --------------------------
\* One camera, two switches between three coils, and the second of two triggers
\* without a frame; of the driver, a queue of one and a handle that is made anew.
EXTENDS CaptureCamera

=============================================================================
