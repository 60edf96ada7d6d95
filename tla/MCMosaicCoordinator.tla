------------------------- MODULE MCMosaicCoordinator -------------------------
\* The scenarios of the coordinator: re-detections start with a table whose oldest
\* coil is far enough behind to have its record cleared.
EXTENDS MosaicCoordinator

CoordinatorScenarios ==
  {[recorded |-> 2, may |-> {"kill", "partial", "noFiles"}],
   [recorded |-> 3, may |-> {"kill", "redetect"}],
   [recorded |-> 2, may |-> {"kill", "dbFails"}]}

Redetection == {[recorded |-> 0, may |-> {"redetect"}]}

=============================================================================
