------------------------ MODULE MCPlacementRefinement ------------------------
\* The placement instance, where connectOnSetup fails, checked against ExecuteSpec.
EXTENDS MCPlacement, ExecutorRefinement
=============================================================================
