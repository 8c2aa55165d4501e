---------------------------- MODULE MCRefinement ----------------------------
\* The instance of MCExecutor, checked against ExecuteSpec.
EXTENDS MCExecutor, ExecutorRefinement
=============================================================================
