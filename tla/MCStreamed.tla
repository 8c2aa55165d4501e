----------------------------- MODULE MCStreamed -----------------------------
\* The instance of MCExecutor with each rank's GPU stream.
EXTENDS MCExecutor, StreamedExecutor

\* A cold call then a warm call on the same buffers: the warm path releases
\* the buffer the first kernel reads.
StreamCalls == [r \in 0 .. 2 |-> << Call("A", "P1", 1), Call("A", "P1", 2) >>]
=============================================================================
