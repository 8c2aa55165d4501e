----------------------------- MODULE MCExecutor -----------------------------
(***************************************************************************)
(* Three ranks, two per node: ranks 0 and 1 share host 0, rank 2 is on   *)
(* host 1, as the block placement rank / nranksPerNode assumes.  Two      *)
(* plans that together have one-way SM and PROXY channels (so unpaired    *)
(* semaphores are needed), channels within and across nodes, all three    *)
(* buffer types, and two channels between the same pair of ranks.  Each   *)
(* rank makes the same three calls: a cold one, a warm one with another   *)
(* message size, and a cold one with the other plan on the same buffers.  *)
(***************************************************************************)
EXTENDS Executor

Ch(s, d, ty, sb, db) == [src |-> s, dst |-> d, type |-> ty, srcBuf |-> sb, dstBuf |-> db]

\* Block placement: host = rank \div 2.
MCHostOf == [r \in 0 .. 2 |-> r \div 2]

MCPlans ==
  [p \in {"P1", "P2"} |->
     IF p = "P1"
     THEN << Ch(0, 1, "SM", "INPUT", "OUTPUT"),
             Ch(1, 2, "PROXY", "INPUT", "SCRATCH"),
             Ch(2, 1, "PROXY", "INPUT", "SCRATCH"),
             Ch(0, 2, "PROXY", "OUTPUT", "OUTPUT") >>
     ELSE << Ch(1, 0, "SM", "OUTPUT", "OUTPUT"),
             Ch(0, 1, "SM", "OUTPUT", "OUTPUT"),
             Ch(0, 1, "SM", "INPUT", "SCRATCH"),
             Ch(2, 0, "PROXY", "INPUT", "SCRATCH") >>]

\* A call on buffers b of allocation generation a (a buffer freed and
\* allocated again at the same base address and capacity gets a new a).
CallOn(b, a, pl, sz) == [buf |-> b, alloc |-> a, plan |-> pl, size |-> sz]
Call(b, pl, sz) == CallOn(b, 1, pl, sz)

\* All ranks make the same sequence of collective calls.
MCCalls ==
  [r \in 0 .. 2 |-> << Call("A", "P1", 1), Call("A", "P1", 2), Call("A", "P2", 1) >>]

\* uint32_t wraps at 2^32 - 1, which TLC cannot represent; no run makes
\* enough launches to reach either bound.
MCFlagMax == 1000
=============================================================================
