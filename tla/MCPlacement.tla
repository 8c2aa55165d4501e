----------------------------- MODULE MCPlacement -----------------------------
(***************************************************************************)
(* A launch that tells the library two ranks per node while every rank    *)
(* runs on a host of its own (one GPU per machine).  The first call's     *)
(* plan only has channels between ranks the arithmetic puts on different  *)
(* nodes, so it runs over IB and succeeds; the second call's plan has a   *)
(* channel between ranks 0 and 1, which rank / nranksPerNode puts on one  *)
(* node although their host hashes differ.                                *)
(***************************************************************************)
EXTENDS MCExecutor

\* Every rank on its own host.
OwnHostOf == [r \in 0 .. 2 |-> r]

PlacementPlans ==
  [p \in {"Q1", "P1"} |->
     IF p = "Q1"
     THEN << Ch(0, 2, "PROXY", "INPUT", "OUTPUT"),
             Ch(2, 1, "PROXY", "INPUT", "OUTPUT") >>
     ELSE MCPlans["P1"]]

PlacementCalls ==
  [r \in 0 .. 2 |-> << Call("A", "Q1", 1), Call("A", "P1", 1) >>]
=============================================================================
