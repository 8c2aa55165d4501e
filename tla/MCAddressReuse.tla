---------------------------- MODULE MCAddressReuse ----------------------------
(***************************************************************************)
(* Every rank runs plan P1 on buffers A, frees them and allocates new     *)
(* ones that come back at the same base addresses with the same           *)
(* capacities (generation 2), and runs P1 again.                          *)
(***************************************************************************)
EXTENDS MCExecutor

ReuseCalls ==
  [r \in 0 .. 2 |-> << CallOn("A", 1, "P1", 1), CallOn("A", 2, "P1", 1) >>]
=============================================================================
