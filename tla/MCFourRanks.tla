----------------------------- MODULE MCFourRanks -----------------------------
(***************************************************************************)
(* Four ranks on two nodes, two per node, so each node uses both IB0 and  *)
(* IB1 and every cross-node pair joins different IB devices.  The plan is *)
(* a ring of PROXY channels across the nodes (1 -> 2 and 3 -> 0), SM       *)
(* channels within each node in one direction (0 -> 1, 2 -> 3), and one   *)
(* PROXY channel back across (2 -> 1) on the same pair as 1 -> 2.  Every   *)
(* rank makes a cold call and then a warm call.                           *)
(***************************************************************************)
EXTENDS MCExecutor

FourHostOf == [r \in 0 .. 3 |-> r \div 2]

FourPlans ==
  [p \in {"R"} |->
     << Ch(0, 1, "SM", "INPUT", "SCRATCH"),
        Ch(2, 3, "SM", "INPUT", "SCRATCH"),
        Ch(1, 2, "PROXY", "SCRATCH", "OUTPUT"),
        Ch(3, 0, "PROXY", "SCRATCH", "OUTPUT"),
        Ch(2, 1, "PROXY", "INPUT", "SCRATCH") >>]

FourCalls == [r \in 0 .. 3 |-> << Call("A", "R", 1), Call("A", "R", 2) >>]
=============================================================================
