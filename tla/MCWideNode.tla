----------------------------- MODULE MCWideNode -----------------------------
(***************************************************************************)
(* Nine ranks per node, ten ranks: rank 8 is on node 0 and rank 9 on      *)
(* node 1, joined by one PROXY channel 8 -> 9.  The other ranks make no   *)
(* call.  Rank 8 picks IBs[8 % 9], one past the end of the array.         *)
(***************************************************************************)
EXTENDS MCExecutor

WideHostOf == [r \in 0 .. 9 |-> r \div 9]
WidePlans == [p \in {"W"} |-> << Ch(8, 9, "PROXY", "INPUT", "SCRATCH") >>]
WideCalls == [r \in 0 .. 9 |-> IF r \in {8, 9} THEN << Call("A", "W", 1) >> ELSE << >>]
=============================================================================
