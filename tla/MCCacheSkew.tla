----------------------------- MODULE MCCacheSkew -----------------------------
(***************************************************************************)
(* Rank 0 moves to a new buffer allocation B for its second call while    *)
(* ranks 1 and 2 keep buffer A and only change the message size.  Each    *)
(* rank decides cold or warm from its own cache: rank 0 misses and runs   *)
(* the collective handshake, ranks 1 and 2 hit and run none.              *)
(***************************************************************************)
EXTENDS MCExecutor

SkewCalls ==
  [r \in 0 .. 2 |-> IF r = 0 THEN << Call("A", "P1", 1), Call("B", "P1", 1) >>
                             ELSE << Call("A", "P1", 1), Call("A", "P1", 2) >>]
=============================================================================
