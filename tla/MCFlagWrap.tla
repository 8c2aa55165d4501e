----------------------------- MODULE MCFlagWrap -----------------------------
(***************************************************************************)
(* The launch flag with its width reduced from 32 to 2 bits, so that the  *)
(* wrap of ++flag after 2^w launches is reached: every rank makes four    *)
(* calls on the same buffers and plan (one cold, three warm).             *)
(***************************************************************************)
EXTENDS MCExecutor

FlagWidth == 2
WrapFlagMax == 2^FlagWidth - 1

WrapCalls ==
  [r \in 0 .. 2 |-> << Call("A", "P1", 1), Call("A", "P1", 2),
                       Call("A", "P1", 1), Call("A", "P1", 2) >>]
=============================================================================
