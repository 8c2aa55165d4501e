--------------------------- MODULE ExecutorRefinement ---------------------------
(***************************************************************************)
(* Executor (with Communicator and the bootstrap FIFOs) implements        *)
(* ExecuteSpec.  The refinement mapping:                                  *)
(*   done[r]     = call[r] - 1                                            *)
(*   ready[r]    = the context in hand while launchKernel is next         *)
(*   cache[r]    = Executor::Impl::contexts, seen through AbsContext      *)
(*   launched[r] = lastLaunch[r] without the flag                         *)
(*   failed[r]   = the rank's execute() threw                             *)
(* The handshake steps (ExecuteCold, Connect, the memory and semaphore    *)
(* rounds, EndStep) are stuttering steps; FinishChannel and ExecuteWarm   *)
(* are Obtain, ConnectFails is Fail.                                      *)
(*                                                                         *)
(* Built(r, i) is computed from the plan alone: every remote descriptor   *)
(* is the one the peer registers for its own call i, every semaphore's    *)
(* remote half the peer's semaphore of the channel's type.  So the        *)
(* refinement says the FIFO exchange of the cold path binds exactly what  *)
(* a direct hand-over of descriptors would.                               *)
(***************************************************************************)
EXTENDS Executor

\* What the abstract spec sees of a channel: its endpoints and what it is bound to.
AbsChannel(ch) ==
  [peer |-> ch.peer, type |-> ch.type, dstBuf |-> ch.dstBuf,
   sem |-> IF ch.sem = NoMsg THEN NoMsg ELSE ch.sem.remote,
   remote |-> ch.remote, localFlags |-> ch.localFlags]

AbsContext(ctx) ==
  [conns |-> ctx.conns,
   sm |-> [j \in 1 .. Len(ctx.smChannels) |-> AbsChannel(ctx.smChannels[j])],
   proxy |-> [j \in 1 .. Len(ctx.proxyChannels) |-> AbsChannel(ctx.proxyChannels[j])],
   devicePlan |-> ctx.devicePlan]

\* The channels of type ty of call i of rank r, as the plan defines them.
PlannedChannels(r, i, ty) ==
  LET pl    == Calls[r][i].plan
      infos == ChannelInfosOfType(pl, r, ty)
      remoteMem(p, b) ==
        Payload("mem", p, i, b, "none", TransportFlags(ChannelInfosByDstRank(pl, p, b), p), "none")
  IN  [j \in 1 .. Len(infos) |->
         [peer |-> infos[j].dst, type |-> ty, dstBuf |-> infos[j].dstBuf,
          sem |-> Payload("sem", infos[j].dst, i, "none", ty, {}, "none"),
          remote |-> remoteMem(infos[j].dst, infos[j].dstBuf),
          localFlags |-> TransportFlags(infos, r)]]

PlannedContext(r, i) ==
  [conns |-> [p \in ConnectedPeers(Calls[r][i].plan, r) |->
                [local |-> ConnTransport(r, p), remote |-> ConnTransport(p, r)]],
   sm |-> PlannedChannels(r, i, "SM"),
   proxy |-> PlannedChannels(r, i, "PROXY"),
   devicePlan |-> DevicePlanOf(Calls[r][i])]

RelaidContext(ctx, c) == [ctx EXCEPT !.devicePlan = DevicePlanOf(c)]

LegalCall(r, i) ==
  \A p \in ConnectedPeers(Calls[r][i].plan, r) : ConnectionIsLegal(r, p, ConnTransport(r, p))

Abs == INSTANCE ExecuteSpec WITH
         Ranks <- Ranks, Calls <- Calls, KeyOf <- KeyOf,
         Built <- PlannedContext, Relaid <- RelaidContext, Legal <- LegalCall, None <- NoMsg,
         done <- [r \in Ranks |-> call[r] - 1],
         ready <- [r \in Ranks |-> IF pc[r] = "Launch" THEN AbsContext(cur[r]) ELSE NoMsg],
         cache <- [r \in Ranks |-> [k \in DOMAIN contexts[r] |-> AbsContext(contexts[r][k])]],
         launched <- [r \in Ranks |-> IF lastLaunch[r] = NoMsg THEN NoMsg
                                      ELSE [call |-> lastLaunch[r].call, plan |-> lastLaunch[r].plan]],
         failed <- [r \in Ranks |-> pc[r] = "Failed"]

(***************************************************************************)
(* Every behaviour of the Executor's ranks, interleaving the rounds of    *)
(* the cold path over shared tag-0 FIFOs, is a behaviour of ExecuteSpec:  *)
(* each execute() obtains exactly the context its plan defines (or the    *)
(* cached one, re-laid), launches it, and every rank gets through all its *)
(* calls.                                                                 *)
(***************************************************************************)
ImplementsExecuteSpec == Abs!Spec

(***************************************************************************)
(* Where calls may fail (connectOnSetup throws InvalidUsage), every step  *)
(* is still a step of ExecuteSpec: a failing call leaves nothing in the   *)
(* cache and launches nothing, and the calls that succeed obtain the       *)
(* planned or cached context.  Completion is not claimed: the peers of a  *)
(* failed rank may wait for ever.                                         *)
(***************************************************************************)
ImplementsExecuteSafety == Abs!SafetySpec
=============================================================================
