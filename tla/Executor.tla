------------------------------- MODULE Executor -------------------------------
(***************************************************************************)
(* Executor::Impl of src/src/communicator.cc (lines 139-499), one per      *)
(* rank, each driving its rank's Communicator.  execute() looks up the    *)
(* ExecutionContext of (buffers, plan) in the rank's own cache.  On a hit *)
(* (warm path) it only re-serializes the device plan for the new message  *)
(* size.  On a miss (cold path) it runs the collective handshake:         *)
(*   one setup() round for the connections,                               *)
(*   one setup() round per connected buffer type for the memory exchange, *)
(*   one setup() round for the semaphores, then builds the channels.      *)
(* Every rank runs its own single control thread; ranks interact only     *)
(* through the bootstrap messages of those rounds.                        *)
(*                                                                         *)
(* A buffer is named by the allocation it belongs to (its base address    *)
(* and capacity, resolved by cuMemGetAddressRange); "size" stands for the *)
(* message sizes and offsets, which are not part of the context key.      *)
(***************************************************************************)
EXTENDS Communicator

CONSTANTS
  NRanksPerNode,  \* bootstrap->getNranksPerNode()
  Plans,          \* plan name -> Seq of channels [src, dst, type, srcBuf, dstBuf]
  Calls,          \* rank -> Seq of execute() calls [buf, plan, size, alloc]
  FlagMax,        \* largest value of the static uint32_t launch flag, 2^32 - 1
  PastEndIB       \* what IBs[i] reads for i >= 8: not a Transport (undefined behaviour)

ASSUME NRanksPerNode \in Nat \ {0}

\* BufferType and ChannelType in enum order, the order of std::set<BufferType>.
BufferTypeOrder == <<"INPUT", "OUTPUT", "SCRATCH">>
ChannelTypeOrder == <<"SM", "PROXY">>

VARIABLES
  pc,          \* where the control thread of each rank is
  call,        \* call[r]: index in Calls[r] of the execute() running or next
  bufIdx,      \* bufIdx[r]: index of the buffer type of the running memory round
  cur,         \* cur[r]: the ExecutionContext being built or launched
  contexts,    \* contexts[r]: Executor::Impl::contexts, key -> ExecutionContext
  lastLaunch,  \* lastLaunch[r]: what the last launchKernel of rank r passed to the kernel
  flag         \* flag[r]: the static launch flag of launchKernel in rank r's process

execVars == <<pc, call, bufIdx, cur, contexts, lastLaunch, flag>>
vars == <<commVars, execVars>>

-----------------------------------------------------------------------------
(***************************************************************************)
(* Queries of the execution plan (ExecutionPlan::Impl, not under src/).   *)
(* A channel connects one src to one dst; its connectedPeers as seen from *)
(* rank r is the other end.                                               *)
(***************************************************************************)
PeerOf(c, r) == IF c.src = r THEN c.dst ELSE c.src
PeersOf(infos, r) == [i \in 1 .. Len(infos) |-> PeerOf(infos[i], r)]
SortedPeers(S) == SetToSortSeq(S, <)

\* getChannelInfos(rank, channelType)
ChannelInfosOfType(pl, r, ty) ==
  SelectSeq(Plans[pl], LAMBDA c : c.src = r /\ c.type = ty)

\* getChannelInfos(rank, bufferType): r's channels into its peers' buffer b
ChannelInfosOfBuffer(pl, r, b) ==
  SelectSeq(Plans[pl], LAMBDA c : c.src = r /\ c.dstBuf = b)

\* getChannelInfosByDstRank(rank, bufferType): the peers' channels into r's buffer b
ChannelInfosByDstRank(pl, r, b) ==
  SelectSeq(Plans[pl], LAMBDA c : c.dst = r /\ c.dstBuf = b)

\* getConnectedPeers(rank)
ConnectedPeers(pl, r) ==
  {PeerOf(c, r) : c \in {c \in Range(Plans[pl]) : r \in {c.src, c.dst}}}

\* getConnectedBufferTypes(rank): the buffer types rank r exchanges
ConnectedBufferTypes(pl, r) ==
  SelectSeq(BufferTypeOrder, LAMBDA b : ChannelInfosOfBuffer(pl, r, b) # <<>>
                                        \/ ChannelInfosByDstRank(pl, r, b) # <<>>)

ChannelCount(pl, r, p, ty) ==
  Len(SelectSeq(Plans[pl], LAMBDA c : c.src = r /\ c.dst = p /\ c.type = ty))

\* getUnpairedChannelInfos(rank, nranks, channelType): one entry for each
\* channel a peer has to r beyond the channels r has to that peer.
UnpairedPeers(pl, r, ty) ==
  FlattenSeq([i \in 1 .. NRanks |->
                LET p == i - 1
                    d == IF p # r /\ ChannelCount(pl, r, p, ty) < ChannelCount(pl, p, r, ty)
                         THEN ChannelCount(pl, p, r, ty) - ChannelCount(pl, r, p, ty)
                         ELSE 0
                IN  [k \in 1 .. d |-> p]])

-----------------------------------------------------------------------------
\* inSameNode
InSameNode(r1, r2) == r1 \div NRanksPerNode = r2 \div NRanksPerNode

\* IBs[rank % nranksPerNode]: the array has 8 entries and the index is not checked.
RankIB(r) ==
  IF r % NRanksPerNode < Len(IBs) THEN IBs[(r % NRanksPerNode) + 1] ELSE PastEndIB

\* The transport setupConnections picks for a peer.
ConnTransport(r, p) == IF InSameNode(r, p) THEN "CudaIpc" ELSE RankIB(r)

\* Mistake kept for checking: flags from the peer's IB device, IBs[peer % nranksPerNode].
TransportFlagsPeerIB(infos, r) ==
  UNION {IF infos[i].type = "SM" THEN {"CudaIpc"}
         ELSE {IF InSameNode(r, PeerOf(infos[i], r)) THEN "CudaIpc"
               ELSE RankIB(PeerOf(infos[i], r))} : i \in 1 .. Len(infos)}

\* getTransportFlags(infos, rank)
TransportFlags(infos, r) ==
  UNION {IF infos[i].type = "SM" THEN {"CudaIpc"}
         ELSE {ConnTransport(r, PeerOf(infos[i], r))} : i \in 1 .. Len(infos)}

\* A bootstrap payload: a serialized descriptor or an IB hello of rank owner.
Payload(kind, owner, c, buf, type, flags, transport) ==
  [kind |-> kind, owner |-> owner, call |-> c, buf |-> buf, type |-> type,
   flags |-> flags, transport |-> transport]

Expect(kind, buf, type) == [kind |-> kind, buf |-> buf, type |-> type]

\* unordered_map::operator[] and vector::operator[]: a missing entry is an empty value.
Lookup(f, k) == IF k \in DOMAIN f THEN f[k] ELSE NoMsg

CallOf(r) == Calls[r][call[r]]
CurPlan(r) == CallOf(r).plan

\* ExecutionContextKey: buffer allocations and plan name, not the message size.
KeyOf(c) == <<c.buf, c.plan>>

\* What setupDeviceExecutionPlan serializes: the plan as loaded for this message size.
DevicePlanOf(c) == [plan |-> c.plan, size |-> c.size]

NewContext ==
  [conns |-> [p \in {} |-> NoMsg], mems |-> [k \in {} |-> NoMsg],
   smSems |-> <<>>, proxySems |-> <<>>, smChannels |-> <<>>, proxyChannels |-> <<>>,
   devicePlan |-> NoMsg, proxyStarted |-> FALSE]

-----------------------------------------------------------------------------
Init ==
  /\ CommInit
  /\ pc = [r \in Ranks |-> "Idle"]
  /\ call = [r \in Ranks |-> 1]
  /\ bufIdx = [r \in Ranks |-> 0]
  /\ cur = [r \in Ranks |-> NewContext]
  /\ contexts = [r \in Ranks |-> [k \in {} |-> NewContext]]
  /\ lastLaunch = [r \in Ranks |-> NoMsg]
  /\ flag = [r \in Ranks |-> 0]

\* Mistake kept for checking: the warm path launches the device plan cached by the cold path.
ExecuteWarmStalePlan(r) ==
  /\ pc[r] = "Idle"
  /\ call[r] <= Len(Calls[r])
  /\ KeyOf(CallOf(r)) \in DOMAIN contexts[r]
  /\ cur' = [cur EXCEPT ![r] = contexts[r][KeyOf(CallOf(r))]]
  /\ pc' = [pc EXCEPT ![r] = "Launch"]
  /\ UNCHANGED <<commVars, call, bufIdx, contexts, lastLaunch, flag>>

\* execute() on a cached key: operationsReset, lightLoadExecutionPlan and a
\* fresh device copy of the re-serialized plan; connections, memories and
\* channels are kept.
ExecuteWarm(r) ==
  /\ pc[r] = "Idle"
  /\ call[r] <= Len(Calls[r])
  /\ KeyOf(CallOf(r)) \in DOMAIN contexts[r]
  /\ LET key == KeyOf(CallOf(r))
         ctx == [contexts[r][key] EXCEPT !.devicePlan = DevicePlanOf(CallOf(r))]
     IN  /\ contexts' = [contexts EXCEPT ![r] = [@ EXCEPT ![key] = ctx]]
         /\ cur' = [cur EXCEPT ![r] = ctx]
  /\ pc' = [pc EXCEPT ![r] = "Launch"]
  /\ UNCHANGED <<commVars, call, bufIdx, lastLaunch, flag>>

\* Mistake kept for checking: the cold path takes contexts[key] (operator[],
\* which inserts an empty context) before building it.
ExecuteColdEarlyInsert(r) ==
  /\ pc[r] = "Idle"
  /\ call[r] <= Len(Calls[r])
  /\ KeyOf(CallOf(r)) \notin DOMAIN contexts[r]
  /\ cur' = [cur EXCEPT ![r] = NewContext]
  /\ contexts' = [contexts EXCEPT ![r] = (KeyOf(CallOf(r)) :> NewContext) @@ @]
  /\ pc' = [pc EXCEPT ![r] = "Connect"]
  /\ UNCHANGED <<commVars, call, bufIdx, lastLaunch, flag>>

\* execute() on a key not in the cache: reset and load the plan, allocate
\* the scratch buffer and a new ProxyService, then setupConnections.
ExecuteCold(r) ==
  /\ pc[r] = "Idle"
  /\ call[r] <= Len(Calls[r])
  /\ KeyOf(CallOf(r)) \notin DOMAIN contexts[r]
  /\ cur' = [cur EXCEPT ![r] = NewContext]
  /\ pc' = [pc EXCEPT ![r] = "Connect"]
  /\ UNCHANGED <<commVars, call, bufIdx, contexts, lastLaunch, flag>>

\* The connectOnSetup requests of setupConnections, one per connected peer in order.
ConnectRequests(r) ==
  LET peers == SortedPeers(ConnectedPeers(CurPlan(r), r))
  IN  [i \in 1 .. Len(peers) |-> [peer |-> peers[i], transport |-> ConnTransport(r, peers[i])]]

ConnectItems(r, reqs) ==
  [i \in 1 .. Len(reqs) |->
     ConnectionSetuppable(reqs[i].peer, reqs[i].transport,
                          Payload("conn", r, call[r], "none", "none", {}, reqs[i].transport))]

IllegalRequests(r, reqs) ==
  {i \in 1 .. Len(reqs) : ~ConnectionIsLegal(r, reqs[i].peer, reqs[i].transport)}

\* setupConnections: every connectOnSetup, then setup().
Connect(r) ==
  /\ pc[r] = "Connect"
  /\ LET reqs == ConnectRequests(r)
     IN  /\ IllegalRequests(r, reqs) = {}
         /\ BeginSetup(r, ConnectItems(r, reqs))
         /\ ibContexts' = [ibContexts EXCEPT ![r] =
                             IbContextsAfter(@, {reqs[i].transport : i \in 1 .. Len(reqs)})]
         /\ nConnections' = [nConnections EXCEPT ![r] = @ + Len(reqs)]
  /\ pc' = [pc EXCEPT ![r] = "ConnectWait"]
  /\ UNCHANGED <<call, bufIdx, cur, contexts, lastLaunch, flag>>

\* connectOnSetup throws InvalidUsage at the first cross-host CudaIpc
\* request; the connections queued before it stay queued, nothing is sent,
\* and execute() fails.
ConnectFails(r) ==
  /\ pc[r] = "Connect"
  /\ LET reqs == ConnectRequests(r)
         bad  == IllegalRequests(r, reqs)
         done == SubSeq(reqs, 1, Min(bad) - 1)
     IN  /\ bad # {}
         /\ toSetup' = [toSetup EXCEPT ![r] = @ \o ConnectItems(r, done)]
         /\ ibContexts' = [ibContexts EXCEPT ![r] =
                             IbContextsAfter(@, {done[i].transport : i \in 1 .. Len(done)})]
         /\ nConnections' = [nConnections EXCEPT ![r] = @ + Len(done)]
  /\ pc' = [pc EXCEPT ![r] = "Failed"]
  /\ UNCHANGED <<mailbox, got, call, bufIdx, cur, contexts, lastLaunch, flag>>

\* One receiving endSetup of whichever setup() round rank r is in.
EndStep(r) ==
  /\ pc[r] \in {"ConnectWait", "MemoryWait", "ChannelWait"}
  /\ EndSetup(r)
  /\ UNCHANGED execVars

\* Mistake kept for checking: the loop over buffer types runs one past the end.
ToMemoryRoundPastEnd(r, i) ==
  IF i <= Len(ConnectedBufferTypes(CurPlan(r), r)) + 1
  THEN /\ pc' = [pc EXCEPT ![r] = "Memory"]
       /\ bufIdx' = [bufIdx EXCEPT ![r] = i]
  ELSE /\ pc' = [pc EXCEPT ![r] = "Channel"]
       /\ bufIdx' = [bufIdx EXCEPT ![r] = 0]

\* After the memory rounds (or none) comes setupChannels.
ToMemoryRound(r, i) ==
  IF i <= Len(ConnectedBufferTypes(CurPlan(r), r))
  THEN /\ pc' = [pc EXCEPT ![r] = "Memory"]
       /\ bufIdx' = [bufIdx EXCEPT ![r] = i]
  ELSE /\ pc' = [pc EXCEPT ![r] = "Channel"]
       /\ bufIdx' = [bufIdx EXCEPT ![r] = 0]

\* setupConnections, after setup(): context.connections[peer] = future.get().
\* An IBConnection has learnt its peer's transport from the peer's hello.
FinishConnect(r) ==
  /\ pc[r] = "ConnectWait"
  /\ SetupComplete(r)
  /\ LET reqs == ConnectRequests(r)
         ib   == SelectSeq(reqs, LAMBDA q : q.transport # "CudaIpc")
         remoteOf(p) == IF ConnTransport(r, p) = "CudaIpc" THEN "CudaIpc"
                        ELSE got[r][CHOOSE i \in 1 .. Len(ib) : ib[i].peer = p].transport
     IN  cur' = [cur EXCEPT ![r].conns =
                   [p \in ConnectedPeers(CurPlan(r), r) |->
                      [local |-> ConnTransport(r, p), remote |-> remoteOf(p)]]]
  /\ ClearSetup(r)
  /\ ToMemoryRound(r, 1)
  /\ UNCHANGED <<mailbox, ibContexts, nConnections, call, contexts, lastLaunch, flag>>

\* The buffer type of rank r's running memory round.
RoundBuffer(r) == ConnectedBufferTypes(CurPlan(r), r)[bufIdx[r]]

\* Mistake kept for checking: receiving from the peers that write into r's buffer b.
MemoryRecvPeersFromWriters(r, b) ==
  SortedPeers(Range(PeersOf(ChannelInfosByDstRank(CurPlan(r), r, b), r)))

\* The peers rank r receives buffer b's descriptor from, in order.
MemoryRecvPeers(r, b) == SortedPeers(Range(PeersOf(ChannelInfosOfBuffer(CurPlan(r), r, b), r)))

\* Mistake kept for checking: the buffer is registered with the transports
\* of r's own channels into its peers' buffer b, not of the channels into it.
RegisteredMemOutgoing(r, b) ==
  Payload("mem", r, call[r], b, "none", TransportFlags(ChannelInfosOfBuffer(CurPlan(r), r, b), r), "none")

\* registerMemory(buffer b, getTransportFlags(getChannelInfosByDstRank(rank, b))).
RegisteredMem(r, b) ==
  Payload("mem", r, call[r], b, "none", TransportFlags(ChannelInfosByDstRank(CurPlan(r), r, b), r), "none")

\* setupRegisteredMemories, one buffer type: registerMemory with the
\* transports the peers writing into it need, sendMemoryOnSetup to each of
\* them, recvMemoryOnSetup from each peer r writes into, then setup().
Memory(r) ==
  /\ pc[r] = "Memory"
  /\ LET b      == RoundBuffer(r)
         byDst  == ChannelInfosByDstRank(CurPlan(r), r, b)
         mem    == RegisteredMem(r, b)
         sendTo == SortedPeers(Range(PeersOf(byDst, r)))
         from   == MemoryRecvPeers(r, b)
     IN  BeginSetup(r, [i \in 1 .. Len(sendTo) |-> MemorySender(sendTo[i], mem)]
                       \o [i \in 1 .. Len(from) |-> MemoryReceiver(from[i], Expect("mem", b, "none"))])
  /\ pc' = [pc EXCEPT ![r] = "MemoryWait"]
  /\ UNCHANGED <<ibContexts, nConnections, call, bufIdx, cur, contexts, lastLaunch, flag>>

\* setupRegisteredMemories, after setup(): registeredMemories[{b, peer}] = future.get().
FinishMemory(r) ==
  /\ pc[r] = "MemoryWait"
  /\ SetupComplete(r)
  /\ LET b    == RoundBuffer(r)
         from == MemoryRecvPeers(r, b)
         recd == [k \in {b} \X Range(from) |-> got[r][CHOOSE i \in 1 .. Len(from) : from[i] = k[2]]]
     IN  cur' = [cur EXCEPT ![r].mems = recd @@ @]
  /\ ClearSetup(r)
  /\ ToMemoryRound(r, bufIdx[r] + 1)
  /\ UNCHANGED <<mailbox, ibContexts, nConnections, call, contexts, lastLaunch, flag>>

\* Mistake kept for checking: no semaphores for unpaired channels, the
\* hang the comment in setupChannels describes.
SemaphoresPairedOnly(r) ==
  LET pl == CurPlan(r)
      ofType(ty) == LET peers == PeersOf(ChannelInfosOfType(pl, r, ty), r)
                    IN  [i \in 1 .. Len(peers) |-> [peer |-> peers[i], type |-> ty]]
  IN  ofType("SM") \o ofType("PROXY")

\* The semaphores setupChannels builds, in order: for SM then PROXY, one per
\* channel of that type and one per unpaired channel.
Semaphores(r) ==
  LET pl == CurPlan(r)
      ofType(ty) == LET peers == PeersOf(ChannelInfosOfType(pl, r, ty), r) \o UnpairedPeers(pl, r, ty)
                    IN  [i \in 1 .. Len(peers) |-> [peer |-> peers[i], type |-> ty]]
  IN  ofType("SM") \o ofType("PROXY")

\* A semaphore constructor (SmDevice2DeviceSemaphore, or
\* ProxyService::buildAndAddSemaphore) queues a send of its own inbound
\* flag's memory and a receive of the peer's.
SemaphoreItems(r) ==
  LET sems == Semaphores(r)
  IN  FlattenSeq([i \in 1 .. Len(sems) |->
        << MemorySender(sems[i].peer, Payload("sem", r, call[r], "none", sems[i].type, {}, "none")),
           MemoryReceiver(sems[i].peer, Expect("sem", "none", sems[i].type)) >>])

\* setupChannels, first half: every semaphore, then one setup().
Channel(r) ==
  /\ pc[r] = "Channel"
  /\ BeginSetup(r, SemaphoreItems(r))
  /\ pc' = [pc EXCEPT ![r] = "ChannelWait"]
  /\ UNCHANGED <<ibContexts, nConnections, call, bufIdx, cur, contexts, lastLaunch, flag>>

\* Mistake kept for checking: one semaphore index for both channel types.
ChannelsOfSharedIndex(r, ctx, ty, sems) ==
  LET infos == ChannelInfosOfType(CurPlan(r), r, ty)
      base  == IF ty = "PROXY" THEN Len(ChannelInfosOfType(CurPlan(r), r, "SM")) ELSE 0
  IN  [i \in 1 .. Len(infos) |->
         [peer |-> infos[i].dst, type |-> ty, dstBuf |-> infos[i].dstBuf,
          sem |-> Lookup(sems, base + i),
          remote |-> Lookup(ctx.mems, <<infos[i].dstBuf, infos[i].dst>>),
          localFlags |-> TransportFlags(infos, r)]]

\* The channels of type ty: the i-th channel info of that type is bound to
\* the i-th semaphore of that type (index restarts at 0 for each type), to
\* the peer's registered memory of its dstBufferType and to a local
\* registration of its source buffer.
ChannelsOf(r, ctx, ty, sems) ==
  LET infos == ChannelInfosOfType(CurPlan(r), r, ty)
  IN  [i \in 1 .. Len(infos) |->
         [peer |-> infos[i].dst, type |-> ty, dstBuf |-> infos[i].dstBuf,
          sem |-> Lookup(sems, i),
          remote |-> Lookup(ctx.mems, <<infos[i].dstBuf, infos[i].dst>>),
          localFlags |-> TransportFlags(infos, r)]]

\* setupChannels, after setup(): the semaphores and channels; then
\* setupDeviceExecutionPlan, its device copy, startProxy, and the context
\* inserted in the cache.
FinishChannel(r) ==
  /\ pc[r] = "ChannelWait"
  /\ SetupComplete(r)
  /\ LET sems  == Semaphores(r)
         bound == [i \in 1 .. Len(sems) |->
                    [peer |-> sems[i].peer, type |-> sems[i].type, remote |-> got[r][i]]]
         sm    == SelectSeq(bound, LAMBDA s : s.type = "SM")
         proxy == SelectSeq(bound, LAMBDA s : s.type = "PROXY")
         ctx   == [cur[r] EXCEPT !.smSems = sm, !.proxySems = proxy,
                                 !.smChannels = ChannelsOf(r, cur[r], "SM", sm),
                                 !.proxyChannels = ChannelsOf(r, cur[r], "PROXY", proxy),
                                 !.devicePlan = DevicePlanOf(CallOf(r)),
                                 !.proxyStarted = TRUE]
     IN  /\ cur' = [cur EXCEPT ![r] = ctx]
         /\ contexts' = [contexts EXCEPT ![r] = (KeyOf(CallOf(r)) :> ctx) @@ @]
  /\ ClearSetup(r)
  /\ pc' = [pc EXCEPT ![r] = "Launch"]
  /\ UNCHANGED <<mailbox, ibContexts, nConnections, call, bufIdx, lastLaunch, flag>>

\* launchKernel: the kernel gets the device plan and ++flag; execute() returns.
Launch(r) ==
  /\ pc[r] = "Launch"
  /\ LET f == (flag[r] + 1) % (FlagMax + 1)
     IN  /\ flag' = [flag EXCEPT ![r] = f]
         /\ lastLaunch' = [lastLaunch EXCEPT ![r] =
                             [call |-> call[r], plan |-> cur[r].devicePlan, flag |-> f]]
  /\ call' = [call EXCEPT ![r] = @ + 1]
  /\ pc' = [pc EXCEPT ![r] = "Idle"]
  /\ UNCHANGED <<commVars, bufIdx, cur, contexts>>

\* Every execute() of every rank has returned.
Finished == \A r \in Ranks : pc[r] = "Idle" /\ call[r] > Len(Calls[r])

\* The program has made all its calls; nothing happens any more.
Terminated == Finished /\ UNCHANGED vars

RankStep(r) ==
  \/ ExecuteWarm(r) \/ ExecuteCold(r)
  \/ Connect(r) \/ ConnectFails(r) \/ FinishConnect(r)
  \/ Memory(r) \/ FinishMemory(r)
  \/ Channel(r) \/ FinishChannel(r)
  \/ EndStep(r)
  \/ Launch(r)

Next == (\E r \in Ranks : RankStep(r)) \/ Terminated

\* Each rank's control thread keeps running; a blocked receive returns once
\* its message is in the bootstrap FIFO, which only that rank drains.
Spec == Init /\ [][Next]_vars /\ \A r \in Ranks : WF_vars(RankStep(r))

-----------------------------------------------------------------------------
Payloads ==
  [kind : {"mem", "sem", "conn"}, owner : Ranks, call : Nat,
   buf : Range(BufferTypeOrder) \cup {"none"}, type : Range(ChannelTypeOrder) \cup {"none"},
   flags : SUBSET Transports, transport : Transports \cup {"none"}]

TypeOK ==
  /\ CommTypeOK(Payloads, [kind : {"mem", "sem", "conn"},
                           buf : Range(BufferTypeOrder) \cup {"none"},
                           type : Range(ChannelTypeOrder) \cup {"none"}])
  /\ pc \in [Ranks -> {"Idle", "Connect", "ConnectWait", "Memory", "MemoryWait",
                       "Channel", "ChannelWait", "Launch", "Failed"}]
  /\ \A r \in Ranks : call[r] \in 1 .. Len(Calls[r]) + 1
  /\ \A r \in Ranks : DOMAIN contexts[r] \subseteq {KeyOf(c) : c \in Range(Calls[r])}
  /\ flag \in [Ranks -> 0 .. FlagMax]
  /\ \A r \in Ranks : pc[r] \in {"Memory", "MemoryWait"} =>
        bufIdx[r] \in 1 .. Len(ConnectedBufferTypes(CurPlan(r), r))

(***************************************************************************)
(* Every descriptor an endSetup has received is the one it awaits: of the *)
(* awaited kind, buffer type and channel type, and sent by its peer for   *)
(* the same execute() call.  All rounds of all contexts share tag 0, so   *)
(* this holds only if every pair of ranks queues matching sends and       *)
(* receives in the same order, round after round.                         *)
(***************************************************************************)
ExchangeMatched ==
  \A r \in Ranks : \A i \in 1 .. Len(got[r]) :
    LET e == Receivers(r)[i].recv
        m == got[r][i]
    IN  /\ m.kind = e.kind /\ m.buf = e.buf /\ m.type = e.type
        /\ m.call = call[r]

\* The channels of every cached context of rank r.
CachedChannels(r) ==
  UNION {Range(contexts[r][k].smChannels) \cup Range(contexts[r][k].proxyChannels) :
           k \in DOMAIN contexts[r]}

(***************************************************************************)
(* Every channel setupChannels built is bound to a semaphore of its own   *)
(* type towards its own peer, whose remote half is that peer's, and to    *)
(* the peer's registered memory of the channel's dstBufferType.           *)
(***************************************************************************)
ChannelsWellBound ==
  \A r \in Ranks : \A ch \in CachedChannels(r) :
    /\ ch.sem # NoMsg
    /\ ch.sem.peer = ch.peer /\ ch.sem.type = ch.type /\ ch.sem.remote.owner = ch.peer
    /\ ch.remote # NoMsg
    /\ ch.remote.owner = ch.peer /\ ch.remote.buf = ch.dstBuf

(***************************************************************************)
(* Every channel can move data over its connection: the local source      *)
(* registration has the transport of this rank's end of the connection,   *)
(* and the peer registered the destination buffer with the transport of   *)
(* the peer's end (the one the IB hello announced).                       *)
(***************************************************************************)
ChannelMemoryReachable ==
  \A r \in Ranks : \A k \in DOMAIN contexts[r] :
    \A ch \in Range(contexts[r][k].smChannels) \cup Range(contexts[r][k].proxyChannels) :
      LET conn == contexts[r][k].conns[ch.peer]
      IN  /\ conn.local \in ch.localFlags
          /\ ch.remote # NoMsg => conn.remote \in ch.remote.flags

(***************************************************************************)
(* The kernel of every execute() runs the plan loaded for that call's     *)
(* plan and message size, also when the context came from the cache.      *)
(***************************************************************************)
LaunchMatchesCall ==
  \A r \in Ranks :
    lastLaunch[r] # NoMsg => lastLaunch[r].plan = DevicePlanOf(Calls[r][lastLaunch[r].call])

(***************************************************************************)
(* Every rank eventually returns from all its execute() calls: no setup() *)
(* round waits forever for a descriptor its peer never sends.             *)
(***************************************************************************)
AllCallsComplete == <>Finished


(***************************************************************************)
(* Spec section 4.2: a context is reused only while its descriptors are   *)
(* still valid.  When rank r launches call i, every channel's remote      *)
(* INPUT or OUTPUT descriptor was registered over the allocation the peer *)
(* uses in its own call i (the ranks' i-th calls are one collective).     *)
(* The cache key holds base addresses and capacities only, so a buffer    *)
(* freed and allocated again at the same address hits the cache.          *)
(***************************************************************************)
RemoteMemoryCurrent ==
  \A r \in Ranks : pc[r] = "Launch" =>
    \A ch \in Range(cur[r].smChannels) \cup Range(cur[r].proxyChannels) :
      ch.remote # NoMsg /\ ch.dstBuf # "SCRATCH" =>
        Calls[ch.peer][ch.remote.call].alloc = Calls[ch.peer][call[r]].alloc

(***************************************************************************)
(* Spec section 4.2: a rank on another host is reached over "one of       *)
(* several RDMA transport identifiers chosen deterministically from this  *)
(* rank modulo ranks-per-node".  Every connection setupConnections        *)
(* requests names CudaIpc or one of IB0 .. IB7.                           *)
(***************************************************************************)
ConnectTransportsSupported ==
  \A r \in Ranks : pc[r] = "Connect" =>
    \A i \in 1 .. Len(ConnectRequests(r)) : ConnectRequests(r)[i].transport \in Transports

(***************************************************************************)
(* Spec section 4.2: the kernel gets a monotonically incrementing launch  *)
(* flag, which it uses to tell this launch's flags and packets from those *)
(* a previous launch left in the same buffers.  launchKernel increments a *)
(* static uint32_t.                                                       *)
(***************************************************************************)
LaunchFlagIncreasing ==
  [][\A r \in Ranks : flag'[r] # flag[r] => flag'[r] > flag[r]]_vars

(***************************************************************************)
(* Spec section 7: a half-built ExecutionContext must never be reused.    *)
(* Every context in a rank's cache is complete: connected to every peer   *)
(* its plan names, one channel per channel info of the rank, its device   *)
(* plan serialized and its proxy started, even when an execute() failed   *)
(* in the middle of the cold path.                                        *)
(***************************************************************************)
CachedContextsComplete ==
  \A r \in Ranks : \A k \in DOMAIN contexts[r] :
    LET ctx == contexts[r][k]
        pl  == k[2]
    IN  /\ DOMAIN ctx.conns = ConnectedPeers(pl, r)
        /\ Len(ctx.smChannels) = Len(ChannelInfosOfType(pl, r, "SM"))
        /\ Len(ctx.proxyChannels) = Len(ChannelInfosOfType(pl, r, "PROXY"))
        /\ ctx.devicePlan # NoMsg /\ ctx.proxyStarted

=============================================================================
