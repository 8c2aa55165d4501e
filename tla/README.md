# TLA+ models of the MSCCL++ Executor and Communicator control plane

This directory has TLA+ models of `src/src/communicator.cc`. That file holds
`Communicator::Impl` and the `Executor` of mscclpp. The models cover the
collective setup handshake that the Executor runs over the bootstrap channel,
the per-rank cache of execution contexts, and kernel launch. Each definition is
translated from the source. `PROJECT.json` maps each one to the lines it models.

## 1. The system

| Part | Code | State | Operations |
|---|---|---|---|
| Communicator | `Communicator::Impl`, lines 15-137 | `rankToHash_`, `toSetup_`, `connections_`, `ibContexts_` | `connectOnSetup`, `sendMemoryOnSetup`, `recvMemoryOnSetup`, `onSetup`, `setup` |
| Bootstrap (external) | `BaseBootstrap` | messages in flight per (src, dst, tag) | `send`, `recv` (blocks), `allGather` |
| Executor | `Executor::Impl`, lines 209-477 | `contexts` (key to `ExecutionContext`), static launch `flag` | `setupExecutionContext` (warm or cold), `setupConnections`, `setupRegisteredMemories`, `setupChannels`, `setupDeviceExecutionPlan`, `launchKernel` |
| `execute()` | lines 481-495 | none | address resolution, then setup, then launch |
| Execution plan (not in src/) | `ExecutionPlan::Impl` | channel infos per rank | the queries `getChannelInfos`, `getConnectedPeers`, `getConnectedBufferTypes`, `getUnpairedChannelInfos` |

How the parts interact:

- Each rank has one Communicator and one Executor.
- A cold `execute()` runs a sequence of collective rounds. Each round queues
  Setuppables and calls `setup()`. `setup()` runs every `beginSetup` (sends),
  then every `endSetup` (blocking receives), then clears the queue.
- The rounds are:
  1. one round of connections (an IB connection exchanges a hello both ways, a
     CudaIpc connection exchanges nothing);
  2. one round per connected buffer type, in the order INPUT, OUTPUT, SCRATCH.
     The rank sends its memory to the ranks that write into it and receives the
     memories of the ranks it writes to;
  3. one round of semaphores, SM first and then PROXY. Each type takes its
     channel infos, then its unpaired infos. Each semaphore sends once and
     receives once.
- Every message of every round uses tag 0. So all rounds and all contexts share
  one FIFO per pair of ranks.
- A warm `execute()`, where the key is already cached, is local: it only
  re-serializes the device plan.

What is hard in this code, and what the models aim at:

- Ranks interleave. A rank may be several rounds, or a whole call, ahead of its
  peer. Its messages then sit in the shared FIFO.
- A one-way channel needs an unpaired semaphore on the other side.
- The semaphore index restarts for each channel type.
- `operator[]` on `registeredMemories` silently creates a default entry.
- Transport flags are computed on one side and used by the other.
- `connectOnSetup` can throw after part of the round is queued.
- The cache hit is decided per rank, but the cold path is collective.
- A cached device plan can be stale.

## 2. Modules

| Module | Models | Composes |
|---|---|---|
| `Communicator.tla` | `Communicator::Impl` of every rank, and the bootstrap as reliable FIFOs | — |
| `Executor.tla` | `Executor::Impl` of every rank, `execute()`, the plan queries | `EXTENDS Communicator` |
| `MCExecutor.tla` | 3 ranks, 2 per node, block placement, plans P1 and P2, 3 calls per rank | `EXTENDS Executor` |
| `MCPlacement.tla` | the same ranks, each on its own host | `EXTENDS MCExecutor` |
| `MCCacheSkew.tla` | rank 0 moves to new buffers while its peers keep theirs | `EXTENDS MCExecutor` |
| `ExecuteSpec.tla` | the contract of `execute()`: each call obtains its context in one atomic step, then launches | — |
| `ExecutorRefinement.tla` | the refinement mapping from Executor onto ExecuteSpec | `EXTENDS Executor`, `INSTANCE ExecuteSpec WITH ...` |
| `MCRefinement.tla` | the handshake instance, checked against ExecuteSpec | `EXTENDS MCExecutor, ExecutorRefinement` |
| `MCFlagWrap.tla` | four launches per rank with a 2-bit launch flag | `EXTENDS MCExecutor` |
| `MCPlacementRefinement.tla` | the placement instance, checked against ExecuteSpec's safety part | `EXTENDS MCPlacement, ExecutorRefinement` |
| `MCFourRanks.tla` | 4 ranks on 2 nodes: a ring of cross-node PROXY channels, one-way SM channels | `EXTENDS MCExecutor` |
| `MCAddressReuse.tla` | every rank reallocates its buffers at the same addresses between two calls | `EXTENDS MCExecutor` |
| `StreamedExecutor.tla` | the Executor with each rank's GPU stream, and the device plan buffers the kernels read | `EXTENDS Executor` |
| `MCStreamed.tla` | 3 ranks with streams, two calls on P1 per rank (`StreamCalls`) | `EXTENDS MCExecutor, StreamedExecutor` |
| `MCWideNode.tla` | 10 ranks, 9 per node, one PROXY channel from rank 8 to rank 9 | `EXTENDS MCExecutor` |

### Communicator

The variables are:

- `mailbox[<<s,d>>]`: the bootstrap FIFO for tag 0;
- `toSetup[r]`: `toSetup_`;
- `got[r]`: what the `endSetup` calls of the running `setup()` have received;
- `ibContexts[r]`: `ibContexts_`;
- `nConnections[r]`: `connections_.size()`.

A Setuppable is reduced to its two hooks: what it sends and what it expects. A
sent value is a record with these fields:

- `kind`: conn, mem or sem;
- `owner` and `call`: the sender and the number of its call;
- `buf` and `type`: the buffer type and channel type;
- `flags` and `transport`: the registered transports and the connection end.

It is not the serialized bytes. The receiver checks none of these fields, and
neither does the code. `ExchangeMatched` asks whether they match.

`BeginSetup` is `onSetup` of the round's items plus the first loop of `setup()`.
It is one step, because sends do not block. `EndSetup` is one blocking receive.
`ClearSetup` is `toSetup_.clear()`.

### Executor

The variables are:

- `pc[r]`: where rank r is in `execute()`. The values are Idle, Connect,
  ConnectWait, Memory, MemoryWait, Channel, ChannelWait, Launch and Failed;
- `call[r]`: the index of the call being made;
- `bufIdx[r]`: the buffer-type round;
- `cur[r]`: the context being built;
- `contexts[r]`: the cache;
- `lastLaunch[r]`: the last kernel launch;
- `flag[r]`: the static launch flag.

Each action is a whole stretch of `setupExecutionContext` between two blocking
points:

- `ExecuteWarm`: lines 224-235;
- `ExecuteCold`, then `Connect` or `ConnectFails`: lines 237-247 and 277-285;
- `EndStep`: one receive of the current `setup()`;
- `FinishConnect` with `ToMemoryRound`: lines 285-288 and 315-316;
- `Memory` and `FinishMemory`: one buffer-type round, lines 316-335;
- `Semaphores` and `FinishChannel`: lines 340-417 and 250-256 (the cache insert);
- `Launch`: lines 443-476.

A call is `[buf, alloc, plan, size]`. `buf` names the base addresses and
capacities that `cuMemGetAddressRange` returns. `alloc` names the allocation
living there: a buffer freed and allocated again at the same address is the
same `buf` with a new `alloc`. A memory descriptor records its owner and the
owner's call, and so the allocation it was registered over. The key is `<<buf, plan>>`, as at line 224, so the
message size is not part of the key. The plan queries are not in `src/`. They
are modelled from the spec over a plan given as a sequence of channels. The
model has one plan entry per connected peer, which is what `connectedPeers`
lists.

### StreamedExecutor

`launchKernel` only enqueues the kernel (lines 462-471). The kernel reads the
device plan array through a raw pointer and runs later. The module adds:

- `stream[r]`: the kernels queued on rank r's stream and not finished, each a
  record of its call and the plan buffer it reads;
- `planBuf[r]`: for each cached key, the plan buffer its context holds. A buffer
  is named by the call that allocated it;
- `freed[r]`: the plan buffers that have been released.
- `planData[r]`: for each buffer, the device plan `memcpyCuda` copied into it
  (lines 230-232 and 252-253).

`ExecuteWarmS`, `FinishChannelS` and `LaunchS` are the Executor's actions with
their effect on these variables:

- the warm path allocates a new buffer and drops the old one (lines 229-230);
- the cold path caches its buffer with the context (lines 251-256);
- the launch queues the kernel.

`KernelDone` finishes the kernel at the head of the stream. It may do so once
every peer of the kernel's plan has launched the same call, because a
collective kernel waits on its peers' semaphores.

The deleter of `allocExtSharedCuda` is outside this repository. The constant
`FreeWaitsForDevice` says whether it waits for the device to be idle, as
`cudaFree` does. The runs set it to TRUE.

## 3. Runs

All runs except four_ranks and wide_node use NRanks = 3 and NRanksPerNode = 2.

| Run | Config | Expect | Properties | What it shows |
|---|---|---|---|---|
| handshake | `MCExecutor.cfg` | pass | TypeOK, ExchangeMatched, ChannelsWellBound, ChannelMemoryReachable, LaunchMatchesCall | See below. |
| termination | `MCExecutorLive.cfg` | pass | AllCallsComplete | With one-way channels, every rank finishes all three calls. The unpaired semaphores keep the semaphore round two-sided. |
| failed_connect | `MCPlacement.cfg` | pass | CachedContextsComplete | When `connectOnSetup` throws mid-path, no rank caches a half-built context. |
| placement_hang | `MCPlacementLive.cfg` | violation | AllCallsComplete | See below. |
| cache_skew_hang | `MCCacheSkew.cfg` | violation | AllCallsComplete | See below. |
| refinement | `MCRefinement.cfg` | pass | ImplementsExecuteSpec | See below. |
| refinement_failure | `MCPlacementRefinement.cfg` | pass | ImplementsExecuteSafety | Where `connectOnSetup` throws, every step is still a step of ExecuteSpec (`SafetySpec`, with no fairness, because the peers of a failed rank hang). A failing call caches and launches nothing. |
| four_ranks | `MCFourRanks.cfg` | pass | ExchangeMatched, ChannelsWellBound, ChannelMemoryReachable | The handshake invariants with four ranks. Each node registers with both IB0 and IB1, and each cross-node pair joins different IB devices in both directions. |
| flag_wrap | `MCFlagWrap.cfg` | violation | LaunchFlagIncreasing | The fourth launch with a 2-bit flag passes flag 0. Spec 4.2 promises a monotonically incrementing flag, but the static `uint32_t` wraps after 2^32 - 1 launches. |
| address_reuse | `MCAddressReuse.cfg` | violation | RemoteMemoryCurrent | See below. |
| streamed | `MCStreamedLive.cfg` | pass | KernelReadsOwnPlan, AllDrained | Each rank makes a cold and a warm call on P1 with different sizes. Every queued or running kernel reads a live buffer holding its own call's plan, although the warm path re-serializes the plan while that kernel waits on its peers. Every call returns and every kernel finishes, although a warm path's free blocks on kernels that wait on peers still in their handshake. |
| wide_node | `MCWideNode.cfg` | violation | ConnectTransportsSupported | With 9 ranks per node, rank 8 reads `IBs[8]`, past the 8-entry array at line 283. It then requests a connection over a value that is not a transport, and `connectOnSetup` throws InternalError (line 118). Spec 4.2 says a cross-node peer is reached over one of the RDMA transports. |

The handshake run checks four things under every interleaving of the three
ranks, where one rank may run a whole call ahead of another:

- every receive gets the descriptor its round awaits, from the peer's same call;
- every channel is bound to a semaphore with its own peer and type, and to the
  peer's memory of its destination buffer;
- the transports of both ends meet;
- every launch runs the plan and size of its own call.

The placement_hang run makes a transport choice that disagrees with the host
check. Ranks 0 and 1 throw InvalidUsage at line 104. Rank 2 waits forever at
line 285 for their IB hellos.

In the cache_skew_hang run, rank 0 misses the cache and runs the collective
cold path alone. It blocks in `setupConnections`.

The refinement run checks `Abs!Spec`, where `Abs` is ExecuteSpec under this
mapping:

- `done` is `call - 1`;
- `ready` is the context in hand when `pc = "Launch"`;
- `cache` is `contexts` seen through `AbsContext`;
- `launched` is `lastLaunch` without the flag;
- `failed` is `pc = "Failed"`.

The handshake steps are stuttering steps. `FinishChannel` and `ExecuteWarm` are
the abstract `Obtain`. The abstract cold path builds the context from the plan
alone (`PlannedContext`). Every remote descriptor in it is the one the peer
registers for its own call i, with the peer's transport flags. Every semaphore's
remote half is the peer's semaphore of that type. So the run shows that the
FIFO exchange over the shared tag binds exactly what a direct hand-over would.
With the abstract fairness, it also shows that every rank completes.

In the address_reuse run, every rank frees its buffers and gets new ones at the
same addresses and capacities. The key (line 224) is unchanged, so the second
call takes the warm path. Its channels still carry the descriptors the peers
registered over the freed allocations. This contradicts the rationale in spec
4.2, which says that address and capacity decide whether the descriptors are
still valid.

Every property of a passing run has a mutant in `PROJECT.json`. A mutant is a
plausible bug in the mapped code, and TLC finds the property violated under it:

- ToMemoryRound runs one round past the last buffer type;
- MemoryRecvPeers receives from the writers instead of from the channel
  destinations;
- ChannelsOf shares the semaphore index across channel types;
- TransportFlags registers the peer's IB instead of its own;
- ExecuteWarm reuses the cached device plan;
- Semaphores drops the unpaired semaphores;
- ExecuteCold inserts the context into the cache before setup;
- the four_ranks run reuses the second, third and fourth, and refinement_failure
  reuses the early cache insert;
- RegisteredMem registers a buffer with the transports of the rank's own
  outgoing channels (refinement);
- ExecuteWarmS copies the re-serialized plan into the cached buffer in place
  instead of a new allocation at line 229 (streamed);
- streamed also reuses the dropped unpaired semaphores, against AllDrained.

### Bounds

The runs use 3 ranks, 2 per node. That is the smallest setup with both
intra-node (CudaIpc) and inter-node (IB) pairs. The plans include:

- one-way SM and PROXY channels, so unpaired semaphores are needed;
- two channels on one pair of ranks, so a peer appears twice;
- all three buffer types;
- a plan in which a buffer type is used only on the destination side.

Each rank makes three calls: cold, warm with a new size, and cold with the
other plan on the same buffers. So one rank can be a whole call ahead of
another, and its messages for the next context sit in the shared FIFO. This is
the case the shared tag creates.

`FlagMax` stands for 2^32 - 1, and `Launch` computes `(flag + 1) % (FlagMax + 1)`.
The four_ranks run does not check AllCallsComplete: with four weakly fair
ranks, TLC's liveness check took about four minutes, and the 3-rank
termination run already covers the unpaired semaphores. The passing runs make
at most 3 launches per rank, and their `FlagMax` is 1000.
The flag_wrap run reduces the width to 2 bits (`FlagMax = 3`), so the wrap is
reached after 4 launches. The wrap itself, from the largest value back to 0,
is the same as at 32 bits.

### Fairness

`Spec` assumes weak fairness for each rank's `RankStep`. Each rank is its own
process. Its next step in `execute()` is a local computation, or a blocking
receive that stays enabled once the message is in the FIFO. The bootstrap
delivers reliably, as spec section 6 states. No fairness is assumed between
ranks' choices, and none on the bootstrap beyond the delivery that
`mailbox` already represents.

The liveness and failure runs set `CHECK_DEADLOCK FALSE`, for two reasons:

- in the failure runs, a rank that throws really does stop (`pc = "Failed"`);
- when all calls are done, the `Terminated` stutter step is the end of the
  program.

`SSpec` adds weak fairness for each rank's `KernelDone`. The device runs the
kernels queued on a stream in order. A kernel whose peers have launched the
same call does not wait for anything else. `HostStep(r)` keeps the host
thread's weak fairness.

The handshake run checks deadlock.

## 4. Not modelled, and why

- **Bootstrap internals** (sockets, `allGather`): external. The bootstrap is
  reduced to FIFOs with tag 0.
- **Plan parser, connections, semaphores, proxy service**: not in `src/`. Only
  their handshakes are modelled, from the spec and the comment at lines 359-363.
- **GPU kernels, scratch contents, LL packets**: device code. `allgather_test.cu`
  is a test driver for an older API.
- **Device plan layout** (lines 421-437): the per-threadblock channel maps and
  operation lists come from the plan parser. The fixed capacities of
  `DeviceExecutionPlan` are defined in headers outside this repository. The
  device plan is therefore modelled only as the (plan, size) it is built for.
- **The deleter of `allocExtSharedCuda`**: outside this repository. It is
  assumed to wait for the device (`FreeWaitsForDevice = TRUE`). KernelReadsOwnPlan's
  claim that the old buffer is still live depends on that assumption.
- **Several Executors in one process**: the launch flag is a function-local
  static (line 445), shared by every Executor of the process. Peers agree on a
  collective's flag only if their processes launched equally many kernels
  before it. The model has one Executor per rank, and the kernel that compares
  flags is device code. This is listed as a hazard without a property.
- **Cache and connection growth** (lines 120, 255): the spec leaves the bound
  open, so there is nothing to check it against.
- **A retry after `connectOnSetup` throws** (line 121): the queued connections
  stay in `toSetup_`. Spec 7 says callers abort, so no modelled caller runs
  `setup()` again.
- **Device plan capacities** (line 436): defined in headers outside this
  repository, and the operation lists come from the plan parser.
- **The `Invalid packet type` throw and the NPKit threadblock limit** (lines
  449-454, 472-474): both packet types behave alike for the host, and NPKit is
  a build option. They are outside the `Launch` map.
- **Formatting and the wording of errors**: no property is about them.

## 5. Plan for the next sittings

These were done in the second sitting:

- the abstract spec and refinement (ExecuteSpec, ExecutorRefinement);
- allocation reuse (address_reuse);
- the flag wrap (flag_wrap);
- the failure refinement (refinement_failure) and a 4-rank instance (four_ranks).

These were done in the third and fourth sittings:

- asynchronous kernels and the device plan buffers (StreamedExecutor);
- more ranks per node than IB transports (wide_node);
- the process-wide launch flag, listed as a hazard.

What is left, in order:

1. **Cache growth.** State a bound on `contexts` and `connections_` across
   calls on changing buffers, if the spec's open question gets an answer.
2. **Channel infos with several peers.** The plan parser may list several
   `connectedPeers` per channel info. The index space of `setupChannels`
   (one entry per info and peer) then differs from the parser's
   threadblock channel indices. This needs a model of the parser's plan
   format, which is not in this repository.
