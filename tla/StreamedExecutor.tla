--------------------------- MODULE StreamedExecutor ---------------------------
(***************************************************************************)
(* The Executor composed with each rank's GPU stream.  launchKernel only  *)
(* enqueues the kernel (lines 462-471): the kernel reads the device plan  *)
(* array through the raw pointer deviceExecutionPlansBuffer.get() and     *)
(* runs later, after the kernels launched before it on the stream.  A     *)
(* collective kernel can only finish once its peers have launched the     *)
(* same call, since it waits on their semaphores.                         *)
(*                                                                         *)
(* Every execute() allocates one device plan buffer: the cold path at     *)
(* line 251, the warm path at line 229.  A buffer is named by the call    *)
(* that allocated it.  The warm path's assignment drops the cache's       *)
(* reference to the previous buffer, the last one once execute() has      *)
(* returned, and so runs the deleter of allocExtSharedCuda on it.         *)
(***************************************************************************)
EXTENDS Executor

CONSTANT
  FreeWaitsForDevice  \* the deleter of allocExtSharedCuda waits for the device to be idle

ASSUME FreeWaitsForDevice \in BOOLEAN

VARIABLES
  stream,   \* stream[r]: kernels launched by rank r and not finished, [call, buf], in order
  planBuf,  \* planBuf[r]: key -> the device plan buffer held by the cached context
  freed,    \* freed[r]: the plan buffers of rank r that have been released
  planData  \* planData[r]: buffer -> the device plan memcpyCuda copied into it

streamVars == <<stream, planBuf, freed, planData>>
allVars == <<vars, streamVars>>

SInit ==
  /\ Init
  /\ stream = [r \in Ranks |-> <<>>]
  /\ planBuf = [r \in Ranks |-> [k \in {} |-> 0]]
  /\ freed = [r \in Ranks |-> {}]
  /\ planData = [r \in Ranks |-> [b \in {} |-> NoMsg]]

\* The last reference to plan buffer b is dropped and the deleter runs.
ReleasePlanBuffer(r, b) ==
  /\ FreeWaitsForDevice => stream[r] = <<>>
  /\ freed' = [freed EXCEPT ![r] = @ \cup {b}]

\* Mistake kept for checking: the re-serialized plan is copied into the
\* cached buffer in place instead of into a new allocation.
ExecuteWarmSInPlace(r) ==
  /\ ExecuteWarm(r)
  /\ LET b == planBuf[r][KeyOf(CallOf(r))]
     IN  planData' = [planData EXCEPT ![r][b] = DevicePlanOf(CallOf(r))]
  /\ UNCHANGED <<stream, planBuf, freed>>

\* Warm path: a new buffer gets the re-serialized plan and replaces the
\* cached one, which is released.
ExecuteWarmS(r) ==
  /\ ExecuteWarm(r)
  /\ LET k == KeyOf(CallOf(r))
     IN  /\ planBuf' = [planBuf EXCEPT ![r][k] = call[r]]
         /\ ReleasePlanBuffer(r, planBuf[r][k])
  /\ planData' = [planData EXCEPT ![r] = (call[r] :> DevicePlanOf(CallOf(r))) @@ @]
  /\ UNCHANGED stream

\* Cold path: the new context's buffer goes into the cache with it.
FinishChannelS(r) ==
  /\ FinishChannel(r)
  /\ planBuf' = [planBuf EXCEPT ![r] = (KeyOf(CallOf(r)) :> call[r]) @@ @]
  /\ planData' = [planData EXCEPT ![r] = (call[r] :> DevicePlanOf(CallOf(r))) @@ @]
  /\ UNCHANGED <<stream, freed>>

\* launchKernel: the kernel is queued with the context's device plan pointer.
LaunchS(r) ==
  /\ Launch(r)
  /\ stream' = [stream EXCEPT ![r] =
                  Append(@, [call |-> call[r], buf |-> planBuf[r][KeyOf(CallOf(r))]])]
  /\ UNCHANGED <<planBuf, freed, planData>>

\* The kernel at the head of r's stream finishes once every peer of its
\* plan has launched the same call.
KernelDone(r) ==
  /\ stream[r] # <<>>
  /\ LET k == Head(stream[r])
     IN  \A p \in ConnectedPeers(Calls[r][k.call].plan, r) : call[p] > k.call
  /\ stream' = [stream EXCEPT ![r] = Tail(@)]
  /\ UNCHANGED <<vars, planBuf, freed, planData>>

\* The steps of rank r's control thread.
HostStep(r) ==
  \/ ExecuteWarmS(r) \/ FinishChannelS(r) \/ LaunchS(r)
  \/ /\ \/ ExecuteCold(r) \/ Connect(r) \/ ConnectFails(r) \/ FinishConnect(r)
        \/ Memory(r) \/ FinishMemory(r) \/ Channel(r) \/ EndStep(r)
     /\ UNCHANGED streamVars

\* Every call has returned and every kernel has finished.
Drained == Finished /\ \A r \in Ranks : stream[r] = <<>>

SNext ==
  \/ \E r \in Ranks : HostStep(r) \/ KernelDone(r)
  \/ Drained /\ UNCHANGED allVars

\* Each host thread keeps running, and each device runs its queued kernels.
SSpec ==
  /\ SInit /\ [][SNext]_allVars
  /\ \A r \in Ranks : WF_allVars(HostStep(r)) /\ WF_allVars(KernelDone(r))

-----------------------------------------------------------------------------
(***************************************************************************)
(* Every kernel that is queued or running reads, through its raw device   *)
(* plan pointer, a live buffer holding the plan serialized for its own    *)
(* call, although later calls on the same key re-serialize the plan for   *)
(* other message sizes while it waits on its peers.                       *)
(***************************************************************************)
KernelReadsOwnPlan ==
  \A r \in Ranks : \A i \in 1 .. Len(stream[r]) :
    LET k == stream[r][i]
    IN  /\ k.buf \notin freed[r]
        /\ planData[r][k.buf] = DevicePlanOf(Calls[r][k.call])

(***************************************************************************)
(* Every execute() returns and every kernel finishes, although a warm     *)
(* path may block on the device until kernels finish that wait on peers  *)
(* still in their own handshake.                                          *)
(***************************************************************************)
AllDrained == <>Drained
=============================================================================
