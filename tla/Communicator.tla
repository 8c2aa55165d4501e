---------------------------- MODULE Communicator ----------------------------
(***************************************************************************)
(* Communicator::Impl of src/src/communicator.cc, one instance per rank.   *)
(*                                                                         *)
(* A rank queues Setuppables (memory senders, memory receivers,           *)
(* connections) and drains the queue with setup(): every beginSetup, in   *)
(* queue order, then every endSetup, in queue order.  beginSetup only     *)
(* sends on the bootstrap channel; endSetup blocks on a receive.  The     *)
(* bootstrap channel is reliable and FIFO per (src, dst, tag); every call  *)
(* the Executor makes uses tag 0, so the model keeps one FIFO per         *)
(* (src, dst) pair.                                                       *)
(***************************************************************************)
EXTENDS Integers, Sequences, SequencesExt

CONSTANTS
  NRanks,   \* bootstrap->getNranks()
  HostOf,   \* rank -> host identity; the table rankToHash_ all-gathered by Impl::Impl
  NoMsg     \* model value: "sends nothing" / "receives nothing" / absent entry

ASSUME NRanks \in Nat \ {0}

Ranks == 0 .. NRanks - 1

ASSUME HostOf \in [Ranks -> Nat]

VARIABLES
  mailbox,      \* mailbox[<<s, d>>]: bootstrap messages sent by s to d and not yet received
  toSetup,      \* toSetup[r]: Impl::toSetup_, the queued Setuppables of rank r
  got,          \* got[r]: values received so far by the endSetup calls of the running setup()
  ibContexts,   \* ibContexts[r]: the transports for which Impl::ibContexts_ holds an IbCtx
  nConnections  \* nConnections[r]: the length of Impl::connections_

commVars == <<mailbox, toSetup, got, ibContexts, nConnections>>

(***************************************************************************)
(* A Setuppable, reduced to its two hooks: what its beginSetup sends to   *)
(* peer (NoMsg: nothing) and what its endSetup expects to receive from    *)
(* peer (NoMsg: it receives nothing).                                     *)
(***************************************************************************)
Setuppable(peer, out, in) == [peer |-> peer, send |-> out, recv |-> in]

\* MemorySender: beginSetup sends the serialized RegisteredMemory.
MemorySender(peer, m) == Setuppable(peer, m, NoMsg)

\* MemoryReceiver: endSetup receives and fulfils the future; expect says what it awaits.
MemoryReceiver(peer, expect) == Setuppable(peer, NoMsg, expect)

\* The Setuppables whose endSetup receives, in queue order.
Receivers(r) == SelectSeq(toSetup[r], LAMBDA s : s.recv # NoMsg)

\* The bootstrap messages the beginSetup loop over items sends to d, in order.
Outgoing(items, d) ==
  LET out == SelectSeq(items, LAMBDA s : s.peer = d /\ s.send # NoMsg)
  IN  [i \in 1 .. Len(out) |-> out[i].send]

\* Impl::Impl: the host table is complete and no Setuppable, connection or IbCtx exists.
CommInit ==
  /\ mailbox = [c \in Ranks \X Ranks |-> <<>>]
  /\ toSetup = [r \in Ranks |-> <<>>]
  /\ got = [r \in Ranks |-> <<>>]
  /\ ibContexts = [r \in Ranks |-> {}]
  /\ nConnections = [r \in Ranks |-> 0]

\* The transports of mscclpp::Transport the Executor uses: CudaIpc and IB0 .. IB7.
IBs == <<"IB0", "IB1", "IB2", "IB3", "IB4", "IB5", "IB6", "IB7">>
Transports == {"CudaIpc"} \cup Range(IBs)

(***************************************************************************)
(* connectOnSetup: an intra-node (CudaIpc) connection is refused with     *)
(* InvalidUsage unless both ranks have the same host hash; an IB          *)
(* connection looks up or creates the IbCtx of its transport; any other   *)
(* transport is refused with InternalError.                               *)
(***************************************************************************)
ConnectionIsLegal(r, peer, transport) ==
  /\ transport \in Transports
  /\ transport = "CudaIpc" => HostOf[peer] = HostOf[r]

\* getIbContext, called by each new IBConnection: an IbCtx is created once per transport.
IbContextsAfter(ctxs, transports) == ctxs \cup (transports \ {"CudaIpc"})

(***************************************************************************)
(* The Setuppable of a new connection.  A CudaIpcConnection has no        *)
(* handshake; an IBConnection sends its queue-pair info (hello) in        *)
(* beginSetup and receives the peer's in endSetup.                        *)
(***************************************************************************)
ConnectionSetuppable(peer, transport, hello) ==
  IF transport = "CudaIpc"
  THEN Setuppable(peer, NoMsg, NoMsg)
  ELSE Setuppable(peer, hello, [kind |-> "conn", buf |-> "none", type |-> "none"])

(***************************************************************************)
(* onSetup of every item followed by the first loop of setup(): each      *)
(* beginSetup, in queue order, sends on the bootstrap channel.  Sends do  *)
(* not block, so the loop is one step.                                    *)
(***************************************************************************)
BeginSetup(r, items) ==
  LET queue == toSetup[r] \o items
  IN  /\ toSetup' = [toSetup EXCEPT ![r] = queue]
      /\ got' = [got EXCEPT ![r] = <<>>]
      /\ mailbox' = [c \in Ranks \X Ranks |->
                       IF c[1] = r THEN mailbox[c] \o Outgoing(queue, c[2])
                                   ELSE mailbox[c]]

(***************************************************************************)
(* The second loop of setup(), one receiving endSetup per step: the next  *)
(* receiver blocks until its peer's next message is in the FIFO and takes *)
(* it.  endSetup of a sender or a CudaIpcConnection does nothing.         *)
(***************************************************************************)
EndSetup(r) ==
  LET i    == Len(got[r]) + 1
      peer == Receivers(r)[i].peer
  IN  /\ i <= Len(Receivers(r))
      /\ mailbox[<<peer, r>>] # <<>>
      /\ got' = [got EXCEPT ![r] = Append(@, Head(mailbox[<<peer, r>>]))]
      /\ mailbox' = [mailbox EXCEPT ![<<peer, r>>] = Tail(@)]
      /\ UNCHANGED <<toSetup, ibContexts, nConnections>>

\* The second loop of setup() has run to its end.
SetupComplete(r) == Len(got[r]) = Len(Receivers(r))

\* The end of setup(): toSetup_.clear().
ClearSetup(r) ==
  /\ toSetup' = [toSetup EXCEPT ![r] = <<>>]
  /\ got' = [got EXCEPT ![r] = <<>>]


\* Types of the communicator state, given the set of payloads and of expectations.
CommTypeOK(Payloads, Expectations) ==
  /\ mailbox \in [Ranks \X Ranks -> Seq(Payloads)]
  /\ toSetup \in [Ranks -> Seq([peer : Ranks, send : Payloads \cup {NoMsg},
                                 recv : Expectations \cup {NoMsg}])]
  /\ got \in [Ranks -> Seq(Payloads)]
  /\ \A r \in Ranks : Len(got[r]) <= Len(Receivers(r))
  /\ ibContexts \in [Ranks -> SUBSET Range(IBs)]
  /\ nConnections \in [Ranks -> Nat]
=============================================================================
