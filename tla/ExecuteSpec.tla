------------------------------ MODULE ExecuteSpec ------------------------------
(***************************************************************************)
(* What Executor::execute() promises, with the handshake abstracted away. *)
(* Each rank makes its calls in order.  A call first obtains its           *)
(* ExecutionContext in one atomic step (spec section 4.2):                *)
(*   - key present: the cached context, re-laid for the call's message    *)
(*     size (warm path);                                                   *)
(*   - key absent: the context the plan defines for this call, built as   *)
(*     if every peer's descriptor were handed over directly, and inserted *)
(*     in the cache (cold path);                                           *)
(* and then launches the kernel on it.  A cold path whose connections are *)
(* illegal fails and the rank stops.                                      *)
(***************************************************************************)
EXTENDS Naturals, Sequences, TLC

CONSTANTS
  Ranks,
  Calls,         \* rank -> Seq of calls
  KeyOf(_),      \* the ExecutionContextKey of a call
  Built(_, _),   \* Built(r, i): the context the plan defines for call i of rank r
  Relaid(_, _),  \* Relaid(ctx, c): ctx with its device plan re-serialized for call c
  Legal(_, _),   \* Legal(r, i): the connections of call i of rank r can be made
  None           \* no context in hand / nothing launched yet

VARIABLES
  done,      \* done[r]: calls of rank r that have returned
  ready,     \* ready[r]: the context obtained for the running call, or None
  cache,     \* cache[r]: key -> context
  launched,  \* launched[r]: [call, plan] of the last kernel launch, or None
  failed     \* failed[r]: the running call threw

avars == <<done, ready, cache, launched, failed>>

Init ==
  /\ done = [r \in Ranks |-> 0]
  /\ ready = [r \in Ranks |-> None]
  /\ cache = [r \in Ranks |-> [k \in {} |-> None]]
  /\ launched = [r \in Ranks |-> None]
  /\ failed = [r \in Ranks |-> FALSE]

\* The next call of rank r, when it has one and is not in the middle of one.
Pending(r) == ~failed[r] /\ ready[r] = None /\ done[r] < Len(Calls[r])

Obtain(r) ==
  LET i == done[r] + 1
      k == KeyOf(Calls[r][i])
      ctx == IF k \in DOMAIN cache[r] THEN Relaid(cache[r][k], Calls[r][i]) ELSE Built(r, i)
  IN  /\ Pending(r)
      /\ k \in DOMAIN cache[r] \/ Legal(r, i)
      /\ ready' = [ready EXCEPT ![r] = ctx]
      /\ cache' = [cache EXCEPT ![r] = (k :> ctx) @@ @]
      /\ UNCHANGED <<done, launched, failed>>

Fail(r) ==
  /\ Pending(r)
  /\ KeyOf(Calls[r][done[r] + 1]) \notin DOMAIN cache[r]
  /\ ~Legal(r, done[r] + 1)
  /\ failed' = [failed EXCEPT ![r] = TRUE]
  /\ UNCHANGED <<done, ready, cache, launched>>

Launch(r) ==
  /\ ready[r] # None
  /\ launched' = [launched EXCEPT ![r] = [call |-> done[r] + 1, plan |-> ready[r].devicePlan]]
  /\ done' = [done EXCEPT ![r] = @ + 1]
  /\ ready' = [ready EXCEPT ![r] = None]
  /\ UNCHANGED <<cache, failed>>

Step(r) == Obtain(r) \/ Fail(r) \/ Launch(r)

Next == \E r \in Ranks : Step(r)

\* The safety part: what a call may do, without the promise that calls complete.
SafetySpec == Init /\ [][Next]_avars

Spec == SafetySpec /\ \A r \in Ranks : WF_avars(Step(r))
=============================================================================
