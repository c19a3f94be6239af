--------------------------- MODULE ModelTransport ---------------------------
(***************************************************************************)
(* The model calls of one request: the usage ledger's cancellation and the *)
(* pool of HTTP clients the calls lease (usage.py, model_transport.py).    *)
(*                                                                         *)
(* The calls run in worker threads; the event loop cancels the ledger when *)
(* the stream ends, times out or is left by its client.  Clients are       *)
(* closed outside the lock, so a thread may be anywhere between two locked *)
(* sections when the pool is closed.  The pool has one client for each     *)
(* timeout in use, which names it here: once closed, the pool makes no     *)
(* client again.                                                           *)
(***************************************************************************)
EXTENDS Naturals, FiniteSets

CONSTANTS
  Threads,    \* worker threads that call models for the request
  Endpoints,  \* model endpoints
  Timeouts,   \* timeouts the calls ask for, and so the clients of the pool
  MaxCalls    \* bound: calls started

ASSUME ThreadsAssumption == IsFiniteSet(Threads)

ASSUME MaxCallsAssumption == MaxCalls \in Nat

VARIABLES
  cancelled,  \* the ledger was cancelled (_cancelled)
  canceller,  \* how far cancel() has come: "idle", "set", "closing" or "returned"
  dropped,    \* clients cancel() took out of the pool and has not closed yet
  closed,     \* the transport was closed (_closed)
  active,     \* leases under way (_active)
  pool,       \* clients of the pool (_clients)
  open,       \* clients that are not closed
  failed,     \* endpoints with a network failure (_failed_endpoints)
  limited,    \* endpoints that answered 429 (_rate_limited_endpoints)
  thread,     \* what each thread does
  calls       \* calls started so far

cancelVars == <<cancelled, canceller, dropped, closed>>
poolVars == <<active, pool, open>>
endpointVars == <<failed, limited>>
vars == <<cancelVars, poolVars, endpointVars, thread, calls>>

-----------------------------------------------------------------------------

Phases == {"idle", "called", "checked", "leased", "releasing", "closing"}

Thread == [pc : Phases, endpoint : Endpoints \cup {"none"}, timeout : Timeouts \cup {"none"},
           closing : SUBSET Timeouts,    \* clients it took out of the pool
           broken : SUBSET Endpoints]    \* endpoints that failed in its calls

TypeOK ==
  /\ cancelled \in BOOLEAN
  /\ canceller \in {"idle", "set", "closing", "returned"}
  /\ dropped \subseteq Timeouts
  /\ closed \in BOOLEAN
  /\ active \in 0..Cardinality(Threads)
  /\ pool \subseteq Timeouts
  /\ open \subseteq Timeouts
  /\ failed \subseteq Endpoints
  /\ limited \subseteq Endpoints
  /\ thread \in [Threads -> Thread]
  /\ calls \in Nat

\* Threads that hold a lease; the pool is told when they give it back.
Leasing == {t \in Threads : thread[t].pc \in {"leased", "releasing"}}

Init ==
  /\ cancelled = FALSE /\ canceller = "idle" /\ dropped = {} /\ closed = FALSE
  /\ active = 0 /\ pool = {} /\ open = {}
  /\ failed = {} /\ limited = {}
  /\ thread = [t \in Threads |-> [pc |-> "idle", endpoint |-> "none", timeout |-> "none",
                                  closing |-> {}, broken |-> {}]]
  /\ calls = 0

-----------------------------------------------------------------------------

Become(t, phase) == thread' = [thread EXCEPT ![t].pc = phase]

\* model_call: the ledger is active.
StartCall(t) ==
  /\ thread[t].pc = "idle"
  /\ calls < MaxCalls
  /\ ~cancelled
  /\ \E e \in Endpoints, d \in Timeouts :
       thread' = [thread EXCEPT ![t] =
         [@ EXCEPT !.pc = "called", !.endpoint = e, !.timeout = d]]
  /\ calls' = calls + 1
  /\ UNCHANGED <<cancelVars, poolVars, endpointVars>>

\* model_http_client: the ledger is still active, or the call ends.
CheckActive(t) ==
  /\ thread[t].pc = "called"
  /\ Become(t, IF cancelled THEN "idle" ELSE "checked")
  /\ UNCHANGED <<cancelVars, poolVars, endpointVars, calls>>

\* A fault: a lease does not ask whether the transport was closed.
RefusedEndpoint(t) == thread[t].endpoint \in failed \cup limited

\* A fault: only network failures keep later calls from an endpoint.
RefusedFailed(t) == closed \/ thread[t].endpoint \in failed

\* Why the pool refuses the lease of thread t.
Refused(t) == closed \/ thread[t].endpoint \in failed \cup limited

\* lease: a client for the timeout is taken from the pool or made, unless the
\* lease is refused, which ends the call.
Lease(t) ==
  /\ thread[t].pc = "checked"
  /\ IF Refused(t)
       THEN Become(t, "idle") /\ UNCHANGED poolVars
       ELSE /\ Become(t, "leased")
            /\ active' = active + 1
            /\ pool' = pool \cup {thread[t].timeout}
            /\ open' = open \cup {thread[t].timeout}
  /\ UNCHANGED <<cancelVars, endpointVars, calls>>

\* The endpoint, if the outcome of the call is its failure.
Blamed(t, outcome) == IF outcome = "other" THEN {} ELSE {thread[t].endpoint}

\* The HTTP call succeeds, fails in a way that says nothing of the endpoint,
\* fails in the network, or is answered with 429, which may be wrapped.
Answer(t) ==
  /\ thread[t].pc = "leased"
  /\ \E outcome \in {"other", "network", "rate_limited"} :
       /\ failed' = IF outcome = "network" THEN failed \cup {thread[t].endpoint} ELSE failed
       /\ limited' = IF outcome = "rate_limited" THEN limited \cup {thread[t].endpoint} ELSE limited
       /\ thread' = [thread EXCEPT ![t] =
            [@ EXCEPT !.pc = "releasing", !.broken = thread[t].broken \cup Blamed(t, outcome)]]
  /\ UNCHANGED <<cancelVars, poolVars, calls>>

\* A fault: the clients are taken while others still use them.
DrainAtOnce(isClosed, leases) == IF isClosed THEN pool ELSE {}

\* _drain_if_idle: the clients to close now.
Drain(isClosed, leases) == IF isClosed /\ leases = 0 THEN pool ELSE {}

\* A fault: a lease is given back and the pool left as it is.
ReleaseOnly(t) ==
  /\ thread[t].pc = "releasing"
  /\ active' = active - 1
  /\ thread' = [thread EXCEPT ![t].pc = "closing"]
  /\ UNCHANGED <<cancelVars, pool, open, endpointVars, calls>>

\* The lease is given back; the last one of a closed transport takes the
\* clients with it.
Release(t) ==
  /\ thread[t].pc = "releasing"
  /\ active' = active - 1
  /\ pool' = pool \ Drain(closed, active - 1)
  /\ thread' = [thread EXCEPT ![t] =
       [@ EXCEPT !.pc = "closing", !.closing = Drain(closed, active - 1)]]
  /\ UNCHANGED <<cancelVars, open, endpointVars, calls>>

\* _close_clients, outside the lock.
CloseTaken(t) ==
  /\ thread[t].pc = "closing"
  /\ open' = open \ thread[t].closing
  /\ thread' = [thread EXCEPT ![t] = [@ EXCEPT !.pc = "idle", !.closing = {}]]
  /\ UNCHANGED <<cancelVars, active, pool, endpointVars, calls>>

-----------------------------------------------------------------------------
(* cancel() of the ledger, in the event loop *)

Cancel ==
  /\ canceller = "idle"
  /\ cancelled' = TRUE
  /\ canceller' = "set"
  /\ UNCHANGED <<dropped, closed, poolVars, endpointVars, thread, calls>>

\* A fault: clients are left to the leases under way, also if there are none.
CloseOnly ==
  /\ canceller = "set"
  /\ closed' = TRUE
  /\ canceller' = "closing"
  /\ UNCHANGED <<cancelled, dropped, poolVars, endpointVars, thread, calls>>

\* close(): no lease from now on; idle clients are taken out of the pool.
Close ==
  /\ canceller = "set"
  /\ closed' = TRUE
  /\ canceller' = "closing"
  /\ dropped' = Drain(TRUE, active)
  /\ pool' = pool \ Drain(TRUE, active)
  /\ UNCHANGED <<cancelled, active, open, endpointVars, thread, calls>>

CloseDropped ==
  /\ canceller = "closing"
  /\ open' = open \ dropped
  /\ dropped' = {}
  /\ canceller' = "returned"
  /\ UNCHANGED <<cancelled, closed, active, pool, endpointVars, thread, calls>>

-----------------------------------------------------------------------------

\* A call ends: httpx gives up after its timeout.
Proceed(t) ==
  CheckActive(t) \/ Lease(t) \/ Answer(t) \/ Release(t) \/ CloseTaken(t)

Cancelling == Close \/ CloseDropped

Next ==
  \/ \E t \in Threads : StartCall(t) \/ Proceed(t)
  \/ Cancel
  \/ Cancelling

Spec == Init /\ [][Next]_vars

\* Every thread goes on, and cancel() once it was called; nothing has to call a
\* model or to cancel.
FairSpec ==
  /\ Spec
  /\ \A t \in Threads : WF_vars(Proceed(t))
  /\ WF_vars(Cancelling)

-----------------------------------------------------------------------------
(* Properties *)

\* The client of a running call is never closed under it: a closed transport
\* waits for the last lease (model_transport.py's contract).
NoneClosedInUse ==
  \A t \in Threads : thread[t].pc = "leased" => thread[t].timeout \in open

\* Once cancel() has returned and no thread holds a lease or is closing, no
\* client is open: whichever of the two came last has taken them.
NoneLeftOpen ==
  /\ canceller = "returned"
  /\ \A t \in Threads : thread[t].pc \notin {"leased", "releasing", "closing"}
  => open = {}

\* After cancel() has returned no call is sent any more, also by a thread that
\* had found the ledger active before: the lease asks again, under the lock.
SilentAfterCancel ==
  [][\A t \in Threads :
       canceller = "returned" /\ thread'[t].pc = "leased" => thread[t].pc = "leased"]_vars

\* A thread does not call an endpoint again that failed in the network or
\* answered 429 in one of its calls.
BrokenNotCalled ==
  \A t \in Threads : thread[t].pc = "leased" => thread[t].endpoint \notin thread[t].broken

\* After a cancellation the clients are closed in the end.
ClosedInTheEnd == (canceller = "set") ~> (open = {})

=============================================================================
