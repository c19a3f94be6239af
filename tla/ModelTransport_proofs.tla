----------------------- MODULE ModelTransport_proofs -----------------------
(***************************************************************************)
(* Proofs about ModelTransport, for any threads, endpoints and timeouts:   *)
(* the number of leases counts the threads that hold one, so a closed      *)
(* transport knows when the last one is given back.                        *)
(***************************************************************************)
EXTENDS ModelTransport, FiniteSetTheorems, TLAPS

-----------------------------------------------------------------------------
(* The inductive invariant *)

\* The counter counts the leases, and a leased client is in the pool.
LeasesCounted ==
  /\ active = Cardinality(Leasing)
  /\ \A t \in Leasing : thread[t].timeout \in pool

\* A call knows its endpoint and its timeout.
CallsNamed ==
  \A t \in Threads : thread[t].pc # "idle" =>
    thread[t].endpoint \in Endpoints /\ thread[t].timeout \in Timeouts

\* An open client is in the pool, or somebody has taken it out to close it; a
\* client is taken out of a closed pool only.
ClientsOwned ==
  /\ pool \subseteq open
  /\ \A d \in open : d \in pool \/ d \in dropped \/ \E t \in Threads : d \in thread[t].closing
  /\ dropped \cap pool = {}
  /\ \A t \in Threads : thread[t].closing \cap pool = {}
  /\ \A t \in Threads : thread[t].closing # {} => closed /\ thread[t].pc = "closing"
  /\ dropped # {} => closed /\ canceller = "closing"

\* A closed transport without a lease has given its clients away.
EmptyWhenClosed ==
  /\ closed <=> canceller \in {"closing", "returned"}
  /\ closed /\ active = 0 => pool = {}

\* What failed in a call of a thread is marked for all of them.
BrokenMarked ==
  \A t \in Threads : thread[t].broken \subseteq failed \cup limited

IInv ==
  /\ TypeOK
  /\ LeasesCounted
  /\ CallsNamed
  /\ ClientsOwned
  /\ EmptyWhenClosed
  /\ BrokenMarked
  /\ BrokenNotCalled

-----------------------------------------------------------------------------
(* Counting leases *)

\* A step of one thread changes the set of leasing threads by that thread.
LEMMA LeasingFinite ==
  /\ IsFiniteSet(Leasing)
  /\ Cardinality(Leasing) \in 0..Cardinality(Threads)
<1>1. Leasing \subseteq Threads
  BY DEF Leasing
<1> QED BY <1>1, ThreadsAssumption, FS_Subset, FS_CardinalityType

LEMMA LeasingAdds ==
  ASSUME NEW t \in Threads, thread[t].pc \notin {"leased", "releasing"},
         thread'[t].pc \in {"leased", "releasing"},
         \A u \in Threads \ {t} : thread'[u] = thread[u]
  PROVE  Cardinality(Leasing') = Cardinality(Leasing) + 1
<1>1. Leasing' = Leasing \cup {t} /\ t \notin Leasing
  BY DEF Leasing
<1> QED BY <1>1, LeasingFinite, FS_AddElement

LEMMA LeasingDrops ==
  ASSUME NEW t \in Threads, thread[t].pc \in {"leased", "releasing"},
         thread'[t].pc \notin {"leased", "releasing"},
         \A u \in Threads \ {t} : thread'[u] = thread[u]
  PROVE  /\ Cardinality(Leasing') = Cardinality(Leasing) - 1
         /\ Leasing' = Leasing \ {t}
<1>1. Leasing' = Leasing \ {t} /\ t \in Leasing
  BY DEF Leasing
<1> QED BY <1>1, LeasingFinite, FS_RemoveElement

\* Without a lease nobody leases.
LEMMA NoLease ==
  ASSUME Cardinality(Leasing) = 0
  PROVE  Leasing = {}
BY LeasingFinite, FS_EmptySet

-----------------------------------------------------------------------------
(* The invariant holds initially and is preserved by every step. *)

LEMMA InitIInv == Init => IInv
<1> SUFFICES ASSUME Init PROVE IInv
  OBVIOUS
<1>1. Leasing = {}
  BY DEF Init, Leasing
<1>2. Cardinality(Leasing) = 0 /\ Cardinality(Threads) \in Nat
  BY <1>1, FS_EmptySet, FS_CardinalityType, ThreadsAssumption
<1>3. TypeOK
  <2>1. [pc |-> "idle", endpoint |-> "none", timeout |-> "none", closing |-> {}, broken |-> {}]
          \in Thread
    BY DEF Thread, Phases
  <2>2. thread \in [Threads -> Thread]
    BY <2>1 DEF Init
  <2>3. /\ cancelled = FALSE /\ canceller = "idle" /\ dropped = {} /\ closed = FALSE
        /\ active = 0 /\ pool = {} /\ open = {} /\ failed = {} /\ limited = {} /\ calls = 0
    BY DEF Init
  <2>4. active \in 0..Cardinality(Threads) /\ calls \in Nat
    BY <1>2, <2>3
  <2> HIDE <2>1
  <2> QED BY <2>2, <2>3, <2>4 DEF TypeOK
<1>4. LeasesCounted
  BY <1>1, <1>2 DEF Init, LeasesCounted
<1>5. CallsNamed /\ ClientsOwned /\ EmptyWhenClosed /\ BrokenMarked /\ BrokenNotCalled
  BY DEF Init, CallsNamed, ClientsOwned, EmptyWhenClosed, BrokenMarked, BrokenNotCalled
<1> QED BY <1>3, <1>4, <1>5 DEF IInv

\* A step that leaves the pool, the leases and the cancellation alone, and
\* moves one thread to another phase.
LEMMA PhasePreserves ==
  ASSUME IInv, NEW t \in Threads, NEW phase \in {"idle", "checked"},
         thread[t].pc \in {"called", "checked"},
         Become(t, phase), UNCHANGED <<cancelVars, poolVars, endpointVars, calls>>
  PROVE  IInv'
<1> USE DEF IInv, Become, cancelVars, poolVars, endpointVars
<1>1. thread \in [Threads -> Thread] /\ thread'[t] = [thread[t] EXCEPT !.pc = phase]
      /\ \A u \in Threads \ {t} : thread'[u] = thread[u]
  BY DEF TypeOK
<1>2. thread'[t] \in Thread /\ thread'[t].pc = phase
      /\ thread'[t].endpoint = thread[t].endpoint /\ thread'[t].timeout = thread[t].timeout
      /\ thread'[t].closing = thread[t].closing /\ thread'[t].broken = thread[t].broken
  BY <1>1 DEF Thread, Phases
<1>3. TypeOK'
  BY <1>1, <1>2 DEF TypeOK
<1>4. Leasing' = Leasing
  BY <1>1, <1>2 DEF Leasing
<1>5. LeasesCounted'
  BY <1>1, <1>2, <1>4 DEF LeasesCounted, Leasing
<1>6. CallsNamed'
  BY <1>1, <1>2 DEF CallsNamed
<1>7. ClientsOwned'
  BY <1>1, <1>2 DEF ClientsOwned
<1>8. EmptyWhenClosed' /\ BrokenMarked' /\ BrokenNotCalled'
  BY <1>1, <1>2 DEF EmptyWhenClosed, BrokenMarked, BrokenNotCalled
<1> QED BY <1>3, <1>5, <1>6, <1>7, <1>8

LEMMA StartCallPreserves ==
  ASSUME IInv, NEW t \in Threads, StartCall(t)
  PROVE  IInv'
<1> USE DEF IInv, StartCall, cancelVars, poolVars, endpointVars
<1>1. PICK e \in Endpoints, d \in Timeouts :
        thread' = [thread EXCEPT ![t] =
          [@ EXCEPT !.pc = "called", !.endpoint = e, !.timeout = d]]
  OBVIOUS
<1>2. thread \in [Threads -> Thread] /\ \A u \in Threads \ {t} : thread'[u] = thread[u]
  BY <1>1 DEF TypeOK
<1>3. thread'[t] \in Thread /\ thread'[t].pc = "called"
      /\ thread'[t].endpoint = e /\ thread'[t].timeout = d
      /\ thread'[t].closing = thread[t].closing /\ thread'[t].broken = thread[t].broken
  <2>1. thread'[t] = [thread[t] EXCEPT !.pc = "called", !.endpoint = e, !.timeout = d]
    BY <1>1, <1>2
  <2>2. thread[t] \in Thread
    BY <1>2
  <2> HIDE DEF IInv, StartCall
  <2> QED BY <2>1, <2>2 DEF Thread, Phases
<1>4. TypeOK'
  BY <1>1, <1>2, <1>3 DEF TypeOK
<1>5. Leasing' = Leasing
  BY <1>2, <1>3 DEF Leasing
<1>6. LeasesCounted'
  BY <1>2, <1>3, <1>5 DEF LeasesCounted, Leasing
<1>7. CallsNamed' /\ ClientsOwned'
  BY <1>2, <1>3 DEF CallsNamed, ClientsOwned
<1>8. EmptyWhenClosed' /\ BrokenMarked' /\ BrokenNotCalled'
  BY <1>2, <1>3 DEF EmptyWhenClosed, BrokenMarked, BrokenNotCalled
<1> QED BY <1>4, <1>6, <1>7, <1>8

LEMMA LeasePreserves ==
  ASSUME IInv, NEW t \in Threads, Lease(t)
  PROVE  IInv'
<1> USE DEF IInv
<1>1. CASE Refused(t)
  BY <1>1, PhasePreserves DEF Lease, cancelVars, poolVars, endpointVars
<1>2. CASE ~Refused(t)
  <2> DEFINE d == thread[t].timeout
  <2>1. /\ thread[t].pc = "checked" /\ ~closed
        /\ thread[t].endpoint \notin failed \cup limited
        /\ active' = active + 1 /\ pool' = pool \cup {d} /\ open' = open \cup {d}
        /\ thread' = [thread EXCEPT ![t].pc = "leased"]
        /\ UNCHANGED <<cancelVars, endpointVars, calls>>
    BY <1>2 DEF Lease, Refused, Become
  <2> HIDE DEF d
  <2>2. thread \in [Threads -> Thread] /\ d \in Timeouts
        /\ \A u \in Threads \ {t} : thread'[u] = thread[u]
    BY <2>1 DEF TypeOK, CallsNamed, d
  <2>3. thread'[t] \in Thread /\ thread'[t].pc = "leased"
        /\ thread'[t].endpoint = thread[t].endpoint /\ thread'[t].timeout = d
        /\ thread'[t].closing = thread[t].closing /\ thread'[t].broken = thread[t].broken
    BY <2>1, <2>2 DEF Thread, Phases, d
  <2>4. Cardinality(Leasing') = Cardinality(Leasing) + 1
    BY <2>1, <2>2, <2>3, LeasingAdds
  <2>5. Cardinality(Leasing') \in 0..Cardinality(Threads)
    <3>1. Leasing' \subseteq Threads
      BY DEF Leasing
    <3> QED BY <3>1, ThreadsAssumption, FS_Subset, FS_CardinalityType
  <2>6. TypeOK'
    BY <2>1, <2>2, <2>3, <2>4, <2>5 DEF TypeOK, LeasesCounted, cancelVars, endpointVars
  <2>7. LeasesCounted'
    BY <2>1, <2>2, <2>3, <2>4 DEF LeasesCounted, Leasing
  <2>8. CallsNamed'
    BY <2>1, <2>2, <2>3 DEF CallsNamed
  <2>9. ClientsOwned'
    BY <2>1, <2>2, <2>3 DEF ClientsOwned, cancelVars
  <2>10. EmptyWhenClosed' /\ BrokenMarked' /\ BrokenNotCalled'
    BY <2>1, <2>2, <2>3 DEF EmptyWhenClosed, BrokenMarked, BrokenNotCalled, cancelVars, endpointVars
  <2> QED BY <2>6, <2>7, <2>8, <2>9, <2>10
<1> QED BY <1>1, <1>2

LEMMA AnswerPreserves ==
  ASSUME IInv, NEW t \in Threads, Answer(t)
  PROVE  IInv'
<1> USE DEF IInv, cancelVars, poolVars
<1>1. PICK outcome \in {"other", "network", "rate_limited"} :
        /\ failed' = IF outcome = "network" THEN failed \cup {thread[t].endpoint} ELSE failed
        /\ limited' = IF outcome = "rate_limited" THEN limited \cup {thread[t].endpoint} ELSE limited
        /\ thread' = [thread EXCEPT ![t] =
             [@ EXCEPT !.pc = "releasing", !.broken = thread[t].broken \cup Blamed(t, outcome)]]
  BY DEF Answer
<1>2. /\ thread[t].pc = "leased" /\ UNCHANGED <<cancelVars, poolVars, calls>>
      /\ thread[t].endpoint \in Endpoints
  BY DEF Answer, CallsNamed
<1>3. thread \in [Threads -> Thread] /\ \A u \in Threads \ {t} : thread'[u] = thread[u]
  BY <1>1 DEF TypeOK
<1>4. /\ thread'[t] \in Thread /\ thread'[t].pc = "releasing"
      /\ thread'[t].endpoint = thread[t].endpoint /\ thread'[t].timeout = thread[t].timeout
      /\ thread'[t].closing = thread[t].closing
      /\ thread'[t].broken = thread[t].broken \cup Blamed(t, outcome)
  <2> DEFINE b == thread[t].broken \cup Blamed(t, outcome)
  <2>1. thread'[t] = [thread[t] EXCEPT !.pc = "releasing", !.broken = b]
    BY <1>1, <1>3
  <2>2. thread[t] \in Thread
    BY <1>3
  <2>3. b \in SUBSET Endpoints
    BY <1>2, <2>2 DEF Thread, Blamed
  <2> HIDE DEF IInv, b
  <2>4. thread'[t] \in Thread /\ thread'[t].pc = "releasing"
        /\ thread'[t].endpoint = thread[t].endpoint /\ thread'[t].timeout = thread[t].timeout
        /\ thread'[t].closing = thread[t].closing /\ thread'[t].broken = b
    BY <2>1, <2>2, <2>3 DEF Thread, Phases
  <2> QED BY <2>4 DEF b
<1>5. TypeOK'
  BY <1>1, <1>2, <1>3, <1>4 DEF TypeOK
<1>6. Leasing' = Leasing
  BY <1>2, <1>3, <1>4 DEF Leasing
<1>7. LeasesCounted'
  BY <1>2, <1>3, <1>4, <1>6 DEF LeasesCounted, Leasing
<1>8. CallsNamed' /\ ClientsOwned' /\ EmptyWhenClosed'
  BY <1>2, <1>3, <1>4 DEF CallsNamed, ClientsOwned, EmptyWhenClosed
<1>9. BrokenMarked' /\ BrokenNotCalled'
  BY <1>1, <1>3, <1>4 DEF BrokenMarked, BrokenNotCalled, Blamed
<1> QED BY <1>5, <1>7, <1>8, <1>9

LEMMA ReleasePreserves ==
  ASSUME IInv, NEW t \in Threads, Release(t)
  PROVE  IInv'
<1> DEFINE taken == Drain(closed, active - 1)
<1> USE DEF IInv
<1>1. /\ thread[t].pc = "releasing" /\ active' = active - 1 /\ pool' = pool \ taken
      /\ thread' = [thread EXCEPT ![t] = [@ EXCEPT !.pc = "closing", !.closing = taken]]
      /\ UNCHANGED <<cancelVars, open, endpointVars, calls>>
  BY DEF Release
<1>2. taken = IF closed /\ active - 1 = 0 THEN pool ELSE {}
  BY DEF Drain
<1> HIDE DEF taken
<1>3. thread \in [Threads -> Thread] /\ \A u \in Threads \ {t} : thread'[u] = thread[u]
  BY <1>1 DEF TypeOK
<1>4. /\ thread'[t] \in Thread /\ thread'[t].pc = "closing"
      /\ thread'[t].endpoint = thread[t].endpoint /\ thread'[t].timeout = thread[t].timeout
      /\ thread'[t].closing = taken /\ thread'[t].broken = thread[t].broken
  <2>1. thread[t] \in Thread /\ thread'[t] = [thread[t] EXCEPT !.pc = "closing", !.closing = taken]
    BY <1>1, <1>3
  <2>2. taken \subseteq Timeouts
    BY <1>2 DEF TypeOK
  <2> HIDE DEF IInv
  <2> QED BY <2>1, <2>2 DEF Thread, Phases
<1>5. Cardinality(Leasing') = Cardinality(Leasing) - 1 /\ Leasing' = Leasing \ {t}
  BY <1>1, <1>3, <1>4, LeasingDrops
<1>6. Cardinality(Leasing') \in 0..Cardinality(Threads) /\ IsFiniteSet(Leasing')
  <2>1. Leasing' \subseteq Threads
    BY DEF Leasing
  <2> QED BY <2>1, ThreadsAssumption, FS_Subset, FS_CardinalityType
<1>7. TypeOK'
  BY <1>1, <1>2, <1>3, <1>4, <1>5, <1>6 DEF TypeOK, LeasesCounted, cancelVars, endpointVars
<1>8. LeasesCounted'
  <2>1. active' = Cardinality(Leasing')
    BY <1>1, <1>5 DEF LeasesCounted
  <2>2. ASSUME NEW u \in Leasing' PROVE thread'[u].timeout \in pool'
    <3>1. u \in Leasing /\ u # t /\ u \in Threads
      BY <1>5 DEF Leasing
    <3>2. Cardinality(Leasing') # 0
      BY <1>6, FS_EmptySet
    <3>3. active - 1 # 0
      BY <1>1, <2>1, <3>2
    <3>4. pool' = pool
      BY <1>1, <1>2, <3>3
    <3> QED BY <1>3, <3>1, <3>4 DEF LeasesCounted
  <2> QED BY <2>1, <2>2 DEF LeasesCounted
<1>9. CallsNamed'
  BY <1>1, <1>3, <1>4 DEF CallsNamed
<1>10. ClientsOwned'
  <2>1. pool' \subseteq open' /\ dropped' \cap pool' = {} /\ (dropped' # {} => closed' /\ canceller' = "closing")
    BY <1>1 DEF ClientsOwned, cancelVars
  <2>2. \A u \in Threads : thread'[u].closing \cap pool' = {}
    BY <1>1, <1>3, <1>4 DEF ClientsOwned
  <2>3. \A u \in Threads : thread'[u].closing # {} => closed' /\ thread'[u].pc = "closing"
    BY <1>1, <1>2, <1>3, <1>4 DEF ClientsOwned, cancelVars
  <2>4. ASSUME NEW d \in open'
        PROVE  d \in pool' \/ d \in dropped' \/ \E u \in Threads : d \in thread'[u].closing
    <3>1. thread[t].closing = {}
      BY <1>1 DEF ClientsOwned
    <3>2. d \in pool \/ d \in dropped \/ \E u \in Threads \ {t} : d \in thread[u].closing
      BY <1>1, <3>1 DEF ClientsOwned
    <3> QED BY <1>1, <1>3, <1>4, <3>2 DEF cancelVars
  <2> QED BY <2>1, <2>2, <2>3, <2>4 DEF ClientsOwned
<1>11. EmptyWhenClosed'
  BY <1>1, <1>2 DEF EmptyWhenClosed, cancelVars
<1>12. BrokenMarked' /\ BrokenNotCalled'
  BY <1>1, <1>3, <1>4 DEF BrokenMarked, BrokenNotCalled, endpointVars
<1> QED BY <1>7, <1>8, <1>9, <1>10, <1>11, <1>12

LEMMA CloseTakenPreserves ==
  ASSUME IInv, NEW t \in Threads, CloseTaken(t)
  PROVE  IInv'
<1> USE DEF IInv, cancelVars, endpointVars
<1>1. /\ thread[t].pc = "closing" /\ open' = open \ thread[t].closing
      /\ thread' = [thread EXCEPT ![t] = [@ EXCEPT !.pc = "idle", !.closing = {}]]
      /\ UNCHANGED <<cancelVars, active, pool, endpointVars, calls>>
  BY DEF CloseTaken
<1>2. thread \in [Threads -> Thread] /\ \A u \in Threads \ {t} : thread'[u] = thread[u]
  BY <1>1 DEF TypeOK
<1>3. /\ thread'[t] \in Thread /\ thread'[t].pc = "idle"
      /\ thread'[t].closing = {} /\ thread'[t].broken = thread[t].broken
  <2>1. thread[t] \in Thread /\ thread'[t] = [thread[t] EXCEPT !.pc = "idle", !.closing = {}]
    BY <1>1, <1>2
  <2> HIDE DEF IInv, cancelVars, endpointVars
  <2> QED BY <2>1 DEF Thread, Phases
<1>4. TypeOK'
  BY <1>1, <1>2, <1>3 DEF TypeOK
<1>5. Leasing' = Leasing
  BY <1>1, <1>2, <1>3 DEF Leasing
<1>6. LeasesCounted'
  BY <1>1, <1>2, <1>3, <1>5 DEF LeasesCounted, Leasing
<1>7. ClientsOwned'
  <2>1. \A d \in open' : d \notin thread[t].closing
    BY <1>1
  <2> QED BY <1>1, <1>2, <1>3, <2>1 DEF ClientsOwned
<1>8. CallsNamed' /\ EmptyWhenClosed' /\ BrokenMarked' /\ BrokenNotCalled'
  BY <1>1, <1>2, <1>3 DEF CallsNamed, EmptyWhenClosed, BrokenMarked, BrokenNotCalled
<1> QED BY <1>4, <1>6, <1>7, <1>8

\* cancel(): the client of a running call stays in the pool.
LEMMA CancellationPreserves ==
  ASSUME IInv, Cancel \/ Close \/ CloseDropped
  PROVE  IInv'
<1> USE DEF IInv, poolVars, endpointVars
<1>1. thread' = thread /\ Leasing' = Leasing /\ active' = active /\ UNCHANGED endpointVars
  BY DEF Cancel, Close, CloseDropped, Leasing
<1>2. TypeOK'
  BY <1>1 DEF TypeOK, Cancel, Close, CloseDropped, Drain
<1>3. LeasesCounted'
  <2>1. CASE pool' = pool
    BY <1>1, <2>1 DEF LeasesCounted
  <2>2. CASE pool' # pool
    <3>1. active = 0
      BY <2>2 DEF Cancel, Close, CloseDropped, Drain
    <3>2. Leasing = {}
      BY <3>1, NoLease DEF LeasesCounted
    <3> QED BY <1>1, <3>2 DEF LeasesCounted
  <2> QED BY <2>1, <2>2
<1>4. ClientsOwned'
  <2>1. CASE Cancel
    BY <1>1, <2>1 DEF Cancel, ClientsOwned
  <2>2. CASE Close
    <3>1. dropped = {}
      BY <2>2 DEF Close, ClientsOwned
    <3> QED BY <1>1, <2>2, <3>1 DEF Close, Drain, ClientsOwned
  <2>3. CASE CloseDropped
    BY <1>1, <2>3 DEF CloseDropped, ClientsOwned
  <2> QED BY <2>1, <2>2, <2>3
<1>5. EmptyWhenClosed'
  BY <1>1 DEF Cancel, Close, CloseDropped, Drain, EmptyWhenClosed, TypeOK
<1>6. CallsNamed' /\ BrokenMarked' /\ BrokenNotCalled'
  BY <1>1 DEF CallsNamed, BrokenMarked, BrokenNotCalled
<1> QED BY <1>2, <1>3, <1>4, <1>5, <1>6

LEMMA StepIInv == IInv /\ [Next]_vars => IInv'
<1> SUFFICES ASSUME IInv, [Next]_vars PROVE IInv'
  OBVIOUS
<1>1. ASSUME NEW t \in Threads, StartCall(t) \/ Proceed(t)
      PROVE  IInv'
  <2>1. CASE StartCall(t)
    BY <2>1, StartCallPreserves
  <2>2. CASE CheckActive(t)
    BY <2>2, PhasePreserves DEF CheckActive
  <2>3. CASE Lease(t)
    BY <2>3, LeasePreserves
  <2>4. CASE Answer(t)
    BY <2>4, AnswerPreserves
  <2>5. CASE Release(t)
    BY <2>5, ReleasePreserves
  <2>6. CASE CloseTaken(t)
    BY <2>6, CloseTakenPreserves
  <2> QED BY <1>1, <2>1, <2>2, <2>3, <2>4, <2>5, <2>6 DEF Proceed
<1>2. CASE Cancel \/ Cancelling
  BY <1>2, CancellationPreserves DEF Cancelling
<1>3. CASE UNCHANGED vars
  <2>1. UNCHANGED <<cancelled, canceller, dropped, closed, active, pool, open, failed,
                    limited, thread, calls>>
    BY <1>3 DEF vars, cancelVars, poolVars, endpointVars
  <2>2. Leasing' = Leasing
    BY <2>1 DEF Leasing
  <2> QED BY <2>1, <2>2 DEF IInv, TypeOK, LeasesCounted, CallsNamed, ClientsOwned,
                            EmptyWhenClosed, BrokenMarked, BrokenNotCalled
<1> QED BY <1>1, <1>2, <1>3 DEF Next

LEMMA Invariant == Spec => []IInv
BY InitIInv, StepIInv, PTL DEF Spec

-----------------------------------------------------------------------------
(* What follows from it *)

\* The ledger, the pool and the threads keep their types; the counter of leases
\* is a number of threads.
THEOREM TransportTypeCorrect == Spec => []TypeOK
<1>1. IInv => TypeOK
  BY DEF IInv
<1> QED BY <1>1, Invariant, PTL

\* No client is closed under a running call.
THEOREM ClientsOutliveCalls == Spec => []NoneClosedInUse
<1>1. IInv => NoneClosedInUse
  BY DEF IInv, NoneClosedInUse, LeasesCounted, ClientsOwned, Leasing
<1> QED BY <1>1, Invariant, PTL

\* Whoever comes last, cancel() or the last lease, closes the clients.
THEOREM LastOneCloses == Spec => []NoneLeftOpen
<1>1. IInv => NoneLeftOpen
  <2> SUFFICES ASSUME IInv, canceller = "returned",
                      \A t \in Threads : thread[t].pc \notin {"leased", "releasing", "closing"}
               PROVE  open = {}
    BY DEF NoneLeftOpen
  <2>1. Leasing = {}
    BY DEF Leasing
  <2>2. active = 0 /\ closed
    BY <2>1, FS_EmptySet DEF IInv, LeasesCounted, EmptyWhenClosed
  <2>3. pool = {}
    BY <2>2 DEF IInv, EmptyWhenClosed
  <2>4. dropped = {} /\ \A t \in Threads : thread[t].closing = {}
    BY DEF IInv, ClientsOwned
  <2> QED BY <2>3, <2>4 DEF IInv, ClientsOwned
<1> QED BY <1>1, Invariant, PTL

\* No thread calls an endpoint that failed in one of its calls.
THEOREM BrokenLeftAlone == Spec => []BrokenNotCalled
<1>1. IInv => BrokenNotCalled
  BY DEF IInv
<1> QED BY <1>1, Invariant, PTL

\* No call is sent after cancel() has returned.
THEOREM CancelSilences == Spec => SilentAfterCancel
<1> DEFINE Silent == \A t \in Threads :
             canceller = "returned" /\ thread'[t].pc = "leased" => thread[t].pc = "leased"
<1>1. IInv /\ [Next]_vars => Silent
  <2> SUFFICES ASSUME IInv, Next, canceller = "returned",
                      NEW t \in Threads, thread'[t].pc = "leased"
               PROVE  thread[t].pc = "leased"
    BY DEF vars
  <2>1. closed /\ thread \in [Threads -> Thread]
    BY DEF IInv, EmptyWhenClosed, TypeOK
  <2>2. ASSUME NEW u \in Threads, StartCall(u) \/ Proceed(u)
        PROVE  thread[t].pc = "leased"
    <3>1. u # t => thread'[t] = thread[t]
      BY <2>1, <2>2 DEF StartCall, Proceed, CheckActive, Lease, Answer, Release, CloseTaken, Become
    <3>2. u = t => thread'[t].pc # "leased"
      <4>1. CASE StartCall(u)
        BY <2>1, <4>1 DEF StartCall, Thread
      <4>2. CASE CheckActive(u) \/ Lease(u)
        BY <2>1, <4>2 DEF CheckActive, Lease, Refused, Become, Thread
      <4>3. CASE Answer(u)
        BY <2>1, <4>3 DEF Answer, Thread
      <4>4. CASE Release(u) \/ CloseTaken(u)
        BY <2>1, <4>4 DEF Release, CloseTaken, Thread
      <4> QED BY <2>2, <4>1, <4>2, <4>3, <4>4 DEF Proceed
    <3> QED BY <3>1, <3>2
  <2>3. CASE Cancel \/ Cancelling
    BY <2>3 DEF Cancel, Cancelling, Close, CloseDropped
  <2> QED BY <2>2, <2>3 DEF Next
<1>2. IInv /\ [Next]_vars => [Silent]_vars
  BY <1>1
<1> QED BY <1>2, Invariant, PTL DEF Spec, SilentAfterCancel

=============================================================================
