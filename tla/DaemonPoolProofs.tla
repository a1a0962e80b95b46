-------------------------- MODULE DaemonPoolProofs --------------------------
(***************************************************************************)
(* Theorems about DaemonPool, for any finite number of requests, any       *)
(* number of slots and of attempts, with and without a server that cancels *)
(* the context first.                                                      *)
(***************************************************************************)
EXTENDS DaemonPool, FiniteSetTheorems, TLAPS

\* A request that may still begin an attempt has attempts left, and one that
\* has its result has returned.
RunInv ==
  \A r \in Requests :
    /\ pc[r] \in {"idle", "queued", "leased"} => attempt[r] < MaxAttempts
    /\ outcome[r] # "none" => pc[r] = "returned"

TypeInv == TypeOK /\ RunInv

\* A step of a request other than its retries.
PlainStep(r) ==
  \/ Arrive(r) \/ Lease(r) \/ GiveUp(r) \/ LaunchOK(r) \/ Track(r)
  \/ WorkerExits(r) \/ StdoutFails(r)

ServerStep == Cancel \/ DrainMark \/ DrainStep

LEMMA NextSteps ==
  Next <=> \/ ServerStep
           \/ \E r \in Requests :
                PlainStep(r) \/ NextAttempt(r) \/ LaunchFails(r) \/ Reap(r) \/ Wake(r)
  BY DEF Next, RunStep, PlainStep, ServerStep

LEMMA TypeStep == TypeInv /\ [Next]_vars => TypeInv'
<1> SUFFICES ASSUME TypeInv, [Next]_vars PROVE TypeInv'
  OBVIOUS
<1> USE SizeAssumption, CancelAssumption DEF TypeInv, TypeOK, RunInv, Busy, Goto, Return
<1>1. CASE ServerStep
  BY <1>1 DEF ServerStep, Cancel, DrainMark, DrainStep, DrainClose, DrainIdle, DrainTimeout,
       DrainKill, DrainDone
<1>2. ASSUME NEW r \in Requests, Arrive(r) \/ Lease(r) \/ GiveUp(r) PROVE TypeInv'
  BY <1>2 DEF Arrive, Lease, GiveUp
<1>3. ASSUME NEW r \in Requests, LaunchOK(r) \/ Track(r) PROVE TypeInv'
  BY <1>3 DEF LaunchOK, Track
<1>4. ASSUME NEW r \in Requests, WorkerExits(r) \/ StdoutFails(r) PROVE TypeInv'
  BY <1>4 DEF WorkerExits, StdoutFails
<1>5. ASSUME NEW r \in Requests, NextAttempt(r) PROVE TypeInv'
  BY <1>5 DEF NextAttempt
<1>6. ASSUME NEW r \in Requests, LaunchFails(r) PROVE TypeInv'
  BY <1>6 DEF LaunchFails, AfterFailure
<1>7. ASSUME NEW r \in Requests, Reap(r) PROVE TypeInv'
  BY <1>7 DEF Reap, AfterFailure
<1>8. ASSUME NEW r \in Requests, Wake(r) PROVE TypeInv'
  BY <1>8 DEF Wake
<1>9. CASE UNCHANGED vars
  BY <1>9 DEF vars
<1> QED
  BY <1>1, <1>2, <1>3, <1>4, <1>5, <1>6, <1>7, <1>8, <1>9, NextSteps DEF PlainStep

LEMMA TypeInvariant == Spec => []TypeInv
<1>1. Init => TypeInv
  <2> SUFFICES ASSUME Init PROVE TypeInv
    OBVIOUS
  <2>1. 0 \in 0..MaxAttempts /\ 0 < MaxAttempts
    BY SizeAssumption
  <2>2. attempt \in [Requests -> 0..MaxAttempts] /\ \A r \in Requests : attempt[r] < MaxAttempts
    BY <2>1 DEF Init
  <2> QED
    BY <2>2 DEF Init, TypeInv, TypeOK, RunInv, Busy
<1> QED
  BY <1>1, TypeStep, PTL DEF Spec

\* The variables keep their types; in particular no request exceeds its attempts.
THEOREM TypeCorrect == Spec => []TypeOK
<1>1. TypeInv => TypeOK
  BY DEF TypeInv
<1> QED
  BY <1>1, TypeInvariant, PTL

-----------------------------------------------------------------------------
\* A request whose stdout failed is no success, for any failures and exit codes.
THEOREM TruncatedIsNoSuccess == Spec => []SuccessIsComplete
<1>1. Init => SuccessIsComplete
  BY DEF Init, SuccessIsComplete
<1>2. TypeInv /\ SuccessIsComplete /\ [Next]_vars => SuccessIsComplete'
  <2> SUFFICES ASSUME TypeInv, SuccessIsComplete, [Next]_vars PROVE SuccessIsComplete'
    OBVIOUS
  <2> USE DEF TypeInv, TypeOK, RunInv, SuccessIsComplete, Busy, Goto, Return
  <2>1. CASE ServerStep
    BY <2>1 DEF ServerStep, Cancel, DrainMark, DrainStep, DrainClose, DrainIdle, DrainTimeout,
         DrainKill, DrainDone
  <2>2. ASSUME NEW r \in Requests, PlainStep(r) PROVE SuccessIsComplete'
    BY <2>2 DEF PlainStep, Arrive, Lease, GiveUp, LaunchOK, Track, WorkerExits, StdoutFails
  <2>3. ASSUME NEW r \in Requests, NextAttempt(r) \/ LaunchFails(r) \/ Wake(r)
        PROVE  SuccessIsComplete'
    BY <2>3 DEF NextAttempt, LaunchFails, Wake, AfterFailure
  <2>4. ASSUME NEW r \in Requests, Reap(r) PROVE SuccessIsComplete'
    BY <2>4 DEF Reap, AfterFailure
  <2>5. CASE UNCHANGED vars
    BY <2>5 DEF vars
  <2> QED
    BY <2>1, <2>2, <2>3, <2>4, <2>5, NextSteps
<1> QED
  BY <1>1, <1>2, TypeInvariant, PTL DEF Spec

-----------------------------------------------------------------------------
\* Pool.active is what is being pumped.
THEOREM ActiveIsAccurate == Spec => []ActiveIsPumped
<1>1. Init => ActiveIsPumped
  BY DEF Init, ActiveIsPumped
<1>2. TypeInv /\ ActiveIsPumped /\ [Next]_vars => ActiveIsPumped'
  <2> SUFFICES ASSUME TypeInv, ActiveIsPumped, [Next]_vars PROVE ActiveIsPumped'
    OBVIOUS
  <2> USE DEF TypeInv, TypeOK, ActiveIsPumped, Busy, Goto, Return
  <2>1. CASE ServerStep
    BY <2>1 DEF ServerStep, Cancel, DrainMark, DrainStep, DrainClose, DrainIdle, DrainTimeout,
         DrainKill, DrainDone
  <2>2. ASSUME NEW r \in Requests, PlainStep(r) PROVE ActiveIsPumped'
    BY <2>2 DEF PlainStep, Arrive, Lease, GiveUp, LaunchOK, Track, WorkerExits, StdoutFails
  <2>3. ASSUME NEW r \in Requests, NextAttempt(r) \/ LaunchFails(r) \/ Wake(r)
        PROVE  ActiveIsPumped'
    BY <2>3 DEF NextAttempt, LaunchFails, Wake, AfterFailure
  <2>4. ASSUME NEW r \in Requests, Reap(r) PROVE ActiveIsPumped'
    BY <2>4 DEF Reap, AfterFailure
  <2>5. CASE UNCHANGED vars
    BY <2>5 DEF vars
  <2> QED
    BY <2>1, <2>2, <2>3, <2>4, <2>5, NextSteps
<1> QED
  BY <1>1, <1>2, TypeInvariant, PTL DEF Spec

-----------------------------------------------------------------------------
\* A worker lives only in an attempt of its request, and requests in an attempt
\* hold one of Size slots.
SlotInv ==
  /\ \A r \in Requests : worker[r] = "alive" => pc[r] \in {"track", "pump"}
  /\ Cardinality(Leased) <= Size

LEMMA LeasedFinite == IsFiniteSet(Leased) /\ Cardinality(Leased) \in Nat
  BY RequestsAssumption, FS_Subset, FS_CardinalityType DEF Leased

\* The slots only change hands in Lease, and when Run returns.
LEMMA FewerLeased ==
  ASSUME Leased' \subseteq Leased
  PROVE  Cardinality(Leased') <= Cardinality(Leased)
  BY LeasedFinite, FS_Subset

LEMMA LeaseTakesOne ==
  ASSUME TypeInv, NEW r \in Requests, Lease(r)
  PROVE  Cardinality(Leased') <= Size
<1>1. Leased' = Leased \cup {r}
  BY DEF TypeInv, TypeOK, Lease, Leased, Busy, Goto
<1>2. r \notin Leased
  BY DEF Lease, Leased, Busy
<1>3. Cardinality(Leased') = Cardinality(Leased) + 1
  BY <1>1, <1>2, LeasedFinite, FS_AddElement
<1> QED
  BY <1>3, LeasedFinite, SizeAssumption DEF Lease

LEMMA SlotStep == TypeInv /\ SlotInv /\ [Next]_vars => SlotInv'
<1> SUFFICES ASSUME TypeInv, SlotInv, [Next]_vars PROVE SlotInv'
  OBVIOUS
<1> DEFINE InAttempt == \A r \in Requests : worker[r] = "alive" => pc[r] \in {"track", "pump"}
<1>1. CASE ServerStep
  <2>1. InAttempt' /\ Leased' = Leased
    BY <1>1 DEF SlotInv, Leased, ServerStep, Cancel, DrainMark, DrainStep, DrainClose, DrainIdle,
         DrainTimeout, DrainKill, DrainDone
  <2> QED
    BY <2>1 DEF SlotInv
<1>2. ASSUME NEW r \in Requests, Lease(r) PROVE SlotInv'
  <2>1. InAttempt'
    BY <1>2 DEF SlotInv, TypeInv, TypeOK, Lease, Goto
  <2> QED
    BY <1>2, <2>1, LeaseTakesOne DEF SlotInv
<1>3. ASSUME NEW r \in Requests,
             (PlainStep(r) /\ ~ Lease(r)) \/ NextAttempt(r) \/ LaunchFails(r) \/ Reap(r) \/ Wake(r)
      PROVE  SlotInv'
  <2>1. InAttempt' /\ Leased' \subseteq Leased
    <3> USE DEF TypeInv, TypeOK, SlotInv, Leased, Busy, Goto, Return
    <3>1. CASE Arrive(r) \/ GiveUp(r)
      BY <3>1 DEF Arrive, GiveUp
    <3>2. CASE LaunchOK(r) \/ Track(r)
      BY <3>2 DEF LaunchOK, Track
    <3>3. CASE WorkerExits(r) \/ StdoutFails(r)
      BY <3>3 DEF WorkerExits, StdoutFails
    <3>4. CASE NextAttempt(r) \/ LaunchFails(r) \/ Wake(r)
      BY <3>4 DEF NextAttempt, LaunchFails, Wake, AfterFailure
    <3>5. CASE Reap(r)
      BY <3>5 DEF Reap, AfterFailure
    <3> QED
      BY <1>3, <3>1, <3>2, <3>3, <3>4, <3>5 DEF PlainStep
  <2>2. Cardinality(Leased') <= Cardinality(Leased)
    BY <2>1, FewerLeased
  <2>3. Cardinality(Leased)' = Cardinality(Leased') /\ Cardinality(Leased') \in Nat
    BY <2>1, LeasedFinite, FS_Subset, FS_CardinalityType
  <2> QED
    BY <2>1, <2>2, <2>3, LeasedFinite, SizeAssumption DEF SlotInv
<1>4. CASE UNCHANGED vars
  BY <1>4 DEF vars, SlotInv, Leased
<1> QED
  BY <1>1, <1>2, <1>3, <1>4, NextSteps DEF PlainStep

LEMMA SlotInvariant == Spec => []SlotInv
<1>1. Init => SlotInv
  <2> SUFFICES ASSUME Init PROVE SlotInv
    OBVIOUS
  <2>1. Leased = {}
    BY DEF Init, Leased, Busy
  <2> QED
    BY <2>1, FS_EmptySet, SizeAssumption DEF Init, SlotInv
<1> QED
  BY <1>1, SlotStep, TypeInvariant, PTL DEF Spec

\* No process outlives the lease of its request, and there are never more
\* workers than slots, whatever launches, exits and reads fail.
THEOREM NoWorkerBeyondSlots == Spec => []WorkersHoldSlots
<1>1. SlotInv => WorkersHoldSlots
  <2> SUFFICES ASSUME SlotInv PROVE WorkersHoldSlots
    OBVIOUS
  <2> DEFINE Workers == {r \in Requests : worker[r] = "alive"}
  <2>1. Workers \subseteq Leased
    BY DEF SlotInv, Leased, Busy
  <2>2. Cardinality(Workers) <= Cardinality(Leased) /\ Cardinality(Workers) \in Nat
    BY <2>1, LeasedFinite, FS_Subset, FS_CardinalityType
  <2> QED
    BY <2>1, <2>2, LeasedFinite, SizeAssumption DEF SlotInv, WorkersHoldSlots
<1> QED
  BY <1>1, SlotInvariant, PTL

-----------------------------------------------------------------------------
(* Run implements BoundedRetry.                                            *)

Running == {r \in Requests : pc[r] \in {"launch", "track", "pump"}}
Finished == {r \in Requests : pc[r] = "returned"}

LEMMA RunningHaveSlots ==
  ASSUME TypeInv, SlotInv, NEW r \in Requests, pc[r] = "leased"
  PROVE  Cardinality(Running) < Size
<1>1. Running \subseteq Leased \ {r}
  BY DEF Running, Leased, Busy
<1>2. r \in Leased
  BY DEF Leased, Busy
<1>3. IsFiniteSet(Leased \ {r}) /\ Cardinality(Leased \ {r}) = Cardinality(Leased) - 1
  BY <1>2, LeasedFinite, FS_RemoveElement
<1>4. Cardinality(Running) <= Cardinality(Leased \ {r}) /\ Cardinality(Running) \in Nat
  BY <1>1, <1>3, FS_Subset, FS_CardinalityType
<1> QED
  BY <1>3, <1>4, LeasedFinite, SizeAssumption DEF SlotInv

RetryVars == <<attempt, Running, Finished>>

LEMMA TryMaps ==
  ASSUME NEW r \in Requests, r \notin Running \cup Finished,
         attempt[r] < MaxAttempts, Cardinality(Running) < Size,
         attempt' = [attempt EXCEPT ![r] = @ + 1],
         Running' = Running \cup {r}, Finished' = Finished
  PROVE  Retry!Try(r)
  BY DEF Retry!Try, Running, Finished, Cardinality, Retry!Cardinality

\* A step of the pool is a step of BoundedRetry or changes nothing of it.
LEMMA RetryStep ==
  ASSUME TypeInv, SlotInv, [Next]_vars
  PROVE  Retry!Next \/ UNCHANGED RetryVars
<1> USE DEF TypeInv, TypeOK, RetryVars, Running, Finished, Goto, Return
<1>1. CASE ServerStep
  BY <1>1 DEF ServerStep, Cancel, DrainMark, DrainStep, DrainClose, DrainIdle, DrainTimeout,
       DrainKill, DrainDone
<1>2. ASSUME NEW r \in Requests, Lease(r) \/ LaunchOK(r) \/ Track(r) PROVE UNCHANGED RetryVars
  BY <1>2 DEF Lease, LaunchOK, Track
<1>3. ASSUME NEW r \in Requests, WorkerExits(r) \/ StdoutFails(r) PROVE UNCHANGED RetryVars
  BY <1>3 DEF WorkerExits, StdoutFails
<1>4. ASSUME NEW r \in Requests, Arrive(r) \/ GiveUp(r) \/ Wake(r)
      PROVE  Retry!Conclude(r) \/ UNCHANGED RetryVars
  BY <1>4 DEF Arrive, GiveUp, Wake, Retry!Conclude
<1>5. ASSUME NEW r \in Requests, LaunchFails(r) \/ Reap(r) PROVE Retry!Stop(r)
  BY <1>5 DEF LaunchFails, Reap, AfterFailure, Retry!Stop
<1>6. ASSUME NEW r \in Requests, NextAttempt(r) PROVE Retry!Conclude(r) \/ Retry!Try(r)
  <2>1. CASE Draining
    BY <1>6, <2>1 DEF NextAttempt, Retry!Conclude
  <2>2. CASE ~ Draining
    <3>1. Cardinality(Running) < Size /\ attempt[r] < MaxAttempts
      BY <1>6, RunningHaveSlots DEF NextAttempt, RunInv
    <3>2. r \notin Running \cup Finished /\ Finished' = Finished
      BY <1>6, <2>2 DEF NextAttempt
    <3>3. Running' = Running \cup {r}
      BY <1>6, <2>2 DEF NextAttempt
    <3>4. attempt' = [attempt EXCEPT ![r] = @ + 1]
      BY <1>6, <2>2 DEF NextAttempt
    <3> QED
      BY <3>1, <3>2, <3>3, <3>4, TryMaps
  <2> QED
    BY <2>1, <2>2
<1>7. CASE UNCHANGED vars
  BY <1>7 DEF vars
<1> QED
  BY <1>1, <1>2, <1>3, <1>4, <1>5, <1>6, <1>7, NextSteps DEF PlainStep, Retry!Next

\* Run is a bounded retry: one attempt at a time, at most MaxAttempts of them,
\* at most Size requests in an attempt, nothing attempted after the result.
THEOREM RunRefinesBoundedRetry == Spec => RunIsBoundedRetry
<1>1. Init => Retry!Init
  BY DEF Init, Retry!Init
<1>2. TypeInv /\ SlotInv /\ [Next]_vars => [Retry!Next]_RetryVars
  BY RetryStep
<1> QED
  BY <1>1, <1>2, TypeInvariant, SlotInvariant, PTL
     DEF Spec, RunIsBoundedRetry, Retry!Spec, RetryVars, Running, Finished
=============================================================================
