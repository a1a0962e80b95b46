--------------------------- MODULE CronStoreProofs ---------------------------
(***************************************************************************)
(* Theorems about CronStore, for any schedulers, users, schedule and       *)
(* number of faults.                                                       *)
(***************************************************************************)
EXTENDS CronStore, FiniteSetTheorems, TLAPS

-----------------------------------------------------------------------------
(* The schedule.                                                           *)

\* A nonempty set of numbers of an interval has a smallest member: among the sets
\* of its members up to x, one contains no other.
LEMMA Smallest ==
  ASSUME NEW a \in Int, NEW b \in Int, NEW T \in SUBSET (a..b), T # {}
  PROVE  \E x \in T : \A y \in T : x <= y
<1> DEFINE I == a..b
           R == StrictSubsetOrdering(I)
           UpTo(x) == {y \in T : y <= x}
           F == {UpTo(x) : x \in T}
<1>1. IsWellFoundedOn(R, SUBSET I)
  <2>1. IsFiniteSet(I)
    BY FS_Interval
  <2>2. IsWellFoundedOn(R, FiniteSubsetsOf(I))
    BY FS_StrictSubsetOrderingWellFounded
  <2> QED
    BY <2>1, <2>2, FS_FiniteSubsetsOfFinite
<1>2. F \subseteq SUBSET I /\ F # {}
  OBVIOUS
<1>3. \A A, B \in SUBSET I : A \subseteq B /\ A # B => <<A, B>> \in R
  BY DEF StrictSubsetOrdering
<1> HIDE DEF R, F
<1>4. \E X \in F : \A Y \in F : ~ (<<Y, X>> \in R)
  BY <1>1, <1>2, WFMin
<1>5. PICK x \in T : \A y \in T : ~ (<<UpTo(y), UpTo(x)>> \in R)
  BY <1>4 DEF F
<1>6. ASSUME NEW y \in T, ~ (x <= y) PROVE FALSE
  <2>1. x \in Int /\ y \in Int /\ y < x
    BY <1>6
  <2>2. \A z \in T : z <= y => z <= x
    <3> TAKE z \in T
    <3>1. z \in Int
      OBVIOUS
    <3> QED
      BY <2>1, <3>1
  <2>3. x <= x /\ ~ (x <= y)
    BY <2>1
  <2>4. UpTo(y) \subseteq UpTo(x) /\ x \in UpTo(x) /\ x \notin UpTo(y)
    BY <2>2, <2>3, Zenon
  <2>5. UpTo(x) \in SUBSET I /\ UpTo(y) \in SUBSET I
    OBVIOUS
  <2> QED
    BY <2>4, <2>5, <1>3, <1>5
<1> QED
  BY <1>6

LEMMA SlotsAreInts == \A s \in Slots : s \in Int /\ s > 0
  BY CronStoreAssumption

LEMMA NextSlotFacts ==
  ASSUME NEW t \in Nat
  PROVE  /\ NextSlot(t) = NoSlot \/ (NextSlot(t) \in Slots /\ NextSlot(t) > t)
         /\ t = 0 => NextSlot(t) # NoSlot
<1> DEFINE later == {s \in Slots : s > t}
<1>1. NextSlot(t) = IF later = {} THEN NoSlot ELSE Min(later)
  BY DEF NextSlot
<1>2. Slots \subseteq Int /\ Slots # {} /\ \A s \in Slots : s > 0
  BY CronStoreAssumption
<1>3. t = 0 => later # {}
  BY <1>2
<1>4. ASSUME later # {} PROVE Min(later) \in later
  <2>1. later \subseteq 1..MaxClock
    BY CronStoreAssumption
  <2>2. 1 \in Int /\ MaxClock \in Int
    BY CronStoreAssumption
  <2> HIDE DEF later
  <2>3. later \in SUBSET (1..MaxClock)
    BY <2>1
  <2>4. \E x \in later : \A y \in later : x <= y
    BY <1>4, <2>2, <2>3, Smallest
  <2> QED
    BY <2>4 DEF Min
<1>5. \A s \in later : s \in Slots /\ s > t /\ s # 0
  BY <1>2
<1> HIDE DEF later
<1> QED
  BY <1>1, <1>3, <1>4, <1>5 DEF NoSlot

-----------------------------------------------------------------------------
(* The invariant.                                                          *)

Shape(j) ==
  /\ DOMAIN j = {"status", "next"}
  /\ j.status \in {"active", "paused"}
  /\ j.next \in Slots

\* The stages in which a process holds a copy it may write back.
Writing == {"reschedule", "claim", "exec", "pause", "resume"}

TypeInv ==
  /\ clock \in Nat
  /\ job # Absent => Shape(job)
  /\ DOMAIN pc = Procs /\ DOMAIN copy = Procs
  /\ \A p \in Procs : pc[p] \in Writing => Shape(copy[p])
  /\ at \in [Schedulers -> Nat]
  /\ fires \in [Slots -> Nat]

\* A slot that was fired is over, and an active job is past it.
OnceInv ==
  "once" \in promised =>
    /\ \A s \in Slots : fires[s] <= 1
    /\ job # Absent /\ job.status = "active" => \A s \in Slots : fires[s] > 0 => s < job.next
PastInv == \A s \in Slots : fires[s] > 0 => s <= clock

\* While a pause is to hold, nobody is about to write back an active copy without
\* reading the job again.
PauseInv ==
  /\ PauseHolds
  /\ "paused" \in promised => ~Reactivating
  /\ \A p \in Procs : pc[p] = "pause" => copy[p].status = "paused"

IInv == TypeInv /\ OnceInv /\ PastInv /\ PauseInv /\ RemovedIsGone

LEMMA AdvancedFacts ==
  ASSUME NEW j, NEW t \in Nat, Shape(j)
  PROVE  /\ Shape(Advanced(j, t)) /\ Shape(Honoured(Advanced(j, t)))
         /\ Advanced(j, t).status = "active" => Advanced(j, t).next > t
  BY NextSlotFacts DEF Shape, Advanced, Honoured

LEMMA InitIInv == Init => IInv
<1> SUFFICES ASSUME Init PROVE IInv
  OBVIOUS
<1> USE DEF Init
<1>1. NextSlot(0) \in Slots
  BY NextSlotFacts
<1>2. TypeInv
  BY <1>1 DEF TypeInv, Shape, Active, Writing
<1>3. OnceInv /\ PastInv
  BY DEF OnceInv, PastInv
<1>4. PauseInv /\ RemovedIsGone
  BY DEF PauseInv, PauseHolds, RemovedIsGone, Reactivating
<1> QED
  BY <1>2, <1>3, <1>4 DEF IInv

-----------------------------------------------------------------------------
(* Steps.                                                                  *)

LEMMA TypeScheduler ==
  ASSUME TypeInv, NEW s \in Schedulers, Scheduler(s)
  PROVE  TypeInv'
<1> USE DEF TypeInv, Goto, Keep, files, bounds, Writing, Procs
<1>1. CASE ListOverdue(s) \/ ListDue(s)
  BY <1>1 DEF ListOverdue, ListDue, Due
<1>2. CASE Reschedule(s)
  <2>1. Shape(copy[s])
    BY <1>2 DEF Reschedule
  <2>2. PICK now \in at[s]..clock :
          IF dir /\ NextSlot(now) # NoSlot
            THEN job' = [copy[s] EXCEPT !.next = NextSlot(now)]
            ELSE job' = job
    BY <1>2, <2>1 DEF Reschedule, Shape
  <2>3. now \in Nat
    BY <2>2
  <2>4. job' # Absent => Shape(job')
    BY <2>1, <2>2, <2>3, NextSlotFacts DEF Shape
  <2> QED
    BY <1>2, <2>4 DEF Reschedule
<1>3. CASE Claim(s)
  <2>1. CASE Due(job)
    <3>1. Shape(job) /\ Shape(copy[s])
      BY <1>3, <2>1 DEF Due, Claim
    <3>2. Shape(job')
      BY <1>3, <2>1, <3>1, AdvancedFacts DEF Claim
    <3>3. fires' \in [Slots -> Nat] /\ at' \in [Schedulers -> Nat]
      BY <1>3, <2>1, <3>1 DEF Claim, Shape
    <3> QED
      BY <1>3, <2>1, <3>2, <3>3 DEF Claim
  <2>2. CASE ~Due(job)
    BY <1>3, <2>2 DEF Claim
  <2> QED
    BY <2>1, <2>2
<1>4. CASE Persist(s) \/ PersistBlindly(s)
  <2>1. Shape(copy[s]) /\ at[s] \in Nat
    BY <1>4 DEF Persist, PersistBlindly
  <2>2. Shape(Fired(s)) /\ Shape(Honoured(Fired(s)))
    BY <2>1, AdvancedFacts DEF Fired
  <2>3. job' # Absent => Shape(job')
    BY <1>4, <2>2 DEF Persist, PersistBlindly
  <2>4. UNCHANGED <<clock, copy, at, fires>>
    BY <1>4 DEF Persist, PersistBlindly
  <2>5. DOMAIN pc' = Procs /\ \A p \in Procs : pc'[p] \in Writing => pc[p] \in Writing
    BY <1>4 DEF Persist, PersistBlindly
  <2> QED
    BY <2>3, <2>4, <2>5
<1>5. CASE PersistFails(s) \/ Record(s) \/ Crash(s)
  BY <1>5 DEF PersistFails, Record, Crash
<1> QED
  BY <1>1, <1>2, <1>3, <1>4, <1>5 DEF Scheduler

LEMMA TypeUser ==
  ASSUME TypeInv, NEW u \in Users, User(u)
  PROVE  TypeInv'
<1> USE DEF TypeInv, Goto, Keep, files, bounds, Writing, Procs, Command
<1>1. CASE PauseGet(u)
  BY <1>1 DEF PauseGet, Shape
<1>2. CASE ResumeGet(u)
  <2>1. NextSlot(clock) \in Slots
    BY <1>2, NextSlotFacts DEF ResumeGet
  <2> QED
    BY <1>2, <2>1 DEF ResumeGet, Shape
<1>3. CASE PauseUpdate(u) \/ ResumeUpdate(u)
  <2>1. job' # Absent => Shape(job')
    BY <1>3 DEF PauseUpdate, ResumeUpdate
  <2> QED
    BY <1>3, <2>1 DEF PauseUpdate, ResumeUpdate
<1>4. CASE Remove(u) \/ RemoveFails(u)
  BY <1>4 DEF Remove, RemoveFails
<1> QED
  BY <1>1, <1>2, <1>3, <1>4 DEF User

\* A write of j by a process other than a claiming scheduler.
LEMMA WriteKeepsOnce ==
  ASSUME TypeInv, OnceInv, PastInv, NEW j, Shape(j),
         job' = j, promised' \subseteq Timely(j), fires' = fires
  PROVE  OnceInv'
<1> SUFFICES ASSUME "once" \in promised'
             PROVE  /\ \A s \in Slots : fires[s] <= 1
                    /\ j.status = "active" => \A s \in Slots : fires[s] > 0 => s < j.next
  BY DEF OnceInv
<1>1. "once" \in promised /\ ~(j.status = "active" /\ j.next <= clock)
  BY DEF Timely
<1>2. ASSUME j.status = "active", NEW s \in Slots, fires[s] > 0 PROVE s < j.next
  <2>1. s \in Int /\ clock \in Int /\ j.next \in Int
    BY SlotsAreInts DEF TypeInv, Shape
  <2>2. ~(j.next <= clock) /\ s <= clock
    BY <1>1, <1>2 DEF PastInv
  <2> QED
    BY <2>1, <2>2
<1> QED
  BY <1>1, <1>2 DEF OnceInv

LEMMA OnceScheduler ==
  ASSUME TypeInv, OnceInv, PastInv, NEW s \in Schedulers, Scheduler(s)
  PROVE  OnceInv' /\ PastInv'
<1> USE DEF files, bounds
<1>1. CASE ListOverdue(s) \/ ListDue(s) \/ PersistFails(s) \/ Record(s) \/ Crash(s)
  <2>1. UNCHANGED <<clock, job, fires, promised>>
    BY <1>1 DEF ListOverdue, ListDue, PersistFails, Record, Crash
  <2> QED
    BY <2>1 DEF OnceInv, PastInv
<1>2. CASE Reschedule(s)
  <2>0. UNCHANGED <<clock, fires>>
    BY <1>2 DEF Reschedule
  <2>1. Shape(copy[s])
    BY <1>2 DEF Reschedule, TypeInv, Writing, Procs
  <2>2. PICK now \in at[s]..clock :
          IF dir /\ [copy[s] EXCEPT !.next = NextSlot(now)].next # NoSlot
            THEN /\ job' = [copy[s] EXCEPT !.next = NextSlot(now)]
                 /\ promised' = Timely([copy[s] EXCEPT !.next = NextSlot(now)])
            ELSE UNCHANGED <<job, promised>>
    BY <1>2 DEF Reschedule
  <2>3. CASE UNCHANGED <<job, promised>>
    BY <2>0, <2>3 DEF OnceInv, PastInv
  <2>4. CASE dir /\ [copy[s] EXCEPT !.next = NextSlot(now)].next # NoSlot
    <3>1. now \in Nat
      BY DEF TypeInv
    <3>2. Shape([copy[s] EXCEPT !.next = NextSlot(now)])
      BY <2>1, <2>4, <3>1, NextSlotFacts DEF Shape
    <3> QED
      BY <2>0, <2>2, <2>4, <3>2, WriteKeepsOnce DEF PastInv
  <2> QED
    BY <2>2, <2>3, <2>4
<1>3. CASE Claim(s)
  <2>1. CASE ~Due(job)
    BY <1>3, <2>1 DEF Claim, OnceInv, PastInv
  <2>2. CASE Due(job)
    <3>0. /\ job # Absent /\ job.status = "active" /\ job.next <= clock /\ Shape(job)
          /\ job.next \in Slots /\ clock \in Nat
      BY <2>2 DEF Due, TypeInv, Shape
    <3>1. /\ job' = Advanced(job, clock) /\ UNCHANGED <<clock, promised>>
          /\ fires' = [fires EXCEPT ![job.next] = @ + 1]
      BY <1>3, <2>2 DEF Claim
    <3>2. \A t \in Slots : fires'[t] > 0 => t = job.next \/ fires[t] > 0
      BY <3>1 DEF TypeInv
    <3>3. PastInv'
      BY <3>0, <3>1, <3>2 DEF PastInv
    <3>4. ASSUME "once" \in promised' PROVE \A t \in Slots : fires'[t] <= 1
      <4>0. job.next \in Int
        BY <3>0, SlotsAreInts
      <4>1. ~ (fires[job.next] > 0)
        BY <3>0, <3>1, <3>4, <4>0 DEF OnceInv
      <4>2. fires'[job.next] = 1 /\ \A t \in Slots : t # job.next => fires'[t] = fires[t]
        BY <3>0, <3>1, <4>1 DEF TypeInv
      <4> QED
        BY <3>1, <3>4, <4>2 DEF OnceInv
    <3>5. ASSUME job'.status = "active", NEW t \in Slots, fires'[t] > 0 PROVE t < job'.next
      <4>1. t <= clock
        BY <3>1, <3>3, <3>5 DEF PastInv
      <4>2. clock < job'.next /\ job'.next \in Slots
        BY <3>0, <3>1, <3>5, AdvancedFacts DEF Shape
      <4>3. t \in Int /\ clock \in Int /\ job'.next \in Int
        BY <3>0, <4>2, SlotsAreInts
      <4> QED
        BY <4>1, <4>2, <4>3
    <3> QED
      BY <3>3, <3>4, <3>5 DEF OnceInv
  <2> QED
    BY <2>1, <2>2
<1>4. CASE Persist(s) \/ PersistBlindly(s)
  <2>0. UNCHANGED <<clock, fires>>
    BY <1>4 DEF Persist, PersistBlindly
  <2>1. Shape(copy[s]) /\ at[s] \in Nat
    BY <1>4 DEF Persist, PersistBlindly, TypeInv, Writing, Procs
  <2>2. Shape(Fired(s)) /\ Shape(Honoured(Fired(s)))
    BY <2>1, AdvancedFacts DEF Fired
  <2>3. \/ UNCHANGED <<job, promised>>
        \/ job' = Honoured(Fired(s)) /\ promised' \subseteq Timely(Honoured(Fired(s)))
        \/ job' = Fired(s) /\ promised' \subseteq Timely(Fired(s))
    BY <1>4 DEF Persist, PersistBlindly
  <2>4. CASE UNCHANGED <<job, promised>>
    BY <2>0, <2>4 DEF OnceInv, PastInv
  <2> QED
    BY <2>0, <2>2, <2>3, <2>4, WriteKeepsOnce DEF PastInv
<1> QED
  BY <1>1, <1>2, <1>3, <1>4 DEF Scheduler

LEMMA OnceUser ==
  ASSUME TypeInv, OnceInv, PastInv, PauseInv, NEW u \in Users, User(u)
  PROVE  OnceInv' /\ PastInv'
<1> USE DEF files, bounds, Command
<1>0. UNCHANGED <<clock, fires>>
  BY DEF User, PauseGet, PauseUpdate, ResumeGet, ResumeUpdate, Remove, RemoveFails
<1>1. CASE PauseGet(u) \/ ResumeGet(u)
  <2>1. job' = job /\ promised' \subseteq promised
    BY <1>1 DEF PauseGet, ResumeGet
  <2> QED
    BY <1>0, <2>1 DEF OnceInv, PastInv
<1>2. CASE PauseUpdate(u)
  <2>1. copy[u].status = "paused"
    BY <1>2 DEF PauseUpdate, PauseInv, Procs
  <2>2. "once" \in promised' => "once" \in promised
    BY <1>2 DEF PauseUpdate
  <2>3. job' = job \/ job' = copy[u]
    BY <1>2 DEF PauseUpdate
  <2> QED
    BY <1>0, <2>1, <2>2, <2>3 DEF OnceInv, PastInv
<1>3. CASE ResumeUpdate(u)
  <2>1. Shape(copy[u])
    BY <1>3 DEF ResumeUpdate, TypeInv, Writing, Procs
  <2>2. CASE UNCHANGED <<job, promised>>
    BY <1>0, <2>2 DEF OnceInv, PastInv
  <2>3. CASE job' = copy[u] /\ promised' = Timely(copy[u])
    BY <1>0, <2>1, <2>3, WriteKeepsOnce DEF PastInv
  <2> QED
    BY <1>3, <2>2, <2>3 DEF ResumeUpdate
<1>4. CASE Remove(u) \/ RemoveFails(u)
  <2>1. job' = Absent /\ ("once" \in promised' => "once" \in promised)
    BY <1>4 DEF Remove, RemoveFails
  <2> QED
    BY <1>0, <2>1 DEF OnceInv, PastInv
<1> QED
  BY <1>1, <1>2, <1>3, <1>4 DEF User

LEMMA PauseScheduler ==
  ASSUME TypeInv, PauseInv, NEW s \in Schedulers, Scheduler(s)
  PROVE  PauseInv'
<1> USE DEF files, bounds, Goto, Keep
<1>1. "paused" \in promised' => "paused" \in promised
  <2>1. CASE ListOverdue(s) \/ ListDue(s) \/ Claim(s) \/ PersistFails(s) \/ Record(s) \/ Crash(s)
    BY <2>1 DEF ListOverdue, ListDue, Claim, PersistFails, Record, Crash
  <2>2. CASE Reschedule(s) \/ Persist(s) \/ PersistBlindly(s)
    BY <2>2 DEF Reschedule, Persist, PersistBlindly, Timely
  <2> QED
    BY <2>1, <2>2 DEF Scheduler
<1>2. \A p \in Procs : p # s => pc'[p] = pc[p] /\ copy'[p] = copy[p]
  BY DEF Scheduler, ListOverdue, Reschedule, ListDue, Claim, Persist, PersistBlindly, PersistFails,
         Record, Crash, TypeInv
<1>3. /\ pc'[s] \notin {"pause", "resume"}
      /\ pc'[s] = "reschedule" => Due(job)
  BY DEF Scheduler, ListOverdue, Reschedule, ListDue, Claim, Persist, PersistBlindly, PersistFails,
         Record, Crash, TypeInv, Procs
<1>4. ASSUME "paused" \in promised' PROVE job' = Absent \/ job'.status = "paused"
  <2>1. /\ job = Absent \/ job.status = "paused"
        /\ ~Reactivating /\ ~Due(job)
    BY <1>1, <1>4 DEF PauseInv, PauseHolds, Due
  <2>2. CASE ListOverdue(s) \/ ListDue(s) \/ PersistFails(s) \/ Record(s) \/ Crash(s)
    BY <2>1, <2>2 DEF ListOverdue, ListDue, PersistFails, Record, Crash
  <2>3. CASE Claim(s)
    BY <2>1, <2>3 DEF Claim
  <2>4. CASE Reschedule(s)
    BY <2>1, <2>4 DEF Reschedule, Reactivating, Procs
  <2>5. CASE Persist(s)
    <3>1. Shape(Fired(s))
      BY <2>5, AdvancedFacts DEF Persist, Fired, TypeInv, Writing, Procs
    <3>2. CASE job = Absent
      BY <2>5, <3>2 DEF Persist
    <3>3. CASE job # Absent
      <4>1. job' = [Fired(s) EXCEPT !.status = "paused"]
        BY <2>1, <2>5, <3>3 DEF Persist, Honoured
      <4> QED
        BY <3>1, <4>1 DEF Shape
    <3> QED
      BY <3>2, <3>3
  <2>6. CASE PersistBlindly(s)
    BY <1>4, <2>6 DEF PersistBlindly
  <2> QED
    BY <2>2, <2>3, <2>4, <2>5, <2>6 DEF Scheduler
<1>5. ASSUME "paused" \in promised' PROVE ~Reactivating'
  <2>1. ~Reactivating /\ ~Due(job)
    BY <1>1, <1>5 DEF PauseInv, PauseHolds, Due
  <2> QED
    BY <1>2, <1>3, <2>1 DEF Reactivating
<1>6. \A p \in Procs : pc'[p] = "pause" => copy'[p].status = "paused"
  BY <1>2, <1>3 DEF PauseInv
<1> QED
  BY <1>4, <1>5, <1>6 DEF PauseInv, PauseHolds

LEMMA PauseUser ==
  ASSUME TypeInv, PauseInv, NEW u \in Users, User(u)
  PROVE  PauseInv'
<1> USE DEF files, bounds, Goto, Keep, Command
<1>0. u \in Procs
  BY DEF Procs
<1>1. CASE PauseGet(u)
  <2>1. Shape(job)
    BY <1>1 DEF PauseGet, TypeInv
  <2>2. /\ pc' = [pc EXCEPT ![u] = "pause"]
        /\ copy' = [copy EXCEPT ![u] = [job EXCEPT !.status = "paused"]]
        /\ UNCHANGED <<job, promised>>
    BY <1>1 DEF PauseGet
  <2>3. \A p \in Procs : pc'[p] = "pause" => copy'[p].status = "paused"
    BY <2>1, <2>2 DEF PauseInv, TypeInv, Shape
  <2>4. Reactivating' => Reactivating
    BY <2>2 DEF Reactivating, TypeInv
  <2> QED
    BY <2>2, <2>3, <2>4 DEF PauseInv, PauseHolds
<1>2. CASE PauseUpdate(u)
  <2>1. copy[u].status = "paused"
    BY <1>0, <1>2 DEF PauseUpdate, PauseInv
  <2>2. pc' = [pc EXCEPT ![u] = "idle"] /\ copy' = copy
    BY <1>2 DEF PauseUpdate
  <2>3. (Reactivating' => Reactivating) /\ \A p \in Procs : pc'[p] = "pause" => pc[p] = "pause"
    BY <2>2 DEF Reactivating, TypeInv
  <2>4. "paused" \in promised' => ~Reactivating
    BY <1>2 DEF PauseUpdate, PauseInv
  <2>5. "paused" \in promised' => job' = Absent \/ job'.status = "paused"
    BY <1>2, <2>1 DEF PauseUpdate, PauseInv, PauseHolds
  <2> QED
    BY <2>2, <2>3, <2>4, <2>5 DEF PauseInv, PauseHolds
<1>3. CASE ResumeGet(u)
  <2>1. "paused" \notin promised' /\ pc' = [pc EXCEPT ![u] = "resume"]
    BY <1>3 DEF ResumeGet
  <2>2. \A p \in Procs : p # u => copy'[p] = copy[p]
    BY <1>3 DEF ResumeGet, TypeInv
  <2> QED
    BY <2>1, <2>2 DEF PauseInv, PauseHolds, TypeInv
<1>4. CASE ResumeUpdate(u)
  <2>1. pc[u] = "resume" /\ pc' = [pc EXCEPT ![u] = "idle"] /\ copy' = copy
    BY <1>4 DEF ResumeUpdate
  <2>2. "paused" \notin promised
    BY <1>0, <2>1 DEF PauseInv, Reactivating
  <2>3. "paused" \notin promised'
    BY <1>4, <2>2 DEF ResumeUpdate, Timely
  <2> QED
    BY <2>1, <2>3 DEF PauseInv, PauseHolds, TypeInv
<1>5. CASE Remove(u) \/ RemoveFails(u)
  <2>1. /\ job' = Absent /\ UNCHANGED <<pc, copy>>
        /\ "paused" \in promised' => "paused" \in promised
    BY <1>5 DEF Remove, RemoveFails
  <2> QED
    BY <2>1 DEF PauseInv, PauseHolds, Reactivating
<1> QED
  BY <1>1, <1>2, <1>3, <1>4, <1>5 DEF User

LEMMA RemovedScheduler ==
  ASSUME RemovedIsGone, NEW s \in Schedulers, Scheduler(s)
  PROVE  RemovedIsGone'
<1> USE DEF files, bounds, RemovedIsGone
<1>1. CASE ListOverdue(s) \/ ListDue(s) \/ PersistFails(s) \/ Crash(s)
  BY <1>1 DEF ListOverdue, ListDue, PersistFails, Crash
<1>2. CASE Reschedule(s)
  BY <1>2 DEF Reschedule, Timely
<1>3. CASE Claim(s)
  BY <1>3 DEF Claim, Due
<1>4. CASE Persist(s) \/ PersistBlindly(s)
  BY <1>4 DEF Persist, PersistBlindly, Timely
<1>5. CASE Record(s)
  BY <1>5 DEF Record, HasMetadata
<1> QED
  BY <1>1, <1>2, <1>3, <1>4, <1>5 DEF Scheduler

LEMMA RemovedUser ==
  ASSUME RemovedIsGone, NEW u \in Users, User(u)
  PROVE  RemovedIsGone'
<1> USE DEF files, bounds, RemovedIsGone, Command
<1>1. CASE PauseGet(u) \/ ResumeGet(u) \/ Remove(u) \/ RemoveFails(u)
  BY <1>1 DEF PauseGet, ResumeGet, Remove, RemoveFails
<1>2. CASE PauseUpdate(u) \/ ResumeUpdate(u)
  BY <1>2 DEF PauseUpdate, ResumeUpdate, Timely
<1> QED
  BY <1>1, <1>2 DEF User

LEMMA NextIInv ==
  ASSUME IInv, [Next]_vars
  PROVE  IInv'
<1> USE DEF IInv
<1>1. CASE UNCHANGED vars
  BY <1>1 DEF vars, files, bounds, TypeInv, OnceInv, PastInv, PauseInv, PauseHolds, Reactivating, RemovedIsGone
<1>2. CASE Tick
  <2>1. UNCHANGED <<dir, job, pc, copy, at, fires, promised>> /\ clock' = clock + 1
    BY <1>2 DEF Tick, files
  <2>2. TypeInv'
    BY <2>1 DEF TypeInv
  <2>3. PastInv'
    BY <2>1, SlotsAreInts DEF PastInv, TypeInv
  <2> QED
    BY <2>1, <2>2, <2>3 DEF OnceInv, PauseInv, PauseHolds, Reactivating, RemovedIsGone
<1>3. ASSUME NEW s \in Schedulers, Scheduler(s) PROVE IInv'
  BY <1>3, TypeScheduler, OnceScheduler, PauseScheduler, RemovedScheduler
<1>4. ASSUME NEW u \in Users, User(u) PROVE IInv'
  BY <1>4, TypeUser, OnceUser, PauseUser, RemovedUser
<1> QED
  BY <1>1, <1>2, <1>3, <1>4 DEF Next

\* The invariant holds in every state.
THEOREM CronInvariant == Spec => []IInv
<1>1. IInv /\ [Next]_vars => IInv'
  BY NextIInv
<1> QED
  BY InitIInv, <1>1, PTL DEF Spec

-----------------------------------------------------------------------------
(* The theorems.                                                           *)

\* For any number of schedulers and commands, and any schedule: no slot is fired
\* twice unless the job was written back, active, for a slot that had come.
\* (claimFire)
THEOREM SlotsFireOnce == Spec => []SlotFiresOnce
<1>1. IInv => SlotFiresOnce
  BY DEF IInv, OnceInv, SlotFiresOnce
<1> QED
  BY CronInvariant, <1>1, PTL

\* A pause survives every run that was under way when it was made.  (the persist of
\* fireJob)
THEOREM PausesHold == Spec => []PauseHolds
<1>1. IInv => PauseHolds
  BY DEF IInv, PauseInv
<1> QED
  BY CronInvariant, <1>1, PTL

\* No copy that is still held brings a removed job back.  (Update, Mutate, AppendRun)
THEOREM RemovedForever == Spec => []RemovedIsGone
<1>1. IInv => RemovedIsGone
  BY DEF IInv
<1> QED
  BY CronInvariant, <1>1, PTL
=============================================================================
