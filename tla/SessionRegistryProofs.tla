----------------------- MODULE SessionRegistryProofs -----------------------
(***************************************************************************)
(* Theorems about SessionRegistry, for any number of ids, clients and      *)
(* starts, and any cap.                                                    *)
(***************************************************************************)
EXTENDS SessionRegistry, FiniteSetTheorems, TLAPS

LEMMA SeqTypes ==
  ASSUME NEW S
  PROVE  /\ <<>> \in Seq(S)
         /\ \A q \in Seq(S), x \in S :
              /\ Append(q, x) \in Seq(S) /\ Len(Append(q, x)) = Len(q) + 1
              /\ Append(q, x)[Len(q) + 1] = x
              /\ \A i \in 1..Len(q) : Append(q, x)[i] = q[i]
         /\ \A q \in Seq(S) : q # <<>> => Head(q) \in S /\ Tail(q) \in Seq(S)
         /\ \A q \in Seq(S) : Len(q) \in Nat /\ \A i \in 1..Len(q) : q[i] \in S
  OBVIOUS

\* The phases are a sequence as long as that of the ids.
TypeInv == TypeOK /\ phase \in Seq({"open", "done", "failed"}) /\ Len(phase) = Len(idOf)

LEMMA TypeStep == TypeInv /\ [Next]_vars => TypeInv'
<1> SUFFICES ASSUME TypeInv, [Next]_vars PROVE TypeInv'
  OBVIOUS
<1> USE RegistryAssumption DEF TypeInv, TypeOK, Objects, Goto, handlerVars
<1>1. ASSUME NEW c \in Clients, NEW id \in Ids, Start(c, id) PROVE TypeInv'
  <2>1. Len(idOf) \in Nat /\ Len(phase) = Len(idOf) /\ Len(idOf) < MaxStarts
    BY <1>1, SeqTypes DEF Start
  <2>2. /\ idOf' \in Seq(Ids) /\ Len(idOf') = Len(idOf) + 1
        /\ phase' \in Seq({"open", "done", "failed"}) /\ Len(phase') = Len(idOf')
        /\ order' \in Seq(Ids)
    BY <1>1, <2>1, SeqTypes DEF Start
  <2>3. /\ Objects' = 1..(Len(idOf) + 1) /\ Objects \subseteq Objects'
        /\ Len(idOf) + 1 \in Objects'
    BY <2>1, <2>2
  <2>4. phase' \in [Objects' -> {"open", "done", "failed"}]
    BY <2>2
  <2>5. /\ sessions' \in [Ids -> Objects' \cup {None}]
        /\ stream' \in [Clients -> Objects' \cup {None}]
        /\ shown' \in [Clients -> Objects' \cup {None}]
        /\ stage' \in [Clients -> {"new", "attached", "streaming", "told"}]
        /\ told' \in [Clients -> {"none", "end", "error"}]
    BY <1>1, <2>3 DEF Start
  <2>6. stream'[c] # None /\ \A d \in Clients : stage'[d] \in {"attached", "streaming"} => stream'[d] # None
    BY <1>1, <2>1 DEF Start, None
  <2>7. scan' \in [todo : Seq(Ids), kept : Seq(Ids), old : SUBSET Objects']
    BY <1>1, <2>2, <2>3, SeqTypes DEF Start, Idle
  <2>8. Len(idOf') <= MaxStarts
    BY <2>1, <2>2
  <2> QED
    BY <2>2, <2>4, <2>5, <2>6, <2>7, <2>8
<1>2. ASSUME NEW c \in Clients, NEW id \in Ids, StartRefused(c, id) PROVE TypeInv'
  BY <1>2 DEF StartRefused
<1>3. CASE Prune
  <2>1. Head(scan.todo) \in Ids /\ Tail(scan.todo) \in Seq(Ids)
    BY <1>3, SeqTypes DEF Prune
  <2>2. Append(scan.kept, Head(scan.todo)) \in Seq(Ids)
    BY <2>1, SeqTypes
  <2>3. scan' \in [todo : Seq(Ids), kept : Seq(Ids), old : SUBSET Objects]
    BY <1>3, <2>1, <2>2 DEF Prune
  <2>4. sessions' \in [Ids -> Objects \cup {None}]
    BY <1>3, <2>1 DEF Prune
  <2>5. UNCHANGED <<idOf, phase, order, stage, stream, shown, told>>
    BY <1>3 DEF Prune
  <2> QED
    BY <2>3, <2>4, <2>5
<1>4. CASE PruneEnd
  BY <1>4, SeqTypes DEF PruneEnd, Idle
<1>5. ASSUME NEW o \in 1..MaxStarts, NEW outcome \in {"done", "failed"}, Finish(o, outcome)
      PROVE  TypeInv'
  <2>1. phase' \in Seq({"open", "done", "failed"}) /\ Len(phase') = Len(phase)
    BY <1>5 DEF Finish
  <2>2. phase' \in [Objects -> {"open", "done", "failed"}]
    BY <1>5 DEF Finish
  <2> QED
    BY <1>5, <2>1, <2>2 DEF Finish
<1>6. ASSUME NEW c \in Clients, NEW id \in Ids, Attach(c, id) PROVE TypeInv'
  BY <1>6 DEF Attach
<1>7. ASSUME NEW c \in Clients, AttachGet(c) PROVE TypeInv'
  <2>1. stream[c] \in Objects
    BY <1>7 DEF AttachGet
  <2>2. idOf[stream[c]] \in Ids
    BY <2>1, SeqTypes
  <2>3. sessions[idOf[stream[c]]] \in Objects \cup {None}
    BY <2>2
  <2> QED
    BY <1>7, <2>3 DEF AttachGet
<1>8. ASSUME NEW c \in Clients, FinishStream(c) PROVE TypeInv'
  BY <1>8 DEF FinishStream
<1>9. CASE UNCHANGED vars
  BY <1>9 DEF vars
<1> QED
  BY <1>1, <1>2, <1>3, <1>4, <1>5, <1>6, <1>7, <1>8, <1>9 DEF Next

LEMMA TypeInvariant == Spec => []TypeInv
<1>1. Init => TypeInv
  BY SeqTypes, RegistryAssumption DEF Init, TypeInv, TypeOK, Objects, Idle
<1> QED
  BY <1>1, TypeStep, PTL DEF Spec

\* The variables keep their types.
THEOREM TypeCorrect == Spec => []TypeOK
<1>1. TypeInv => TypeOK
  BY DEF TypeInv
<1> QED
  BY <1>1, TypeInvariant, PTL

-----------------------------------------------------------------------------
\* A session that runs stays attachable under its id: for any cap, also one that
\* the running sessions exceed, and for sessions that finish during a scan.
THEOREM OpenStayRegistered == Spec => []OpenSessionsRegistered
<1>1. Init => OpenSessionsRegistered
  BY DEF Init, OpenSessionsRegistered, Objects
<1>2. TypeInv /\ OpenSessionsRegistered /\ [Next]_vars => OpenSessionsRegistered'
  <2> SUFFICES ASSUME TypeInv, OpenSessionsRegistered, [Next]_vars
               PROVE  OpenSessionsRegistered'
    OBVIOUS
  <2>0. /\ phase \in [Objects -> {"open", "done", "failed"}]
        /\ sessions \in [Ids -> Objects \cup {None}]
        /\ Objects = 1..Len(idOf) /\ Len(idOf) \in Nat
        /\ \A o \in Objects : idOf[o] \in Ids
    BY SeqTypes DEF TypeInv, TypeOK, Objects
  <2> USE DEF OpenSessionsRegistered, Finished, handlerVars
  <2>1. ASSUME NEW c \in Clients, NEW id \in Ids, Start(c, id) PROVE OpenSessionsRegistered'
    <3> DEFINE n == Len(idOf) + 1
    <3>1. Objects' = Objects \cup {n} /\ n \notin Objects
      BY <2>0, <2>1, SeqTypes DEF Start, Objects, TypeInv, TypeOK
    <3>2. \A o \in Objects : idOf'[o] = idOf[o] /\ phase'[o] = phase[o]
      BY <2>0, <2>1, SeqTypes DEF Start, TypeInv, TypeOK
    <3>3. idOf'[n] = id /\ sessions' = [sessions EXCEPT ![id] = n]
      BY <2>1, SeqTypes DEF Start, TypeInv, TypeOK
    <3>4. \A o \in Objects : ~ Finished(o) => idOf[o] # id
      BY <2>0, <2>1 DEF Start, None
    <3> QED
      BY <2>0, <3>1, <3>2, <3>3, <3>4
  <2>2. CASE Prune
    <3>1. UNCHANGED <<idOf, phase>>
      BY <2>2 DEF Prune
    <3>2. \/ sessions' = sessions
          \/ /\ Finished(sessions[Head(scan.todo)])
             /\ sessions' = [sessions EXCEPT ![Head(scan.todo)] = None]
      BY <2>2 DEF Prune
    <3> QED
      BY <2>0, <3>1, <3>2 DEF Objects
  <2>3. ASSUME NEW o \in 1..MaxStarts, NEW outcome \in {"done", "failed"}, Finish(o, outcome)
        PROVE  OpenSessionsRegistered'
    BY <2>0, <2>3 DEF Finish, Objects
  <2>4. CASE UNCHANGED <<idOf, phase, sessions>>
    BY <2>4 DEF Objects
  <2> QED
    BY <2>1, <2>2, <2>3, <2>4 DEF Next, StartRefused, PruneEnd, Attach, AttachGet, FinishStream, vars
<1> QED
  BY <1>1, <1>2, TypeInvariant, PTL DEF Spec

-----------------------------------------------------------------------------
LEMMA RegisteredFinite == IsFiniteSet(Registered) /\ Cardinality(Registered) \in Nat
  BY RegistryAssumption, FS_Subset, FS_CardinalityType DEF Registered

\* Eviction takes a session only while the registry is over its cap.
THEOREM EvictedOnlyForRoom == Spec => []ForgottenOnlyForRoom
<1>1. Init => ForgottenOnlyForRoom
  BY DEF Init, ForgottenOnlyForRoom, Objects
<1>2. TypeInv /\ ForgottenOnlyForRoom /\ [Next]_vars => ForgottenOnlyForRoom'
  <2> SUFFICES ASSUME TypeInv, ForgottenOnlyForRoom, [Next]_vars PROVE ForgottenOnlyForRoom'
    OBVIOUS
  <2> DEFINE Forgotten == \E o \in Objects : sessions[idOf[o]] # o
             Size == Cardinality(Registered)
  <2>0. /\ sessions \in [Ids -> Objects \cup {None}]
        /\ Objects = 1..Len(idOf) /\ Len(idOf) \in Nat
        /\ \A o \in Objects : idOf[o] \in Ids
    BY SeqTypes DEF TypeInv, TypeOK, Objects
  <2>1. ASSUME NEW c \in Clients, NEW id \in Ids, Start(c, id) PROVE ForgottenOnlyForRoom'
    <3> DEFINE n == Len(idOf) + 1
    <3>1. Objects' = Objects \cup {n} /\ n # None
      BY <2>0, <2>1, SeqTypes DEF Start, Objects, TypeInv, TypeOK, None
    <3>2. \A o \in Objects : idOf'[o] = idOf[o]
      BY <2>0, <2>1, SeqTypes DEF Start, TypeInv, TypeOK
    <3>3. /\ idOf'[n] = id /\ sessions' = [sessions EXCEPT ![id] = n]
          /\ sessions[id] = None
      BY <2>1, SeqTypes DEF Start, TypeInv, TypeOK
    <3>4. Forgotten' => Forgotten
      BY <2>0, <3>1, <3>2, <3>3 DEF None
    <3>5. Registered' = Registered \cup {id}
      BY <2>0, <3>1, <3>3 DEF Registered
    <3>6. Cardinality(Registered \cup {id}) =
            IF id \in Registered THEN Cardinality(Registered) ELSE Cardinality(Registered) + 1
      BY RegisteredFinite, FS_AddElement
    <3>7. Size' >= Size /\ Size' \in Nat
      BY <3>5, <3>6, RegisteredFinite
    <3> QED
      BY <3>4, <3>7, RegisteredFinite, RegistryAssumption DEF ForgottenOnlyForRoom
  <2>2. CASE Prune
    <3>1. UNCHANGED idOf
      BY <2>2 DEF Prune
    <3>2. CASE Registered' = Registered /\ sessions' = sessions
      BY <3>1, <3>2 DEF ForgottenOnlyForRoom, Objects
    <3>3. CASE sessions' # sessions
      <4> DEFINE id == Head(scan.todo)
      <4>1. OverCap /\ sessions' = [sessions EXCEPT ![id] = None]
        BY <2>2, <3>3 DEF Prune
      <4>2. id \in Registered
        BY <2>0, <3>3, <4>1 DEF Registered
      <4>3. Registered' = Registered \ {id}
        BY <2>0, <4>1 DEF Registered
      <4>4. Size' = Size - 1
        BY <4>2, <4>3, RegisteredFinite, FS_RemoveElement
      <4> QED
        BY <4>1, <4>4, RegisteredFinite, RegistryAssumption DEF ForgottenOnlyForRoom, OverCap
    <3> QED
      BY <3>2, <3>3 DEF Registered
  <2>3. CASE UNCHANGED <<idOf, sessions>>
    BY <2>3 DEF ForgottenOnlyForRoom, Objects, Registered
  <2> QED
    BY <2>1, <2>2, <2>3
    DEF Next, StartRefused, PruneEnd, Finish, Attach, AttachGet, FinishStream, vars
<1> QED
  BY <1>1, <1>2, TypeInvariant, PTL DEF Spec

-----------------------------------------------------------------------------
(* The eviction order.  While a scan compacts it in place, the order is     *)
(* what the scan has kept followed by what it has still to look at.        *)

LEMMA RangeDef == \A q : Range(q) = {q[i] : i \in DOMAIN q}
  BY DEF Range

\* A sequence of ids that lists the registry, oldest session first.
Lists(q) ==
  /\ Range(q) = Registered
  /\ \A i, j \in DOMAIN q : i < j => sessions[q[i]] < sessions[q[j]]

ListInv == IF Locked THEN Lists(scan.kept \o scan.todo) ELSE Lists(order)

LEMMA ConcatEmpty ==
  ASSUME NEW S, NEW q \in Seq(S)
  PROVE  q \o <<>> = q /\ <<>> \o q = q
  OBVIOUS

\* Moving the head of the rest to the end of what is kept changes nothing.
LEMMA KeepHead ==
  ASSUME NEW S, NEW k \in Seq(S), NEW t \in Seq(S), t # <<>>
  PROVE  Append(k, Head(t)) \o Tail(t) = k \o t
  OBVIOUS

LEMMA DropHead ==
  ASSUME NEW S, NEW k \in Seq(S), NEW t \in Seq(S), t # <<>>
  PROVE  /\ k \o t \in Seq(S) /\ k \o Tail(t) \in Seq(S)
         /\ Len(k) \in Nat /\ Len(k \o Tail(t)) \in Nat
         /\ Len(k \o t) = Len(k \o Tail(t)) + 1 /\ Len(k) + 1 <= Len(k \o t)
         /\ (k \o t)[Len(k) + 1] = Head(t)
         /\ \A i \in 1..Len(k \o Tail(t)) :
              (k \o Tail(t))[i] = IF i <= Len(k) THEN (k \o t)[i] ELSE (k \o t)[i + 1]
  OBVIOUS

\* An evicted id leaves the list; the others keep their order.
LEMMA DropLists ==
  ASSUME TypeInv, NEW k \in Seq(Ids), NEW t \in Seq(Ids), t # <<>>, Lists(k \o t),
         sessions' = [sessions EXCEPT ![Head(t)] = None]
  PROVE  Lists(k \o Tail(t))'
<1> DEFINE l == k \o t
           m == k \o Tail(t)
           h == Head(t)
           n == Len(k) + 1
<1>0. /\ sessions \in [Ids -> Objects \cup {None}] /\ Objects = 1..Len(idOf) /\ Len(idOf) \in Nat
      /\ h \in Ids
  BY SeqTypes DEF TypeInv, TypeOK, Objects
<1>1. /\ l \in Seq(Ids) /\ m \in Seq(Ids) /\ n \in 1..Len(l) /\ l[n] = h
      /\ Len(m) \in Nat /\ Len(l) = Len(m) + 1 /\ n \in Nat
      /\ \A i \in 1..Len(m) : m[i] = IF i < n THEN l[i] ELSE l[i + 1]
  BY DropHead
<1>2. DOMAIN l = 1..Len(l) /\ DOMAIN m = 1..Len(m)
  BY <1>1
<1>3. \A i \in 1..Len(l) : l[i] \in Ids /\ sessions[l[i]] \in Nat
  <2>1. Objects \cup {None} \subseteq Nat
    BY <1>0 DEF None
  <2>2. \A i \in 1..Len(l) : l[i] \in Ids
    BY <1>1, SeqTypes
  <2> QED
    BY <1>0, <2>1, <2>2
<1>4. \A i, j \in 1..Len(l) : i < j => sessions[l[i]] < sessions[l[j]]
  BY <1>2 DEF Lists
<1>5. \A i \in 1..Len(l) : i # n => l[i] # h
  <2> SUFFICES ASSUME NEW i \in 1..Len(l), i # n, l[i] = h PROVE FALSE
    OBVIOUS
  <2>1. i < n \/ n < i
    BY <1>1
  <2> QED
    BY <1>1, <1>3, <1>4, <2>1
<1> DEFINE at(i) == IF i < n THEN i ELSE i + 1
<1>6. \A i \in 1..Len(m) : at(i) \in 1..Len(l) /\ at(i) # n /\ m[i] = l[at(i)]
  BY <1>1
<1>7. \A i, j \in 1..Len(m) : i < j => at(i) < at(j)
  BY <1>1
<1>8. \A i \in 1..Len(m) : m[i] \in Ids /\ m[i] # h /\ sessions'[m[i]] = sessions[m[i]]
  BY <1>0, <1>3, <1>5, <1>6
<1> HIDE DEF at, n, l, m, h
<1>9. \A i, j \in DOMAIN m : i < j => sessions'[m[i]] < sessions'[m[j]]
  <2> SUFFICES ASSUME NEW i \in 1..Len(m), NEW j \in 1..Len(m), i < j
               PROVE  sessions'[m[i]] < sessions'[m[j]]
    BY <1>2
  <2>1. at(i) \in 1..Len(l) /\ at(j) \in 1..Len(l) /\ at(i) < at(j)
    BY <1>6, <1>7
  <2>2. sessions[l[at(i)]] < sessions[l[at(j)]]
    BY <1>4, <2>1
  <2> QED
    BY <1>6, <1>8, <2>2
<1>10. Range(m) = Range(l) \ {h}
  <2>1. \A x \in Range(m) : x \in Range(l) /\ x # h
    BY ONLY <1>2, <1>6, <1>8, RangeDef
  <2>2. ASSUME NEW i \in 1..Len(l), l[i] # h PROVE l[i] \in Range(m)
    <3>1. CASE i < n
      <4>1. i \in 1..Len(m) /\ m[i] = l[i]
        BY <1>1, <3>1
      <4> QED
        BY <1>2, <4>1, RangeDef
    <3>2. CASE n < i
      <4>0. i - 1 \in 1..Len(m) /\ ~ (i - 1 < n) /\ (i - 1) + 1 = i
        BY <1>1, <3>2
      <4>1. i - 1 \in 1..Len(m) /\ m[i - 1] = l[i]
        BY <1>1, <4>0
      <4> QED
        BY <1>2, <4>1, RangeDef
    <3> QED
      BY <1>1, <2>2, <3>1, <3>2
  <2> QED
    BY <1>2, <2>1, <2>2, RangeDef
<1>11. Registered' = Registered \ {h}
  BY <1>0 DEF Registered, h
<1> QED
  BY <1>9, <1>10, <1>11 DEF Lists, l, m, h

LEMMA AppendLists ==
  ASSUME TypeInv, NEW q \in Seq(Ids), Lists(q), NEW id \in Ids, sessions[id] = None,
         sessions' = [sessions EXCEPT ![id] = Len(idOf) + 1]
  PROVE  Lists(Append(q, id))'
<1> DEFINE r == Append(q, id)
           o == Len(idOf) + 1
<1>0. /\ sessions \in [Ids -> Objects \cup {None}] /\ Objects = 1..Len(idOf) /\ Len(idOf) \in Nat
  BY SeqTypes DEF TypeInv, TypeOK, Objects
<1>1. /\ r \in Seq(Ids) /\ Len(r) = Len(q) + 1 /\ r[Len(q) + 1] = id /\ Len(q) \in Nat
      /\ \A i \in 1..Len(q) : r[i] = q[i] /\ q[i] \in Ids
      /\ DOMAIN r = 1..Len(r) /\ DOMAIN q = 1..Len(q)
  BY SeqTypes
<1>2. \A i \in 1..Len(q) : sessions[q[i]] # None
  BY <1>1, RangeDef DEF Lists, Registered
<1>3. \A i \in 1..Len(q) : q[i] # id /\ sessions'[r[i]] = sessions[q[i]]
  BY <1>0, <1>1, <1>2
<1>4. \A i \in 1..Len(q) : sessions[q[i]] < o
  BY <1>0, <1>1, <1>2 DEF None
<1>5. sessions'[r[Len(q) + 1]] = o
  BY <1>0, <1>1
<1>6. \A i, j \in DOMAIN r : i < j => sessions'[r[i]] < sessions'[r[j]]
  <2> SUFFICES ASSUME NEW i \in 1..Len(r), NEW j \in 1..Len(r), i < j
               PROVE  sessions'[r[i]] < sessions'[r[j]]
    BY <1>1
  <2>1. i \in 1..Len(q) /\ (j \in 1..Len(q) \/ j = Len(q) + 1)
    BY <1>1
  <2>2. j \in 1..Len(q) => sessions[q[i]] < sessions[q[j]]
    BY <1>1, <2>1 DEF Lists
  <2> QED
    BY <1>3, <1>4, <1>5, <2>1, <2>2
<1>7. Range(r) = Range(q) \cup {id}
  <2>1. 1..Len(r) = 1..Len(q) \cup {Len(q) + 1}
    BY <1>1
  <2>2. /\ Range(r) = {r[i] : i \in 1..Len(r)}
        /\ Range(q) = {q[i] : i \in 1..Len(q)}
    BY <1>1, RangeDef
  <2>3. \A i \in 1..Len(r) : r[i] = id \/ r[i] \in Range(q)
    BY <1>1, <2>1, <2>2
  <2>4. id \in Range(r) /\ \A i \in 1..Len(q) : q[i] \in Range(r)
    BY <1>1, <2>1, <2>2
  <2> QED
    BY <2>2, <2>3, <2>4
<1>8. Registered' = Registered \cup {id}
  BY <1>0 DEF Registered, None
<1> QED
  BY <1>6, <1>7, <1>8 DEF Lists

LEMMA PruneKeepsList == TypeInv /\ ListInv /\ Prune => ListInv' /\ Locked'
<1> SUFFICES ASSUME TypeInv, ListInv, Prune PROVE ListInv' /\ Locked'
  OBVIOUS
<1> PICK k, t, id : k = scan.kept /\ t = scan.todo /\ id = Head(t)
  OBVIOUS
<1>0. /\ k \in Seq(Ids) /\ t \in Seq(Ids) /\ t # <<>> /\ id \in Ids
      /\ scan \in [todo : Seq(Ids), kept : Seq(Ids), old : SUBSET Objects]
      /\ sessions \in [Ids -> Objects \cup {None}]
  BY SeqTypes DEF Prune, TypeInv, TypeOK
<1>1. Lists(k \o t)
  BY <1>0 DEF ListInv, Locked, Idle
<1>2. CASE OverCap /\ Finished(sessions[id])
  <2>1. /\ sessions' = [sessions EXCEPT ![id] = None]
        /\ scan' = [scan EXCEPT !.todo = Tail(t)]
    BY <1>2 DEF Prune
  <2>2. Lists(k \o Tail(t))'
    BY <1>0, <1>1, <2>1, DropLists DEF Lists
  <2>3. scan'.kept = k /\ scan'.todo = Tail(t)
    BY <1>0, <2>1
  <2>4. CASE id \in Registered
    <3>1. Registered' = Registered \ {id}
      BY <1>0, <2>1 DEF Registered
    <3>2. Cardinality(Registered \ {id}) = Cardinality(Registered) - 1
      BY <2>4, RegisteredFinite, FS_RemoveElement
    <3>3. Cardinality(Registered') # 0
      BY <1>2, <3>1, <3>2, RegisteredFinite, RegistryAssumption DEF OverCap
    <3>4. Registered' # {}
      BY <3>3, FS_EmptySet
    <3>5. Range(<<>>) = {}
      BY RangeDef
    <3>6. scan' # Idle
      <4> SUFFICES ASSUME scan' = Idle PROVE FALSE
        OBVIOUS
      <4>1. k \o Tail(t) = <<>>
        BY <2>3, ConcatEmpty DEF Idle
      <4> QED
        BY <2>2, <3>4, <3>5, <4>1 DEF Lists
    <3> QED
      BY <2>2, <2>3, <3>6 DEF ListInv, Locked, Lists
  <2>5. CASE id \notin Registered
    <3>1. (k \o t)[Len(k) + 1] = id /\ Len(k) + 1 \in DOMAIN (k \o t)
      BY <1>0
    <3>2. id \in Range(k \o t)
      BY <3>1, RangeDef
    <3> QED
      BY <1>1, <2>5, <3>2 DEF Lists
  <2> QED
    BY <2>4, <2>5
<1>3. CASE ~ (OverCap /\ Finished(sessions[id]))
  <2>1. /\ sessions' = sessions
        /\ scan' = [scan EXCEPT !.todo = Tail(t), !.kept = Append(k, id)]
    BY <1>3 DEF Prune
  <2>2. scan'.kept = Append(k, id) /\ scan'.todo = Tail(t)
    BY <1>0, <2>1
  <2>3. Append(k, id) # <<>>
    BY <1>0
  <2>4. Locked'
    BY <2>2, <2>3 DEF Locked, Idle
  <2>5. scan'.kept \o scan'.todo = k \o t
    BY <1>0, <2>2, KeepHead
  <2> QED
    BY <1>1, <2>1, <2>4, <2>5 DEF ListInv, Lists, Registered
<1> QED
  BY <1>2, <1>3

LEMMA ListStep == TypeInv /\ ListInv /\ [Next]_vars => ListInv'
<1> SUFFICES ASSUME TypeInv, ListInv, [Next]_vars PROVE ListInv'
  OBVIOUS
<1>0. order \in Seq(Ids) /\ scan.kept \in Seq(Ids) /\ scan.todo \in Seq(Ids)
  BY DEF TypeInv, TypeOK
<1>1. ASSUME NEW c \in Clients, NEW id \in Ids, Start(c, id) PROVE ListInv'
  <2>1. /\ sessions[id] = None /\ sessions' = [sessions EXCEPT ![id] = Len(idOf) + 1]
        /\ order' = Append(order, id) /\ Lists(order)
    BY <1>1 DEF Start, ListInv
  <2>2. Lists(order)'
    BY <1>0, <2>1, AppendLists DEF Lists
  <2>3. order' \in Seq(Ids) /\ order' # <<>>
    BY <1>0, <2>1
  <2>4. CASE scan' = Idle
    BY <2>2, <2>4 DEF ListInv, Locked
  <2>5. CASE scan' # Idle
    <3>1. scan'.kept = <<>> /\ scan'.todo = order'
      BY <1>1, <2>5 DEF Start
    <3>2. scan'.kept \o scan'.todo = order'
      BY <2>3, <3>1, ConcatEmpty
    <3> QED
      BY <2>2, <2>5, <3>2 DEF ListInv, Locked, Lists
  <2> QED
    BY <2>4, <2>5
<1>2. CASE Prune
  BY <1>2, PruneKeepsList
<1>3. CASE PruneEnd
  <2>1. order' = scan.kept /\ scan' = Idle /\ sessions' = sessions /\ Lists(scan.kept \o <<>>)
    BY <1>3 DEF PruneEnd, ListInv
  <2>2. scan.kept \o <<>> = scan.kept
    BY <1>0, ConcatEmpty
  <2> QED
    BY <2>1, <2>2 DEF ListInv, Locked, Lists, Registered
<1>4. CASE UNCHANGED <<sessions, order, scan>>
  BY <1>4 DEF ListInv, Locked, Lists, Registered
<1> QED
  BY <1>1, <1>2, <1>3, <1>4
  DEF Next, StartRefused, Finish, Attach, AttachGet, FinishStream, vars

LEMMA ListInvariant == Spec => []ListInv
<1>1. Init => ListInv
  BY RangeDef DEF Init, ListInv, Locked, Lists, Registered
<1> QED
  BY <1>1, ListStep, TypeInvariant, PTL DEF Spec

\* Outside of a scan the eviction order lists the registry, oldest first.
THEOREM OrderFollowsRegistry == Spec => []OrderIsRegistry
<1>1. ListInv => OrderIsRegistry
  BY DEF ListInv, Lists, OrderIsRegistry
<1> QED
  BY <1>1, ListInvariant, PTL

-----------------------------------------------------------------------------
\* While a scan has not made enough room, what had finished when it began and is
\* still registered lies ahead of it.
OldInv == \A o \in scan.old : Finished(o)
AheadInv == Locked /\ OverCap =>
  \A o \in scan.old : sessions[idOf[o]] = o => idOf[o] \in Range(scan.todo)

ScanInv == OldInv /\ AheadInv

LEMMA ScanStep == TypeInv /\ ListInv /\ ScanInv /\ [Next]_vars => ScanInv'
<1> SUFFICES ASSUME TypeInv, ListInv, ScanInv, [Next]_vars PROVE ScanInv'
  OBVIOUS
<1>0. /\ phase \in [Objects -> {"open", "done", "failed"}]
      /\ sessions \in [Ids -> Objects \cup {None}]
      /\ Objects = 1..Len(idOf) /\ Len(idOf) \in Nat /\ None \notin Objects
      /\ \A o \in Objects : idOf[o] \in Ids
      /\ scan \in [todo : Seq(Ids), kept : Seq(Ids), old : SUBSET Objects]
  BY SeqTypes DEF TypeInv, TypeOK, Objects, None
<1>1. ASSUME NEW c \in Clients, NEW id \in Ids, Start(c, id) PROVE ScanInv'
  <2>1. \/ scan' = Idle
        \/ scan' = [todo |-> order', kept |-> <<>>, old |-> {p \in Objects : Finished(p)}]
    BY <1>1 DEF Start
  <2>2. CASE scan' = Idle
    BY <2>2 DEF ScanInv, OldInv, AheadInv, Locked, Idle
  <2>3. CASE scan' = [todo |-> order', kept |-> <<>>, old |-> {p \in Objects : Finished(p)}]
    <3>1. \A o \in Objects : idOf'[o] = idOf[o] /\ phase'[o] = phase[o]
      BY <1>0, <1>1, SeqTypes DEF Start, TypeInv, TypeOK
    <3>2. /\ ~ Locked /\ sessions[id] = None /\ order' = Append(order, id)
          /\ sessions' = [sessions EXCEPT ![id] = Len(idOf) + 1]
      BY <1>1 DEF Start
    <3>3. order \in Seq(Ids) /\ Lists(order)
      BY <3>2 DEF ListInv, TypeInv, TypeOK
    <3>4. Range(order') = Registered'
      BY <3>2, <3>3, AppendLists DEF Lists
    <3>5. \A o \in Objects : sessions'[idOf[o]] = o => idOf[o] \in Range(order')
      BY <1>0, <3>4 DEF Registered
    <3>6. scan'.old \subseteq Objects /\ scan'.todo = order' /\ \A o \in scan'.old : Finished(o)
      BY <2>3
    <3> QED
      BY <3>1, <3>5, <3>6 DEF ScanInv, OldInv, AheadInv, Finished
  <2> QED
    BY <2>1, <2>2, <2>3
<1>2. CASE Prune
  <2> PICK t, id : t = scan.todo /\ id = Head(t)
    OBVIOUS
  <2>1. t \in Seq(Ids) /\ t # <<>> /\ id \in Ids /\ UNCHANGED <<idOf, phase>>
    BY <1>0, <1>2, SeqTypes DEF Prune
  <2>2. scan'.todo = Tail(t) /\ scan'.old = scan.old /\ Locked
    <3>1. \/ scan' = [scan EXCEPT !.todo = Tail(t)]
          \/ scan' = [scan EXCEPT !.todo = Tail(t), !.kept = Append(scan.kept, id)]
      BY <1>2 DEF Prune
    <3>2. Locked
      BY <2>1 DEF Locked, Idle
    <3> QED
      BY <1>0, <3>1, <3>2
  <2>3. /\ sessions' \in {sessions, [sessions EXCEPT ![id] = None]}
        /\ OverCap /\ Finished(sessions[id]) => sessions' = [sessions EXCEPT ![id] = None]
    BY <1>2 DEF Prune
  <2>4. OldInv'
    BY <2>1, <2>2 DEF ScanInv, OldInv, Finished
  <2>5. Registered' \subseteq Registered
    BY <1>0, <2>1, <2>3 DEF Registered
  <2>6. Cardinality(Registered') <= Cardinality(Registered) /\ Cardinality(Registered') \in Nat
    BY <2>5, RegisteredFinite, FS_Subset, FS_CardinalityType
  <2>7. OverCap' => OverCap
    BY <2>6, RegisteredFinite, RegistryAssumption DEF OverCap
  <2>8. ASSUME OverCap', NEW o \in scan.old, sessions'[idOf[o]] = o PROVE idOf[o] \in Range(Tail(t))
    <3>1. o \in Objects /\ idOf[o] \in Ids /\ sessions[idOf[o]] = o
      BY <1>0, <2>1, <2>3, <2>8
    <3>2. idOf[o] \in Range(t) /\ Finished(o)
      BY <2>2, <2>7, <2>8, <3>1 DEF ScanInv, AheadInv, OldInv
    <3>3. idOf[o] # id
      BY <1>0, <2>1, <2>3, <2>7, <2>8, <3>1, <3>2
    <3>4. PICK i \in 1..Len(t) : idOf[o] = t[i]
      BY <2>1, <3>2, RangeDef
    <3>5. i - 1 \in 1..Len(Tail(t)) /\ Tail(t)[i - 1] = t[i]
      BY <2>1, <3>3, <3>4
    <3>6. i - 1 \in DOMAIN Tail(t)
      BY <2>1, <3>5
    <3> QED
      BY <3>4, <3>5, <3>6, RangeDef
  <2> QED
    BY <2>1, <2>2, <2>4, <2>8 DEF ScanInv, AheadInv
<1>3. CASE PruneEnd
  <2>1. scan' = Idle
    BY <1>3 DEF PruneEnd
  <2> QED
    BY <2>1 DEF ScanInv, OldInv, AheadInv, Locked, Idle
<1>4. ASSUME NEW o \in 1..MaxStarts, NEW outcome \in {"done", "failed"}, Finish(o, outcome)
      PROVE  ScanInv'
  <2>1. UNCHANGED <<idOf, sessions, scan>> /\ phase' = [phase EXCEPT ![o] = outcome]
    BY <1>4 DEF Finish
  <2>2. OldInv'
    BY <1>0, <2>1 DEF ScanInv, OldInv, Finished
  <2> QED
    BY <2>1, <2>2 DEF ScanInv, AheadInv, Locked, OverCap, Registered
<1>5. CASE UNCHANGED <<idOf, phase, sessions, scan>>
  BY <1>5 DEF ScanInv, OldInv, AheadInv, Finished, Locked, OverCap, Registered
<1> QED
  BY <1>1, <1>2, <1>3, <1>4, <1>5
  DEF Next, StartRefused, Attach, AttachGet, FinishStream, vars

LEMMA ScanInvariant == Spec => []ScanInv
<1>1. Init => ScanInv
  BY DEF Init, ScanInv, OldInv, AheadInv, Locked, Idle
<1> QED
  BY <1>1, ScanStep, TypeInvariant, ListInvariant, PTL DEF Spec

\* A scan that ends over the cap has evicted all that had finished when it began.
THEOREM ScanIsThorough == Spec => ScanFreesWhatItCan
<1>1. TypeInv /\ ListInv /\ ScanInv /\ [Next]_vars =>
        [Locked /\ ~ Locked' /\ OverCap' => \A o \in scan.old : sessions'[idOf[o]] # o]_vars
  <2> SUFFICES ASSUME TypeInv, ListInv, ScanInv, Next, Locked, ~ Locked', OverCap',
                      NEW o \in scan.old
               PROVE  sessions'[idOf[o]] # o
    BY DEF Locked, vars
  <2>1. PruneEnd
    BY PruneKeepsList
    DEF Next, Start, StartRefused, Finish, Attach, AttachGet, FinishStream, Locked
  <2>2. scan.todo = <<>> /\ sessions' = sessions
    BY <2>1 DEF PruneEnd
  <2>3. Range(<<>>) = {}
    BY RangeDef
  <2>4. OverCap
    BY <2>2 DEF OverCap, Registered
  <2> QED
    BY <2>2, <2>3, <2>4 DEF ScanInv, AheadInv
<1> QED
  BY <1>1, TypeInvariant, ListInvariant, ScanInvariant, PTL DEF Spec, ScanFreesWhatItCan
=============================================================================
