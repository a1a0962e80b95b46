----------------------------- MODULE AgentProofs -----------------------------
(***************************************************************************)
(* Theorems about Conversation and AgentLoop, for every threshold, size of  *)
(* bodies, number of turns, set of batches and bound on retries.            *)
(***************************************************************************)
EXTENDS AgentLoop, Conversation, FiniteSetTheorems, TLAPS

-----------------------------------------------------------------------------
(* Numbers.                                                                *)

\* A nonempty set of numbers of an interval has a largest member: among the sets
\* of its members from x on, one contains no other.
LEMMA Largest ==
  ASSUME NEW a \in Int, NEW b \in Int, NEW T \in SUBSET (a..b), T # {}
  PROVE  \E x \in T : \A y \in T : y <= x
<1> DEFINE I == a..b
           R == StrictSubsetOrdering(I)
           From(x) == {y \in T : x <= y}
           F == {From(x) : x \in T}
<1>1. IsFiniteSet(I)
  BY FS_Interval
<1>2. IsWellFoundedOn(R, FiniteSubsetsOf(I))
  BY FS_StrictSubsetOrderingWellFounded
<1>3. IsWellFoundedOn(R, SUBSET I)
  BY <1>1, <1>2, FS_FiniteSubsetsOfFinite
<1>4. F \subseteq SUBSET I /\ F # {}
  OBVIOUS
<1>5. \A A, B \in SUBSET I : A \subseteq B /\ A # B => <<A, B>> \in R
  BY DEF StrictSubsetOrdering
<1> HIDE DEF R, F
<1>6. \E X \in F : \A Y \in F : ~ (<<Y, X>> \in R)
  BY <1>3, <1>4, WFMin
<1>7. PICK x \in T : \A y \in T : ~ (<<From(y), From(x)>> \in R)
  BY <1>6 DEF F
<1>8. ASSUME NEW y \in T, ~ (y <= x) PROVE FALSE
  <2>0. x \in Int /\ y \in Int /\ x < y
    BY <1>8
  <2>3. \A z \in T : y <= z => x <= z
    <3> TAKE z \in T
    <3>1. z \in Int
      OBVIOUS
    <3> QED
      BY <2>0, <3>1
  <2>4. x <= x /\ ~ (y <= x)
    BY <2>0
  <2>1. From(y) \subseteq From(x) /\ x \in From(x) /\ x \notin From(y)
    BY <2>3, <2>4, Zenon
  <2>2. From(x) \in SUBSET I /\ From(y) \in SUBSET I
    OBVIOUS
  <2> QED
    BY <2>1, <2>2, <1>5, <1>7
<1> QED
  BY <1>8

-----------------------------------------------------------------------------
(* Sequences and histories.                                                *)

IsSeq(s) == \E S : s \in Seq(S)

WellFormed(x) ==
  /\ x = [role |-> x.role, calls |-> x.calls, id |-> x.id, body |-> x.body, state |-> x.state]
  /\ IsSeq(x.calls)
  /\ x.role # "assistant" => x.calls = <<>>

IsHistory(m) ==
  /\ IsSeq(m)
  /\ \A i \in DOMAIN m : WellFormed(m[i])
  /\ Len(m) >= 2 /\ m[1].role = "system" /\ m[2].role # "system"

\* A function on 1..n is a sequence of length n.
LEMMA FunctionIsSeq ==
  ASSUME NEW n \in Nat, NEW f, f = [i \in 1..n |-> f[i]]
  PROVE  IsSeq(f) /\ Len(f) = n /\ DOMAIN f = 1..n
<1> DEFINE C == {f[i] : i \in 1..n}
<1>1. f \in [1..n -> C]
  OBVIOUS
<1>2. f \in Seq(C)
  BY <1>1
<1>3. DOMAIN f = 1..n
  BY <1>1
<1>4. Len(f) \in Nat /\ 1..Len(f) = 1..n
  BY <1>2, <1>3
<1>5. Len(f) = n
  <2>1. \A i \in Int : i \in 1..n <=> i \in 1..Len(f)
    BY <1>4
  <2> QED
    BY <1>4, <2>1
<1> QED
  BY <1>2, <1>3, <1>5 DEF IsSeq

\* The facts of a sequence, without the set it is over.
LEMMA SeqFacts ==
  ASSUME NEW s, IsSeq(s)
  PROVE  /\ Len(s) \in Nat
         /\ DOMAIN s = 1..Len(s)
  BY DEF IsSeq

LEMMA ConcatFacts ==
  ASSUME NEW s, NEW t, IsSeq(s), IsSeq(t)
  PROVE  /\ IsSeq(s \o t)
         /\ Len(s \o t) = Len(s) + Len(t)
         /\ \A i \in 1..Len(s) : (s \o t)[i] = s[i]
         /\ \A i \in 1..Len(t) : (s \o t)[Len(s) + i] = t[i]
<1>1. PICK S, T : s \in Seq(S) /\ t \in Seq(T)
  BY DEF IsSeq
<1>2. s \in Seq(S \cup T) /\ t \in Seq(S \cup T)
  BY <1>1
<1>3. s \o t \in Seq(S \cup T)
  BY <1>2
<1> QED
  BY <1>2, <1>3 DEF IsSeq

LEMMA AppendFacts ==
  ASSUME NEW s, NEW x, IsSeq(s)
  PROVE  /\ IsSeq(Append(s, x))
         /\ Len(Append(s, x)) = Len(s) + 1
         /\ \A i \in 1..Len(s) : Append(s, x)[i] = s[i]
         /\ Append(s, x)[Len(s) + 1] = x
<1>1. PICK S : s \in Seq(S)
  BY DEF IsSeq
<1>2. s \in Seq(S \cup {x}) /\ x \in S \cup {x}
  BY <1>1
<1>3. Append(s, x) \in Seq(S \cup {x})
  BY <1>2
<1> QED
  BY <1>2, <1>3 DEF IsSeq

LEMMA SubSeqFacts ==
  ASSUME NEW s, IsSeq(s), NEW a \in Int, NEW b \in Int,
         1 <= a, a <= b + 1, b <= Len(s)
  PROVE  /\ IsSeq(SubSeq(s, a, b))
         /\ Len(SubSeq(s, a, b)) = b - a + 1
         /\ \A i \in 1..(b - a + 1) : SubSeq(s, a, b)[i] = s[a + i - 1]
<1>1. PICK S : s \in Seq(S)
  BY DEF IsSeq
<1>2. SubSeq(s, a, b) = [i \in 1..(b - a + 1) |-> s[a + i - 1]]
  BY <1>1
<1>3. b - a + 1 \in Nat
  OBVIOUS
<1> DEFINE f == [i \in 1..(b - a + 1) |-> s[a + i - 1]]
<1>4. f = [i \in 1..(b - a + 1) |-> f[i]]
  OBVIOUS
<1>5. IsSeq(f) /\ Len(f) = b - a + 1
  BY <1>3, <1>4, FunctionIsSeq
<1> QED
  BY <1>2, <1>5

-----------------------------------------------------------------------------
(* What each way of extending a history keeps.                             *)

LEMMA AbortedFacts ==
  ASSUME NEW c, IsSeq(c)
  PROVE  /\ IsSeq(AbortedAnswers(c))
         /\ Len(AbortedAnswers(c)) = Len(c)
         /\ \A k \in 1..Len(c) : AbortedAnswers(c)[k] = ToolAnswer(c[k].id, "small")
<1> DEFINE a == AbortedAnswers(c)
<1>1. Len(c) \in Nat /\ DOMAIN c = 1..Len(c)
  BY SeqFacts
<1>2. a = [k \in 1..Len(c) |-> ToolAnswer(c[k].id, "small")]
  BY <1>1 DEF AbortedAnswers
<1>3. a = [k \in 1..Len(c) |-> a[k]]
  BY <1>2
<1> QED
  BY <1>1, <1>2, <1>3, FunctionIsSeq

LEMMA AbortedKeepsHistory ==
  ASSUME NEW m, NEW c, IsHistory(m), IsSeq(c)
  PROVE  IsHistory(AppendAborted(m, c))
<1> DEFINE a == AbortedAnswers(c)
           h == m \o a
<1>1. /\ IsSeq(m) /\ Len(m) \in Nat /\ Len(m) >= 2 /\ DOMAIN m = 1..Len(m)
      /\ Len(c) \in Nat
  BY SeqFacts DEF IsHistory
<1>2. /\ IsSeq(a) /\ Len(a) = Len(c)
      /\ \A k \in 1..Len(c) : a[k] = ToolAnswer(c[k].id, "small")
  BY AbortedFacts
<1>3. \A id : WellFormed(ToolAnswer(id, "small"))
  <2>1. IsSeq(<<>>)
    BY DEF IsSeq
  <2> QED
    BY <2>1 DEF ToolAnswer, Message, WellFormed
<1> HIDE DEF a
<1>4. /\ IsSeq(h) /\ Len(h) = Len(m) + Len(c)
      /\ \A i \in 1..Len(m) : h[i] = m[i]
      /\ \A i \in 1..Len(c) : h[Len(m) + i] = a[i]
  BY <1>1, <1>2, ConcatFacts
<1>5. DOMAIN h = 1..(Len(m) + Len(c))
  BY <1>4, SeqFacts
<1> HIDE DEF h
<1>6. ASSUME NEW i \in DOMAIN h PROVE WellFormed(h[i])
  <2>1. CASE i \in 1..Len(m)
    BY <1>1, <1>4, <2>1 DEF IsHistory
  <2>2. CASE i \notin 1..Len(m)
    <3>1. i - Len(m) \in 1..Len(c) /\ i = Len(m) + (i - Len(m))
      BY <1>1, <1>5, <2>2
    <3>2. h[i] = a[i - Len(m)]
      BY <1>4, <3>1
    <3> QED
      BY <1>2, <1>3, <3>1, <3>2
  <2> QED
    BY <2>1, <2>2
<1>7. IsHistory(h)
  BY <1>1, <1>4, <1>6 DEF IsHistory
<1> QED
  BY <1>7 DEF AppendAborted, h, a

LEMMA NoneOwed ==
  ASSUME NEW m, IsSeq(m)
  PROVE  AppendAborted(m, <<>>) = m
<1>1. AbortedAnswers(<<>>) = <<>>
  BY DEF AbortedAnswers
<1>2. PICK S : m \in Seq(S)
  BY DEF IsSeq
<1> QED
  BY <1>1, <1>2 DEF AppendAborted

\* Pairing depends on the roles, calls and ids only.
SameShape(m, n) ==
  /\ Len(m) = Len(n)
  /\ \A i \in 1..Len(m) : /\ m[i].role = n[i].role
                           /\ m[i].calls = n[i].calls
                           /\ m[i].id = n[i].id

LEMMA ShapeKeepsPaired ==
  ASSUME NEW m, NEW n, IsSeq(m), IsSeq(n), SameShape(m, n), Paired(m)
  PROVE  Paired(n)
<1>1. DOMAIN m = 1..Len(m) /\ DOMAIN n = 1..Len(m) /\ Len(m) \in Nat
  BY SeqFacts DEF SameShape
<1> SUFFICES ASSUME NEW i \in DOMAIN n
             PROVE  Answered(n, i) /\ (n[i].role = "tool" => Owned(n, i))
  BY DEF Paired
<1>2. Answered(m, i) /\ (m[i].role = "tool" => Owned(m, i))
  BY <1>1 DEF Paired
<1>3. Answered(n, i)
  BY <1>1, <1>2 DEF Answered, SameShape
<1>4. n[i].role = "tool" => Owned(n, i)
  BY <1>1, <1>2 DEF Owned, SameShape
<1> QED
  BY <1>3, <1>4

\* Messages that are neither assistant turns nor tool results may follow a paired
\* history.
LEMMA NotesKeepPaired ==
  ASSUME NEW m, NEW n, IsHistory(m), Paired(m), IsSeq(n),
         \A i \in 1..Len(n) : WellFormed(n[i]) /\ n[i].role \notin {"assistant", "tool"}
  PROVE  IsHistory(m \o n) /\ Paired(m \o n)
<1> DEFINE h == m \o n
<1>1. /\ IsSeq(m) /\ Len(m) \in Nat /\ Len(m) >= 2 /\ DOMAIN m = 1..Len(m)
      /\ Len(n) \in Nat
  BY SeqFacts DEF IsHistory
<1>2. /\ IsSeq(h) /\ Len(h) = Len(m) + Len(n) /\ DOMAIN h = 1..(Len(m) + Len(n))
      /\ \A i \in 1..Len(m) : h[i] = m[i]
      /\ \A i \in 1..Len(n) : h[Len(m) + i] = n[i]
  BY <1>1, ConcatFacts, SeqFacts
<1> HIDE DEF h
<1>3. \A i \in DOMAIN h : i \in 1..Len(m)
                            \/ (i - Len(m) \in 1..Len(n) /\ h[i] = n[i - Len(m)])
  <2> TAKE i \in DOMAIN h
  <2>1. i \in 1..Len(m) \/ (i - Len(m) \in 1..Len(n) /\ i = Len(m) + (i - Len(m)))
    BY <1>1, <1>2
  <2> QED
    BY <1>2, <2>1
<1>4. \A i \in DOMAIN h : WellFormed(h[i])
  BY <1>1, <1>2, <1>3 DEF IsHistory
<1>5. IsHistory(h)
  BY <1>1, <1>2, <1>4 DEF IsHistory
<1>6. ASSUME NEW i \in DOMAIN h, i \in 1..Len(m)
      PROVE  Answered(h, i) /\ (h[i].role = "tool" => Owned(h, i))
  <2>1. Answered(m, i) /\ (m[i].role = "tool" => Owned(m, i)) /\ h[i] = m[i]
    BY <1>1, <1>2, <1>6 DEF Paired
  <2>2. Answered(h, i)
    BY <1>1, <1>2, <2>1 DEF Answered
  <2>3. h[i].role = "tool" => Owned(h, i)
    BY <1>1, <1>2, <2>1 DEF Owned
  <2> QED
    BY <2>2, <2>3
<1>7. ASSUME NEW i \in DOMAIN h, i \notin 1..Len(m)
      PROVE  Answered(h, i) /\ (h[i].role = "tool" => Owned(h, i))
  <2>1. h[i].role \notin {"assistant", "tool"} /\ WellFormed(h[i])
    BY <1>3, <1>4, <1>7
  <2>2. h[i].calls = <<>>
    BY <2>1 DEF WellFormed
  <2>3. DOMAIN h[i].calls = {}
    BY <2>2
  <2> QED
    BY <2>1, <2>3 DEF Answered
<1> QED
  BY <1>5, <1>6, <1>7 DEF Paired, h

\* An assistant turn whose calls would all be answered as aborted.
LEMMA TurnKeepsPaired ==
  ASSUME NEW m, NEW c, IsHistory(m), Paired(m), IsSeq(c)
  PROVE  /\ IsHistory(Append(m, AssistantTurn(c)))
         /\ Paired(AppendAborted(Append(m, AssistantTurn(c)), c))
<1> DEFINE t == AssistantTurn(c)
           h == Append(m, t)
           a == AbortedAnswers(c)
           g == h \o a
<1>1. /\ IsSeq(m) /\ Len(m) \in Nat /\ Len(m) >= 2 /\ DOMAIN m = 1..Len(m)
      /\ Len(c) \in Nat /\ DOMAIN c = 1..Len(c)
  BY SeqFacts DEF IsHistory
<1>2. /\ IsSeq(h) /\ Len(h) = Len(m) + 1 /\ DOMAIN h = 1..(Len(m) + 1)
      /\ \A i \in 1..Len(m) : h[i] = m[i]
      /\ h[Len(m) + 1] = t
  BY <1>1, AppendFacts, SeqFacts
<1>3. t.role = "assistant" /\ t.calls = c /\ WellFormed(t)
  BY DEF AssistantTurn, Message, WellFormed
<1>4. /\ IsSeq(a) /\ Len(a) = Len(c)
      /\ \A k \in 1..Len(c) : a[k] = ToolAnswer(c[k].id, "small")
  BY AbortedFacts
<1> HIDE DEF t, h, a
<1>5. /\ IsSeq(g) /\ Len(g) = Len(m) + 1 + Len(c) /\ DOMAIN g = 1..(Len(m) + 1 + Len(c))
      /\ \A i \in 1..(Len(m) + 1) : g[i] = h[i]
      /\ \A k \in 1..Len(c) : g[Len(m) + 1 + k] = a[k]
  <2>1. /\ IsSeq(g) /\ Len(g) = Len(h) + Len(a)
        /\ \A i \in 1..Len(h) : g[i] = h[i]
        /\ \A k \in 1..Len(a) : g[Len(h) + k] = a[k]
    BY <1>2, <1>4, ConcatFacts
  <2>2. DOMAIN g = 1..Len(g)
    BY <2>1, SeqFacts
  <2> QED
    BY <1>2, <1>4, <2>1, <2>2
<1> HIDE DEF g
<1>6. /\ \A i \in 1..Len(m) : g[i] = m[i]
      /\ g[Len(m) + 1] = t
  BY <1>1, <1>2, <1>5
<1>7. IsHistory(h)
  <2>1. \A i \in DOMAIN h : WellFormed(h[i])
    <3> TAKE i \in DOMAIN h
    <3>1. i \in 1..Len(m) \/ i = Len(m) + 1
      BY <1>1, <1>2
    <3> QED
      BY <1>1, <1>2, <1>3, <3>1 DEF IsHistory
  <2> QED
    BY <1>1, <1>2, <2>1 DEF IsHistory
<1>8. ASSUME NEW i \in 1..Len(m)
      PROVE  Answered(g, i) /\ (g[i].role = "tool" => Owned(g, i))
  <2>1. Answered(m, i) /\ (m[i].role = "tool" => Owned(m, i)) /\ g[i] = m[i]
    BY <1>1, <1>6 DEF Paired
  <2>2. Answered(g, i)
    BY <1>1, <1>5, <1>6, <2>1 DEF Answered
  <2>3. g[i].role = "tool" => Owned(g, i)
    BY <1>1, <1>5, <1>6, <2>1 DEF Owned
  <2> QED
    BY <2>2, <2>3
<1>9. Answered(g, Len(m) + 1) /\ g[Len(m) + 1].role # "tool"
  <2>1. \A k \in 1..Len(c) : /\ g[Len(m) + 1 + k].role = "tool"
                              /\ g[Len(m) + 1 + k].id = c[k].id
    <3> TAKE k \in 1..Len(c)
    <3>1. g[Len(m) + 1 + k] = ToolAnswer(c[k].id, "small")
      BY <1>4, <1>5
    <3> QED
      BY <3>1 DEF ToolAnswer, Message
  <2>2. \A k \in 1..Len(c) : Len(m) + 1 + k \in DOMAIN g
    BY <1>1, <1>5
  <2> QED
    BY <1>1, <1>3, <1>6, <2>1, <2>2 DEF Answered
<1>10. ASSUME NEW k \in 1..Len(c)
       PROVE  Answered(g, Len(m) + 1 + k) /\ Owned(g, Len(m) + 1 + k)
  <2>4. g[Len(m) + 1 + k] = ToolAnswer(c[k].id, "small")
    BY <1>4, <1>5
  <2>1. g[Len(m) + 1 + k].calls = <<>>
    BY <2>4 DEF ToolAnswer, Message
  <2>2. DOMAIN g[Len(m) + 1 + k].calls = {}
    BY <2>1
  <2>3. Len(m) + 1 \in DOMAIN g /\ Len(g[Len(m) + 1].calls) = Len(c)
    BY <1>1, <1>3, <1>5, <1>6
  <2> QED
    BY <1>1, <2>2, <2>3 DEF Answered, Owned
<1>11. Paired(g)
  <2> SUFFICES ASSUME NEW i \in DOMAIN g
               PROVE  Answered(g, i) /\ (g[i].role = "tool" => Owned(g, i))
    BY DEF Paired
  <2>1. \/ i \in 1..Len(m) \/ i = Len(m) + 1
        \/ (i - Len(m) - 1 \in 1..Len(c) /\ i = Len(m) + 1 + (i - Len(m) - 1))
    BY <1>1, <1>5
  <2> QED
    BY <1>8, <1>9, <1>10, <2>1
<1> QED
  BY <1>7, <1>11 DEF AppendAborted, g, h, t, a

\* The answer to the first call takes the place of its aborted answer.
LEMMA AnswerKeepsPaired ==
  ASSUME NEW m, NEW c, NEW body, IsHistory(m), IsSeq(c), c # <<>>,
         Paired(AppendAborted(m, c))
  PROVE  /\ IsHistory(Append(m, ToolAnswer(Head(c).id, body)))
         /\ IsSeq(Tail(c))
         /\ Paired(AppendAborted(Append(m, ToolAnswer(Head(c).id, body)), Tail(c)))
<1> DEFINE t == ToolAnswer(Head(c).id, body)
           h == Append(m, t)
           old == m \o AbortedAnswers(c)
           new == h \o AbortedAnswers(Tail(c))
<1>1. /\ IsSeq(m) /\ Len(m) \in Nat /\ Len(m) >= 2 /\ DOMAIN m = 1..Len(m)
      /\ Len(c) \in Nat /\ DOMAIN c = 1..Len(c)
  BY SeqFacts DEF IsHistory
<1>2. /\ IsSeq(h) /\ Len(h) = Len(m) + 1 /\ DOMAIN h = 1..(Len(m) + 1)
      /\ \A i \in 1..Len(m) : h[i] = m[i]
      /\ h[Len(m) + 1] = t
  BY <1>1, AppendFacts, SeqFacts
<1>3. WellFormed(t)
  <2>1. IsSeq(<<>>)
    BY DEF IsSeq
  <2> QED
    BY <2>1 DEF ToolAnswer, Message, WellFormed
<1>4. /\ IsSeq(Tail(c)) /\ Len(Tail(c)) = Len(c) - 1 /\ Len(c) >= 1
      /\ Head(c) = c[1]
      /\ \A k \in 1..(Len(c) - 1) : Tail(c)[k] = c[k + 1]
  <2>1. PICK C : c \in Seq(C)
    BY DEF IsSeq
  <2> QED
    BY <2>1 DEF IsSeq
<1>5. /\ IsSeq(AbortedAnswers(c)) /\ Len(AbortedAnswers(c)) = Len(c)
      /\ \A k \in 1..Len(c) : AbortedAnswers(c)[k] = ToolAnswer(c[k].id, "small")
  BY AbortedFacts
<1>6. /\ IsSeq(AbortedAnswers(Tail(c))) /\ Len(AbortedAnswers(Tail(c))) = Len(c) - 1
      /\ \A k \in 1..(Len(c) - 1) :
           AbortedAnswers(Tail(c))[k] = ToolAnswer(c[k + 1].id, "small")
  <2>1. /\ IsSeq(AbortedAnswers(Tail(c)))
        /\ Len(AbortedAnswers(Tail(c))) = Len(Tail(c))
        /\ \A k \in 1..Len(Tail(c)) :
             AbortedAnswers(Tail(c))[k] = ToolAnswer(Tail(c)[k].id, "small")
    BY <1>4, AbortedFacts
  <2> QED
    BY <1>4, <2>1
<1>7. IsHistory(h)
  <2>1. \A i \in DOMAIN h : WellFormed(h[i])
    <3> TAKE i \in DOMAIN h
    <3>1. i \in 1..Len(m) \/ i = Len(m) + 1
      BY <1>1, <1>2
    <3> QED
      BY <1>1, <1>2, <1>3, <3>1 DEF IsHistory
  <2> QED
    BY <1>1, <1>2, <2>1 DEF IsHistory
<1> HIDE DEF t, h
<1>8. /\ IsSeq(old) /\ Len(old) = Len(m) + Len(c)
      /\ \A i \in 1..Len(m) : old[i] = m[i]
      /\ \A k \in 1..Len(c) : old[Len(m) + k] = ToolAnswer(c[k].id, "small")
  BY <1>1, <1>5, ConcatFacts
<1>9. /\ IsSeq(new) /\ Len(new) = Len(m) + 1 + (Len(c) - 1)
      /\ \A i \in 1..(Len(m) + 1) : new[i] = h[i]
      /\ \A k \in 1..(Len(c) - 1) :
           new[Len(m) + 1 + k] = ToolAnswer(c[k + 1].id, "small")
  <2> DEFINE a == AbortedAnswers(Tail(c))
  <2> HIDE DEF a
  <2>1. IsSeq(a) /\ Len(a) = Len(c) - 1
    BY <1>6 DEF a
  <2>2. /\ IsSeq(h \o a) /\ Len(h \o a) = Len(h) + Len(a)
        /\ \A i \in 1..Len(h) : (h \o a)[i] = h[i]
        /\ \A k \in 1..Len(a) : (h \o a)[Len(h) + k] = a[k]
    BY <1>2, <2>1, ConcatFacts
  <2>3. new = h \o a
    BY DEF a
  <2>4. \A k \in 1..(Len(c) - 1) : a[k] = ToolAnswer(c[k + 1].id, "small")
    BY <1>6 DEF a
  <2> HIDE DEF new
  <2> QED
    BY <1>2, <2>1, <2>2, <2>3, <2>4
<1> HIDE DEF old, new
<1>10. ASSUME NEW i \in 1..Len(old)
       PROVE  old[i].role = new[i].role /\ old[i].calls = new[i].calls
                /\ old[i].id = new[i].id
  <2>1. CASE i \in 1..Len(m)
    BY <1>1, <1>2, <1>8, <1>9, <2>1
  <2>2. CASE i = Len(m) + 1
    <3>1. old[i] = ToolAnswer(c[1].id, "small")
      BY <1>1, <1>4, <1>8, <2>2
    <3>2. new[i] = ToolAnswer(c[1].id, body)
      BY <1>1, <1>2, <1>4, <1>9, <2>2 DEF t
    <3> QED
      BY <3>1, <3>2 DEF ToolAnswer, Message
  <2>3. CASE i > Len(m) + 1
    <3> DEFINE k == i - Len(m) - 1
    <3>1. k \in 1..(Len(c) - 1) /\ i = Len(m) + 1 + k /\ i = Len(m) + (k + 1)
          /\ k + 1 \in 1..Len(c)
      BY <1>1, <1>4, <1>8, <2>3
    <3> HIDE DEF k
    <3>2. old[i] = ToolAnswer(c[k + 1].id, "small")
      BY <1>8, <3>1
    <3>3. new[i] = ToolAnswer(c[k + 1].id, "small")
      BY <1>9, <3>1
    <3> QED
      BY <3>2, <3>3
  <2> QED
    BY <1>1, <1>8, <2>1, <2>2, <2>3
<1>11. SameShape(old, new)
  BY <1>1, <1>4, <1>8, <1>9, <1>10 DEF SameShape
<1>12. Paired(new)
  BY <1>8, <1>9, <1>11, ShapeKeepsPaired DEF AppendAborted, old
<1> QED
  BY <1>4, <1>7, <1>12 DEF AppendAborted, new, h, t

-----------------------------------------------------------------------------
(* What each way of shortening a history keeps.                            *)

LEMMA RetractKeepsPaired ==
  ASSUME NEW m, IsHistory(m), Paired(m), Len(m) > 2, m[Len(m)] = UserNote
  PROVE  /\ IsHistory(SubSeq(m, 1, Len(m) - 1))
         /\ Paired(SubSeq(m, 1, Len(m) - 1))
<1> DEFINE h == SubSeq(m, 1, Len(m) - 1)
<1>1. IsSeq(m) /\ Len(m) \in Nat /\ DOMAIN m = 1..Len(m)
  BY SeqFacts DEF IsHistory
<1>2. /\ IsSeq(h) /\ Len(h) = Len(m) - 1 /\ DOMAIN h = 1..(Len(m) - 1)
      /\ \A i \in 1..(Len(m) - 1) : h[i] = m[i]
  <2>1. /\ IsSeq(h) /\ Len(h) = Len(m) - 1
        /\ \A i \in 1..(Len(m) - 1) : h[i] = m[1 + i - 1]
    BY <1>1, SubSeqFacts
  <2>2. DOMAIN h = 1..Len(h)
    BY <2>1, SeqFacts
  <2> HIDE DEF h
  <2> QED
    BY <1>1, <2>1, <2>2
<1> HIDE DEF h
<1>3. IsHistory(h)
  BY <1>1, <1>2 DEF IsHistory
<1>4. m[Len(m)].role = "user"
  BY DEF UserNote, Plain, Message
<1>5. ASSUME NEW i \in DOMAIN h
      PROVE  Answered(h, i) /\ (h[i].role = "tool" => Owned(h, i))
  <2>1. Answered(m, i) /\ (m[i].role = "tool" => Owned(m, i)) /\ h[i] = m[i]
    BY <1>1, <1>2 DEF Paired
  <2>2. Answered(h, i)
    <3> SUFFICES ASSUME NEW k \in DOMAIN h[i].calls
                 PROVE  /\ i + k \in DOMAIN h
                        /\ h[i + k].role = "tool"
                        /\ h[i + k].id = h[i].calls[k].id
      BY DEF Answered
    <3>1. i + k \in DOMAIN m /\ m[i + k].role = "tool" /\ m[i + k].id = m[i].calls[k].id
      BY <2>1 DEF Answered
    <3>2. i + k # Len(m)
      BY <1>4, <3>1
    <3>3. i + k \in 1..(Len(m) - 1)
      BY <1>1, <3>1, <3>2
    <3> QED
      BY <1>2, <2>1, <3>1, <3>3
  <2>3. h[i].role = "tool" => Owned(h, i)
    BY <1>1, <1>2, <2>1 DEF Owned
  <2> QED
    BY <2>2, <2>3
<1> QED
  BY <1>3, <1>5 DEF Paired, h

LEMMA PruneKeepsPaired ==
  ASSUME NEW m, IsHistory(m), Paired(m)
  PROVE  IsHistory(PruneStale(m)) /\ Paired(PruneStale(m))
<1> DEFINE old == PruneCandidates(m)
           body(i) == IF i \in old THEN "pruned" ELSE m[i].body
           h == [i \in DOMAIN m |-> [m[i] EXCEPT !.body = body(i)]]
<1>1. IsSeq(m) /\ Len(m) \in Nat /\ DOMAIN m = 1..Len(m)
  BY SeqFacts DEF IsHistory
<1>2. PruneStale(m) = m \/ PruneStale(m) = h
  BY DEF PruneStale
<1> HIDE DEF old
<1>3. IsSeq(h) /\ Len(h) = Len(m) /\ DOMAIN h = 1..Len(m)
  <2>1. h = [i \in 1..Len(m) |-> h[i]]
    BY <1>1
  <2> HIDE DEF h
  <2> QED
    BY <1>1, <2>1, FunctionIsSeq
<1>4. ASSUME NEW i \in 1..Len(m)
      PROVE  /\ WellFormed(h[i]) /\ h[i].role = m[i].role
             /\ h[i].calls = m[i].calls /\ h[i].id = m[i].id
  <2>1. h[i] = [m[i] EXCEPT !.body = body(i)]
    BY <1>1
  <2>2. WellFormed(m[i])
    BY <1>1 DEF IsHistory
  <2> HIDE DEF h, body
  <2>3. h[i] = [role |-> m[i].role, calls |-> m[i].calls, id |-> m[i].id,
                body |-> body(i), state |-> m[i].state]
    BY <2>1, <2>2 DEF WellFormed
  <2> QED
    BY <2>2, <2>3 DEF WellFormed
<1> HIDE DEF h
<1>5. IsHistory(h)
  BY <1>1, <1>3, <1>4 DEF IsHistory
<1>6. SameShape(m, h)
  BY <1>3, <1>4 DEF SameShape
<1>7. Paired(h)
  BY <1>1, <1>3, <1>6, ShapeKeepsPaired
<1> QED
  BY <1>2, <1>5, <1>7

LEMMA OneSystemMessage ==
  ASSUME NEW m, IsHistory(m)
  PROVE  SystemEnd(m) = 1
<1> DEFINE P(s) == /\ \A i \in 1..s : m[i].role = "system"
                   /\ s < Len(m) => m[s + 1].role # "system"
<1>1. Len(m) \in Nat /\ Len(m) >= 2 /\ m[1].role = "system" /\ m[2].role # "system"
  BY SeqFacts DEF IsHistory
<1>2. 1 \in 0..Len(m) /\ P(1)
  BY <1>1
<1>3. ASSUME NEW s \in 0..Len(m), P(s) PROVE s = 1
  <2>1. s # 0
    BY <1>1, <1>3
  <2>2. ~ (s >= 2)
    BY <1>1, <1>3
  <2> QED
    BY <1>1, <2>1, <2>2
<1>4. SystemEnd(m) = CHOOSE s \in 0..Len(m) : P(s)
  BY DEF SystemEnd
<1> HIDE DEF P
<1> QED
  BY <1>2, <1>3, <1>4

LEMMA BoundaryIsSafe ==
  ASSUME NEW m, IsHistory(m)
  PROVE  /\ Boundary(m) \in 1..(Len(m) - 1)
         /\ Boundary(m) = 1 \/ m[Boundary(m) + 1].role = "assistant"
         /\ Boundary(m) = 1 \/ Boundary(m) + PreserveLast <= Len(m)
<1> DEFINE n == NaiveBoundary(m)
           T == {j \in 1..n : j = 1 \/ m[j + 1].role = "assistant"}
           P(j) == /\ j = 1 \/ m[j + 1].role = "assistant"
                   /\ \A k \in (j + 1)..n : m[k + 1].role # "assistant"
<1>1. Len(m) \in Nat /\ Len(m) >= 2 /\ SystemEnd(m) = 1
  BY SeqFacts, OneSystemMessage DEF IsHistory
<1>2. n \in 1..(Len(m) - 1) /\ (n = 1 \/ n + PreserveLast <= Len(m)) /\ PreserveLast \in Nat
  <2> DEFINE last == IF PreserveLast = 0 THEN DefaultLast ELSE PreserveLast
  <2>1. last \in Nat /\ last >= 1 /\ last >= PreserveLast /\ PreserveLast \in Nat
    BY HistoryAssumption
  <2>2. n = IF Len(m) < 1 + last THEN 1 ELSE Len(m) - last
    BY <1>1 DEF NaiveBoundary
  <2> HIDE DEF last, n
  <2> QED
    BY <1>1, <2>1, <2>2
<1> HIDE DEF n
<1>3. \E j \in T : \A k \in T : k <= j
  <2>1. T \in SUBSET (1..n) /\ 1 \in T
    BY <1>2
  <2> HIDE DEF T
  <2> QED
    <3>1. 1 \in Int /\ n \in Int /\ T # {}
      BY <1>2, <2>1
    <3> QED
      BY <2>1, <3>1, Largest
<1>4. \E j \in 1..n : P(j)
  <2>1. PICK j \in T : \A k \in T : k <= j
    BY <1>3
  <2>2. \A k \in (j + 1)..n : m[k + 1].role # "assistant"
    BY <1>2, <2>1
  <2> QED
    BY <2>1, <2>2
<1>5. Boundary(m) = CHOOSE j \in 1..n : P(j)
  BY <1>1 DEF Boundary, SafeSuffixBoundary, n
<1>6. Boundary(m) \in 1..n /\ P(Boundary(m))
  BY <1>4, <1>5
<1> QED
  BY <1>1, <1>2, <1>6

\* A summary takes the place of the messages between the system prompt and the
\* boundary.
Summarized(m, g, body) ==
  LET b == Boundary(m)
  IN /\ b \in 2..(Len(m) - 1)
     /\ IsSeq(g) /\ Len(g) = 2 + (Len(m) - b) /\ DOMAIN g = 1..(2 + (Len(m) - b))
     /\ g[1] = m[1] /\ g[2] = Summary(body, PreservedState(Middle(m)))
     /\ \A i \in 1..(Len(m) - b) : g[2 + i] = m[b + i]

LEMMA CompactFacts ==
  ASSUME NEW m, NEW body, IsHistory(m)
  PROVE  Compact(m, body) = m \/ Summarized(m, Compact(m, body), body)
<1> DEFINE b == Boundary(m)
           t == Summary(body, PreservedState(Middle(m)))
           p == SubSeq(m, 1, 1)
           q == SubSeq(m, b + 1, Len(m))
           g == p \o <<t>> \o q
<1>1. /\ IsSeq(m) /\ Len(m) \in Nat /\ Len(m) >= 2 /\ DOMAIN m = 1..Len(m)
      /\ SystemEnd(m) = 1
  BY SeqFacts, OneSystemMessage DEF IsHistory
<1>2. b \in 1..(Len(m) - 1)
  BY BoundaryIsSafe
<1>3. Compact(m, body) = m \/ (b >= 2 /\ Compact(m, body) = g)
  <2>1. b = 1 => Middle(m) = <<>>
    <3> SUFFICES ASSUME b = 1 PROVE SubSeq(m, 2, 1) = <<>>
      BY <1>1 DEF Middle
    <3>1. IsSeq(SubSeq(m, 2, 1)) /\ Len(SubSeq(m, 2, 1)) = 0
      BY <1>1, SubSeqFacts
    <3> QED
      BY <3>1 DEF IsSeq
  <2>2. Compact(m, body) = IF Middle(m) = <<>> THEN m ELSE g
    BY <1>1 DEF Compact
  <2> HIDE DEF b, g
  <2> QED
    BY <1>2, <2>1, <2>2
<1> SUFFICES ASSUME b >= 2 PROVE Summarized(m, g, body)
  BY <1>3
<1> HIDE DEF b, t
<1>4. /\ IsSeq(p) /\ Len(p) = 1 /\ p[1] = m[1]
  <2>1. /\ IsSeq(p) /\ Len(p) = 1
        /\ \A i \in 1..1 : p[i] = m[1 + i - 1]
    BY <1>1, SubSeqFacts
  <2> HIDE DEF p
  <2> QED
    BY <2>1
<1>5. /\ IsSeq(q) /\ Len(q) = Len(m) - b
      /\ \A i \in 1..(Len(m) - b) : q[i] = m[b + i]
  <2>1. /\ IsSeq(q) /\ Len(q) = Len(m) - (b + 1) + 1
        /\ \A i \in 1..(Len(m) - (b + 1) + 1) : q[i] = m[(b + 1) + i - 1]
    BY <1>1, <1>2, SubSeqFacts
  <2> HIDE DEF q
  <2>2. \A i \in Int : (b + 1) + i - 1 = b + i
    BY <1>2
  <2>3. Len(m) - (b + 1) + 1 = Len(m) - b
    BY <1>1, <1>2
  <2>4. ASSUME NEW i \in 1..(Len(m) - b) PROVE q[i] = m[b + i]
    <3>1. i \in Int /\ i \in 1..(Len(m) - (b + 1) + 1)
      BY <2>3
    <3>2. q[i] = m[(b + 1) + i - 1]
      BY <2>1, <3>1
    <3> QED
      BY <2>2, <3>1, <3>2
  <2> QED
    BY <2>1, <2>3, <2>4
<1> HIDE DEF p, q
<1>6. /\ IsSeq(p \o <<t>>) /\ Len(p \o <<t>>) = 2
      /\ (p \o <<t>>)[1] = m[1] /\ (p \o <<t>>)[2] = t
  <2> DEFINE u == <<t>>
  <2>1. IsSeq(u) /\ Len(u) = 1 /\ u[1] = t
    <3>1. <<t>> \in Seq({t})
      OBVIOUS
    <3> QED
      BY <3>1 DEF IsSeq
  <2> HIDE DEF u, g
  <2>2. IsSeq(p) /\ IsSeq(u)
    BY <1>4, <2>1
  <2>3. /\ IsSeq(p \o u) /\ Len(p \o u) = Len(p) + Len(u)
        /\ \A i \in 1..Len(p) : (p \o u)[i] = p[i]
        /\ \A i \in 1..Len(u) : (p \o u)[Len(p) + i] = u[i]
    BY <2>2, ConcatFacts
  <2>4. 1 \in 1..1
    OBVIOUS
  <2>5. (p \o u)[1] = p[1] /\ (p \o u)[1 + 1] = u[1]
    BY <1>4, <2>1, <2>3, <2>4
  <2>6. IsSeq(p \o u) /\ Len(p \o u) = 2 /\ (p \o u)[1] = m[1] /\ (p \o u)[2] = t
    BY <1>4, <2>1, <2>3, <2>5
  <2> QED
    BY <2>6 DEF u
<1>7. /\ IsSeq(g) /\ Len(g) = 2 + (Len(m) - b) /\ DOMAIN g = 1..(2 + (Len(m) - b))
      /\ g[1] = m[1] /\ g[2] = t
      /\ \A i \in 1..(Len(m) - b) : g[2 + i] = m[b + i]
  <2> DEFINE r == p \o <<t>>
  <2>1. IsSeq(r) /\ Len(r) = 2 /\ r[1] = m[1] /\ r[2] = t
    BY <1>6
  <2>2. g = r \o q
    OBVIOUS
  <2> HIDE DEF r, g
  <2>5. IsSeq(r) /\ IsSeq(q)
    BY <1>5, <2>1
  <2>6. /\ IsSeq(r \o q) /\ Len(r \o q) = Len(r) + Len(q)
        /\ \A i \in 1..Len(r) : (r \o q)[i] = r[i]
        /\ \A i \in 1..Len(q) : (r \o q)[Len(r) + i] = q[i]
    BY <2>5, ConcatFacts
  <2>3. /\ IsSeq(g) /\ Len(g) = Len(r) + Len(q)
        /\ \A i \in 1..Len(r) : g[i] = r[i]
        /\ \A i \in 1..Len(q) : g[Len(r) + i] = q[i]
    BY <2>2, <2>6
  <2>4. DOMAIN g = 1..Len(g)
    BY <2>3, SeqFacts
  <2> QED
    BY <1>5, <2>1, <2>3, <2>4
<1> HIDE DEF g
<1> QED
  BY <1>1, <1>2, <1>7 DEF Summarized, b, t

\* The suffix starts with an assistant turn, so it holds the calls of its tool
\* results and the results of its calls.
LEMMA CompactKeepsPaired ==
  ASSUME NEW m, NEW body, IsHistory(m), Paired(m)
  PROVE  IsHistory(Compact(m, body)) /\ Paired(Compact(m, body))
<1> DEFINE b == Boundary(m)
           t == Summary(body, PreservedState(Middle(m)))
           g == Compact(m, body)
<1>1. /\ IsSeq(m) /\ Len(m) \in Nat /\ Len(m) >= 2 /\ DOMAIN m = 1..Len(m)
  BY SeqFacts DEF IsHistory
<1>2. CASE g = m
  BY <1>2
<1> SUFFICES ASSUME Summarized(m, g, body) PROVE IsHistory(g) /\ Paired(g)
  BY <1>2, CompactFacts
<1>3. WellFormed(t) /\ t.role = "user" /\ t.calls = <<>>
  <2>1. IsSeq(<<>>)
    BY DEF IsSeq
  <2> QED
    BY <2>1 DEF Summary, Message, WellFormed
<1> HIDE DEF g
<1>4. b >= 2 /\ b \in 1..(Len(m) - 1) /\ m[b + 1].role = "assistant"
  BY BoundaryIsSafe DEF Summarized
<1>5. /\ IsSeq(g) /\ Len(g) = 2 + (Len(m) - b) /\ DOMAIN g = 1..(2 + (Len(m) - b))
      /\ g[1] = m[1] /\ g[2] = t
      /\ \A i \in 1..(Len(m) - b) : g[2 + i] = m[b + i]
  BY DEF Summarized
<1> HIDE DEF b, t
<1>6. ASSUME NEW j \in DOMAIN g, j >= 3
      PROVE  j + b - 2 \in (b + 1)..Len(m) /\ g[j] = m[j + b - 2]
  <2>1. j - 2 \in 1..(Len(m) - b)
    BY <1>1, <1>4, <1>5, <1>6
  <2>2. g[2 + (j - 2)] = m[b + (j - 2)]
    BY <1>5, <2>1
  <2>3. /\ 2 + (j - 2) = j /\ b + (j - 2) = j + b - 2
        /\ j + b - 2 \in (b + 1)..Len(m)
    BY <1>1, <1>4, <1>5, <2>1
  <2> QED
    BY <2>2, <2>3
<1>7. IsHistory(g)
  <2>1. \A j \in DOMAIN g : WellFormed(g[j])
    <3> TAKE j \in DOMAIN g
    <3>1. CASE j = 1
      BY <1>1, <1>5, <3>1 DEF IsHistory
    <3>2. CASE j = 2
      BY <1>3, <1>5, <3>2
    <3>3. CASE j >= 3
      <4>1. j + b - 2 \in DOMAIN m
        BY <1>1, <1>4, <1>6, <3>3
      <4> QED
        BY <1>6, <3>3, <4>1 DEF IsHistory
    <3> QED
      BY <1>5, <3>1, <3>2, <3>3
  <2>2. Len(g) >= 2 /\ g[1].role = "system" /\ g[2].role # "system"
    BY <1>1, <1>4, <1>3, <1>5 DEF IsHistory
  <2> QED
    BY <1>5, <2>1, <2>2 DEF IsHistory
<1>8. ASSUME NEW j \in DOMAIN g, j < 3
       PROVE  Answered(g, j) /\ g[j].role # "tool"
  <2>1. g[j].calls = <<>> /\ g[j].role # "tool"
    <3>1. CASE j = 1
      BY <1>1, <1>5, <3>1 DEF IsHistory, WellFormed
    <3>2. CASE j = 2
      BY <1>3, <1>5, <3>2
    <3> QED
      BY <1>5, <1>8, <3>1, <3>2
  <2>2. DOMAIN g[j].calls = {}
    BY <2>1
  <2> QED
    BY <2>1, <2>2 DEF Answered
<1>9. ASSUME NEW j \in DOMAIN g, j >= 3
       PROVE  Answered(g, j) /\ (g[j].role = "tool" => Owned(g, j))
  <2> DEFINE i == j + b - 2
  <2>1. i \in (b + 1)..Len(m) /\ g[j] = m[i] /\ i \in DOMAIN m
    BY <1>1, <1>4, <1>6, <1>9
  <2>2. Answered(m, i) /\ (m[i].role = "tool" => Owned(m, i))
    BY <2>1 DEF Paired
  <2>3. Answered(g, j)
    <3> SUFFICES ASSUME NEW k \in DOMAIN g[j].calls
                 PROVE  /\ j + k \in DOMAIN g
                        /\ g[j + k].role = "tool"
                        /\ g[j + k].id = g[j].calls[k].id
      BY DEF Answered
    <3>1. i + k \in DOMAIN m /\ m[i + k].role = "tool" /\ m[i + k].id = m[i].calls[k].id
      BY <2>1, <2>2 DEF Answered
    <3>2. k \in Nat /\ k >= 1
      <4>1. IsSeq(m[i].calls)
        BY <2>1 DEF IsHistory, WellFormed
      <4> QED
        BY <2>1, <4>1, SeqFacts
    <3>3. j + k \in DOMAIN g /\ j + k >= 3
      BY <1>1, <1>4, <1>5, <1>9, <3>1, <3>2
    <3>4. g[j + k] = m[(j + k) + b - 2]
      BY <1>6, <3>3
    <3>5. (j + k) + b - 2 = i + k
      BY <1>4, <1>5, <3>2
    <3> QED
      BY <2>1, <3>1, <3>3, <3>4, <3>5
  <2>4. ASSUME g[j].role = "tool" PROVE Owned(g, j)
    <3>1. PICK o \in DOMAIN m : o < i /\ i <= o + Len(m[o].calls)
      BY <2>1, <2>2, <2>4 DEF Owned
    <3>2. o >= b + 1
      <4> SUFFICES ASSUME o <= b PROVE FALSE
        BY <1>1, <1>4
      <4>1. IsSeq(m[o].calls)
        BY DEF IsHistory, WellFormed
      <4>2. Len(m[o].calls) \in Nat /\ DOMAIN m[o].calls = 1..Len(m[o].calls)
        BY <4>1, SeqFacts
      <4>3. b + 1 - o \in DOMAIN m[o].calls
        BY <1>1, <1>4, <2>1, <3>1, <4>2
      <4>4. Answered(m, o)
        BY DEF Paired
      <4>5. m[o + (b + 1 - o)].role = "tool"
        BY <4>3, <4>4 DEF Answered
      <4>6. o + (b + 1 - o) = b + 1
        BY <1>1, <1>4
      <4> QED
        BY <1>4, <4>5, <4>6
    <3> DEFINE k == o - b + 2
    <3>3. k \in DOMAIN g /\ k >= 3 /\ k + b - 2 = o /\ k < j
      <4>1. b \in Int /\ o \in Int /\ j \in Int /\ o <= Len(m) /\ Len(m) \in Int
        BY <1>1, <1>4, <1>5
      <4>2. k >= 3 /\ k <= 2 + (Len(m) - b) /\ k \in Int
        BY <3>2, <4>1
      <4>3. k + b - 2 = o /\ k < j
        BY <3>1, <4>1
      <4> QED
        BY <1>5, <4>1, <4>2, <4>3
    <3>4. g[k] = m[o]
      BY <1>6, <3>3
    <3>5. IsSeq(m[o].calls)
      BY DEF IsHistory, WellFormed
    <3>6. Len(m[o].calls) \in Nat
      BY <3>5, SeqFacts
    <3>7. j <= k + Len(g[k].calls)
      BY <1>1, <1>4, <1>5, <3>1, <3>4, <3>6
    <3> HIDE DEF k
    <3> QED
      BY <3>3, <3>7 DEF Owned
  <2> QED
    BY <2>3, <2>4
<1>10. Paired(g)
  BY <1>5, <1>8, <1>9 DEF Paired
<1> QED
  BY <1>7, <1>10

-----------------------------------------------------------------------------
(* What may happen to a history.                                           *)

AreNotes(n) ==
  /\ IsSeq(n)
  /\ \A i \in 1..Len(n) : /\ WellFormed(n[i]) /\ n[i].role \notin {"assistant", "tool"}
                          /\ n[i].state = NoState

\* A history with no answers owed, or with the answers c owed at its end.
Whole(m, c) == IsHistory(m) /\ IsSeq(c) /\ Paired(AppendAborted(m, c))

Reminded(m, n) == \E notes : AreNotes(notes) /\ n = m \o notes

Spoken(m, n, c) == \E notes :
  /\ IsSeq(c) /\ AreNotes(notes)
  /\ notes # <<>> => c = <<>>
  /\ n = Append(m, AssistantTurn(c)) \o notes

AnsweredOne(m, c, n, d) == \E body :
  LET answered == Append(m, ToolAnswer(Head(c).id, body))
  IN \/ n = answered /\ d = Tail(c)
     \/ n = AppendAborted(answered, Tail(c)) /\ d = <<>>

Retracted(m, n) == Len(m) > 2 /\ m[Len(m)] = UserNote /\ n = SubSeq(m, 1, Len(m) - 1)

Shortened(m, n) == \E body :
  n \in {m, PruneStale(m), Compact(m, body), Compact(PruneStale(m), body)}

\* From m, with the answers c owed, to n, with the answers d owed.
Leads(m, c, n, d) ==
  \/ c = <<>> /\ d = <<>> /\ (Reminded(m, n) \/ Retracted(m, n) \/ Shortened(m, n))
  \/ c = <<>> /\ Spoken(m, n, d)
  \/ c # <<>> /\ AnsweredOne(m, c, n, d)
  \/ n = m /\ d = c

LEMMA NoneOwedIsWhole ==
  ASSUME NEW m
  PROVE  Whole(m, <<>>) <=> IsHistory(m) /\ Paired(m)
<1>1. IsHistory(m) => AppendAborted(m, <<>>) = m
  BY NoneOwed DEF IsHistory
<1>2. IsSeq(<<>>)
  BY DEF IsSeq
<1> QED
  BY <1>1, <1>2 DEF Whole

\* Notes, turns, answers, aborts, retractions, prunings and summaries keep a
\* history whole.
LEMMA LeadsKeepsWhole ==
  ASSUME NEW m, NEW c, NEW n, NEW d, Whole(m, c), Leads(m, c, n, d)
  PROVE  Whole(n, d)
<1>1. CASE c = <<>> /\ d = <<>> /\ Reminded(m, n)
  <2>1. PICK notes : AreNotes(notes) /\ n = m \o notes
    BY <1>1 DEF Reminded
  <2>2. IsHistory(m \o notes) /\ Paired(m \o notes)
    BY <1>1, <2>1, NoneOwedIsWhole, NotesKeepPaired DEF AreNotes
  <2> QED
    BY <1>1, <2>1, <2>2, NoneOwedIsWhole
<1>2. CASE c = <<>> /\ d = <<>> /\ Retracted(m, n)
  BY <1>2, NoneOwedIsWhole, RetractKeepsPaired DEF Retracted
<1>3. CASE c = <<>> /\ d = <<>> /\ Shortened(m, n)
  <2>1. IsHistory(n) /\ Paired(n)
    BY <1>3, NoneOwedIsWhole, PruneKeepsPaired, CompactKeepsPaired DEF Shortened
  <2> QED
    BY <1>3, <2>1, NoneOwedIsWhole
<1>4. CASE c = <<>> /\ Spoken(m, n, d)
  <2> DEFINE h == Append(m, AssistantTurn(d))
  <2>1. PICK notes : /\ IsSeq(d) /\ AreNotes(notes) /\ n = h \o notes
                     /\ notes # <<>> => d = <<>>
    BY <1>4 DEF Spoken
  <2>2. Whole(h, d)
    BY <1>4, <2>1, NoneOwedIsWhole, TurnKeepsPaired DEF Whole
  <2> HIDE DEF h
  <2>3. CASE notes = <<>>
    <3>1. h \o <<>> = h
      <4>1. PICK S : h \in Seq(S)
        BY <2>2 DEF Whole, IsHistory, IsSeq
      <4> QED
        BY <4>1
    <3> QED
      BY <2>1, <2>2, <2>3, <3>1
  <2>4. CASE notes # <<>>
    <3>1. IsHistory(h \o notes) /\ Paired(h \o notes)
      BY <2>1, <2>2, <2>4, NoneOwedIsWhole, NotesKeepPaired DEF AreNotes
    <3> QED
      BY <2>1, <2>4, <3>1, NoneOwedIsWhole
  <2> QED
    BY <2>3, <2>4
<1>5. CASE c # <<>> /\ AnsweredOne(m, c, n, d)
  <2>1. PICK body : LET answered == Append(m, ToolAnswer(Head(c).id, body))
                    IN \/ n = answered /\ d = Tail(c)
                       \/ n = AppendAborted(answered, Tail(c)) /\ d = <<>>
    BY <1>5 DEF AnsweredOne
  <2> DEFINE h == Append(m, ToolAnswer(Head(c).id, body))
  <2>2. IsHistory(h) /\ IsSeq(Tail(c)) /\ Paired(AppendAborted(h, Tail(c)))
    BY <1>5, AnswerKeepsPaired DEF Whole
  <2> HIDE DEF h
  <2>3. IsHistory(AppendAborted(h, Tail(c)))
    BY <2>2, AbortedKeepsHistory
  <2> QED
    BY <2>1, <2>2, <2>3, NoneOwedIsWhole DEF h, Whole
<1>6. CASE n = m /\ d = c
  BY <1>6
<1> QED
  BY <1>1, <1>2, <1>3, <1>4, <1>5, <1>6 DEF Leads

-----------------------------------------------------------------------------
(* The conversation.                                                       *)

LEMMA UserNotesAreNotes ==
  ASSUME NEW n \in Nat
  PROVE  AreNotes([k \in 1..n |-> UserNote])
<1> DEFINE notes == [k \in 1..n |-> UserNote]
<1>1. IsSeq(notes) /\ Len(notes) = n
  <2>1. notes = [k \in 1..n |-> notes[k]]
    OBVIOUS
  <2> HIDE DEF notes
  <2> QED
    BY <2>1, FunctionIsSeq
<1>2. WellFormed(UserNote) /\ UserNote.role = "user" /\ UserNote.state = NoState
  <2>1. IsSeq(<<>>)
    BY DEF IsSeq
  <2> QED
    BY <2>1 DEF UserNote, Plain, Message, WellFormed
<1> QED
  BY <1>1, <1>2 DEF AreNotes

LEMMA SeedIsWhole == Whole(SeedMessages, <<>>)
<1>1. IsSeq(<<>>)
  BY DEF IsSeq
<1>2. /\ IsSeq(SeedMessages) /\ Len(SeedMessages) = 2 /\ DOMAIN SeedMessages = 1..2
      /\ SeedMessages[1] = Plain("system", "small")
      /\ SeedMessages[2] = Plain("user", "small")
  <2> DEFINE x == Plain("system", "small")
             y == Plain("user", "small")
  <2>1. SeedMessages = <<x, y>>
    BY DEF SeedMessages
  <2> HIDE DEF x, y
  <2>2. <<x, y>> \in Seq({x, y})
    OBVIOUS
  <2>3. Len(<<x, y>>) = 2 /\ <<x, y>>[1] = x /\ <<x, y>>[2] = y
    OBVIOUS
  <2>4. IsSeq(SeedMessages)
    BY <2>1, <2>2 DEF IsSeq
  <2>5. DOMAIN SeedMessages = 1..2
    BY <2>1, <2>3, <2>4, SeqFacts
  <2> QED
    BY <2>1, <2>3, <2>4, <2>5 DEF x, y
<1>3. \A r \in {"system", "user"} :
        /\ WellFormed(Plain(r, "small"))
        /\ Plain(r, "small").role = r /\ Plain(r, "small").calls = <<>>
  BY <1>1 DEF Plain, Message, WellFormed
<1>4. IsHistory(SeedMessages)
  <2>1. \A i \in DOMAIN SeedMessages : WellFormed(SeedMessages[i])
    BY <1>2, <1>3
  <2> QED
    BY <1>2, <1>3, <2>1 DEF IsHistory
<1>5. Paired(SeedMessages)
  <2>1. \A i \in 1..2 : /\ SeedMessages[i].role # "tool"
                         /\ SeedMessages[i].calls = <<>>
    BY <1>2, <1>3
  <2>2. DOMAIN <<>> = {}
    OBVIOUS
  <2> QED
    BY <1>2, <2>1, <2>2 DEF Paired, Answered
<1> QED
  BY <1>4, <1>5, NoneOwedIsWhole

ConversationInv == Whole(messages, owed)

LEMMA InitConversationInv == ConversationInit => ConversationInv
  BY SeedIsWhole DEF ConversationInit, CompactionInit, ConversationInv

\* A batch numbered is a sequence of calls.
LEMMA NumberedIsSeq ==
  ASSUME NEW batch \in CallBatches \cup {<<>>}
  PROVE  IsSeq(Numbered(batch)) /\ (batch = <<>> => Numbered(batch) = <<>>)
<1>1. IsSeq(batch)
  <2>1. <<>> \in Seq({})
    OBVIOUS
  <2> QED
    BY <2>1, ConversationAssumption DEF IsSeq
<1>2. Len(batch) \in Nat /\ DOMAIN batch = 1..Len(batch)
  BY <1>1, SeqFacts
<1>3. Numbered(batch) = [k \in 1..Len(batch) |-> Numbered(batch)[k]]
  BY <1>2 DEF Numbered
<1> QED
  BY <1>2, <1>3, FunctionIsSeq DEF Numbered

LEMMA ActionsLead ==
  /\ NewTurn \/ Remind => owed = <<>> /\ owed' = <<>> /\ Reminded(messages, messages')
  /\ Speak => owed = <<>> /\ Spoken(messages, messages', owed')
  /\ AnswerCall => owed # <<>> /\ AnsweredOne(messages, owed, messages', owed')
  /\ Retract => owed = <<>> /\ owed' = <<>> /\ Retracted(messages, messages')
  /\ Shorten => owed = <<>> /\ owed' = <<>> /\ Shortened(messages, messages')
  /\ UNCHANGED conversationVars => messages' = messages /\ owed' = owed
<1> USE DEF Settled
<1>1. \A notes \in Notes : AreNotes(notes)
  BY ConversationAssumption, UserNotesAreNotes DEF Notes
<1>2. NewTurn \/ Remind => owed = <<>> /\ owed' = <<>> /\ Reminded(messages, messages')
  BY <1>1 DEF NewTurn, Remind, Extend, Reminded
<1>3. Speak => owed = <<>> /\ Spoken(messages, messages', owed')
  BY <1>1, NumberedIsSeq DEF Speak, Extend, Spoken
<1>4. AnswerCall => owed # <<>> /\ AnsweredOne(messages, owed, messages', owed')
  BY DEF AnswerCall, AnsweredOne
<1>5. Retract => owed = <<>> /\ owed' = <<>> /\ Retracted(messages, messages')
  <2>1. Len(SeedMessages) = 2
    BY DEF SeedMessages
  <2> QED
    BY <2>1 DEF Retract, Retracted
<1>6. Shorten => owed = <<>> /\ owed' = <<>> /\ Shortened(messages, messages')
  BY DEF Shorten, MaybeCompact, NothingToCompact, Prune, SummarizerFails, Summarize,
         RecoverFails, Recovered, Adopt, Pruned, compactionVars, Shortened
<1>7. UNCHANGED conversationVars => messages' = messages /\ owed' = owed
  BY DEF conversationVars, compactionVars
<1> QED
  BY <1>2, <1>3, <1>4, <1>5, <1>6, <1>7

LEMMA ConversationLeads ==
  [ConversationNext]_conversationVars => Leads(messages, owed, messages', owed')
  BY ActionsLead DEF ConversationNext, Leads

LEMMA NextConversationInv == ConversationInv /\ [ConversationNext]_conversationVars => ConversationInv'
  BY ConversationLeads, LeadsKeepsWhole DEF ConversationInv

\* In every conversation the program can build, every tool call is answered by the
\* messages right after it and no tool result stands alone, so the next request
\* is one a provider accepts: appendAbortedToolResults, CompactMessages and
\* safeSuffixBoundary (loop.go, compaction.go).
THEOREM Replayable == ConversationSpec => []HistoryIsReplayable
<1>1. ConversationInv => HistoryIsReplayable
  BY DEF ConversationInv, Whole, HistoryIsReplayable
<1> QED
  BY <1>1, InitConversationInv, NextConversationInv, PTL DEF ConversationSpec

-----------------------------------------------------------------------------
(* What a shorter history keeps.                                           *)

LEMMA SameSeq ==
  ASSUME NEW s, NEW t, IsSeq(s), IsSeq(t), Len(s) = Len(t),
         \A i \in 1..Len(s) : s[i] = t[i]
  PROVE  s = t
<1>1. PICK S, T : s \in Seq(S) /\ t \in Seq(T)
  BY DEF IsSeq
<1>2. s \in Seq(S \cup T) /\ t \in Seq(S \cup T)
  BY <1>1
<1>3. s = [i \in 1..Len(s) |-> s[i]] /\ t = [i \in 1..Len(t) |-> t[i]]
  BY <1>2
<1> QED
  BY <1>3

LEMMA AgreementIsPrefix ==
  ASSUME NEW s, NEW t, IsSeq(s), IsSeq(t), Len(s) <= Len(t),
         \A i \in 1..Len(s) : s[i] = t[i]
  PROVE  IsPrefix(s, t)
<1>1. Len(s) \in Nat /\ Len(t) \in Nat
  BY SeqFacts
<1> DEFINE u == SubSeq(s, 1, Len(s))
           v == SubSeq(t, 1, Len(s))
<1>2. /\ IsSeq(u) /\ Len(u) = Len(s) - 1 + 1
      /\ \A i \in 1..(Len(s) - 1 + 1) : u[i] = s[1 + i - 1]
  BY <1>1, SubSeqFacts
<1>3. /\ IsSeq(v) /\ Len(v) = Len(s) - 1 + 1
      /\ \A i \in 1..(Len(s) - 1 + 1) : v[i] = t[1 + i - 1]
  BY <1>1, SubSeqFacts
<1> HIDE DEF u, v
<1>4. Len(u) = Len(v) /\ \A i \in 1..Len(u) : u[i] = v[i]
  BY <1>1, <1>2, <1>3
<1>5. u = v
  BY <1>2, <1>3, <1>4, SameSeq
<1> QED
  BY <1>5 DEF IsPrefix, u, v

LEMMA PrefixOfItself ==
  ASSUME NEW s, IsSeq(s)
  PROVE  IsPrefix(s, s)
  BY SeqFacts, AgreementIsPrefix

LEMMA ConcatIsLonger ==
  ASSUME NEW s, NEW t, IsSeq(s), IsSeq(t)
  PROVE  IsPrefix(s, s \o t)
<1> DEFINE h == s \o t
<1>1. Len(s) \in Nat /\ Len(t) \in Nat
  BY SeqFacts
<1>2. /\ IsSeq(h) /\ Len(h) = Len(s) + Len(t)
      /\ \A i \in 1..Len(s) : h[i] = s[i]
  BY ConcatFacts
<1> HIDE DEF h
<1>3. IsPrefix(s, h)
  BY <1>1, <1>2, AgreementIsPrefix
<1> QED
  BY <1>3 DEF h

LEMMA AppendIsLonger ==
  ASSUME NEW s, NEW x, NEW t, IsSeq(s), IsSeq(t)
  PROVE  IsPrefix(s, Append(s, x) \o t) /\ IsPrefix(s, Append(s, x))
<1> DEFINE h == Append(s, x)
           g == h \o t
<1>1. Len(s) \in Nat /\ Len(t) \in Nat
  BY SeqFacts
<1>2. /\ IsSeq(h) /\ Len(h) = Len(s) + 1
      /\ \A i \in 1..Len(s) : h[i] = s[i]
  BY AppendFacts
<1> HIDE DEF h
<1>3. /\ IsSeq(g) /\ Len(g) = Len(h) + Len(t)
      /\ \A i \in 1..Len(h) : g[i] = h[i]
  BY <1>2, ConcatFacts
<1> HIDE DEF g
<1>4. Len(s) <= Len(g) /\ \A i \in 1..Len(s) : s[i] = g[i]
  BY <1>1, <1>2, <1>3
<1>5. IsPrefix(s, g)
  BY <1>3, <1>4, AgreementIsPrefix
<1>6. IsPrefix(s, h)
  BY <1>1, <1>2, AgreementIsPrefix
<1> QED
  BY <1>5, <1>6 DEF g, h

\* n keeps the system prompt of m and its last PreserveLast messages.
RecentKept(m, n) ==
  /\ Len(m) >= PreserveLast /\ Len(n) >= PreserveLast
  /\ Recent(n) = Recent(m)
  /\ n[1] = m[1]

\* A suffix of n that is one of m.
LEMMA SameSuffix ==
  ASSUME NEW m, NEW n, IsSeq(m), IsSeq(n),
         PreserveLast <= Len(m), PreserveLast <= Len(n),
         \A i \in 1..PreserveLast : n[Len(n) - PreserveLast + i] = m[Len(m) - PreserveLast + i]
  PROVE  Recent(n) = Recent(m)
<1>1. Len(m) \in Nat /\ Len(n) \in Nat /\ PreserveLast \in Nat
  BY SeqFacts, HistoryAssumption
<1> DEFINE a == Len(m) - PreserveLast
           b == Len(n) - PreserveLast
           u == SubSeq(m, a + 1, Len(m))
           v == SubSeq(n, b + 1, Len(n))
<1>2. a \in Int /\ b \in Int /\ a >= 0 /\ b >= 0 /\ a + PreserveLast = Len(m) /\ b + PreserveLast = Len(n)
  BY <1>1
<1>3. \A i \in 1..PreserveLast : n[b + i] = m[a + i]
  OBVIOUS
<1> HIDE DEF a, b
<1>4. /\ IsSeq(u) /\ Len(u) = Len(m) - (a + 1) + 1
      /\ \A i \in 1..(Len(m) - (a + 1) + 1) : u[i] = m[a + 1 + i - 1]
  BY <1>1, <1>2, SubSeqFacts
<1>5. /\ IsSeq(v) /\ Len(v) = Len(n) - (b + 1) + 1
      /\ \A i \in 1..(Len(n) - (b + 1) + 1) : v[i] = n[b + 1 + i - 1]
  BY <1>1, <1>2, SubSeqFacts
<1> HIDE DEF u, v
<1>6. /\ Len(m) - (a + 1) + 1 = PreserveLast /\ Len(n) - (b + 1) + 1 = PreserveLast
      /\ \A i \in 1..PreserveLast : a + 1 + i - 1 = a + i /\ b + 1 + i - 1 = b + i
  BY <1>1, <1>2
<1>9. Len(u) = PreserveLast /\ Len(v) = PreserveLast
  BY <1>4, <1>5, <1>6
<1>7. ASSUME NEW i \in 1..PreserveLast PROVE v[i] = u[i]
  <2>1. u[i] = m[a + 1 + i - 1] /\ v[i] = n[b + 1 + i - 1]
    BY <1>4, <1>5, <1>6
  <2>2. a + 1 + i - 1 = a + i /\ b + 1 + i - 1 = b + i
    BY <1>6
  <2> QED
    BY <1>3, <2>1, <2>2
<1>8. v = u
  BY <1>4, <1>5, <1>7, <1>9, SameSeq
<1> QED
  BY <1>8 DEF Recent, a, b, u, v

-----------------------------------------------------------------------------
(* Estimates.                                                              *)

LEMMA BigBodiesFacts ==
  ASSUME NEW m, IsSeq(m)
  PROVE  BigBodies(m, 1) \in Nat /\ EstimateTokens(m) \in Nat
<1>1. Len(m) \in Nat
  BY SeqFacts
<1>2. IsFiniteSet(1..Len(m))
  BY <1>1, FS_Interval
<1>3. {i \in 1..Len(m) : IsBig(m[i])} \in SUBSET (1..Len(m))
  OBVIOUS
<1>4. IsFiniteSet({i \in 1..Len(m) : IsBig(m[i])})
  BY <1>2, <1>3, FS_Subset
<1>5. BigBodies(m, 1) \in Nat
  BY <1>4, FS_CardinalityType DEF BigBodies
<1> QED
  BY <1>1, <1>5, HistoryAssumption DEF EstimateTokens

LEMMA ProductsOrdered ==
  ASSUME NEW a \in Nat, NEW b \in Nat, NEW c \in Nat, a <= b
  PROVE  c * a <= c * b /\ a * c <= b * c
<1>1. PICK d \in Nat : b = a + d
  <2>1. b - a \in Nat /\ b = a + (b - a)
    OBVIOUS
  <2> QED
    BY <2>1
<1>2. c * d \in Nat /\ d * c \in Nat
  OBVIOUS
<1>3. c * b = c * a + c * d /\ b * c = a * c + d * c
  BY <1>1
<1> QED
  BY <1>2, <1>3

LEMMA QuartersOrdered ==
  ASSUME NEW a \in Nat, NEW b \in Nat, a <= b
  PROVE  a \div 4 <= b \div 4
  OBVIOUS

\* A smaller calibrated size is a smaller estimate.
LEMMA SmallerSizeIsSmaller ==
  ASSUME NEW m, NEW n, IsSeq(m), IsSeq(n), ratio \in Nat, Size(n) < Size(m)
  PROVE  EstimateTokens(n) <= EstimateTokens(m)
<1> DEFINE a == EstimateTokens(m)
           b == EstimateTokens(n)
<1>1. a \in Nat /\ b \in Nat /\ ToolTokens \in Nat
  BY BigBodiesFacts, CompactionAssumption
<1>2. Size(m) = ((a + ToolTokens) * ratio) \div 4 /\ Size(n) = ((b + ToolTokens) * ratio) \div 4
  BY DEF Size, Calibrated
<1> HIDE DEF a, b
<1>3. ASSUME ~ (b <= a) PROVE FALSE
  <2> DEFINE x == a + ToolTokens
             y == b + ToolTokens
  <2>1. x \in Nat /\ y \in Nat /\ x <= y
    BY <1>1, <1>3
  <2> HIDE DEF x, y
  <2>2. x * ratio <= y * ratio /\ x * ratio \in Nat /\ y * ratio \in Nat
    BY <2>1, ProductsOrdered
  <2> DEFINE v == x * ratio
             w == y * ratio
  <2>3. v \in Nat /\ w \in Nat /\ v <= w
    BY <2>2
  <2>4. Size(m) = v \div 4 /\ Size(n) = w \div 4
    BY <1>2 DEF x, y
  <2> HIDE DEF v, w
  <2>5. v \div 4 <= w \div 4 /\ v \div 4 \in Int /\ w \div 4 \in Int
    BY <2>3, QuartersOrdered
  <2> QED
    BY <2>4, <2>5
<1> QED
  BY <1>3 DEF a, b

-----------------------------------------------------------------------------
(* The last messages.                                                      *)

LEMMA PruneKeepsRecent ==
  ASSUME NEW m, IsHistory(m)
  PROVE  \/ PruneStale(m) = m
         \/ RecentKept(m, PruneStale(m)) /\ EstimateTokens(PruneStale(m)) <= EstimateTokens(m)
<1> DEFINE old == PruneCandidates(m)
           body(i) == IF i \in old THEN "pruned" ELSE m[i].body
           h == [i \in DOMAIN m |-> [m[i] EXCEPT !.body = body(i)]]
<1>1. /\ IsSeq(m) /\ Len(m) \in Nat /\ DOMAIN m = 1..Len(m)
      /\ Len(m) >= 2 /\ m[1].role = "system" /\ PreserveLast \in Nat
  BY SeqFacts, HistoryAssumption DEF IsHistory
<1>2. PruneStale(m) = m \/ (old # {} /\ PruneStale(m) = h)
  BY DEF PruneStale
<1> SUFFICES ASSUME old # {}
             PROVE  RecentKept(m, h) /\ EstimateTokens(h) <= EstimateTokens(m)
  BY <1>2
<1>3. IsSeq(h) /\ Len(h) = Len(m) /\ DOMAIN h = 1..Len(m)
  <2>1. h = [i \in 1..Len(m) |-> h[i]]
    BY <1>1
  <2> HIDE DEF h
  <2> QED
    BY <1>1, <2>1, FunctionIsSeq
<1>4. \A i \in old : i \in 1..Len(m) /\ i + PreserveLast <= Len(m) /\ m[i].role = "tool"
  BY <1>1 DEF PruneCandidates
<1>5. ASSUME NEW i \in 1..Len(m)
      PROVE  /\ i \notin old => h[i] = m[i]
             /\ IsBig(h[i]) => IsBig(m[i])
  <2>1. h[i] = [m[i] EXCEPT !.body = body(i)]
    BY <1>1
  <2>2. WellFormed(m[i])
    BY <1>1 DEF IsHistory
  <2>3. i \notin old => h[i] = m[i]
    BY <2>1, <2>2 DEF WellFormed
  <2>4. i \in old => h[i].body = "pruned"
    BY <2>1, <2>2 DEF WellFormed
  <2> QED
    BY <2>3, <2>4 DEF IsBig
<1> HIDE DEF old, h
<1>6. PreserveLast <= Len(m) /\ h[1] = m[1]
  <2>1. 1 \notin old /\ 1 \in 1..Len(m)
    BY <1>1, <1>4
  <2> QED
    BY <1>1, <1>4, <1>5, <2>1
<1>7. Recent(h) = Recent(m)
  <2>1. ASSUME NEW i \in 1..PreserveLast
        PROVE  h[Len(h) - PreserveLast + i] = m[Len(m) - PreserveLast + i]
    <3>1. /\ Len(m) - PreserveLast + i \in 1..Len(m)
          /\ Len(m) - PreserveLast + i \notin old
      BY <1>1, <1>4, <1>6
    <3> QED
      BY <1>3, <1>5, <3>1
  <2> QED
    BY <1>1, <1>3, <1>6, <2>1, SameSuffix
<1>8. EstimateTokens(h) <= EstimateTokens(m)
  <2> DEFINE A == {i \in 1..Len(h) : IsBig(h[i])}
             B == {i \in 1..Len(m) : IsBig(m[i])}
  <2>1. A \in SUBSET B
    BY <1>3, <1>5
  <2>2. IsFiniteSet(B)
    <3>1. IsFiniteSet(1..Len(m)) /\ B \in SUBSET (1..Len(m))
      BY <1>1, FS_Interval
    <3> QED
      BY <3>1, FS_Subset
  <2>3. Cardinality(A) <= Cardinality(B)
    BY <2>1, <2>2, FS_Subset
  <2>4. BigBodies(h, 1) <= BigBodies(m, 1)
    BY <2>3 DEF BigBodies
  <2>5. /\ BigBodies(h, 1) \in Nat /\ BigBodies(m, 1) \in Nat /\ BigCost \in Nat
    BY <1>1, <1>3, BigBodiesFacts, HistoryAssumption
  <2>6. BigCost * BigBodies(h, 1) <= BigCost * BigBodies(m, 1)
    BY <2>4, <2>5, ProductsOrdered
  <2> DEFINE x == BigCost * BigBodies(h, 1)
             y == BigCost * BigBodies(m, 1)
  <2>7. x \in Nat /\ y \in Nat /\ x <= y
    BY <2>5, <2>6
  <2>8. EstimateTokens(h) = Len(m) + x /\ EstimateTokens(m) = Len(m) + y
    BY <1>3 DEF EstimateTokens
  <2> HIDE DEF x, y
  <2> QED
    BY <1>1, <2>7, <2>8
<1> QED
  BY <1>1, <1>3, <1>6, <1>7, <1>8 DEF RecentKept

LEMMA CompactKeepsRecent ==
  ASSUME NEW m, NEW body, IsHistory(m)
  PROVE  Compact(m, body) = m \/ RecentKept(m, Compact(m, body))
<1> DEFINE g == Compact(m, body)
           b == Boundary(m)
<1> SUFFICES ASSUME Summarized(m, g, body) PROVE RecentKept(m, g)
  BY CompactFacts
<1> HIDE DEF g
<1>2. /\ b \in 2..(Len(m) - 1)
      /\ IsSeq(g) /\ Len(g) = 2 + (Len(m) - b) /\ g[1] = m[1]
      /\ \A i \in 1..(Len(m) - b) : g[2 + i] = m[b + i]
  BY DEF Summarized
<1>3. Len(m) \in Nat /\ PreserveLast \in Nat /\ IsSeq(m)
  BY SeqFacts, HistoryAssumption DEF IsHistory
<1>4. b + PreserveLast <= Len(m)
  BY <1>2, <1>3, BoundaryIsSafe
<1> HIDE DEF b
<1>5. ASSUME NEW i \in 1..PreserveLast
      PROVE  g[Len(g) - PreserveLast + i] = m[Len(m) - PreserveLast + i]
  <2> DEFINE k == Len(m) - b - PreserveLast + i
  <2>1. /\ k \in 1..(Len(m) - b) /\ 2 + k = Len(g) - PreserveLast + i
        /\ b + k = Len(m) - PreserveLast + i
    BY <1>2, <1>3, <1>4
  <2> HIDE DEF k
  <2>2. g[2 + k] = m[b + k]
    BY <1>2, <2>1
  <2> QED
    BY <2>1, <2>2
<1>6. PreserveLast <= Len(m) /\ PreserveLast <= Len(g)
  BY <1>2, <1>3, <1>4
<1>7. Recent(g) = Recent(m)
  BY <1>2, <1>3, <1>5, <1>6, SameSuffix
<1> QED
  BY <1>2, <1>3, <1>6, <1>7 DEF RecentKept

Trimmed(m, n) == RecentKept(m, n) /\ EstimateTokens(n) <= EstimateTokens(m)

LEMMA TrimmedTwice ==
  ASSUME NEW k, NEW m, NEW n, IsSeq(k), IsSeq(m), IsSeq(n),
         Trimmed(k, m) \/ m = k, Trimmed(m, n) \/ n = m
  PROVE  Trimmed(k, n) \/ n = k
<1>1. EstimateTokens(k) \in Nat /\ EstimateTokens(m) \in Nat /\ EstimateTokens(n) \in Nat
  BY BigBodiesFacts
<1> QED
  BY <1>1 DEF Trimmed, RecentKept

\* maybeCompact and recover.
LEMMA ShortenTrims ==
  ASSUME Whole(messages, <<>>), ratio \in Nat,
         MaybeCompact \/ RecoverFails(TRUE) \/ Recovered(TRUE)
  PROVE  Trimmed(messages, messages') \/ messages' = messages
<1>1. IsHistory(messages) /\ Paired(messages) /\ IsSeq(messages)
  BY NoneOwedIsWhole DEF IsHistory
<1>2. IsHistory(Pruned) /\ Paired(Pruned) /\ IsSeq(Pruned)
  BY <1>1, PruneKeepsPaired DEF Pruned, IsHistory
<1>3. Trimmed(messages, Pruned) \/ Pruned = messages
  BY <1>1, PruneKeepsRecent DEF Pruned, Trimmed
<1>4. CASE NothingToCompact \/ RecoverFails(TRUE)
  BY <1>4 DEF NothingToCompact, RecoverFails, compactionVars
<1>5. CASE Prune \/ SummarizerFails
  BY <1>3, <1>5 DEF Prune, SummarizerFails, Adopt
<1>6. CASE Summarize
  <2>1. PICK body \in Sizes :
          messages' = IF Size(Compact(Pruned, body)) < Size(Pruned)
                        THEN Compact(Pruned, body) ELSE Pruned
    BY <1>6 DEF Summarize, Adopt
  <2> DEFINE s == Compact(Pruned, body)
  <2>2. IsSeq(s)
    BY <1>2, CompactKeepsPaired DEF IsHistory
  <2>3. s = Pruned \/ RecentKept(Pruned, s)
    BY <1>2, CompactKeepsRecent
  <2> HIDE DEF s
  <2>4. Size(s) < Size(Pruned) => Trimmed(Pruned, s) \/ s = Pruned
    BY <1>2, <2>2, <2>3, SmallerSizeIsSmaller DEF Trimmed
  <2>5. messages' = s \/ messages' = Pruned
    BY <2>1 DEF s
  <2>6. CASE Size(s) < Size(Pruned)
    BY <1>1, <1>2, <1>3, <2>1, <2>2, <2>4, <2>6, TrimmedTwice DEF s
  <2>7. CASE ~ (Size(s) < Size(Pruned))
    BY <1>3, <2>1, <2>7 DEF s
  <2> QED
    BY <2>6, <2>7
<1>7. CASE Recovered(TRUE)
  <2>1. PICK body \in Sizes : messages' = Compact(messages, body) /\ Shrinks(body)
    BY <1>7 DEF Recovered, Adopt
  <2> DEFINE s == Compact(messages, body)
  <2>2. s = messages \/ RecentKept(messages, s)
    BY <1>1, CompactKeepsRecent
  <2>3. IsSeq(s)
    BY <1>1, CompactKeepsPaired DEF IsHistory
  <2>4. EstimateTokens(s) < EstimateTokens(messages)
    BY <2>1 DEF Shrinks
  <2>5. messages' = s
    BY <2>1
  <2> HIDE DEF s
  <2>6. EstimateTokens(s) \in Nat /\ EstimateTokens(messages) \in Nat
    BY <1>1, <2>3, BigBodiesFacts
  <2> QED
    BY <2>2, <2>4, <2>5, <2>6 DEF Trimmed
<1> QED
  BY <1>4, <1>5, <1>6, <1>7 DEF MaybeCompact

\* Whatever else happens extends a history, or takes its last message back.
LEMMA OthersExtend ==
  ASSUME NEW m, NEW c, NEW n, NEW d, Whole(m, c),
         \/ Reminded(m, n) \/ Retracted(m, n)
         \/ Spoken(m, n, d)
         \/ c # <<>> /\ AnsweredOne(m, c, n, d)
         \/ n = m
  PROVE  IsPrefix(m, n) \/ IsPrefix(n, m)
<1>1. IsHistory(m) /\ IsSeq(m) /\ IsSeq(c) /\ Len(m) \in Nat
  BY SeqFacts DEF Whole, IsHistory
<1>2. ASSUME Reminded(m, n) PROVE IsPrefix(m, n)
  BY <1>1, <1>2, ConcatIsLonger DEF Reminded, AreNotes
<1>3. ASSUME Retracted(m, n) PROVE IsPrefix(n, m)
  <2>1. /\ IsSeq(n) /\ Len(n) = Len(m) - 1 - 1 + 1
        /\ \A i \in 1..(Len(m) - 1 - 1 + 1) : n[i] = m[1 + i - 1]
    BY <1>1, <1>3, SubSeqFacts DEF Retracted
  <2>2. Len(n) <= Len(m) /\ \A i \in 1..Len(n) : n[i] = m[i]
    BY <1>1, <2>1
  <2> QED
    BY <1>1, <2>1, <2>2, AgreementIsPrefix
<1>4. ASSUME Spoken(m, n, d) PROVE IsPrefix(m, n)
  BY <1>1, <1>4, AppendIsLonger DEF Spoken, AreNotes
<1>5. ASSUME c # <<>>, AnsweredOne(m, c, n, d) PROVE IsPrefix(m, n)
  <2>1. PICK body : \/ n = Append(m, ToolAnswer(Head(c).id, body))
                    \/ n = AppendAborted(Append(m, ToolAnswer(Head(c).id, body)), Tail(c))
    BY <1>5 DEF AnsweredOne
  <2>2. IsSeq(Tail(c))
    <3>1. PICK S : c \in Seq(S)
      BY <1>1 DEF IsSeq
    <3>2. Tail(c) \in Seq(S)
      BY <1>5, <3>1
    <3> QED
      BY <3>2 DEF IsSeq
  <2>3. IsSeq(AbortedAnswers(Tail(c)))
    BY <2>2, AbortedFacts
  <2> QED
    BY <1>1, <2>1, <2>3, AppendIsLonger DEF AppendAborted
<1>6. ASSUME n = m PROVE IsPrefix(m, n)
  BY <1>1, <1>6, AgreementIsPrefix
<1> QED
  BY <1>2, <1>3, <1>4, <1>5, <1>6

RatioOK == ratio \in Nat

\* Neither a summary nor a pruning, nor a summary of summaries, touches the last
\* PreserveLast messages or the system prompt, and none makes the history larger:
\* Compact keeps the suffix from the safe boundary, PruneStale the messages it
\* protects (compaction.go, prune.go).
THEOREM RecentStaysVerbatim == ConversationSpec => RecentIsVerbatim
<1> DEFINE Step == Rewritten =>
       /\ Len(messages) >= PreserveLast /\ Len(messages') >= PreserveLast
       /\ Recent(messages') = Recent(messages)
       /\ messages'[1] = messages[1]
       /\ EstimateTokens(messages') <= EstimateTokens(messages)
<1>1. ConversationInit => RatioOK
  BY DEF ConversationInit, CompactionInit, RatioOK
<1>2. RatioOK /\ [ConversationNext]_conversationVars => RatioOK'
  <2>1. Ratios \subseteq Nat
    BY CompactionAssumption
  <2> QED
    BY <2>1 DEF RatioOK, ConversationNext, NewTurn, Speak, AnswerCall, Remind, Retract, Shorten,
         MaybeCompact, NothingToCompact, Prune, SummarizerFails, Summarize, RecoverFails,
         Recovered, compactionVars, conversationVars
<1>3. ConversationInv /\ RatioOK /\ [ConversationNext]_conversationVars => [Step]_conversationVars
  <2> SUFFICES ASSUME ConversationInv, RatioOK, [ConversationNext]_conversationVars, Rewritten
               PROVE  Trimmed(messages, messages')
    BY DEF Trimmed, RecentKept
  <2>1. Whole(messages, owed) /\ Leads(messages, owed, messages', owed')
    BY ConversationLeads DEF ConversationInv
  <2>3. messages' # messages
    BY <2>1, PrefixOfItself DEF Rewritten, Whole, IsHistory
  <2>4. CASE Shorten
    BY <2>1, <2>3, <2>4, ShortenTrims DEF Shorten, Settled, RatioOK
  <2>5. CASE ~Shorten
    <3>1. IsPrefix(messages, messages') \/ IsPrefix(messages', messages)
      BY <2>1, <2>5, ActionsLead, OthersExtend DEF ConversationNext
    <3> QED
      BY <3>1 DEF Rewritten
  <2> QED
    BY <2>4, <2>5
<1> QED
  BY <1>1, <1>2, <1>3, InitConversationInv, NextConversationInv, PTL DEF ConversationSpec, RecentIsVerbatim

-----------------------------------------------------------------------------
(* The newest plan a history tells of.                                     *)

LEMMA MaxFacts ==
  ASSUME NEW n \in Int, NEW T, T # {}, \A i \in T : i \in 1..n
  PROVE  Max(T) \in T /\ \A y \in T : y <= Max(T)
<1>1. T \in SUBSET (1..n) /\ 1 \in Int
  OBVIOUS
<1>2. \E x \in T : \A y \in T : y <= x
  BY <1>1, Largest
<1>3. \A x, y \in T : x >= y <=> y <= x
  OBVIOUS
<1>4. \E x \in T : \A y \in T : x >= y
  BY <1>2, <1>3
<1>5. Max(T) \in T /\ \A y \in T : Max(T) >= y
  BY <1>4 DEF Max
<1> QED
  BY <1>3, <1>5

SaysPlan(x) == PlanCall(x.calls) > 0
PlanId(x) == x.calls[PlanCall(x.calls)].id

\* The messages of a..b that say a plan.
PlansIn(m, a, b) == {i \in a..b : SaysPlan(m[i])}

PlanOf(m, a, b, older) ==
  IF PlansIn(m, a, b) = {} THEN older ELSE PlanId(m[Max(PlansIn(m, a, b))])

LEMMA LatestPlanIs ==
  ASSUME NEW m, IsSeq(m), NEW a \in Int, NEW b \in Int, 1 <= a, a <= b + 1, b <= Len(m)
  PROVE  LatestPlan(SubSeq(m, a, b)) = PlanOf(m, a, b, NoCall)
<1> DEFINE t == SubSeq(m, a, b)
           I == {i \in 1..Len(t) : PlanCall(t[i].calls) > 0}
           J == PlansIn(m, a, b)
<1>1. /\ IsSeq(t) /\ Len(t) = b - a + 1
      /\ \A i \in 1..(b - a + 1) : t[i] = m[a + i - 1]
  BY SubSeqFacts
<1>2. LatestPlan(t) = IF (IF I # {} THEN Max(I) ELSE 0) = 0 THEN NoCall
                      ELSE PlanId(t[IF I # {} THEN Max(I) ELSE 0])
  BY DEF LatestPlan, SelectLastInSeq, PlanId
<1> HIDE DEF t
<1>3. \A i \in Int : i \in I <=> a + i - 1 \in J
  <2> TAKE i \in Int
  <2>1. i \in 1..Len(t) <=> a + i - 1 \in a..b
    BY <1>1
  <2>2. i \in 1..Len(t) => t[i] = m[a + i - 1]
    BY <1>1
  <2> QED
    BY <2>1, <2>2 DEF PlansIn, SaysPlan
<1>4. /\ Len(t) \in Int /\ Len(m) \in Int
      /\ \A i \in I : i \in 1..Len(t)
      /\ \A j \in J : j \in 1..Len(m) /\ j \in a..b
  BY <1>1, SeqFacts DEF PlansIn
<1> HIDE DEF I, J
<1>5. CASE I = {}
  <2>1. J = {}
    <3> SUFFICES ASSUME NEW j \in J PROVE FALSE
      OBVIOUS
    <3>1. j - a + 1 \in Int /\ a + (j - a + 1) - 1 = j
      BY <1>4
    <3> QED
      BY <1>3, <1>5, <3>1
  <2> QED
    BY <1>2, <1>5, <2>1 DEF PlanOf, J, t
<1>6. CASE I # {}
  <2>1. Max(I) \in I /\ \A i \in I : i <= Max(I)
    BY <1>4, <1>6, MaxFacts
  <2>2. Max(I) \in 1..Len(t) /\ Max(I) # 0 /\ Max(I) \in Int
    BY <1>4, <2>1
  <2>3. a + Max(I) - 1 \in J
    BY <1>3, <2>1, <2>2
  <2>4. Max(J) \in J /\ (\A j \in J : j <= Max(J)) /\ Max(J) \in Int
    BY <1>4, <2>3, MaxFacts
  <2>5. Max(J) - a + 1 \in I
    <3>1. Max(J) - a + 1 \in Int /\ a + (Max(J) - a + 1) - 1 = Max(J)
      BY <2>4
    <3> QED
      BY <1>3, <2>4, <3>1
  <2>6. Max(J) = a + Max(I) - 1
    <3>1. a + Max(I) - 1 <= Max(J)
      BY <2>3, <2>4
    <3>2. Max(J) - a + 1 <= Max(I)
      BY <2>1, <2>5
    <3> QED
      BY <2>2, <2>4, <3>1, <3>2
  <2>7. t[Max(I)] = m[Max(J)]
    BY <1>1, <2>2, <2>6
  <2> QED
    BY <1>2, <1>6, <2>2, <2>3, <2>7 DEF PlanOf, J, t
<1> QED
  BY <1>5, <1>6

-----------------------------------------------------------------------------
(* A history with a summary.                                               *)

Named(c) == \A k \in DOMAIN c : c[k].id # NoCall

\* A summary is the message behind the system prompt, and calls have ids.
SummaryIsSecond(m) == \A i \in DOMAIN m :
  /\ m[i].state # NoState => i = 2 /\ m[i].calls = <<>>
  /\ Named(m[i].calls)

LEMMA PlanHasId ==
  ASSUME NEW x, WellFormed(x), Named(x.calls), SaysPlan(x)
  PROVE  PlanId(x) # NoCall
<1> DEFINE T == {k \in 1..Len(x.calls) : x.calls[k].kind = "plan"}
<1>1. Len(x.calls) \in Nat /\ DOMAIN x.calls = 1..Len(x.calls)
  BY SeqFacts DEF WellFormed
<1>2. PlanCall(x.calls) = IF T # {} THEN Max(T) ELSE 0
  BY DEF PlanCall, SelectLastInSeq
<1>3. T # {}
  BY <1>2 DEF SaysPlan
<1>4. Max(T) \in T
  <2>1. \A k \in T : k \in 1..Len(x.calls)
    OBVIOUS
  <2> HIDE DEF T
  <2> QED
    BY <1>1, <1>3, <2>1, MaxFacts
<1> QED
  BY <1>1, <1>2, <1>3, <1>4 DEF PlanId, Named

LEMMA NoCallsNoPlan ==
  ASSUME NEW x, x.calls = <<>>
  PROVE  ~SaysPlan(x)
  BY DEF SaysPlan, PlanCall, SelectLastInSeq

LEMMA LatestHasId ==
  ASSUME NEW m, IsHistory(m), SummaryIsSecond(m), NEW a \in Int, NEW b \in Int,
         1 <= a, b <= Len(m), PlansIn(m, a, b) # {}
  PROVE  PlanOf(m, a, b, NoCall) # NoCall
<1> DEFINE i == Max(PlansIn(m, a, b))
<1>1. Len(m) \in Nat /\ DOMAIN m = 1..Len(m)
  BY SeqFacts DEF IsHistory
<1>2. i \in PlansIn(m, a, b)
  <2>1. \A j \in PlansIn(m, a, b) : j \in 1..Len(m)
    BY <1>1 DEF PlansIn
  <2> QED
    BY <1>1, <2>1, MaxFacts
<1> HIDE DEF i
<1>3. i \in DOMAIN m /\ SaysPlan(m[i])
  BY <1>1, <1>2 DEF PlansIn
<1>4. PlanId(m[i]) # NoCall
  BY <1>3, PlanHasId DEF IsHistory, SummaryIsSecond
<1> QED
  BY <1>4 DEF PlanOf, i

\* The plan a reader of m knows: the newest said, or the summary's.
LEMMA RecalledPlan ==
  ASSUME NEW m, IsHistory(m), SummaryIsSecond(m)
  PROVE  Recall(m)[1] = PlanOf(m, 1, Len(m), m[2].state.plan)
<1> DEFINE I == {i \in 1..Len(m) : m[i].state # NoState}
           s == IF I # {} THEN Max(I) ELSE 0
           since == SubSeq(m, s + 1, Len(m))
           known == IF s = 0 THEN NoState ELSE m[s].state
<1>1. Len(m) \in Nat /\ Len(m) >= 2 /\ DOMAIN m = 1..Len(m) /\ IsSeq(m)
  BY SeqFacts DEF IsHistory
<1>2. Recall(m)[1] = IF LatestPlan(since) = NoCall THEN known.plan ELSE LatestPlan(since)
  BY DEF Recall, SelectLastInSeq
<1>3. NoState.plan = NoCall
  BY DEF NoState
<1>4. I = {} \/ I = {2}
  BY <1>1 DEF SummaryIsSecond
<1>5. s \in {0, 2} /\ (s = 0 <=> I = {})
  <2>1. ASSUME I = {2} PROVE Max(I) = 2
    <3>1. I # {} /\ \A i \in I : i \in 1..2
      BY <2>1
    <3> HIDE DEF I
    <3>2. Max(I) \in I
      BY <3>1, MaxFacts
    <3> QED
      BY <2>1, <3>2
  <2> QED
    BY <1>4, <2>1
<1>6. known = m[2].state
  BY <1>1, <1>4, <1>5
<1>7. s = 2 => m[2].calls = <<>>
  BY <1>1, <1>4, <1>5 DEF SummaryIsSecond
<1> HIDE DEF s, known
<1>8. LatestPlan(since) = PlanOf(m, s + 1, Len(m), NoCall)
  BY <1>1, <1>5, LatestPlanIs
<1>9. PlansIn(m, s + 1, Len(m)) = PlansIn(m, 1, Len(m))
  <2>1. ~SaysPlan(m[1])
    BY <1>1, NoCallsNoPlan DEF IsHistory, WellFormed
  <2>2. s = 2 => ~SaysPlan(m[2])
    BY <1>7, NoCallsNoPlan
  <2>3. \A i \in 1..Len(m) : i \in (s + 1)..Len(m) \/ i = 1 \/ (i = 2 /\ s = 2)
    BY <1>1, <1>5
  <2>4. (s + 1)..Len(m) \subseteq 1..Len(m)
    BY <1>1, <1>5
  <2> QED
    BY <2>1, <2>2, <2>3, <2>4 DEF PlansIn
<1>10. CASE PlansIn(m, 1, Len(m)) = {}
  BY <1>2, <1>6, <1>8, <1>9, <1>10 DEF PlanOf
<1>11. CASE PlansIn(m, 1, Len(m)) # {}
  <2>1. PlanOf(m, 1, Len(m), NoCall) # NoCall
    BY <1>1, <1>11, LatestHasId
  <2> QED
    BY <1>2, <1>8, <1>9, <1>11, <2>1 DEF PlanOf
<1> QED
  BY <1>10, <1>11

-----------------------------------------------------------------------------
(* Nothing else brings a summary, or a call without an id.                 *)

LEMMA NoCallsNamed == Named(<<>>)
  BY DEF Named

Bare(x) == x.state = NoState /\ Named(x.calls)

\* n is m with other messages put behind it.
LEMMA BareMayFollow ==
  ASSUME NEW m, NEW n, IsHistory(m), SummaryIsSecond(m), IsSeq(n), Len(m) <= Len(n),
         \A i \in 1..Len(m) : n[i] = m[i],
         \A i \in 1..Len(n) : i > Len(m) => Bare(n[i])
  PROVE  SummaryIsSecond(n)
<1>1. Len(m) \in Nat /\ DOMAIN m = 1..Len(m) /\ Len(n) \in Nat /\ DOMAIN n = 1..Len(n)
  BY SeqFacts DEF IsHistory
<1>2. ASSUME NEW i \in DOMAIN n
      PROVE  /\ n[i].state # NoState => i = 2 /\ n[i].calls = <<>>
             /\ Named(n[i].calls)
  <2>1. CASE i <= Len(m)
    BY <1>1, <2>1 DEF SummaryIsSecond
  <2>2. CASE i > Len(m)
    BY <1>1, <2>2 DEF Bare
  <2> QED
    BY <1>1, <2>1, <2>2
<1> QED
  BY <1>2 DEF SummaryIsSecond

LEMMA ConcatKeepsSecond ==
  ASSUME NEW m, NEW t, IsHistory(m), SummaryIsSecond(m), IsSeq(t),
         \A i \in 1..Len(t) : Bare(t[i])
  PROVE  SummaryIsSecond(m \o t)
<1> DEFINE n == m \o t
<1>1. Len(m) \in Nat /\ Len(t) \in Nat /\ IsSeq(m)
  BY SeqFacts DEF IsHistory
<1>2. /\ IsSeq(n) /\ Len(n) = Len(m) + Len(t)
      /\ \A i \in 1..Len(m) : n[i] = m[i]
      /\ \A i \in 1..Len(t) : n[Len(m) + i] = t[i]
  BY <1>1, ConcatFacts
<1> HIDE DEF n
<1>3. ASSUME NEW i \in 1..Len(n), i > Len(m) PROVE Bare(n[i])
  <2>1. i - Len(m) \in 1..Len(t) /\ i = Len(m) + (i - Len(m))
    BY <1>1, <1>2, <1>3
  <2> QED
    BY <1>2, <2>1
<1>4. SummaryIsSecond(n)
  BY <1>1, <1>2, <1>3, BareMayFollow
<1> QED
  BY <1>4 DEF n

LEMMA AppendKeepsSecond ==
  ASSUME NEW m, NEW x, IsHistory(m), SummaryIsSecond(m), Bare(x)
  PROVE  SummaryIsSecond(Append(m, x))
<1> DEFINE n == Append(m, x)
<1>1. Len(m) \in Nat /\ IsSeq(m)
  BY SeqFacts DEF IsHistory
<1>2. /\ IsSeq(n) /\ Len(n) = Len(m) + 1
      /\ \A i \in 1..Len(m) : n[i] = m[i]
      /\ n[Len(m) + 1] = x
  BY <1>1, AppendFacts
<1> HIDE DEF n
<1>3. \A i \in 1..Len(n) : i > Len(m) => i = Len(m) + 1
  BY <1>1, <1>2
<1>4. SummaryIsSecond(n)
  BY <1>1, <1>2, <1>3, BareMayFollow
<1> QED
  BY <1>4 DEF n

LEMMA PruneFacts ==
  ASSUME NEW m, IsHistory(m)
  PROVE  /\ Len(PruneStale(m)) = Len(m)
         /\ \A i \in 1..Len(m) : /\ PruneStale(m)[i].calls = m[i].calls
                                 /\ PruneStale(m)[i].state = m[i].state
<1> DEFINE old == PruneCandidates(m)
           body(i) == IF i \in old THEN "pruned" ELSE m[i].body
           h == [i \in DOMAIN m |-> [m[i] EXCEPT !.body = body(i)]]
<1>1. Len(m) \in Nat /\ DOMAIN m = 1..Len(m)
  BY SeqFacts DEF IsHistory
<1>2. PruneStale(m) = m \/ PruneStale(m) = h
  BY DEF PruneStale
<1> HIDE DEF old
<1>3. Len(h) = Len(m)
  <2>1. h = [i \in 1..Len(m) |-> h[i]]
    BY <1>1
  <2> HIDE DEF h
  <2> QED
    BY <1>1, <2>1, FunctionIsSeq
<1>4. ASSUME NEW i \in 1..Len(m)
      PROVE  h[i].calls = m[i].calls /\ h[i].state = m[i].state
  <2>1. h[i] = [m[i] EXCEPT !.body = body(i)]
    BY <1>1
  <2>2. WellFormed(m[i])
    BY <1>1 DEF IsHistory
  <2> HIDE DEF h, body
  <2> QED
    BY <2>1, <2>2 DEF WellFormed
<1> HIDE DEF h
<1> QED
  BY <1>2, <1>3, <1>4

LEMMA PruneKeepsSecond ==
  ASSUME NEW m, IsHistory(m), Paired(m), SummaryIsSecond(m)
  PROVE  SummaryIsSecond(PruneStale(m))
<1>1. IsHistory(PruneStale(m))
  BY PruneKeepsPaired
<1>2. /\ DOMAIN m = 1..Len(m)
      /\ DOMAIN PruneStale(m) = 1..Len(PruneStale(m))
  BY <1>1, SeqFacts DEF IsHistory
<1> QED
  BY <1>2, PruneFacts DEF SummaryIsSecond

LEMMA CompactKeepsSecond ==
  ASSUME NEW m, NEW body, IsHistory(m), SummaryIsSecond(m)
  PROVE  SummaryIsSecond(Compact(m, body))
<1> DEFINE g == Compact(m, body)
           b == Boundary(m)
<1> SUFFICES ASSUME Summarized(m, g, body) PROVE SummaryIsSecond(g)
  BY CompactFacts
<1>1. Len(m) \in Nat /\ DOMAIN m = 1..Len(m) /\ Len(m) >= 2
  BY SeqFacts DEF IsHistory
<1> HIDE DEF g
<1>2. /\ b \in 2..(Len(m) - 1) /\ DOMAIN g = 1..(2 + (Len(m) - b)) /\ g[1] = m[1]
      /\ g[2].calls = <<>>
      /\ \A i \in 1..(Len(m) - b) : g[2 + i] = m[b + i]
  BY DEF Summarized, Summary, Message
<1> HIDE DEF b
<1>3. ASSUME NEW i \in DOMAIN g
      PROVE  /\ g[i].state # NoState => i = 2 /\ g[i].calls = <<>>
             /\ Named(g[i].calls)
  <2>1. CASE i = 1
    BY <1>1, <1>2, <2>1 DEF SummaryIsSecond
  <2>2. CASE i = 2
    BY <1>2, <2>2, NoCallsNamed
  <2>3. CASE i > 2
    <3>1. /\ i - 2 \in 1..(Len(m) - b) /\ 2 + (i - 2) = i
          /\ b + (i - 2) \in 1..Len(m) /\ b + (i - 2) # 2
      BY <1>1, <1>2, <2>3
    <3>2. g[i] = m[b + (i - 2)]
      BY <1>2, <3>1
    <3> QED
      BY <1>1, <2>3, <3>1, <3>2 DEF SummaryIsSecond
  <2> QED
    BY <1>2, <2>1, <2>2, <2>3
<1> QED
  BY <1>3 DEF SummaryIsSecond

LEMMA LeadsKeepsSecond ==
  ASSUME NEW m, NEW c, NEW n, NEW d, Whole(m, c), SummaryIsSecond(m), Named(d),
         Leads(m, c, n, d)
  PROVE  SummaryIsSecond(n)
<1>0. /\ IsHistory(m) /\ IsSeq(c) /\ Len(m) \in Nat /\ DOMAIN m = 1..Len(m) /\ IsSeq(m)
      /\ \A id, body : Bare(ToolAnswer(id, body))
      /\ \A calls : Named(calls) => Bare(AssistantTurn(calls))
  BY SeqFacts, NoCallsNamed
  DEF Whole, IsHistory, Bare, ToolAnswer, AssistantTurn, Message
<1>1. CASE c = <<>> /\ d = <<>> /\ Reminded(m, n)
  <2>1. PICK notes : AreNotes(notes) /\ n = m \o notes
    BY <1>1 DEF Reminded
  <2>2. \A i \in 1..Len(notes) : Bare(notes[i])
    BY <2>1, NoCallsNamed DEF AreNotes, WellFormed, Bare
  <2> QED
    BY <1>0, <2>1, <2>2, ConcatKeepsSecond DEF AreNotes
<1>2. CASE c = <<>> /\ d = <<>> /\ Retracted(m, n)
  <2>1. /\ IsSeq(n) /\ Len(n) = Len(m) - 1 - 1 + 1
        /\ \A i \in 1..(Len(m) - 1 - 1 + 1) : n[i] = m[1 + i - 1]
    BY <1>0, <1>2, SubSeqFacts DEF Retracted
  <2>2. DOMAIN n = 1..(Len(m) - 1) /\ \A i \in 1..(Len(m) - 1) : n[i] = m[i]
    BY <1>0, <2>1, SeqFacts
  <2> QED
    BY <1>0, <2>2 DEF SummaryIsSecond
<1>3. CASE c = <<>> /\ d = <<>> /\ Shortened(m, n)
  <2>1. IsHistory(PruneStale(m)) /\ Paired(PruneStale(m)) /\ Paired(m)
    BY <1>3, NoneOwedIsWhole, PruneKeepsPaired
  <2> QED
    BY <1>0, <1>3, <2>1, PruneKeepsSecond, CompactKeepsSecond DEF Shortened
<1>4. CASE c = <<>> /\ Spoken(m, n, d)
  <2> DEFINE h == Append(m, AssistantTurn(d))
  <2>1. PICK notes : IsSeq(d) /\ AreNotes(notes) /\ n = h \o notes
    BY <1>4 DEF Spoken
  <2>2. SummaryIsSecond(h)
    BY <1>0, AppendKeepsSecond
  <2>3. IsHistory(h)
    BY <1>0, <1>4, <2>1, NoneOwedIsWhole, TurnKeepsPaired
  <2> HIDE DEF h
  <2>4. \A i \in 1..Len(notes) : Bare(notes[i])
    BY <2>1, NoCallsNamed DEF AreNotes, WellFormed, Bare
  <2> QED
    BY <2>1, <2>2, <2>3, <2>4, ConcatKeepsSecond DEF AreNotes
<1>5. CASE c # <<>> /\ AnsweredOne(m, c, n, d)
  <2>1. PICK body : \/ n = Append(m, ToolAnswer(Head(c).id, body))
                    \/ n = AppendAborted(Append(m, ToolAnswer(Head(c).id, body)), Tail(c))
    BY <1>5 DEF AnsweredOne
  <2> DEFINE h == Append(m, ToolAnswer(Head(c).id, body))
  <2>2. IsHistory(h) /\ IsSeq(Tail(c))
    BY <1>5, AnswerKeepsPaired DEF Whole
  <2>3. SummaryIsSecond(h)
    BY <1>0, AppendKeepsSecond
  <2> HIDE DEF h
  <2>4. /\ IsSeq(AbortedAnswers(Tail(c)))
        /\ \A k \in 1..Len(AbortedAnswers(Tail(c))) : Bare(AbortedAnswers(Tail(c))[k])
    BY <1>0, <2>2, AbortedFacts
  <2>5. SummaryIsSecond(AppendAborted(h, Tail(c)))
    BY <2>2, <2>3, <2>4, ConcatKeepsSecond DEF AppendAborted
  <2> QED
    BY <2>1, <2>3, <2>5 DEF h
<1>6. CASE n = m /\ d = c
  BY <1>6
<1> QED
  BY <1>1, <1>2, <1>3, <1>4, <1>5, <1>6 DEF Leads

-----------------------------------------------------------------------------
(* Shortening keeps the plan.                                              *)

LEMMA PruneKeepsPlan ==
  ASSUME NEW m, IsHistory(m), Paired(m), SummaryIsSecond(m)
  PROVE  Recall(PruneStale(m))[1] = Recall(m)[1]
<1> DEFINE n == PruneStale(m)
<1>1. Len(m) \in Nat /\ Len(m) >= 2
  BY SeqFacts DEF IsHistory
<1>2. IsHistory(n) /\ SummaryIsSecond(n)
  BY PruneKeepsPaired, PruneKeepsSecond
<1>3. /\ Len(n) = Len(m)
      /\ \A i \in 1..Len(m) : n[i].calls = m[i].calls /\ n[i].state = m[i].state
  BY PruneFacts
<1> HIDE DEF n
<1>4. Recall(n)[1] = PlanOf(n, 1, Len(n), n[2].state.plan)
  BY <1>2, RecalledPlan
<1>5. Recall(m)[1] = PlanOf(m, 1, Len(m), m[2].state.plan)
  BY RecalledPlan
<1>6. PlansIn(n, 1, Len(n)) = PlansIn(m, 1, Len(m))
  BY <1>3 DEF PlansIn, SaysPlan
<1>7. ASSUME PlansIn(m, 1, Len(m)) # {}
      PROVE  PlanId(n[Max(PlansIn(m, 1, Len(m)))]) = PlanId(m[Max(PlansIn(m, 1, Len(m)))])
  <2>1. \A i \in PlansIn(m, 1, Len(m)) : i \in 1..Len(m)
    BY DEF PlansIn
  <2>2. Max(PlansIn(m, 1, Len(m))) \in 1..Len(m)
    BY <1>1, <1>7, <2>1, MaxFacts
  <2> QED
    BY <1>3, <2>2 DEF PlanId
<1>8. PlanOf(n, 1, Len(n), n[2].state.plan) = PlanOf(m, 1, Len(m), m[2].state.plan)
  BY <1>1, <1>3, <1>6, <1>7 DEF PlanOf
<1> QED
  BY <1>4, <1>5, <1>8 DEF n

LEMMA SummarysPlan ==
  ASSUME NEW m, IsHistory(m), SummaryIsSecond(m), Boundary(m) >= 2
  PROVE  PreservedState(Middle(m)).plan = PlanOf(m, 2, Boundary(m), m[2].state.plan)
<1> DEFINE b == Boundary(m)
           mid == SubSeq(m, 2, b)
           I == {i \in 1..Len(mid) : mid[i].state # NoState}
           s == IF I # {} THEN Max(I) ELSE 0
<1>1. /\ Len(m) \in Nat /\ Len(m) >= 2 /\ DOMAIN m = 1..Len(m) /\ IsSeq(m)
      /\ b \in Int /\ b >= 2 /\ b <= Len(m)
  BY SeqFacts, BoundaryIsSafe DEF IsHistory
<1>2. Middle(m) = mid
  <2>1. SystemEnd(m) + 1 = 2
    BY OneSystemMessage
  <2> QED
    BY <2>1 DEF Middle
<1>3. LatestSummary(mid) = IF s = 0 THEN NoState ELSE mid[s].state
  BY DEF LatestSummary, SelectLastInSeq
<1>4. NoState.plan = NoCall
  BY DEF NoState
<1>5. LatestPlan(mid) = PlanOf(m, 2, b, NoCall)
  BY <1>1, LatestPlanIs
<1>6. /\ Len(mid) = b - 2 + 1
      /\ \A i \in 1..(b - 2 + 1) : mid[i] = m[2 + i - 1]
  BY <1>1, SubSeqFacts
<1> HIDE DEF mid, b
<1>7. \A i \in 1..Len(mid) : mid[i].state # NoState => i = 1
  <2> TAKE i \in 1..Len(mid)
  <2>1. mid[i] = m[i + 1] /\ i + 1 \in DOMAIN m
    BY <1>1, <1>6
  <2> QED
    BY <1>1, <1>6, <2>1 DEF SummaryIsSecond
<1>8. mid[1] = m[2] /\ 1 \in 1..Len(mid)
  BY <1>1, <1>6
<1>9. LatestSummary(mid) = m[2].state
  <2>1. CASE m[2].state = NoState
    <3>1. I = {}
      BY <1>7, <1>8, <2>1
    <3> QED
      BY <1>3, <2>1, <3>1
  <2>2. CASE m[2].state # NoState
    <3>1. I = {1}
      BY <1>7, <1>8, <2>2
    <3>2. I # {} /\ \A i \in I : i \in 1..1
      BY <3>1
    <3> HIDE DEF I
    <3>3. Max(I) \in I
      BY <3>2, MaxFacts
    <3>4. s = 1
      BY <3>1, <3>3
    <3> HIDE DEF s
    <3> QED
      BY <1>3, <1>8, <3>4
  <2> QED
    BY <2>1, <2>2
<1>10. PreservedState(mid).plan =
         IF LatestPlan(mid) = NoCall THEN m[2].state.plan ELSE LatestPlan(mid)
  BY <1>9 DEF PreservedState
<1>11. CASE PlansIn(m, 2, b) = {}
  BY <1>2, <1>5, <1>10, <1>11 DEF PlanOf, b
<1>12. CASE PlansIn(m, 2, b) # {}
  <2>1. PlanOf(m, 2, b, NoCall) # NoCall
    BY <1>1, <1>12, LatestHasId
  <2> QED
    BY <1>2, <1>5, <1>10, <1>12, <2>1 DEF PlanOf, b
<1> QED
  BY <1>11, <1>12

LEMMA CompactKeepsPlan ==
  ASSUME NEW m, NEW body, IsHistory(m), Paired(m), SummaryIsSecond(m)
  PROVE  Recall(Compact(m, body))[1] = Recall(m)[1]
<1> DEFINE n == Compact(m, body)
           b == Boundary(m)
           P == PlansIn(m, 1, Len(m))
           Q == PlansIn(n, 1, Len(n))
           M == PlansIn(m, 2, b)
<1> SUFFICES ASSUME Summarized(m, n, body) PROVE Recall(n)[1] = Recall(m)[1]
  BY CompactFacts
<1>1. Len(m) \in Nat /\ Len(m) >= 2
  BY SeqFacts DEF IsHistory
<1>2. IsHistory(n) /\ SummaryIsSecond(n)
  BY CompactKeepsPaired, CompactKeepsSecond
<1>3. Recall(n)[1] = PlanOf(n, 1, Len(n), n[2].state.plan)
  BY <1>2, RecalledPlan
<1>4. Recall(m)[1] = PlanOf(m, 1, Len(m), m[2].state.plan)
  BY RecalledPlan
<1> HIDE DEF n
<1>5. /\ b \in 2..(Len(m) - 1) /\ Len(n) = 2 + (Len(m) - b)
      /\ n[1] = m[1] /\ n[2].calls = <<>> /\ n[2].state = PreservedState(Middle(m))
      /\ \A i \in 1..(Len(m) - b) : n[2 + i] = m[b + i]
  BY DEF Summarized, Summary, Message
<1>6. n[2].state.plan = PlanOf(m, 2, b, m[2].state.plan)
  BY <1>5, SummarysPlan
<1> HIDE DEF b
<1>7. ~SaysPlan(m[1]) /\ ~SaysPlan(n[1]) /\ ~SaysPlan(n[2])
  BY <1>1, <1>5, NoCallsNoPlan, SeqFacts DEF IsHistory, WellFormed
<1>8. /\ \A i \in P : i \in 1..Len(m)
      /\ \A i \in Q : i \in 1..Len(n) /\ i > 2
      /\ \A i \in M : i \in 1..Len(m)
  <2>1. \A i \in 1..Len(n) : i # 1 /\ i # 2 => i > 2
    BY <1>1, <1>5
  <2> QED
    BY <1>1, <1>5, <1>7, <2>1 DEF PlansIn
<1>9. ASSUME NEW i \in 1..(Len(m) - b)
      PROVE  2 + i \in Q <=> b + i \in P
  <2>1. n[2 + i] = m[b + i] /\ 2 + i \in 1..Len(n) /\ b + i \in 1..Len(m)
    BY <1>1, <1>5
  <2> QED
    BY <2>1 DEF PlansIn
<1>10. \A i \in 1..Len(m) : i <= b => (i \in P <=> i \in M)
  <2> TAKE i \in 1..Len(m)
  <2>1. i <= b => i = 1 \/ i \in 2..b
    BY <1>1, <1>5
  <2>2. 1 \notin P /\ 1 \notin M
    BY <1>7 DEF PlansIn
  <2> QED
    BY <2>1, <2>2 DEF PlansIn
<1>11. CASE Q = {}
  <2>1. \A i \in P : i <= b
    <3> TAKE i \in P
    <3> SUFFICES ASSUME i > b PROVE FALSE
      BY <1>1, <1>5, <1>8
    <3>1. i - b \in 1..(Len(m) - b) /\ b + (i - b) = i
      BY <1>1, <1>5, <1>8
    <3> QED
      BY <1>9, <1>11, <3>1
  <2>2. P = M
    <3>1. P \subseteq M
      BY <1>8, <1>10, <2>1
    <3>2. \A i \in M : i <= b
      BY <1>5 DEF PlansIn
    <3> QED
      BY <1>8, <1>10, <3>1, <3>2
  <2>3. PlanOf(n, 1, Len(n), n[2].state.plan) = n[2].state.plan
    BY <1>11 DEF PlanOf
  <2>4. PlanOf(m, 1, Len(m), m[2].state.plan) = PlanOf(m, 2, b, m[2].state.plan)
    BY <2>2 DEF PlanOf
  <2> QED
    BY <1>3, <1>4, <1>6, <2>3, <2>4
<1>12. CASE Q # {}
  <2> HIDE DEF P, Q, M
  <2>1. Max(Q) \in Q /\ (\A i \in Q : i <= Max(Q)) /\ Max(Q) \in Int /\ Len(n) \in Int
    <3>1. Len(n) \in Int
      BY <1>1, <1>5
    <3>2. Max(Q) \in Q /\ (\A i \in Q : i <= Max(Q))
      BY <1>8, <1>12, <3>1, MaxFacts
    <3> QED
      BY <1>8, <3>1, <3>2
  <2> DEFINE k == Max(Q) - 2
  <2>2. k \in 1..(Len(m) - b) /\ 2 + k = Max(Q)
    BY <1>1, <1>5, <1>8, <2>1
  <2> HIDE DEF k
  <2>3. b + k \in P
    BY <1>9, <2>1, <2>2
  <2>4. Max(P) \in P /\ \A i \in P : i <= Max(P)
    BY <1>1, <1>8, <2>3, MaxFacts
  <2>5. Max(P) = b + k
    <3>1. b + k <= Max(P)
      BY <2>3, <2>4
    <3>2. Max(P) - b \in 1..(Len(m) - b) /\ b + (Max(P) - b) = Max(P)
      BY <1>1, <1>5, <1>8, <2>2, <2>4, <3>1
    <3>3. 2 + (Max(P) - b) \in Q
      BY <1>9, <2>4, <3>2
    <3>4. 2 + (Max(P) - b) <= 2 + k
      BY <2>1, <2>2, <3>3
    <3> QED
      BY <1>1, <1>5, <1>8, <2>2, <2>4, <3>1, <3>4
  <2>6. n[Max(Q)] = m[Max(P)]
    BY <1>5, <2>2, <2>5
  <2> QED
    BY <1>3, <1>4, <1>12, <2>3, <2>6 DEF PlanOf, P, Q
<1> QED
  BY <1>11, <1>12

LEMMA ShortenKeepsPlan ==
  ASSUME NEW m, NEW n, IsHistory(m), Paired(m), SummaryIsSecond(m), Shortened(m, n)
  PROVE  Recall(n)[1] = Recall(m)[1]
<1> DEFINE h == PruneStale(m)
<1>1. PICK body : n \in {m, h, Compact(m, body), Compact(h, body)}
  BY DEF Shortened
<1>2. IsHistory(h) /\ Paired(h) /\ SummaryIsSecond(h)
  BY PruneKeepsPaired, PruneKeepsSecond
<1>3. Recall(h)[1] = Recall(m)[1]
  BY PruneKeepsPlan
<1> HIDE DEF h
<1>4. /\ Recall(Compact(m, body))[1] = Recall(m)[1]
      /\ Recall(Compact(h, body))[1] = Recall(h)[1]
  BY <1>2, CompactKeepsPlan
<1> QED
  BY <1>1, <1>3, <1>4

LEMMA SeedHasNoSummary == SummaryIsSecond(SeedMessages)
<1> DEFINE x == Plain("system", "small")
           y == Plain("user", "small")
<1>1. \A z \in {x, y} : z.state = NoState /\ z.calls = <<>>
  BY DEF Plain, Message
<1>2. SeedMessages = <<x, y>>
  BY DEF SeedMessages
<1> HIDE DEF x, y
<1>3. \A i \in DOMAIN <<x, y>> : <<x, y>>[i] \in {x, y}
  OBVIOUS
<1>4. ASSUME NEW i \in DOMAIN SeedMessages
      PROVE  SeedMessages[i].state = NoState /\ SeedMessages[i].calls = <<>>
  BY <1>1, <1>2, <1>3
<1> QED
  BY <1>4, NoCallsNamed DEF SummaryIsSecond

\* Calls are named by pairs of numbers, and so are those left of them.
LEMMA PairsAreNames ==
  ASSUME NEW c, \A k \in DOMAIN c : c[k].id \in Nat \X Nat
  PROVE  Named(c)
  BY HistoryAssumption DEF Named

LEMMA TailIsNamed ==
  ASSUME NEW c, IsSeq(c), c # <<>>, Named(c)
  PROVE  Named(Tail(c))
<1>1. PICK S : c \in Seq(S)
  BY DEF IsSeq
<1>2. \A k \in DOMAIN Tail(c) : k + 1 \in DOMAIN c /\ Tail(c)[k] = c[k + 1]
  BY <1>1
<1> QED
  BY <1>2 DEF Named

\* Nothing the program says, but a summary, carries state, and every call has an
\* id.
PlanInv ==
  /\ turns \in Nat
  /\ SummaryIsSecond(messages)
  /\ Named(owed)

LEMMA InitPlanInv == ConversationInit => PlanInv
  BY SeedHasNoSummary, NoCallsNamed DEF ConversationInit, CompactionInit, PlanInv

LEMMA NextPlanInv ==
  ConversationInv /\ PlanInv /\ [ConversationNext]_conversationVars => PlanInv'
<1> SUFFICES ASSUME ConversationInv, PlanInv, [ConversationNext]_conversationVars
             PROVE  PlanInv'
  OBVIOUS
<1>1. turns' \in Nat
  <2>1. CASE NewTurn
    BY <2>1 DEF NewTurn, PlanInv
  <2>2. CASE ~NewTurn
    <3>1. turns' = turns
      BY <2>2
      DEF ConversationNext, Speak, AnswerCall, Remind, Retract, Shorten, conversationVars
    <3> QED
      BY <3>1 DEF PlanInv
  <2> QED
    BY <2>1, <2>2
<1>2. Named(owed')
  <2>1. CASE Speak
    <3>1. PICK batch \in CallBatches \cup {<<>>} : owed' = Numbered(batch)
      BY <2>1 DEF Speak
    <3>2. \A k \in DOMAIN batch : k \in Nat
      <4>1. \A b \in CallBatches : DOMAIN b \subseteq Nat
        BY ConversationAssumption
      <4>2. DOMAIN <<>> = {}
        OBVIOUS
      <4> QED
        BY <4>1, <4>2
    <3>3. \A k \in DOMAIN owed' : owed'[k].id \in Nat \X Nat
      BY <3>1, <3>2 DEF Numbered, PlanInv
    <3> QED
      BY <3>3, PairsAreNames
  <2>2. CASE AnswerCall
    <3>1. owed' \in {<<>>, Tail(owed)} /\ owed # <<>> /\ IsSeq(owed)
      BY <2>2 DEF AnswerCall, Settled, ConversationInv, Whole
    <3> QED
      BY <3>1, TailIsNamed, NoCallsNamed DEF PlanInv
  <2>3. CASE ~Speak /\ ~AnswerCall
    <3>1. owed' = owed
      BY <2>3 DEF ConversationNext, NewTurn, Remind, Retract, Shorten, conversationVars
    <3> QED
      BY <3>1 DEF PlanInv
  <2> QED
    BY <2>1, <2>2, <2>3
<1>3. SummaryIsSecond(messages')
  BY <1>2, ConversationLeads, LeadsKeepsSecond DEF ConversationInv, PlanInv
<1> QED
  BY <1>1, <1>2, <1>3 DEF PlanInv

\* No pruning and no summary of summaries makes the model forget its plan: what
\* the newest summary and the calls after it tell of the plan is the same before
\* and after (PreservedState, latestPlan, compaction_preserve.go).
THEOREM PlanSurvives ==
  ConversationSpec => [][Rewritten => Recall(messages')[1] = Recall(messages)[1]]_conversationVars
<1>1. ASSUME ConversationInv, PlanInv, [ConversationNext]_conversationVars, Rewritten
      PROVE  Recall(messages')[1] = Recall(messages)[1]
  <2>1. Whole(messages, owed)
    BY <1>1 DEF ConversationInv
  <2>2. CASE Shorten
    <3>1. owed = <<>> /\ Shortened(messages, messages')
      BY <2>2, ActionsLead
    <3> QED
      BY <1>1, <2>1, <3>1, NoneOwedIsWhole, ShortenKeepsPlan DEF PlanInv
  <2>3. CASE ~Shorten
    <3>1. IsPrefix(messages, messages') \/ IsPrefix(messages', messages)
      BY <1>1, <2>1, <2>3, ActionsLead, OthersExtend DEF ConversationNext
    <3> QED
      BY <1>1, <3>1 DEF Rewritten
  <2> QED
    BY <2>2, <2>3
<1>2. ConversationInv /\ PlanInv /\ [ConversationNext]_conversationVars =>
        [Rewritten => Recall(messages')[1] = Recall(messages)[1]]_conversationVars
  BY <1>1
<1> QED
  BY <1>2, InitConversationInv, NextConversationInv, InitPlanInv, NextPlanInv, PTL
  DEF ConversationSpec

-----------------------------------------------------------------------------
(* The calls of a stream.                                                  *)

LEMMA CallsFacts ==
  ASSUME NEW b \in Batches \cup {<<>>}
  PROVE  /\ IsSeq(CallsOf(b)) /\ Len(CallsOf(b)) = Len(b) /\ Len(b) \in Nat
         /\ \A k \in 1..Len(b) : /\ CallsOf(b)[k].kind = b[k].kind
                                 /\ CallsOf(b)[k].arg = b[k].arg
                                 /\ b[k].kind = "edit" => b[k].arg \in Files
<1>1. IsSeq(b)
  <2>1. <<>> \in Seq({})
    OBVIOUS
  <2> QED
    BY <2>1, AgentAssumption DEF IsSeq
<1>2. Len(b) \in Nat /\ DOMAIN b = 1..Len(b)
  BY <1>1, SeqFacts
<1>3. CallsOf(b) = [k \in 1..Len(b) |-> CallsOf(b)[k]]
  BY <1>2 DEF CallsOf
<1>4. IsSeq(CallsOf(b)) /\ Len(CallsOf(b)) = Len(b)
  BY <1>2, <1>3, FunctionIsSeq
<1>5. \A k \in 1..Len(b) : b[k].kind = "edit" => b[k].arg \in Files
  BY <1>2, AgentAssumption
<1> QED
  BY <1>2, <1>4, <1>5 DEF CallsOf

LEMMA NoCallsOf == CallsOf(<<>>) = NoCalls
  BY DEF CallsOf, NoCalls

IsStream(s) ==
  /\ s.text \in Texts \cup {"none"}
  /\ \E b \in Batches \cup {<<>>} : s.calls = CallsOf(b)

LEMMA ReceivedFacts ==
  ASSUME NEW s \in Received
  PROVE  IsStream(s)
<1> DEFINE Ends == {Stream(t, NoCalls, FALSE, "") : t \in Texts}
           Asks == {Stream("none", CallsOf(b), FALSE, "") : b \in Batches}
           Fails == {Stream(t, NoCalls, FALSE, e) : t \in Texts \cap {"none", "done"}, e \in Errors}
<1>0. Replies = Ends \cup {Stream("none", NoCalls, TRUE, "")} \cup Asks \cup Fails
  BY DEF Replies
<1>1. CASE s = Failed("cancelled")
  BY <1>1, NoCallsOf DEF Failed, Stream, NoCalls, IsStream
<1>2. CASE s = Stream("none", NoCalls, TRUE, "")
  BY <1>2, NoCallsOf DEF Stream, IsStream
<1>3. CASE s \in Ends
  <2>1. PICK t \in Texts : s = Stream(t, NoCalls, FALSE, "")
    BY <1>3
  <2> QED
    BY <2>1, NoCallsOf DEF Stream, IsStream
<1>4. CASE s \in Asks
  <2>1. PICK b \in Batches : s = Stream("none", CallsOf(b), FALSE, "")
    BY <1>4
  <2>2. s.text = "none" /\ s.calls = CallsOf(b)
    BY <2>1 DEF Stream
  <2> QED
    BY <2>2 DEF IsStream
<1>5. CASE s \in Fails
  <2>1. \E t \in Texts, e \in Errors : s = Stream(t, NoCalls, FALSE, e)
    BY <1>5, Z3 DEF Stream
  <2> QED
    BY <2>1, NoCallsOf DEF Stream, IsStream
<1> HIDE DEF Ends, Asks, Fails
<1> QED
  BY <1>0, <1>1, <1>2, <1>3, <1>4, <1>5 DEF Received

\* The reads at the next call are an interval, and their number is its length.
LEMMA ReadsAreConsecutive ==
  ASSUME IsSeq(Calls), NEW k \in Nat, k <= Len(Calls)
  PROVE  \E e \in Int : /\ k - 1 <= e /\ e <= Len(Calls)
                       /\ ReadsFrom(k) = k..e
                       /\ Cardinality(ReadsFrom(k)) = e - k + 1
<1> DEFINE R == ReadsFrom(k)
<1>1. Len(Calls) \in Nat
  BY SeqFacts
<1>2. R \in SUBSET (k..Len(Calls))
  BY DEF ReadsFrom
<1>3. CASE R = {}
  <2>1. k..(k - 1) = {} /\ Cardinality({}) = 0
    BY FS_EmptySet
  <2> QED
    BY <1>1, <1>3, <2>1
<1>4. CASE R # {}
  <2> HIDE DEF R
  <2>1. PICK e \in R : \A y \in R : y <= e
    <3>1. k \in Int /\ Len(Calls) \in Int
      BY <1>1
    <3> HIDE <1>1
    <3> QED
      BY <1>2, <1>4, <3>1, Largest
  <2>2. e \in k..Len(Calls)
    BY <1>2, <2>1
  <2>3. \A n \in k..e : n \in R
    BY <1>1, <2>1, <2>2 DEF R, ReadsFrom
  <2>4. R = k..e
    <3>1. R \subseteq k..e
      BY <1>1, <1>2, <2>1, <2>2
    <3> QED
      BY <2>3, <3>1
  <2>5. Cardinality(k..e) = e - k + 1
    BY <2>2, FS_Interval
  <2> QED
    BY <1>1, <2>2, <2>4, <2>5 DEF R
<1> QED
  BY <1>3, <1>4

-----------------------------------------------------------------------------
(* The parts of the loop's invariant.                                      *)

Places == {"top", "compact", "connect", "stream", "settle", "stalled", "recover", "reply",
           "finalize", "tools", "done"}

LoopTypes ==
  /\ pc \in Places
  /\ opts \in RunOptions
  /\ turn \in 0..MaxTurns
  /\ connects \in Nat /\ sends \in Nat /\ stalls \in Nat /\ nudges \in Nat
  /\ planPending \in BOOLEAN /\ acceptance \in BOOLEAN
  /\ cancelled \in BOOLEAN /\ reactive \in BOOLEAN

\* What was collected is a stream of this turn.
Streamed ==
  /\ IsStream(collected)
  /\ pc = "top" => Calls = NoCalls

\* What a request can be for at each place.
Purposes ==
  /\ pc \in {"top", "compact", "done"} => why = "turn"
  /\ pc \in {"connect", "stream"} => why \in {"turn", "reissue", "quiet", "stall", "last", "final"}
  /\ pc = "recover" => why \in {"turn", "stream", "last"}
  /\ pc \in {"settle", "stalled", "reply", "tools", "finalize"} => why # "final"

LEMMA CallsAreSeq ==
  ASSUME Streamed
  PROVE  /\ IsSeq(Calls) /\ Len(Calls) \in Nat /\ DOMAIN Calls = 1..Len(Calls)
         /\ \A k \in 1..Len(Calls) : Calls[k].kind = "edit" => Calls[k].arg \in Files
<1>1. PICK b \in Batches \cup {<<>>} : Calls = CallsOf(b)
  BY DEF Streamed, IsStream, Calls
<1> QED
  BY <1>1, CallsFacts, SeqFacts

\* A request that shows what it streams is sent only while nothing was shown.
ShownOnce ==
  /\ shown \in {0, 1}
  /\ pc \in {"top", "compact"} => shown = 0
  /\ pc \in {"connect", "stream", "recover"} /\ why \in {"turn", "reissue", "stall"} => shown = 0

\* A turn sends its request once, again for each stall, and again for the recovery.
Counts ==
  /\ stalls <= MaxStalls /\ connects <= MaxReconnects
  /\ sends <= 1 + stalls + (IF reactive THEN 1 ELSE 0)
  /\ pc \in {"top", "compact"} => sends = 0 /\ stalls = 0

\* What was executed lies before the next call, or in the reads ahead of it.
BatchPlace ==
  /\ next \in Nat \ {0} /\ runEnd \in Nat /\ ran \subseteq Nat
  /\ pc = "tools" =>
       /\ next <= Len(Calls) + 1 /\ runEnd <= Len(Calls)
       /\ \A k \in ran : k < next \/ k <= runEnd
       /\ \A i \in next..runEnd : IsRead(Calls[i])

\* The one late execution is the last: its results are still to be recorded.
LateRuns ==
  /\ lateRuns \in {0, 1}
  /\ lateRuns = 1 => cancelled /\ (pc = "done" \/ (pc = "tools" /\ next <= runEnd))

\* What waits for the last drain has passed the gate.
Gated ==
  /\ nudges <= MaxContinueNudges
  /\ pc # "done" => result.kind = "none"
  /\ pc = "finalize" /\ opts.gate =>
       /\ collected.text = "done"
       /\ planPending => nudges = MaxContinueNudges
       /\ opts.selfCorrect => acceptance
  /\ GatedAnswer

LoopInv ==
  /\ LoopTypes /\ Streamed /\ Purposes /\ ShownOnce /\ Counts
  /\ BatchPlace /\ LateRuns /\ Gated

-----------------------------------------------------------------------------
(* What the steps do.                                                      *)

\* The steps after which the turn, or the run, is over.
EndsTurn ==
  \/ RecoveryFails \/ LastErrorStays \/ ReplyDropped \/ ReplyEmpty \/ AnswerAdmits
  \/ AnswerNudged \/ AnswerMidStep \/ AskAcceptance \/ Finalize \/ EndBatch
  \/ CancelledAtCeiling \/ FinalAnswer \/ NoFinalAnswer

TurnOver == LeaveTurn("top") \/ LeaveTurn("done")

LEMMA TurnEnds == EndsTurn => TurnOver
<1> USE DEF Fail, Return, NextTurn, TurnOver
<1>1. RecoveryFails \/ LastErrorStays \/ CancelledAtCeiling => TurnOver
  BY DEF RecoveryFails, LastErrorStays, CancelledAtCeiling
<1>2. ReplyDropped \/ ReplyEmpty \/ EndBatch \/ Finalize => TurnOver
  BY DEF ReplyDropped, ReplyEmpty, EndBatch, Finalize
<1>3. AnswerAdmits \/ AnswerNudged \/ AnswerMidStep \/ AskAcceptance => TurnOver
  BY DEF AnswerAdmits, AnswerNudged, AnswerMidStep, AskAcceptance
<1>4. FinalAnswer \/ NoFinalAnswer => TurnOver
  BY DEF FinalAnswer, NoFinalAnswer
<1> QED
  BY <1>1, <1>2, <1>3, <1>4 DEF EndsTurn

\* The records of the batch end with it.
LEMMA EndsKeepBatch ==
  EndsTurn => /\ lateRuns' = lateRuns
              /\ \/ UNCHANGED <<next, runEnd, ran>>
                 \/ next' = 1 /\ runEnd' = 0 /\ ran' = {}
<1> USE DEF Reply, toolVars
<1>1. RecoveryFails \/ LastErrorStays \/ CancelledAtCeiling => UNCHANGED toolVars
  BY DEF RecoveryFails, LastErrorStays, CancelledAtCeiling
<1>2. ReplyDropped \/ ReplyEmpty \/ Finalize => UNCHANGED toolVars
  BY DEF ReplyDropped, ReplyEmpty, Finalize
<1>3. AnswerAdmits \/ AnswerNudged \/ AnswerMidStep \/ AskAcceptance => UNCHANGED toolVars
  BY DEF AnswerAdmits, AnswerNudged, AnswerMidStep, AskAcceptance
<1>4. FinalAnswer \/ NoFinalAnswer => UNCHANGED toolVars
  BY DEF FinalAnswer, NoFinalAnswer
<1>5. EndBatch => lateRuns' = lateRuns /\ next' = 1 /\ runEnd' = 0 /\ ran' = {}
  BY DEF EndBatch
<1> QED
  BY <1>1, <1>2, <1>3, <1>4, <1>5 DEF EndsTurn

LEMMA CollectGoes ==
  ASSUME Purposes, Collect
  PROVE  /\ pc' \in {"settle", "recover", "stalled", "reply"}
         /\ pc' = "recover" => why' = "stream"
  BY DEF Purposes, Collect

LEMMA InitLoopInv == Init => LoopInv
<1> SUFFICES ASSUME Init PROVE LoopInv
  OBVIOUS
<1> USE AgentAssumption DEF Init, CompactionInit
<1>1. Streamed
  <2>1. IsStream(NoStream)
    BY NoCallsOf DEF IsStream, NoStream, Stream, NoCalls
  <2>2. Calls = NoCalls
    BY DEF Calls, NoStream, Stream
  <2> QED
    BY <2>1, <2>2 DEF Streamed
<1>2. LoopTypes
  <2>1. MaxTurns \in Nat /\ 0 \in 0..MaxTurns
    OBVIOUS
  <2>2. pc \in Places /\ opts \in RunOptions /\ turn \in 0..MaxTurns
    BY <2>1 DEF Places
  <2> QED
    BY <2>2 DEF LoopTypes
<1>3. Purposes /\ ShownOnce /\ Counts
  BY DEF Purposes, ShownOnce, Counts
<1>4. BatchPlace /\ LateRuns
  BY DEF BatchPlace, LateRuns
<1>5. Gated
  BY DEF Gated, GatedAnswer
<1> QED
  BY <1>1, <1>2, <1>3, <1>4, <1>5 DEF LoopInv

LEMMA NextPurposes == LoopInv /\ [Next]_vars => Purposes'
<1> SUFFICES ASSUME Purposes, [Next]_vars
             PROVE  Purposes'
  BY DEF LoopInv
<1> USE DEF Purposes, Fail, Return, LeaveTurn, Goto, Request, Reply, Answering, controlVars
<1>1. ASSUME EndsTurn PROVE Purposes'
  BY <1>1, TurnEnds DEF TurnOver
<1>2. ASSUME BeginTurn PROVE Purposes'
  BY <1>2 DEF BeginTurn
<1>3. ASSUME CompactHistory PROVE Purposes'
  BY <1>3 DEF CompactHistory
<1>4. ASSUME Connect PROVE Purposes'
  BY <1>4 DEF Connect
<1>5. ASSUME Reconnect PROVE Purposes'
  BY <1>5 DEF Reconnect
<1>6. ASSUME ConnectFails PROVE Purposes'
  BY <1>6 DEF ConnectFails
<1>7. ASSUME Collect PROVE Purposes'
  BY <1>7 DEF Collect
<1>8. ASSUME Settle PROVE Purposes'
  BY <1>8 DEF Settle
<1>9. ASSUME StallRetry PROVE Purposes'
  BY <1>9 DEF StallRetry
<1>10. ASSUME StallsOver PROVE Purposes'
  BY <1>10 DEF StallsOver
<1>11. ASSUME RecoveryDeclined PROVE Purposes'
  BY <1>11 DEF RecoveryDeclined
<1>12. ASSUME RecoverySucceeds PROVE Purposes'
  BY <1>12 DEF RecoverySucceeds
<1>13. ASSUME Answer PROVE Purposes'
  BY <1>13 DEF Answer
<1>14. ASSUME ReplyWithCalls PROVE Purposes'
  BY <1>14 DEF ReplyWithCalls
<1>15. ASSUME ReadAhead PROVE Purposes'
  BY <1>15 DEF ReadAhead
<1>16. ASSUME RunCall PROVE Purposes'
  BY <1>16 DEF RunCall
<1>17. ASSUME AskFinalAnswer PROVE Purposes'
  BY <1>17 DEF AskFinalAnswer
<1>18. ASSUME Work PROVE Purposes'
  BY <1>18 DEF Work
<1>19. ASSUME Cancel PROVE Purposes'
  BY <1>19 DEF Cancel
<1>20. CASE UNCHANGED vars
  BY <1>20 DEF vars
<1> QED
  BY <1>1, <1>2, <1>3, <1>4, <1>5, <1>6, <1>7, <1>8, <1>9, <1>10, <1>11, <1>12, <1>13, <1>14,
     <1>15, <1>16, <1>17, <1>18, <1>19, <1>20
     DEF Next, Loop, EndsTurn

LEMMA NextShownOnce == LoopInv /\ [Next]_vars => ShownOnce'
<1> SUFFICES ASSUME Purposes, ShownOnce, [Next]_vars
             PROVE  ShownOnce'
  BY DEF LoopInv
<1> USE DEF Purposes, ShownOnce, Fail, Return, LeaveTurn, Goto, Request, Reply, Answering, controlVars
<1>1. ASSUME EndsTurn PROVE ShownOnce'
  BY <1>1, TurnEnds DEF TurnOver
<1>2. ASSUME BeginTurn PROVE ShownOnce'
  BY <1>2 DEF BeginTurn
<1>3. ASSUME CompactHistory PROVE ShownOnce'
  BY <1>3 DEF CompactHistory
<1>4. ASSUME Connect PROVE ShownOnce'
  BY <1>4 DEF Connect
<1>5. ASSUME Reconnect PROVE ShownOnce'
  BY <1>5 DEF Reconnect
<1>6. ASSUME ConnectFails PROVE ShownOnce'
  BY <1>6 DEF ConnectFails
<1>7. ASSUME Collect PROVE ShownOnce'
  <2>1. PICK s : shown' = IF Forwarding /\ opts.shows /\ s.text # "none" THEN shown + 1 ELSE shown
    BY <1>7 DEF Collect
  <2>2. Forwarding => shown = 0
    BY <1>7 DEF Collect, Forwarding
  <2>3. shown' = shown \/ (shown = 0 /\ shown' = 1)
    BY <2>1, <2>2
  <2> QED
    BY <1>7, <2>3, CollectGoes
<1>8. ASSUME Settle PROVE ShownOnce'
  BY <1>8 DEF Settle
<1>9. ASSUME StallRetry PROVE ShownOnce'
  BY <1>9 DEF StallRetry, MayRetryStall
<1>10. ASSUME StallsOver PROVE ShownOnce'
  BY <1>10 DEF StallsOver
<1>11. ASSUME RecoveryDeclined PROVE ShownOnce'
  BY <1>11 DEF RecoveryDeclined
<1>12. ASSUME RecoverySucceeds PROVE ShownOnce'
  BY <1>12 DEF RecoverySucceeds
<1>13. ASSUME Answer PROVE ShownOnce'
  BY <1>13 DEF Answer
<1>14. ASSUME ReplyWithCalls PROVE ShownOnce'
  BY <1>14 DEF ReplyWithCalls
<1>15. ASSUME ReadAhead PROVE ShownOnce'
  BY <1>15 DEF ReadAhead
<1>16. ASSUME RunCall PROVE ShownOnce'
  BY <1>16 DEF RunCall
<1>17. ASSUME AskFinalAnswer PROVE ShownOnce'
  BY <1>17 DEF AskFinalAnswer
<1>18. ASSUME Work PROVE ShownOnce'
  BY <1>18 DEF Work
<1>19. ASSUME Cancel PROVE ShownOnce'
  BY <1>19 DEF Cancel
<1>20. CASE UNCHANGED vars
  BY <1>20 DEF vars
<1> QED
  BY <1>1, <1>2, <1>3, <1>4, <1>5, <1>6, <1>7, <1>8, <1>9, <1>10, <1>11, <1>12, <1>13, <1>14,
     <1>15, <1>16, <1>17, <1>18, <1>19, <1>20
     DEF Next, Loop, EndsTurn

LEMMA NextCounts == LoopInv /\ [Next]_vars => Counts'
<1> SUFFICES ASSUME Purposes, Counts, sends \in Nat, stalls \in Nat, connects \in Nat,
                    MaxStalls \in Nat, MaxReconnects \in Nat, reactive \in BOOLEAN, [Next]_vars
             PROVE  Counts'
  BY AgentAssumption DEF LoopInv, LoopTypes
<1> USE DEF Counts, Fail, Return, LeaveTurn, Goto, Request, controlVars, compactionVars
<1>1. ASSUME EndsTurn PROVE Counts'
  BY <1>1, TurnEnds DEF TurnOver
<1>2. ASSUME BeginTurn PROVE Counts'
  BY <1>2 DEF BeginTurn, OnlyMessages
<1>3. ASSUME CompactHistory PROVE Counts'
  <2>1. reactive' = reactive
    BY <1>3 DEF CompactHistory, MaybeCompact, NothingToCompact, Prune, SummarizerFails, Summarize
  <2> QED
    BY <1>3, <2>1 DEF CompactHistory
<1>4. ASSUME Connect PROVE Counts'
  BY <1>4 DEF Connect
<1>5. ASSUME Reconnect PROVE Counts'
  BY <1>5 DEF Reconnect
<1>6. ASSUME ConnectFails PROVE Counts'
  BY <1>6 DEF ConnectFails
<1>7. ASSUME Collect PROVE Counts'
  <2>1. UNCHANGED <<connects, sends, stalls, reactive>>
    BY <1>7 DEF Collect
  <2>2. pc' \notin {"top", "compact"}
    BY <1>7, CollectGoes
  <2> QED
    BY <2>1, <2>2
<1>8. ASSUME Settle PROVE Counts'
  BY <1>8 DEF Settle
<1>9. ASSUME StallRetry PROVE Counts'
  BY <1>9 DEF StallRetry, MayRetryStall
<1>10. ASSUME StallsOver PROVE Counts'
  BY <1>10 DEF StallsOver
<1>11. ASSUME RecoveryDeclined PROVE Counts'
  BY <1>11 DEF RecoveryDeclined, RecoverDeclined
<1>12. ASSUME RecoverySucceeds PROVE Counts'
  <2>1. reactive = FALSE /\ reactive' = TRUE
    BY <1>12 DEF RecoverySucceeds, Recovered
  <2> QED
    BY <1>12, <2>1 DEF RecoverySucceeds
<1>13. ASSUME Answer PROVE Counts'
  <2>1. pc' = "finalize" /\ UNCHANGED <<connects, sends, stalls, reactive>>
    BY <1>13 DEF Answer, Reply
  <2> QED
    BY <2>1
<1>14. ASSUME ReplyWithCalls PROVE Counts'
  BY <1>14 DEF ReplyWithCalls
<1>15. ASSUME ReadAhead PROVE Counts'
  BY <1>15 DEF ReadAhead
<1>16. ASSUME RunCall PROVE Counts'
  <2>1. UNCHANGED reactive /\ (Fail \/ Return("stop", FALSE, "none") \/ Goto("tools"))
    BY <1>16 DEF RunCall, OnlyMessages
  <2> QED
    BY <2>1
<1>17. ASSUME AskFinalAnswer PROVE Counts'
  <2>1. pc = "top" /\ Request("final") /\ UNCHANGED <<stalls, reactive>>
    BY <1>17 DEF AskFinalAnswer, TurnsOver, OnlyMessages
  <2> QED
    BY <2>1
<1>18. ASSUME Work PROVE Counts'
  BY <1>18 DEF Work
<1>19. ASSUME Cancel PROVE Counts'
  BY <1>19 DEF Cancel
<1>20. CASE UNCHANGED vars
  BY <1>20 DEF vars
<1> QED
  BY <1>1, <1>2, <1>3, <1>4, <1>5, <1>6, <1>7, <1>8, <1>9, <1>10, <1>11, <1>12, <1>13, <1>14,
     <1>15, <1>16, <1>17, <1>18, <1>19, <1>20
     DEF Next, Loop, EndsTurn

LEMMA NextStreamed == LoopInv /\ [Next]_vars => Streamed'
<1> SUFFICES ASSUME Streamed, Purposes, [Next]_vars
             PROVE  Streamed'
  BY DEF LoopInv
<1> DEFINE Kept == \/ UNCHANGED <<pc, turn, collected>>
                   \/ UNCHANGED <<turn, collected>> /\ pc' # "top"
<1>a. ASSUME Kept PROVE Streamed'
  BY <1>a DEF Streamed, IsStream, CallsOf, Calls
<1>b. ASSUME collected' = NoStream PROVE Streamed'
  <2>1. NoCalls = CallsOf(<<>>)'
    BY DEF CallsOf, NoCalls
  <2>2. collected'.text = "none" /\ collected'.calls = NoCalls /\ Calls' = NoCalls
    BY <1>b DEF Calls, NoStream, Stream
  <2> QED
    BY <2>1, <2>2 DEF Streamed, IsStream
<1> USE DEF Fail, Return, LeaveTurn, Goto, Request, controlVars
<1>1. ASSUME EndsTurn PROVE Streamed'
  BY <1>1, <1>b, TurnEnds DEF TurnOver
<1>2. ASSUME BeginTurn PROVE Streamed'
  <2>1. Calls = NoCalls /\ collected' = collected
    BY <1>2 DEF BeginTurn, Streamed
  <2>2. CallsOf(<<>>)' = NoCalls
    BY DEF CallsOf, NoCalls
  <2>3. pc' # "top"
    BY <1>2 DEF BeginTurn
  <2> QED
    BY <2>1, <2>2, <2>3 DEF Streamed, IsStream, Calls
<1>3. ASSUME CompactHistory PROVE Streamed'
  BY <1>3, <1>a, <1>b DEF CompactHistory
<1>4. ASSUME Connect PROVE Streamed'
  BY <1>4, <1>a, <1>b DEF Connect
<1>5. ASSUME Reconnect PROVE Streamed'
  BY <1>5, <1>a, <1>b DEF Reconnect
<1>6. ASSUME ConnectFails PROVE Streamed'
  <2>1. CASE collected' = NoStream
    BY <1>b, <2>1
  <2>2. CASE collected' # NoStream
    <3>1. PICK e : collected' = Failed(e) /\ pc' = "recover"
      BY <1>6, <2>2 DEF ConnectFails
    <3>2. NoCalls = CallsOf(<<>>)' /\ collected'.text = "none" /\ collected'.calls = NoCalls
      BY <3>1 DEF CallsOf, NoCalls, Failed, Stream
    <3> QED
      BY <3>1, <3>2 DEF Streamed, IsStream
  <2> QED
    BY <2>1, <2>2
<1>7. ASSUME Collect PROVE Streamed'
  <2>1. PICK s \in Received : collected' = s /\ turn' = turn
    BY <1>7 DEF Collect
  <2>2. PICK b \in Batches \cup {<<>>} : s.calls = CallsOf(b)
    BY ReceivedFacts DEF IsStream
  <2>3. CallsOf(b)' = CallsOf(b)
    BY <2>1 DEF CallsOf
  <2>4. pc' # "top"
    BY <1>7, CollectGoes
  <2> QED
    BY <2>1, <2>2, <2>3, <2>4, ReceivedFacts DEF Streamed, IsStream
<1>8. ASSUME Settle PROVE Streamed'
  BY <1>8, <1>a, <1>b DEF Settle
<1>9. ASSUME StallRetry PROVE Streamed'
  BY <1>9, <1>a, <1>b DEF StallRetry
<1>10. ASSUME StallsOver PROVE Streamed'
  BY <1>10, <1>a, <1>b DEF StallsOver
<1>11. ASSUME RecoveryDeclined PROVE Streamed'
  BY <1>11, <1>a, <1>b DEF RecoveryDeclined
<1>12. ASSUME RecoverySucceeds PROVE Streamed'
  BY <1>12, <1>a, <1>b DEF RecoverySucceeds
<1>13. ASSUME Answer PROVE Streamed'
  BY <1>13, <1>a, <1>b DEF Answer
<1>14. ASSUME ReplyWithCalls PROVE Streamed'
  BY <1>14, <1>a, <1>b DEF ReplyWithCalls
<1>15. ASSUME ReadAhead PROVE Streamed'
  BY <1>15, <1>a, <1>b DEF ReadAhead
<1>16. ASSUME RunCall PROVE Streamed'
  BY <1>16, <1>a, <1>b DEF RunCall
<1>17. ASSUME AskFinalAnswer PROVE Streamed'
  BY <1>17, <1>a, <1>b DEF AskFinalAnswer
<1>18. ASSUME Work PROVE Streamed'
  BY <1>18, <1>a, <1>b DEF Work
<1>19. ASSUME Cancel PROVE Streamed'
  BY <1>19, <1>a, <1>b DEF Cancel
<1>20. CASE UNCHANGED vars
  BY <1>a, <1>20 DEF vars
<1> QED
  BY <1>1, <1>2, <1>3, <1>4, <1>5, <1>6, <1>7, <1>8, <1>9, <1>10, <1>11, <1>12, <1>13, <1>14,
     <1>15, <1>16, <1>17, <1>18, <1>19, <1>20
     DEF Next, Loop, EndsTurn

LEMMA NextBatchPlace == LoopInv /\ [Next]_vars => BatchPlace'
<1> SUFFICES ASSUME BatchPlace, Streamed, Purposes, [Next]_vars
             PROVE  BatchPlace'
  BY DEF LoopInv
<1> DEFINE Kept == UNCHANGED <<next, runEnd, ran>> /\ (pc' = "tools" => UNCHANGED <<pc, collected>>)
<1>a. ASSUME Kept PROVE BatchPlace'
  BY <1>a DEF BatchPlace, Calls
<1>b. IsSeq(Calls) /\ Len(Calls) \in Nat
  BY CallsAreSeq
<1> USE DEF Fail, Return, LeaveTurn, Goto, Request, controlVars, toolVars
<1>1. ASSUME EndsTurn PROVE BatchPlace'
  <2>1. pc' # "tools"
    BY <1>1, TurnEnds DEF TurnOver
  <2>2. CASE UNCHANGED <<next, runEnd, ran>>
    BY <1>a, <2>1, <2>2
  <2>3. CASE next' = 1 /\ runEnd' = 0 /\ ran' = {}
    BY <2>1, <2>3 DEF BatchPlace
  <2> QED
    BY <1>1, <2>2, <2>3, EndsKeepBatch
<1>2. ASSUME BeginTurn PROVE BatchPlace'
  BY <1>2, <1>a DEF BeginTurn
<1>3. ASSUME CompactHistory PROVE BatchPlace'
  BY <1>3, <1>a DEF CompactHistory
<1>4. ASSUME Connect PROVE BatchPlace'
  BY <1>4, <1>a DEF Connect
<1>5. ASSUME Reconnect PROVE BatchPlace'
  BY <1>5, <1>a DEF Reconnect
<1>6. ASSUME ConnectFails PROVE BatchPlace'
  BY <1>6, <1>a DEF ConnectFails
<1>7. ASSUME Collect PROVE BatchPlace'
  <2>1. UNCHANGED <<next, runEnd, ran>>
    BY <1>7 DEF Collect
  <2> QED
    BY <1>7, <1>a, <2>1, CollectGoes
<1>8. ASSUME Settle PROVE BatchPlace'
  BY <1>8, <1>a DEF Settle
<1>9. ASSUME StallRetry PROVE BatchPlace'
  BY <1>9, <1>a DEF StallRetry
<1>10. ASSUME StallsOver PROVE BatchPlace'
  BY <1>10, <1>a DEF StallsOver
<1>11. ASSUME RecoveryDeclined PROVE BatchPlace'
  BY <1>11, <1>a DEF RecoveryDeclined
<1>12. ASSUME RecoverySucceeds PROVE BatchPlace'
  BY <1>12, <1>a DEF RecoverySucceeds
<1>13. ASSUME Answer PROVE BatchPlace'
  BY <1>13, <1>a DEF Answer, Reply
<1>14. ASSUME ReplyWithCalls PROVE BatchPlace'
  <2>1. next' = 1 /\ runEnd' = 0 /\ ran' = {} /\ Calls' = Calls
    BY <1>14 DEF ReplyWithCalls, Calls
  <2> QED
    BY <1>b, <2>1 DEF BatchPlace
<1>15. ASSUME ReadAhead PROVE BatchPlace'
  <2>1. /\ pc = "tools" /\ pc' = "tools" /\ next <= Len(Calls) /\ Calls' = Calls /\ next' = next
        /\ ran' = ran \cup ReadsFrom(next)
        /\ runEnd' = next + Cardinality(ReadsFrom(next)) - 1 /\ next > runEnd
    BY <1>15 DEF ReadAhead, Execute, ReadAheadDue, Calls
  <2>2. PICK e \in Int : /\ next - 1 <= e /\ e <= Len(Calls) /\ ReadsFrom(next) = next..e
                         /\ Cardinality(ReadsFrom(next)) = e - next + 1
    BY <1>b, <2>1, ReadsAreConsecutive DEF BatchPlace
  <2>3. next \in Nat \ {0} /\ runEnd \in Nat /\ runEnd' = e /\ e \in Nat
    BY <2>1, <2>2 DEF BatchPlace
  <2>4. \A i \in next..e : IsRead(Calls[i])
    BY <2>2 DEF ReadsFrom
  <2>5. \A i \in next'..runEnd' : IsRead(Calls'[i])
    BY <2>1, <2>3, <2>4
  <2>6. ran' \subseteq Nat /\ \A k \in ran' : k < next' \/ k <= runEnd'
    BY <2>1, <2>2, <2>3 DEF BatchPlace
  <2> QED
    BY <2>1, <2>2, <2>3, <2>5, <2>6 DEF BatchPlace, IsRead
<1>16. ASSUME RunCall PROVE BatchPlace'
  <2>1. /\ pc = "tools" /\ next <= Len(Calls)
        /\ runEnd' = runEnd /\ ran' \in {ran, ran \cup {next}}
        /\ next' \in {next + 1, Len(Calls) + 1}
        /\ pc' = "tools" => next' = next + 1 /\ collected' = collected
    BY <1>16 DEF RunCall, Execute
  <2> QED
    BY <1>b, <2>1 DEF BatchPlace, Calls
<1>17. ASSUME AskFinalAnswer PROVE BatchPlace'
  BY <1>17, <1>a DEF AskFinalAnswer
<1>18. ASSUME Work PROVE BatchPlace'
  BY <1>18, <1>a DEF Work
<1>19. ASSUME Cancel PROVE BatchPlace'
  BY <1>19, <1>a DEF Cancel
<1>20. CASE UNCHANGED vars
  BY <1>a, <1>20 DEF vars
<1> QED
  BY <1>1, <1>2, <1>3, <1>4, <1>5, <1>6, <1>7, <1>8, <1>9, <1>10, <1>11, <1>12, <1>13, <1>14,
     <1>15, <1>16, <1>17, <1>18, <1>19, <1>20
     DEF Next, Loop, EndsTurn

LEMMA NextLateRuns == LoopInv /\ [Next]_vars => LateRuns'
<1> SUFFICES ASSUME BatchPlace, LateRuns, Streamed, Purposes, [Next]_vars
             PROVE  LateRuns'
  BY DEF LoopInv
<1> DEFINE Kept == /\ UNCHANGED <<next, runEnd, lateRuns>> /\ (cancelled => cancelled')
                   /\ pc' = pc \/ pc \notin {"tools", "done"} \/ pc' = "done"
<1>a. ASSUME Kept PROVE LateRuns'
  BY <1>a DEF LateRuns
<1> USE DEF Fail, Return, LeaveTurn, Goto, Request, controlVars, toolVars
<1>1. ASSUME BeginTurn PROVE LateRuns'
  BY <1>1, <1>a DEF BeginTurn
<1>2. ASSUME CompactHistory PROVE LateRuns'
  BY <1>2, <1>a DEF CompactHistory
<1>3. ASSUME Connect PROVE LateRuns'
  BY <1>3, <1>a DEF Connect
<1>4. ASSUME Reconnect PROVE LateRuns'
  BY <1>4, <1>a DEF Reconnect
<1>5. ASSUME ConnectFails PROVE LateRuns'
  BY <1>5, <1>a DEF ConnectFails
<1>6. ASSUME Collect PROVE LateRuns'
  <2>1. pc = "stream" /\ UNCHANGED <<next, runEnd, lateRuns, cancelled>>
    BY <1>6 DEF Collect
  <2> QED
    BY <1>a, <2>1
<1>7. ASSUME Settle PROVE LateRuns'
  BY <1>7, <1>a DEF Settle
<1>8. ASSUME StallRetry PROVE LateRuns'
  BY <1>8, <1>a DEF StallRetry
<1>9. ASSUME StallsOver PROVE LateRuns'
  BY <1>9, <1>a DEF StallsOver
<1>10. ASSUME RecoveryDeclined PROVE LateRuns'
  BY <1>10, <1>a DEF RecoveryDeclined
<1>11. ASSUME RecoveryFails PROVE LateRuns'
  BY <1>11, <1>a DEF RecoveryFails
<1>12. ASSUME RecoverySucceeds PROVE LateRuns'
  BY <1>12, <1>a DEF RecoverySucceeds
<1>13. ASSUME LastErrorStays PROVE LateRuns'
  BY <1>13, <1>a DEF LastErrorStays
<1>14. ASSUME ReplyDropped PROVE LateRuns'
  BY <1>14, <1>a DEF ReplyDropped, Reply, NextTurn
<1>15. ASSUME ReplyEmpty PROVE LateRuns'
  BY <1>15, <1>a DEF ReplyEmpty, Reply, NextTurn
<1>16. ASSUME AnswerAdmits PROVE LateRuns'
  BY <1>16, <1>a DEF AnswerAdmits, Reply, NextTurn
<1>17. ASSUME AnswerNudged PROVE LateRuns'
  BY <1>17, <1>a DEF AnswerNudged, Reply, NextTurn
<1>18. ASSUME AnswerMidStep PROVE LateRuns'
  BY <1>18, <1>a DEF AnswerMidStep, Reply, NextTurn
<1>19. ASSUME AskAcceptance PROVE LateRuns'
  BY <1>19, <1>a DEF AskAcceptance, Reply, NextTurn
<1>20. ASSUME Answer PROVE LateRuns'
  BY <1>20, <1>a DEF Answer, Reply
<1>21. ASSUME Finalize PROVE LateRuns'
  <2>1. pc = "finalize" /\ UNCHANGED <<next, runEnd, lateRuns, cancelled>>
    BY <1>21 DEF Finalize, NextTurn
  <2> QED
    BY <1>a, <2>1
<1>22. ASSUME ReplyWithCalls PROVE LateRuns'
  <2>1. pc = "reply" /\ lateRuns' = lateRuns
    BY <1>22 DEF ReplyWithCalls
  <2> QED
    BY <2>1 DEF LateRuns
<1>23. ASSUME ReadAhead PROVE LateRuns'
  <2>1. /\ pc = "tools" /\ pc' = "tools" /\ next > runEnd /\ cancelled' = cancelled /\ next' = next
        /\ lateRuns' = IF cancelled THEN lateRuns + 1 ELSE lateRuns
        /\ runEnd' = next + Cardinality(ReadsFrom(next)) - 1 /\ Cardinality(ReadsFrom(next)) >= 2
        /\ next <= Len(Calls)
    BY <1>23 DEF ReadAhead, ReadAheadDue, Execute
  <2>2. Cardinality(ReadsFrom(next)) \in Int
    <3>1. IsSeq(Calls) /\ Len(Calls) \in Nat /\ next \in Nat
      BY CallsAreSeq DEF BatchPlace
    <3>2. \A e \in Int : e - next + 1 \in Int
      BY <3>1
    <3> QED
      BY <2>1, <3>1, <3>2, ReadsAreConsecutive
  <2> QED
    BY <2>1, <2>2 DEF LateRuns, BatchPlace
<1>24. ASSUME RunCall PROVE LateRuns'
  <2>1. /\ pc = "tools" /\ cancelled' = cancelled /\ runEnd' = runEnd
        /\ lateRuns' = IF next > runEnd /\ cancelled THEN lateRuns + 1 ELSE lateRuns
        /\ cancelled => pc' = "done"
        /\ pc' \in {"tools", "top", "done"}
    BY <1>24 DEF RunCall, Execute, Aborts, BatchPlace
  <2> QED
    BY <2>1 DEF LateRuns, BatchPlace
<1>25. ASSUME EndBatch PROVE LateRuns'
  <2>1. pc = "tools" /\ next > Len(Calls) /\ lateRuns' = lateRuns
    BY <1>25 DEF EndBatch
  <2>2. lateRuns = 0
    BY <2>1, CallsAreSeq DEF LateRuns, BatchPlace
  <2> QED
    BY <2>1, <2>2 DEF LateRuns
<1>26. ASSUME CancelledAtCeiling PROVE LateRuns'
  BY <1>26, <1>a DEF CancelledAtCeiling
<1>27. ASSUME AskFinalAnswer PROVE LateRuns'
  BY <1>27, <1>a DEF AskFinalAnswer, TurnsOver
<1>28. ASSUME FinalAnswer PROVE LateRuns'
  BY <1>28, <1>a DEF FinalAnswer
<1>29. ASSUME NoFinalAnswer PROVE LateRuns'
  BY <1>29, <1>a DEF NoFinalAnswer
<1>30. ASSUME Work PROVE LateRuns'
  BY <1>30, <1>a DEF Work
<1>31. ASSUME Cancel PROVE LateRuns'
  BY <1>31, <1>a DEF Cancel
<1>32. CASE UNCHANGED vars
  BY <1>a, <1>32 DEF vars
<1> QED
  BY <1>1, <1>2, <1>3, <1>4, <1>5, <1>6, <1>7, <1>8, <1>9, <1>10, <1>11, <1>12, <1>13, <1>14,
     <1>15, <1>16, <1>17, <1>18, <1>19, <1>20, <1>21, <1>22, <1>23, <1>24, <1>25, <1>26, <1>27,
     <1>28, <1>29, <1>30, <1>31, <1>32
     DEF Next, Loop

LEMMA NextGated == LoopInv /\ [Next]_vars => Gated'
<1> SUFFICES ASSUME Gated, Purposes, IsStream(collected), opts \in RunOptions, nudges \in Nat, pc \in Places,
                    [Next]_vars
             PROVE  Gated'
  BY DEF LoopInv, LoopTypes, Streamed
<1> DEFINE Kept == /\ UNCHANGED <<planPending, nudges, acceptance, opts, result>>
                   /\ pc' \notin {"done", "finalize"} \/ UNCHANGED <<pc, collected>>
                   /\ pc # "done" \/ pc' = "done"
           Failed1 == result'.kind = "error" /\ pc' = "done" /\ nudges' = nudges
<1>a. ASSUME Kept PROVE Gated'
  BY <1>a DEF Gated, GatedAnswer
<1>b. ASSUME pc' = "done", result'.kind \in {"error", "stop"} \/ result'.incomplete, nudges' = nudges
      PROVE  Gated'
  BY <1>b DEF Gated, GatedAnswer
<1>c. ASSUME pc # "done", pc' \notin {"done", "finalize"}, UNCHANGED <<opts, result>>,
             nudges' <= MaxContinueNudges
      PROVE  Gated'
  BY <1>c DEF Gated, GatedAnswer
<1> USE DEF Fail, Return, LeaveTurn, Goto, Request, controlVars, gateVars
<1>1. ASSUME BeginTurn PROVE Gated'
  BY <1>1, <1>a, <1>b DEF BeginTurn
<1>2. ASSUME CompactHistory PROVE Gated'
  BY <1>2, <1>a, <1>b DEF CompactHistory
<1>3. ASSUME Connect PROVE Gated'
  BY <1>3, <1>a, <1>b DEF Connect
<1>4. ASSUME Reconnect PROVE Gated'
  BY <1>4, <1>a, <1>b DEF Reconnect
<1>5. ASSUME ConnectFails PROVE Gated'
  BY <1>5, <1>a, <1>b DEF ConnectFails
<1>6. ASSUME Collect PROVE Gated'
  <2>1. pc = "stream" /\ UNCHANGED <<planPending, nudges, acceptance, opts, result>>
    BY <1>6 DEF Collect
  <2> QED
    BY <1>6, <1>a, <2>1, CollectGoes
<1>7. ASSUME Settle PROVE Gated'
  BY <1>7, <1>a, <1>b DEF Settle
<1>8. ASSUME StallRetry PROVE Gated'
  BY <1>8, <1>a, <1>b DEF StallRetry
<1>9. ASSUME StallsOver PROVE Gated'
  BY <1>9, <1>a, <1>b DEF StallsOver
<1>10. ASSUME RecoveryDeclined PROVE Gated'
  BY <1>10, <1>a, <1>b DEF RecoveryDeclined
<1>11. ASSUME RecoveryFails PROVE Gated'
  BY <1>11, <1>a, <1>b DEF RecoveryFails
<1>12. ASSUME RecoverySucceeds PROVE Gated'
  BY <1>12, <1>a, <1>b DEF RecoverySucceeds
<1>13. ASSUME LastErrorStays PROVE Gated'
  BY <1>13, <1>a, <1>b DEF LastErrorStays
<1>14. ASSUME ReplyDropped PROVE Gated'
  BY <1>14, <1>a, <1>b DEF ReplyDropped, Reply, NextTurn, Answering
<1>15. ASSUME ReplyEmpty PROVE Gated'
  <2>1. /\ pc = "reply" /\ UNCHANGED <<planPending, nudges, acceptance, opts>>
        /\ \/ pc' = "top" /\ result' = result
           \/ pc' = "done" /\ result' = [kind |-> "stop", incomplete |-> FALSE, text |-> "none"]
    BY <1>15 DEF ReplyEmpty, Reply, NextTurn
  <2> QED
    BY <1>a, <1>b, <2>1
<1>16. ASSUME AnswerAdmits PROVE Gated'
  BY <1>16, <1>a, <1>b DEF AnswerAdmits, Reply, NextTurn, Answering
<1>17. ASSUME AnswerNudged PROVE Gated'
  <2>1. /\ pc = "reply" /\ pc' = "top" /\ UNCHANGED <<opts, result>>
        /\ nudges < MaxContinueNudges /\ nudges' = nudges + 1
    BY <1>17 DEF AnswerNudged, Reply, NextTurn
  <2>2. nudges' <= MaxContinueNudges
    BY <2>1, AgentAssumption
  <2> QED
    BY <1>c, <2>1, <2>2
<1>18. ASSUME AnswerMidStep PROVE Gated'
  BY <1>18, <1>a, <1>b DEF AnswerMidStep, Reply, NextTurn, Answering
<1>19. ASSUME AskAcceptance PROVE Gated'
  <2>1. pc = "reply" /\ pc' = "top" /\ UNCHANGED <<opts, result, nudges>>
    BY <1>19 DEF AskAcceptance, Reply, NextTurn
  <2> QED
    BY <1>c, <2>1 DEF Gated
<1>20. ASSUME Answer PROVE Gated'
  <2>1. /\ pc = "reply" /\ pc' = "finalize" /\ collected.text # "none" /\ PastGate
        /\ opts.gate /\ opts.selfCorrect => acceptance
        /\ UNCHANGED <<planPending, nudges, acceptance, opts, result, collected>>
    BY <1>20 DEF Answer, Reply, Answering
  <2>2. ASSUME opts.gate
        PROVE  /\ collected.text \notin {"none", "admission", "cue"}
               /\ planPending => nudges = MaxContinueNudges
    BY <2>1, <2>2, AgentAssumption DEF PastGate, Admits, Unfinished, Cue, Gated
  <2>3. collected.text \in {"none", "done", "cue", "admission"}
    BY AgentAssumption DEF IsStream
  <2>4. result'.kind = "none"
    BY <2>1 DEF Gated
  <2> QED
    BY <2>1, <2>2, <2>3, <2>4 DEF Gated, GatedAnswer
<1>21. ASSUME Finalize PROVE Gated'
  <2>1. /\ pc = "finalize" /\ UNCHANGED <<planPending, nudges, acceptance, opts>>
        /\ \/ pc' = "top" /\ result' = result
           \/ /\ pc' = "done"
              /\ result' = [kind |-> "answer", incomplete |-> FALSE, text |-> collected.text]
    BY <1>21 DEF Finalize, NextTurn
  <2> QED
    BY <1>c, <2>1 DEF Gated, GatedAnswer
<1>22. ASSUME ReplyWithCalls PROVE Gated'
  <2>1. pc = "reply" /\ pc' = "tools" /\ UNCHANGED <<opts, result, nudges>>
    BY <1>22 DEF ReplyWithCalls
  <2> QED
    BY <1>c, <2>1 DEF Gated
<1>23. ASSUME ReadAhead PROVE Gated'
  BY <1>23, <1>a, <1>b DEF ReadAhead
<1>24. ASSUME RunCall PROVE Gated'
  BY <1>24, <1>a, <1>b DEF RunCall
<1>25. ASSUME EndBatch PROVE Gated'
  <2>1. pc = "tools" /\ pc' = "top" /\ UNCHANGED <<opts, result, nudges>>
    BY <1>25 DEF EndBatch, NextTurn
  <2> QED
    BY <1>c, <2>1 DEF Gated
<1>26. ASSUME CancelledAtCeiling PROVE Gated'
  BY <1>26, <1>a, <1>b DEF CancelledAtCeiling
<1>27. ASSUME AskFinalAnswer PROVE Gated'
  <2>1. pc = "top" /\ pc' = "connect" /\ UNCHANGED <<opts, result, nudges>>
    BY <1>27 DEF AskFinalAnswer, TurnsOver
  <2> QED
    BY <1>c, <2>1 DEF Gated
<1>28. ASSUME FinalAnswer PROVE Gated'
  <2>1. /\ pc' = "done" /\ UNCHANGED <<opts, nudges>>
        /\ result'.incomplete = opts.gate
    BY <1>28 DEF FinalAnswer
  <2> QED
    BY <2>1 DEF Gated, GatedAnswer
<1>29. ASSUME NoFinalAnswer PROVE Gated'
  <2>1. /\ pc' = "done" /\ UNCHANGED <<opts, nudges>>
        /\ result'.incomplete = opts.gate
    BY <1>29 DEF NoFinalAnswer
  <2> QED
    BY <2>1 DEF Gated, GatedAnswer
<1>30. ASSUME Work PROVE Gated'
  BY <1>30, <1>a, <1>b DEF Work
<1>31. ASSUME Cancel PROVE Gated'
  BY <1>31, <1>a, <1>b DEF Cancel
<1>32. CASE UNCHANGED vars
  BY <1>a, <1>32 DEF vars
<1> QED
  BY <1>1, <1>2, <1>3, <1>4, <1>5, <1>6, <1>7, <1>8, <1>9, <1>10, <1>11, <1>12, <1>13, <1>14,
     <1>15, <1>16, <1>17, <1>18, <1>19, <1>20, <1>21, <1>22, <1>23, <1>24, <1>25, <1>26, <1>27,
     <1>28, <1>29, <1>30, <1>31, <1>32
     DEF Next, Loop

LEMMA NextLoopTypes == LoopInv /\ [Next]_vars => LoopTypes'
<1> SUFFICES ASSUME LoopTypes, Purposes, MaxTurns \in Nat, [Next]_vars
             PROVE  LoopTypes'
  BY AgentAssumption DEF LoopInv
<1> USE DEF LoopTypes, Places, Fail, Return, LeaveTurn, NextTurn, Goto, Request, OnlyMessages, controlVars, gateVars, compactionVars
<1>1. ASSUME BeginTurn PROVE LoopTypes'
  BY <1>1 DEF BeginTurn
<1>2. ASSUME CompactHistory PROVE LoopTypes'
  <2>1. reactive' = reactive
    BY <1>2 DEF CompactHistory, MaybeCompact, NothingToCompact, Prune, SummarizerFails, Summarize
  <2> QED
    BY <1>2, <2>1 DEF CompactHistory
<1>3. ASSUME Connect PROVE LoopTypes'
  BY <1>3 DEF Connect
<1>4. ASSUME Reconnect PROVE LoopTypes'
  BY <1>4 DEF Reconnect
<1>5. ASSUME ConnectFails PROVE LoopTypes'
  BY <1>5 DEF ConnectFails
<1>6. ASSUME Collect PROVE LoopTypes'
  <2>1. UNCHANGED <<turn, opts, connects, sends, stalls, gateVars, compactionVars, cancelled>>
    BY <1>6 DEF Collect
  <2> QED
    BY <1>6, <2>1, CollectGoes
<1>7. ASSUME Settle PROVE LoopTypes'
  BY <1>7 DEF Settle
<1>8. ASSUME StallRetry PROVE LoopTypes'
  BY <1>8 DEF StallRetry
<1>9. ASSUME StallsOver PROVE LoopTypes'
  BY <1>9 DEF StallsOver
<1>10. ASSUME RecoveryDeclined PROVE LoopTypes'
  <2>1. reactive' = reactive
    BY <1>10 DEF RecoveryDeclined, RecoverDeclined
  <2> QED
    BY <1>10, <2>1 DEF RecoveryDeclined
<1>11. ASSUME RecoveryFails PROVE LoopTypes'
  <2>1. reactive' = TRUE
    BY <1>11 DEF RecoveryFails, RecoverFails
  <2> QED
    BY <1>11, <2>1 DEF RecoveryFails
<1>12. ASSUME RecoverySucceeds PROVE LoopTypes'
  <2>1. reactive' = TRUE
    BY <1>12 DEF RecoverySucceeds, Recovered
  <2> QED
    BY <1>12, <2>1 DEF RecoverySucceeds
<1>13. ASSUME LastErrorStays PROVE LoopTypes'
  BY <1>13 DEF LastErrorStays
<1>14. ASSUME ReplyDropped PROVE LoopTypes'
  BY <1>14 DEF ReplyDropped, Reply, Answering
<1>15. ASSUME ReplyEmpty PROVE LoopTypes'
  <2>1. /\ UNCHANGED <<turn, opts, nudges, planPending, acceptance, cancelled, reactive>>
        /\ connects' = 0 /\ sends' = 0 /\ stalls' = 0 /\ pc' \in {"top", "done"}
    BY <1>15 DEF ReplyEmpty, Reply
  <2> QED
    BY <2>1
<1>16. ASSUME AnswerAdmits PROVE LoopTypes'
  BY <1>16 DEF AnswerAdmits, Reply, Answering
<1>17. ASSUME AnswerNudged PROVE LoopTypes'
  <2>1. /\ UNCHANGED <<turn, opts, planPending, acceptance, cancelled, reactive>>
        /\ connects' = 0 /\ sends' = 0 /\ stalls' = 0 /\ pc' = "top" /\ nudges' = nudges + 1
    BY <1>17 DEF AnswerNudged, Reply, Answering
  <2> QED
    BY <2>1
<1>18. ASSUME AnswerMidStep PROVE LoopTypes'
  BY <1>18 DEF AnswerMidStep, Reply, Answering
<1>19. ASSUME AskAcceptance PROVE LoopTypes'
  BY <1>19 DEF AskAcceptance, Reply, Answering
<1>20. ASSUME Answer PROVE LoopTypes'
  BY <1>20 DEF Answer, Reply, Answering
<1>21. ASSUME Finalize PROVE LoopTypes'
  BY <1>21 DEF Finalize
<1>22. ASSUME ReplyWithCalls PROVE LoopTypes'
  BY <1>22 DEF ReplyWithCalls
<1>23. ASSUME ReadAhead PROVE LoopTypes'
  BY <1>23 DEF ReadAhead
<1>24. ASSUME RunCall PROVE LoopTypes'
  BY <1>24 DEF RunCall
<1>25. ASSUME EndBatch PROVE LoopTypes'
  BY <1>25 DEF EndBatch
<1>26. ASSUME CancelledAtCeiling PROVE LoopTypes'
  BY <1>26 DEF CancelledAtCeiling
<1>27. ASSUME AskFinalAnswer PROVE LoopTypes'
  BY <1>27 DEF AskFinalAnswer
<1>28. ASSUME FinalAnswer PROVE LoopTypes'
  BY <1>28 DEF FinalAnswer
<1>29. ASSUME NoFinalAnswer PROVE LoopTypes'
  BY <1>29 DEF NoFinalAnswer
<1>30. ASSUME Work PROVE LoopTypes'
  BY <1>30 DEF Work
<1>31. ASSUME Cancel PROVE LoopTypes'
  BY <1>31 DEF Cancel
<1>32. CASE UNCHANGED vars
  BY <1>32 DEF vars
<1> QED
  BY <1>1, <1>2, <1>3, <1>4, <1>5, <1>6, <1>7, <1>8, <1>9, <1>10, <1>11, <1>12, <1>13, <1>14,
     <1>15, <1>16, <1>17, <1>18, <1>19, <1>20, <1>21, <1>22, <1>23, <1>24, <1>25, <1>26, <1>27,
     <1>28, <1>29, <1>30, <1>31, <1>32
     DEF Next, Loop

LEMMA NextLoopInv == LoopInv /\ [Next]_vars => LoopInv'
  BY NextLoopTypes, NextStreamed, NextPurposes, NextShownOnce, NextCounts, NextBatchPlace, NextLateRuns,
     NextGated DEF LoopInv

LEMMA LoopInvariant == Spec => []LoopInv
  BY InitLoopInv, NextLoopInv, PTL DEF Spec

\* However often a turn is retried, its prose is shown by one stream at most: a
\* stall is retried only while nothing was shown, and a recovered stream is sent
\* again without its callbacks (loop.go).
THEOREM OneAnswerShown == Spec => []OneVisibleAnswer
<1>1. LoopInv => OneVisibleAnswer
  BY DEF LoopInv, ShownOnce, OneVisibleAnswer
<1> QED
  BY <1>1, LoopInvariant, PTL

\* Under the completion gate no run ends as complete with an admission, a cue, a
\* plan that was not nudged about, or without its acceptance check.
THEOREM AnswersAreGated == Spec => []GatedAnswer
<1>1. LoopInv => GatedAnswer
  BY DEF LoopInv, Gated
<1> QED
  BY <1>1, LoopInvariant, PTL

\* Reading ahead never passes a call that may write, whatever the batch.
THEOREM ReadsFollowWrites == Spec => []ReadsSeeWrites
<1>1. ASSUME LoopInv PROVE ReadsSeeWrites
  <2> SUFFICES ASSUME pc = "tools", NEW k \in ran, NEW i \in DOMAIN Calls, i < k, i >= next
               PROVE  IsRead(Calls[i])
    BY DEF ReadsSeeWrites
  <2>1. /\ k \in Nat /\ (k < next \/ k <= runEnd) /\ next \in Nat /\ runEnd \in Nat
        /\ \A n \in next..runEnd : IsRead(Calls[n])
    BY <1>1 DEF LoopInv, BatchPlace
  <2>2. i \in Int
    BY <1>1, CallsAreSeq DEF LoopInv
  <2>3. i \in next..runEnd
    BY <2>1, <2>2
  <2> QED
    BY <2>1, <2>3
<1> QED
  BY <1>1, LoopInvariant, PTL

\* A cancelled run begins at most one more call, or one more run of reads, however
\* long the batch and however its calls end.
THEOREM CancellationStops == Spec => []CancelStopsTools
<1>1. LoopInv => CancelStopsTools
  BY DEF LoopInv, LateRuns, CancelStopsTools
<1> QED
  BY <1>1, LoopInvariant, PTL

-----------------------------------------------------------------------------
(* Late diagnostics.                                                       *)

\* The queue holds its marked files once each.  A file that neither waits nor is
\* being checked has a kept block when it has errors that were not reported; one
\* that does was not reported, and what a check read is true of its file unless
\* the file was queued again.
Blocks ==
  /\ queue \in Seq(Files) /\ checking \in Files \cup {NoFile}
  /\ results \subseteq Files /\ broken \subseteq Files
  /\ \A i, j \in DOMAIN queue : i # j => queue[i] # queue[j]
  /\ queued = {queue[i] : i \in DOMAIN queue}
  /\ ~working => queue = <<>> /\ checking = NoFile
  /\ \A x \in Files : x \notin queued /\ x # checking => (x \in results <=> x \in broken \ told)
  /\ \A x \in Files : x \in queued \/ x = checking => x \notin told
  /\ checking # NoFile /\ checking \notin queued /\ sawError # "unread" =>
       (sawError = "yes" <=> checking \in broken)

LEMMA WorkerKeepsBlocks ==
  ASSUME Blocks, ~cancelled, Worker(cancelled)
  PROVE  Blocks'
<1> USE DEF Blocks
<1>1. CASE WorkerExit(cancelled)
  BY <1>1 DEF WorkerExit
<1>2. CASE WorkerTake(cancelled)
  <2>1. /\ checking = NoFile /\ queue # <<>> /\ checking' = Head(queue) /\ queue' = Tail(queue)
        /\ queued' = queued \ {Head(queue)} /\ sawError' = "unread" /\ working
        /\ UNCHANGED <<results, working, broken, told>>
    BY <1>2 DEF WorkerTake
  <2>2. /\ Head(queue) = queue[1] /\ Head(queue) \in Files /\ Tail(queue) \in Seq(Files)
        /\ Len(queue) \in Nat /\ Len(queue) >= 1 /\ DOMAIN queue = 1..Len(queue)
        /\ DOMAIN Tail(queue) = 1..(Len(queue) - 1)
        /\ \A i \in 1..(Len(queue) - 1) : Tail(queue)[i] = queue[i + 1]
    BY <2>1
  <2>3. \A i \in DOMAIN Tail(queue) : /\ i + 1 \in DOMAIN queue /\ i + 1 # 1
                                      /\ Tail(queue)[i] = queue[i + 1]
    BY <2>2
  <2>4. \A i \in DOMAIN queue : i = 1 \/ (i - 1 \in DOMAIN Tail(queue) /\ Tail(queue)[i - 1] = queue[i])
    <3> TAKE i \in DOMAIN queue
    <3>1. i = 1 \/ (i - 1 \in 1..(Len(queue) - 1) /\ (i - 1) + 1 = i)
      BY <2>2
    <3> QED
      BY <2>2, <3>1
  <2>5. \A i, j \in DOMAIN queue' : i # j => queue'[i] # queue'[j]
    <3> SUFFICES ASSUME NEW i \in DOMAIN Tail(queue), NEW j \in DOMAIN Tail(queue), i # j
                 PROVE  Tail(queue)[i] # Tail(queue)[j]
      BY <2>1
    <3>1. i + 1 # j + 1
      BY <2>2
    <3> QED
      BY <2>3, <3>1
  <2>6. queued' = {queue'[i] : i \in DOMAIN queue'}
    <3>1. \A x \in queued' : \E i \in DOMAIN Tail(queue) : x = Tail(queue)[i]
      BY <2>1, <2>2, <2>4
    <3>2. \A i \in DOMAIN Tail(queue) : Tail(queue)[i] \in queued'
      <4> TAKE i \in DOMAIN Tail(queue)
      <4>1. 1 \in DOMAIN queue /\ queue[i + 1] # queue[1] /\ queue[i + 1] \in queued
        BY <2>2, <2>3
      <4> QED
        BY <2>1, <2>2, <2>3, <4>1
    <3>3. queued' = {Tail(queue)[i] : i \in DOMAIN Tail(queue)}
      BY <3>1, <3>2
    <3> QED
      BY <2>1, <3>3
  <2>7. Head(queue) \in queued
    BY <2>2
  <2> QED
    BY <2>1, <2>2, <2>5, <2>6, <2>7, DiagnosticsAssumption
<1>3. CASE WorkerRead(cancelled)
  BY <1>3 DEF WorkerRead
<1>4. CASE WorkerStore
  <2>1. /\ checking \in Files /\ sawError # "unread" /\ checking' = NoFile
        /\ UNCHANGED <<queue, queued, working, broken, told>>
        /\ results' = IF sawError = "yes" THEN results \cup {checking} ELSE results \ {checking}
    BY <1>4 DEF WorkerStore
  <2>2. \A x \in Files : x \notin queued /\ x # checking => (x \in results' <=> x \in broken \ told)
    BY <2>1
  <2>3. checking \notin queued => (checking \in results' <=> checking \in broken \ told)
    <3>1. checking # NoFile /\ checking \notin told
      BY <2>1, DiagnosticsAssumption
    <3>2. checking \in results' <=> sawError = "yes"
      BY <2>1
    <3> QED
      BY <2>1, <3>1, <3>2
  <2>4. \A x \in Files : x \notin queued' => (x \in results' <=> x \in broken' \ told')
    BY <2>1, <2>2, <2>3
  <2>6. ~working' => queue' = <<>> /\ checking' = NoFile
    BY <2>1
  <2>7. \A x \in Files : x \in queued' \/ x = checking' => x \notin told'
    BY <2>1, DiagnosticsAssumption
  <2>8. results' \subseteq Files
    BY <2>1
  <2> QED
    BY <2>1, <2>4, <2>6, <2>7, <2>8
<1> QED
  BY <1>1, <1>2, <1>3, <1>4 DEF Worker

LEMMA EditKeepsBlocks ==
  ASSUME Blocks, NEW f \in Files, NEW hasErrors \in BOOLEAN, Edit(f, hasErrors), Enqueue(f)
  PROVE  Blocks'
<1> USE DEF Blocks
<1>1. /\ broken' = IF hasErrors THEN broken \cup {f} ELSE broken \ {f}
      /\ told' = told \ {f} /\ working' = TRUE /\ queued' = queued \cup {f}
      /\ UNCHANGED <<checking, sawError>>
      /\ results' = IF f \in queued THEN results ELSE results \ {f}
      /\ queue' = IF f \in queued THEN queue ELSE Append(queue, f)
  BY DEF Edit, Enqueue
<1>2. /\ queue' \in Seq(Files)
      /\ \A i, j \in DOMAIN queue' : i # j => queue'[i] # queue'[j]
      /\ queued' = {queue'[i] : i \in DOMAIN queue'}
  <2>1. CASE f \in queued
    BY <1>1, <2>1
  <2>2. CASE f \notin queued
    <3>1. /\ Append(queue, f) \in Seq(Files) /\ Len(queue) \in Nat
          /\ DOMAIN queue = 1..Len(queue) /\ DOMAIN Append(queue, f) = 1..(Len(queue) + 1)
          /\ \A i \in 1..Len(queue) : Append(queue, f)[i] = queue[i]
          /\ Append(queue, f)[Len(queue) + 1] = f
      OBVIOUS
    <3>2. \A i \in DOMAIN Append(queue, f) : \/ i \in DOMAIN queue /\ Append(queue, f)[i] = queue[i]
                                             \/ i = Len(queue) + 1 /\ Append(queue, f)[i] = f
      BY <3>1
    <3>3. \A i \in DOMAIN queue : queue[i] # f
      BY <2>2
    <3>4. queue' = Append(queue, f)
      BY <1>1, <2>2
    <3>5. \A i, j \in DOMAIN queue' : i # j => queue'[i] # queue'[j]
      BY <3>2, <3>3, <3>4
    <3>6. Len(queue) + 1 \in DOMAIN queue' /\ \A i \in DOMAIN queue : i \in DOMAIN queue'
      BY <3>1, <3>4
    <3>7. queued' = {queue'[i] : i \in DOMAIN queue'}
      BY <1>1, <3>1, <3>2, <3>4, <3>6
    <3> QED
      BY <3>1, <3>4, <3>5, <3>7
  <2> QED
    BY <2>1, <2>2
<1> QED
  BY <1>1, <1>2

LEMMA NudgeKeepsBlocks ==
  ASSUME Blocks, DrainNudge
  PROVE  Blocks' /\ broken' \subseteq told'
<1> USE DEF Blocks
<1>1. /\ queue = <<>> /\ checking = NoFile /\ results' = {} /\ told' = told \cup (results \cap broken)
      /\ UNCHANGED <<queue, queued, working, checking, sawError, broken>>
  BY DEF DrainNudge
<1>2. \A x \in Files : x \notin queued /\ x # checking
  BY <1>1, DiagnosticsAssumption
<1>3. broken \subseteq told'
  BY <1>1, <1>2
<1> QED
  BY <1>1, <1>2, <1>3

\* With the worker quiet, the blocks are those of the errors not yet reported.
LEMMA QuietBlocks ==
  ASSUME Blocks, ~working
  PROVE  results = broken \ told
<1>1. \A x \in Files : x \notin queued /\ x # checking
  BY DiagnosticsAssumption DEF Blocks
<1> QED
  BY <1>1 DEF Blocks

\* Once the final answer is asked for, and once it is given, nothing is unreported.
Reported ==
  /\ Blocks
  /\ why = "final" /\ ~missed => broken \subseteq told
  /\ result.kind \in {"answer", "ceiling"} /\ ~missed => broken \subseteq told

LEMMA InitReported == Init => Reported
<1> SUFFICES ASSUME Init PROVE Reported
  OBVIOUS
<1>1. Blocks
  BY DEF Init, DiagInit, Blocks
<1> QED
  BY <1>1 DEF Init, Reported

LEMMA NextReported == LoopInv /\ (~cancelled => Reported) /\ [Next]_vars => (~cancelled' => Reported')
<1> SUFFICES ASSUME LoopInv, ~cancelled => Reported, [Next]_vars, ~cancelled'
             PROVE  Reported'
  OBVIOUS
<1> DEFINE Kept == /\ UNCHANGED <<diagVars, cancelled>>
                   /\ why' = "final" => why = "final" /\ missed' = missed
                   /\ result'.kind \notin {"answer", "ceiling"} \/ UNCHANGED <<result, missed>>
<1>a. ASSUME Kept PROVE Reported'
  BY <1>a DEF Reported, Blocks, diagVars
<1>b. /\ pc # "done" => result.kind = "none"
      /\ pc \in {"top", "compact", "done"} => why = "turn"
      /\ pc \in {"settle", "stalled", "reply", "tools", "finalize"} => why # "final"
  BY DEF LoopInv, Gated, Purposes
<1> USE DEF Fail, Return, LeaveTurn, NextTurn, Goto, Request, controlVars, gateVars
<1>1. ASSUME BeginTurn PROVE Reported'
  <2>1. /\ pc = "top" /\ UNCHANGED <<why, result, cancelled>> /\ why # "final" /\ result.kind = "none"
        /\ DrainNudge \/ UNCHANGED diagVars
    BY <1>1, <1>b DEF BeginTurn, DrainGivesUp, DrainNothing
  <2>2. Blocks'
    BY <1>a, <2>1, NudgeKeepsBlocks DEF Reported, Blocks, diagVars
  <2> QED
    BY <2>1, <2>2 DEF Reported
<1>2. ASSUME CompactHistory PROVE Reported'
  BY <1>2, <1>a, <1>b DEF CompactHistory
<1>3. ASSUME Connect PROVE Reported'
  BY <1>3, <1>a, <1>b DEF Connect
<1>4. ASSUME Reconnect PROVE Reported'
  BY <1>4, <1>a, <1>b DEF Reconnect
<1>5. ASSUME ConnectFails PROVE Reported'
  BY <1>5, <1>a, <1>b DEF ConnectFails
<1>6. ASSUME Collect PROVE Reported'
  <2>1. UNCHANGED <<diagVars, cancelled, result, missed>> /\ why # "final" /\ (why' = "stream" \/ why' = why)
    BY <1>6 DEF Collect
  <2> QED
    BY <1>a, <2>1
<1>7. ASSUME Settle PROVE Reported'
  BY <1>7, <1>a, <1>b DEF Settle
<1>8. ASSUME StallRetry PROVE Reported'
  BY <1>8, <1>a, <1>b DEF StallRetry
<1>9. ASSUME StallsOver PROVE Reported'
  BY <1>9, <1>a, <1>b DEF StallsOver
<1>10. ASSUME RecoveryDeclined PROVE Reported'
  BY <1>10, <1>a, <1>b DEF RecoveryDeclined
<1>11. ASSUME RecoveryFails PROVE Reported'
  BY <1>11, <1>a, <1>b DEF RecoveryFails
<1>12. ASSUME RecoverySucceeds PROVE Reported'
  BY <1>12, <1>a, <1>b DEF RecoverySucceeds
<1>13. ASSUME LastErrorStays PROVE Reported'
  BY <1>13, <1>a, <1>b DEF LastErrorStays
<1>14. ASSUME ReplyDropped PROVE Reported'
  BY <1>14, <1>a, <1>b DEF ReplyDropped, Reply
<1>15. ASSUME ReplyEmpty PROVE Reported'
  <2>1. /\ UNCHANGED <<diagVars, cancelled, missed>> /\ why' = "turn"
        /\ \/ result' = result
           \/ result' = [kind |-> "stop", incomplete |-> FALSE, text |-> "none"]
    BY <1>15 DEF ReplyEmpty, Reply
  <2> QED
    BY <1>a, <2>1
<1>16. ASSUME AnswerAdmits PROVE Reported'
  BY <1>16, <1>a, <1>b DEF AnswerAdmits, Reply
<1>17. ASSUME AnswerNudged PROVE Reported'
  BY <1>17, <1>a, <1>b DEF AnswerNudged, Reply
<1>18. ASSUME AnswerMidStep PROVE Reported'
  BY <1>18, <1>a, <1>b DEF AnswerMidStep, Reply
<1>19. ASSUME AskAcceptance PROVE Reported'
  BY <1>19, <1>a, <1>b DEF AskAcceptance, Reply
<1>20. ASSUME Answer PROVE Reported'
  BY <1>20, <1>a, <1>b DEF Answer, Reply
<1>21. ASSUME Finalize PROVE Reported'
  <2>0. Reported
    BY <1>21 DEF Finalize
  <2>1. CASE DrainNudge /\ NextTurn
    <3>1. Blocks' /\ why' # "final" /\ broken' \subseteq told'
      BY <2>0, <2>1, NudgeKeepsBlocks DEF Reported
    <3> QED
      BY <3>1 DEF Reported
  <2>2. CASE DrainGivesUp \/ DrainNothing
    <3>1. UNCHANGED diagVars /\ (~working => results = {})
      BY <2>2 DEF DrainGivesUp, DrainNothing
    <3>2. Blocks' /\ why' # "final" /\ missed' = working
      <4>1. Blocks'
        BY <2>0, <3>1 DEF Reported, Blocks, diagVars
      <4>2. why' = "turn"
        BY <1>21 DEF Finalize
      <4>3. missed' = working
        BY <1>21, <2>2 DEF Finalize, DrainNudge, DrainGivesUp, DrainNothing
      <4> QED
        BY <4>1, <4>2, <4>3
    <3>3. ~working => broken \subseteq told
      BY <2>0, <3>1, QuietBlocks DEF Reported
    <3> QED
      BY <3>1, <3>2, <3>3 DEF Reported, diagVars
  <2> QED
    BY <1>21, <2>1, <2>2 DEF Finalize
<1>22. ASSUME ReplyWithCalls PROVE Reported'
  BY <1>22, <1>a, <1>b DEF ReplyWithCalls
<1>23. ASSUME ReadAhead PROVE Reported'
  BY <1>23, <1>a, <1>b DEF ReadAhead
<1>24. ASSUME RunCall PROVE Reported'
  <2>1. PICK o \in Outcomes :
          \/ UNCHANGED diagVars
          \/ /\ Calls[next].kind = "edit"
             /\ \E hasErrors \in BOOLEAN : Edit(Calls[next].arg, hasErrors)
             /\ Enqueue(Calls[next].arg)
    BY <1>24 DEF RunCall, ChangesFile, Aborts
  <2>2. Blocks
    BY <1>24 DEF RunCall, Reported
  <2>3. pc = "tools" /\ next \in 1..Len(Calls)
    BY <1>24, CallsAreSeq DEF RunCall, LoopInv, BatchPlace
  <2>4. why' # "final" /\ result'.kind \notin {"answer", "ceiling"}
    BY <1>24, <1>b, <2>3 DEF RunCall
  <2>5. Calls[next].kind = "edit" => Calls[next].arg \in Files
    BY <2>3, CallsAreSeq DEF LoopInv
  <2>6. Blocks'
    BY <2>1, <2>2, <2>5, EditKeepsBlocks DEF Blocks, diagVars
  <2> QED
    BY <2>4, <2>6 DEF Reported
<1>25. ASSUME EndBatch PROVE Reported'
  BY <1>25, <1>a, <1>b DEF EndBatch
<1>26. ASSUME CancelledAtCeiling PROVE Reported'
  BY <1>26, <1>a, <1>b DEF CancelledAtCeiling
<1>27. ASSUME AskFinalAnswer PROVE Reported'
  <2>0. Reported /\ result.kind = "none" /\ result' = result
    BY <1>27, <1>b DEF AskFinalAnswer, TurnsOver
  <2>1. CASE DrainNudge
    <3>1. Blocks' /\ broken' \subseteq told'
      BY <2>0, <2>1, NudgeKeepsBlocks DEF Reported
    <3> QED
      BY <2>0, <3>1 DEF Reported
  <2>2. CASE (DrainGivesUp \/ DrainNothing) /\ missed' = working
    <3>1. UNCHANGED diagVars /\ (~working => results = {})
      BY <2>2 DEF DrainGivesUp, DrainNothing
    <3>2. Blocks'
      BY <2>0, <3>1 DEF Reported, Blocks, diagVars
    <3>3. ~working => broken \subseteq told
      BY <2>0, <3>1, QuietBlocks DEF Reported
    <3> QED
      BY <2>0, <2>2, <3>1, <3>2, <3>3 DEF Reported, diagVars
  <2> QED
    BY <1>27, <2>1, <2>2 DEF AskFinalAnswer
<1>28. ASSUME FinalAnswer PROVE Reported'
  <2>1. /\ why = "final" /\ why' = "turn" /\ UNCHANGED <<diagVars, missed>> /\ Reported
    BY <1>28 DEF FinalAnswer
  <2> QED
    BY <2>1 DEF Reported, Blocks, diagVars
<1>29. ASSUME NoFinalAnswer PROVE Reported'
  BY <1>29, <1>a, <1>b DEF NoFinalAnswer
<1>30. ASSUME Work PROVE Reported'
  <2>1. /\ Reported /\ ~cancelled /\ Worker(cancelled) /\ UNCHANGED <<why, result, missed>>
    BY <1>30 DEF Work
  <2>2. UNCHANGED <<broken, told>>
    BY <2>1 DEF Worker, WorkerExit, WorkerTake, WorkerRead, WorkerStore
  <2>3. Blocks'
    BY <2>1, WorkerKeepsBlocks DEF Reported
  <2> QED
    BY <2>1, <2>2, <2>3 DEF Reported
<1>31. ASSUME Cancel PROVE Reported'
  BY <1>31 DEF Cancel
<1>32. CASE UNCHANGED vars
  BY <1>a, <1>32 DEF vars
<1> QED
  BY <1>1, <1>2, <1>3, <1>4, <1>5, <1>6, <1>7, <1>8, <1>9, <1>10, <1>11, <1>12, <1>13, <1>14,
     <1>15, <1>16, <1>17, <1>18, <1>19, <1>20, <1>21, <1>22, <1>23, <1>24, <1>25, <1>26, <1>27,
     <1>28, <1>29, <1>30, <1>31, <1>32
     DEF Next, Loop

\* When the worker is quiet the kept blocks are exactly those of the errors that
\* were not reported, and no answer is given while one of them is unreported unless
\* the last drain gave up: for any files, edits and interleavings with the worker
\* (async_diagnostics.go, drainFinal).
THEOREM DiagnosticsReachTheModel == Spec => []DiagnosticsDelivered
<1>1. Init => (~cancelled => Reported)
  BY InitReported
<1>2. (~cancelled => Reported) => DiagnosticsDelivered
  BY QuietBlocks DEF Reported, DiagnosticsDelivered
<1> QED
  BY <1>1, <1>2, NextReported, LoopInvariant, PTL DEF Spec

-----------------------------------------------------------------------------
(* Every step leaves less to do.                                           *)

TurnsLeft == MaxTurns - turn
SendsLeft == IF Stage = 5 THEN 2 + MaxStalls - sends ELSE 0
CallsLeft == IF pc = "tools" THEN 2 * (Len(Calls) + 1 - next) - (IF next <= runEnd THEN 1 ELSE 0)
                             ELSE MaxReconnects - connects

LeftIsNat ==
  /\ TurnsLeft \in Nat /\ Stage \in Nat /\ SendsLeft \in Nat /\ Place \in Nat /\ CallsLeft \in Nat

LEMMA LexicographicallyLess ==
  ASSUME LeftIsNat, LeftIsNat',
         \/ TurnsLeft' < TurnsLeft
         \/ TurnsLeft' = TurnsLeft /\ Stage' < Stage
         \/ TurnsLeft' = TurnsLeft /\ Stage' = Stage /\ SendsLeft' < SendsLeft
         \/ TurnsLeft' = TurnsLeft /\ Stage' = Stage /\ SendsLeft' = SendsLeft /\ Place' < Place
         \/ /\ TurnsLeft' = TurnsLeft /\ Stage' = Stage /\ SendsLeft' = SendsLeft
            /\ Place' = Place /\ CallsLeft' < CallsLeft
  PROVE  LeavesLess(Left, Left')
<1>1. /\ Left = <<TurnsLeft, Stage, SendsLeft, Place, CallsLeft>>
      /\ Left' = <<TurnsLeft', Stage', SendsLeft', Place', CallsLeft'>>
  BY DEF Left, TurnsLeft, SendsLeft, CallsLeft
<1>2. DOMAIN Left = 1..5 /\ DOMAIN Left' = 1..5
  BY <1>1
<1>3. \A i \in 1..5 : Left'[i] >= 0
  BY <1>1 DEF LeftIsNat
<1>4. \E i \in 1..5 : Left'[i] < Left[i] /\ \A j \in 1..(i - 1) : Left'[j] = Left[j]
  <2>1. CASE TurnsLeft' < TurnsLeft
    BY <1>1, <2>1
  <2>2. CASE TurnsLeft' = TurnsLeft /\ Stage' < Stage
    BY <1>1, <2>2
  <2>3. CASE TurnsLeft' = TurnsLeft /\ Stage' = Stage /\ SendsLeft' < SendsLeft
    BY <1>1, <2>3
  <2>4. CASE TurnsLeft' = TurnsLeft /\ Stage' = Stage /\ SendsLeft' = SendsLeft /\ Place' < Place
    BY <1>1, <2>4
  <2>5. CASE /\ TurnsLeft' = TurnsLeft /\ Stage' = Stage /\ SendsLeft' = SendsLeft
             /\ Place' = Place /\ CallsLeft' < CallsLeft
    BY <1>1, <2>5
  <2> QED
    BY <2>1, <2>2, <2>3, <2>4, <2>5
<1> QED
  BY <1>2, <1>3, <1>4 DEF LeavesLess

LEMMA NothingBelowZero ==
  ASSUME LoopInv
  PROVE  LeftIsNat
<1>1. TurnsLeft \in Nat
  BY AgentAssumption DEF LoopInv, LoopTypes, TurnsLeft
<1>2. Stage \in 0..5 /\ Place \in 0..6
  BY DEF Stage, Place
<1>3. SendsLeft \in Nat
  <2>1. sends \in Nat /\ stalls \in Nat /\ MaxStalls \in Nat /\ stalls <= MaxStalls /\ sends <= 2 + stalls
    BY AgentAssumption DEF LoopInv, LoopTypes, Counts
  <2> QED
    BY <2>1 DEF SendsLeft
<1>4. CallsLeft \in Nat
  <2>1. connects \in Nat /\ MaxReconnects \in Nat /\ connects <= MaxReconnects
    BY AgentAssumption DEF LoopInv, LoopTypes, Counts
  <2>2. /\ next \in Nat /\ runEnd \in Nat /\ Len(Calls) \in Nat
        /\ pc = "tools" => next <= Len(Calls) + 1 /\ runEnd <= Len(Calls)
    BY CallsAreSeq DEF LoopInv, BatchPlace
  <2> QED
    BY <2>1, <2>2 DEF CallsLeft
<1> QED
  BY <1>1, <1>2, <1>3, <1>4 DEF LeftIsNat

LEMMA EndsFrom ==
  EndsTurn => pc # "done" /\ (pc' = "done" \/ pc \in {"reply", "tools", "finalize"})
<1> USE DEF Fail, Return, LeaveTurn, NextTurn, Reply
<1>1. RecoveryFails \/ LastErrorStays \/ CancelledAtCeiling => pc # "done" /\ pc' = "done"
  BY DEF RecoveryFails, LastErrorStays, CancelledAtCeiling, TurnsOver
<1>2. ReplyDropped \/ ReplyEmpty => pc = "reply"
  BY DEF ReplyDropped, ReplyEmpty
<1>3. AnswerAdmits \/ AnswerNudged \/ AnswerMidStep \/ AskAcceptance => pc = "reply"
  BY DEF AnswerAdmits, AnswerNudged, AnswerMidStep, AskAcceptance
<1>4. Finalize \/ EndBatch => pc \in {"tools", "finalize"}
  BY DEF Finalize, EndBatch
<1>5. FinalAnswer \/ NoFinalAnswer => pc # "done" /\ pc' = "done"
  BY DEF FinalAnswer, NoFinalAnswer
<1> QED
  BY <1>1, <1>2, <1>3, <1>4, <1>5 DEF EndsTurn

LEMMA LoopLeavesLess ==
  ASSUME LoopInv, LeftIsNat, LeftIsNat', Loop
  PROVE  LeavesLess(Left, Left')
<1> DEFINE Sooner == \/ TurnsLeft' < TurnsLeft
                     \/ TurnsLeft' = TurnsLeft /\ Stage' < Stage
                     \/ TurnsLeft' = TurnsLeft /\ Stage' = Stage /\ SendsLeft' < SendsLeft
                     \/ TurnsLeft' = TurnsLeft /\ Stage' = Stage /\ SendsLeft' = SendsLeft /\ Place' < Place
                     \/ /\ TurnsLeft' = TurnsLeft /\ Stage' = Stage /\ SendsLeft' = SendsLeft
                        /\ Place' = Place /\ CallsLeft' < CallsLeft
<1> SUFFICES Sooner
  BY LexicographicallyLess
<1>a. /\ pc \in {"top", "compact", "done"} => why = "turn"
      /\ pc \in {"connect", "stream"} => why \in {"turn", "reissue", "quiet", "stall", "last", "final"}
      /\ pc = "recover" => why \in {"turn", "stream", "last"}
      /\ pc \in {"settle", "stalled", "reply", "tools", "finalize"} => why # "final"
  BY DEF LoopInv, Purposes
<1>b. /\ turn \in Int /\ MaxTurns \in Int /\ sends \in Int /\ MaxStalls \in Int
      /\ connects \in Int /\ MaxReconnects \in Int
  BY AgentAssumption DEF LoopInv, LoopTypes
<1>c. ASSUME turn' = turn, pc # "done", pc' = "done" PROVE Sooner
  BY <1>c DEF TurnsLeft, Stage
<1>d. ASSUME turn' = turn, Stage' < Stage PROVE Sooner
  BY <1>d DEF TurnsLeft
<1>e. ASSUME turn' = turn, Stage = 5, Stage' = 5, sends' = sends + 1 PROVE Sooner
  BY <1>b, <1>e DEF TurnsLeft, SendsLeft
<1>f. ASSUME turn' = turn, Stage' = Stage, sends' = sends, Place' < Place PROVE Sooner
  BY <1>f DEF TurnsLeft, SendsLeft
<1>1. ASSUME EndsTurn PROVE Sooner
  <2>1. pc # "done" /\ turn' = turn /\ why' = "turn" /\ pc' \in {"top", "done"}
    BY <1>1, TurnEnds, EndsFrom DEF TurnOver, LeaveTurn
  <2>2. CASE pc' = "done"
    BY <1>c, <2>1, <2>2
  <2>3. CASE pc' # "done"
    <3>1. pc \in {"reply", "tools", "finalize"} /\ pc' = "top"
      BY <1>1, <2>1, <2>3, EndsFrom
    <3>2. Stage' < Stage
      BY <1>a, <2>1, <3>1 DEF Stage
    <3> QED
      BY <1>d, <2>1, <3>2
  <2> QED
    BY <2>2, <2>3
<1>2. ASSUME BeginTurn PROVE Sooner
  <2>1. turn' = turn + 1
    BY <1>2 DEF BeginTurn
  <2> QED
    BY <1>b, <2>1 DEF TurnsLeft
<1>3. ASSUME CompactHistory PROVE Sooner
  <2>1. turn' = turn /\ pc = "compact" /\ pc' = "connect" /\ why' = "turn" /\ sends' = sends + 1
    BY <1>3 DEF CompactHistory, Request
  <2>2. Stage = 5 /\ Stage' = 5
    BY <1>a, <2>1 DEF Stage
  <2> QED
    BY <1>e, <2>1, <2>2
<1>4. ASSUME Connect PROVE Sooner
  <2>1. pc = "connect" /\ pc' = "stream" /\ UNCHANGED <<why, turn, sends>>
    BY <1>4 DEF Connect
  <2>2. Stage' = Stage /\ Place' < Place
    BY <2>1 DEF Stage, Place
  <2> QED
    BY <1>f, <2>1, <2>2
<1>5. ASSUME Reconnect PROVE Sooner
  <2>1. pc = "connect" /\ connects' = connects + 1 /\ UNCHANGED <<pc, why, turn, sends>>
    BY <1>5 DEF Reconnect
  <2>2. Stage' = Stage /\ Place' = Place /\ SendsLeft' = SendsLeft /\ TurnsLeft' = TurnsLeft
    BY <2>1 DEF Stage, Place, SendsLeft, TurnsLeft
  <2>3. CallsLeft' < CallsLeft
    BY <1>b, <2>1 DEF CallsLeft
  <2> QED
    BY <2>2, <2>3
<1>6. ASSUME ConnectFails PROVE Sooner
  <2>1. CASE Fail
    BY <1>6, <1>c, <2>1 DEF ConnectFails, Fail, Return, LeaveTurn
  <2>2. CASE ~Fail
    <3>1. pc = "connect" /\ pc' = "recover" /\ why = "turn" /\ UNCHANGED <<why, turn, sends>>
      BY <1>6, <2>2 DEF ConnectFails
    <3>2. Stage' = Stage /\ Place' < Place
      BY <3>1 DEF Stage, Place
    <3> QED
      BY <1>f, <3>1, <3>2
  <2> QED
    BY <2>1, <2>2
<1>7. ASSUME Collect PROVE Sooner
  <2>1. pc = "stream" /\ why # "final" /\ UNCHANGED <<turn, sends>> /\ why' \in {"stream", why}
    BY <1>7 DEF Collect
  <2>2. pc' \in {"settle", "recover", "stalled", "reply"} /\ (pc' = "recover" => why' = "stream")
    BY <1>7, CollectGoes DEF LoopInv
  <2>3. CASE pc' = "reply"
    <3>1. Stage = 5 /\ Stage' = 4
      BY <2>1, <2>3 DEF Stage
    <3> QED
      BY <1>d, <2>1, <3>1
  <2>4. CASE pc' # "reply"
    <3>1. Stage = 5 /\ Stage' = 5 /\ Place' < Place
      BY <2>1, <2>2, <2>4 DEF Stage, Place
    <3> QED
      BY <1>f, <2>1, <3>1
  <2> QED
    BY <2>3, <2>4
<1>8. ASSUME Settle PROVE Sooner
  <2>1. CASE Fail
    BY <1>8, <1>c, <2>1 DEF Settle, Fail, Return, LeaveTurn
  <2>2. CASE Goto("stalled")
    <3>1. pc = "settle" /\ pc' = "stalled" /\ UNCHANGED <<why, turn, sends>>
      BY <1>8, <2>2 DEF Settle, Goto
    <3>2. Stage' = Stage /\ Place' < Place
      BY <1>a, <3>1 DEF Stage, Place
    <3> QED
      BY <1>f, <3>1, <3>2
  <2> QED
    BY <1>8, <2>1, <2>2 DEF Settle
<1>9. ASSUME StallRetry PROVE Sooner
  <2>1. CASE Fail
    BY <1>9, <1>c, <2>1 DEF StallRetry, Fail, Return, LeaveTurn
  <2>2. CASE Request("stall")
    <3>1. pc = "stalled" /\ pc' = "connect" /\ why' = "stall" /\ turn' = turn /\ sends' = sends + 1
      BY <1>9, <2>2 DEF StallRetry, Request
    <3>2. Stage = 5 /\ Stage' = 5
      BY <1>a, <3>1 DEF Stage
    <3> QED
      BY <1>e, <3>1, <3>2
  <2> QED
    BY <1>9, <2>1, <2>2 DEF StallRetry
<1>10. ASSUME StallsOver PROVE Sooner
  <2>1. CASE Goto("reply")
    <3>1. pc = "stalled" /\ pc' = "reply" /\ UNCHANGED <<why, turn>>
      BY <1>10, <2>1 DEF StallsOver, Goto
    <3>2. Stage' < Stage
      BY <1>a, <3>1 DEF Stage
    <3> QED
      BY <1>d, <3>1, <3>2
  <2>2. CASE pc' = "recover" /\ why' = "last" /\ UNCHANGED <<turn, sends>>
    <3>1. pc = "stalled"
      BY <1>10 DEF StallsOver
    <3>2. Stage = 5 /\ Stage' = 5 /\ Place' < Place
      BY <1>a, <2>2, <3>1 DEF Stage, Place
    <3> QED
      BY <1>f, <2>2, <3>2
  <2> QED
    BY <1>10, <2>1, <2>2 DEF StallsOver
<1>11. ASSUME RecoveryDeclined PROVE Sooner
  <2>1. CASE Fail
    BY <1>11, <1>c, <2>1 DEF RecoveryDeclined, Fail, Return, LeaveTurn
  <2>2. CASE ~Fail
    <3>1. pc = "recover" /\ why = "stream" /\ pc' = "settle" /\ UNCHANGED <<why, turn, sends>>
      BY <1>11, <2>2 DEF RecoveryDeclined, Goto
    <3>2. Stage' = Stage /\ Place' < Place
      BY <3>1 DEF Stage, Place
    <3> QED
      BY <1>f, <3>1, <3>2
  <2> QED
    BY <2>1, <2>2
<1>12. ASSUME RecoverySucceeds PROVE Sooner
  <2>1. /\ pc = "recover" /\ pc' = "connect" /\ turn' = turn /\ sends' = sends + 1
        /\ why' \in {"reissue", "quiet", "last"}
    BY <1>12 DEF RecoverySucceeds, Request
  <2>2. Stage = 5 /\ Stage' = 5
    BY <1>a, <2>1 DEF Stage
  <2> QED
    BY <1>e, <2>1, <2>2
<1>13. ASSUME Answer PROVE Sooner
  <2>1. pc = "reply" /\ pc' = "finalize" /\ UNCHANGED <<why, turn>>
    BY <1>13 DEF Answer, Reply, Goto
  <2>2. Stage' < Stage
    BY <1>a, <2>1 DEF Stage
  <2> QED
    BY <1>d, <2>1, <2>2
<1>14. ASSUME ReplyWithCalls PROVE Sooner
  <2>1. pc = "reply" /\ pc' = "tools" /\ UNCHANGED <<why, turn>>
    BY <1>14 DEF ReplyWithCalls, Goto
  <2>2. Stage' < Stage
    BY <1>a, <2>1 DEF Stage
  <2> QED
    BY <1>d, <2>1, <2>2
<1>15. ASSUME ReadAhead PROVE Sooner
  <2>1. /\ pc = "tools" /\ next <= Len(Calls) /\ next > runEnd
        /\ runEnd' = next + Cardinality(ReadsFrom(next)) - 1 /\ Cardinality(ReadsFrom(next)) >= 2
        /\ UNCHANGED <<pc, why, turn, sends, next, collected>>
    BY <1>15 DEF ReadAhead, ReadAheadDue, controlVars
  <2>2. next \in Nat /\ runEnd \in Nat /\ IsSeq(Calls) /\ Len(Calls) \in Nat /\ Calls' = Calls
    BY <2>1, CallsAreSeq DEF LoopInv, BatchPlace, Calls
  <2>3. next <= runEnd'
    <3>1. Cardinality(ReadsFrom(next)) \in Int
      <4>1. \A e \in Int : e - next + 1 \in Int
        BY <2>2
      <4> QED
        BY <2>1, <2>2, <4>1, ReadsAreConsecutive
    <3> QED
      BY <2>1, <2>2, <3>1
  <2>4. Stage' = Stage /\ Place' = Place /\ SendsLeft' = SendsLeft /\ TurnsLeft' = TurnsLeft
    BY <2>1 DEF Stage, Place, SendsLeft, TurnsLeft
  <2>5. CallsLeft' < CallsLeft
    BY <2>1, <2>2, <2>3 DEF CallsLeft
  <2> QED
    BY <2>4, <2>5
<1>16. ASSUME RunCall PROVE Sooner
  <2>1. /\ pc = "tools" /\ next <= Len(Calls) /\ turn' = turn
        /\ \/ pc' = "done"
           \/ /\ pc' = "tools" /\ next' = next + 1 /\ runEnd' = runEnd
              /\ UNCHANGED <<why, sends, collected>>
    BY <1>16 DEF RunCall, Fail, Return, LeaveTurn, Goto
  <2>2. CASE pc' = "done"
    BY <1>c, <2>1, <2>2
  <2>3. CASE pc' # "done"
    <3>1. Stage' = Stage /\ Place' = Place /\ SendsLeft' = SendsLeft /\ TurnsLeft' = TurnsLeft
      BY <2>1, <2>3 DEF Stage, Place, SendsLeft, TurnsLeft
    <3>2. next \in Nat /\ runEnd \in Nat /\ Len(Calls) \in Nat /\ Calls' = Calls
      BY <2>1, <2>3, CallsAreSeq DEF LoopInv, BatchPlace, Calls
    <3>3. CallsLeft' < CallsLeft
      BY <2>1, <2>3, <3>2 DEF CallsLeft
    <3> QED
      BY <3>1, <3>3
  <2> QED
    BY <2>2, <2>3
<1>17. ASSUME AskFinalAnswer PROVE Sooner
  <2>1. pc = "top" /\ pc' = "connect" /\ why' = "final" /\ turn' = turn
    BY <1>17 DEF AskFinalAnswer, TurnsOver, Request
  <2>2. Stage = 2 /\ Stage' = 1
    BY <1>a, <2>1 DEF Stage
  <2> QED
    BY <1>d, <2>1, <2>2
<1> QED
  BY <1>1, <1>2, <1>3, <1>4, <1>5, <1>6, <1>7, <1>8, <1>9, <1>10, <1>11, <1>12, <1>13, <1>14,
     <1>15, <1>16, <1>17
     DEF Loop, EndsTurn

\* No run goes on for ever by retrying: every step of the loop leaves less to do in
\* a measure that never falls below zero, for any bounds and any batches, so that
\* reconnects, stall retries, recoveries, nudges and drains all run out.
THEOREM LoopTerminates == Spec => LoopEnds
<1> DEFINE v == <<compactionVars, controlVars, toolVars, result>>
<1>1. LoopInv => LeftIsNat
  BY NothingBelowZero
<1>2. LoopInv /\ LeftIsNat /\ LeftIsNat' /\ [Next]_vars => [LeavesLess(Left, Left')]_v
  <2>1. ASSUME LoopInv, LeftIsNat, LeftIsNat', Loop PROVE LeavesLess(Left, Left')
    BY <2>1, LoopLeavesLess
  <2>2. ASSUME Work \/ Cancel \/ UNCHANGED vars PROVE UNCHANGED v
    BY <2>2 DEF Work, Cancel, vars
  <2> QED
    BY <2>1, <2>2 DEF Next
<1> QED
  BY <1>1, <1>2, LoopInvariant, PTL DEF Spec, LoopEnds
-----------------------------------------------------------------------------
(* The operators of the conversation that the loop is mapped to.           *)

LEMMA SameMessages ==
  /\ TheConversation!UserNote = UserNote
  /\ TheConversation!SeedMessages = SeedMessages
  /\ \A c : TheConversation!AssistantTurn(c) = AssistantTurn(c)
  /\ \A i, b : TheConversation!ToolAnswer(i, b) = ToolAnswer(i, b)
  /\ \A b, s : TheConversation!Summary(b, s) = Summary(b, s)
  /\ \A m, c : TheConversation!AppendAborted(m, c) = AppendAborted(m, c)
  BY DEF TheConversation!UserNote, UserNote, TheConversation!SeedMessages, SeedMessages,
         TheConversation!AssistantTurn, AssistantTurn, TheConversation!ToolAnswer, ToolAnswer,
         TheConversation!Summary, Summary, TheConversation!AppendAborted, AppendAborted,
         TheConversation!AbortedAnswers, AbortedAnswers, TheConversation!Plain, Plain,
         TheConversation!Message, Message, TheConversation!NoState, NoState

LEMMA SameEstimate == \A m : TheConversation!EstimateTokens(m) = EstimateTokens(m)
  BY DEF TheConversation!EstimateTokens, EstimateTokens, TheConversation!BigBodies, BigBodies,
         TheConversation!IsBig, IsBig, TheConversation!Cardinality, Cardinality,
         TheConversation!IsFiniteSet, IsFiniteSet

LEMMA SameSize == \A m : TheConversation!Size(m) = Size(m)
  BY SameEstimate DEF TheConversation!Size, Size, TheConversation!Calibrated, Calibrated

LEMMA SamePrune == \A m : TheConversation!PruneStale(m) = PruneStale(m)
  BY DEF TheConversation!PruneStale, PruneStale, TheConversation!PruneCandidates, PruneCandidates,
         TheConversation!LaterOutput, LaterOutput, TheConversation!IsBig, IsBig,
         TheConversation!Cardinality, Cardinality, TheConversation!IsFiniteSet, IsFiniteSet

LEMMA SamePlan == \A m : TheConversation!LatestPlan(m) = LatestPlan(m)
  BY DEF TheConversation!LatestPlan, LatestPlan, TheConversation!PlanCall, PlanCall,
         TheConversation!SelectLastInSeq, SelectLastInSeq, TheConversation!Max, Max

LEMMA SameMerge == \A s, t : TheConversation!MergeRecentEdits(s, t) = MergeRecentEdits(s, t)
  BY DEF TheConversation!MergeRecentEdits, MergeRecentEdits, TheConversation!FoldLeft, FoldLeft,
         TheConversation!MapThenFoldSet, MapThenFoldSet, TheConversation!Max, Max,
         TheConversation!Touch, Touch

LEMMA SameCap == \A s : TheConversation!CapEdits(s) = CapEdits(s)
  BY DEF TheConversation!CapEdits, CapEdits

LEMMA SameRecent == \A m : TheConversation!RecentEdits(m) = RecentEdits(m)
  BY DEF TheConversation!RecentEdits, RecentEdits, TheConversation!CapEdits, CapEdits,
         TheConversation!FoldLeft, FoldLeft, TheConversation!EditedFiles, EditedFiles,
         TheConversation!FlattenSeq, FlattenSeq, TheConversation!MapThenFoldSet, MapThenFoldSet,
         TheConversation!Max, Max, TheConversation!Touch, Touch

LEMMA SameSkill == \A m : TheConversation!LoadedSkill(m) = LoadedSkill(m)
  BY DEF TheConversation!LoadedSkill, LoadedSkill, TheConversation!SkillCalls, SkillCalls,
         TheConversation!SelectLastInSeq, SelectLastInSeq, TheConversation!Max, Max

LEMMA SameLatest == \A m : TheConversation!LatestSummary(m) = LatestSummary(m)
  BY DEF TheConversation!LatestSummary, LatestSummary, TheConversation!NoState, NoState,
         TheConversation!SelectLastInSeq, SelectLastInSeq, TheConversation!Max, Max

LEMMA SamePreserved == \A m : TheConversation!PreservedState(m) = PreservedState(m)
  BY SamePlan, SameMerge, SameCap, SameRecent, SameSkill, SameLatest
  DEF TheConversation!PreservedState, PreservedState

LEMMA SameSystemEnd == \A m : TheConversation!SystemEnd(m) = SystemEnd(m)
  BY DEF TheConversation!SystemEnd, SystemEnd

LEMMA SameBoundary == \A m : TheConversation!Boundary(m) = Boundary(m)
  BY SameSystemEnd DEF TheConversation!Boundary, Boundary, TheConversation!SafeSuffixBoundary,
         SafeSuffixBoundary, TheConversation!NaiveBoundary, NaiveBoundary

LEMMA SameMiddle == \A m : TheConversation!Middle(m) = Middle(m)
  BY SameSystemEnd, SameBoundary DEF TheConversation!Middle, Middle

LEMMA SameCompact == \A m, b : TheConversation!Compact(m, b) = Compact(m, b)
  BY SameMessages, SameMiddle, SamePreserved, SameSystemEnd, SameBoundary
  DEF TheConversation!Compact, Compact

LEMMA SameInit == CompactionInit => TheConversation!CompactionInit
  BY SameMessages DEF TheConversation!CompactionInit, CompactionInit

LEMMA SameMaybe == MaybeCompact <=> TheConversation!MaybeCompact
  BY SameCompact, SameSize, SamePrune, SameMiddle
  DEF TheConversation!MaybeCompact, MaybeCompact, TheConversation!NothingToCompact,
      NothingToCompact, TheConversation!Prune, Prune, TheConversation!SummarizerFails,
      SummarizerFails, TheConversation!Summarize, Summarize, TheConversation!OverBudget,
      OverBudget, TheConversation!PruneSuffices, PruneSuffices, TheConversation!Pruned, Pruned,
      TheConversation!Adopt, Adopt, TheConversation!Enabled, Enabled, TheConversation!Sizes,
      Sizes, TheConversation!compactionVars, compactionVars

LEMMA SameRecovered == Recovered(TRUE) <=> TheConversation!Recovered(TRUE)
  BY SameCompact, SameSize, SameEstimate DEF TheConversation!Recovered, Recovered,
         TheConversation!Shrinks, Shrinks, TheConversation!Adopt, Adopt, TheConversation!Enabled,
         Enabled, TheConversation!Sizes, Sizes

LEMMA SameFails == RecoverFails(TRUE) <=> TheConversation!RecoverFails(TRUE)
  BY SameMiddle DEF TheConversation!RecoverFails, RecoverFails, TheConversation!Enabled, Enabled

-----------------------------------------------------------------------------
(* The loop keeps to the conversation.                                     *)

LEMMA TheNotes ==
  /\ {<<>>, <<UserNote>>, <<UserNote, UserNote>>} \subseteq TheConversation!Notes
  /\ \A notes \in TheConversation!Notes : AreNotes(notes)
<1> DEFINE run(n) == [k \in 1..n |-> UserNote]
<1>1. TheConversation!Notes = {run(n) : n \in 0..2}
  BY SameMessages DEF TheConversation!Notes
<1>2. run(0) = <<>> /\ run(1) = <<UserNote>> /\ run(2) = <<UserNote, UserNote>>
  OBVIOUS
<1>3. \A n \in 0..2 : AreNotes(run(n))
  BY UserNotesAreNotes
<1> HIDE DEF run
<1> QED
  BY <1>1, <1>2, <1>3

\* A history has some length after notes, whatever its length was.
LEMMA SomeLength ==
  ASSUME NEW m, IsSeq(m), NEW notes \in TheConversation!Notes
  PROVE  /\ Len(m \o notes) \in Nat
         /\ \A x : Len(Append(m, x) \o notes) \in Nat
<1>1. IsSeq(notes)
  BY TheNotes DEF AreNotes
<1>2. \A x : IsSeq(Append(m, x))
  BY AppendFacts
<1> QED
  BY <1>1, <1>2, ConcatFacts, SeqFacts

LEMMA PendingFacts ==
  ASSUME LoopInv
  PROVE  /\ IsSeq(Pending)
         /\ pc = "tools" /\ next <= Len(Calls) =>
              /\ Pending # <<>> /\ Head(Pending) = Calls[next] /\ Tail(Pending) = Rest
         /\ pc = "tools" /\ next > Len(Calls) => Pending = <<>>
         /\ pc # "tools" => Pending = <<>>
<1>1. IsSeq(Calls) /\ Len(Calls) \in Nat
  BY CallsAreSeq DEF LoopInv
<1>2. IsSeq(<<>>) /\ NoCalls = <<>>
  BY DEF IsSeq, NoCalls
<1>3. CASE pc = "tools"
  <2>1. next \in Nat \ {0} /\ next <= Len(Calls) + 1
    BY <1>3 DEF LoopInv, BatchPlace
  <2>2. PICK S : Calls \in Seq(S)
    BY <1>1 DEF IsSeq
  <2>3. Pending = SubSeq(Calls, next, Len(Calls))
    BY <1>3 DEF Pending
  <2> HIDE DEF Calls
  <2>4. IsSeq(Pending)
    BY <1>1, <2>1, <2>3, SubSeqFacts
  <2>5. ASSUME next <= Len(Calls)
        PROVE  /\ Pending # <<>> /\ Head(Pending) = Calls[next] /\ Tail(Pending) = Rest
    <3>1. SubSeq(Calls, next, Len(Calls)) # <<>>
      BY <1>1, <2>1, <2>2, <2>5
    <3>2. Head(SubSeq(Calls, next, Len(Calls))) = Calls[next]
      BY <1>1, <2>1, <2>2, <2>5
    <3>3. Tail(SubSeq(Calls, next, Len(Calls))) = SubSeq(Calls, next + 1, Len(Calls))
      BY <1>1, <2>1, <2>2, <2>5
    <3> QED
      BY <2>3, <3>1, <3>2, <3>3 DEF Rest
  <2>6. ASSUME next > Len(Calls) PROVE Pending = <<>>
    BY <1>1, <2>1, <2>2, <2>3, <2>6
  <2> QED
    BY <1>3, <2>4, <2>5, <2>6
<1>4. CASE pc # "tools"
  BY <1>2, <1>4 DEF Pending
<1> QED
  BY <1>3, <1>4

LEMMA IsNewTurn ==
  ASSUME IsSeq(messages), Pending = <<>>, Pending' = <<>>,
         turn < MaxTurns, turn' = turn + 1, UNCHANGED <<lowWater, ratio, reactive>>,
         NEW notes \in TheConversation!Notes, messages' = messages \o notes
  PROVE  TheConversation!NewTurn
  BY SomeLength DEF TheConversation!NewTurn, TheConversation!Settled, TheConversation!Extend,
                    TheConversation!NoCompaction

LEMMA IsRemind ==
  ASSUME IsSeq(messages), Pending = <<>>, Pending' = <<>>,
         UNCHANGED <<turn, lowWater, ratio, reactive>>,
         NEW notes \in TheConversation!Notes, messages' = messages \o notes
  PROVE  TheConversation!Remind
  BY SomeLength DEF TheConversation!Remind, TheConversation!Settled, TheConversation!Extend,
                    TheConversation!NoCompaction

LEMMA IsSpeak ==
  ASSUME IsSeq(messages), Pending = <<>>,
         UNCHANGED <<turn, lowWater, reactive>>, ratio' \in Ratios,
         NEW b \in Batches \cup {<<>>}, Pending' = CallsOf(b),
         NEW notes \in TheConversation!Notes, notes # <<>> => b = <<>>,
         messages' = Append(messages, AssistantTurn(CallsOf(b))) \o notes
  PROVE  TheConversation!Speak
<1>1. TheConversation!Numbered(b) = CallsOf(b)
  BY DEF TheConversation!Numbered, CallsOf
<1>2. Len(messages') \in Nat
  BY SomeLength
<1> QED
  BY <1>1, <1>2, SameMessages
  DEF TheConversation!Speak, TheConversation!Settled, TheConversation!Extend,
      TheConversation!NoCompaction

LEMMA IsAnswer ==
  ASSUME Pending # <<>>, UNCHANGED <<turn, lowWater, ratio, reactive>>, NEW body \in Bodies,
         \/ /\ messages' = Append(messages, ToolAnswer(Head(Pending).id, body))
            /\ Pending' = Tail(Pending)
         \/ /\ messages' = AppendAborted(Append(messages, ToolAnswer(Head(Pending).id, body)),
                                         Tail(Pending))
            /\ Pending' = <<>>
  PROVE  TheConversation!AnswerCall
  BY SameMessages DEF TheConversation!AnswerCall, TheConversation!Settled, TheConversation!NoCompaction

LEMMA IsRetract ==
  ASSUME Pending = <<>>, Pending' = <<>>, UNCHANGED <<turn, lowWater, ratio, reactive>>,
         Len(messages) > 2, messages[Len(messages)] = UserNote,
         messages' = SubSeq(messages, 1, Len(messages) - 1)
  PROVE  TheConversation!Retract
<1>1. Len(SeedMessages) = 2
  BY DEF SeedMessages
<1> QED
  BY <1>1, SameMessages DEF TheConversation!Retract, TheConversation!Settled, TheConversation!NoCompaction

LEMMA IsShorten ==
  ASSUME Pending = <<>>, Pending' = <<>>, UNCHANGED turn,
         MaybeCompact \/ RecoverFails(TRUE) \/ Recovered(TRUE)
  PROVE  TheConversation!Shorten
  BY SameMaybe, SameFails, SameRecovered DEF TheConversation!Shorten, TheConversation!Settled

\* The prompt for a final answer stands last until the answer or its retraction.
PromptStands ==
  why = "final" => Len(messages) > 2 /\ messages[Len(messages)] = UserNote

HistoryInv ==
  /\ Whole(messages, Pending)
  /\ PromptStands
  /\ ratio \in Ratios

\* A text added to a history is still followed by what is added next.
LEMMA NotesAtTheEnd ==
  ASSUME NEW m, IsHistory(m)
  PROVE  /\ m \o <<>> = m
         /\ Append(m, UserNote) = m \o <<UserNote>>
         /\ Append(m, UserNote)[Len(Append(m, UserNote))] = UserNote
         /\ Len(Append(m, UserNote)) > 2
         /\ LET n == m \o <<UserNote, UserNote>>
            IN n[Len(n)] = UserNote /\ Len(n) > 2
<1>1. Len(m) \in Nat /\ Len(m) >= 2
  BY SeqFacts DEF IsHistory
<1>2. PICK S : m \in Seq(S)
  BY DEF IsHistory, IsSeq
<1>3. m \o <<>> = m /\ Append(m, UserNote) = m \o <<UserNote>>
  BY <1>2
<1>4. Len(Append(m, UserNote)) = Len(m) + 1 /\ Append(m, UserNote)[Len(m) + 1] = UserNote
  BY AppendFacts DEF IsHistory
<1>5. LET n == m \o <<UserNote, UserNote>>
      IN Len(n) = Len(m) + 2 /\ n[Len(m) + 2] = UserNote
  <2> DEFINE t == <<UserNote, UserNote>>
  <2>1. t \in Seq({UserNote}) /\ Len(t) = 2 /\ t[2] = UserNote
    OBVIOUS
  <2> HIDE DEF t
  <2>2. IsSeq(t) /\ IsSeq(m)
    BY <2>1 DEF IsSeq, IsHistory
  <2>3. /\ Len(m \o t) = Len(m) + Len(t)
        /\ \A i \in 1..Len(t) : (m \o t)[Len(m) + i] = t[i]
    BY <2>2, ConcatFacts
  <2>4. Len(m \o t) = Len(m) + 2 /\ (m \o t)[Len(m) + 2] = UserNote
    <3>1. 2 \in 1..Len(t)
      BY <2>1
    <3> QED
      BY <2>1, <2>3, <3>1
  <2> QED
    BY <2>4 DEF t
<1> QED
  BY <1>1, <1>3, <1>4, <1>5

LEMMA NextPromptStands ==
  ASSUME LoopInv, HistoryInv, [Next]_vars
  PROVE  PromptStands'
<1> USE DEF Fail, Return, LeaveTurn, Goto, Request, NextTurn, Answering, controlVars, compactionVars
<1>0. Purposes
  BY DEF LoopInv
<1>1. ASSUME EndsTurn PROVE PromptStands'
  BY <1>1, TurnEnds DEF TurnOver, PromptStands
<1>2. ASSUME BeginTurn PROVE PromptStands'
  BY <1>2, <1>0 DEF BeginTurn, Purposes, HistoryInv, PromptStands
<1>3. ASSUME CompactHistory PROVE PromptStands'
  BY <1>3, <1>0 DEF CompactHistory, Purposes, HistoryInv, PromptStands
<1>4. ASSUME Connect PROVE PromptStands'
  BY <1>4, <1>0 DEF Connect, Purposes, HistoryInv, PromptStands
<1>5. ASSUME Reconnect PROVE PromptStands'
  BY <1>5, <1>0 DEF Reconnect, Purposes, HistoryInv, PromptStands
<1>6. ASSUME ConnectFails PROVE PromptStands'
  BY <1>6, <1>0 DEF ConnectFails, Purposes, HistoryInv, PromptStands
<1>7. ASSUME Collect PROVE PromptStands'
  BY <1>7 DEF Collect, PromptStands
<1>8. ASSUME Settle PROVE PromptStands'
  BY <1>8, <1>0 DEF Settle, Purposes, HistoryInv, PromptStands
<1>9. ASSUME StallRetry PROVE PromptStands'
  BY <1>9, <1>0 DEF StallRetry, Purposes, HistoryInv, PromptStands
<1>10. ASSUME StallsOver PROVE PromptStands'
  BY <1>10, <1>0 DEF StallsOver, Purposes, HistoryInv, PromptStands
<1>11. ASSUME RecoveryDeclined PROVE PromptStands'
  BY <1>11, <1>0 DEF RecoveryDeclined, Purposes, HistoryInv, PromptStands
<1>12. ASSUME RecoverySucceeds PROVE PromptStands'
  BY <1>12, <1>0 DEF RecoverySucceeds, Purposes, HistoryInv, PromptStands
<1>13. ASSUME Answer PROVE PromptStands'
  BY <1>13, <1>0 DEF Answer, Reply, Purposes, HistoryInv, PromptStands
<1>14. ASSUME ReplyWithCalls PROVE PromptStands'
  BY <1>14, <1>0 DEF ReplyWithCalls, Purposes, HistoryInv, PromptStands
<1>15. ASSUME ReadAhead PROVE PromptStands'
  BY <1>15, <1>0 DEF ReadAhead, Purposes, HistoryInv, PromptStands
<1>16. ASSUME RunCall PROVE PromptStands'
  BY <1>16, <1>0 DEF RunCall, Purposes, PromptStands
<1>17. ASSUME AskFinalAnswer PROVE PromptStands'
  <2>1. messages' \in {Append(messages, UserNote), messages \o <<UserNote, UserNote>>}
    BY <1>17 DEF AskFinalAnswer, Note
  <2> QED
    BY <2>1, NotesAtTheEnd DEF HistoryInv, Whole, PromptStands
<1>18. ASSUME Work PROVE PromptStands'
  BY <1>18, <1>0 DEF Work, Purposes, HistoryInv, PromptStands
<1>19. ASSUME Cancel PROVE PromptStands'
  BY <1>19, <1>0 DEF Cancel, Purposes, HistoryInv, PromptStands
<1>20. CASE UNCHANGED vars
  BY <1>20 DEF vars, HistoryInv, PromptStands
<1> QED
  BY <1>1, <1>2, <1>3, <1>4, <1>5, <1>6, <1>7, <1>8, <1>9, <1>10, <1>11, <1>12, <1>13, <1>14,
     <1>15, <1>16, <1>17, <1>18, <1>19, <1>20
     DEF Next, Loop, EndsTurn

\* Every step of the loop is a step of the conversation, or leaves it as it is.
LEMMA LoopKeepsConversation ==
  ASSUME LoopInv, HistoryInv, [Next]_vars
  PROVE  [TheConversation!ConversationNext]_(TheConversation!conversationVars)
<1> DEFINE Kept == [TheConversation!ConversationNext]_(TheConversation!conversationVars)
<1> USE DEF Fail, Return, LeaveTurn, Goto, Request, NextTurn, Answering, controlVars, OnlyMessages,
            compactionVars, Note
<1>1. /\ IsHistory(messages) /\ IsSeq(messages) /\ ratio \in Ratios /\ Purposes /\ LoopTypes
  BY DEF LoopInv, HistoryInv, Whole, IsHistory
<1>2. /\ messages \o <<>> = messages /\ Append(messages, UserNote) = messages \o <<UserNote>>
      /\ \A x : Append(messages, x) \o <<>> = Append(messages, x)
  <2>1. \A x : \E S : Append(messages, x) \in Seq(S)
    BY <1>1, AppendFacts DEF IsSeq
  <2>2. \A x : Append(messages, x) \o <<>> = Append(messages, x)
    BY <2>1
  <2> QED
    BY <1>1, <2>2, NotesAtTheEnd
<1>3. NoCalls = <<>> /\ CallsOf(<<>>) = <<>>
  BY NoCallsOf DEF NoCalls
<1>4. /\ pc # "tools" => Pending = <<>>
      /\ pc' # "tools" => Pending' = <<>>
  BY <1>3 DEF Pending
<1>5. ASSUME UNCHANGED <<compactionVars, turn>>, Pending' = Pending PROVE Kept
  BY <1>5 DEF TheConversation!conversationVars, TheConversation!compactionVars
<1>6. ASSUME Connect \/ ConnectFails \/ Settle \/ StallRetry \/ StallsOver \/ RecoveryDeclined
      PROVE  Kept
  <2>1. UNCHANGED <<compactionVars, turn>> /\ pc # "tools" /\ pc' # "tools"
    BY <1>6 DEF Connect, ConnectFails, Settle, StallRetry, StallsOver, RecoveryDeclined,
                RecoverDeclined
  <2> QED
    BY <1>4, <1>5, <2>1
<1>7. ASSUME Collect \/ LastErrorStays \/ CancelledAtCeiling PROVE Kept
  <2>1. UNCHANGED <<compactionVars, turn>> /\ pc # "tools" /\ pc' # "tools"
    BY <1>1, <1>7, CollectGoes DEF Collect, LastErrorStays, CancelledAtCeiling, TurnsOver
  <2> QED
    BY <1>4, <1>5, <2>1
<1>8. ASSUME Reconnect \/ ReadAhead \/ Work \/ Cancel \/ UNCHANGED vars PROVE Kept
  <2>1. UNCHANGED <<compactionVars, turn, pc, collected, next>>
    BY <1>8 DEF Reconnect, ReadAhead, Work, Cancel, vars, toolVars
  <2>2. Pending' = Pending
    BY <2>1 DEF Pending, Calls
  <2> QED
    BY <1>5, <2>1, <2>2
<1>9. ASSUME BeginTurn PROVE Kept
  <2>1. /\ pc = "top" /\ pc' = "compact" /\ turn < MaxTurns /\ turn' = turn + 1
        /\ UNCHANGED <<lowWater, ratio, reactive>>
        /\ messages' \in {messages, Append(messages, UserNote)}
    BY <1>9 DEF BeginTurn
  <2>2. PICK notes \in {<<>>, <<UserNote>>} : messages' = messages \o notes
    BY <1>2, <2>1
  <2>3. TheConversation!NewTurn
    BY <1>1, <1>4, <2>1, <2>2, TheNotes, IsNewTurn
  <2> QED
    BY <2>3 DEF TheConversation!ConversationNext
<1>10. ASSUME CompactHistory \/ RecoveryFails \/ RecoverySucceeds PROVE Kept
  <2>1. pc # "tools" /\ pc' # "tools" /\ turn' = turn
    BY <1>10 DEF CompactHistory, RecoveryFails, RecoverySucceeds
  <2>2. MaybeCompact \/ RecoverFails(TRUE) \/ Recovered(TRUE)
    BY <1>10 DEF CompactHistory, RecoveryFails, RecoverySucceeds, RecoverFails, Recovered
  <2>3. TheConversation!Shorten
    BY <1>4, <2>1, <2>2, IsShorten
  <2> QED
    BY <2>3 DEF TheConversation!ConversationNext
<1>11. ASSUME NEW more \in {<<>>, <<UserNote>>}, Reply(more), Calls = NoCalls,
              pc' # "tools", turn' = turn
       PROVE  Kept
  <2>1. /\ pc = "reply" /\ UNCHANGED <<lowWater, reactive>> /\ ratio' \in Ratios
        /\ messages' = Append(messages, AssistantTurn(CallsOf(<<>>))) \o more
    BY <1>1, <1>3, <1>11 DEF Reply, Calibrate
  <2>2. TheConversation!Speak
    BY <1>1, <1>3, <1>4, <1>11, <2>1, TheNotes, IsSpeak
  <2> QED
    BY <2>2 DEF TheConversation!ConversationNext
<1>12. ASSUME \/ ReplyDropped \/ ReplyEmpty \/ AnswerAdmits \/ AnswerNudged \/ AnswerMidStep
              \/ AskAcceptance \/ Answer
       PROVE  Kept
  <2>1. \E more \in {<<>>, <<UserNote>>} : Reply(more)
    BY <1>12 DEF ReplyDropped, ReplyEmpty, AnswerAdmits, AnswerNudged, AnswerMidStep,
                 AskAcceptance, Answer
  <2>2. Calls = NoCalls /\ pc' # "tools" /\ turn' = turn
    BY <1>12 DEF ReplyDropped, ReplyEmpty, AnswerAdmits, AnswerNudged, AnswerMidStep,
                 AskAcceptance, Answer, NoCallReply
  <2> QED
    BY <1>11, <2>1, <2>2
<1>13. ASSUME FinalAnswer PROVE Kept
  <2>1. /\ pc = "stream" /\ pc' = "done" /\ UNCHANGED <<turn, lowWater, ratio, reactive>>
        /\ messages' = Append(messages, AssistantTurn(CallsOf(<<>>)))
    BY <1>3, <1>13 DEF FinalAnswer
  <2>2. TheConversation!Speak
    BY <1>1, <1>2, <1>3, <1>4, <2>1, TheNotes, IsSpeak
  <2> QED
    BY <2>2 DEF TheConversation!ConversationNext
<1>14. ASSUME ReplyWithCalls PROVE Kept
  <2>1. /\ pc = "reply" /\ UNCHANGED <<turn, lowWater, reactive>> /\ ratio' \in Ratios
        /\ messages' = Append(messages, AssistantTurn(Calls))
        /\ pc' = "tools" /\ next' = 1 /\ collected' = collected
    BY <1>1, <1>14 DEF ReplyWithCalls, Calibrate
  <2>2. PICK b \in Batches \cup {<<>>} : Calls = CallsOf(b)
    BY DEF LoopInv, Streamed, IsStream, Calls
  <2>3. Pending' = Calls
    <3>1. Pending' = SubSeq(Calls, 1, Len(Calls))
      BY <2>1 DEF Pending, Calls
    <3>2. PICK S : Calls \in Seq(S)
      BY CallsAreSeq DEF LoopInv, IsSeq
    <3> HIDE DEF Calls
    <3> QED
      BY <3>1, <3>2
  <2>4. messages' = Append(messages, AssistantTurn(CallsOf(b))) \o <<>>
    BY <1>2, <2>1, <2>2
  <2>5. TheConversation!Speak
    BY <1>1, <1>4, <2>1, <2>2, <2>3, <2>4, TheNotes, IsSpeak
  <2> QED
    BY <2>5 DEF TheConversation!ConversationNext
<1>15. ASSUME NEW notes \in {<<>>, <<UserNote>>, <<UserNote, UserNote>>},
              messages' = messages \o notes, UNCHANGED <<turn, lowWater, ratio, reactive>>,
              Pending = <<>>, pc' # "tools"
       PROVE  Kept
  <2>1. TheConversation!Remind
    BY <1>1, <1>4, <1>15, TheNotes, IsRemind
  <2> QED
    BY <2>1 DEF TheConversation!ConversationNext
<1>16. ASSUME Finalize \/ EndBatch \/ AskFinalAnswer PROVE Kept
  <2>1. /\ UNCHANGED <<turn, lowWater, ratio, reactive>> /\ pc' # "tools"
        /\ messages' \in {messages, Append(messages, UserNote), messages \o <<UserNote, UserNote>>}
    BY <1>16 DEF Finalize, EndBatch, AskFinalAnswer
  <2>2. Pending = <<>>
    <3>1. pc # "tools" \/ (pc = "tools" /\ next > Len(Calls))
      BY <1>16 DEF Finalize, EndBatch, AskFinalAnswer, TurnsOver
    <3> QED
      BY <3>1, PendingFacts
  <2>3. \E notes \in {<<>>, <<UserNote>>, <<UserNote, UserNote>>} : messages' = messages \o notes
    BY <1>2, <2>1
  <2> QED
    BY <1>15, <2>1, <2>2, <2>3
<1>17. ASSUME RunCall PROVE Kept
  <2>1. /\ pc = "tools" /\ next <= Len(Calls) /\ UNCHANGED <<turn, lowWater, ratio, reactive>>
    BY <1>17 DEF RunCall
  <2>2. PICK body \in Bodies :
          LET answered == Append(messages, ToolAnswer(Calls[next].id, body))
          IN \/ /\ messages' = answered
                /\ pc' = "tools" /\ next' = next + 1 /\ collected' = collected
             \/ messages' = AnswerRest(answered) /\ pc' = "done"
    BY <1>17 DEF RunCall
  <2>3. Pending # <<>> /\ Head(Pending) = Calls[next] /\ Tail(Pending) = Rest
    BY <2>1, PendingFacts
  <2> DEFINE answered == Append(messages, ToolAnswer(Head(Pending).id, body))
  <2>4. CASE messages' = answered /\ pc' = "tools" /\ next' = next + 1 /\ collected' = collected
    <3>1. Pending' = Rest
      BY <2>4 DEF Pending, Rest, Calls
    <3>2. TheConversation!AnswerCall
      BY <2>1, <2>3, <2>4, <3>1, IsAnswer
    <3> QED
      BY <3>2 DEF TheConversation!ConversationNext
  <2>5. CASE messages' = AnswerRest(answered) /\ pc' = "done"
    <3>1. messages' = AppendAborted(answered, Tail(Pending)) /\ Pending' = <<>>
      BY <1>4, <2>3, <2>5 DEF AnswerRest
    <3>2. TheConversation!AnswerCall
      BY <2>1, <2>3, <3>1, IsAnswer
    <3> QED
      BY <3>2 DEF TheConversation!ConversationNext
  <2> QED
    BY <2>2, <2>3, <2>4, <2>5
<1>18. ASSUME NoFinalAnswer PROVE Kept
  <2>1. /\ pc \in {"connect", "stream"} /\ why = "final" /\ pc' = "done"
        /\ UNCHANGED <<turn, lowWater, ratio, reactive>>
        /\ messages' = SubSeq(messages, 1, Len(messages) - 1)
    BY <1>18 DEF NoFinalAnswer
  <2>2. Len(messages) > 2 /\ messages[Len(messages)] = UserNote
    BY <2>1 DEF HistoryInv, PromptStands
  <2>3. TheConversation!Retract
    BY <1>4, <2>1, <2>2, IsRetract
  <2> QED
    BY <2>3 DEF TheConversation!ConversationNext
<1> QED
  <2> HIDE DEF Kept
  <2>1. Kept
    BY <1>6, <1>7, <1>8, <1>9, <1>10, <1>12, <1>13, <1>14, <1>16, <1>17, <1>18 DEF Next, Loop
  <2> QED
    BY <2>1 DEF Kept

\* What a step of the conversation does to the history.
LEMMA StepsLead ==
  /\ TheConversation!NewTurn \/ TheConversation!Remind =>
       Pending = <<>> /\ Pending' = <<>> /\ Reminded(messages, messages')
  /\ TheConversation!Speak => Pending = <<>> /\ Spoken(messages, messages', Pending')
  /\ TheConversation!AnswerCall =>
       Pending # <<>> /\ AnsweredOne(messages, Pending, messages', Pending')
  /\ TheConversation!Retract =>
       Pending = <<>> /\ Pending' = <<>> /\ Retracted(messages, messages')
  /\ TheConversation!Shorten =>
       Pending = <<>> /\ Pending' = <<>> /\ Shortened(messages, messages')
  /\ UNCHANGED TheConversation!conversationVars => messages' = messages /\ Pending' = Pending
<1> USE SameMessages DEF TheConversation!Settled
<1>1. TheConversation!NewTurn \/ TheConversation!Remind =>
        Pending = <<>> /\ Pending' = <<>> /\ Reminded(messages, messages')
  BY TheNotes DEF TheConversation!NewTurn, TheConversation!Remind, TheConversation!Extend, Reminded
<1>2. TheConversation!Speak => Pending = <<>> /\ Spoken(messages, messages', Pending')
  <2>1. \A b \in Batches \cup {<<>>} : /\ TheConversation!Numbered(b) = CallsOf(b)
                                       /\ IsSeq(CallsOf(b))
                                       /\ b = <<>> => CallsOf(b) = <<>>
    BY CallsFacts, NoCallsOf DEF TheConversation!Numbered, CallsOf, NoCalls
  <2> QED
    BY <2>1, TheNotes DEF TheConversation!Speak, TheConversation!Extend, Spoken
<1>3. TheConversation!AnswerCall =>
        Pending # <<>> /\ AnsweredOne(messages, Pending, messages', Pending')
  BY DEF TheConversation!AnswerCall, AnsweredOne
<1>4. TheConversation!Retract =>
        Pending = <<>> /\ Pending' = <<>> /\ Retracted(messages, messages')
  <2>1. Len(SeedMessages) = 2
    BY DEF SeedMessages
  <2> QED
    BY <2>1 DEF TheConversation!Retract, Retracted
<1>5. TheConversation!Shorten =>
        Pending = <<>> /\ Pending' = <<>> /\ Shortened(messages, messages')
  BY SamePrune, SameCompact
  DEF TheConversation!Shorten, TheConversation!MaybeCompact, TheConversation!NothingToCompact,
      TheConversation!Prune, TheConversation!SummarizerFails, TheConversation!Summarize,
      TheConversation!RecoverFails, TheConversation!Recovered, TheConversation!Adopt,
      TheConversation!Pruned, TheConversation!compactionVars, Shortened
<1>6. UNCHANGED TheConversation!conversationVars => messages' = messages /\ Pending' = Pending
  BY DEF TheConversation!conversationVars, TheConversation!compactionVars
<1> QED
  BY <1>1, <1>2, <1>3, <1>4, <1>5, <1>6

\* A step of the conversation is one of those that keep a history whole.
LEMMA KeepingLeads ==
  ASSUME [TheConversation!ConversationNext]_(TheConversation!conversationVars)
  PROVE  Leads(messages, Pending, messages', Pending')
  BY StepsLead DEF TheConversation!ConversationNext, Leads

LEMMA NextHistoryInv == LoopInv /\ HistoryInv /\ [Next]_vars => HistoryInv'
<1> SUFFICES ASSUME LoopInv, HistoryInv, [Next]_vars PROVE HistoryInv'
  OBVIOUS
<1>1. Whole(messages', Pending')
  BY LoopKeepsConversation, KeepingLeads, LeadsKeepsWhole DEF HistoryInv
<1>2. ratio' \in Ratios
  <2>1. [TheConversation!ConversationNext]_(TheConversation!conversationVars)
    BY LoopKeepsConversation
  <2>2. ratio' \in Ratios \/ ratio' = ratio
    BY <2>1
    DEF TheConversation!ConversationNext, TheConversation!NewTurn, TheConversation!Remind,
        TheConversation!Speak, TheConversation!AnswerCall, TheConversation!Retract,
        TheConversation!NoCompaction,
        TheConversation!Shorten, TheConversation!MaybeCompact, TheConversation!NothingToCompact,
        TheConversation!Prune, TheConversation!SummarizerFails, TheConversation!Summarize,
        TheConversation!RecoverFails, TheConversation!Recovered,
        TheConversation!conversationVars, TheConversation!compactionVars
  <2> QED
    BY <2>2 DEF HistoryInv
<1> QED
  BY <1>1, <1>2, NextPromptStands DEF HistoryInv

LEMMA InitHistoryInv == Init => HistoryInv /\ TheConversation!ConversationInit
<1> SUFFICES ASSUME Init PROVE HistoryInv /\ TheConversation!ConversationInit
  OBVIOUS
<1>1. /\ messages = SeedMessages /\ ratio \in Ratios /\ why = "turn" /\ turn = 0
      /\ CompactionInit
  BY CompactionAssumption DEF Init, CompactionInit
<1>2. Pending = <<>>
  BY DEF Init, Pending, NoCalls
<1> QED
  BY <1>1, <1>2, SeedIsWhole, SameInit
  DEF HistoryInv, PromptStands, TheConversation!ConversationInit

\* Whatever happens in a run keeps to Conversation: only notes, turns and answers
\* are added, every call is answered before anything else is said, and the history
\* is only shortened between turns (Run, appendAbortedToolResults, loop.go).
THEOREM LoopKeepsToConversation == Spec => KeepsConversation
<1>1. Init => TheConversation!ConversationInit
  BY InitHistoryInv
<1>2. LoopInv /\ HistoryInv /\ [Next]_vars =>
        [TheConversation!ConversationNext]_(TheConversation!conversationVars)
  BY LoopKeepsConversation
<1> QED
  BY <1>1, <1>2, InitHistoryInv, NextHistoryInv, InitLoopInv, NextLoopInv, PTL
  DEF Spec, KeepsConversation, TheConversation!ConversationSpec

\* So every request of a run, whatever was retried, aborted, pruned or summarized
\* before it, carries a history in which each tool call is answered right after
\* the message that made it (Run and appendAbortedToolResults, loop.go).
THEOREM RunIsReplayable == Spec => []Paired(AppendAborted(messages, Pending))
<1>1. HistoryInv => Paired(AppendAborted(messages, Pending))
  BY DEF HistoryInv, Whole
<1> QED
  BY <1>1, InitHistoryInv, NextHistoryInv, InitLoopInv, NextLoopInv, PTL DEF Spec

\* And no retry, recovery or compaction of a run rewrites the last PreserveLast
\* messages or the system prompt, or lets the history grow (maybeCompact and
\* recover in compaction.go, called from Run).
THEOREM RunKeepsRecent == Spec => [][Rewritten => Trimmed(messages, messages')]_vars
<1>1. ASSUME LoopInv, HistoryInv, [Next]_vars, Rewritten PROVE Trimmed(messages, messages')
  <2>1. [TheConversation!ConversationNext]_(TheConversation!conversationVars)
    BY <1>1, LoopKeepsConversation
  <2>2. Whole(messages, Pending) /\ ratio \in Nat
    BY <1>1, CompactionAssumption DEF HistoryInv
  <2>3. messages' # messages
    BY <1>1, <2>2, PrefixOfItself DEF Rewritten, Whole, IsHistory
  <2>4. CASE TheConversation!Shorten
    <3>1. MaybeCompact \/ RecoverFails(TRUE) \/ Recovered(TRUE)
      BY <2>4, SameMaybe, SameFails, SameRecovered DEF TheConversation!Shorten
    <3>2. Whole(messages, <<>>)
      BY <2>2, <2>4, StepsLead
    <3> QED
      BY <2>2, <2>3, <3>1, <3>2, ShortenTrims
  <2>5. CASE ~TheConversation!Shorten
    <3>1. IsPrefix(messages, messages') \/ IsPrefix(messages', messages)
      BY <2>1, <2>2, <2>5, StepsLead, OthersExtend DEF TheConversation!ConversationNext
    <3> QED
      BY <1>1, <3>1 DEF Rewritten
  <2> QED
    BY <2>4, <2>5
<1>2. LoopInv /\ HistoryInv /\ [Next]_vars => [Rewritten => Trimmed(messages, messages')]_vars
  BY <1>1
<1> QED
  BY <1>2, InitHistoryInv, NextHistoryInv, InitLoopInv, NextLoopInv, PTL DEF Spec

\* What is owed in a run was named by its turn.
LEMMA PendingIsNamed == LoopInv => Named(Pending)
<1> SUFFICES ASSUME LoopInv PROVE Named(Pending)
  OBVIOUS
<1>1. CASE pc = "tools"
  <2>1. PICK b \in Batches \cup {<<>>} : Calls = CallsOf(b)
    BY DEF LoopInv, Streamed, IsStream, Calls
  <2>2. \A k \in DOMAIN b : k \in Nat
    <3>1. \A a \in Batches : DOMAIN a \subseteq Nat
      BY AgentAssumption
    <3>2. DOMAIN <<>> = {}
      OBVIOUS
    <3> QED
      BY <3>1, <3>2
  <2>3. \A k \in DOMAIN Calls : Calls[k].id \in Nat \X Nat
    BY <2>1, <2>2, AgentAssumption DEF CallsOf, LoopInv, LoopTypes
  <2>4. IsSeq(Calls) /\ Len(Calls) \in Nat /\ next \in Nat \ {0} /\ next <= Len(Calls) + 1
    BY <1>1, CallsAreSeq DEF LoopInv, BatchPlace
  <2>5. DOMAIN Calls = 1..Len(Calls)
    BY <2>4, SeqFacts
  <2> HIDE DEF Calls
  <2>6. /\ IsSeq(Pending) /\ Len(Pending) = Len(Calls) - next + 1
        /\ \A k \in 1..(Len(Calls) - next + 1) : Pending[k] = Calls[next + k - 1]
    BY <1>1, <2>4, SubSeqFacts DEF Pending
  <2>7. \A k \in DOMAIN Pending : Pending[k].id \in Nat \X Nat
    <3> TAKE k \in DOMAIN Pending
    <3>1. k \in 1..(Len(Calls) - next + 1) /\ next + k - 1 \in DOMAIN Calls
      BY <2>4, <2>5, <2>6, SeqFacts
    <3> QED
      BY <2>3, <2>6, <3>1
  <2> QED
    BY <2>7, PairsAreNames
<1>2. CASE pc # "tools"
  BY <1>2, NoCallsNamed DEF Pending, NoCalls
<1> QED
  BY <1>1, <1>2

\* No retry, recovery or compaction of a run makes the model forget its plan
\* (maybeCompact and recover in compaction.go, called from Run).
THEOREM RunKeepsPlan ==
  Spec => [][Rewritten => Recall(messages')[1] = Recall(messages)[1]]_vars
<1> DEFINE Inv == LoopInv /\ HistoryInv /\ SummaryIsSecond(messages)
<1>1. Init => Inv
  BY InitLoopInv, InitHistoryInv, SeedHasNoSummary DEF Init, CompactionInit
<1>2. LoopInv' => Named(Pending)'
  BY PendingIsNamed, PTL
<1>3. Inv /\ [Next]_vars => Inv'
  <2> SUFFICES ASSUME Inv, [Next]_vars PROVE Inv'
    OBVIOUS
  <2>1. LoopInv' /\ HistoryInv'
    BY NextLoopInv, NextHistoryInv
  <2>2. Named(Pending')
    BY <1>2, <2>1 DEF Named
  <2>3. Leads(messages, Pending, messages', Pending')
    BY LoopKeepsConversation, KeepingLeads
  <2>4. SummaryIsSecond(messages')
    BY <2>1, <2>2, <2>3, LeadsKeepsSecond DEF HistoryInv
  <2> QED
    BY <2>1, <2>4
<1>4. ASSUME Inv, [Next]_vars, Rewritten PROVE Recall(messages')[1] = Recall(messages)[1]
  <2>1. [TheConversation!ConversationNext]_(TheConversation!conversationVars)
    BY <1>4, LoopKeepsConversation
  <2>2. Whole(messages, Pending)
    BY <1>4 DEF HistoryInv
  <2>3. CASE TheConversation!Shorten
    <3>1. Pending = <<>> /\ Shortened(messages, messages')
      BY <2>3, StepsLead
    <3> QED
      BY <1>4, <2>2, <3>1, NoneOwedIsWhole, ShortenKeepsPlan
  <2>4. CASE ~TheConversation!Shorten
    <3>1. IsPrefix(messages, messages') \/ IsPrefix(messages', messages)
      BY <2>1, <2>2, <2>4, StepsLead, OthersExtend DEF TheConversation!ConversationNext
    <3> QED
      BY <1>4, <3>1 DEF Rewritten
  <2> QED
    BY <2>3, <2>4
<1>5. Inv /\ [Next]_vars => [Rewritten => Recall(messages')[1] = Recall(messages)[1]]_vars
  BY <1>4
<1> QED
  BY <1>1, <1>3, <1>5, PTL DEF Spec

=============================================================================
