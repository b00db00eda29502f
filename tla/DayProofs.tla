----------------------------- MODULE DayProofs -----------------------------
(***************************************************************************)
(* The owner's day, for any queue, any things and days, and any bounds.    *)
(*                                                                         *)
(* The focus session: type correctness, that two windows advance it once,  *)
(* and that it credits no second twice.  The day plan: that a day says one *)
(* thing about a piece of work, that work rolled forward arrives, and that *)
(* the first opening of a day takes over what was left of the one before,  *)
(* and that what a finished day says stands.                               *)
(* The edits of tasks: that a task's record is its first missed deadline,  *)
(* and that no finished parent stays open.                                 *)
(***************************************************************************)
EXTENDS FocusClock, DayPlan, Tasks, WellFoundedInduction, FiniteSetTheorems, TLAPS

-----------------------------------------------------------------------------
(* Numbers.                                                                  *)

\* A set of numbers has a least one.
LEMMA SomeLeast ==
    ASSUME NEW S \in SUBSET Nat, S # {}
    PROVE  \E x \in S : \A y \in S : x <= y
<1> DEFINE R == OpToRel(<, Nat)
<1>1. PICK x \in S : \A y \in S : ~ (<<y, x>> \in R)
  <2> HIDE DEF R
  <2>1. IsWellFoundedOn(R, Nat)
    BY NatLessThanWellFounded DEF R
  <2> QED
    BY <2>1, WFMin
<1>2. \A y \in S : x <= y
  <2> SUFFICES ASSUME NEW y \in S PROVE x <= y
    OBVIOUS
  <2>1. y < x => <<y, x>> \in R
    BY DEF OpToRel
  <2>2. x \in Nat /\ y \in Nat /\ ~ (<<y, x>> \in R)
    BY <1>1
  <2> HIDE DEF R
  <2> QED
    BY <2>1, <2>2
<1> QED
  BY <1>2

LEMMA SomeGreatest ==
    ASSUME NEW N \in Nat, NEW S \in SUBSET (1..N), S # {}
    PROVE  \E x \in S : \A y \in S : y <= x
<1> DEFINE T == {N - y : y \in S}
<1>1. T \in SUBSET Nat /\ T # {}
  <2>1. \A y \in S : N - y \in Nat
    OBVIOUS
  <2> QED BY <2>1
<1> HIDE DEF T
<1>2. PICK t \in T : \A u \in T : t <= u
  BY <1>1, SomeLeast
<1>3. PICK x \in S : t = N - x
  BY DEF T
<1>4. \A y \in S : N - x <= N - y
  BY <1>2, <1>3 DEF T
<1> QED BY <1>4

\* Adding up: what SumFunctionOnSet gives, by the least set for which it would fail.
Some(s) == CHOOSE x \in s : TRUE

\* The function by which the sum is defined.
Adds(f, S, g) == g = [s \in SUBSET S |-> IF s = {} THEN 0 ELSE f[Some(s)] + g[s \ {Some(s)}]]

LEMMA SumIs ==
    ASSUME NEW f, NEW S
    PROVE  SumFunctionOnSet(f, S) = (CHOOSE g : Adds(f, S, g))[S]
BY Zenon DEF SumFunctionOnSet, FoldFunctionOnSet, MapThenFoldSet, Adds, Some

LEMMA OneLess ==
    ASSUME NEW S, IsFiniteSet(S), NEW s \in SUBSET S, NEW x \in s
    PROVE  /\ Cardinality(s) \in Nat /\ Cardinality(s \ {x}) \in Nat
           /\ Cardinality(s \ {x}) = Cardinality(s) - 1
           /\ s \ {x} \in SUBSET S
BY FS_Subset, FS_CardinalityType, FS_RemoveElement

LEMMA OfNone ==
    ASSUME NEW S, IsFiniteSet(S), NEW s \in SUBSET S, s # {}
    PROVE  Some(s) \in s
BY DEF Some

\* There is such a function: sets of ever more elements can be added up.
AddsUpTo(f, S, g, n) ==
    /\ g \in [SUBSET S -> Int]
    /\ \A s \in SUBSET S : Cardinality(s) <= n =>
         g[s] = IF s = {} THEN 0 ELSE f[Some(s)] + g[s \ {Some(s)}]

LEMMA AddsExists ==
    ASSUME NEW S, IsFiniteSet(S), NEW f, \A x \in S : f[x] \in Int
    PROVE  \E g : Adds(f, S, g) /\ g \in [SUBSET S -> Int]
<1> DEFINE Bad == {n \in Nat : ~\E g : AddsUpTo(f, S, g, n)}
<1>1. 0 \notin Bad
  <2> DEFINE g == [s \in SUBSET S |-> 0]
  <2>1. \A s \in SUBSET S : Cardinality(s) <= 0 => s = {}
    <3> SUFFICES ASSUME NEW s \in SUBSET S, Cardinality(s) <= 0, s # {} PROVE FALSE
      OBVIOUS
    <3>1. PICK x \in s : TRUE
      OBVIOUS
    <3>2. /\ Cardinality(s) \in Nat /\ Cardinality(s \ {x}) \in Nat
          /\ Cardinality(s \ {x}) = Cardinality(s) - 1
      BY <3>1, OneLess
    <3> HIDE DEF Bad, g
    <3> QED
      BY <3>2
  <2>2. AddsUpTo(f, S, g, 0)
    BY <2>1 DEF AddsUpTo
  <2> QED
    BY <2>2
<1>2. Bad = {}
  <2> SUFFICES ASSUME Bad # {} PROVE FALSE
    OBVIOUS
  <2>1. PICK n \in Bad : \A m \in Bad : n <= m
    BY SomeLeast
  <2>2. n \in Nat /\ n - 1 \in Nat
    BY <1>1, <2>1
  <2>3. n - 1 \notin Bad
    BY <2>1, <2>2
  <2>4. PICK g : AddsUpTo(f, S, g, n - 1)
    BY <2>2, <2>3
  <2> DEFINE h == [s \in SUBSET S |->
                     IF s # {} /\ Cardinality(s) = n THEN f[Some(s)] + g[s \ {Some(s)}] ELSE g[s]]
  <2>5. \A s \in SUBSET S : s # {} =>
          /\ f[Some(s)] \in Int /\ g[s \ {Some(s)}] \in Int /\ s \ {Some(s)} \in SUBSET S
          /\ Cardinality(s) \in Nat /\ Cardinality(s \ {Some(s)}) = Cardinality(s) - 1
    <3> SUFFICES ASSUME NEW s \in SUBSET S, s # {}
                 PROVE  /\ f[Some(s)] \in Int /\ g[s \ {Some(s)}] \in Int
                        /\ s \ {Some(s)} \in SUBSET S
                        /\ Cardinality(s) \in Nat
                        /\ Cardinality(s \ {Some(s)}) = Cardinality(s) - 1
      OBVIOUS
    <3>1. Some(s) \in s
      BY OfNone
    <3> QED
      BY <2>4, <3>1, OneLess DEF AddsUpTo
  <2>6. h \in [SUBSET S -> Int]
    BY <2>4, <2>5 DEF AddsUpTo
  <2>7. ASSUME NEW s \in SUBSET S, Cardinality(s) <= n
        PROVE  h[s] = IF s = {} THEN 0 ELSE f[Some(s)] + h[s \ {Some(s)}]
    <3>1. CASE s = {}
      <4>1. Cardinality(s) = 0
        BY <3>1, FS_EmptySet
      <4>2. g[s] = 0
        BY <2>2, <2>4, <3>1, <4>1 DEF AddsUpTo
      <4> QED
        BY <3>1, <4>2
    <3>2. CASE s # {}
      <4>1. /\ Cardinality(s) \in Nat /\ s \ {Some(s)} \in SUBSET S
            /\ Cardinality(s \ {Some(s)}) = Cardinality(s) - 1
        BY <2>5, <3>2
      <4>2. h[s \ {Some(s)}] = g[s \ {Some(s)}]
        <5>1. Cardinality(s \ {Some(s)}) # n
          BY <2>2, <2>7, <4>1
        <5> QED
          BY <4>1, <5>1
      <4>3. CASE Cardinality(s) = n
        BY <3>2, <4>2, <4>3
      <4>4. CASE Cardinality(s) # n
        <5>1. Cardinality(s) <= n - 1
          BY <2>2, <2>7, <4>1, <4>4
        <5>2. g[s] = f[Some(s)] + g[s \ {Some(s)}]
          BY <2>4, <3>2, <5>1 DEF AddsUpTo
        <5> QED
          BY <3>2, <4>2, <4>4, <5>2
      <4> QED
        BY <4>3, <4>4
    <3> QED
      BY <3>1, <3>2
  <2> HIDE DEF h
  <2>8. AddsUpTo(f, S, h, n)
    BY <2>6, <2>7 DEF AddsUpTo
  <2> QED
    BY <2>1, <2>8
<1>3. Cardinality(S) \in Nat
  BY FS_CardinalityType
<1>4. PICK g : AddsUpTo(f, S, g, Cardinality(S))
  BY <1>2, <1>3
<1>5. \A s \in SUBSET S : Cardinality(s) <= Cardinality(S)
  BY FS_Subset
<1>6. g = [s \in SUBSET S |-> IF s = {} THEN 0 ELSE f[Some(s)] + g[s \ {Some(s)}]]
  BY <1>4, <1>5 DEF AddsUpTo
<1> QED
  BY <1>4, <1>6 DEF Adds, AddsUpTo

\* And one only, whichever larger set it is defined for.
LEMMA AddsAlike ==
    ASSUME NEW S, IsFiniteSet(S), NEW T \in SUBSET S, NEW f, NEW g, NEW h,
           Adds(f, S, g), Adds(f, T, h)
    PROVE  \A s \in SUBSET T : g[s] = h[s]
<1> DEFINE Bad == {n \in Nat : \E s \in SUBSET T : Cardinality(s) = n /\ g[s] # h[s]}
<1>1. ASSUME Bad # {} PROVE FALSE
  <2>1. PICK n \in Bad : \A m \in Bad : n <= m
    BY <1>1, SomeLeast
  <2>2. PICK s \in SUBSET T : Cardinality(s) = n /\ g[s] # h[s]
    BY <2>1
  <2>3. /\ g[s] = IF s = {} THEN 0 ELSE f[Some(s)] + g[s \ {Some(s)}]
        /\ h[s] = IF s = {} THEN 0 ELSE f[Some(s)] + h[s \ {Some(s)}]
    <3>1. s \in SUBSET S
      OBVIOUS
    <3> QED
      BY <3>1, Zenon DEF Adds
  <2>4. s # {} /\ g[s \ {Some(s)}] # h[s \ {Some(s)}]
    BY <2>2, <2>3
  <2>5. /\ Cardinality(s) \in Nat /\ Cardinality(s \ {Some(s)}) \in Nat
        /\ Cardinality(s \ {Some(s)}) = Cardinality(s) - 1
    <3>1. s \in SUBSET S /\ Some(s) \in s
      BY <2>4, OfNone
    <3> QED
      BY <3>1, OneLess
  <2>6. Cardinality(s \ {Some(s)}) \in Bad
    BY <2>4, <2>5
  <2>7. n = Cardinality(s) /\ n <= Cardinality(s \ {Some(s)})
    BY <2>1, <2>2, <2>6
  <2> HIDE DEF Bad
  <2> QED
    BY <2>5, <2>7
<1>2. \A s \in SUBSET T : Cardinality(s) \in Nat
  BY FS_Subset, FS_CardinalityType
<1> QED
  BY <1>1, <1>2

Summable(f, S) == IsFiniteSet(S) /\ \A x \in S : f[x] \in Int

LEMMA SumOfSubset ==
    ASSUME NEW f, NEW S, Summable(f, S), NEW T \in SUBSET S, NEW g, Adds(f, S, g)
    PROVE  SumFunctionOnSet(f, T) = g[T]
<1>1. IsFiniteSet(T) /\ \A x \in T : f[x] \in Int
  BY FS_Subset DEF Summable
<1>2. PICK h : Adds(f, T, h)
  BY <1>1, AddsExists
<1> DEFINE k == CHOOSE h1 : Adds(f, T, h1)
<1>3. Adds(f, T, k)
  BY <1>2, Zenon
<1>4. g[T] = k[T]
  <2> HIDE DEF k
  <2> QED
    BY <1>3, AddsAlike DEF Summable
<1> QED
  BY <1>4, SumIs

LEMMA SumType ==
    ASSUME NEW f, NEW S, Summable(f, S)
    PROVE  SumFunctionOnSet(f, S) \in Int
<1>1. PICK g : Adds(f, S, g) /\ g \in [SUBSET S -> Int]
  BY AddsExists DEF Summable
<1>2. SumFunctionOnSet(f, S) = g[S]
  BY <1>1, SumOfSubset
<1> QED
  BY <1>1, <1>2

LEMMA SumOfNone ==
    ASSUME NEW f
    PROVE  SumFunctionOnSet(f, {}) = 0
<1>1. Summable(f, {})
  BY FS_EmptySet DEF Summable
<1>2. PICK g : Adds(f, {}, g)
  BY <1>1, AddsExists DEF Summable
<1>3. g[{}] = 0
  BY <1>2 DEF Adds
<1> QED
  BY <1>1, <1>2, <1>3, SumOfSubset

\* A sum is the number of one of its elements, whichever, and the sum of the others.
LEMMA SumTakesOut ==
    ASSUME NEW f, NEW S, Summable(f, S), NEW y \in S
    PROVE  SumFunctionOnSet(f, S) = f[y] + SumFunctionOnSet(f, S \ {y})
<1>1. PICK g : Adds(f, S, g) /\ g \in [SUBSET S -> Int]
  BY AddsExists DEF Summable
<1>2. \A s \in SUBSET S : s # {} =>
        /\ Some(s) \in s /\ g[s] = f[Some(s)] + g[s \ {Some(s)}]
  BY <1>1, OfNone DEF Adds, Summable
<1>3. \A x \in S : f[x] \in Int
  BY DEF Summable
<1> DEFINE Bad == {n \in Nat : \E s \in SUBSET S : \E x \in s :
                     Cardinality(s) = n /\ g[s] # f[x] + g[s \ {x}]}
<1>4. ASSUME Bad # {} PROVE FALSE
  <2>1. PICK n \in Bad : \A m \in Bad : n <= m
    BY <1>4, SomeLeast
  <2>2. PICK s \in SUBSET S : \E x \in s : Cardinality(s) = n /\ g[s] # f[x] + g[s \ {x}]
    BY <2>1
  <2>3. PICK x \in s : Cardinality(s) = n /\ g[s] # f[x] + g[s \ {x}]
    BY <2>2
  <2> DEFINE c == Some(s)
  <2>4. c \in s /\ g[s] = f[c] + g[s \ {c}]
    BY <1>2, <2>3
  <2> HIDE DEF c
  <2>5. c # x
    BY <2>3, <2>4
  <2>6. /\ n \in Nat
        /\ Cardinality(s \ {c}) = n - 1 /\ Cardinality(s \ {x}) = n - 1
        /\ Cardinality(s \ {c}) \in Nat /\ Cardinality(s \ {x}) \in Nat
    BY <2>3, <2>4, OneLess DEF Summable
  <2>7. n - 1 \notin Bad
    <3>1. n - 1 \in Bad => n <= n - 1
      BY <2>1
    <3> HIDE DEF Bad
    <3> QED
      BY <2>6, <3>1
  <2>8. g[s \ {c}] = f[x] + g[(s \ {c}) \ {x}]
    <3>1. x \in s \ {c} /\ s \ {c} \in SUBSET S
      BY <2>5
    <3> QED
      BY <2>6, <2>7, <3>1
  <2>9. g[s \ {x}] = f[c] + g[(s \ {x}) \ {c}]
    <3>1. c \in s \ {x} /\ s \ {x} \in SUBSET S
      BY <2>4, <2>5
    <3> QED
      BY <2>6, <2>7, <3>1
  <2>10. (s \ {c}) \ {x} = (s \ {x}) \ {c}
    OBVIOUS
  <2>11. f[c] \in Int /\ f[x] \in Int /\ g[(s \ {x}) \ {c}] \in Int
    <3>1. (s \ {x}) \ {c} \in SUBSET S /\ c \in S /\ x \in S
      BY <2>4
    <3> QED
      BY <1>1, <1>3, <3>1
  <2>12. f[c] + (f[x] + g[(s \ {x}) \ {c}]) = f[x] + (f[c] + g[(s \ {x}) \ {c}])
    BY <2>11
  <2> QED
    BY <2>3, <2>4, <2>8, <2>9, <2>10, <2>12
<1>5. Cardinality(S) \in Nat
  BY FS_CardinalityType DEF Summable
<1>6. g[S] = f[y] + g[S \ {y}]
  BY <1>4, <1>5
<1>7. S \ {y} \in SUBSET S /\ S \in SUBSET S
  OBVIOUS
<1> QED
  BY <1>1, <1>6, <1>7, SumOfSubset

\* Of more things that take no less, the sum is no less.
LEMMA SumMonotone ==
    ASSUME NEW f, NEW S, NEW g, NEW T, Summable(g, T), S \subseteq T,
           \A x \in S : f[x] \in Int /\ f[x] <= g[x], \A x \in T \ S : 0 <= g[x]
    PROVE  SumFunctionOnSet(f, S) <= SumFunctionOnSet(g, T)
<1> DEFINE Bad == {n \in Nat : \E t \in SUBSET T :
                     /\ Cardinality(t) = n
                     /\ ~(SumFunctionOnSet(f, t \cap S) <= SumFunctionOnSet(g, t))}
<1>1. ASSUME Bad # {} PROVE FALSE
  <2>1. PICK n \in Bad : \A m \in Bad : n <= m
    BY <1>1, SomeLeast
  <2>2. PICK t \in SUBSET T : /\ Cardinality(t) = n
                              /\ ~(SumFunctionOnSet(f, t \cap S) <= SumFunctionOnSet(g, t))
    BY <2>1
  <2>3. t # {}
    <3> SUFFICES ASSUME t = {} PROVE FALSE
      OBVIOUS
    <3>1. t \cap S = {}
      OBVIOUS
    <3> QED
      BY <2>2, <3>1, SumOfNone
  <2>4. PICK y \in t : TRUE
    BY <2>3
  <2>5. Summable(g, t) /\ Summable(f, t \cap S)
    <3>1. IsFiniteSet(t) /\ IsFiniteSet(t \cap S)
      BY FS_Subset DEF Summable
    <3> QED
      BY <3>1 DEF Summable
  <2>6. Summable(g, t \ {y}) /\ Summable(f, (t \ {y}) \cap S)
    <3>1. IsFiniteSet(t \ {y}) /\ IsFiniteSet((t \ {y}) \cap S)
      BY FS_Subset DEF Summable
    <3> QED
      BY <3>1 DEF Summable
  <2>7. Cardinality(t \ {y}) \in Nat /\ Cardinality(t \ {y}) < n
    BY <2>2, OneLess DEF Summable
  <2>8. SumFunctionOnSet(f, (t \ {y}) \cap S) <= SumFunctionOnSet(g, t \ {y})
    <3>1. Cardinality(t \ {y}) \notin Bad
      <4>1. Cardinality(t \ {y}) \in Bad => n <= Cardinality(t \ {y})
        BY <2>1
      <4>2. n \in Nat
        OBVIOUS
      <4> HIDE DEF Bad
      <4> QED
        BY <2>7, <4>1, <4>2
    <3>2. t \ {y} \in SUBSET T
      OBVIOUS
    <3> QED
      BY <2>7, <3>1, <3>2
  <2>9. SumFunctionOnSet(g, t) = g[y] + SumFunctionOnSet(g, t \ {y})
    BY <2>5, SumTakesOut
  <2>10. /\ SumFunctionOnSet(g, t \ {y}) \in Int /\ g[y] \in Int
         /\ SumFunctionOnSet(f, (t \ {y}) \cap S) \in Int
    BY <2>6, SumType DEF Summable
  <2>11. CASE y \in S
    <3>1. y \in t \cap S /\ (t \cap S) \ {y} = (t \ {y}) \cap S
      BY <2>11
    <3>2. SumFunctionOnSet(f, t \cap S) = f[y] + SumFunctionOnSet(f, (t \ {y}) \cap S)
      BY <2>5, <3>1, SumTakesOut
    <3>3. f[y] \in Int /\ f[y] <= g[y]
      BY <2>11
    <3> QED
      BY <2>2, <2>8, <2>9, <2>10, <3>2, <3>3
  <2>12. CASE y \notin S
    <3>1. t \cap S = (t \ {y}) \cap S
      BY <2>12
    <3>2. 0 <= g[y]
      BY <2>12
    <3> QED
      BY <2>2, <2>8, <2>9, <2>10, <3>1, <3>2
  <2> QED
    BY <2>11, <2>12
<1>2. Cardinality(T) \in Nat /\ T \cap S = S
  BY FS_CardinalityType DEF Summable
<1> QED
  BY <1>1, <1>2

-----------------------------------------------------------------------------
(* The focus session.                                                        *)

\* The least of a set of positions is one of them.
LEMMA LeastPosition ==
    ASSUME NEW S \in SUBSET Nat, S # {}
    PROVE  Min(S) \in S
BY SomeLeast DEF Min

LEMMA CursorType ==
    ASSUME NEW s
    PROVE  Cursor(s) \in Entry \cup {Nil}
<1>1. Queue \in [1..Len(Queue) -> Entry] /\ DOMAIN Queue = 1..Len(Queue) /\ Len(Queue) \in Nat
  BY QueueAssumption
<1>2. InQueue(s) \in SUBSET Nat /\ InQueue(s) \subseteq DOMAIN Queue
  BY <1>1 DEF InQueue
<1>3. \A i \in InQueue(s) : Queue[i] \in Entry
  BY <1>2 DEF Entry
<1>4. CASE \E i \in InQueue(s) : Queue[i] = s.entry
  BY <1>3, <1>4 DEF Cursor
<1>5. CASE ~ \E i \in InQueue(s) : Queue[i] = s.entry
  <2>1. InQueue(s) # {} => Min(InQueue(s)) \in InQueue(s)
    BY <1>2, LeastPosition
  <2> QED
    BY <1>3, <1>5, <2>1 DEF Cursor
<1> QED
  BY <1>4, <1>5

-----------------------------------------------------------------------------
(* Types.                                                                    *)

LEMMA CreditType ==
    ASSUME NEW s \in Session, NEW now \in Nat
    PROVE  Credit(s, now) \in Nat
BY DEF Credit, Session, Least, Most

LEMMA SettledType ==
    ASSUME NEW s \in Session, NEW now \in Nat, NEW keep \in BOOLEAN
    PROVE  /\ Settled(s, now, keep) \in Session
           /\ Settled(s, now, keep).phase = s.phase
           /\ Settled(s, now, keep).intervals = s.intervals
           /\ Settled(s, now, keep).passed = s.passed
<1> DEFINE elapsed == s.elapsed + Credit(s, now)
           since == IF s.since # Nil /\ keep /\ elapsed < s.length THEN now ELSE Nil
<1>1. elapsed \in Nat /\ since \in Nat \cup {Nil}
  BY CreditType DEF Session
<1>2. Settled(s, now, keep) = [s EXCEPT !.elapsed = elapsed, !.since = since]
  BY DEF Settled
<1> HIDE DEF elapsed, since
<1> QED
  BY <1>1, <1>2 DEF Session

LEMMA OnCursorType ==
    ASSUME NEW s \in Session
    PROVE  /\ OnCursor(s) \in Session
           /\ OnCursor(s).phase = s.phase
           /\ OnCursor(s).intervals = s.intervals
<1>1. Cursor(s) \in Entry \cup {Nil}
  BY CursorType
<1> QED
  BY <1>1 DEF OnCursor, Session

LEMMA NextPhaseType ==
    ASSUME NEW s \in Session, NEW now \in Nat, NEW keepGoing \in BOOLEAN
    PROVE  /\ NextPhase(s, now, keepGoing) \in Session
           /\ Place(s) < Place(NextPhase(s, now, keepGoing))
<1> DEFINE next == PhaseAfter(s, keepGoing)
           n == IF s.phase = "focus" THEN s.intervals + 1 ELSE s.intervals
           length == Length[next]
<1>1. /\ next \in Phase
      /\ s.phase # "focus" => next = "focus"
  BY DEF PhaseAfter, Phase
<1>2. s.intervals \in Nat /\ n \in Nat
  BY DEF Session
<1>3. length \in Nat
  BY <1>1, LengthAssumption
<1>4. NextPhase(s, now, keepGoing) =
        [s EXCEPT !.phase = next, !.length = length, !.elapsed = 0, !.since = now,
                  !.intervals = n]
  BY DEF NextPhase
<1> HIDE DEF next
<1>5. /\ NextPhase(s, now, keepGoing) \in Session
      /\ NextPhase(s, now, keepGoing).phase = next
      /\ NextPhase(s, now, keepGoing).intervals = n
  <2> HIDE DEF n, length
  <2> DEFINE r == [s EXCEPT !.phase = next, !.length = length, !.intervals = n]
  <2>1. r \in Session /\ r.phase = next /\ r.intervals = n
    BY <1>1, <1>2, <1>3 DEF Session
  <2>2. NextPhase(s, now, keepGoing) = [r EXCEPT !.elapsed = 0, !.since = now]
    BY <1>4 DEF Session
  <2> HIDE DEF r
  <2>3. /\ [r EXCEPT !.elapsed = 0, !.since = now] \in Session
        /\ [r EXCEPT !.elapsed = 0, !.since = now].phase = next
        /\ [r EXCEPT !.elapsed = 0, !.since = now].intervals = n
    BY <2>1 DEF Session
  <2> QED
    BY <2>2, <2>3, Zenon
<1> QED
  BY <1>1, <1>2, <1>5 DEF Place

LEMMA FreshType ==
    ASSUME NEW now \in Nat
    PROVE  Fresh(now) \in Session
BY LengthAssumption DEF Fresh, Session, Phase

LEMMA CreditedType ==
    ASSUME TypeOK, NEW now \in Nat, session \in Session
    PROVE  Credited(session, now) \in [Entry -> Nat]
<1>1. Credit(session, now) \in Nat
  BY CreditType
<1>2. worked \in [Entry -> Nat]
  BY DEF TypeOK
<1>3. session.entry \in Entry \cup {Nil}
  BY DEF Session
<1>4. CASE session.phase = "focus" /\ session.entry # Nil
  BY <1>1, <1>2, <1>3, <1>4 DEF Credited
<1> QED
  BY <1>2, <1>4 DEF Credited

LEMMA AskedType ==
    ASSUME TypeOK, NEW w \in Window, asked[w].do \in Act
    PROVE  asked[w] \in Request /\ asked[w].now \in Nat /\ asked[w].entry \in Entry \cup {Nil}
BY NilAssumption DEF TypeOK, NoRequest, Request

LEMMA RunningType ==
    ASSUME TypeOK, Running
    PROVE  session \in Session
BY DEF TypeOK, Running

LEMMA SettleFacts ==
    ASSUME TypeOK, Running, NEW w \in Window, asked[w].do \in Act,
           NEW s \in Session, SettleAnd(w, s)
    PROVE  /\ session' = s
           /\ worked' \in [Entry -> Nat]
           /\ latest' \in Nat /\ overtaken' \in BOOLEAN
<1>1. asked[w].now \in Nat /\ session \in Session /\ latest \in Nat
  BY AskedType, RunningType DEF TypeOK
<1>2. worked' \in [Entry -> Nat]
  BY <1>1, CreditedType DEF SettleAnd
<1>3. latest' \in Nat
  BY <1>1 DEF SettleAnd, Most
<1>4. overtaken' \in BOOLEAN
  BY DEF SettleAnd
<1> QED
  BY <1>2, <1>3, <1>4 DEF SettleAnd

\* What an answer that begins no phase does.
Settles(w) ==
    Pause(w) \/ Resume(w) \/ Sync(w) \/ End(w) \/ Pass(w) \/ Select(w) \/ Again(w)

LEMMA SettlesFacts ==
    ASSUME TypeOK, NEW w \in Window, Settles(w)
    PROVE  /\ session' \in Session
           /\ session'.phase = session.phase /\ session'.intervals = session.intervals
           /\ worked' \in [Entry -> Nat]
           /\ latest' \in Nat /\ overtaken' \in BOOLEAN
           /\ Answer(w)
           /\ UNCHANGED <<clock, closed, requests, history>>
<1>1. /\ Running /\ asked[w].do \in Act /\ Answer(w)
      /\ UNCHANGED <<clock, closed, requests, history>>
  BY DEF Settles, Pause, Resume, Sync, End, Pass, Select, Again, Act
<1>2. /\ session \in Session
      /\ asked[w].now \in Nat /\ asked[w].entry \in Entry \cup {Nil}
  BY <1>1, AskedType, RunningType
<1>3. worked \in [Entry -> Nat] /\ latest \in Nat /\ overtaken \in BOOLEAN
  BY DEF TypeOK
<1> DEFINE s(keep) == AfterSettling(w, keep)
<1>4. \A keep \in BOOLEAN :
        s(keep) \in Session /\ s(keep).phase = session.phase
        /\ s(keep).intervals = session.intervals /\ s(keep).passed \in SUBSET Entry
  BY <1>2, SettledType DEF AfterSettling, Session
<1> HIDE DEF s
<1> DEFINE Same(r) == r \in Session /\ r.phase = session.phase /\ r.intervals = session.intervals
<1>5. ASSUME NEW r, Same(r), SettleAnd(w, r)
      PROVE  /\ Same(session') /\ worked' \in [Entry -> Nat]
             /\ latest' \in Nat /\ overtaken' \in BOOLEAN
  BY <1>1, <1>5, SettleFacts
<1>6. \A r : Same(r) => Same(OnCursor(r))
  BY OnCursorType
<1>7. Same(s(TRUE)) /\ Same(s(FALSE))
  BY <1>4
<1>8. Same([s(FALSE) EXCEPT !.ended = TRUE])
  BY <1>4 DEF Session
<1>9. Same([s(TRUE) EXCEPT !.passed = {}])
  BY <1>4 DEF Session
<1>10. ASSUME asked[w].entry \in Entry
       PROVE  /\ Same([s(TRUE) EXCEPT !.passed = s(TRUE).passed \cup {asked[w].entry}])
              /\ Same([s(TRUE) EXCEPT !.passed = s(TRUE).passed \ {asked[w].entry},
                                      !.entry = asked[w].entry])
  <2> DEFINE p == s(TRUE).passed \cup {asked[w].entry}
             q == s(TRUE).passed \ {asked[w].entry}
  <2>1. p \in SUBSET Entry /\ q \in SUBSET Entry
    BY <1>4, <1>10
  <2> HIDE DEF p, q
  <2>2. Same([s(TRUE) EXCEPT !.passed = p])
    BY <1>4, <2>1 DEF Session
  <2>3. Same([s(TRUE) EXCEPT !.passed = q, !.entry = asked[w].entry])
    BY <1>4, <1>10, <2>1 DEF Session
  <2> QED
    BY <2>2, <2>3 DEF p, q
<1>11. CASE UNCHANGED <<session, worked, latest, overtaken>>
  BY <1>1, <1>2, <1>3, <1>11
<1> DEFINE Done == /\ Same(session') /\ worked' \in [Entry -> Nat]
                   /\ latest' \in Nat /\ overtaken' \in BOOLEAN
<1>12. Done
  <2>1. CASE Pause(w)
    BY <1>5, <1>7, <2>1 DEF Pause, s
  <2>2. CASE Resume(w)
    <3>1. CASE /\ session' = [session EXCEPT !.since = asked[w].now]
               /\ latest' = Most(latest, asked[w].now)
               /\ overtaken' = (overtaken \/ asked[w].now < latest)
               /\ UNCHANGED worked
      <4>1. Same(session')
        BY <1>2, <3>1 DEF Session
      <4>2. latest' \in Nat
        BY <1>2, <1>3, <3>1 DEF Most
      <4>3. overtaken' \in BOOLEAN
        BY <3>1
      <4> QED
        BY <1>3, <3>1, <4>1, <4>2, <4>3
    <3> QED
      BY <1>2, <1>3, <2>2, <3>1 DEF Resume
  <2>3. CASE Sync(w)
    BY <1>5, <1>6, <1>7, <2>3 DEF Sync, s
  <2>4. CASE End(w)
    BY <1>5, <1>8, <2>4 DEF End, s
  <2>5. CASE Pass(w)
    <3>1. CASE asked[w].entry # session.entry
      BY <1>2, <1>3, <2>5, <3>1 DEF Pass
    <3>2. CASE asked[w].entry = session.entry
      <4>1. asked[w].entry \in Entry
        BY <2>5 DEF Pass, TypeOK
      <4> QED
        BY <1>5, <1>6, <1>10, <2>5, <3>2, <4>1 DEF Pass, s
    <3> QED
      BY <3>1, <3>2
  <2>6. CASE Select(w)
    <3>1. asked[w].entry \in Entry
      BY <2>6 DEF Select, TypeOK
    <3>2. CASE asked[w].entry \in closed
      BY <1>2, <1>3, <2>6, <3>2 DEF Select
    <3>3. CASE asked[w].entry \notin closed
      BY <1>5, <1>10, <2>6, <3>1, <3>3 DEF Select, s
    <3> QED
      BY <3>2, <3>3
  <2>7. CASE Again(w)
    BY <1>5, <1>6, <1>9, <2>7 DEF Again, s
  <2> QED
    BY <2>1, <2>2, <2>3, <2>4, <2>5, <2>6, <2>7 DEF Settles
<1> QED
  BY <1>1, <1>12

LEMMA StartFacts ==
    ASSUME TypeOK, NEW w \in Window, Start(w), ~Running
    PROVE  /\ session' \in Session
           /\ boundary' = boundary + 1 /\ begun' = boundary + 1
           /\ latest' \in Nat /\ overtaken' \in BOOLEAN /\ phases' \in Nat
           /\ Answer(w)
           /\ UNCHANGED <<clock, closed, worked, requests>>
<1>1. asked[w].now \in Nat
  BY AskedType DEF Start, Act
<1>2. session' \in Session
  BY <1>1, FreshType, OnCursorType DEF Start
<1>3. latest' \in Nat /\ phases' \in Nat
  BY <1>1 DEF Start, TypeOK, Most
<1>4. overtaken' \in BOOLEAN
  BY DEF Start
<1> QED
  BY <1>2, <1>3, <1>4 DEF Start

LEMMA AdvanceFacts ==
    ASSUME TypeOK, NEW w \in Window, Advance(w), ~Stale(w)
    PROVE  /\ session \in Session /\ session' \in Session
           /\ Place(session) < Place(session')
           /\ boundary' = boundary + 1 /\ begun' = begun
           /\ worked' \in [Entry -> Nat]
           /\ latest' \in Nat /\ overtaken' \in BOOLEAN /\ phases' \in Nat
           /\ Answer(w)
           /\ UNCHANGED <<clock, closed, requests>>
<1> DEFINE s == NextPhase(AfterSettling(w, FALSE), asked[w].now, asked[w].do = "keep_going")
<1>1. Running /\ asked[w].do \in Act
  BY DEF Advance, Act
<1>2. session \in Session /\ asked[w].now \in Nat
  BY <1>1, AskedType, RunningType
<1>3. /\ AfterSettling(w, FALSE) \in Session
      /\ AfterSettling(w, FALSE).phase = session.phase
      /\ AfterSettling(w, FALSE).intervals = session.intervals
  BY <1>2, SettledType DEF AfterSettling
<1>4. s \in Session /\ Place(AfterSettling(w, FALSE)) < Place(s)
  BY <1>2, <1>3, NextPhaseType
<1>5. Place(AfterSettling(w, FALSE)) = Place(session)
  BY <1>3 DEF Place
<1>6. /\ SettleAnd(w, OnCursor(s))
      /\ boundary' = boundary + 1
      /\ phases' = IF s.phase = "focus" THEN phases + 1 ELSE phases
      /\ UNCHANGED begun
  BY DEF Advance
<1> HIDE DEF s
<1>7. OnCursor(s) \in Session /\ Place(OnCursor(s)) = Place(s)
  BY <1>4, OnCursorType DEF Place
<1>8. /\ session' = OnCursor(s) /\ worked' \in [Entry -> Nat]
      /\ latest' \in Nat /\ overtaken' \in BOOLEAN
  BY <1>1, <1>6, <1>7, SettleFacts
<1>9. phases' \in Nat
  BY <1>6 DEF TypeOK
<1>10. Answer(w) /\ UNCHANGED <<clock, closed, requests>>
  BY DEF Advance
<1>11. Place(session) < Place(session')
  BY <1>4, <1>5, <1>7, <1>8
<1> QED
  BY <1>2, <1>6, <1>7, <1>8, <1>9, <1>10, <1>11

LEMMA InitType == Init => TypeOK
<1> SUFFICES ASSUME Init PROVE TypeOK
  OBVIOUS
<1>1. \A w \in Window : asked[w] = NoRequest /\ asked[w].do = Nil
  BY DEF Init, NoRequest
<1>2. \A w \in Window : asked[w].do \in {"pass", "select"} => asked[w].entry \in Entry
  BY <1>1, NilAssumption DEF Act
<1>3. asked \in [Window -> Request \cup {NoRequest}]
  BY DEF Init
<1>4. worked \in [Entry -> Nat] /\ closed \subseteq Entry /\ session \in Session \cup {NoSession}
  BY DEF Init
<1> QED
  <2>1. clock \in Nat /\ {requests, boundary, begun, phases, latest} \subseteq Nat
    BY DEF Init
  <2>2. overtaken \in BOOLEAN
    BY DEF Init
  <2> QED
    BY <1>2, <1>3, <1>4, <2>1, <2>2, Zenon DEF TypeOK

\* A window that has its answer asks for nothing.
LEMMA AnswerType ==
    ASSUME TypeOK, NEW w \in Window, Answer(w)
    PROVE  /\ asked' \in [Window -> Request \cup {NoRequest}]
           /\ \A x \in Window : x # w => asked'[x] = asked[x]
           /\ asked'[w] = NoRequest /\ asked'[w].do \notin Act
           /\ \A x \in Window : asked'[x].do \in {"pass", "select"} => asked'[x].entry \in Entry
<1>1. /\ asked' \in [Window -> Request \cup {NoRequest}]
      /\ \A x \in Window : x # w => asked'[x] = asked[x]
      /\ asked'[w] = NoRequest
  BY DEF Answer, TypeOK
<1>2. NoRequest.do \notin Act
  BY NilAssumption DEF NoRequest
<1>3. {"pass", "select"} \subseteq Act
  BY DEF Act
<1>4. ASSUME NEW x \in Window, asked'[x].do \in {"pass", "select"}
      PROVE  asked'[x].entry \in Entry
  BY <1>1, <1>2, <1>3, <1>4 DEF TypeOK
<1> QED
  BY <1>1, <1>2, <1>4

LEMMA AskFacts ==
    ASSUME TypeOK, NEW w \in Window, Ask(w)
    PROVE  /\ asked' \in [Window -> Request \cup {NoRequest}]
           /\ \A x \in Window : x # w => asked'[x] = asked[x]
           /\ asked'[w].do \in {"pass", "select"} => asked'[w].entry \in Entry
           /\ asked'[w].boundary = boundary
           /\ asked'[w].do \in {"next", "keep_going"} =>
                /\ Running
                /\ asked'[w].phase = session.phase /\ asked'[w].intervals = session.intervals
           /\ requests' \in Nat
           /\ UNCHANGED <<clock, closed, session, worked, history, latest, overtaken>>
<1>1. PICK do \in Act, e \in Entry \cup {Nil} :
        /\ do \in {"pass", "select"} <=> e # Nil
        /\ do \in {"next", "keep_going"} => Running
        /\ asked' = [asked EXCEPT ![w] =
                [do |-> do, now |-> clock, entry |-> e, boundary |-> boundary,
                 phase |-> session.phase,
                 intervals |-> IF session = NoSession THEN 0 ELSE session.intervals]]
  BY DEF Ask
<1> DEFINE intervals == IF session = NoSession THEN 0 ELSE session.intervals
           r == [do |-> do, now |-> clock, entry |-> e, boundary |-> boundary,
                 phase |-> session.phase, intervals |-> intervals]
<1>2. session.phase \in Phase \cup {Nil} /\ intervals \in Nat
  BY DEF TypeOK, Session, NoSession
<1> HIDE DEF intervals
<1>3. r \in Request
  BY <1>2 DEF TypeOK, Request
<1>4. /\ r.do = do /\ r.entry = e /\ r.boundary = boundary /\ r.phase = session.phase
      /\ r.intervals = intervals
  OBVIOUS
<1>9. Running => intervals = session.intervals
  BY DEF Running, intervals
<1>5. asked' = [asked EXCEPT ![w] = r] /\ asked \in [Window -> Request \cup {NoRequest}]
  BY <1>1 DEF TypeOK, intervals
<1> HIDE DEF r
<1>6. asked'[w] = r /\ \A x \in Window : x # w => asked'[x] = asked[x]
  BY <1>5
<1>7. asked' \in [Window -> Request \cup {NoRequest}]
  BY <1>3, <1>5
<1>8. requests' \in Nat /\ UNCHANGED <<clock, closed, session, worked, history, latest, overtaken>>
  BY DEF Ask, TypeOK
<1> QED
  BY <1>1, <1>4, <1>6, <1>7, <1>8, <1>9

LEMMA StepType ==
    ASSUME TypeOK, [Next]_vars
    PROVE  TypeOK'
<1>1. ASSUME NEW w \in Window, Ask(w) PROVE TypeOK'
  BY <1>1, AskFacts DEF TypeOK, history
<1>2. ASSUME NEW w \in Window, Start(w) PROVE TypeOK'
  <2>1. CASE Running
    BY <1>2, <2>1, AnswerType DEF Start, TypeOK, history
  <2>2. CASE ~Running
    BY <1>2, <2>2, StartFacts, AnswerType DEF TypeOK
  <2> QED
    BY <2>1, <2>2
<1>3. ASSUME NEW w \in Window, Ignored(w) PROVE TypeOK'
  BY <1>3, AnswerType DEF Ignored, TypeOK, history
<1>4. ASSUME NEW w \in Window, Settles(w) PROVE TypeOK'
  BY <1>4, SettlesFacts, AnswerType DEF TypeOK, history
<1>5. ASSUME NEW w \in Window, Advance(w) PROVE TypeOK'
  <2>1. CASE Stale(w)
    BY <1>5, <2>1, AnswerType DEF Advance, TypeOK, history
  <2>2. CASE ~Stale(w)
    BY <1>5, <2>2, AdvanceFacts, AnswerType DEF TypeOK
  <2> QED
    BY <2>1, <2>2
<1>6. ASSUME NEW e \in Entry, CloseRow(e) PROVE TypeOK'
  BY <1>6 DEF CloseRow, TypeOK, history
<1>7. CASE TimePasses
  BY <1>7 DEF TimePasses, TypeOK, history
<1>8. CASE UNCHANGED vars
  BY <1>8 DEF vars, TypeOK, history
<1> QED
  BY <1>1, <1>2, <1>3, <1>4, <1>5, <1>6, <1>7, <1>8 DEF Next, Settles

\* The variables keep their types.
THEOREM TypeCorrect == Spec => []TypeOK
BY InitType, StepType, PTL DEF Spec

-----------------------------------------------------------------------------
(* The order of the phases.                                                  *)

LEMMA PlaceType ==
    ASSUME NEW s, s.phase \in Phase, s.intervals \in Nat
    PROVE  Place(s) \in Nat
BY DEF Place

LEMMA MovesType ==
    ASSUME TypeOK, NEW w \in Window, Moves(w)
    PROVE  asked[w].boundary \in Nat /\ asked[w].intervals \in Nat
BY AskedType DEF Moves, Act, Request

LEMMA InitOrder == Init => InOrder
<1> SUFFICES ASSUME Init PROVE InOrder
  OBVIOUS
<1>1. \A w \in Window : asked[w].do = Nil
  BY DEF Init, NoRequest
<1>2. \A w \in Window : ~ Moves(w)
  BY <1>1, NilAssumption DEF Moves, Act
<1> QED
  BY <1>2 DEF Init, InOrder

\* An answer that begins no phase and leaves the session's place as it is.
LEMMA StaysInOrder ==
    ASSUME TypeOK, InOrder, NEW w \in Window, Answer(w),
           UNCHANGED <<boundary, begun>>, Place(session') = Place(session)
    PROVE  InOrder'
<1>1. \A x \in Window : Moves(x)' => Moves(x) /\ asked'[x] = asked[x]
  BY AnswerType DEF Moves, Act
<1> QED
  BY <1>1 DEF InOrder

LEMMA StepOrder ==
    ASSUME TypeOK, InOrder, [Next]_vars
    PROVE  InOrder'
<1>0. boundary \in Nat /\ begun \in Nat
  BY DEF TypeOK
<1>1. ASSUME NEW w \in Window, Ask(w) PROVE InOrder'
  <2>1. /\ \A x \in Window : x # w => asked'[x] = asked[x]
        /\ asked'[w].boundary = boundary
        /\ Moves(w)' =>
            /\ Running
            /\ asked'[w].phase = session.phase /\ asked'[w].intervals = session.intervals
        /\ UNCHANGED <<session, boundary, begun>>
    BY <1>1, AskFacts DEF history, Moves
  <2>2. Running => session.phase \in Phase
    BY RunningType DEF Session
  <2>3. Moves(w)' => Place(asked'[w]) = Place(session)
    BY <2>1 DEF Place
  <2>4. \A x \in Window : x # w => (Moves(x)' <=> Moves(x))
    BY <2>1 DEF Moves
  <2> QED
    BY <1>0, <2>1, <2>2, <2>3, <2>4 DEF InOrder
<1>2. ASSUME NEW w \in Window, Start(w) PROVE InOrder'
  <2>1. CASE Running
    BY <1>2, <2>1, StaysInOrder DEF Start, history
  <2>2. CASE ~Running
    <3>1. boundary' = boundary + 1 /\ begun' = boundary + 1
      BY <1>2, <2>2, StartFacts
    <3>2. \A x \in Window : Moves(x)' => Moves(x) /\ asked'[x] = asked[x]
      BY <1>2, AnswerType DEF Start, Moves, Act
    <3>3. \A x \in Window : Moves(x) => asked[x].boundary \in Nat
      BY MovesType
    <3> QED
      BY <1>0, <3>1, <3>2, <3>3 DEF InOrder
  <2> QED
    BY <2>1, <2>2
<1>3. ASSUME NEW w \in Window, Ignored(w) PROVE InOrder'
  BY <1>3, StaysInOrder DEF Ignored, history
<1>4. ASSUME NEW w \in Window, Settles(w) PROVE InOrder'
  <2>1. Place(session') = Place(session)
    BY <1>4, SettlesFacts DEF Place
  <2> QED
    BY <1>4, <2>1, SettlesFacts, StaysInOrder DEF history
<1>5. ASSUME NEW w \in Window, Advance(w) PROVE InOrder'
  <2>1. CASE Stale(w)
    BY <1>5, <2>1, StaysInOrder DEF Advance, history
  <2>2. CASE ~Stale(w)
    <3>1. /\ session \in Session /\ session' \in Session
          /\ Place(session) < Place(session')
          /\ boundary' = boundary + 1 /\ begun' = begun
      BY <1>5, <2>2, AdvanceFacts
    <3>2. \A x \in Window : Moves(x)' => x # w /\ Moves(x) /\ asked'[x] = asked[x]
      BY <1>5, AnswerType DEF Advance, Moves, Act
    <3>3. Place(session) \in Nat /\ Place(session') \in Nat
      BY <3>1, PlaceType DEF Session
    <3>4. ASSUME NEW x \in Window, Moves(x)
          PROVE  asked[x].boundary \in Nat /\ (asked[x].phase \in Phase => Place(asked[x]) \in Nat)
      BY <3>4, MovesType, PlaceType
    <3> SUFFICES ASSUME NEW x \in Window, Moves(x)'
                 PROVE  /\ asked'[x].phase \in Phase
                        /\ asked'[x].boundary <= boundary'
                        /\ asked'[x].boundary = boundary' => Place(asked'[x]) = Place(session')
                        /\ begun' <= asked'[x].boundary /\ asked'[x].boundary < boundary'
                                => Place(asked'[x]) < Place(session')
      BY <1>0, <3>1 DEF InOrder
    <3>5. /\ asked[x].phase \in Phase
          /\ asked[x].boundary <= boundary
          /\ asked[x].boundary = boundary => Place(asked[x]) = Place(session)
          /\ begun <= asked[x].boundary /\ asked[x].boundary < boundary
                => Place(asked[x]) < Place(session)
      BY <3>2 DEF InOrder
    <3>6. asked[x].boundary \in Nat /\ Place(asked[x]) \in Nat
      BY <3>2, <3>4, <3>5
    <3> QED
      BY <1>0, <3>1, <3>2, <3>3, <3>5, <3>6
  <2> QED
    BY <2>1, <2>2
<1>6. ASSUME NEW e \in Entry, CloseRow(e) PROVE InOrder'
  BY <1>6 DEF CloseRow, InOrder, Moves, history
<1>7. CASE TimePasses
  BY <1>7 DEF TimePasses, InOrder, Moves, history
<1>8. CASE UNCHANGED vars
  BY <1>8 DEF vars, InOrder, Moves, history
<1> QED
  BY <1>1, <1>2, <1>3, <1>4, <1>5, <1>6, <1>7, <1>8 DEF Next, Settles

\* Within a session every boundary has a later place in the round of phases.
THEOREM Ordered == Spec => []InOrder
<1>1. Init => TypeOK /\ InOrder
  BY InitType, InitOrder
<1>2. TypeOK /\ InOrder /\ [Next]_vars => (TypeOK /\ InOrder)'
  BY StepType, StepOrder
<1> QED
  BY <1>1, <1>2, PTL DEF Spec

LEMMA StepAdvancesOnce ==
    ASSUME TypeOK, InOrder, [Next]_vars, NEW w \in Window,
           Moves(w), asked'[w] = NoRequest, boundary' # boundary
    PROVE  asked[w].boundary = boundary \/ asked[w].boundary < begun
<1>0. asked'[w].do \notin Act /\ asked'[w] # asked[w]
  BY NilAssumption DEF NoRequest, Moves, Act
<1>1. ASSUME NEW x \in Window, Ask(x) PROVE FALSE
  BY <1>1, AskFacts DEF history
<1>2. ASSUME NEW x \in Window, Ignored(x) \/ Settles(x) PROVE FALSE
  BY <1>2, SettlesFacts DEF Ignored, history
<1>3. ASSUME NEW x \in Window, Start(x) PROVE FALSE
  <2>1. x # w
    BY <1>3 DEF Start, Moves
  <2> QED
    BY <1>0, <1>3, <2>1, AnswerType DEF Start
<1>4. ASSUME NEW x \in Window, Advance(x) PROVE x = w /\ ~Stale(w)
  <2>1. x = w
    BY <1>0, <1>4, AnswerType DEF Advance
  <2> QED
    BY <1>4, <2>1 DEF Advance, history
<1>5. ASSUME NEW e \in Entry, CloseRow(e) PROVE FALSE
  BY <1>5 DEF CloseRow, history
<1>6. ASSUME TimePasses \/ UNCHANGED vars PROVE FALSE
  BY <1>6 DEF TimePasses, vars, history
<1>7. Advance(w) /\ ~Stale(w)
  <2>1. PICK x \in Window : Advance(x)
    BY <1>1, <1>2, <1>3, <1>5, <1>6 DEF Next, Settles
  <2> QED
    BY <1>4, <2>1
<1>8. Place(asked[w]) = Place(session) /\ session \in Session
  BY <1>7, AdvanceFacts DEF Stale, Place
<1>9. Place(session) \in Nat
  BY <1>8, PlaceType DEF Session
<1>10. asked[w].boundary \in Nat /\ boundary \in Nat /\ begun \in Nat
  BY MovesType DEF TypeOK
<1> QED
  BY <1>8, <1>9, <1>10 DEF InOrder

\* However many windows ask for the next phase, and however late, what they saw the
\* end of is ended once.
THEOREM PhaseEndsOnce == Spec => AdvancesOnce
<1>1. TypeOK /\ InOrder /\ [Next]_vars =>
        [\A w \in Window :
            asked[w].do \in {"next", "keep_going"} /\ asked'[w] = NoRequest /\ boundary' # boundary
                => asked[w].boundary = boundary \/ asked[w].boundary < begun]_vars
  BY StepAdvancesOnce DEF Moves
<1> QED
  BY <1>1, TypeCorrect, Ordered, PTL DEF Spec, AdvancesOnce

-----------------------------------------------------------------------------
(* What is credited.                                                         *)

\* Crediting c seconds to a row adds c pairs to those there are.
LEMMA CreditSeconds ==
    ASSUME worked \in [Entry -> Nat], IsFiniteSet(Seconds),
           NEW e \in Entry, NEW c \in Nat, worked' = [worked EXCEPT ![e] = @ + c]
    PROVE  /\ IsFiniteSet(Seconds')
           /\ Total \in Nat /\ Total' = Total + c
<1> DEFINE a == worked[e]
           New == {e} \X (a + 1 .. a + c)
<1>1. a \in Nat
  OBVIOUS
<1>2. IsFiniteSet(a + 1 .. a + c) /\ Cardinality(a + 1 .. a + c) = c
  <2> HIDE DEF a
  <2>1. PICK i \in Int, j \in Int : i = a + 1 /\ j = a + c
    BY <1>1
  <2>2. (IF i > j THEN 0 ELSE j - i + 1) = c
    BY <1>1, <2>1
  <2>3. IsFiniteSet(i .. j) /\ Cardinality(i .. j) = IF i > j THEN 0 ELSE j - i + 1
    BY FS_Interval
  <2> QED
    BY <2>1, <2>2, <2>3
<1>3. IsFiniteSet(New) /\ Cardinality(New) = c
  <2>1. IsFiniteSet({e}) /\ Cardinality({e}) = 1
    BY FS_Singleton
  <2>2. \A S, T : IsFiniteSet(S) /\ IsFiniteSet(T) =>
            /\ IsFiniteSet(S \X T)
            /\ Cardinality(S \X T) = Cardinality(S) * Cardinality(T)
    BY FS_Product
  <2> DEFINE I == a + 1 .. a + c
  <2>4. IsFiniteSet(I) /\ Cardinality(I) = c
    BY <1>2
  <2> HIDE DEF I
  <2>5. IsFiniteSet({e} \X I) /\ Cardinality({e} \X I) = 1 * c
    BY <2>1, <2>2, <2>4, ZenonT(40)
  <2>3. IsFiniteSet(New) /\ Cardinality(New) = 1 * c
    BY <2>5 DEF I
  <2> QED
    BY <2>3
<1>4. Seconds' = Seconds \cup New
  <2>1. ASSUME NEW x
        PROVE  x \in Seconds <=> \E f \in Entry : \E n \in 1 .. worked[f] : x = <<f, n>>
    BY DEF Seconds
  <2>2. ASSUME NEW x
        PROVE  x \in Seconds' <=> \E f \in Entry : \E n \in 1 .. worked'[f] : x = <<f, n>>
    BY DEF Seconds
  <2>3. ASSUME NEW x
        PROVE  x \in New <=> \E n \in a + 1 .. a + c : x = <<e, n>>
    OBVIOUS
  <2>4. worked'[e] = a + c /\ \A f \in Entry : f # e => worked'[f] = worked[f]
    OBVIOUS
  <2>5. 1 .. a + c = (1 .. a) \cup (a + 1 .. a + c)
    BY <1>1
  <2> HIDE DEF New
  <2>6. ASSUME NEW x PROVE x \in Seconds' <=> x \in Seconds \/ x \in New
    <3>1. ASSUME x \in Seconds' PROVE x \in Seconds \/ x \in New
      <4>1. PICK f \in Entry : \E n \in 1 .. worked'[f] : x = <<f, n>>
        BY <2>2, <3>1
      <4> QED
        BY <2>1, <2>3, <2>4, <2>5, <4>1
    <3>2. ASSUME x \in Seconds PROVE x \in Seconds'
      <4>1. PICK f \in Entry : \E n \in 1 .. worked[f] : x = <<f, n>>
        BY <2>1, <3>2
      <4> QED
        BY <2>2, <2>4, <2>5, <4>1
    <3>3. ASSUME x \in New PROVE x \in Seconds'
      BY <2>2, <2>3, <2>4, <2>5, <3>3
    <3> QED
      BY <3>1, <3>2, <3>3
  <2> QED
    BY <2>6
<1>5. Seconds \cap New = {}
  <2>1. ASSUME NEW x \in Seconds, x \in New PROVE FALSE
    <3>0. PICK f \in Entry : \E n \in 1 .. worked[f] : x = <<f, n>>
      BY DEF Seconds
    <3>1. PICK n \in 1 .. worked[f] : x = <<f, n>>
      BY <3>0
    <3>2. PICK m \in a + 1 .. a + c : x = <<e, m>>
      BY <2>1
    <3>3. f = e /\ n = m
      BY <3>1, <3>2
    <3>4. n \in 1 .. a
      BY <3>3
    <3> QED
      BY <1>1, <3>2, <3>3, <3>4
  <2> QED
    BY <2>1
<1>6. Cardinality(Seconds) \in Nat /\ Cardinality({}) = 0
  BY FS_CardinalityType, FS_EmptySet
<1> HIDE DEF New
<1>7. /\ IsFiniteSet(Seconds \cup New)
      /\ Cardinality(Seconds \cup New) = Cardinality(Seconds) + c - Cardinality(Seconds \cap New)
  BY <1>3, FS_Union
<1>8. Cardinality(Seconds \cap New) = 0
  BY <1>5, <1>6
<1>9. Cardinality(Seconds') = Cardinality(Seconds) + c /\ IsFiniteSet(Seconds')
  BY <1>4, <1>6, <1>7, <1>8
<1> QED
  BY <1>6, <1>9 DEF Total

LEMMA CreditBound ==
    ASSUME NEW s \in Session, NEW now \in Nat
    PROVE  /\ Credit(s, now) \in Nat
           /\ Credit(s, now) <= Most(0, s.length - s.elapsed)
           /\ Most(0, s.length - (s.elapsed + Credit(s, now)))
                = Most(0, s.length - s.elapsed) - Credit(s, now)
           /\ s.since = Nil => Credit(s, now) = 0
           /\ s.since # Nil => Credit(s, now) <= Most(0, now - s.since)
<1>1. s.length \in Nat /\ s.elapsed \in Nat /\ (s.since = Nil \/ s.since \in Nat)
  BY DEF Session
<1> QED
  BY <1>1 DEF Credit, Least, Most

LEMMA TotalType ==
    ASSUME IsFiniteSet(Seconds)
    PROVE  Total \in Nat
BY FS_CardinalityType DEF Total

\* The rows gain what the session credits, where it is a focus phase.
LEMMA CreditedTotal ==
    ASSUME TypeOK, IsFiniteSet(Seconds), session \in Session, NEW now \in Nat,
           worked' = Credited(session, now)
    PROVE  /\ IsFiniteSet(Seconds')
           /\ Total' \in Nat
           /\ Total' = Total \/ (session.phase = "focus" /\ Total' = Total + Credit(session, now))
<1>1. worked \in [Entry -> Nat] /\ session.entry \in Entry \cup {Nil}
  BY DEF TypeOK, Session
<1>2. Credit(session, now) \in Nat
  BY CreditBound
<1>3. CASE session.phase = "focus" /\ session.entry # Nil
  <2>1. worked' = [worked EXCEPT ![session.entry] = @ + Credit(session, now)]
    BY <1>3 DEF Credited
  <2>2. session.entry \in Entry
    BY <1>1, <1>3
  <2>3. IsFiniteSet(Seconds') /\ Total \in Nat /\ Total' = Total + Credit(session, now)
    BY <1>1, <1>2, <2>1, <2>2, CreditSeconds
  <2> QED
    BY <1>2, <1>3, <2>3
<1>4. CASE ~(session.phase = "focus" /\ session.entry # Nil)
  <2>1. worked' = worked
    BY <1>4 DEF Credited
  <2>2. Seconds' = Seconds /\ Total' = Total
    BY <2>1 DEF Seconds, Total
  <2> QED
    BY <2>2, TotalType
<1> QED
  BY <1>3, <1>4

LEMMA UncreditedTotal ==
    ASSUME UNCHANGED worked
    PROVE  Seconds' = Seconds /\ Total' = Total
BY DEF Seconds, Total

\* A request has settled with the time it read.
Reads(w) ==
    /\ latest' = Most(latest, asked[w].now)
    /\ overtaken' = (overtaken \/ asked[w].now < latest)

LEMMA RequestOnTime ==
    ASSUME OnTime, NEW w \in Window, asked[w].do \in Act
    PROVE  asked[w].now <= clock
BY NilAssumption DEF OnTime, NoRequest

\* Whoever settles with a time that is not older than the others credits no second
\* that was credited before, and moves the anchor behind all that were.
LEMMA OnTimeStep ==
    ASSUME TypeOK, OnTime, IsFiniteSet(Seconds), NEW w \in Window, asked[w].do \in Act,
           Answer(w), Reads(w), UNCHANGED clock,
           session' \in Session, session'.since \in {Nil, asked[w].now}, Total' \in Nat,
           Total' = Total \/ (session \in Session /\ Total' = Total + Credit(session, asked[w].now))
    PROVE  OnTime'
<1>1. /\ clock \in Nat /\ latest \in Nat /\ overtaken \in BOOLEAN /\ Total \in Nat
      /\ asked[w].now \in Nat /\ asked[w].now <= clock /\ latest <= clock
  BY AskedType, RequestOnTime, TotalType DEF TypeOK, OnTime
<1>2. latest' <= clock'
  BY <1>1 DEF Reads, Most
<1>3. \A x \in Window : asked'[x] # NoRequest => asked'[x].now <= clock'
  BY AnswerType DEF OnTime
<1>4. ASSUME ~overtaken'
      PROVE  /\ latest' = asked[w].now
             /\ Total' <= asked[w].now
  <2>1. ~overtaken /\ latest <= asked[w].now /\ latest' = asked[w].now
    <3>1. ~overtaken /\ ~(asked[w].now < latest)
      BY <1>4, Zenon DEF Reads
    <3> QED
      BY <1>1, <3>1 DEF Reads, Most
  <2>2. Total <= latest
    BY <2>1 DEF OnTime
  <2>3. CASE Total' = Total
    BY <1>1, <2>1, <2>2, <2>3
  <2>4. CASE session \in Session /\ Total' = Total + Credit(session, asked[w].now)
    <3>1. session # NoSession
      BY <2>4, NilAssumption DEF Session, NoSession
    <3>2. CASE session.since = Nil
      BY <1>1, <2>1, <2>2, <2>4, <3>2, CreditBound
    <3>3. CASE session.since # Nil
      <4>1. session.since \in Nat /\ Total <= session.since
        BY <2>1, <2>4, <3>1, <3>3 DEF Session, OnTime
      <4>2. /\ Credit(session, asked[w].now) \in Nat
            /\ Credit(session, asked[w].now) <= Most(0, asked[w].now - session.since)
        BY <1>1, <2>4, <3>3, CreditBound
      <4> QED
        BY <1>1, <2>1, <2>2, <2>4, <4>1, <4>2 DEF Most
    <3> QED
      BY <3>2, <3>3
  <2> QED
    BY <2>1, <2>3, <2>4
<1>5. ~overtaken' => /\ Total' <= latest'
                     /\ session' # NoSession /\ session'.since # Nil => Total' <= session'.since
  BY <1>1, <1>4
<1> QED
  BY <1>2, <1>3, <1>5 DEF OnTime

\* A step that reads no time and credits nothing.
LEMMA OnTimeStays ==
    ASSUME OnTime, UNCHANGED <<clock, session, worked, latest, overtaken>>,
           \A w \in Window : asked'[w] # NoRequest =>
               asked'[w] = asked[w] \/ asked'[w].now = clock, clock \in Nat
    PROVE  OnTime'
<1>1. Total' = Total
  BY UncreditedTotal
<1>2. \A w \in Window : asked'[w] # NoRequest => asked'[w].now <= clock'
  BY DEF OnTime
<1> QED
  BY <1>1, <1>2 DEF OnTime

LEMMA PaidStays ==
    ASSUME Paid, UNCHANGED <<session, worked, phases>>
    PROVE  Paid'
BY UncreditedTotal DEF Paid, LeftToCredit

-----------------------------------------------------------------------------
(* What each request leaves of the phase.                                    *)

LEMMA SettledEffect ==
    ASSUME NEW s \in Session, NEW now \in Nat, NEW keep \in BOOLEAN
    PROVE  /\ Settled(s, now, keep).length = s.length
           /\ Settled(s, now, keep).elapsed = s.elapsed + Credit(s, now)
           /\ Settled(s, now, keep).since \in {Nil, now}
<1> DEFINE elapsed == s.elapsed + Credit(s, now)
           since == IF s.since # Nil /\ keep /\ elapsed < s.length THEN now ELSE Nil
<1>1. since \in {Nil, now}
  OBVIOUS
<1>2. Settled(s, now, keep) = [s EXCEPT !.elapsed = elapsed, !.since = since]
  BY DEF Settled
<1> HIDE DEF elapsed, since
<1>3. /\ Settled(s, now, keep).length = s.length
      /\ Settled(s, now, keep).elapsed = elapsed
      /\ Settled(s, now, keep).since = since
  BY <1>2 DEF Session
<1> QED
  BY <1>1, <1>3 DEF elapsed

LEMMA OnCursorEffect ==
    ASSUME NEW s \in Session
    PROVE  /\ OnCursor(s).length = s.length /\ OnCursor(s).elapsed = s.elapsed
           /\ OnCursor(s).since = s.since
BY DEF OnCursor, Session

\* What an answer that begins no phase credits, and what is left of the phase.
LEMMA SettlesCredit ==
    ASSUME TypeOK, NEW w \in Window, Settles(w)
    PROVE  /\ session \in Session /\ asked[w].do \in Act /\ asked[w].now \in Nat
           /\ \/ UNCHANGED <<session, worked, latest, overtaken>>
              \/ Reads(w) /\ UNCHANGED worked /\ session' = [session EXCEPT !.since = asked[w].now]
              \/ /\ Reads(w) /\ worked' = Credited(session, asked[w].now)
                 /\ session'.length = session.length
                 /\ session'.elapsed = session.elapsed + Credit(session, asked[w].now)
                 /\ session'.since \in {Nil, asked[w].now}
<1>1. Running /\ asked[w].do \in Act
  BY DEF Settles, Pause, Resume, Sync, End, Pass, Select, Again, Act
<1>2. session \in Session /\ asked[w].now \in Nat
  BY <1>1, AskedType, RunningType
<1> DEFINE s(keep) == AfterSettling(w, keep)
           Left(r) == /\ r.length = session.length
                      /\ r.elapsed = session.elapsed + Credit(session, asked[w].now)
                      /\ r.since \in {Nil, asked[w].now}
<1>3. \A keep \in BOOLEAN : s(keep) \in Session /\ Left(s(keep)) /\ s(keep).passed \in SUBSET Entry
  <2> SUFFICES ASSUME NEW keep \in BOOLEAN
               PROVE  s(keep) \in Session /\ Left(s(keep)) /\ s(keep).passed \in SUBSET Entry
    OBVIOUS
  <2>1. s(keep) = Settled(session, asked[w].now, keep)
    BY DEF AfterSettling
  <2> HIDE DEF s
  <2>2. s(keep) \in Session
    BY <1>2, <2>1, SettledType
  <2>3. Left(s(keep))
    BY <1>2, <2>1, SettledEffect
  <2> QED
    BY <2>2, <2>3 DEF Session
<1> HIDE DEF s
<1>4. s(TRUE) \in Session /\ Left(s(TRUE)) /\ s(FALSE) \in Session /\ Left(s(FALSE))
  BY <1>3
<1>5. \A r \in Session : Left(r) => Left(OnCursor(r))
  BY OnCursorEffect
<1>6. Left([s(FALSE) EXCEPT !.ended = TRUE])
  BY <1>4 DEF Session
<1>7. /\ [s(TRUE) EXCEPT !.passed = {}] \in Session
      /\ Left([s(TRUE) EXCEPT !.passed = {}])
  BY <1>4 DEF Session
<1>8. ASSUME asked[w].entry \in Entry
      PROVE  /\ Left(OnCursor([s(TRUE) EXCEPT !.passed = s(TRUE).passed \cup {asked[w].entry}]))
             /\ Left([s(TRUE) EXCEPT !.passed = s(TRUE).passed \ {asked[w].entry},
                                     !.entry = asked[w].entry])
  <2> DEFINE p == s(TRUE).passed \cup {asked[w].entry}
             q == s(TRUE).passed \ {asked[w].entry}
  <2>1. p \in SUBSET Entry
    BY <1>3, <1>8
  <2> HIDE DEF p, q
  <2>2. /\ [s(TRUE) EXCEPT !.passed = p] \in Session
        /\ Left([s(TRUE) EXCEPT !.passed = p])
    BY <1>4, <2>1 DEF Session
  <2>3. Left([s(TRUE) EXCEPT !.passed = q, !.entry = asked[w].entry])
    BY <1>4 DEF Session
  <2> QED
    BY <1>5, <2>2, <2>3 DEF p, q
<1> DEFINE Done == /\ Reads(w) /\ worked' = Credited(session, asked[w].now)
                   /\ Left(session')
<1>9. ASSUME NEW r, Left(r), SettleAnd(w, r) PROVE Done
  BY <1>9 DEF SettleAnd, Reads
<1> HIDE DEF Left
<1>10. CASE Pause(w)
  <2>1. Done
    BY <1>4, <1>9, <1>10 DEF Pause, s
  <2> QED
    BY <1>1, <1>2, <2>1 DEF Left
<1>11. CASE Resume(w)
  BY <1>1, <1>2, <1>11 DEF Resume, Reads
<1>12. CASE Sync(w)
  <2>1. Done
    BY <1>4, <1>5, <1>9, <1>12 DEF Sync, s
  <2> QED
    BY <1>1, <1>2, <2>1 DEF Left
<1>13. CASE End(w)
  <2>1. Done
    BY <1>6, <1>9, <1>13 DEF End, s
  <2> QED
    BY <1>1, <1>2, <2>1 DEF Left
<1>14. CASE Pass(w)
  <2>1. CASE asked[w].entry # session.entry
    BY <1>1, <1>2, <1>14, <2>1 DEF Pass
  <2>2. CASE asked[w].entry = session.entry
    <3>1. asked[w].entry \in Entry
      BY <1>14 DEF Pass, TypeOK
    <3>2. Done
      BY <1>8, <1>9, <1>14, <2>2, <3>1 DEF Pass, s
    <3> QED
      BY <1>1, <1>2, <3>2 DEF Left
  <2> QED
    BY <2>1, <2>2
<1>15. CASE Select(w)
  <2>1. CASE asked[w].entry \in closed
    BY <1>1, <1>2, <1>15, <2>1 DEF Select
  <2>2. CASE asked[w].entry \notin closed
    <3>1. asked[w].entry \in Entry
      BY <1>15 DEF Select, TypeOK
    <3>2. Done
      BY <1>8, <1>9, <1>15, <2>2, <3>1 DEF Select, s
    <3> QED
      BY <1>1, <1>2, <3>2 DEF Left
  <2> QED
    BY <2>1, <2>2
<1>16. CASE Again(w)
  <2>1. Done
    BY <1>5, <1>7, <1>9, <1>16 DEF Again, s
  <2> QED
    BY <1>1, <1>2, <2>1 DEF Left
<1> QED
  BY <1>10, <1>11, <1>12, <1>13, <1>14, <1>15, <1>16 DEF Settles

-----------------------------------------------------------------------------
(* Phases are paid for in advance.                                           *)

LEMMA OneMore ==
    ASSUME NEW p \in Nat, NEW n \in Nat
    PROVE  p * n \in Nat /\ (p + 1) * n = p * n + n
OBVIOUS

LEMMA PaidType ==
    ASSUME TypeOK
    PROVE  /\ phases * Length["focus"] \in Nat
           /\ (phases + 1) * Length["focus"] = phases * Length["focus"] + Length["focus"]
           /\ Length["focus"] \in Nat
<1>1. phases \in Nat /\ Length["focus"] \in Nat
  BY LengthAssumption DEF TypeOK, Phase
<1> DEFINE n == Length["focus"]
<1>2. n \in Nat
  BY <1>1
<1> HIDE DEF n
<1>3. phases * n \in Nat /\ (phases + 1) * n = phases * n + n
  BY <1>1, <1>2, OneMore
<1> QED
  BY <1>2, <1>3 DEF n

\* What a phase credits it may credit no more.
LEMMA PaidSettled ==
    ASSUME TypeOK, Paid, IsFiniteSet(Seconds), session \in Session, session' \in Session,
           NEW now \in Nat, UNCHANGED phases,
           session'.phase = session.phase, session'.length = session.length,
           session'.elapsed = session.elapsed + Credit(session, now),
           Total' \in Nat,
           Total' = Total \/ (session.phase = "focus" /\ Total' = Total + Credit(session, now))
    PROVE  Paid'
<1>1. session # NoSession /\ session' # NoSession
  BY NilAssumption DEF Session, NoSession
<1>2. /\ session.length \in Nat /\ session.elapsed \in Nat /\ Total \in Nat
      /\ phases * Length["focus"] \in Nat
  BY TotalType, PaidType DEF Session
<1>3. CASE session.phase = "focus"
  <2>1. /\ session.length = Length["focus"]
        /\ Total + Most(0, session.length - session.elapsed) <= phases * Length["focus"]
    BY <1>1, <1>3 DEF Paid, LeftToCredit
  <2>2. /\ Credit(session, now) \in Nat
        /\ Most(0, session'.length - session'.elapsed)
             = Most(0, session.length - session.elapsed) - Credit(session, now)
    BY CreditBound
  <2>3. Most(0, session.length - session.elapsed) \in Nat
    BY <1>2 DEF Most
  <2> DEFINE most == Most(0, session.length - session.elapsed)
             credit == Credit(session, now)
             rest == Most(0, session'.length - session'.elapsed)
  <2>4. most \in Nat /\ credit \in Nat /\ rest = most - credit
    BY <2>2, <2>3
  <2>5. Total + most <= phases * Length["focus"]
    BY <2>1
  <2>6. Total' = Total \/ Total' = Total + credit
    OBVIOUS
  <2> HIDE DEF most, credit, rest
  <2>7. Total' + rest <= phases * Length["focus"]
    BY <1>2, <2>4, <2>5, <2>6
  <2>8. LeftToCredit' = rest
    BY <1>1, <1>3 DEF LeftToCredit, rest
  <2>9. Total' + LeftToCredit' <= phases' * Length["focus"]
    BY <2>7, <2>8
  <2> QED
    BY <2>1, <2>9 DEF Paid
<1>4. CASE session.phase # "focus"
  <2>1. LeftToCredit = 0 /\ LeftToCredit' = 0
    BY <1>4 DEF LeftToCredit
  <2>2. Total' + LeftToCredit' <= phases' * Length["focus"]
    BY <1>4, <2>1 DEF Paid
  <2> QED
    BY <1>4, <2>2 DEF Paid
<1> QED
  BY <1>3, <1>4

\* A phase that begins is paid for, if it is one of focus.
LEMMA PaidBegun ==
    ASSUME TypeOK, IsFiniteSet(Seconds), session' \in Session, session'.elapsed = 0,
           session'.length = Length[session'.phase],
           phases' = IF session'.phase = "focus" THEN phases + 1 ELSE phases,
           Total' \in Nat, Total' <= phases * Length["focus"]
    PROVE  Paid'
<1>1. /\ phases * Length["focus"] \in Nat
      /\ (phases + 1) * Length["focus"] = phases * Length["focus"] + Length["focus"]
      /\ Length["focus"] \in Nat
  BY PaidType
<1>2. session' # NoSession
  BY NilAssumption DEF Session, NoSession
<1>3. CASE session'.phase = "focus"
  <2>1. LeftToCredit' = Length["focus"]
    BY <1>1, <1>2, <1>3 DEF LeftToCredit, Most
  <2>2. Total' + LeftToCredit' <= phases' * Length["focus"]
    BY <1>1, <1>3, <2>1
  <2> QED
    BY <1>3, <2>2 DEF Paid
<1>4. CASE session'.phase # "focus"
  <2>1. LeftToCredit' = 0
    BY <1>4 DEF LeftToCredit
  <2>2. Total' + LeftToCredit' <= phases' * Length["focus"]
    BY <1>1, <1>4, <2>1
  <2> QED
    BY <1>4, <2>2 DEF Paid
<1> QED
  BY <1>3, <1>4

LEMMA PaidNow ==
    ASSUME TypeOK, Paid, IsFiniteSet(Seconds)
    PROVE  Total <= phases * Length["focus"]
<1>1. Total \in Nat /\ phases * Length["focus"] \in Nat
  BY TotalType, PaidType
<1>2. LeftToCredit \in Nat
  BY DEF LeftToCredit, TypeOK, Session, Most
<1> QED
  BY <1>1, <1>2 DEF Paid

\* Up to the end of its phase a session has credited what it was paid for.
LEMMA PaidCredited ==
    ASSUME TypeOK, Paid, IsFiniteSet(Seconds), session \in Session, NEW now \in Nat,
           worked' = Credited(session, now)
    PROVE  Total' <= phases * Length["focus"]
<1>1. /\ Total' \in Nat
      /\ Total' = Total \/ (session.phase = "focus" /\ Total' = Total + Credit(session, now))
  BY CreditedTotal
<1>2. Total <= phases * Length["focus"]
  BY PaidNow
<1>3. CASE session.phase = "focus" /\ Total' = Total + Credit(session, now)
  <2>1. session # NoSession
    BY NilAssumption DEF Session, NoSession
  <2>2. Total + Most(0, session.length - session.elapsed) <= phases * Length["focus"]
    BY <1>3, <2>1 DEF Paid, LeftToCredit
  <2>3. Credit(session, now) <= Most(0, session.length - session.elapsed)
    BY CreditBound
  <2>4. Credit(session, now) \in Nat /\ Total \in Nat /\ phases * Length["focus"] \in Nat
    BY CreditBound, TotalType, PaidType
  <2>5. Most(0, session.length - session.elapsed) \in Nat
    BY DEF Session, Most
  <2> QED
    BY <1>3, <2>2, <2>3, <2>4, <2>5
<1> QED
  BY <1>1, <1>2, <1>3

LEMMA InitCredit == Init => CInv
<1> SUFFICES ASSUME Init PROVE CInv
  OBVIOUS
<1>1. Seconds = {}
  BY DEF Init, Seconds
<1>2. IsFiniteSet(Seconds) /\ Total = 0
  BY <1>1, FS_EmptySet DEF Total
<1>3. Length["focus"] \in Nat
  BY LengthAssumption DEF Phase
<1>4. Paid
  BY <1>2, <1>3 DEF Init, Paid, LeftToCredit
<1>5. OnTime
  BY <1>2 DEF Init, OnTime
<1> QED
  BY <1>2, <1>4, <1>5 DEF CInv

LEMMA NextPhaseEffect ==
    ASSUME NEW s \in Session, NEW now \in Nat, NEW keepGoing \in BOOLEAN
    PROVE  /\ NextPhase(s, now, keepGoing).length = Length[NextPhase(s, now, keepGoing).phase]
           /\ NextPhase(s, now, keepGoing).elapsed = 0
           /\ NextPhase(s, now, keepGoing).since = now
BY DEF NextPhase, Session

LEMMA StepCredit ==
    ASSUME TypeOK, CInv, [Next]_vars
    PROVE  CInv'
<1>0. IsFiniteSet(Seconds) /\ Paid /\ OnTime /\ Total \in Nat /\ clock \in Nat
  BY TotalType DEF CInv, TypeOK
<1>1. ASSUME UNCHANGED <<clock, session, worked, phases, latest, overtaken>>,
             \A w \in Window : asked'[w] # NoRequest =>
                 asked'[w] = asked[w] \/ asked'[w].now = clock
      PROVE  CInv'
  <2>1. Seconds' = Seconds
    BY <1>1, UncreditedTotal
  <2> QED
    BY <1>0, <1>1, <2>1, OnTimeStays, PaidStays DEF CInv
<1>2. ASSUME NEW w \in Window, Answer(w)
      PROVE  \A x \in Window : asked'[x] # NoRequest => asked'[x] = asked[x]
  BY <1>2, AnswerType
<1>3. ASSUME NEW w \in Window, Ask(w) PROVE CInv'
  <2>1. \A x \in Window : x # w => asked'[x] = asked[x]
    BY <1>3, AskFacts
  <2>2. asked'[w].now = clock
    BY <1>3 DEF Ask, TypeOK
  <2> QED
    BY <1>1, <1>3, <2>1, <2>2 DEF Ask, history
<1>4. ASSUME NEW w \in Window, Start(w) PROVE CInv'
  <2>1. CASE Running
    BY <1>1, <1>2, <1>4, <2>1 DEF Start, history
  <2>2. CASE ~Running
    <3>1. asked[w].do \in Act /\ asked[w].now \in Nat
      BY <1>4, AskedType DEF Start, Act
    <3>2. /\ session' = OnCursor(Fresh(asked[w].now)) /\ Reads(w) /\ Answer(w)
          /\ phases' = phases + 1 /\ UNCHANGED <<clock, worked>>
      BY <1>4, <2>2 DEF Start, Reads
    <3>3. /\ Fresh(asked[w].now) \in Session
          /\ Fresh(asked[w].now).phase = "focus" /\ Fresh(asked[w].now).length = Length["focus"]
          /\ Fresh(asked[w].now).elapsed = 0 /\ Fresh(asked[w].now).since = asked[w].now
      BY <3>1, FreshType DEF Fresh
    <3>4. /\ session' \in Session
          /\ session'.phase = "focus" /\ session'.length = Length["focus"]
          /\ session'.elapsed = 0 /\ session'.since = asked[w].now
      BY <3>2, <3>3, OnCursorType, OnCursorEffect
    <3>5. Seconds' = Seconds /\ Total' = Total
      BY <3>2, UncreditedTotal
    <3>6. OnTime'
      BY <1>0, <3>1, <3>2, <3>4, <3>5, OnTimeStep
    <3>7. Paid'
      BY <1>0, <3>2, <3>4, <3>5, PaidNow, PaidBegun
    <3> QED
      BY <1>0, <3>5, <3>6, <3>7 DEF CInv
  <2> QED
    BY <2>1, <2>2
<1>5. ASSUME NEW w \in Window, Ignored(w) PROVE CInv'
  BY <1>1, <1>2, <1>5 DEF Ignored, history
<1>6. ASSUME NEW w \in Window, Settles(w) PROVE CInv'
  <2>1. /\ session' \in Session /\ session'.phase = session.phase
        /\ Answer(w) /\ UNCHANGED <<clock, phases>>
    BY <1>6, SettlesFacts DEF history
  <2>2. session \in Session /\ asked[w].do \in Act /\ asked[w].now \in Nat
    BY <1>6, SettlesCredit
  <2>3. CASE UNCHANGED <<session, worked, latest, overtaken>>
    BY <1>1, <1>2, <2>1, <2>3
  <2>4. CASE Reads(w) /\ UNCHANGED worked /\ session' = [session EXCEPT !.since = asked[w].now]
    <3>1. /\ session'.since = asked[w].now /\ session'.length = session.length
          /\ session'.elapsed = session.elapsed
      BY <2>2, <2>4 DEF Session
    <3>2. Seconds' = Seconds /\ Total' = Total
      BY <2>4, UncreditedTotal
    <3>3. OnTime'
      BY <1>0, <2>1, <2>2, <2>4, <3>1, <3>2, OnTimeStep
    <3>4. LeftToCredit' = LeftToCredit
      <4>1. session # NoSession /\ session' # NoSession
        BY <2>1, <2>2, NilAssumption DEF Session, NoSession
      <4> QED
        BY <2>1, <3>1, <4>1 DEF LeftToCredit
    <3>5. Paid'
      <4>1. session # NoSession
        BY <2>2, NilAssumption DEF Session, NoSession
      <4> QED
        BY <1>0, <2>1, <3>1, <3>2, <3>4, <4>1 DEF Paid
    <3> QED
      BY <1>0, <3>2, <3>3, <3>5 DEF CInv
  <2>5. CASE /\ Reads(w) /\ worked' = Credited(session, asked[w].now)
             /\ session'.length = session.length
             /\ session'.elapsed = session.elapsed + Credit(session, asked[w].now)
             /\ session'.since \in {Nil, asked[w].now}
    <3>1. /\ IsFiniteSet(Seconds') /\ Total' \in Nat
          /\ \/ Total' = Total
             \/ session.phase = "focus" /\ Total' = Total + Credit(session, asked[w].now)
      BY <1>0, <2>2, <2>5, CreditedTotal
    <3>2. OnTime'
      BY <1>0, <2>1, <2>2, <2>5, <3>1, OnTimeStep
    <3>3. Paid'
      BY <1>0, <2>1, <2>2, <2>5, <3>1, PaidSettled
    <3> QED
      BY <3>1, <3>2, <3>3 DEF CInv
  <2> QED
    BY <1>6, <2>3, <2>4, <2>5, SettlesCredit
<1>7. ASSUME NEW w \in Window, Advance(w) PROVE CInv'
  <2>1. CASE Stale(w)
    BY <1>1, <1>2, <1>7, <2>1 DEF Advance, history
  <2>2. CASE ~Stale(w)
    <3> DEFINE keepGoing == asked[w].do = "keep_going"
               s == NextPhase(AfterSettling(w, FALSE), asked[w].now, asked[w].do = "keep_going")
    <3>1. /\ asked[w].do \in Act /\ asked[w].now \in Nat
          /\ session \in Session /\ session' \in Session
          /\ Answer(w) /\ UNCHANGED clock
      BY <1>7, <2>2, AskedType, AdvanceFacts DEF Advance, Act
    <3>2. /\ session' = OnCursor(s) /\ Reads(w) /\ worked' = Credited(session, asked[w].now)
          /\ phases' = IF s.phase = "focus" THEN phases + 1 ELSE phases
      BY <1>7, <2>2 DEF Advance, SettleAnd, Reads
    <3>3. AfterSettling(w, FALSE) \in Session
      BY <3>1, SettledType DEF AfterSettling
    <3>4. /\ s \in Session /\ s.length = Length[s.phase] /\ s.elapsed = 0
          /\ s.since = asked[w].now
      BY <3>1, <3>3, NextPhaseType, NextPhaseEffect, ZenonT(40)
    <3> HIDE DEF s
    <3>5. /\ session'.phase = s.phase /\ session'.length = s.length
          /\ session'.elapsed = 0 /\ session'.since = asked[w].now
      BY <3>2, <3>4, OnCursorType, OnCursorEffect
    <3>6. /\ IsFiniteSet(Seconds') /\ Total' \in Nat
          /\ \/ Total' = Total
             \/ session.phase = "focus" /\ Total' = Total + Credit(session, asked[w].now)
      BY <1>0, <3>1, <3>2, CreditedTotal
    <3>7. OnTime'
      BY <1>0, <3>1, <3>2, <3>5, <3>6, OnTimeStep
    <3>8. Total' <= phases * Length["focus"]
      BY <1>0, <3>1, <3>2, PaidCredited
    <3>9. Paid'
      BY <1>0, <3>1, <3>2, <3>4, <3>5, <3>6, <3>8, PaidBegun
    <3> QED
      BY <3>6, <3>7, <3>9 DEF CInv
  <2> QED
    BY <2>1, <2>2
<1>8. ASSUME NEW e \in Entry, CloseRow(e) PROVE CInv'
  BY <1>1, <1>8 DEF CloseRow, history
<1>9. CASE TimePasses
  <2>1. /\ clock' = clock + 1
        /\ UNCHANGED <<session, worked, asked, phases, latest, overtaken>>
    BY <1>9 DEF TimePasses, history
  <2>2. Seconds' = Seconds /\ Total' = Total
    BY <2>1, UncreditedTotal
  <2>3. latest \in Nat /\ \A w \in Window : asked[w] # NoRequest => asked[w].now \in Nat
    BY DEF TypeOK, Request
  <2>4. OnTime'
    BY <1>0, <2>1, <2>2, <2>3 DEF OnTime
  <2> QED
    BY <1>0, <2>1, <2>2, <2>4, PaidStays DEF CInv
<1>10. CASE UNCHANGED vars
  BY <1>1, <1>10 DEF vars, history
<1> QED
  BY <1>3, <1>4, <1>5, <1>6, <1>7, <1>8, <1>9, <1>10 DEF Next, Settles

\* Phases are paid for in advance, and requests that are not overtaken credit what
\* lies between the anchor and the time they read.
THEOREM PaidForAndOnTime == Spec => []CInv
<1>1. Init => TypeOK /\ CInv
  BY InitType, InitCredit
<1>2. TypeOK /\ CInv /\ [Next]_vars => (TypeOK /\ CInv)'
  BY StepType, StepCredit
<1> QED
  BY <1>1, <1>2, PTL DEF Spec

\* A phase credits at most its length, however long nobody looked at the session, and
\* no second is credited twice, unless a request settled with an older time than the
\* one before it.
THEOREM NoTimeIsMadeUp == Spec => []CreditIsWork
<1>1. TypeOK /\ CInv => CreditIsWork
  <2> SUFFICES ASSUME TypeOK, CInv PROVE CreditIsWork
    OBVIOUS
  <2>1. Total <= phases * Length["focus"]
    BY PaidNow DEF CInv
  <2>2. Total \in Nat /\ latest \in Nat /\ clock \in Nat /\ latest <= clock
    BY TotalType DEF CInv, OnTime, TypeOK
  <2>3. ~overtaken => Total <= clock
    BY <2>2 DEF CInv, OnTime
  <2> QED
    BY <2>1, <2>3 DEF CreditIsWork
<1> QED
  BY <1>1, TypeCorrect, PaidForAndOnTime, PTL

-----------------------------------------------------------------------------
(* The day plan: rows.                                                       *)

\* The rows of day_plan, by day and thing.
Table == [Day -> [What -> Seq(PlanRow)]]

\* A sequence is empty just if it has no first element.
LEMMA EmptyRows ==
    ASSUME NEW S, NEW s \in Seq(S)
    PROVE  s # <<>> <=> 1 \in DOMAIN s
BY SMT

\* Editing one row of the table, and adding one.
Edited(p, d, w, n, r) == [p EXCEPT ![d][w][n] = r]
Added(p, d, w, r) == [p EXCEPT ![d][w] = Append(@, r)]

LEMMA RowEdited ==
    ASSUME NEW p \in Table, NEW d \in Day, NEW w \in What, NEW n \in DOMAIN p[d][w],
           NEW r \in PlanRow
    PROVE  /\ Edited(p, d, w, n, r) \in Table
           /\ \A e \in Day, v \in What :
                DOMAIN Edited(p, d, w, n, r)[e][v] = DOMAIN p[e][v]
           /\ \A e \in Day, v \in What : \A m \in DOMAIN p[e][v] :
                Edited(p, d, w, n, r)[e][v][m] =
                    IF e = d /\ v = w /\ m = n THEN r ELSE p[e][v][m]
<1> DEFINE q == Edited(p, d, w, n, r)
           rows == [p[d][w] EXCEPT ![n] = r]
<1>1. rows \in Seq(PlanRow) /\ DOMAIN rows = DOMAIN p[d][w]
  <2>1. p[d][w] \in Seq(PlanRow)
    BY DEF Table
  <2> HIDE DEF PlanRow
  <2> QED BY <2>1
<1>2. q = [p EXCEPT ![d] = [p[d] EXCEPT ![w] = rows]]
  BY DEF Edited
<1>3. \A m \in DOMAIN p[d][w] : rows[m] = IF m = n THEN r ELSE p[d][w][m]
  BY <1>1
<1> HIDE DEF rows, q
<1>4. q \in Table
  BY <1>1, <1>2 DEF Table
<1>5. \A e \in Day, v \in What : q[e][v] = IF e = d /\ v = w THEN rows ELSE p[e][v]
  BY <1>2 DEF Table
<1>6. \A e \in Day, v \in What : DOMAIN q[e][v] = DOMAIN p[e][v]
  BY <1>1, <1>5
<1>7. \A e \in Day, v \in What : \A m \in DOMAIN p[e][v] :
        q[e][v][m] = IF e = d /\ v = w /\ m = n THEN r ELSE p[e][v][m]
  BY <1>3, <1>5
<1> QED BY <1>4, <1>6, <1>7 DEF q

LEMMA RowAdded ==
    ASSUME NEW p \in Table, NEW d \in Day, NEW w \in What, NEW r \in PlanRow
    PROVE  /\ Added(p, d, w, r) \in Table
           /\ \A e \in Day, v \in What :
                e # d \/ v # w => Added(p, d, w, r)[e][v] = p[e][v]
           /\ Added(p, d, w, r)[d][w] = Append(p[d][w], r)
<1>1. p[d][w] \in Seq(PlanRow)
  BY DEF Table
<1>2. Append(p[d][w], r) \in Seq(PlanRow)
  BY <1>1
<1> QED BY <1>2 DEF Table, Added

LEMMA AfterAppend ==
    ASSUME NEW S, NEW s \in Seq(S), NEW r \in S
    PROVE  /\ DOMAIN Append(s, r) = DOMAIN s \cup {Len(s) + 1}
           /\ \A n \in DOMAIN s : Append(s, r)[n] = s[n]
           /\ Append(s, r)[Len(s) + 1] = r
           /\ Len(s) + 1 \notin DOMAIN s
           /\ s = <<>> => Len(s) + 1 = 1
OBVIOUS

-----------------------------------------------------------------------------
(* What every step does to the rows of a thing on a day: the rows there are      *)
(* stay, and one may be added where no row is meant.                             *)

Follows(d, w, r, s) ==
    /\ s.source = r.source
    /\ Live(s) => Live(r) \/ <<d, w>> \in undone'
    /\ s.rolled = r.rolled \/ (s.rolled \in Day /\ plan'[s.rolled][w] # <<>>)
    /\ w \notin strayed' => s.list = ListOf(w)'

Stays(d, w) == \A n \in DOMAIN plan[d][w] :
    n \in DOMAIN plan'[d][w] /\ Follows(d, w, plan[d][w][n], plan'[d][w][n])

Grows(d, w) == \A n \in DOMAIN plan'[d][w] \ DOMAIN plan[d][w] :
    LET row == plan'[d][w][n]
    IN  /\ row.rolled = None
        /\ d \notin opened' => row.source = "user"
        /\ w \notin strayed' =>
            /\ row.list = ListOf(w)'
            /\ row.source # "user" => n = 1
            /\ \A m \in DOMAIN plan'[d][w] : m # n => ~Live(plan'[d][w][m])

Orderly ==
    /\ \A d \in Day, w \in What : Stays(d, w) /\ Grows(d, w)
    /\ strayed \subseteq strayed' /\ undone \subseteq undone' /\ opened \subseteq opened'

LEMMA RowsStay ==
    ASSUME PlanOK, PlanOK', Orderly,
           NEW d \in Day, NEW w \in What, plan[d][w] # <<>>
    PROVE  plan'[d][w] # <<>>
<1>1. plan[d][w] \in Seq(PlanRow) /\ plan'[d][w] \in Seq(PlanRow)
  BY DEF PlanOK
<1>2. 1 \in DOMAIN plan[d][w]
  BY <1>1, EmptyRows
<1>3. 1 \in DOMAIN plan'[d][w]
  BY <1>2 DEF Orderly, Stays
<1> QED BY <1>1, <1>3, EmptyRows

LEMMA OrderlyKeeps ==
    ASSUME PlanConstants, PlanInv, PlanOK', Orderly, RollsHold'
    PROVE  PlanInv'
<1> USE DEF PlanInv
<1>1. Homed'
  <2> SUFFICES ASSUME NEW d \in Day, NEW w \in What, w \notin strayed',
                      NEW n \in DOMAIN plan'[d][w]
               PROVE  plan'[d][w][n].list = ListOf(w)'
    BY DEF Homed, Day, What
  <2>1. CASE n \in DOMAIN plan[d][w]
    BY <2>1 DEF Orderly, Stays, Follows
  <2>2. CASE n \notin DOMAIN plan[d][w]
    BY <2>2 DEF Orderly, Grows
  <2> QED BY <2>1, <2>2
<1>2. Arrived'
  <2> SUFFICES ASSUME NEW d \in Day, NEW w \in What, NEW n \in DOMAIN plan'[d][w],
                      plan'[d][w][n].rolled # None
               PROVE  plan'[plan'[d][w][n].rolled][w] # <<>>
    BY DEF Arrived, Day, What
  <2>1. n \in DOMAIN plan[d][w]
    BY DEF Orderly, Grows
  <2>2. Follows(d, w, plan[d][w][n], plan'[d][w][n])
    BY <2>1 DEF Orderly, Stays
  <2>3. CASE plan'[d][w][n].rolled = plan[d][w][n].rolled
    <3>1. plan[d][w] \in Seq(PlanRow)
      BY DEF PlanOK
    <3>2. plan[d][w][n].rolled \in Day \cup {None}
      <4>1. plan[d][w][n] \in PlanRow
        BY <2>1, <3>1
      <4> QED BY <4>1 DEF PlanRow
    <3>3. plan[plan[d][w][n].rolled][w] # <<>>
      BY <2>1, <2>3 DEF Arrived
    <3> QED BY <2>3, <3>2, <3>3, RowsStay
  <2> QED BY <2>2, <2>3 DEF Follows
<1>3. Untouched'
  <2> SUFFICES ASSUME NEW d \in Day, d \notin opened', NEW w \in What,
                      NEW n \in DOMAIN plan'[d][w]
               PROVE  plan'[d][w][n].source = "user"
    BY DEF Untouched, Day, What
  <2>1. CASE n \in DOMAIN plan[d][w]
    <3>1. plan[d][w][n].source = "user"
      BY <2>1 DEF Orderly, Untouched
    <3> QED BY <2>1, <3>1 DEF Orderly, Stays, Follows
  <2>2. CASE n \notin DOMAIN plan[d][w]
    BY <2>2 DEF Orderly, Grows
  <2> QED BY <2>1, <2>2
<1>4. OneRow'
  <2> SUFFICES ASSUME NEW d \in Day, NEW w \in What, w \notin strayed'
               PROVE  /\ \A m, n \in DOMAIN plan'[d][w] :
                            Live(plan'[d][w][m]) /\ Live(plan'[d][w][n]) /\ m # n =>
                                <<d, w>> \in undone'
                      /\ \A n \in DOMAIN plan'[d][w] : plan'[d][w][n].source # "user" => n = 1
    BY DEF OneRow, Day, What, Live
  <2>1. Stays(d, w) /\ Grows(d, w) /\ w \notin strayed /\ undone \subseteq undone'
    BY DEF Orderly
  <2>2. ASSUME NEW m \in DOMAIN plan'[d][w], NEW n \in DOMAIN plan'[d][w], m # n,
               Live(plan'[d][w][m]), Live(plan'[d][w][n])
        PROVE  <<d, w>> \in undone'
    <3>1. m \in DOMAIN plan[d][w] /\ n \in DOMAIN plan[d][w]
      BY <2>1, <2>2 DEF Grows
    <3>2. CASE Live(plan[d][w][m]) /\ Live(plan[d][w][n])
      BY <2>1, <2>2, <3>1, <3>2 DEF OneRow
    <3> QED BY <2>1, <2>2, <3>1, <3>2 DEF Stays, Follows
  <2>3. ASSUME NEW n \in DOMAIN plan'[d][w], plan'[d][w][n].source # "user" PROVE n = 1
    <3>1. CASE n \in DOMAIN plan[d][w]
      BY <2>1, <2>3, <3>1 DEF Stays, Follows, OneRow
    <3>2. CASE n \notin DOMAIN plan[d][w]
      BY <2>1, <2>3, <3>2 DEF Grows
    <3> QED BY <3>1, <3>2
  <2> QED BY <2>2, <2>3
<1> QED BY <1>1, <1>2, <1>3, <1>4

\* A step that leaves rows, lists and history alone.
LEMMA RowsAlone ==
    ASSUME PlanInv, UNCHANGED <<plan, at, strayed, undone>>, opened \subseteq opened'
    PROVE  Orderly
<1>1. \A w : ListOf(w)' = ListOf(w)
  BY DEF ListOf
<1>2. \A d \in Day, w \in What : Stays(d, w)
  BY <1>1 DEF Stays, Follows, PlanInv, Homed
<1>3. \A d, w : Grows(d, w)
  BY DEF Grows
<1> QED BY <1>2, <1>3 DEF Orderly

\* The rolls that stay under way keep what they rest on.
LEMMA RollsLeft ==
    ASSUME PlanInv, PlanOK', Orderly, UNCHANGED at,
           \A c \in Client : roll'[c] # NoRoll => roll'[c] = roll[c]
    PROVE  RollsHold'
<1> SUFFICES ASSUME NEW c \in Client, roll'[c] # NoRoll, roll'[c] = roll[c]
             PROVE  /\ roll[c].n \in DOMAIN plan'[roll[c].day][roll[c].what]
                    /\ roll[c].what \notin strayed' =>
                            roll[c].list = ListOf(roll[c].what)
                    /\ roll[c].pc = "stamp" => plan'[roll[c].to][roll[c].what] # <<>>
  BY DEF RollsHold, NoRoll, ListOf
<1>1. roll[c].day \in Day /\ roll[c].to \in Day /\ roll[c].what \in What
  BY DEF PlanInv, PlanOK, Rolling, What
<1>2. /\ roll[c].n \in DOMAIN plan[roll[c].day][roll[c].what]
      /\ roll[c].what \notin strayed => roll[c].list = ListOf(roll[c].what)
      /\ roll[c].pc = "stamp" => plan[roll[c].to][roll[c].what] # <<>>
  BY DEF PlanInv, RollsHold
<1>3. roll[c].n \in DOMAIN plan'[roll[c].day][roll[c].what]
  BY <1>1, <1>2 DEF Orderly, Stays
<1>4. roll[c].pc = "stamp" => plan'[roll[c].to][roll[c].what] # <<>>
  BY <1>1, <1>2, RowsStay DEF PlanInv
<1> QED BY <1>2, <1>3, <1>4 DEF Orderly

LEMMA RollsAlone ==
    ASSUME PlanInv, PlanOK', Orderly, UNCHANGED <<roll, at>>
    PROVE  RollsHold'
BY RollsLeft

-----------------------------------------------------------------------------
(* The shapes in which steps change the table.                                  *)

\* What a step may make of the row r of w on d.
Patch(d, w, r, s) ==
    /\ s.source = r.source /\ s.list = r.list
    /\ s.rolled = r.rolled \/ (s.rolled \in Day /\ plan[s.rolled][w] # <<>>)
    /\ Live(s) => Live(r) \/ <<d, w>> \in undone'

LEMMA RowPatched ==
    ASSUME PlanConstants, PlanInv, NEW d \in Day, NEW w \in What,
           NEW n \in DOMAIN plan[d][w], NEW r \in PlanRow,
           Patch(d, w, plan[d][w][n], r),
           plan' = Edited(plan, d, w, n, r),
           UNCHANGED <<at, strayed, opened>>, undone \subseteq undone'
    PROVE  plan' \in Table /\ Orderly
<1>1. plan \in Table
  BY DEF PlanInv, PlanOK, Table
<1>2. /\ plan' \in Table
      /\ \A e \in Day, v \in What : DOMAIN plan'[e][v] = DOMAIN plan[e][v]
      /\ \A e \in Day, v \in What : \A m \in DOMAIN plan[e][v] :
            plan'[e][v][m] = IF e = d /\ v = w /\ m = n THEN r ELSE plan[e][v][m]
  BY <1>1, RowEdited
<1>3. \A v : ListOf(v)' = ListOf(v)
  BY DEF ListOf
<1>4. \A e \in Day, v \in What : plan[e][v] # <<>> => plan'[e][v] # <<>>
  <2> SUFFICES ASSUME NEW e \in Day, NEW v \in What, plan[e][v] # <<>>
               PROVE  plan'[e][v] # <<>>
    OBVIOUS
  <2>1. plan[e][v] \in Seq(PlanRow) /\ plan'[e][v] \in Seq(PlanRow)
    BY <1>1, <1>2 DEF Table
  <2> QED BY <1>2, <2>1, EmptyRows
<1>5. ASSUME NEW e \in Day, NEW v \in What PROVE Stays(e, v) /\ Grows(e, v)
  <2>1. ASSUME NEW m \in DOMAIN plan[e][v]
        PROVE  Follows(e, v, plan[e][v][m], plan'[e][v][m])
    <3>1. v \notin strayed' => plan[e][v][m].list = ListOf(v)'
      BY <1>3 DEF PlanInv, Homed
    <3>2. CASE e = d /\ v = w /\ m = n
      BY <1>2, <1>4, <3>1, <3>2 DEF Follows, Patch
    <3>3. CASE ~(e = d /\ v = w /\ m = n)
      BY <1>2, <3>1, <3>3 DEF Follows
    <3> QED BY <3>2, <3>3
  <2> QED BY <1>2, <2>1 DEF Stays, Grows
<1> QED BY <1>2, <1>5 DEF Orderly

LEMMA RowAppended ==
    ASSUME PlanConstants, PlanInv, NEW d \in Day, NEW w \in What, NEW r \in PlanRow,
           r.source = "user", r.rolled = None,
           w \notin strayed => /\ r.list = ListOf(w)
                               /\ \A m \in DOMAIN plan[d][w] : ~Live(plan[d][w][m]),
           plan' = Added(plan, d, w, r),
           UNCHANGED <<at, strayed, opened, undone>>
    PROVE  plan' \in Table /\ Orderly
<1>1. plan \in Table
  BY DEF PlanInv, PlanOK, Table
<1>2. /\ plan' \in Table
      /\ \A e \in Day, v \in What : e # d \/ v # w => plan'[e][v] = plan[e][v]
      /\ plan'[d][w] = Append(plan[d][w], r)
  BY <1>1, RowAdded
<1>3. \A v : ListOf(v)' = ListOf(v)
  BY DEF ListOf
<1>4. plan[d][w] \in Seq(PlanRow)
  BY <1>1 DEF Table
<1>5. /\ DOMAIN plan'[d][w] = DOMAIN plan[d][w] \cup {Len(plan[d][w]) + 1}
      /\ \A n \in DOMAIN plan[d][w] : plan'[d][w][n] = plan[d][w][n]
      /\ plan'[d][w][Len(plan[d][w]) + 1] = r
  BY <1>2, <1>4, AfterAppend
<1>6. ASSUME NEW e \in Day, NEW v \in What PROVE Stays(e, v) /\ Grows(e, v)
  <2>1. \A m \in DOMAIN plan[e][v] : v \notin strayed' => plan[e][v][m].list = ListOf(v)'
    BY <1>3 DEF PlanInv, Homed
  <2>2. CASE e = d /\ v = w
    <3>1. Stays(d, w)
      BY <1>5, <2>1, <2>2 DEF Stays, Follows
    <3>2. Grows(d, w)
      BY <1>3, <1>5 DEF Grows
    <3> QED BY <2>2, <3>1, <3>2
  <2>3. CASE e # d \/ v # w
    BY <1>2, <2>1, <2>3 DEF Stays, Grows, Follows
  <2> QED BY <2>2, <2>3
<1> QED BY <1>2, <1>6 DEF Orderly

\* Rows that are changed all over the table, one by one.
LEMMA RowsMapped ==
    ASSUME PlanConstants, PlanInv, plan' \in Table,
           \A d \in Day, w \in What : DOMAIN plan'[d][w] = DOMAIN plan[d][w],
           \A d \in Day, w \in What : \A n \in DOMAIN plan[d][w] :
                /\ plan'[d][w][n].source = plan[d][w][n].source
                /\ plan'[d][w][n].rolled = plan[d][w][n].rolled
                /\ plan'[d][w][n].dropped = plan[d][w][n].dropped
                /\ w \notin strayed' => plan'[d][w][n].list = ListOf(w)',
           strayed \subseteq strayed', UNCHANGED <<opened, undone>>
    PROVE  Orderly
BY DEF Orderly, Stays, Grows, Follows, Live

-----------------------------------------------------------------------------
(* The steps, one by one.                                                       *)

Good == PlanOK' /\ Orderly /\ RollsHold'

\* Steps that leave rows, lists and rolls alone.
LEMMA Quiet ==
    ASSUME PlanInv, PlanOK', UNCHANGED <<plan, at, strayed, undone, roll>>,
           opened \subseteq opened'
    PROVE  Good
BY RowsAlone, RollsAlone DEF Good

LEMMA QuietSteps ==
    ASSUME PlanConstants, PlanInv,
           \/ \E t \in Task : SetAside(t) \/ Complete(t)
           \/ \E h \in Habit : PauseHabit(h) \/ DeleteHabit(h)
           \/ \E h \in Habit, est \in Estimate \cup {None} : CreateHabit(h, est)
           \/ \E capacity \in Capacity \cup {None} : SetUsual(capacity)
           \/ \E d \in Day : \E capacity, committed : SetRitual(d, capacity, committed)
           \/ Midnight
           \/ UNCHANGED planVars
    PROVE  Good
<1>1. PlanOK
  BY DEF PlanInv
<1> USE DEF tasks, habits, ritual, Deed
<1>2. ASSUME NEW t \in Task, SetAside(t) PROVE Good
  <2>1. PlanOK'
    BY <1>1, <1>2 DEF SetAside, PlanOK
  <2> QED BY <1>2, <2>1, Quiet DEF SetAside
<1>3. ASSUME NEW t \in Task, Complete(t) PROVE Good
  <2>1. PlanOK'
    BY <1>1, <1>3 DEF Complete, PlanOK
  <2> QED BY <1>3, <2>1, Quiet DEF Complete
<1>4. ASSUME NEW h \in Habit, PauseHabit(h) PROVE Good
  <2>1. PlanOK'
    BY <1>1, <1>4 DEF PauseHabit, PlanOK
  <2> QED BY <1>4, <2>1, Quiet DEF PauseHabit
<1>5. ASSUME NEW h \in Habit, DeleteHabit(h) PROVE Good
  <2>1. PlanOK'
    BY <1>1, <1>5 DEF DeleteHabit, PlanOK
  <2> QED BY <1>5, <2>1, Quiet DEF DeleteHabit
<1>6. ASSUME NEW h \in Habit, NEW est \in Estimate \cup {None}, CreateHabit(h, est) PROVE Good
  <2>1. PlanOK'
    BY <1>1, <1>6 DEF CreateHabit, PlanOK
  <2> QED BY <1>6, <2>1, Quiet DEF CreateHabit
<1>7. ASSUME NEW capacity \in Capacity \cup {None}, SetUsual(capacity) PROVE Good
  <2>1. PlanOK'
    BY <1>1, <1>7 DEF SetUsual, PlanOK
  <2> QED BY <1>7, <2>1, Quiet DEF SetUsual
<1>8. ASSUME NEW d \in Day, NEW capacity, NEW committed,
             SetRitual(d, capacity, committed)
      PROVE  Good
  <2>1. PlanOK'
    BY <1>1, <1>8 DEF SetRitual, PlanOK
  <2> QED BY <1>8, <2>1, Quiet DEF SetRitual
<1>9. CASE Midnight
  <2>1. today' \in Day
    BY <1>1, <1>9 DEF Midnight, DayBreaks, PlanOK, Day, PlanConstants
  <2>2. PlanOK'
    BY <1>1, <1>9, <2>1 DEF Midnight, PlanOK
  <2> QED BY <1>9, <2>2, Quiet DEF Midnight
<1>10. CASE UNCHANGED planVars
  <2>1. PlanOK'
    BY <1>1, <1>10 DEF planVars, PlanOK
  <2> QED BY <1>10, <2>1, Quiet DEF planVars
<1> QED BY <1>2, <1>3, <1>4, <1>5, <1>6, <1>7, <1>8, <1>9, <1>10

\* Reading a row to roll it, and losing the rolls.
LEMMA RollsBeginAndEnd ==
    ASSUME PlanConstants, PlanInv,
           \/ RollCrash
           \/ \E c \in Client, d \in Day, w \in What, to \in Day :
                \E n \in DOMAIN plan[d][w] : RollRead(c, d, w, n, to)
    PROVE  Good
<1>1. PlanOK
  BY DEF PlanInv
<1> USE DEF tasks, habits, ritual, Deed
<1>2. CASE RollCrash
  <2>1. PlanOK'
    BY <1>1, <1>2 DEF RollCrash, PlanOK
  <2>2. Orderly
    BY <1>2, RowsAlone DEF RollCrash
  <2>3. RollsHold'
    BY <1>2 DEF RollCrash, RollsHold
  <2> QED BY <2>1, <2>2, <2>3 DEF Good
<1>3. ASSUME NEW c \in Client, NEW d \in Day, NEW w \in What, NEW to \in Day,
             NEW n \in DOMAIN plan[d][w], RollRead(c, d, w, n, to)
      PROVE  Good
  <2>1. plan[d][w] \in Seq(PlanRow)
    BY <1>1 DEF PlanOK
  <2>2. n \in Nat \ {0} /\ plan[d][w][n] \in PlanRow
    BY <2>1
  <2> DEFINE r == [pc |-> "add", day |-> d, what |-> w, n |-> n, to |-> to,
                   list |-> plan[d][w][n].list, est |-> plan[d][w][n].est]
  <2>3. w \in Task \cup Note
    BY <1>3 DEF RollRead, What
  <2>4. r \in Rolling
    BY <2>2, <2>3 DEF Rolling, PlanRow
  <2>5. roll' = [roll EXCEPT ![c] = r]
    BY <1>3 DEF RollRead
  <2>6. PlanOK'
    <3> HIDE DEF r
    <3> QED BY <1>1, <1>3, <2>4, <2>5 DEF RollRead, PlanOK
  <2>7. Orderly
    BY <1>3, RowsAlone DEF RollRead
  <2>8. ASSUME NEW e \in Client, roll'[e] # NoRoll
        PROVE  /\ roll'[e].n \in DOMAIN plan'[roll'[e].day][roll'[e].what]
               /\ roll'[e].what \notin strayed' => roll'[e].list = ListOf(roll[e].what)'
               /\ roll'[e].pc = "stamp" => plan'[roll'[e].to][roll'[e].what] # <<>>
    <3>1. UNCHANGED <<plan, at, strayed>>
      BY <1>3 DEF RollRead
    <3>2. \A v : ListOf(v)' = ListOf(v)
      BY <3>1 DEF ListOf
    <3>3. CASE e = c
      <4>1. roll'[e] = r
        BY <1>1, <2>5, <3>3 DEF PlanOK
      <4>2. w \notin strayed => plan[d][w][n].list = ListOf(w)
        BY DEF PlanInv, Homed
      <4> QED BY <3>1, <3>2, <4>1, <4>2
    <3>4. CASE e # c
      <4>1. roll'[e] = roll[e]
        BY <1>1, <2>5, <3>4 DEF PlanOK
      <4> QED BY <2>8, <3>1, <3>2, <4>1 DEF PlanInv, RollsHold
    <3> QED BY <3>3, <3>4
  <2>9. RollsHold'
    BY <2>8 DEF RollsHold, NoRoll
  <2> QED BY <2>6, <2>7, <2>9 DEF Good
<1> QED BY <1>2, <1>3

\* Changing one field of a row.
LEMMA RowFields ==
    ASSUME NEW r \in PlanRow
    PROVE  /\ \A b \in BOOLEAN :
                /\ [r EXCEPT !.done = b] \in PlanRow
                /\ [r EXCEPT !.dropped = b] \in PlanRow
           /\ \A e \in Estimate \cup {None} : [r EXCEPT !.est = e] \in PlanRow
           /\ \A l \in List \cup {None} : [r EXCEPT !.list = l] \in PlanRow
           /\ \A d \in Day \cup {None} : [r EXCEPT !.rolled = d] \in PlanRow
           /\ r.done \in BOOLEAN /\ r.dropped \in BOOLEAN
BY Zenon DEF PlanRow

LEMMA Patches ==
    ASSUME NEW r \in PlanRow, NEW d, NEW w
    PROVE  /\ \A b : Patch(d, w, r, [r EXCEPT !.done = b])
           /\ \A e : Patch(d, w, r, [r EXCEPT !.est = e])
           /\ \A b : ~b /\ <<d, w>> \in undone' => Patch(d, w, r, [r EXCEPT !.dropped = b])
           /\ \A b : b => Patch(d, w, r, [r EXCEPT !.dropped = b])
BY DEF PlanRow, Live, Patch

\* What fill_habit_estimates leaves of the rows of a habit.
LEMMA HabitFilled ==
    ASSUME NEW p \in Table, NEW h \in What, NEW est \in Estimate \cup {None}
    PROVE  LET q == FillHabit(p, h, est)
           IN  /\ q \in Table
               /\ \A d \in Day, w \in What : DOMAIN q[d][w] = DOMAIN p[d][w]
               /\ \A d \in Day, w \in What : \A n \in DOMAIN p[d][w] :
                    q[d][w][n] \in {p[d][w][n], [p[d][w][n] EXCEPT !.est = est]}
<1> DEFINE q == FillHabit(p, h, est)
           filled(d) == [n \in DOMAIN p[d][h] |->
                IF est # None /\ Fills(d, p[d][h][n])
                THEN [p[d][h][n] EXCEPT !.est = est] ELSE p[d][h][n]]
<1>1. \A d \in Day : q[d] = [p[d] EXCEPT ![h] = filled(d)]
  BY DEF FillHabit
<1>2. q = [d \in Day |-> [p[d] EXCEPT ![h] = filled(d)]]
  BY DEF FillHabit
<1>3. \A d \in Day : \A n \in DOMAIN p[d][h] :
        filled(d)[n] \in {p[d][h][n], [p[d][h][n] EXCEPT !.est = est]}
  OBVIOUS
<1>4. ASSUME NEW d \in Day
      PROVE  filled(d) \in Seq(PlanRow) /\ DOMAIN filled(d) = DOMAIN p[d][h]
  <2>1. p[d][h] \in Seq(PlanRow)
    BY DEF Table
  <2>2. DOMAIN filled(d) = 1..Len(p[d][h])
    BY <2>1
  <2>3. \A n \in DOMAIN p[d][h] : filled(d)[n] \in PlanRow
    <3> SUFFICES ASSUME NEW n \in DOMAIN p[d][h] PROVE filled(d)[n] \in PlanRow
      OBVIOUS
    <3>1. p[d][h][n] \in PlanRow
      BY <2>1
    <3>2. [p[d][h][n] EXCEPT !.est = est] \in PlanRow
      BY <3>1 DEF PlanRow
    <3> QED BY <1>3, <3>1, <3>2
  <2>4. filled(d) \in [1..Len(p[d][h]) -> PlanRow]
    BY <2>2, <2>3, <2>1
  <2>5. Len(p[d][h]) \in Nat
    BY <2>1
  <2> HIDE DEF filled
  <2> QED BY <2>1, <2>2, <2>4, <2>5
<1> HIDE DEF filled, q
<1>5. ASSUME NEW d \in Day
      PROVE  /\ q[d] \in [What -> Seq(PlanRow)]
             /\ \A w \in What : q[d][w] = IF w = h THEN filled(d) ELSE p[d][w]
  <2>1. p[d] \in [What -> Seq(PlanRow)]
    BY DEF Table
  <2> QED BY <1>1, <1>4, <2>1
<1>6. q \in Table /\ \A d \in Day, w \in What : q[d][w] = IF w = h THEN filled(d) ELSE p[d][w]
  BY <1>2, <1>5 DEF Table
<1>7. \A d \in Day, w \in What : DOMAIN q[d][w] = DOMAIN p[d][w]
  BY <1>4, <1>6
<1>8. \A d \in Day, w \in What : \A n \in DOMAIN p[d][w] :
        q[d][w][n] \in {p[d][w][n], [p[d][w][n] EXCEPT !.est = est]}
  BY <1>3, <1>6
<1> QED BY <1>6, <1>7, <1>8 DEF q

LEMMA PatchKeeps ==
    ASSUME PlanConstants, PlanInv,
           \/ \E d \in Day, w \in What : \E n \in DOMAIN plan[d][w] :
                Tick(d, w, n) \/ Drop(d, w, n)
           \/ \E d \in Day, h \in Habit, est \in Estimate : \E n \in DOMAIN plan[d][h] :
                ConnectorEstimate(d, h, n, est)
           \/ \E d \in Day, w \in What, est \in Estimate : ConnectorPlan(d, w, est)
    PROVE  Good
<1>1. PlanOK /\ plan \in Table
  BY DEF PlanInv, PlanOK, Table
<1> USE DEF tasks, habits, ritual, Deed
<1>2. \A d \in Day, w \in What : \A n \in DOMAIN plan[d][w] : plan[d][w][n] \in PlanRow
  BY <1>1 DEF Table
<1>3. ASSUME NEW d \in Day, NEW w \in What, NEW n \in DOMAIN plan[d][w],
             Tick(d, w, n)
      PROVE  Good
  <2> DEFINE b == ~plan[d][w][n].done
             r == [plan[d][w][n] EXCEPT !.done = b]
  <2>1. /\ r \in PlanRow
        /\ Patch(d, w, plan[d][w][n], r)
    <3>1. plan[d][w][n] \in PlanRow /\ b \in BOOLEAN
      BY <1>2
    <3> HIDE DEF b
    <3> QED BY <3>1, RowFields, Patches
  <2>2. plan' = Edited(plan, d, w, n, r)
    BY <1>3 DEF Tick, Edited
  <2>3. UNCHANGED <<at, strayed, opened>>
    BY <1>3 DEF Tick
  <2>4. undone \subseteq undone'
    BY <1>3 DEF Tick
  <2> HIDE DEF r, b
  <2>5. plan' \in Table /\ Orderly
    BY <2>1, <2>2, <2>3, <2>4, RowPatched
  <2>6. UNCHANGED <<today, at, aside, finished, rules, paused, taught, usual, roll, undone>>
    BY <1>3 DEF Tick
  <2>7. deeds' \in Nat
    BY <1>1, <1>3 DEF Tick, PlanOK
  <2>8. PlanOK'
    BY <1>1, <2>3, <2>5, <2>6, <2>7 DEF PlanOK, Table
  <2> QED BY <2>5, <2>6, <2>8, RollsAlone DEF Good
<1>4. ASSUME NEW d \in Day, NEW w \in What, NEW n \in DOMAIN plan[d][w],
             Drop(d, w, n)
      PROVE  Good
  <2> DEFINE b == ~plan[d][w][n].dropped
             r == [plan[d][w][n] EXCEPT !.dropped = b]
  <2>1. /\ r \in PlanRow
        /\ Patch(d, w, plan[d][w][n], r)
    <3>1. plan[d][w][n] \in PlanRow /\ b \in BOOLEAN
      BY <1>2
    <3>2. ~b => <<d, w>> \in undone'
      BY <1>4 DEF Drop
    <3> HIDE DEF b
    <3> QED BY <3>1, <3>2, RowFields, Patches
  <2>2. plan' = Edited(plan, d, w, n, r)
    BY <1>4, SMTT(20) DEF Drop, Edited
  <2>3. UNCHANGED <<at, strayed, opened>>
    BY <1>4, SMTT(20) DEF Drop
  <2>4. undone \subseteq undone' /\ undone' \subseteq Day \X What
    BY <1>1, <1>4 DEF Drop, PlanOK
  <2> HIDE DEF r
  <2>6. plan' \in Table /\ Orderly
    BY <2>1, <2>2, <2>3, <2>4, RowPatched, SMTT(20)
  <2>7. PlanOK'
    BY <1>1, <1>4, <2>4, <2>6, SMTT(20) DEF PlanOK, Drop, Table
  <2>8. UNCHANGED <<roll, at>>
    BY <1>4 DEF Drop
  <2> QED BY <2>6, <2>7, <2>8, RollsAlone DEF Good
<1>5. ASSUME NEW d \in Day, NEW w \in What, NEW n \in DOMAIN plan[d][w],
             NEW est \in Estimate, plan' = Patched(d, w, n, est),
             taught' \in [Task \cup Habit -> Estimate \cup {None}], deeds' \in Nat,
             UNCHANGED <<today, opened, at, aside, finished, rules, paused, usual, roll,
                         strayed, undone>>
      PROVE  Good
  <2> DEFINE r == [plan[d][w][n] EXCEPT !.est = est]
  <2>1. /\ r \in PlanRow
        /\ Patch(d, w, plan[d][w][n], r)
    BY <1>2, RowFields, Patches
  <2>2. plan' = Edited(plan, d, w, n, r)
    BY <1>5 DEF Patched, Edited
  <2> HIDE DEF r
  <2>3. plan' \in Table /\ Orderly
    BY <1>5, <2>1, <2>2, RowPatched
  <2>4. PlanOK'
    BY <1>1, <1>5, <2>3 DEF PlanOK, Table
  <2> QED BY <1>5, <2>3, <2>4, RollsAlone DEF Good
<1>6. ASSUME NEW d \in Day, NEW h \in Habit, NEW est \in Estimate,
             NEW n \in DOMAIN plan[d][h], ConnectorEstimate(d, h, n, est)
      PROVE  Good
  BY <1>1, <1>5, <1>6 DEF ConnectorEstimate, PlanOK, What
<1>7. ASSUME NEW d \in Day, NEW w \in What, NEW est \in Estimate,
             ConnectorPlan(d, w, est)
      PROVE  Good
  <2>1. PICK n \in DOMAIN plan[d][w] : plan' = Patched(d, w, n, est)
    BY <1>7 DEF ConnectorPlan
  <2>2. taught' \in [Task \cup Habit -> Estimate \cup {None}] /\ deeds' \in Nat
    BY <1>1, <1>7 DEF ConnectorPlan, Teach, PlanOK
  <2> QED BY <1>5, <1>7, <2>1, <2>2 DEF ConnectorPlan
<1> QED BY <1>3, <1>4, <1>6, <1>7

\* An estimate, of a row or of a habit, changes the estimates of rows and no more.
EstimatesOnly(q) ==
    /\ q \in Table
    /\ \A d \in Day, w \in What : DOMAIN q[d][w] = DOMAIN plan[d][w]
    /\ \A d \in Day, w \in What : \A n \in DOMAIN plan[d][w] :
        /\ q[d][w][n].source = plan[d][w][n].source
        /\ q[d][w][n].rolled = plan[d][w][n].rolled
        /\ q[d][w][n].dropped = plan[d][w][n].dropped
        /\ q[d][w][n].list = plan[d][w][n].list

LEMMA FilledOnly ==
    ASSUME plan \in Table, NEW h \in What, NEW est \in Estimate \cup {None}
    PROVE  EstimatesOnly(FillHabit(plan, h, est))
<1> DEFINE q == FillHabit(plan, h, est)
<1>1. /\ q \in Table
      /\ \A d \in Day, w \in What : DOMAIN q[d][w] = DOMAIN plan[d][w]
      /\ \A d \in Day, w \in What : \A n \in DOMAIN plan[d][w] :
            q[d][w][n] \in {plan[d][w][n], [plan[d][w][n] EXCEPT !.est = est]}
  BY HabitFilled
<1> HIDE DEF q
<1>2. ASSUME NEW d \in Day, NEW w \in What, NEW n \in DOMAIN plan[d][w]
      PROVE  /\ q[d][w][n].source = plan[d][w][n].source
             /\ q[d][w][n].rolled = plan[d][w][n].rolled
             /\ q[d][w][n].dropped = plan[d][w][n].dropped
             /\ q[d][w][n].list = plan[d][w][n].list
  <2>1. plan[d][w][n] \in PlanRow
    BY DEF Table
  <2>2. CASE q[d][w][n] = plan[d][w][n]
    BY <2>2
  <2>3. CASE q[d][w][n] = [plan[d][w][n] EXCEPT !.est = est]
    BY <2>1, <2>3 DEF PlanRow
  <2> QED BY <1>1, <2>2, <2>3
<1>3. EstimatesOnly(q)
  BY <1>1, <1>2 DEF EstimatesOnly
<1> QED BY <1>3 DEF q

LEMMA EditedOnly ==
    ASSUME plan \in Table, NEW p, EstimatesOnly(p), NEW est \in Estimate \cup {None},
           NEW d \in Day, NEW w \in What, NEW n \in DOMAIN plan[d][w]
    PROVE  EstimatesOnly([p EXCEPT ![d][w][n].est = est])
<1> DEFINE r == [p[d][w][n] EXCEPT !.est = est]
           q == Edited(p, d, w, n, r)
<1>1. p \in Table /\ n \in DOMAIN p[d][w]
  BY DEF EstimatesOnly
<1>2. p[d][w][n] \in PlanRow
  BY <1>1 DEF Table
<1>3. r \in PlanRow
  BY <1>2, RowFields
<1>4. /\ r.source = p[d][w][n].source /\ r.rolled = p[d][w][n].rolled
      /\ r.dropped = p[d][w][n].dropped /\ r.list = p[d][w][n].list
  BY <1>2 DEF PlanRow
<1>5. q = [p EXCEPT ![d][w][n].est = est]
  BY DEF Edited
<1> HIDE DEF r
<1>6. /\ q \in Table
      /\ \A e \in Day, v \in What : DOMAIN q[e][v] = DOMAIN p[e][v]
      /\ \A e \in Day, v \in What : \A m \in DOMAIN p[e][v] :
            q[e][v][m] = IF e = d /\ v = w /\ m = n THEN r ELSE p[e][v][m]
  BY <1>1, <1>3, RowEdited
<1> HIDE DEF q
<1>7. EstimatesOnly(q)
  BY <1>4, <1>6 DEF EstimatesOnly
<1> QED BY <1>5, <1>7

LEMMA EstimateKeeps ==
    ASSUME PlanConstants, PlanInv,
           \/ \E d \in Day, w \in What, est \in Estimate \cup {None} :
                \E n \in DOMAIN plan[d][w] : EstimateRow(d, w, n, est)
           \/ \E h \in Habit, est \in Estimate \cup {None} : EstimateHabit(h, est)
    PROVE  Good
<1>1. PlanOK /\ plan \in Table
  BY DEF PlanInv, PlanOK, Table
<1> USE DEF tasks, habits, ritual, Deed
<1>2. ASSUME EstimatesOnly(plan'), deeds' \in Nat,
             taught' \in [Task \cup Habit -> Estimate \cup {None}],
             UNCHANGED <<today, opened, at, aside, finished, rules, paused, usual, roll,
                         strayed, undone>>
      PROVE  Good
  <2>1. PlanOK'
    BY <1>1, <1>2 DEF PlanOK, EstimatesOnly, Table
  <2>2. \A w : ListOf(w)' = ListOf(w)
    BY <1>2 DEF ListOf
  <2>3. Orderly
    <3>1. \A d \in Day, w \in What : \A n \in DOMAIN plan[d][w] :
            w \notin strayed' => plan'[d][w][n].list = ListOf(w)'
      BY <1>2, <2>2 DEF EstimatesOnly, PlanInv, Homed
    <3> QED BY <1>2, <3>1, RowsMapped DEF EstimatesOnly
  <2> QED BY <1>2, <2>1, <2>3, RollsAlone DEF Good
<1>3. ASSUME NEW d \in Day, NEW w \in What, NEW est \in Estimate \cup {None},
             NEW n \in DOMAIN plan[d][w], EstimateRow(d, w, n, est)
      PROVE  Good
  <2>1. EstimatesOnly(plan)
    BY <1>1 DEF EstimatesOnly
  <2>2. EstimatesOnly(plan')
    <3>1. CASE TeachesHabit(d, w, n)
      <4>1. EstimatesOnly(FillHabit(plan, w, est))
        BY <1>1, FilledOnly
      <4>2. plan' = [FillHabit(plan, w, est) EXCEPT ![d][w][n].est = est]
        BY <1>3, <3>1 DEF EstimateRow
      <4> QED BY <1>1, <4>1, <4>2, EditedOnly
    <3>2. CASE ~TeachesHabit(d, w, n)
      <4>1. plan' = [plan EXCEPT ![d][w][n].est = est]
        BY <1>3, <3>2 DEF EstimateRow, Patched
      <4> QED BY <1>1, <2>1, <4>1, EditedOnly
    <3> QED BY <3>1, <3>2
  <2>3. taught' \in [Task \cup Habit -> Estimate \cup {None}]
    BY <1>1, <1>3 DEF EstimateRow, Teach, PlanOK
  <2>4. deeds' \in Nat
    BY <1>1, <1>3 DEF EstimateRow, PlanOK
  <2> QED BY <1>2, <1>3, <2>2, <2>3, <2>4 DEF EstimateRow
<1>4. ASSUME NEW h \in Habit, NEW est \in Estimate \cup {None}, EstimateHabit(h, est)
      PROVE  Good
  <2>1. EstimatesOnly(plan')
    BY <1>1, <1>4, FilledOnly DEF EstimateHabit, What
  <2>2. taught' \in [Task \cup Habit -> Estimate \cup {None}] /\ deeds' \in Nat
    BY <1>1, <1>4 DEF EstimateHabit, PlanOK
  <2> QED BY <1>2, <1>4, <2>1, <2>2 DEF EstimateHabit
<1> QED BY <1>3, <1>4

\* Adding a row by hand, and rolling one: nothing is added beside a row that is meant.
LEMMA AddsRow ==
    ASSUME PlanConstants, PlanInv, NEW d \in Day, NEW w \in Task \cup Note,
           NEW list \in List \cup {None}, w \notin strayed => list = ListOf(w),
           NEW est \in Estimate \cup {None},
           AddTo(d, w, list, est), UNCHANGED <<at, strayed, opened, undone>>
    PROVE  /\ plan' \in Table /\ Orderly
           /\ taught' \in [Task \cup Habit -> Estimate \cup {None}]
           /\ plan'[d][w] # <<>>
<1>1. PlanOK /\ plan \in Table
  BY DEF PlanInv, PlanOK, Table
<1>2. w \in What
  BY DEF What
<1>3. plan[d][w] \in Seq(PlanRow)
  BY <1>1, <1>2 DEF Table
<1>4. CASE Found(d, w, list)
  <2>1. UNCHANGED <<plan, taught>>
    BY <1>4 DEF AddTo
  <2>2. plan[d][w] # <<>>
    BY <1>3, <1>4 DEF Found
  <2>3. opened \subseteq opened'
    OBVIOUS
  <2>4. Orderly
    BY <2>1, <2>3, RowsAlone
  <2> QED BY <1>1, <2>1, <2>2, <2>4 DEF PlanOK
<1>5. CASE ~Found(d, w, list)
  <2> DEFINE e == IF est # None THEN est ELSE Remembered(w, list)
             r == NewRow(list, "user", e)
  <2>1. e \in Estimate \cup {None}
    BY <1>1 DEF Remembered, PlanOK
  <2>2. plan' = Added(plan, d, w, r)
    BY <1>5 DEF AddTo, Added
  <2>3. taught' \in [Task \cup Habit -> Estimate \cup {None}]
    BY <1>1, <1>5 DEF AddTo, Teach, PlanOK
  <2> HIDE DEF e
  <2>4. r \in PlanRow /\ r.source = "user" /\ r.rolled = None /\ r.list = list
    BY <2>1 DEF NewRow, PlanRow
  <2>5. w \notin strayed => \A m \in DOMAIN plan[d][w] : ~Live(plan[d][w][m])
    <3>1. \A m \in DOMAIN plan[d][w] : w \notin strayed => plan[d][w][m].list = list
      BY <1>2 DEF PlanInv, Homed
    <3> QED BY <1>5, <3>1 DEF Found
  <2> HIDE DEF r
  <2>6. plan' \in Table /\ Orderly
    BY <1>2, <2>2, <2>4, <2>5, RowAppended
  <2>7. plan'[d][w] = Append(plan[d][w], r)
    BY <1>1, <1>2, <2>2, <2>4, RowAdded
  <2>8. plan'[d][w] # <<>>
    BY <1>3, <2>4, <2>7
  <2> QED BY <2>3, <2>6, <2>8
<1> QED BY <1>4, <1>5

LEMMA AddKeeps ==
    ASSUME PlanConstants, PlanInv, NEW d \in Day, NEW w \in What,
           AddEntry(d, w)
    PROVE  Good
<1>1. PlanOK
  BY DEF PlanInv
<1> USE DEF tasks, habits, ritual, Deed
<1>2. PICK est \in Estimate \cup {None} : AddTo(d, w, ListOf(w), est)
  BY DEF AddEntry
<1>3. w \in Task \cup Note
  BY DEF AddEntry, What
<1>4. ListOf(w) \in List \cup {None}
  BY <1>1 DEF ListOf, PlanOK
<1>5. UNCHANGED <<at, strayed, opened, undone>>
  BY DEF AddEntry
<1>6. /\ plan' \in Table /\ Orderly
      /\ taught' \in [Task \cup Habit -> Estimate \cup {None}]
  BY <1>2, <1>3, <1>4, <1>5, AddsRow
<1>7. /\ UNCHANGED <<today, aside, finished, rules, paused, usual, roll>>
      /\ deeds' = deeds + 1
  BY Zenon DEF AddEntry, Deed
<1>8. PlanOK'
  <2>1. deeds' \in Nat
    BY <1>1, <1>7 DEF PlanOK
  <2> QED BY <1>1, <1>5, <1>6, <1>7, <2>1, ZenonT(40) DEF PlanOK, Table
<1> QED BY <1>6, <1>7, <1>8, RollsAlone DEF Good, AddEntry

LEMMA RollAddKeeps ==
    ASSUME PlanConstants, PlanInv, NEW c \in Client, RollAdd(c)
    PROVE  Good
<1>1. PlanOK
  BY DEF PlanInv
<1> USE DEF tasks, habits, ritual, Deed
<1> DEFINE d == roll[c].to
           w == roll[c].what
<1>2. roll[c] \in Rolling /\ roll[c].pc = "add"
  BY <1>1 DEF RollAdd, PlanOK, NoRoll
<1>3. /\ d \in Day /\ w \in Task \cup Note
      /\ roll[c].list \in List \cup {None} /\ roll[c].est \in Estimate \cup {None}
  BY <1>2 DEF Rolling
<1>4. w \notin strayed => roll[c].list = ListOf(w)
  BY <1>2 DEF PlanInv, RollsHold, NoRoll
<1>5. AddTo(d, w, roll[c].list, roll[c].est)
  BY DEF RollAdd
<1>6. UNCHANGED <<at, strayed, opened, undone>>
  BY DEF RollAdd
<1>7. roll' = [roll EXCEPT ![c].pc = "stamp"]
  BY DEF RollAdd
<1> HIDE DEF d, w
<1>8. /\ plan' \in Table /\ Orderly
      /\ taught' \in [Task \cup Habit -> Estimate \cup {None}]
      /\ plan'[d][w] # <<>>
  BY <1>3, <1>4, <1>5, <1>6, AddsRow
<1>9. [roll[c] EXCEPT !.pc = "stamp"] \in Rolling
  BY <1>2 DEF Rolling
<1>10. roll' \in [Client -> Rolling \cup {NoRoll}]
  BY <1>1, <1>7, <1>9 DEF PlanOK
<1>11. PlanOK'
  BY <1>1, <1>8, <1>10 DEF PlanOK, RollAdd, Table
<1>12. ASSUME NEW e \in Client, roll'[e] # NoRoll
       PROVE  /\ roll'[e].n \in DOMAIN plan'[roll'[e].day][roll'[e].what]
              /\ roll'[e].what \notin strayed' => roll'[e].list = ListOf(roll[e].what)'
              /\ roll'[e].pc = "stamp" => plan'[roll'[e].to][roll'[e].what] # <<>>
  <2>1. /\ roll[e] # NoRoll
        /\ roll'[e].n = roll[e].n /\ roll'[e].day = roll[e].day /\ roll'[e].what = roll[e].what
        /\ roll'[e].to = roll[e].to /\ roll'[e].list = roll[e].list
        /\ e # c => roll'[e].pc = roll[e].pc
    BY <1>1, <1>2, <1>7, <1>12 DEF PlanOK, NoRoll, Rolling
  <2>2. roll[e] \in Rolling
    BY <1>1, <2>1 DEF PlanOK
  <2>3. roll[e].day \in Day /\ roll[e].to \in Day /\ roll[e].what \in What
    BY <2>2 DEF Rolling, What
  <2>4. /\ roll[e].n \in DOMAIN plan[roll[e].day][roll[e].what]
        /\ roll[e].what \notin strayed => roll[e].list = ListOf(roll[e].what)
        /\ roll[e].pc = "stamp" => plan[roll[e].to][roll[e].what] # <<>>
    BY <2>1 DEF PlanInv, RollsHold
  <2>5. ListOf(roll[e].what)' = ListOf(roll[e].what)
    BY <1>6, <2>1 DEF ListOf
  <2>6. roll'[e].n \in DOMAIN plan'[roll'[e].day][roll'[e].what]
    BY <1>8, <2>1, <2>3, <2>4 DEF Orderly, Stays
  <2>7. roll'[e].pc = "stamp" => plan'[roll'[e].to][roll'[e].what] # <<>>
    <3>1. CASE e = c
      BY <1>8, <2>1, <3>1 DEF d, w
    <3>2. CASE e # c
      BY <1>1, <1>8, <1>11, <2>1, <2>3, <2>4, <3>2, RowsStay
    <3> QED BY <3>1, <3>2
  <2> QED BY <1>6, <2>1, <2>4, <2>5, <2>6, <2>7
<1>13. RollsHold'
  BY <1>12 DEF RollsHold, NoRoll
<1> QED BY <1>8, <1>11, <1>13 DEF Good

LEMMA StampKeeps ==
    ASSUME PlanConstants, PlanInv, NEW c \in Client, RollStamp(c)
    PROVE  Good
<1>1. PlanOK /\ plan \in Table
  BY ZenonT(40) DEF PlanInv, PlanOK, Table
<1> USE DEF tasks, habits, ritual
<1> DEFINE d == roll[c].day
           w == roll[c].what
           n == roll[c].n
           to == roll[c].to
           r == [plan[d][w][n] EXCEPT !.rolled = to]
<1>2. roll[c] \in Rolling /\ roll[c].pc = "stamp" /\ roll[c] # NoRoll
  BY <1>1 DEF RollStamp, PlanOK, NoRoll
<1>3. d \in Day /\ w \in What /\ to \in Day
  BY <1>2 DEF Rolling, What
<1>4. n \in DOMAIN plan[d][w] /\ plan[to][w] # <<>>
  BY <1>2 DEF PlanInv, RollsHold
<1>5. plan' = Edited(plan, d, w, n, r)
  BY Zenon DEF RollStamp, Edited
<1>6. /\ roll' = [roll EXCEPT ![c] = NoRoll]
      /\ UNCHANGED <<today, opened, at, aside, finished, rules, paused, usual, taught, deeds,
                     strayed, undone>>
  BY Zenon DEF RollStamp
<1> HIDE DEF d, w, n, to
<1>7. plan[d][w][n] \in PlanRow
  BY <1>1, <1>3, <1>4 DEF Table
<1>8. r \in PlanRow
  BY <1>3, <1>7, RowFields
<1>9. Patch(d, w, plan[d][w][n], r)
  <2>1. to # None
    BY <1>3 DEF PlanConstants, Day
  <2> QED BY <1>3, <1>4, <1>7, <2>1 DEF Patch, PlanRow, Live
<1> HIDE DEF r
<1>10. undone \subseteq undone'
  BY <1>6
<1>11. plan' \in Table /\ Orderly
  BY <1>3, <1>4, <1>5, <1>6, <1>8, <1>9, <1>10, RowPatched
<1>12. PlanOK'
  BY <1>1, <1>6, <1>11 DEF PlanOK, Table
<1>13. \A e \in Client : roll'[e] # NoRoll => roll'[e] = roll[e]
  BY <1>1, <1>6 DEF PlanOK
<1> QED BY <1>6, <1>11, <1>12, <1>13, RollsLeft DEF Good

\* A task that moves takes its rows along, and strays only while it is being rolled.
LEMMA MoveKeeps ==
    ASSUME PlanConstants, PlanInv, NEW t \in Task, NEW l \in List, MoveTask(t, l)
    PROVE  Good
<1>1. PlanOK /\ plan \in Table
  BY DEF PlanInv, PlanOK, Table
<1> USE DEF tasks, habits, ritual, Deed
<1> DEFINE moved(d) == [n \in DOMAIN plan[d][t] |-> Repoint(d, t, l, plan[d][t][n])]
<1>2. t \in What
  BY DEF What
<1>3. plan' = [d \in Day |-> [plan[d] EXCEPT ![t] = moved(d)]]
  BY DEF MoveTask
<1>4. ASSUME NEW d \in Day
      PROVE  moved(d) \in Seq(PlanRow) /\ DOMAIN moved(d) = DOMAIN plan[d][t]
  <2>1. plan[d][t] \in Seq(PlanRow)
    BY <1>1, <1>2 DEF Table
  <2>2. \A n \in DOMAIN plan[d][t] : moved(d)[n] \in PlanRow
    <3> SUFFICES ASSUME NEW n \in DOMAIN plan[d][t] PROVE moved(d)[n] \in PlanRow
      OBVIOUS
    <3>1. plan[d][t][n] \in PlanRow
      BY <2>1
    <3>2. [plan[d][t][n] EXCEPT !.list = l] \in PlanRow
      BY <3>1, RowFields
    <3> QED BY <3>1, <3>2 DEF Repoint
  <2>3. DOMAIN moved(d) = 1..Len(plan[d][t]) /\ Len(plan[d][t]) \in Nat
    BY <2>1
  <2>4. moved(d) \in [1..Len(plan[d][t]) -> PlanRow]
    BY <2>1, <2>2, <2>3
  <2> HIDE DEF moved
  <2> QED BY <2>1, <2>3, <2>4
<1>5. \A d \in Day : \A n \in DOMAIN plan[d][t] :
        moved(d)[n] = Repoint(d, t, l, plan[d][t][n])
  OBVIOUS
<1> HIDE DEF moved
<1>6. ASSUME NEW d \in Day
      PROVE  /\ plan'[d] \in [What -> Seq(PlanRow)]
             /\ \A w \in What : plan'[d][w] = IF w = t THEN moved(d) ELSE plan[d][w]
  <2>1. plan[d] \in [What -> Seq(PlanRow)]
    BY <1>1 DEF Table
  <2> QED BY <1>3, <1>4, <2>1
<1>7. plan' \in Table
  BY <1>3, <1>6 DEF Table
<1>8. /\ at' = [at EXCEPT ![t] = l] /\ deeds' \in Nat
      /\ strayed' = strayed \cup ({t} \cap RolledTasks)
      /\ UNCHANGED <<today, opened, aside, finished, rules, paused, usual, taught, roll, undone>>
  BY <1>1 DEF MoveTask, PlanOK
<1>9. PlanOK'
  BY <1>1, <1>7, <1>8 DEF PlanOK, Table
<1>10. \A w : w # t => ListOf(w)' = ListOf(w)
  BY <1>1, <1>8 DEF ListOf, PlanOK
<1>11. ListOf(t) = at[t] /\ ListOf(t)' = l
  BY <1>1, <1>8 DEF ListOf, PlanOK
<1>12. \A d \in Day, w \in What : DOMAIN plan'[d][w] = DOMAIN plan[d][w]
  BY <1>4, <1>6
<1>13. ASSUME NEW d \in Day, NEW w \in What, NEW n \in DOMAIN plan[d][w]
       PROVE  /\ plan'[d][w][n].source = plan[d][w][n].source
              /\ plan'[d][w][n].rolled = plan[d][w][n].rolled
              /\ plan'[d][w][n].dropped = plan[d][w][n].dropped
              /\ w \notin strayed' => plan'[d][w][n].list = ListOf(w)'
  <2>1. w \notin strayed' => plan[d][w][n].list = ListOf(w)
    BY <1>8 DEF PlanInv, Homed
  <2>2. plan[d][w][n] \in PlanRow
    BY <1>1 DEF Table
  <2>3. CASE w # t
    BY <1>6, <1>10, <2>1, <2>3
  <2>4. CASE w = t
    <3>1. plan'[d][w][n] = Repoint(d, t, l, plan[d][w][n])
      BY <1>5, <1>6, <2>4
    <3> QED BY <1>11, <2>1, <2>2, <2>4, <3>1 DEF Repoint, PlanRow
  <2> QED BY <2>3, <2>4
<1>14. strayed \subseteq strayed' /\ UNCHANGED <<opened, undone>>
  BY <1>8
<1>15. Orderly
  BY <1>7, <1>12, <1>13, <1>14, RowsMapped
<1>16. ASSUME NEW c \in Client, roll[c] # NoRoll
       PROVE  /\ roll[c].n \in DOMAIN plan'[roll[c].day][roll[c].what]
              /\ roll[c].what \notin strayed' => roll[c].list = ListOf(roll[c].what)'
              /\ roll[c].pc = "stamp" => plan'[roll[c].to][roll[c].what] # <<>>
  <2>1. roll[c] \in Rolling
    BY <1>1, <1>16 DEF PlanOK
  <2>2. roll[c].day \in Day /\ roll[c].to \in Day /\ roll[c].what \in What
    BY <2>1 DEF Rolling, What
  <2>3. /\ roll[c].n \in DOMAIN plan[roll[c].day][roll[c].what]
        /\ roll[c].what \notin strayed => roll[c].list = ListOf(roll[c].what)
        /\ roll[c].pc = "stamp" => plan[roll[c].to][roll[c].what] # <<>>
    BY <1>16 DEF PlanInv, RollsHold
  <2>4. roll[c].what = t => t \in strayed'
    BY <1>8, <1>16 DEF RolledTasks
  <2>5. roll[c].pc = "stamp" => plan'[roll[c].to][roll[c].what] # <<>>
    BY <1>1, <1>9, <1>15, <2>2, <2>3, RowsStay
  <2>6. roll[c].what # t => ListOf(roll[c].what)' = ListOf(roll[c].what)
    BY <1>8, <1>10
  <2>7. roll[c].n \in DOMAIN plan'[roll[c].day][roll[c].what]
    BY <1>12, <2>2, <2>3
  <2> QED BY <1>14, <2>3, <2>4, <2>5, <2>6, <2>7
<1>17. RollsHold'
  BY <1>8, <1>16 DEF RollsHold, NoRoll
<1> QED BY <1>9, <1>15, <1>17 DEF Good

-----------------------------------------------------------------------------
(* Opening a day.                                                               *)

\* The last planned day before d is the latest of them, and the row it is carried
\* from the first that was chosen.
LEMMA LastIsLatest ==
    ASSUME PlanConstants, NEW d \in Day, Earlier(d) # {}
    PROVE  /\ LastPlanned(d) \in Earlier(d)
           /\ \A f \in Earlier(d) : f <= LastPlanned(d)
<1>1. Earlier(d) \in SUBSET (1..LastDay) /\ LastDay \in Nat
  BY DEF Earlier, Day, PlanConstants
<1>2. \E e \in Earlier(d) : \A f \in Earlier(d) : f <= e
  BY <1>1, SomeGreatest
<1> QED BY <1>2 DEF LastPlanned

LEMMA FirstIsChosen ==
    ASSUME PlanOK, NEW d \in Day, NEW w \in What, Chosen(d, w) # {}
    PROVE  FirstOf(Chosen(d, w)) \in Chosen(d, w)
<1>1. plan[d][w] \in Seq(PlanRow)
  BY DEF PlanOK
<1>2. Chosen(d, w) \in SUBSET Nat
  BY <1>1 DEF Chosen
<1>3. \E n \in Chosen(d, w) : \A m \in Chosen(d, w) : n <= m
  BY <1>2, SomeLeast
<1> QED BY <1>3 DEF FirstOf

\* What is put on a day by itself: a row, in the list of its thing, where none was.
LEMMA DerivedRow ==
    ASSUME PlanConstants, PlanInv, NEW d \in Day, NEW w \in Pending(d)
    PROVE  /\ w \in What
           /\ Derived(d, w) \in PlanRow
           /\ Derived(d, w).rolled = None
           /\ Derived(d, w).list = ListOf(w)
           /\ w \notin strayed => plan[d][w] = <<>>
<1>1. PlanOK
  BY DEF PlanInv
<1>2. w \in HabitsFor(d) \/ w \in DueOn(d) \/ w \in CarriedInto(d)
  BY DEF Pending, Preview
<1>3. /\ w \in HabitsFor(d) => w \in Habit /\ plan[d][w] = <<>>
      /\ w \in DueOn(d) => w \in Task /\ ~Seen(d, w, ListOf(w))
      /\ w \in CarriedInto(d) => w \in Task \cup Note /\ ~Seen(d, w, ListOf(w))
  BY DEF HabitsFor, Kept, DueOn, Open, CarriedInto, ListOf
<1>4. w \in What
  BY <1>2, <1>3 DEF What
<1>5. plan[d][w] \in Seq(PlanRow)
  BY <1>1, <1>4 DEF PlanOK
<1>6. w \notin strayed => plan[d][w] = <<>>
  <2>1. w \notin strayed /\ ~Seen(d, w, ListOf(w)) => plan[d][w] = <<>>
    <3>1. \A n \in DOMAIN plan[d][w] : w \notin strayed => plan[d][w][n].list = ListOf(w)
      BY <1>4 DEF PlanInv, Homed
    <3> QED BY <1>5, <3>1, EmptyRows DEF Seen
  <2> QED BY <1>2, <1>3, <2>1
<1>7. ListOf(w) \in List \cup {None}
  BY <1>1 DEF ListOf, PlanOK
<1>8. w \in Task \cup Habit => taught[w] \in Estimate \cup {None}
  BY <1>1 DEF PlanOK
<1>9. \A source \in {"auto", "carried", "habit"}, e \in Estimate \cup {None} :
        LET r == NewRow(ListOf(w), source, e)
        IN  r \in PlanRow /\ r.rolled = None /\ r.list = ListOf(w)
  BY <1>7 DEF NewRow, PlanRow
<1>10. CASE w \in Habit
  <2>1. ListOf(w) = None
    BY <1>10 DEF ListOf, PlanConstants
  <2>2. Derived(d, w) = NewRow(ListOf(w), "habit", taught[w])
    <3>1. Derived(d, w) = NewRow(None, "habit", taught[w])
      <4>1. w \notin DueOn(d)
        BY <1>3, <1>10 DEF PlanConstants
      <4> QED BY <1>10, <4>1 DEF Derived
    <3> QED BY <2>1, <3>1
  <2>3. taught[w] \in Estimate \cup {None}
    BY <1>8, <1>10
  <2> QED BY <1>4, <1>6, <1>9, <2>2, <2>3
<1>11. CASE w \notin Habit /\ w \in DueOn(d)
  <2>1. ListOf(w) = at[w] /\ w \in Task
    BY <1>3, <1>11 DEF ListOf
  <2>2. Derived(d, w) = NewRow(ListOf(w), "auto", taught[w])
    BY <1>11, <2>1 DEF Derived
  <2> QED BY <1>4, <1>6, <1>8, <1>9, <2>1, <2>2
<1>12. CASE w \notin Habit /\ w \notin DueOn(d)
  <2>1. w \in CarriedInto(d)
    BY <1>2, <1>3, <1>12
  <2> DEFINE e == LastPlanned(d)
             n == FirstOf(Chosen(e, w))
             est == IF w \in Task /\ CarriedEstimate(d, w) = None THEN taught[w]
                    ELSE CarriedEstimate(d, w)
  <2>2. Earlier(d) # {} /\ Chosen(e, w) # {}
    BY <2>1 DEF CarriedInto
  <2>3. e \in Day
    BY <2>2, LastIsLatest DEF Earlier
  <2>4. n \in DOMAIN plan[e][w]
    BY <1>1, <1>4, <2>2, <2>3, FirstIsChosen DEF Chosen
  <2>5. plan[e][w] \in Seq(PlanRow)
    BY <1>1, <1>4, <2>3 DEF PlanOK
  <2>6. plan[e][w][n] \in PlanRow
    BY <2>4, <2>5
  <2>7. CarriedEstimate(d, w) \in Estimate \cup {None}
    BY <2>6 DEF CarriedEstimate, PlanRow
  <2>8. est \in Estimate \cup {None}
    BY <1>8, <2>7
  <2>9. Derived(d, w) = NewRow(ListOf(w), "carried", est)
    BY <1>12 DEF Derived
  <2> HIDE DEF est
  <2> QED BY <1>4, <1>6, <1>9, <2>8, <2>9
<1> QED BY <1>10, <1>11, <1>12

LEMMA OpenKeeps ==
    ASSUME PlanConstants, PlanInv, NEW d \in Day, OpenDay(d)
    PROVE  Good
<1>1. PlanOK /\ plan \in Table
  BY DEF PlanInv, PlanOK, Table
<1> USE DEF tasks, habits, ritual
<1> DEFINE rows == [w \in What |-> IF w \in Pending(d)
                        THEN Append(plan[d][w], Derived(d, w)) ELSE plan[d][w]]
<1>2. /\ plan' = [plan EXCEPT ![d] = rows] /\ opened' = opened \cup {d}
      /\ UNCHANGED <<today, at, aside, finished, rules, paused, usual, taught, roll, deeds,
                     strayed, undone>>
  BY DEF OpenDay
<1>3. ASSUME NEW w \in What
      PROVE  /\ rows[w] = IF w \in Pending(d) THEN Append(plan[d][w], Derived(d, w))
                          ELSE plan[d][w]
             /\ rows[w] \in Seq(PlanRow)
  <2>1. plan[d][w] \in Seq(PlanRow)
    BY <1>1 DEF Table
  <2>2. CASE w \in Pending(d)
    <3>1. Derived(d, w) \in PlanRow
      BY <2>2, DerivedRow
    <3> QED BY <2>1, <2>2, <3>1
  <2>3. CASE w \notin Pending(d)
    BY <2>1, <2>3
  <2> QED BY <2>2, <2>3
<1>4. DOMAIN rows = What /\ rows \in [What -> Seq(PlanRow)]
  BY <1>3
<1> HIDE DEF rows
<1>5. plan' \in Table
  BY <1>1, <1>2, <1>4 DEF Table
<1>6. /\ \A e \in Day \ {d} : plan'[e] = plan[e]
      /\ plan'[d] = rows
  BY <1>1, <1>2 DEF Table
<1>7. PlanOK'
  BY <1>1, <1>2, <1>5 DEF PlanOK, Table
<1>8. \A w : ListOf(w)' = ListOf(w)
  BY <1>2 DEF ListOf
<1>9. ASSUME NEW e \in Day, NEW w \in What PROVE Stays(e, w) /\ Grows(e, w)
  <2>1. \A n \in DOMAIN plan[e][w] : w \notin strayed' => plan[e][w][n].list = ListOf(w)'
    BY <1>2, <1>8 DEF PlanInv, Homed
  <2>2. CASE plan'[e][w] = plan[e][w]
    BY <2>1, <2>2 DEF Stays, Grows, Follows
  <2>3. CASE e = d /\ w \in Pending(d)
    <3> DEFINE r == Derived(d, w)
    <3>1. /\ r \in PlanRow /\ r.rolled = None /\ r.list = ListOf(w)
          /\ w \notin strayed => plan[d][w] = <<>>
      BY <2>3, DerivedRow
    <3> HIDE DEF r
    <3>2. plan[d][w] \in Seq(PlanRow) /\ plan'[d][w] = Append(plan[d][w], r)
      BY <1>1, <1>3, <1>6, <2>3 DEF Table, r
    <3>3. /\ DOMAIN plan'[d][w] = DOMAIN plan[d][w] \cup {Len(plan[d][w]) + 1}
          /\ \A n \in DOMAIN plan[d][w] : plan'[d][w][n] = plan[d][w][n]
          /\ plan'[d][w][Len(plan[d][w]) + 1] = r
          /\ plan[d][w] = <<>> => Len(plan[d][w]) + 1 = 1
      BY <3>1, <3>2, AfterAppend
    <3>4. Stays(d, w)
      BY <2>1, <2>3, <3>3 DEF Stays, Follows
    <3>5. Grows(d, w)
      <4> SUFFICES ASSUME NEW n \in DOMAIN plan'[d][w] \ DOMAIN plan[d][w]
                   PROVE  LET row == plan'[d][w][n]
                          IN  /\ row.rolled = None
                              /\ d \notin opened' => row.source = "user"
                              /\ w \notin strayed' =>
                                  /\ row.list = ListOf(w)'
                                  /\ row.source # "user" => n = 1
                                  /\ \A m \in DOMAIN plan'[d][w] :
                                        m # n => ~Live(plan'[d][w][m])
        BY DEF Grows
      <4>1. n = Len(plan[d][w]) + 1 /\ plan'[d][w][n] = r
        BY <3>3
      <4>2. d \in opened'
        BY <1>2
      <4>3. w \notin strayed' => n = 1 /\ \A m \in DOMAIN plan'[d][w] : m = n
        BY <1>2, <3>1, <3>3, <4>1
      <4> QED BY <1>2, <1>8, <3>1, <4>1, <4>2, <4>3
    <3> QED BY <2>3, <3>4, <3>5
  <2>4. e # d \/ w \notin Pending(d) => plan'[e][w] = plan[e][w]
    BY <1>3, <1>6
  <2> QED BY <2>2, <2>3, <2>4
<1>10. strayed \subseteq strayed' /\ undone \subseteq undone' /\ opened \subseteq opened'
  BY <1>2
<1>11. Orderly
  BY <1>9, <1>10 DEF Orderly
<1>12. UNCHANGED <<roll, at>>
  BY <1>2
<1> QED BY <1>7, <1>11, <1>12, RollsAlone DEF Good

-----------------------------------------------------------------------------
(* The invariant, and what it gives.                                            *)

LEMMA PlanBegins ==
    ASSUME PlanConstants, PlanInit
    PROVE  PlanInv
<1>1. today \in Day
  BY DEF PlanInit, PlanConstants, Day
<1>2. \A d \in Day, w \in What : plan[d][w] = <<>>
  BY DEF PlanInit
<1>3. plan \in Table
  BY DEF PlanInit, Table
<1>4. PlanOK
  BY <1>1, <1>3 DEF PlanInit, PlanOK, Table
<1>5. Homed /\ Arrived /\ Untouched /\ OneRow
  BY <1>2 DEF Homed, Arrived, Untouched, OneRow
<1>6. RollsHold
  BY DEF PlanInit, RollsHold
<1> QED BY <1>4, <1>5, <1>6 DEF PlanInv

LEMMA PlanSteps ==
    ASSUME PlanConstants, PlanInv, [PlanNext]_planVars
    PROVE  Good
<1>1. CASE UNCHANGED planVars
  BY <1>1, QuietSteps
<1>2. ASSUME NEW d \in Day, OpenDay(d) PROVE Good
  BY <1>2, OpenKeeps
<1>3. ASSUME NEW d \in Day, NEW w \in What, AddEntry(d, w) PROVE Good
  BY <1>3, AddKeeps
<1>4. ASSUME NEW d \in Day, NEW w \in What, NEW est \in Estimate,
             ConnectorPlan(d, w, est)
      PROVE  Good
  BY <1>4, PatchKeeps
<1>5. ASSUME NEW d \in Day, NEW h \in Habit, NEW est \in Estimate,
             NEW n \in DOMAIN plan[d][h], ConnectorEstimate(d, h, n, est)
      PROVE  Good
  BY <1>5, PatchKeeps
<1>6. ASSUME NEW d \in Day, NEW w \in What, NEW n \in DOMAIN plan[d][w],
             PatchEntry(d, w, n)
      PROVE  Good
  <2>1. CASE Tick(d, w, n) \/ Drop(d, w, n)
    BY <2>1, PatchKeeps
  <2>2. CASE \E est \in Estimate \cup {None} : EstimateRow(d, w, n, est)
    BY <2>2, EstimateKeeps
  <2> QED BY <1>6, <2>1, <2>2 DEF PatchEntry
<1>7. ASSUME NEW c \in Client, NEW d \in Day, NEW w \in What, NEW to \in Day,
             NEW n \in DOMAIN plan[d][w], RollRead(c, d, w, n, to)
      PROVE  Good
  BY <1>7, RollsBeginAndEnd
<1>8. ASSUME NEW c \in Client, RollAdd(c) \/ RollStamp(c) PROVE Good
  BY <1>8, RollAddKeeps, StampKeeps
<1>9. CASE RollCrash
  BY <1>9, RollsBeginAndEnd
<1>10. ASSUME NEW d \in Day, NEW capacity, NEW committed,
              SetRitual(d, capacity, committed)
       PROVE  Good
  BY <1>10, QuietSteps
<1>11. ASSUME NEW capacity \in Capacity \cup {None}, SetUsual(capacity) PROVE Good
  BY <1>11, QuietSteps
<1>12. ASSUME NEW t \in Task, SetAside(t) \/ Complete(t) PROVE Good
  BY <1>12, QuietSteps
<1>13. ASSUME NEW t \in Task, NEW l \in List, MoveTask(t, l) PROVE Good
  BY <1>13, MoveKeeps
<1>14. ASSUME NEW h \in Habit, PauseHabit(h) \/ DeleteHabit(h) PROVE Good
  BY <1>14, QuietSteps
<1>15. ASSUME NEW h \in Habit, NEW est \in Estimate \cup {None}, CreateHabit(h, est)
       PROVE  Good
  BY <1>15, QuietSteps
<1>16. ASSUME NEW h \in Habit, NEW est \in Estimate \cup {None}, EstimateHabit(h, est)
       PROVE  Good
  BY <1>16, EstimateKeeps
<1>17. CASE Midnight
  BY <1>17, QuietSteps
<1> QED BY <1>1, <1>2, <1>3, <1>4, <1>5, <1>6, <1>7, <1>8, <1>9, <1>10, <1>11, <1>12, <1>13,
           <1>14, <1>15, <1>16, <1>17 DEF PlanNext

LEMMA PlanStep ==
    ASSUME PlanConstants, PlanInv, [PlanNext]_planVars
    PROVE  PlanInv'
BY PlanSteps, OrderlyKeeps DEF Good

\* The rows of a thing name its list, a row that was rolled has something on the
\* other day, a roll under way still has its row, and a day nobody opened has only
\* what was put on it by hand (store.py and service.py, the rows of day_plan).
THEOREM PlanInductive ==
    PlanSpec => []PlanInv
<1>1. PlanInit => PlanInv
  BY PlanBegins, DayAssumption
<1>2. PlanInv /\ [PlanNext]_planVars => PlanInv'
  BY PlanStep, DayAssumption
<1> QED BY <1>1, <1>2, PTL DEF PlanSpec

\* A day says one thing about a piece of work: whoever adds, rolls, opens, moves or
\* ticks, and in whatever order, at most one of its rows is meant, and only the first
\* was put there by itself; but for a task that was moved while it was being rolled
\* and a row that was taken up again (service.py, add_day_entry, open_day,
\* roll_entry; store.py, find_day_entry).
THEOREM OneRowADay ==
    PlanSpec => []OneRow
<1>1. PlanInv => OneRow
  BY ZenonT(40) DEF PlanInv
<1> QED BY <1>1, PlanInductive, PTL

\* Work that was rolled to a day is on that day, under the same list, however many
\* clients roll at a time and wherever they crash (service.py, roll_entry, which adds
\* first and stamps after).
THEOREM RolledWorkArrives ==
    PlanSpec => []RolledArrives
<1>1. ASSUME PlanInv PROVE RolledArrives
  <2> SUFFICES ASSUME NEW d \in Day, NEW w \in What \ strayed,
                      NEW n \in DOMAIN plan[d][w], plan[d][w][n].rolled # None
               PROVE  \E m \in DOMAIN plan[plan[d][w][n].rolled][w] :
                        plan[plan[d][w][n].rolled][w][m].list = plan[d][w][n].list
    BY DEF RolledArrives
  <2> DEFINE e == plan[d][w][n].rolled
  <2>1. plan[d][w] \in Seq(PlanRow)
    BY <1>1 DEF PlanInv, PlanOK
  <2>2. plan[d][w][n] \in PlanRow
    BY <2>1
  <2>3. e \in Day
    BY <2>2 DEF PlanRow
  <2>4. plan[e][w] \in Seq(PlanRow) /\ plan[e][w] # <<>>
    BY <1>1, <2>3 DEF PlanInv, PlanOK, Arrived
  <2> HIDE DEF e
  <2>5. 1 \in DOMAIN plan[e][w]
    BY <2>4, EmptyRows
  <2>6. plan[e][w][1].list = ListOf(w) /\ plan[d][w][n].list = ListOf(w)
    BY <1>1, <2>3, <2>5 DEF PlanInv, Homed
  <2> QED BY <2>5, <2>6, SMTT(20) DEF e
<1>2. PlanInv => RolledArrives
  BY <1>1
<1> QED BY <1>2, PlanInductive, PTL

-----------------------------------------------------------------------------
(* What the first opening of a day takes over.                                  *)

\* A day is opened by OpenDay alone.
LEMMA OnlyOpeningOpens ==
    ASSUME [PlanNext]_planVars, NEW d \in opened' \ opened, opened \subseteq Day
    PROVE  d \in Day /\ OpenDay(d)
<1>1. opened' # opened
  OBVIOUS
<1>2. \E e \in Day : OpenDay(e)
  <2>1. CASE UNCHANGED planVars
    BY <1>1, <2>1 DEF planVars
  <2>2. CASE \E e \in Day, w \in What :
                AddEntry(e, w) \/ \E est \in Estimate : ConnectorPlan(e, w, est)
    BY <1>1, <2>2 DEF AddEntry, ConnectorPlan
  <2>3. CASE \E e \in Day, h \in Habit, est \in Estimate : \E n \in DOMAIN plan[e][h] :
                ConnectorEstimate(e, h, n, est)
    BY <1>1, <2>3, Zenon DEF ConnectorEstimate
  <2>4. CASE \E e \in Day, w \in What : \E n \in DOMAIN plan[e][w] :
                \/ PatchEntry(e, w, n)
                \/ \E c \in Client, to \in Day : RollRead(c, e, w, n, to)
    <3>1. ASSUME NEW e \in Day, NEW w \in What, NEW n \in DOMAIN plan[e][w],
                 PatchEntry(e, w, n)
          PROVE  FALSE
      BY <1>1, <3>1, Zenon DEF PatchEntry, Tick, Drop, EstimateRow
    <3>2. ASSUME NEW e \in Day, NEW w \in What, NEW n \in DOMAIN plan[e][w],
                 NEW c \in Client, NEW to \in Day, RollRead(c, e, w, n, to)
          PROVE  FALSE
      BY <1>1, <3>2, Zenon DEF RollRead
    <3> QED BY <2>4, <3>1, <3>2
  <2>5. CASE (\E c \in Client : RollAdd(c) \/ RollStamp(c)) \/ RollCrash
    BY <1>1, <2>5, Zenon DEF RollAdd, RollStamp, RollCrash
  <2>6. CASE \/ \E e \in Day : \E capacity \in Field(Capacity \cup {None}),
                    committed \in Field(BOOLEAN) : SetRitual(e, capacity, committed)
             \/ \E capacity \in Capacity \cup {None} : SetUsual(capacity)
    BY <1>1, <2>6 DEF SetRitual, SetUsual
  <2>7. CASE \E t \in Task : \/ SetAside(t) \/ Complete(t)
                             \/ \E l \in List : MoveTask(t, l)
    BY <1>1, <2>7 DEF SetAside, Complete, MoveTask
  <2>8. CASE \/ \E h \in Habit : PauseHabit(h) \/ DeleteHabit(h)
             \/ \E h \in Habit, est \in Estimate \cup {None} :
                    CreateHabit(h, est) \/ EstimateHabit(h, est)
    BY <1>1, <2>8 DEF PauseHabit, DeleteHabit, CreateHabit, EstimateHabit
  <2>9. CASE Midnight
    BY <1>1, <2>9 DEF Midnight
  <2> QED BY <2>1, <2>2, <2>3, <2>4, <2>5, <2>6, <2>7, <2>8, <2>9 DEF PlanNext
<1>3. PICK e \in Day : OpenDay(e)
  BY <1>2
<1>4. e = d
  BY <1>3 DEF OpenDay
<1> QED BY <1>3, <1>4

\* What the opening of a day puts on it.
LEMMA OpenedRows ==
    ASSUME PlanConstants, PlanInv, NEW d \in Day, OpenDay(d), NEW w \in What
    PROVE  plan'[d][w] = IF w \in Pending(d) THEN Append(plan[d][w], Derived(d, w))
                         ELSE plan[d][w]
<1>1. plan \in Table
  BY DEF PlanInv, PlanOK, Table
<1> QED BY <1>1 DEF OpenDay, Table

\* What that has to do with the last planned day before it.
LEMMA OpeningCarries ==
    ASSUME PlanConstants, PlanInv, NEW d \in Day \ opened, OpenDay(d),
           NEW w \in Task \cup Note, Earlier(d) # {}, NEW e, e = LastPlanned(d)
    PROVE  /\ Undecided(e, w) /\ w \notin Task \ Open /\ w \notin strayed =>
                plan'[d][w] # <<>>
           /\ \A n \in DOMAIN plan'[d][w] :
                plan'[d][w][n].source = "carried" => Undecided(e, w)
<1>1. w \in What /\ w \notin Habit
  BY DEF What, PlanConstants
<1>2. e \in Day
  BY LastIsLatest DEF Earlier
<1>3. plan[d][w] \in Seq(PlanRow) /\ plan[e][w] \in Seq(PlanRow)
  BY <1>1, <1>2 DEF PlanInv, PlanOK
<1>4. /\ w \in Pending(d) => plan'[d][w] = Append(plan[d][w], Derived(d, w))
      /\ w \notin Pending(d) => plan'[d][w] = plan[d][w]
  BY <1>1, OpenedRows
<1>5. ASSUME Undecided(e, w), w \notin Task \ Open, w \notin strayed
      PROVE  plan'[d][w] # <<>>
  <2>1. PICK n \in DOMAIN plan[e][w] :
            /\ plan[e][w][n].source = "user" /\ ~plan[e][w][n].done
            /\ ~plan[e][w][n].dropped /\ plan[e][w][n].rolled = None
    BY <1>5 DEF Undecided
  <2>2. w \in Task => plan[e][w][n].list = at[w] /\ w \in Open
    BY <1>1, <1>2, <1>5 DEF PlanInv, Homed, ListOf
  <2>3. n \in Chosen(e, w)
    BY <2>1, <2>2 DEF Chosen, Carries, Live
  <2>4. CASE Seen(d, w, ListOf(w))
    <3>1. plan[d][w] # <<>>
      BY <1>3, <2>4 DEF Seen
    <3>2. w \in Pending(d) => Derived(d, w) \in PlanRow
      BY DerivedRow
    <3> QED BY <1>3, <1>4, <3>1, <3>2
  <2>5. CASE ~Seen(d, w, ListOf(w))
    <3>1. w \in CarriedInto(d)
      BY <2>3, <2>5 DEF CarriedInto
    <3>2. w \in Pending(d)
      BY <3>1 DEF Pending, Preview
    <3>3. Derived(d, w) \in PlanRow
      BY <3>2, DerivedRow
    <3> QED BY <1>3, <1>4, <3>2, <3>3
  <2> QED BY <2>4, <2>5
<1>6. ASSUME NEW n \in DOMAIN plan'[d][w], plan'[d][w][n].source = "carried"
      PROVE  Undecided(e, w)
  <2>1. \A m \in DOMAIN plan[d][w] : plan[d][w][m].source = "user"
    BY <1>1 DEF PlanInv, Untouched
  <2>2. w \in Pending(d)
    BY <1>4, <1>6, <2>1
  <2>3. Derived(d, w).source = "carried"
    <3>1. Derived(d, w) \in PlanRow
      BY <2>2, DerivedRow
    <3>2. /\ DOMAIN plan'[d][w] = DOMAIN plan[d][w] \cup {Len(plan[d][w]) + 1}
          /\ \A m \in DOMAIN plan[d][w] : plan'[d][w][m] = plan[d][w][m]
          /\ plan'[d][w][Len(plan[d][w]) + 1] = Derived(d, w)
      BY <1>3, <1>4, <2>2, <3>1, AfterAppend
    <3>3. n \notin DOMAIN plan[d][w]
      <4> SUFFICES ASSUME n \in DOMAIN plan[d][w] PROVE FALSE
        OBVIOUS
      <4>1. plan'[d][w][n].source = "user"
        BY <2>1, <3>2
      <4> QED BY <1>6, <4>1
    <3>4. n = Len(plan[d][w]) + 1
      BY <1>6, <3>2, <3>3
    <3> QED BY <1>6, <3>2, <3>4
  <2>4. w \notin DueOn(d)
    <3>1. w \in DueOn(d) => Derived(d, w) = NewRow(at[w], "auto", taught[w])
      BY <1>1 DEF Derived
    <3> QED BY <2>3, <3>1 DEF NewRow
  <2>5. w \in CarriedInto(d)
    BY <1>1, <2>2, <2>4 DEF Pending, Preview, HabitsFor, Kept
  <2>6. PICK m \in DOMAIN plan[e][w] : Carries(w, plan[e][w][m])
    BY <2>5 DEF CarriedInto, Chosen
  <2> QED BY <2>6 DEF Carries, Live, Undecided
<1> QED BY <1>5, <1>6

\* The first opening of a day takes over what was chosen for the last planned day
\* before it and not decided about, and nothing older (service.py, _carry_into).
THEOREM DayCarriesOn ==
    PlanSpec => CarriesOn
<1> DEFINE Carrying ==
        \A d \in opened' \ opened : \A w \in Task \cup Note :
            LET before == {e \in Day : e < d /\ Planned(e)}
            IN  \A e \in before :
                (\A f \in before : f <= e) /\ d - e <= Lookback =>
                    /\ Undecided(e, w) /\ w \notin Task \ Open /\ w \notin strayed =>
                            plan'[d][w] # <<>>
                    /\ \A n \in DOMAIN plan'[d][w] :
                        plan'[d][w][n].source = "carried" => Undecided(e, w)
<1>1. ASSUME PlanInv, [PlanNext]_planVars PROVE Carrying
  <2> SUFFICES ASSUME NEW d \in opened' \ opened, NEW w \in Task \cup Note,
                      NEW e \in {f \in Day : f < d /\ Planned(f)},
                      \A f \in {g \in Day : g < d /\ Planned(g)} : f <= e,
                      d - e <= Lookback
               PROVE  /\ Undecided(e, w) /\ w \notin Task \ Open /\ w \notin strayed =>
                            plan'[d][w] # <<>>
                      /\ \A n \in DOMAIN plan'[d][w] :
                            plan'[d][w][n].source = "carried" => Undecided(e, w)
    OBVIOUS
  <2>1. d \in Day /\ OpenDay(d)
    <3>1. opened \subseteq Day
      BY <1>1 DEF PlanInv, PlanOK
    <3> QED BY <1>1, <3>1, OnlyOpeningOpens
  <2>2. d \in Nat /\ e \in Nat /\ Lookback \in Nat
    BY <2>1, DayAssumption DEF Day, PlanConstants
  <2>3. e \in Earlier(d)
    BY <2>2 DEF Earlier
  <2>4. /\ LastPlanned(d) \in Earlier(d)
        /\ e <= LastPlanned(d)
    BY <2>1, <2>3, LastIsLatest, DayAssumption
  <2>5. LastPlanned(d) <= e /\ LastPlanned(d) \in Nat
    BY <2>4, DayAssumption DEF Earlier, Day, PlanConstants
  <2>6. e = LastPlanned(d)
    BY <2>2, <2>4, <2>5
  <2> QED BY <1>1, <2>1, <2>3, <2>6, OpeningCarries, DayAssumption
<1>2. PlanInv /\ [PlanNext]_planVars => [Carrying]_planVars
  BY <1>1
<1> QED BY <1>2, PlanInductive, PTL DEF PlanSpec, CarriesOn

-----------------------------------------------------------------------------
(* What a day adds up to.                                                      *)

\* The rows of day d in the table p, and the sum of what they are to take.
RowsIn(p, d) == UNION {{w} \X DOMAIN p[d][w] : w \in What}
Cost(p, d) == [x \in RowsIn(p, d) |-> Minutes(p[d][x[1]][x[2]])]
SumIn(p, d, S) == SumFunctionOnSet(Cost(p, d), S)

LEMMA ARow ==
    ASSUME NEW p \in Table, NEW d \in Day, NEW x \in RowsIn(p, d)
    PROVE  /\ x[1] \in What /\ x[2] \in DOMAIN p[d][x[1]] /\ x = <<x[1], x[2]>>
           /\ p[d][x[1]][x[2]] \in PlanRow
<1>1. PICK w \in What : x \in {w} \X DOMAIN p[d][w]
  BY DEF RowsIn
<1>2. x[1] \in What /\ x[2] \in DOMAIN p[d][x[1]] /\ x = <<x[1], x[2]>>
  BY <1>1
<1>3. p[d][x[1]] \in Seq(PlanRow)
  BY <1>2 DEF Table
<1> QED
  BY <1>2, <1>3

LEMMA RowThere ==
    ASSUME NEW p, NEW d, NEW w \in What, NEW n \in DOMAIN p[d][w]
    PROVE  <<w, n>> \in RowsIn(p, d)
BY DEF RowsIn

LEMMA RowsFinite ==
    ASSUME PlanConstants, NEW p \in Table, NEW d \in Day
    PROVE  IsFiniteSet(RowsIn(p, d))
<1> DEFINE of(w) == {w} \X DOMAIN p[d][w]
           All == {of(w) : w \in What}
<1>1. IsFiniteSet(What)
  BY DEF PlanConstants
<1>2. IsFiniteSet(All)
  <2> DEFINE f == [w \in What |-> of(w)]
  <2> HIDE DEF of
  <2>1. f \in Surjection(What, All)
    BY DEF Surjection
  <2> QED
    BY <1>1, <2>1, FS_Surjection
<1>3. ASSUME NEW w \in What PROVE IsFiniteSet(of(w))
  <2>1. p[d][w] \in Seq(PlanRow)
    BY DEF Table
  <2>2. DOMAIN p[d][w] = 1 .. Len(p[d][w]) /\ Len(p[d][w]) \in Nat
    BY <2>1
  <2>3. IsFiniteSet(DOMAIN p[d][w])
    BY <2>2, FS_Interval
  <2> QED
    BY <2>3, FS_Singleton, FS_Product
<1>4. IsFiniteSet(UNION All)
  <2>1. \A T \in All : IsFiniteSet(T)
    BY <1>3
  <2> HIDE DEF All
  <2> QED
    BY <1>2, <2>1, FS_UNION
<1> QED
  BY <1>4 DEF RowsIn

LEMMA CostType ==
    ASSUME PlanConstants, NEW p \in Table, NEW d \in Day
    PROVE  /\ \A x \in RowsIn(p, d) : Cost(p, d)[x] = Minutes(p[d][x[1]][x[2]])
                                      /\ Cost(p, d)[x] \in Nat
           /\ \A S \in SUBSET RowsIn(p, d) : Summable(Cost(p, d), S) /\ SumIn(p, d, S) \in Int
<1>1. ASSUME NEW x \in RowsIn(p, d)
      PROVE  Cost(p, d)[x] = Minutes(p[d][x[1]][x[2]]) /\ Cost(p, d)[x] \in Nat
  <2>1. p[d][x[1]][x[2]] \in PlanRow
    BY ARow
  <2>2. Minutes(p[d][x[1]][x[2]]) \in Nat
    BY <2>1 DEF Minutes, PlanRow, PlanConstants
  <2> QED
    BY <2>2 DEF Cost
<1>2. ASSUME NEW S \in SUBSET RowsIn(p, d)
      PROVE  Summable(Cost(p, d), S) /\ SumIn(p, d, S) \in Int
  <2>1. IsFiniteSet(S)
    BY RowsFinite, FS_Subset
  <2>2. Summable(Cost(p, d), S)
    BY <1>1, <2>1 DEF Summable
  <2> QED
    BY <2>2, SumType DEF SumIn
<1> QED
  BY <1>1, <1>2

\* Of more rows that take no less, the sum is no less.
LEMMA MoreRowsTakeMore ==
    ASSUME PlanConstants, NEW p \in Table, NEW q \in Table, NEW d \in Day,
           NEW S \in SUBSET RowsIn(p, d), NEW T \in SUBSET RowsIn(q, d), S \subseteq T,
           \A x \in S : q[d][x[1]][x[2]] = p[d][x[1]][x[2]]
    PROVE  SumIn(p, d, S) <= SumIn(q, d, T)
<1> DEFINE f == Cost(p, d)
           g == Cost(q, d)
<1>1. /\ \A x \in S : f[x] \in Nat /\ f[x] = g[x]
      /\ \A x \in T : g[x] \in Nat
      /\ Summable(g, T)
  <2>1. \A x \in S : x \in RowsIn(p, d) /\ x \in RowsIn(q, d)
    OBVIOUS
  <2>2. \A x \in S : f[x] = g[x]
    BY <2>1, CostType
  <2> QED
    BY <2>1, <2>2, CostType
<1> HIDE DEF f, g
<1>2. SumFunctionOnSet(f, S) <= SumFunctionOnSet(g, T)
  <2>1. /\ \A x \in S : f[x] \in Int /\ f[x] <= g[x]
        /\ \A x \in T \ S : 0 <= g[x]
    BY <1>1
  <2> QED
    BY <1>1, <2>1, SumMonotone
<1> QED
  BY <1>2 DEF SumIn, f, g

LEMMA RowsAre ==
    ASSUME NEW d \in Day
    PROVE  /\ Rows(d) = RowsIn(plan, d) /\ Rows(d)' = RowsIn(plan', d)
           /\ \A S : Sum(d, S) = SumIn(plan, d, S)
BY Zenon DEF Rows, RowsIn, Sum, SumIn, Cost

-----------------------------------------------------------------------------
(* What is said of a day, and who says it.                                      *)

\* What a step leaves alone of what is said, and of the stamps of rows of tasks.
LEMMA WhoSays ==
    ASSUME [PlanNext]_planVars, said' # said
    PROVE  \E d \in Day :
             \E capacity \in Field(Capacity \cup {None}), committed \in Field(BOOLEAN) :
                SetRitual(d, capacity, committed)
<1> USE DEF ritual
<1>1. CASE UNCHANGED planVars
  BY <1>1 DEF planVars
<1>2. CASE \/ \E d \in Day : OpenDay(d)
           \/ \E e \in Day, w \in What :
                AddEntry(e, w) \/ \E est \in Estimate : ConnectorPlan(e, w, est)
           \/ \E e \in Day, h \in Habit, est \in Estimate : \E n \in DOMAIN plan[e][h] :
                ConnectorEstimate(e, h, n, est)
  BY <1>2, Zenon DEF OpenDay, AddEntry, ConnectorPlan, ConnectorEstimate
<1>3. CASE \E e \in Day, w \in What : \E n \in DOMAIN plan[e][w] :
                \/ PatchEntry(e, w, n)
                \/ \E c \in Client, to \in Day : RollRead(c, e, w, n, to)
  <2>1. ASSUME NEW e \in Day, NEW w \in What, NEW n \in DOMAIN plan[e][w], PatchEntry(e, w, n)
        PROVE  FALSE
    BY <2>1, Zenon DEF PatchEntry, Tick, Drop, EstimateRow, tasks
  <2>2. ASSUME NEW e \in Day, NEW w \in What, NEW n \in DOMAIN plan[e][w],
               NEW c \in Client, NEW to \in Day, RollRead(c, e, w, n, to)
        PROVE  FALSE
    BY <2>2, Zenon DEF RollRead, tasks
  <2> QED
    BY <1>3, <2>1, <2>2
<1>4. CASE (\E c \in Client : RollAdd(c) \/ RollStamp(c)) \/ RollCrash
  BY <1>4, Zenon DEF RollAdd, RollStamp, RollCrash
<1>5. CASE \E capacity \in Capacity \cup {None} : SetUsual(capacity)
  BY <1>5, Zenon DEF SetUsual
<1>6. CASE \E t \in Task : SetAside(t) \/ Complete(t) \/ \E l \in List : MoveTask(t, l)
  BY <1>6, Zenon DEF SetAside, Complete, MoveTask
<1>7. CASE \/ \E h \in Habit : PauseHabit(h) \/ DeleteHabit(h)
           \/ \E h \in Habit, est \in Estimate \cup {None} :
                  CreateHabit(h, est) \/ EstimateHabit(h, est)
  BY <1>7, Zenon DEF PauseHabit, DeleteHabit, CreateHabit, EstimateHabit
<1>8. CASE Midnight
  BY <1>8, Zenon DEF Midnight
<1> QED
  BY <1>1, <1>2, <1>3, <1>4, <1>5, <1>6, <1>7, <1>8 DEF PlanNext

\* Rows that come or change by themselves come with the opening of a day.
LEMMA WhoOpens ==
    ASSUME PlanInv, [PlanNext]_planVars, UNCHANGED <<deeds, roll>>, plan' # plan
    PROVE  \E d \in Day : OpenDay(d)
<1> USE DEF Deed
<1>0. deeds \in Nat /\ deeds + 1 # deeds
  BY DEF PlanInv, PlanOK
<1>1. CASE UNCHANGED planVars
  BY <1>1 DEF planVars
<1>2. CASE \/ \E e \in Day, w \in What :
                AddEntry(e, w) \/ \E est \in Estimate : ConnectorPlan(e, w, est)
           \/ \E e \in Day, h \in Habit, est \in Estimate : \E n \in DOMAIN plan[e][h] :
                ConnectorEstimate(e, h, n, est)
  BY <1>0, <1>2, Zenon DEF AddEntry, ConnectorPlan, ConnectorEstimate
<1>3. CASE \E e \in Day, w \in What : \E n \in DOMAIN plan[e][w] :
                \/ PatchEntry(e, w, n)
                \/ \E c \in Client, to \in Day : RollRead(c, e, w, n, to)
  <2>1. ASSUME NEW e \in Day, NEW w \in What, NEW n \in DOMAIN plan[e][w], PatchEntry(e, w, n)
        PROVE  FALSE
    BY <1>0, <2>1, Zenon DEF PatchEntry, Tick, Drop, EstimateRow, tasks
  <2>2. ASSUME NEW e \in Day, NEW w \in What, NEW n \in DOMAIN plan[e][w],
               NEW c \in Client, NEW to \in Day, RollRead(c, e, w, n, to)
        PROVE  FALSE
    BY <1>0, <2>2, Zenon DEF RollRead, tasks
  <2> QED
    BY <1>3, <2>1, <2>2
<1>4. ASSUME NEW c \in Client, RollAdd(c) PROVE FALSE
  <2>1. roll \in [Client -> Rolling \cup {NoRoll}]
    BY DEF PlanInv, PlanOK
  <2>2. roll[c].pc = "add" /\ roll'[c].pc = "stamp"
    <3>1. roll[c].pc = "add" /\ roll' = [roll EXCEPT ![c].pc = "stamp"]
      BY <1>4, Zenon DEF RollAdd
    <3>2. roll[c] \in Rolling
      BY <2>1, <3>1 DEF NoRoll
    <3> QED
      BY <2>1, <3>1, <3>2 DEF Rolling
  <2> QED
    BY <2>2
<1>5. ASSUME NEW c \in Client, RollStamp(c) PROVE FALSE
  <2>1. roll \in [Client -> Rolling \cup {NoRoll}]
    BY DEF PlanInv, PlanOK
  <2>2. roll[c].pc = "stamp" /\ roll'[c] = NoRoll
    BY <1>5, <2>1 DEF RollStamp
  <2> QED
    BY <2>2 DEF NoRoll
<1>6. CASE RollCrash
  BY <1>6, Zenon DEF RollCrash
<1>7. CASE \/ \E d \in Day : \E capacity \in Field(Capacity \cup {None}),
                  committed \in Field(BOOLEAN) : SetRitual(d, capacity, committed)
           \/ \E capacity \in Capacity \cup {None} : SetUsual(capacity)
  BY <1>7, Zenon DEF SetRitual, SetUsual
<1>8. CASE \E t \in Task : SetAside(t) \/ Complete(t) \/ \E l \in List : MoveTask(t, l)
  BY <1>0, <1>8, Zenon DEF SetAside, Complete, MoveTask
<1>9. CASE \/ \E h \in Habit : PauseHabit(h) \/ DeleteHabit(h)
           \/ \E h \in Habit, est \in Estimate \cup {None} :
                  CreateHabit(h, est) \/ EstimateHabit(h, est)
  BY <1>0, <1>9, Zenon DEF PauseHabit, DeleteHabit, CreateHabit, EstimateHabit
<1>10. CASE Midnight
  BY <1>10, Zenon DEF Midnight
<1> QED
  BY <1>1, <1>2, <1>3, <1>4, <1>5, <1>6, <1>7, <1>8, <1>9, <1>10 DEF PlanNext

\* The tasks are completed, set aside and moved by the owner.
LEMMA WhoDecides ==
    ASSUME [PlanNext]_planVars, tasks' # tasks
    PROVE  \E t \in Task : SetAside(t) \/ Complete(t) \/ \E l \in List : MoveTask(t, l)
<1>1. CASE UNCHANGED planVars
  BY <1>1, Zenon DEF planVars, tasks
<1>2. CASE \/ \E d \in Day : OpenDay(d)
           \/ \E e \in Day, w \in What :
                AddEntry(e, w) \/ \E est \in Estimate : ConnectorPlan(e, w, est)
           \/ \E e \in Day, h \in Habit, est \in Estimate : \E n \in DOMAIN plan[e][h] :
                ConnectorEstimate(e, h, n, est)
  BY <1>2, Zenon DEF OpenDay, AddEntry, ConnectorPlan, ConnectorEstimate
<1>3. CASE \E e \in Day, w \in What : \E n \in DOMAIN plan[e][w] :
                \/ PatchEntry(e, w, n)
                \/ \E c \in Client, to \in Day : RollRead(c, e, w, n, to)
  <2>1. ASSUME NEW e \in Day, NEW w \in What, NEW n \in DOMAIN plan[e][w], PatchEntry(e, w, n)
        PROVE  FALSE
    BY <2>1, Zenon DEF PatchEntry, Tick, Drop, EstimateRow, tasks
  <2>2. ASSUME NEW e \in Day, NEW w \in What, NEW n \in DOMAIN plan[e][w],
               NEW c \in Client, NEW to \in Day, RollRead(c, e, w, n, to)
        PROVE  FALSE
    BY <2>2, Zenon DEF RollRead, tasks
  <2> QED
    BY <1>3, <2>1, <2>2
<1>4. CASE (\E c \in Client : RollAdd(c) \/ RollStamp(c)) \/ RollCrash
  BY <1>4, Zenon DEF RollAdd, RollStamp, RollCrash
<1>5. CASE \/ \E d \in Day : \E capacity \in Field(Capacity \cup {None}),
                  committed \in Field(BOOLEAN) : SetRitual(d, capacity, committed)
           \/ \E capacity \in Capacity \cup {None} : SetUsual(capacity)
  BY <1>5, Zenon DEF SetRitual, SetUsual
<1>6. CASE \/ \E h \in Habit : PauseHabit(h) \/ DeleteHabit(h)
           \/ \E h \in Habit, est \in Estimate \cup {None} :
                  CreateHabit(h, est) \/ EstimateHabit(h, est)
  BY <1>6, Zenon DEF PauseHabit, DeleteHabit, CreateHabit, EstimateHabit
<1>7. CASE Midnight
  BY <1>7, Zenon DEF Midnight
<1> QED
  BY <1>1, <1>2, <1>3, <1>4, <1>5, <1>6, <1>7 DEF PlanNext

-----------------------------------------------------------------------------
(* What no step does: tick the row of a task, or change the habits of a day      *)
(* that is over.                                                                *)

TicksNoTask == \A d \in Day, t \in Task : \A n \in DOMAIN plan'[d][t] :
    plan'[d][t][n].done => n \in DOMAIN plan[d][t] /\ plan[d][t][n].done

HabitsStand == \A d \in Finished, h \in Habit :
    /\ Len(plan'[d][h]) = Len(plan[d][h])
    /\ taught'[h] # taught[h] => plan'[d][h] = plan[d][h]

Calm == TicksNoTask /\ HabitsStand

TeachesNone == \A h \in Habit : taught'[h] = taught[h]

LEMMA SameEnd ==
    ASSUME NEW a \in Nat, NEW b \in Nat, 1 .. a = 1 .. b
    PROVE  a = b
<1>1. \A n \in Int : 1 <= n /\ n <= a <=> 1 <= n /\ n <= b
  <2> TAKE n \in Int
  <2>1. n \in 1 .. a <=> n \in 1 .. b
    OBVIOUS
  <2>2. /\ n \in 1 .. a <=> 1 <= n /\ n <= a
        /\ n \in 1 .. b <=> 1 <= n /\ n <= b
    OBVIOUS
  <2> QED BY <2>1, <2>2
<1>2. a > b => 1 <= a /\ a <= b
  BY <1>1
<1>3. b > a => 1 <= b /\ b <= a
  BY <1>1
<1> QED
  BY <1>2, <1>3

LEMMA SameLength ==
    ASSUME NEW S, NEW s \in Seq(S), NEW t \in Seq(S), DOMAIN s = DOMAIN t
    PROVE  Len(s) = Len(t)
<1>1. DOMAIN s = 1 .. Len(s) /\ DOMAIN t = 1 .. Len(t) /\ Len(s) \in Nat /\ Len(t) \in Nat
  OBVIOUS
<1>2. 1 .. Len(s) = 1 .. Len(t)
  BY <1>1
<1> QED
  BY <1>1, <1>2, SameEnd

LEMMA Apart3 ==
    ASSUME PlanConstants
    PROVE  /\ \A h \in Habit : h \in What /\ h \notin Task /\ h \notin Note
           /\ \A t \in Task : t \in What /\ t \notin Habit
           /\ Finished \subseteq Day
BY DEF PlanConstants, What, Finished

LEMMA CalmIfQuiet ==
    ASSUME UNCHANGED plan
    PROVE  Calm
BY DEF Calm, TicksNoTask, HabitsStand

LEMMA CalmEdit ==
    ASSUME PlanConstants, PlanInv, NEW d \in Day, NEW w \in What, NEW n \in DOMAIN plan[d][w],
           NEW r \in PlanRow, plan' = Edited(plan, d, w, n, r),
           w \in Task => r.done = plan[d][w][n].done, TeachesNone
    PROVE  Calm
<1>1. plan \in Table
  BY DEF PlanInv, PlanOK, Table
<1>2. /\ plan' \in Table
      /\ \A e \in Day, v \in What : DOMAIN plan'[e][v] = DOMAIN plan[e][v]
      /\ \A e \in Day, v \in What : \A m \in DOMAIN plan[e][v] :
            plan'[e][v][m] = IF e = d /\ v = w /\ m = n THEN r ELSE plan[e][v][m]
  BY <1>1, RowEdited
<1>3. TicksNoTask
  BY <1>2, Apart3 DEF TicksNoTask
<1>4. HabitsStand
  <2> SUFFICES ASSUME NEW e \in Finished, NEW h \in Habit
               PROVE  Len(plan'[e][h]) = Len(plan[e][h])
    BY DEF HabitsStand, TeachesNone
  <2>1. plan[e][h] \in Seq(PlanRow) /\ plan'[e][h] \in Seq(PlanRow)
    BY <1>1, <1>2, Apart3 DEF Table
  <2>2. DOMAIN plan'[e][h] = DOMAIN plan[e][h]
    BY <1>2, Apart3
  <2> QED
    BY <2>1, <2>2, SameLength
<1> QED
  BY <1>3, <1>4 DEF Calm

LEMMA CalmAdd ==
    ASSUME PlanConstants, PlanInv, NEW d \in Day, NEW w \in Task \cup Note, NEW r \in PlanRow,
           ~r.done, plan' = Added(plan, d, w, r)
    PROVE  Calm
<1>1. plan \in Table /\ w \in What
  BY DEF PlanInv, PlanOK, Table, What
<1>2. /\ \A e \in Day, v \in What : e # d \/ v # w => plan'[e][v] = plan[e][v]
      /\ plan'[d][w] = Append(plan[d][w], r)
  BY <1>1, RowAdded
<1>3. plan[d][w] \in Seq(PlanRow)
  BY <1>1 DEF Table
<1>4. \A n \in DOMAIN plan'[d][w] :
        \/ n \in DOMAIN plan[d][w] /\ plan'[d][w][n] = plan[d][w][n]
        \/ plan'[d][w][n] = r
  BY <1>2, <1>3, AfterAppend
<1>5. TicksNoTask
  <2> SUFFICES ASSUME NEW e \in Day, NEW t \in Task, NEW n \in DOMAIN plan'[e][t],
                      plan'[e][t][n].done
               PROVE  n \in DOMAIN plan[e][t] /\ plan[e][t][n].done
    BY DEF TicksNoTask
  <2>1. CASE e = d /\ t = w
    BY <1>4, <2>1
  <2>2. CASE ~(e = d /\ t = w)
    BY <1>2, <2>2, Apart3
  <2> QED
    BY <2>1, <2>2
<1>6. HabitsStand
  BY <1>2, Apart3 DEF HabitsStand
<1> QED
  BY <1>5, <1>6 DEF Calm

\* fill_habit_estimates reaches no day that is over, and nothing but the habit.
LEMMA FillsAside ==
    ASSUME PlanConstants, plan \in Table, NEW h \in Habit, NEW est, NEW d \in Day, NEW w \in What,
           w # h \/ d \in Finished
    PROVE  FillHabit(plan, h, est)[d][w] = plan[d][w]
<1>1. plan[d] \in [What -> Seq(PlanRow)] /\ h \in What
  BY DEF Table, What
<1>2. FillHabit(plan, h, est)[d] = [plan[d] EXCEPT ![h] =
        [n \in DOMAIN plan[d][h] |->
            IF est # None /\ Fills(d, plan[d][h][n]) THEN [plan[d][h][n] EXCEPT !.est = est]
                                                     ELSE plan[d][h][n]]]
  BY Zenon DEF FillHabit
<1>3. CASE w # h
  BY <1>1, <1>2, <1>3
<1>4. CASE d \in Finished
  <2>1. \A n : ~Fills(d, plan[d][h][n])
    BY <1>4 DEF Fills, Finished, Writable
  <2>2. plan[d][h] \in Seq(PlanRow)
    BY <1>1
  <2>3. plan[d][h] = [n \in DOMAIN plan[d][h] |-> plan[d][h][n]]
    BY <2>2
  <2>4. FillHabit(plan, h, est)[d] = [plan[d] EXCEPT ![h] = plan[d][h]]
    BY <1>2, <2>1, <2>3
  <2> QED
    BY <1>1, <2>4
<1> QED
  BY <1>3, <1>4

LEMMA CalmFill ==
    ASSUME PlanConstants, PlanInv, NEW h \in Habit, NEW est \in Estimate \cup {None},
           taught' = [taught EXCEPT ![h] = est],
           \/ plan' = FillHabit(plan, h, est)
           \/ \E d \in Day : \E n \in DOMAIN plan[d][h] :
                d \notin Finished /\ plan' = [FillHabit(plan, h, est) EXCEPT ![d][h][n].est = est]
    PROVE  Calm
<1>1. plan \in Table /\ h \in What
  BY DEF PlanInv, PlanOK, Table, What
<1>2. ASSUME NEW e \in Day, NEW w \in What, w # h \/ e \in Finished
      PROVE  plan'[e][w] = plan[e][w]
  <2>1. FillHabit(plan, h, est)[e][w] = plan[e][w]
    BY <1>1, <1>2, FillsAside
  <2>2. CASE plan' = FillHabit(plan, h, est)
    BY <2>1, <2>2
  <2>3. ASSUME NEW d \in Day, NEW n \in DOMAIN plan[d][h], d \notin Finished,
               plan' = [FillHabit(plan, h, est) EXCEPT ![d][h][n].est = est]
        PROVE  plan'[e][w] = plan[e][w]
    <3> DEFINE q == FillHabit(plan, h, est)
    <3>1. q \in Table
      BY <1>1, HabitFilled
    <3> HIDE DEF q
    <3>2. plan' = [q EXCEPT ![d] = [q[d] EXCEPT ![h] = [q[d][h] EXCEPT ![n] =
                        [q[d][h][n] EXCEPT !.est = est]]]]
      BY <2>3 DEF q
    <3>3. plan'[e][w] = q[e][w]
      <4>1. CASE e # d
        BY <3>1, <3>2, <4>1 DEF Table
      <4>2. CASE e = d /\ w # h
        <5>1. q[d] \in [What -> Seq(PlanRow)]
          BY <3>1 DEF Table
        <5> QED
          BY <3>1, <3>2, <4>2, <5>1 DEF Table
      <4> QED
        BY <1>2, <2>3, <4>1, <4>2
    <3> QED
      BY <2>1, <3>3 DEF q
  <2> QED
    BY <2>2, <2>3
<1>3. TicksNoTask
  BY <1>2, Apart3 DEF TicksNoTask
<1>4. HabitsStand
  BY <1>2, Apart3 DEF HabitsStand
<1> QED
  BY <1>3, <1>4 DEF Calm

LEMMA DerivedIsOpen ==
    ASSUME NEW d, NEW w
    PROVE  ~Derived(d, w).done
BY DEF Derived, NewRow

LEMMA CalmOpen ==
    ASSUME PlanConstants, PlanInv, NEW d \in Day, OpenDay(d)
    PROVE  Calm
<1>1. plan \in Table
  BY DEF PlanInv, PlanOK, Table
<1>2. \A e \in Day : e # d => plan'[e] = plan[e]
  BY <1>1 DEF OpenDay, Table
<1>3. ASSUME NEW t \in Task, NEW n \in DOMAIN plan'[d][t], plan'[d][t][n].done
      PROVE  n \in DOMAIN plan[d][t] /\ plan[d][t][n].done
  <2>1. t \in What
    BY DEF What
  <2>2. CASE t \in Pending(d)
    <3>1. plan'[d][t] = Append(plan[d][t], Derived(d, t)) /\ Derived(d, t) \in PlanRow
      BY <2>1, <2>2, OpenedRows, DerivedRow
    <3>2. plan[d][t] \in Seq(PlanRow)
      BY <1>1, <2>1 DEF Table
    <3>3. \/ n \in DOMAIN plan[d][t] /\ plan'[d][t][n] = plan[d][t][n]
          \/ plan'[d][t][n] = Derived(d, t)
      BY <3>1, <3>2, AfterAppend
    <3> QED
      BY <1>3, <3>3, DerivedIsOpen
  <2>3. CASE t \notin Pending(d)
    BY <1>3, <2>1, <2>3, OpenedRows
  <2> QED
    BY <2>2, <2>3
<1>4. ASSUME d \in Finished, NEW h \in Habit
      PROVE  plan'[d][h] = plan[d][h]
  <2>1. HabitsFor(d) = {}
    BY <1>4 DEF HabitsFor, MintingAllowed, Finished, Writable
  <2>2. h \notin DueOn(d) /\ h \notin CarriedInto(d)
    BY Apart3 DEF DueOn, Open, CarriedInto
  <2>3. h \notin Pending(d) /\ h \in What
    BY <2>1, <2>2, Apart3 DEF Pending, Preview
  <2> QED
    BY <2>3, OpenedRows
<1>5. TicksNoTask
  BY <1>2, <1>3 DEF TicksNoTask
<1>6. HabitsStand
  BY <1>2, <1>4, Apart3 DEF HabitsStand
<1> QED
  BY <1>5, <1>6 DEF Calm

LEMMA CalmAddTo ==
    ASSUME PlanConstants, PlanInv, NEW d \in Day, NEW w \in Task \cup Note,
           NEW list \in List \cup {None}, NEW est \in Estimate \cup {None},
           AddTo(d, w, list, est)
    PROVE  Calm
<1>1. CASE Found(d, w, list)
  BY <1>1, CalmIfQuiet DEF AddTo
<1>2. CASE ~Found(d, w, list)
  <2> DEFINE e == IF est # None THEN est ELSE Remembered(w, list)
             r == NewRow(list, "user", e)
  <2>1. e \in Estimate \cup {None}
    BY DEF Remembered, PlanInv, PlanOK
  <2>2. plan' = Added(plan, d, w, r)
    BY <1>2 DEF AddTo, Added
  <2> HIDE DEF e
  <2>3. r \in PlanRow /\ ~r.done
    BY <2>1 DEF NewRow, PlanRow
  <2> HIDE DEF r
  <2> QED
    BY <2>2, <2>3, CalmAdd
<1> QED
  BY <1>1, <1>2

\* A patch of a row that leaves its tick alone, or is of no task.
LEMMA CalmPatches ==
    ASSUME PlanConstants, PlanInv, NEW d \in Day, NEW w \in What, NEW n \in DOMAIN plan[d][w],
           TeachesNone
    PROVE  /\ w \notin Task /\ plan' = [plan EXCEPT ![d][w][n].done = ~@] => Calm
           /\ plan' = [plan EXCEPT ![d][w][n].dropped = ~@] => Calm
           /\ \A est \in Estimate \cup {None} : plan' = Patched(d, w, n, est) => Calm
           /\ \A to \in Day : plan' = [plan EXCEPT ![d][w][n].rolled = to] => Calm
<1>1. plan[d][w][n] \in PlanRow
  <2>1. plan[d][w] \in Seq(PlanRow)
    BY DEF PlanInv, PlanOK
  <2> QED
    BY <2>1
<1> DEFINE row == plan[d][w][n]
<1>2. ASSUME NEW r \in PlanRow, plan' = Edited(plan, d, w, n, r), w \in Task => r.done = row.done
      PROVE  Calm
  BY <1>2, CalmEdit
<1>3. ASSUME w \notin Task, plan' = [plan EXCEPT ![d][w][n].done = ~@]
      PROVE  Calm
  <2>1. [row EXCEPT !.done = ~row.done] \in PlanRow
    BY <1>1, RowFields
  <2>2. plan' = Edited(plan, d, w, n, [row EXCEPT !.done = ~row.done])
    BY <1>3, Zenon DEF Edited
  <2> QED
    BY <1>2, <1>3, <2>1, <2>2
<1>4. ASSUME plan' = [plan EXCEPT ![d][w][n].dropped = ~@]
      PROVE  Calm
  <2>1. [row EXCEPT !.dropped = ~row.dropped] \in PlanRow
    BY <1>1, RowFields
  <2>2. plan' = Edited(plan, d, w, n, [row EXCEPT !.dropped = ~row.dropped])
    BY <1>4, Zenon DEF Edited
  <2>3. [row EXCEPT !.dropped = ~row.dropped].done = row.done
    BY <1>1 DEF PlanRow
  <2> QED
    BY <1>2, <2>1, <2>2, <2>3
<1>5. ASSUME NEW est \in Estimate \cup {None}, plan' = Patched(d, w, n, est)
      PROVE  Calm
  <2>1. [row EXCEPT !.est = est] \in PlanRow
    BY <1>1, RowFields
  <2>2. plan' = Edited(plan, d, w, n, [row EXCEPT !.est = est])
    BY <1>5, Zenon DEF Edited, Patched
  <2>3. [row EXCEPT !.est = est].done = row.done
    BY <1>1 DEF PlanRow
  <2> QED
    BY <1>2, <2>1, <2>2, <2>3
<1>6. ASSUME NEW to \in Day, plan' = [plan EXCEPT ![d][w][n].rolled = to]
      PROVE  Calm
  <2>1. [row EXCEPT !.rolled = to] \in PlanRow
    BY <1>1, RowFields
  <2>2. plan' = Edited(plan, d, w, n, [row EXCEPT !.rolled = to])
    BY <1>6, Zenon DEF Edited
  <2>3. [row EXCEPT !.rolled = to].done = row.done
    BY <1>1 DEF PlanRow
  <2> QED
    BY <1>2, <2>1, <2>2, <2>3
<1> QED
  BY <1>3, <1>4, <1>5, <1>6

LEMMA TeachTasks ==
    ASSUME PlanConstants, PlanInv, NEW w, NEW list, NEW est, taught' = Teach(w, list, est)
    PROVE  TeachesNone
<1>1. taught \in [Task \cup Habit -> Estimate \cup {None}]
  BY DEF PlanInv, PlanOK
<1> QED
  BY <1>1, Apart3 DEF Teach, TeachesNone

LEMMA CalmMove ==
    ASSUME PlanConstants, PlanInv, NEW t \in Task, NEW l \in List, MoveTask(t, l)
    PROVE  Calm
<1>1. plan \in Table /\ t \in What
  BY DEF PlanInv, PlanOK, Table, What
<1>2. ASSUME NEW d \in Day
      PROVE  /\ \A w \in What : w # t => plan'[d][w] = plan[d][w]
             /\ plan'[d][t] = [n \in DOMAIN plan[d][t] |-> Repoint(d, t, l, plan[d][t][n])]
  <2>1. plan[d] \in [What -> Seq(PlanRow)]
    BY <1>1 DEF Table
  <2>2. plan'[d] = [plan[d] EXCEPT ![t] =
                        [n \in DOMAIN plan[d][t] |-> Repoint(d, t, l, plan[d][t][n])]]
    BY Zenon DEF MoveTask
  <2> QED
    BY <1>1, <2>1, <2>2
<1>3. ASSUME NEW d \in Day, NEW n \in DOMAIN plan'[d][t]
      PROVE  n \in DOMAIN plan[d][t] /\ plan'[d][t][n].done = plan[d][t][n].done
  <2>1. n \in DOMAIN plan[d][t] /\ plan'[d][t][n] = Repoint(d, t, l, plan[d][t][n])
    BY <1>2, <1>3
  <2>2. plan[d][t] \in Seq(PlanRow)
    BY <1>1 DEF Table
  <2>3. plan[d][t][n] \in PlanRow
    BY <2>1, <2>2
  <2> QED
    BY <2>1, <2>3 DEF Repoint, PlanRow
<1>4. TicksNoTask
  <2> SUFFICES ASSUME NEW d \in Day, NEW u \in Task, NEW n \in DOMAIN plan'[d][u],
                      plan'[d][u][n].done
               PROVE  n \in DOMAIN plan[d][u] /\ plan[d][u][n].done
    BY DEF TicksNoTask
  <2>1. CASE u = t
    BY <1>3, <2>1
  <2>2. CASE u # t
    <3>1. plan'[d][u] = plan[d][u]
      BY <1>2, <2>2, Apart3
    <3> QED
      BY <3>1
  <2> QED
    BY <2>1, <2>2
<1>5. HabitsStand
  BY <1>2, Apart3 DEF HabitsStand
<1> QED
  BY <1>4, <1>5 DEF Calm

LEMMA CalmEstimate ==
    ASSUME PlanConstants, PlanInv, NEW d \in Day, NEW w \in What, NEW n \in DOMAIN plan[d][w],
           NEW est \in Estimate \cup {None}, EstimateRow(d, w, n, est)
    PROVE  Calm
<1>1. CASE TeachesHabit(d, w, n)
  <2>1. w \in Habit /\ d \notin Finished
    BY <1>1 DEF TeachesHabit, Kept, Finished
  <2>2. /\ taught' = [taught EXCEPT ![w] = est]
        /\ plan' = [FillHabit(plan, w, est) EXCEPT ![d][w][n].est = est]
    BY <1>1, Zenon DEF EstimateRow
  <2> QED
    BY <2>1, <2>2, CalmFill, Zenon
<1>2. CASE ~TeachesHabit(d, w, n)
  <2>1. taught' = Teach(w, plan[d][w][n].list, est) /\ plan' = Patched(d, w, n, est)
    BY <1>2, Zenon DEF EstimateRow
  <2> QED
    BY <2>1, TeachTasks, CalmPatches, Zenon
<1> QED
  BY <1>1, <1>2

LEMMA EveryStepIsCalm ==
    ASSUME PlanConstants, PlanInv, [PlanNext]_planVars
    PROVE  Calm
<1>1. CASE UNCHANGED planVars
  BY <1>1, CalmIfQuiet DEF planVars
<1>2. ASSUME NEW d \in Day, OpenDay(d) PROVE Calm
  BY <1>2, CalmOpen
<1>3. ASSUME NEW d \in Day, NEW w \in What, AddEntry(d, w) PROVE Calm
  <2>1. w \in Task \cup Note /\ ListOf(w) \in List \cup {None}
    BY <1>3 DEF AddEntry, What, ListOf, PlanInv, PlanOK
  <2>2. PICK est \in Estimate \cup {None} : AddTo(d, w, ListOf(w), est)
    BY <1>3, Zenon DEF AddEntry
  <2> QED
    BY <2>1, <2>2, CalmAddTo
<1>4. ASSUME NEW d \in Day, NEW w \in What, NEW est \in Estimate, ConnectorPlan(d, w, est)
      PROVE  Calm
  <2>1. PICK n \in DOMAIN plan[d][w] : plan' = Patched(d, w, n, est)
    BY <1>4, Zenon DEF ConnectorPlan
  <2>2. TeachesNone
    <3>1. taught' = Teach(w, ListOf(w), est)
      BY <1>4, Zenon DEF ConnectorPlan
    <3> QED
      BY <3>1, TeachTasks
  <2> QED
    BY <2>1, <2>2, CalmPatches
<1>5. ASSUME NEW d \in Day, NEW h \in Habit, NEW est \in Estimate,
             NEW n \in DOMAIN plan[d][h], ConnectorEstimate(d, h, n, est)
      PROVE  Calm
  <2>1. plan' = Patched(d, h, n, est) /\ TeachesNone /\ h \in What
    BY <1>5, Apart3, Zenon DEF ConnectorEstimate, TeachesNone
  <2> QED
    BY <2>1, CalmPatches
<1>6. ASSUME NEW d \in Day, NEW w \in What, NEW n \in DOMAIN plan[d][w],
             PatchEntry(d, w, n)
      PROVE  Calm
  <2>1. CASE Tick(d, w, n)
    <3>1. w \notin Task /\ plan' = [plan EXCEPT ![d][w][n].done = ~@] /\ TeachesNone
      BY <2>1, Zenon DEF Tick, TeachesNone
    <3> QED
      BY <3>1, CalmPatches
  <2>2. CASE Drop(d, w, n)
    <3>1. plan' = [plan EXCEPT ![d][w][n].dropped = ~@] /\ TeachesNone
      BY <2>2, Zenon DEF Drop, TeachesNone
    <3> QED
      BY <3>1, CalmPatches
  <2>3. CASE \E est \in Estimate \cup {None} : EstimateRow(d, w, n, est)
    BY <2>3, CalmEstimate
  <2> QED
    BY <1>6, <2>1, <2>2, <2>3 DEF PatchEntry
<1>7. ASSUME NEW c \in Client, NEW d \in Day, NEW w \in What, NEW to \in Day,
             NEW n \in DOMAIN plan[d][w], RollRead(c, d, w, n, to)
      PROVE  Calm
  BY <1>7, CalmIfQuiet, Zenon DEF RollRead
<1>8. ASSUME NEW c \in Client, RollAdd(c) PROVE Calm
  <2>1. roll[c] \in Rolling /\ AddTo(roll[c].to, roll[c].what, roll[c].list, roll[c].est)
    BY <1>8 DEF RollAdd, NoRoll, PlanInv, PlanOK
  <2>2. /\ roll[c].to \in Day /\ roll[c].what \in Task \cup Note
        /\ roll[c].list \in List \cup {None} /\ roll[c].est \in Estimate \cup {None}
    BY <2>1 DEF Rolling
  <2> QED
    BY <2>1, <2>2, CalmAddTo
<1>9. ASSUME NEW c \in Client, RollStamp(c) PROVE Calm
  <2>1. roll[c] \in Rolling /\ roll[c] # NoRoll
    BY <1>9 DEF RollStamp, NoRoll, PlanInv, PlanOK
  <2>2. roll[c].day \in Day /\ roll[c].what \in What /\ roll[c].to \in Day
    BY <2>1 DEF Rolling, What
  <2>3. roll[c].n \in DOMAIN plan[roll[c].day][roll[c].what]
    BY <2>1 DEF PlanInv, RollsHold
  <2>4. /\ plan' = [plan EXCEPT ![roll[c].day][roll[c].what][roll[c].n].rolled = roll[c].to]
        /\ TeachesNone
    BY <1>9, Zenon DEF RollStamp, TeachesNone
  <2> QED
    BY <2>2, <2>3, <2>4, CalmPatches
<1>10. CASE RollCrash
  BY <1>10, CalmIfQuiet, Zenon DEF RollCrash
<1>11. ASSUME NEW d \in Day, NEW capacity, NEW committed, SetRitual(d, capacity, committed)
       PROVE  Calm
  BY <1>11, CalmIfQuiet, Zenon DEF SetRitual
<1>12. ASSUME NEW capacity \in Capacity \cup {None}, SetUsual(capacity) PROVE Calm
  BY <1>12, CalmIfQuiet, Zenon DEF SetUsual
<1>13. ASSUME NEW t \in Task, SetAside(t) \/ Complete(t) PROVE Calm
  BY <1>13, CalmIfQuiet, Zenon DEF SetAside, Complete
<1>14. ASSUME NEW t \in Task, NEW l \in List, MoveTask(t, l) PROVE Calm
  BY <1>14, CalmMove
<1>15. ASSUME NEW h \in Habit, PauseHabit(h) \/ DeleteHabit(h) PROVE Calm
  BY <1>15, CalmIfQuiet, Zenon DEF PauseHabit, DeleteHabit
<1>16. ASSUME NEW h \in Habit, NEW est \in Estimate \cup {None}, CreateHabit(h, est)
       PROVE  Calm
  BY <1>16, CalmIfQuiet, Zenon DEF CreateHabit
<1>17. ASSUME NEW h \in Habit, NEW est \in Estimate \cup {None}, EstimateHabit(h, est)
       PROVE  Calm
  BY <1>17, CalmFill, Zenon DEF EstimateHabit
<1>18. CASE Midnight
  BY <1>18, CalmIfQuiet, Zenon DEF Midnight
<1>19. CASE \/ \E d \in Day : OpenDay(d)
            \/ \E d \in Day, w \in What :
                 AddEntry(d, w) \/ \E est \in Estimate : ConnectorPlan(d, w, est)
            \/ \E d \in Day, h \in Habit, est \in Estimate : \E n \in DOMAIN plan[d][h] :
                 ConnectorEstimate(d, h, n, est)
  BY <1>2, <1>3, <1>4, <1>5, <1>19
<1>20. CASE \E d \in Day, w \in What : \E n \in DOMAIN plan[d][w] :
                 \/ PatchEntry(d, w, n)
                 \/ \E c \in Client, to \in Day : RollRead(c, d, w, n, to)
  BY <1>6, <1>7, <1>20
<1>21. CASE (\E c \in Client : RollAdd(c) \/ RollStamp(c)) \/ RollCrash
  BY <1>8, <1>9, <1>10, <1>21
<1>22. CASE \/ \E d \in Day : \E capacity \in Field(Capacity \cup {None}),
                   committed \in Field(BOOLEAN) : SetRitual(d, capacity, committed)
            \/ \E capacity \in Capacity \cup {None} : SetUsual(capacity)
  BY <1>11, <1>12, <1>22
<1>23. CASE \E t \in Task : SetAside(t) \/ Complete(t) \/ \E l \in List : MoveTask(t, l)
  BY <1>13, <1>14, <1>23
<1>24. CASE \/ \E h \in Habit : PauseHabit(h) \/ DeleteHabit(h)
            \/ \E h \in Habit, est \in Estimate \cup {None} :
                    CreateHabit(h, est) \/ EstimateHabit(h, est)
  BY <1>15, <1>16, <1>17, <1>24
<1>25. PlanNext \/ UNCHANGED planVars
  OBVIOUS
<1>26. ASSUME PlanNext PROVE Calm
  BY <1>18, <1>19, <1>20, <1>21, <1>22, <1>23, <1>24, <1>26 DEF PlanNext
<1>27. Calm
  BY <1>1, <1>25, <1>26
<1> QED
  BY <1>27

-----------------------------------------------------------------------------
(* What is recorded when a day begins.                                          *)

LEMMA LiveIsTold ==
    ASSUME NEW row \in PlanRow
    PROVE  Arm(row) \notin {"dropped", "moved"} <=> Live(row)
BY DEF Arm, Live, PlanRow

LEMMA ToldIsLive ==
    ASSUME PlanInv, NEW d \in Day
    PROVE  /\ Told(d) = {p \in Rows(d) : Live(plan[d][p[1]][p[2]])}
           /\ Totals(d).planned = Load(d)
<1>1. plan \in Table
  BY DEF PlanInv, PlanOK, Table
<1>2. ASSUME NEW p \in Rows(d)
      PROVE  Arm(plan[d][p[1]][p[2]]) \notin {"dropped", "moved"} <=> Live(plan[d][p[1]][p[2]])
  <2>1. p \in RowsIn(plan, d)
    BY RowsAre
  <2> QED
    BY <1>1, <2>1, ARow, LiveIsTold
<1>3. Told(d) = {p \in Rows(d) : Live(plan[d][p[1]][p[2]])}
  BY <1>2, Zenon DEF Told
<1>4. Totals(d).planned = Sum(d, Told(d))
  BY DEF Totals
<1> QED
  BY <1>3, <1>4, Zenon DEF Load

LEMMA LoadType ==
    ASSUME PlanConstants, PlanInv, NEW d \in Day
    PROVE  Load(d) \in Int
<1>1. plan \in Table
  BY DEF PlanInv, PlanOK, Table
<1> DEFINE S == {p \in Rows(d) : Live(plan[d][p[1]][p[2]])}
<1>2. S \in SUBSET RowsIn(plan, d)
  BY RowsAre
<1>3. Load(d) = SumIn(plan, d, S)
  BY RowsAre, Zenon DEF Load
<1> HIDE DEF S
<1> QED
  BY <1>1, <1>2, <1>3, CostType

\* What a step that leaves the rows alone leaves alone of what is told of them.
LEMMA SameTotals ==
    ASSUME UNCHANGED plan, NEW d
    PROVE  /\ Totals(d)'.planned = Totals(d).planned
           /\ Rows(d)' = Rows(d)
           /\ \A S : Sum(d, S)' = Sum(d, S)
<1>1. Rows(d)' = Rows(d) /\ \A S : Sum(d, S)' = Sum(d, S)
  BY Zenon DEF Rows, Sum
<1>2. Told(d)' = Told(d)
  BY Zenon DEF Rows, Told
<1>3. Totals(d).planned = Sum(d, Told(d))
  BY DEF Totals
<1>4. Totals(d)'.planned = Sum(d, Told(d))'
  BY DEF Totals
<1>5. Sum(d, Told(d))' = Sum(d, Told(d))
  BY <1>2, Zenon DEF Rows, Sum
<1> QED
  BY <1>1, <1>3, <1>4, <1>5

LEMMA StatedRitual ==
    ASSUME NEW r \in Ritual, NEW capacity \in Field(Capacity \cup {None})
    PROVE  /\ StateCapacity(r, capacity) \in Ritual
           /\ StateCapacity(r, capacity).committed = r.committed
           /\ StateCapacity(r, capacity).over = r.over
<1>1. CASE capacity = {}
  BY <1>1 DEF StateCapacity
<1>2. CASE capacity # {}
  <2>1. PICK x \in Capacity \cup {None} : capacity = {x}
    BY <1>2 DEF Field
  <2>2. (CHOOSE c \in capacity : TRUE) \in Capacity \cup {None}
    BY <2>1
  <2>3. StateCapacity(r, capacity) = [r EXCEPT !.capacity = CHOOSE c \in capacity : TRUE]
    BY <1>2 DEF StateCapacity
  <2> QED
    BY <2>2, <2>3 DEF Ritual
<1> QED
  BY <1>1, <1>2

LEMMA OverType ==
    ASSUME PlanConstants, PlanInv, NEW d \in Day, NEW r \in Ritual
    PROVE  /\ OverAtCommit(d, r) \in (Nat \ {0}) \cup {None}
           /\ OverAtCommit(d, r) = None <=>
                EffectiveCapacity(r) = None \/ Load(d) <= EffectiveCapacity(r)
           /\ EffectiveCapacity(r) \in Nat \cup {None}
<1>1. EffectiveCapacity(r) \in Nat \cup {None} /\ None \notin Nat
  BY DEF EffectiveCapacity, Ritual, PlanInv, PlanOK, PlanConstants
<1>2. Load(d) \in Int
  BY LoadType
<1> QED
  BY <1>1, <1>2 DEF OverAtCommit

LEMMA CommittedRitual ==
    ASSUME PlanConstants, PlanInv, NEW d \in Day, NEW r \in Ritual,
           NEW committed \in Field(BOOLEAN), ~r.committed => r.over = None
    PROVE  LET q == Commit(d, r, committed)
           IN  /\ q \in Ritual /\ q.capacity = r.capacity
               /\ ~q.committed => q.over = None
               /\ q = r \/ (q.committed => q.over = OverAtCommit(d, q))
<1>1. CASE committed = {}
  BY <1>1 DEF Commit
<1>2. CASE committed # {}
  <2> DEFINE over == IF TRUE \in committed THEN OverAtCommit(d, r) ELSE None
             q == [r EXCEPT !.committed = TRUE \in committed, !.over = over]
  <2>1. OverAtCommit(d, r) \in (Nat \ {0}) \cup {None}
    BY OverType
  <2>2. over \in (Nat \ {0}) \cup {None} /\ (TRUE \in committed) \in BOOLEAN
    <3>1. CASE TRUE \in committed
      BY <2>1, <3>1
    <3>2. CASE TRUE \notin committed
      BY <3>2
    <3> QED
      BY <3>1, <3>2
  <2>3. Commit(d, r, committed) = q
    BY <1>2 DEF Commit
  <2>4. /\ q \in Ritual /\ q.capacity = r.capacity
        /\ q.committed = (TRUE \in committed) /\ q.over = over
    <3> HIDE DEF over
    <3> QED
      BY <2>2 DEF Ritual
  <2>5. OverAtCommit(d, q) = OverAtCommit(d, r)
    BY <2>4 DEF OverAtCommit, EffectiveCapacity
  <2> HIDE DEF q
  <2> QED
    BY <2>3, <2>4, <2>5
<1> QED
  BY <1>1, <1>2

\* What a request says of a day, and of no other.
LEMMA SaysOf ==
    ASSUME PlanConstants, PlanInv, SaidInv, NEW d \in Day,
           NEW capacity \in Field(Capacity \cup {None}), NEW committed \in Field(BOOLEAN),
           SetRitual(d, capacity, committed)
    PROVE  /\ said' \in [Day -> Ritual] /\ \A e \in Day : e # d => said'[e] = said[e]
           /\ d \notin Finished /\ UNCHANGED <<plan, usual>>
           /\ ~said'[d].committed => said'[d].over = None
           /\ \/ said'[d].committed = said[d].committed /\ said'[d].over = said[d].over
              \/ said'[d].committed => said'[d].over = OverAtCommit(d, said'[d])
<1> DEFINE stated == StateCapacity(said[d], capacity)
           r == Commit(d, stated, committed)
<1>1. said \in [Day -> Ritual] /\ (~said[d].committed => said[d].over = None)
  BY DEF SaidInv
<1>2. /\ stated \in Ritual /\ stated.committed = said[d].committed
      /\ stated.over = said[d].over
  BY <1>1, StatedRitual
<1>3. said' \in {[said EXCEPT ![d] = stated], [said EXCEPT ![d] = r]}
  BY Zenon DEF SetRitual
<1>4. d \notin Finished /\ UNCHANGED <<plan, usual>>
  BY Zenon DEF SetRitual, Finished
<1> HIDE DEF stated
<1>5. /\ r \in Ritual /\ r.capacity = stated.capacity
      /\ ~r.committed => r.over = None
      /\ r = stated \/ (r.committed => r.over = OverAtCommit(d, r))
  BY <1>1, <1>2, CommittedRitual
<1> HIDE DEF r
<1> QED
  BY <1>1, <1>2, <1>3, <1>4, <1>5

LEMMA SaidBegins ==
    ASSUME PlanConstants, PlanInit
    PROVE  SaidInv
<1>1. NothingSaid \in Ritual /\ NothingSaid.over = None
  BY DEF NothingSaid, Ritual
<1>2. \A d \in Day, t \in Task : plan[d][t] = <<>>
  BY Apart3 DEF PlanInit
<1>3. said = [d \in Day |-> NothingSaid]
  BY DEF PlanInit
<1> QED
  BY <1>1, <1>2, <1>3 DEF SaidInv

LEMMA SaidSteps ==
    ASSUME PlanConstants, PlanInv, SaidInv, [PlanNext]_planVars
    PROVE  SaidInv'
<1>1. /\ said' \in [Day -> Ritual]
      /\ \A d \in Day : ~said'[d].committed => said'[d].over = None
  <2>1. CASE said' = said
    BY <2>1 DEF SaidInv
  <2>2. CASE said' # said
    <3>1. PICK d \in Day, capacity \in Field(Capacity \cup {None}), committed \in Field(BOOLEAN) :
            SetRitual(d, capacity, committed)
      BY <2>2, WhoSays
    <3>2. /\ said' \in [Day -> Ritual] /\ \A e \in Day : e # d => said'[e] = said[e]
          /\ ~said'[d].committed => said'[d].over = None
      BY <3>1, SaysOf
    <3> QED
      BY <3>2 DEF SaidInv
  <2> QED
    BY <2>1, <2>2
<1>2. \A d \in Day, t \in Task : \A n \in DOMAIN plan'[d][t] : ~plan'[d][t][n].done
  BY EveryStepIsCalm DEF Calm, TicksNoTask, SaidInv
<1> QED
  BY <1>1, <1>2 DEF SaidInv

LEMMA VerdictSteps ==
    ASSUME PlanConstants, PlanInv, SaidInv, [PlanNext]_planVars
    PROVE  VerdictIsTrue
<1>1. SaidInv'
  BY SaidSteps
<1>2. ASSUME NEW d \in Day,
             \/ said'[d].over # said[d].over /\ said'[d].committed
             \/ said'[d].committed /\ ~said[d].committed
      PROVE  said'[d].over = Excess(d)'
  <2>1. said' # said
    BY <1>2
  <2>2. PICK e \in Day, capacity \in Field(Capacity \cup {None}), committed \in Field(BOOLEAN) :
            SetRitual(e, capacity, committed)
    BY <2>1, WhoSays
  <2>3. /\ \A f \in Day : f # e => said'[f] = said[f]
        /\ UNCHANGED <<plan, usual>>
        /\ \/ said'[e].committed = said[e].committed /\ said'[e].over = said[e].over
           \/ said'[e].committed => said'[e].over = OverAtCommit(e, said'[e])
    BY <2>2, SaysOf
  <2>4. e = d
    BY <1>2, <2>3
  <2>5. said'[d].over = OverAtCommit(d, said'[d])
    BY <1>2, <2>3, <2>4
  <2>6. Totals(d)'.planned = Load(d)
    BY <2>3, SameTotals, ToldIsLive
  <2>7. EffectiveCapacity(said[d])' = EffectiveCapacity(said'[d])
    BY <2>3 DEF EffectiveCapacity
  <2>8. said'[d] \in Ritual
    BY <1>1 DEF SaidInv
  <2>9. EffectiveCapacity(said'[d]) \in Nat \cup {None} /\ Load(d) \in Int /\ None \notin Nat
    BY <2>8, OverType, LoadType DEF PlanConstants
  <2>10. Excess(d)' = IF EffectiveCapacity(said'[d]) # None /\ Load(d) > EffectiveCapacity(said'[d])
                      THEN Load(d) - EffectiveCapacity(said'[d]) ELSE None
    BY <2>6, <2>7 DEF Excess
  <2> QED
    BY <2>5, <2>9, <2>10 DEF OverAtCommit
<1> QED
  BY <1>1, <1>2 DEF VerdictIsTrue, SaidInv

-----------------------------------------------------------------------------
(* What the nudges and the look-back tell of a day.                             *)

\* The rows of a day that are still to be done.
OpenIn(p, d) == {x \in RowsIn(p, d) : Live(p[d][x[1]][x[2]]) /\ ~p[d][x[1]][x[2]].done}

LEMMA OpenRowsAre ==
    ASSUME NEW d
    PROVE  /\ DayDto(d).open = OpenIn(plan, d) /\ DayDto(d)'.open = OpenIn(plan', d)
           /\ Sum(d, DayDto(d).open) = SumIn(plan, d, OpenIn(plan, d))
           /\ Sum(d, DayDto(d).open)' = SumIn(plan', d, OpenIn(plan', d))
<1>1. DayDto(d).open = {x \in Rows(d) : Live(plan[d][x[1]][x[2]]) /\ ~plan[d][x[1]][x[2]].done}
  BY DEF DayDto
<1>2. DayDto(d)'.open =
        {x \in Rows(d)' : Live(plan'[d][x[1]][x[2]]) /\ ~plan'[d][x[1]][x[2]].done}
  BY DEF DayDto, Live
<1>3. Rows(d) = RowsIn(plan, d) /\ Rows(d)' = RowsIn(plan', d)
  BY Zenon DEF Rows, RowsIn
<1>4. DayDto(d).open = OpenIn(plan, d) /\ DayDto(d)'.open = OpenIn(plan', d)
  BY <1>1, <1>2, <1>3, Zenon DEF OpenIn
<1>5. \A S : Sum(d, S) = SumIn(plan, d, S)
  BY Zenon DEF Rows, RowsIn, Sum, SumIn, Cost
<1>6. Sum(d, DayDto(d).open)' = SumIn(plan', d, DayDto(d)'.open)
  BY Zenon DEF Rows, RowsIn, Sum, SumIn, Cost
<1> QED
  BY <1>4, <1>5, <1>6

\* Opening a day takes no row of it away and changes none.
LEMMA OpeningKeepsRows ==
    ASSUME PlanConstants, PlanInv, NEW d \in Day, OpenDay(d)
    PROVE  \A x \in RowsIn(plan, d) :
                x \in RowsIn(plan', d) /\ plan'[d][x[1]][x[2]] = plan[d][x[1]][x[2]]
<1>1. plan \in Table
  BY DEF PlanInv, PlanOK, Table
<1> SUFFICES ASSUME NEW x \in RowsIn(plan, d)
             PROVE  x \in RowsIn(plan', d) /\ plan'[d][x[1]][x[2]] = plan[d][x[1]][x[2]]
  OBVIOUS
<1>2. x[1] \in What /\ x[2] \in DOMAIN plan[d][x[1]] /\ x = <<x[1], x[2]>>
  BY <1>1, ARow
<1>3. plan[d][x[1]] \in Seq(PlanRow)
  BY <1>1, <1>2 DEF Table
<1>4. x[2] \in DOMAIN plan'[d][x[1]] /\ plan'[d][x[1]][x[2]] = plan[d][x[1]][x[2]]
  <2>1. CASE x[1] \in Pending(d)
    <3>1. /\ plan'[d][x[1]] = Append(plan[d][x[1]], Derived(d, x[1]))
          /\ Derived(d, x[1]) \in PlanRow
      BY <1>2, <2>1, OpenedRows, DerivedRow
    <3> QED
      BY <1>2, <1>3, <3>1, AfterAppend
  <2>2. CASE x[1] \notin Pending(d)
    BY <1>2, <2>2, OpenedRows
  <2> QED
    BY <2>1, <2>2
<1>5. <<x[1], x[2]>> \in RowsIn(plan', d)
  BY <1>2, <1>4, RowThere
<1> QED
  BY <1>2, <1>4, <1>5

LEMMA LooksEndNoNudge ==
    ASSUME PlanConstants, PlanInv, SaidInv, [PlanNext]_planVars, NEW d \in Day,
           plan'[d] # plan[d], UNCHANGED <<deeds, roll>>
    PROVE  Nudges(d) \subseteq Nudges(d)'
<1>1. OpenDay(d)
  <2>1. PICK e \in Day : OpenDay(e)
    BY WhoOpens
  <2>2. plan \in [Day -> [What -> Seq(PlanRow)]]
    BY DEF PlanInv, PlanOK
  <2>3. e = d
    BY <2>1, <2>2 DEF OpenDay
  <2> QED
    BY <2>1, <2>3
<1>2. /\ plan \in Table /\ plan' \in Table /\ said \in [Day -> Ritual]
      /\ UNCHANGED <<said, usual>> /\ d \in opened'
  <2>1. PlanInv'
    BY PlanStep
  <2>2. UNCHANGED <<said, usual>> /\ d \in opened'
    BY <1>1 DEF OpenDay, ritual
  <2> QED
    BY <2>1, <2>2 DEF PlanInv, PlanOK, Table, SaidInv
<1>3. \A x \in OpenIn(plan, d) :
        x \in OpenIn(plan', d) /\ plan'[d][x[1]][x[2]] = plan[d][x[1]][x[2]]
  BY <1>1, OpeningKeepsRows, Zenon DEF OpenIn
<1>4. SumIn(plan, d, OpenIn(plan, d)) <= SumIn(plan', d, OpenIn(plan', d))
  <2>1. OpenIn(plan, d) \in SUBSET RowsIn(plan, d) /\ OpenIn(plan', d) \in SUBSET RowsIn(plan', d)
    BY DEF OpenIn
  <2>2. OpenIn(plan, d) \subseteq OpenIn(plan', d)
    BY <1>3
  <2> QED
    BY <1>2, <1>3, <2>1, <2>2, MoreRowsTakeMore
<1>5. /\ SumIn(plan, d, OpenIn(plan, d)) \in Int /\ SumIn(plan', d, OpenIn(plan', d)) \in Int
  <2>1. OpenIn(plan, d) \in SUBSET RowsIn(plan, d) /\ OpenIn(plan', d) \in SUBSET RowsIn(plan', d)
    BY DEF OpenIn
  <2> QED
    BY <1>2, <2>1, CostType
<1>6. EffectiveCapacity(said[d])' = EffectiveCapacity(said[d])
  BY <1>2 DEF EffectiveCapacity
<1>7. EffectiveCapacity(said[d]) \in Nat \cup {None}
  <2>1. said[d] \in Ritual
    BY <1>2
  <2> QED
    BY <2>1, OverType
<1>8. DayUnplanned(d) => DayUnplanned(d)'
  BY <1>2 DEF DayUnplanned, DayDto
<1>9. CapacityOvercommitted(d) => CapacityOvercommitted(d)'
  <2>1. CapacityOvercommitted(d) <=>
            /\ EffectiveCapacity(said[d]) # None
            /\ SumIn(plan, d, OpenIn(plan, d)) > EffectiveCapacity(said[d])
    <3>1. DayDto(d).capacity = EffectiveCapacity(said[d])
      BY DEF DayDto
    <3> QED
      BY <3>1, OpenRowsAre DEF CapacityOvercommitted
  <2>2. CapacityOvercommitted(d)' <=>
            /\ EffectiveCapacity(said[d]) # None
            /\ SumIn(plan', d, OpenIn(plan', d)) > EffectiveCapacity(said[d])
    <3>1. DayDto(d)'.capacity = EffectiveCapacity(said[d])
      BY <1>6 DEF DayDto
    <3> QED
      BY <3>1, OpenRowsAre DEF CapacityOvercommitted
  <2> QED
    BY <1>4, <1>5, <1>7, <2>1, <2>2
<1>10. HabitsOutstanding(d) => HabitsOutstanding(d)'
  <2>1. HabitsOutstanding(d) => \E p \in OpenIn(plan, d) : p[1] \in Habit
    BY OpenRowsAre DEF HabitsOutstanding
  <2>2. DayDto(d)'.planned
    BY <1>2 DEF DayDto, Planned
  <2>3. (\E p \in OpenIn(plan', d) : p[1] \in Habit) => HabitsOutstanding(d)'
    BY <2>2, OpenRowsAre DEF HabitsOutstanding
  <2> QED
    BY <1>3, <2>1, <2>3
<1> QED
  BY <1>8, <1>9, <1>10, Zenon DEF Nudges

LEMMA VerdictAndNudge ==
    ASSUME PlanConstants, PlanInv, SaidInv, [PlanNext]_planVars, NEW d \in Day,
           said'[d].committed, ~said[d].committed
    PROVE  IF said'[d].over = None THEN ~CapacityOvercommitted(d)'
           ELSE \/ CapacityOvercommitted(d)'
                \/ \E w \in What \ Task : \E n \in DOMAIN plan[d][w] : plan[d][w][n].done
<1>1. said' # said
  OBVIOUS
<1>2. PICK e \in Day, capacity \in Field(Capacity \cup {None}), committed \in Field(BOOLEAN) :
        SetRitual(e, capacity, committed)
  BY <1>1, WhoSays
<1>3. /\ said' \in [Day -> Ritual] /\ \A f \in Day : f # e => said'[f] = said[f]
      /\ UNCHANGED <<plan, usual>>
      /\ \/ said'[e].committed = said[e].committed /\ said'[e].over = said[e].over
         \/ said'[e].committed => said'[e].over = OverAtCommit(e, said'[e])
  BY <1>2, SaysOf
<1>4. e = d
  BY <1>3
<1>5. said'[d].over = OverAtCommit(d, said'[d])
  BY <1>3, <1>4
<1> DEFINE C == EffectiveCapacity(said'[d])
           S == OpenIn(plan, d)
           T == {p \in RowsIn(plan, d) : Live(plan[d][p[1]][p[2]])}
<1>6. said'[d].over = None <=> C = None \/ Load(d) <= C
  BY <1>3, <1>5, OverType
<1>7. C \in Nat \cup {None} /\ None \notin Nat
  BY <1>3, OverType DEF PlanConstants
<1>8. CapacityOvercommitted(d)' <=> C # None /\ SumIn(plan, d, S) > C
  <2>1. DayDto(d)'.capacity = C
    BY <1>3 DEF DayDto, EffectiveCapacity
  <2> QED
    BY <1>3, <2>1, OpenRowsAre DEF CapacityOvercommitted
<1>9. Load(d) = SumIn(plan, d, T)
  BY RowsAre, Zenon DEF Load
<1>10. /\ plan \in Table /\ S \subseteq T
       /\ S \in SUBSET RowsIn(plan, d) /\ T \in SUBSET RowsIn(plan, d)
  BY DEF PlanInv, PlanOK, Table, OpenIn
<1>11. SumIn(plan, d, S) <= SumIn(plan, d, T)
  <2> HIDE DEF S, T
  <2> QED
    BY <1>10, MoreRowsTakeMore
<1>12. SumIn(plan, d, S) \in Int /\ SumIn(plan, d, T) \in Int
  <2> HIDE DEF S, T
  <2> QED
    BY <1>10, CostType
<1>13. S = T \/ \E w \in What \ Task : \E n \in DOMAIN plan[d][w] : plan[d][w][n].done
  <2> SUFFICES ASSUME NEW p \in T, p \notin S
               PROVE  \E w \in What \ Task : \E n \in DOMAIN plan[d][w] : plan[d][w][n].done
    BY <1>10
  <2>1. plan[d][p[1]][p[2]].done
    BY DEF OpenIn
  <2>2. p[1] \in What /\ p[2] \in DOMAIN plan[d][p[1]]
    BY <1>10, ARow
  <2>3. p[1] \notin Task
    BY <2>1, <2>2 DEF SaidInv
  <2> QED
    BY <2>1, <2>2, <2>3
<1> HIDE DEF S, T, C
<1> QED
  BY <1>6, <1>7, <1>8, <1>9, <1>11, <1>12, <1>13

LEMMA NudgesSteps ==
    ASSUME PlanConstants, PlanInv, SaidInv, [PlanNext]_planVars
    PROVE  NudgesAgree
<1> SUFFICES ASSUME NEW d \in Day
             PROVE  /\ plan'[d] # plan[d] /\ <<deeds, roll>>' = <<deeds, roll>> =>
                            Nudges(d) \subseteq Nudges(d)'
                    /\ said'[d].committed /\ ~said[d].committed =>
                        LET nudged == "capacity_overcommitted" \in Nudges(d)'
                            stamped == \E w \in What \ Task :
                                        \E n \in DOMAIN plan[d][w] : plan[d][w][n].done
                        IN  IF said'[d].over = None THEN ~nudged ELSE nudged \/ stamped
  BY Zenon DEF NudgesAgree
<1>1. plan'[d] # plan[d] /\ <<deeds, roll>>' = <<deeds, roll>> => Nudges(d) \subseteq Nudges(d)'
  BY LooksEndNoNudge
<1>2. "capacity_overcommitted" \in Nudges(d)' <=> CapacityOvercommitted(d)'
  BY DEF Nudges
<1> QED
  BY <1>1, <1>2, VerdictAndNudge

\* Completing a task, setting it aside or moving it does not credit a day that is
\* over with it.
LEMMA NoLateCredit ==
    ASSUME PlanConstants, PlanInv, NEW d \in Finished, NEW t \in Task, strayed = {},
           SetAside(t) \/ Complete(t) \/ \E l \in List : MoveTask(t, l),
           NEW w \in What, NEW n \in DOMAIN plan[d][w], plan'[d] = plan[d],
           DoneThen(d, w, plan[d][w][n])'
    PROVE  DoneThen(d, w, plan[d][w][n])
<1> DEFINE row == plan[d][w][n]
<1>1. /\ at \in [Task -> List] /\ finished \in [Task -> Day \cup {None}]
      /\ today \in Day /\ d \in Day
  BY DEF PlanInv, PlanOK, Finished
<1>2. CASE w \notin Task
  BY <1>2 DEF DoneThen
<1>3. CASE w \in Task
  <2>1. at'[w] = row.list /\ finished'[w] = d
    BY <1>3 DEF DoneThen, Joined, CompletedOn
  <2>2. at[w] = row.list
    <3>1. CASE \E l \in List : MoveTask(t, l)
      <4>1. PICK l \in List : MoveTask(t, l)
        BY <3>1
      <4>2. l # at[t] /\ at' = [at EXCEPT ![t] = l]
        BY <4>1, Zenon DEF MoveTask
      <4>3. row.list = at[w]
        BY <1>1, <1>3 DEF PlanInv, Homed, ListOf
      <4> QED
        BY <4>3
    <3>2. CASE SetAside(t) \/ Complete(t)
      BY <2>1, <3>2, Zenon DEF SetAside, Complete
    <3> QED
      BY <3>1, <3>2
  <2>3. finished[w] = d
    <3>1. CASE Complete(t)
      <4>1. finished' = [finished EXCEPT ![t] = IF finished[t] = None THEN today ELSE None]
        BY <3>1, Zenon DEF Complete
      <4>2. today # d /\ None # d
        BY <1>1 DEF Finished, Writable, WritableFloor, PlanConstants, Day
      <4> QED
        BY <1>1, <1>3, <2>1, <4>1, <4>2
    <3>2. CASE SetAside(t) \/ \E l \in List : MoveTask(t, l)
      BY <2>1, <3>2, Zenon DEF SetAside, MoveTask
    <3> QED
      BY <3>1, <3>2
  <2>4. w \in Joined(w, row) /\ w \in CompletedOn(d)
    BY <1>3, <2>2, <2>3 DEF Joined, CompletedOn
  <2> QED
    BY <1>3, <2>4 DEF DoneThen
<1> QED
  BY <1>2, <1>3

LEMMA RecordSteps ==
    ASSUME PlanConstants, PlanInv, SaidInv, [PlanNext]_planVars
    PROVE  RecordStands
<1>1. plan \in Table /\ plan' \in Table
  <2>1. PlanInv'
    BY PlanStep
  <2> QED
    BY <2>1 DEF PlanInv, PlanOK, Table
<1>2. ASSUME NEW d \in Finished
      PROVE  DayFacts(d)'.stated = DayFacts(d).stated
  <2>1. said'[d] = said[d]
    <3>1. CASE said' # said
      <4>1. PICK e \in Day, capacity \in Field(Capacity \cup {None}),
                 committed \in Field(BOOLEAN) : SetRitual(e, capacity, committed)
        BY <3>1, WhoSays
      <4> QED
        BY <4>1, SaysOf, Apart3
    <3> QED
      BY <3>1
  <2> QED
    BY <2>1 DEF DayFacts
<1>3. ASSUME NEW d \in Finished, plan'[d] = plan[d], tasks' # tasks, strayed = {}
      PROVE  Totals(d)'.done <= Totals(d).done /\ LookBack(d)'.arms = LookBack(d).arms
  <2>1. d \in Day
    BY Apart3
  <2>2. Rows(d)' = Rows(d)
    BY <1>3, Zenon DEF Rows
  <2>3. LookBack(d)'.arms = LookBack(d).arms
    <3>1. LookBack(d).arms = [p \in Rows(d) |-> Arm(plan[d][p[1]][p[2]])]
      BY DEF LookBack
    <3>2. LookBack(d)'.arms = [p \in Rows(d)' |-> Arm(plan'[d][p[1]][p[2]])]
      BY DEF LookBack, Arm
    <3> QED
      BY <1>3, <2>2, <3>1, <3>2
  <2> DEFINE D == {p \in Told(d) : DoneThen(d, p[1], plan[d][p[1]][p[2]])}
  <2>4. Told(d)' = Told(d)
    <3>1. Told(d) = {p \in Rows(d) : Arm(plan[d][p[1]][p[2]]) \notin {"dropped", "moved"}}
      BY DEF Told
    <3>2. Told(d)' = {p \in Rows(d)' : Arm(plan'[d][p[1]][p[2]]) \notin {"dropped", "moved"}}
      BY DEF Told, Arm
    <3> QED
      BY <1>3, <2>2, <3>1, <3>2
  <2>5. D \in SUBSET RowsIn(plan, d) /\ D' \in SUBSET RowsIn(plan', d) /\ Told(d) \subseteq Rows(d)
    <3>1. Told(d) \subseteq Rows(d) /\ Rows(d) = RowsIn(plan, d) /\ Rows(d)' = RowsIn(plan', d)
      BY <2>1, RowsAre DEF Told
    <3> QED
      BY <2>2, <2>4, <3>1
  <2>6. D' \subseteq D
    <3> SUFFICES ASSUME NEW p \in D' PROVE p \in D
      OBVIOUS
    <3>1. p \in Told(d) /\ DoneThen(d, p[1], plan[d][p[1]][p[2]])'
      BY <2>4
    <3>2. p \in RowsIn(plan, d)
      BY <2>5, <3>1, RowsAre, <2>1
    <3>3. p[1] \in What /\ p[2] \in DOMAIN plan[d][p[1]]
      BY <1>1, <2>1, <3>2, ARow
    <3>4. PICK t \in Task : SetAside(t) \/ Complete(t) \/ \E l \in List : MoveTask(t, l)
      BY <1>3, WhoDecides
    <3>5. DoneThen(d, p[1], plan[d][p[1]][p[2]])
      BY <1>3, <3>1, <3>3, <3>4, NoLateCredit
    <3> QED
      BY <3>1, <3>5
  <2>7. Totals(d).done = SumIn(plan, d, D)
    <3>1. Totals(d).done = Sum(d, D)
      BY DEF Totals
    <3> QED
      BY <2>1, <3>1, RowsAre
  <2>8. Totals(d)'.done = SumIn(plan', d, D')
    <3>1. Totals(d)'.done = Sum(d, D)'
      BY DEF Totals
    <3> HIDE DEF D
    <3> QED
      BY <3>1, Zenon DEF Rows, RowsIn, Sum, SumIn, Cost
  <2>9. \A x \in D' : plan[d][x[1]][x[2]] = plan'[d][x[1]][x[2]]
    BY <1>3
  <2> HIDE DEF D
  <2>10. SumIn(plan', d, D') <= SumIn(plan, d, D)
    BY <1>1, <2>1, <2>5, <2>6, <2>9, MoreRowsTakeMore
  <2> QED
    BY <2>3, <2>7, <2>8, <2>10
<1>4. ASSUME NEW d \in Finished, NEW h \in Habit
      PROVE  /\ Len(plan'[d][h]) = Len(plan[d][h])
             /\ taught'[h] # taught[h] => plan'[d][h] = plan[d][h]
  BY EveryStepIsCalm DEF Calm, HabitsStand
<1> QED
  BY <1>2, <1>3, <1>4, Zenon DEF RecordStands

\* The length and the start of a day that are recorded are as the owner asked, and
\* what is recorded of a day that is not begun is nothing; a row of a task is never
\* ticked (service.py, set_day_ritual, update_day_entry).
THEOREM SaidHolds ==
    PlanSpec => []SaidInv
<1>1. PlanInit => PlanInv /\ SaidInv
  BY PlanBegins, SaidBegins, DayAssumption
<1>2. PlanInv /\ SaidInv /\ [PlanNext]_planVars => (PlanInv /\ SaidInv)'
  BY PlanStep, SaidSteps, DayAssumption
<1> QED
  BY <1>1, <1>2, PTL DEF PlanSpec

\* What a finished day says stands: nothing but a patch of one of its rows changes
\* what a habit was to take on it, what was said of it or what its look-back credits;
\* what is recorded when a day begins is how far its plan ran over the length that
\* was said; and the nudges say the same as the record (service.py, set_day_ritual,
\* review_day, _day_totals, fill_habit_estimates; notify/rules.py).
THEOREM FinishedDaysStand ==
    PlanSpec => PastStands
<1>1. PlanInv /\ SaidInv /\ [PlanNext]_planVars =>
        [RecordStands /\ VerdictIsTrue /\ NudgesAgree]_planVars
  BY RecordSteps, VerdictSteps, NudgesSteps, DayAssumption
<1> QED
  BY <1>1, PlanInductive, SaidHolds, PTL DEF PlanSpec, PastStands

-----------------------------------------------------------------------------
(* The tasks: what is remembered of their deadlines.                          *)

\* The slip a record is about is one of those there were.
LEMMA AboutOne ==
    ASSUME NEW s \in Seq(Slip), s # <<>>
    PROVE  /\ About(s) \in DOMAIN s
           /\ Unmoved(s) # {} =>
                /\ About(s) \in Unmoved(s)
                /\ \A i \in Unmoved(s) : About(s) <= i
           /\ Truth(s) = s[About(s)] /\ Truth(s) \in Slip
<1>1. Unmoved(s) \in SUBSET Nat /\ Unmoved(s) \subseteq DOMAIN s
  BY DEF Unmoved
<1>2. ASSUME Unmoved(s) # {}
      PROVE  /\ About(s) \in Unmoved(s)
             /\ \A i \in Unmoved(s) : About(s) <= i
  <2>1. \E i \in Unmoved(s) : \A j \in Unmoved(s) : i <= j
    BY <1>1, <1>2, SomeLeast
  <2> QED BY <1>2, <2>1 DEF About, First
<1>3. Unmoved(s) = {} => About(s) = Len(s) /\ Len(s) \in DOMAIN s
  BY DEF About
<1>4. About(s) \in DOMAIN s
  BY <1>1, <1>2, <1>3
<1> QED BY <1>2, <1>4 DEF Truth

\* One more slip: it is the record's just if all those before were moved deadlines.
LEMMA OneMoreSlip ==
    ASSUME NEW s \in Seq(Slip), NEW r \in Slip
    PROVE  /\ Append(s, r) \in Seq(Slip) /\ Append(s, r) # <<>>
           /\ Append(s, r)[Len(Append(s, r))] = r
           /\ Unmoved(s) # {} => Truth(Append(s, r)) = Truth(s)
           /\ Unmoved(s) = {} =>
                /\ Unmoved(Append(s, r)) \subseteq {Len(Append(s, r))}
                /\ Truth(Append(s, r)) = r
<1> DEFINE q == Append(s, r)
<1>1. /\ q \in Seq(Slip) /\ q # <<>> /\ Len(q) = Len(s) + 1 /\ Len(s) \in Nat
      /\ q[Len(q)] = r /\ DOMAIN q = DOMAIN s \cup {Len(q)}
      /\ \A i \in DOMAIN s : q[i] = s[i] /\ i <= Len(s) /\ i \in Nat
  OBVIOUS
<1> HIDE DEF q
<1>2. /\ Unmoved(s) \subseteq Unmoved(q)
      /\ Unmoved(q) \subseteq Unmoved(s) \cup {Len(q)}
  BY <1>1 DEF Unmoved
<1>3. ASSUME Unmoved(s) # {} PROVE Truth(q) = Truth(s)
  <2>1. s # <<>>
    BY <1>3 DEF Unmoved
  <2>2. /\ About(s) \in Unmoved(s) /\ About(s) \in DOMAIN s
        /\ \A i \in Unmoved(s) : About(s) <= i
        /\ Truth(s) = s[About(s)]
    BY <1>3, <2>1, AboutOne
  <2>3. /\ About(q) \in Unmoved(q)
        /\ \A i \in Unmoved(q) : About(q) <= i
        /\ Truth(q) = q[About(q)] /\ About(q) \in DOMAIN q
    BY <1>1, <1>2, <1>3, AboutOne
  <2>4. About(q) <= About(s) /\ About(s) <= Len(s)
    BY <1>1, <1>2, <2>2, <2>3
  <2>5. About(q) # Len(q) /\ About(q) \in Unmoved(s)
    BY <1>1, <1>2, <2>2, <2>3, <2>4
  <2>6. About(s) <= About(q)
    BY <2>2, <2>5
  <2>7. About(s) = About(q)
    BY <1>1, <2>2, <2>3, <2>4, <2>5, <2>6
  <2> QED BY <1>1, <2>2, <2>3, <2>7
<1>4. ASSUME Unmoved(s) = {}
      PROVE  Unmoved(q) \subseteq {Len(q)} /\ Truth(q) = r
  <2>1. Unmoved(q) \subseteq {Len(q)}
    BY <1>2, <1>4
  <2>2. About(q) = Len(q)
    BY <1>1, <2>1, AboutOne DEF About
  <2> QED BY <1>1, <2>1, <2>2 DEF Truth
<1> QED BY <1>1, <1>3, <1>4 DEF q

\* A record that may be written over has only moved deadlines before it, and one
\* that stands has the first miss.
LEMMA RecordTells ==
    ASSUME NEW s \in Seq(Slip), NEW record, Says(record, s),
           record.moved \in BOOLEAN
    PROVE  record.due = NoDay \/ record.moved <=> Unmoved(s) = {}
<1>1. CASE s = <<>>
  BY <1>1 DEF Says, Truth, Unmoved
<1>2. CASE s # <<>>
  <2>1. /\ Truth(s) = s[About(s)] /\ Truth(s) \in Slip
        /\ About(s) \in DOMAIN s
        /\ Unmoved(s) # {} => About(s) \in Unmoved(s)
    BY <1>2, AboutOne
  <2>2. record.due # NoDay /\ record.moved = Truth(s).moved
    BY <2>1 DEF Says, Slip, Day, NoDay
  <2>3. ~ s[About(s)].moved <=> About(s) \in Unmoved(s)
    BY <2>1 DEF Unmoved
  <2> QED BY <2>1, <2>2, <2>3
<1> QED BY <1>1, <1>2

\* Calling the slip the record is about something else.
LEMMA CalledOtherwise ==
    ASSUME NEW s \in Seq(Slip), s # <<>>, NEW b \in BOOLEAN,
           b => About(s) = Len(s)
    PROVE  LET q == [s EXCEPT ![About(s)].moved = b]
           IN  /\ q \in Seq(Slip)
               /\ Truth(q) = [Truth(s) EXCEPT !.moved = b]
<1> DEFINE n == About(s)
           r == [s[n] EXCEPT !.moved = b]
           q == [s EXCEPT ![n] = r]
<1>1. /\ n \in DOMAIN s /\ Truth(s) = s[n] /\ s[n] \in Slip
      /\ Unmoved(s) # {} => n \in Unmoved(s) /\ \A i \in Unmoved(s) : n <= i
  BY AboutOne
<1>2. r \in Slip /\ r.moved = b
  BY <1>1 DEF Slip
<1>3. q = [s EXCEPT ![n].moved = b]
  OBVIOUS
<1> HIDE DEF r, n
<1>4. /\ q \in Seq(Slip) /\ q # <<>> /\ Len(q) = Len(s) /\ DOMAIN q = DOMAIN s
      /\ q[n] = r /\ \A i \in DOMAIN s : i # n => q[i] = s[i]
  BY <1>1, <1>2
<1>5. \A i \in DOMAIN s : i \in Nat /\ i <= Len(s)
  OBVIOUS
<1> HIDE DEF q
<1>6. /\ About(q) \in DOMAIN q /\ Truth(q) = q[About(q)]
      /\ Unmoved(q) # {} => About(q) \in Unmoved(q)
                                  /\ \A i \in Unmoved(q) : About(q) <= i
      /\ Unmoved(q) = {} => About(q) = Len(q)
  BY <1>4, AboutOne DEF About
<1>7. Unmoved(q) \ {n} = Unmoved(s) \ {n} /\ (n \in Unmoved(q) <=> ~b)
  BY <1>1, <1>2, <1>4 DEF Unmoved
<1>8. About(q) = n
  <2>1. CASE ~b
    <3>1. n \in Unmoved(q) /\ About(q) <= n
      BY <1>6, <1>7, <2>1
    <3>2. About(q) # n => About(q) \in Unmoved(s)
      BY <1>6, <1>7, <3>1
    <3> QED BY <1>1, <1>4, <1>5, <1>6, <3>1, <3>2
  <2>2. CASE b
    <3>1. n = Len(s)
      BY <2>2 DEF n
    <3>2. Unmoved(q) = {}
      BY <1>1, <1>4, <1>5, <1>7, <2>2, <3>1 DEF Unmoved
    <3> QED BY <1>4, <1>6, <3>1, <3>2
  <2> QED BY <2>1, <2>2
<1>9. Truth(q) = [Truth(s) EXCEPT !.moved = b]
  BY <1>1, <1>4, <1>6, <1>8 DEF r
<1> QED BY <1>3, <1>4, <1>9 DEF n

LEMMA EditFields ==
    ASSUME NEW e \in Edit
    PROVE  /\ e.field \in {"status", "due", "parent"}
           /\ e.field = "status" => e.to \in Status
           /\ e.field = "due" => e.to \in Day \cup {NoDay} /\ e.moved \in BOOLEAN
           /\ e.field = "parent" => e.to \in Task \cup {None}
BY DEF Edit

LEMMA AppliedType ==
    ASSUME NEW row \in TaskRow, NEW e \in Edit
    PROVE  Applied(row, e) \in TaskRow
<1>1. CASE e.field = "status"
  BY <1>1, EditFields DEF Applied, TaskRow
<1>2. CASE e.field = "due"
  BY <1>2, EditFields DEF Applied, TaskRow
<1>3. CASE e.field = "parent"
  BY <1>3, EditFields DEF Applied, TaskRow
<1> QED BY <1>1, <1>2, <1>3, EditFields

LEMMA ThereIsARow ==
    ASSUME NEW l \in [Task -> TaskRow \cup {Gone}], NEW t \in Task, l[t] # Gone
    PROVE  l[t] \in TaskRow
OBVIOUS

LEMMA NewTaskRow ==
    ASSUME TasksConstants, NEW p \in Task \cup {None}, NEW due \in Day \cup {NoDay}
    PROVE  NewTask(p, due) \in TaskRow
BY DEF NewTask, TaskRow, Status

LEMMA Wanted ==
    ASSUME TasksConstants, NEW t \in Task
    PROVE  /\ EditsOf(t) \subseteq Edit
           /\ ParentsOf(t) \subseteq Task \cup {None}
<1>1. EditsOf(t) \subseteq Edit
  BY DEF EditsOf
<1> QED BY <1>1, EditFields DEF ParentsOf

\* Steps that leave the request, the records and the history alone.
LEMMA RecordsAlone ==
    ASSUME RecordInv, TasksTypeOK',
           UNCHANGED <<job, missed, slips, unstamped, relabelled>>
    PROVE  RecordInv'
BY DEF RecordInv, Recorded, Decided, Latest, Known, Stamping

LEMMA WireAndCache ==
    ASSUME TasksTypeOK, wire' \in [Task -> TaskRow \cup {Gone}],
           cache' \in [Task -> TaskRow \cup {Gone}], foreign' \in Nat,
           UNCHANGED <<today, missed, closing, job, ask, slips, unstamped, relabelled>>
    PROVE  TasksTypeOK'
BY DEF TasksTypeOK

LEMMA OneRowWritten ==
    ASSUME NEW l \in [Task -> TaskRow \cup {Gone}], NEW t \in Task,
           NEW r \in TaskRow \cup {Gone}
    PROVE  [l EXCEPT ![t] = r] \in [Task -> TaskRow \cup {Gone}]
OBVIOUS

LEMMA CalmSteps ==
    ASSUME TasksConstants, RecordInv,
           \/ \E t \in Task : \E p \in ParentsOf(t) \ {None} : CheckParent(t, p)
           \/ Refused
           \/ \E t \in Task : \E p \in ParentsOf(t) : CreateTask(t, p)
           \/ \E t \in Task : DeleteTask(t) \/ Foreign(t)
           \/ \E t \in Task, b \in BOOLEAN : CheckRecord(t, b)
           \/ SetClosing \/ Refresh \/ NextDay
           \/ UNCHANGED tasksVars
    PROVE  RecordInv'
<1>1. TasksTypeOK
  BY DEF RecordInv
<1> USE DEF History
<1>2. ASSUME NEW t \in Task, NEW p \in ParentsOf(t) \ {None}, CheckParent(t, p)
      PROVE  RecordInv'
  <2>1. p \in Task
    BY Wanted
  <2>2. ask' \in Asking
    BY <1>2, <2>1 DEF CheckParent, Asking
  <2>3. UNCHANGED <<today, wire, cache, missed, closing, job, foreign, slips, unstamped,
                    relabelled>>
    BY <1>2 DEF CheckParent
  <2>4. TasksTypeOK'
    BY <1>1, <2>2, <2>3 DEF TasksTypeOK
  <2> QED BY <2>3, <2>4, RecordsAlone
<1>3. ASSUME Refused PROVE RecordInv'
  <2>1. /\ UNCHANGED <<today, wire, cache, missed, closing, job, foreign, slips, unstamped,
                       relabelled>>
        /\ ask' = NoAsk
    BY <1>3 DEF Refused
  <2>2. TasksTypeOK'
    BY <1>1, <2>1 DEF TasksTypeOK
  <2> QED BY <2>1, <2>2, RecordsAlone
<1>4. ASSUME NEW t \in Task, NEW p \in ParentsOf(t), CreateTask(t, p)
      PROVE  RecordInv'
  <2>1. UNCHANGED <<today, missed, closing, job, foreign, slips, unstamped, relabelled>>
    BY <1>4 DEF CreateTask
  <2>2. PICK due \in {NoDay, today} :
            /\ wire' = [wire EXCEPT ![t] = NewTask(p, due)]
            /\ cache' = [cache EXCEPT ![t] = NewTask(p, due)]
    BY <1>4 DEF CreateTask
  <2>3. NewTask(p, due) \in TaskRow
    BY <1>1, Wanted, NewTaskRow DEF TasksTypeOK
  <2>4. ask' \in Asking \cup {NoAsk}
    BY <1>1, <1>4 DEF CreateTask, TasksTypeOK
  <2>5. /\ wire' \in [Task -> TaskRow \cup {Gone}]
        /\ cache' \in [Task -> TaskRow \cup {Gone}]
    BY <1>1, <2>2, <2>3, OneRowWritten DEF TasksTypeOK
  <2>6. TasksTypeOK'
    BY <1>1, <2>1, <2>4, <2>5 DEF TasksTypeOK
  <2> QED BY <2>1, <2>6, RecordsAlone
<1>5. ASSUME NEW t \in Task, DeleteTask(t) PROVE RecordInv'
  <2>1. /\ UNCHANGED <<today, missed, closing, job, ask, foreign, slips, unstamped, relabelled>>
        /\ wire' = [wire EXCEPT ![t] = Gone] /\ cache' = [cache EXCEPT ![t] = Gone]
    BY <1>5 DEF DeleteTask
  <2>2. /\ wire' \in [Task -> TaskRow \cup {Gone}]
        /\ cache' \in [Task -> TaskRow \cup {Gone}]
    BY <1>1, <2>1, OneRowWritten DEF TasksTypeOK
  <2>3. foreign' \in Nat
    BY <1>1, <2>1 DEF TasksTypeOK
  <2> QED BY <1>1, <2>1, <2>2, <2>3, WireAndCache, RecordsAlone
<1>6. ASSUME NEW t \in Task, Foreign(t) PROVE RecordInv'
  <2>1. /\ UNCHANGED <<today, missed, closing, job, ask, cache, slips, unstamped, relabelled>>
        /\ foreign' = foreign + 1
    BY <1>6 DEF Foreign
  <2>2. \E r \in TaskRow \cup {Gone} : wire' = [wire EXCEPT ![t] = r]
    <3>1. ASSUME wire[t] # Gone, NEW e \in EditsOf(t),
                 wire' = [wire EXCEPT ![t] = Applied(@, e)]
          PROVE  \E r \in TaskRow \cup {Gone} : wire' = [wire EXCEPT ![t] = r]
      <4>1. wire[t] \in TaskRow
        BY <1>1, <3>1, ThereIsARow DEF TasksTypeOK
      <4>2. Applied(wire[t], e) \in TaskRow
        BY <4>1, Wanted, AppliedType
      <4> QED BY <3>1, <4>2
    <3>2. ASSUME NEW p \in ParentsOf(t),
                 wire' = [wire EXCEPT ![t] = NewTask(p, NoDay)]
          PROVE  \E r \in TaskRow \cup {Gone} : wire' = [wire EXCEPT ![t] = r]
      <4>1. NewTask(p, NoDay) \in TaskRow
        BY Wanted, NewTaskRow
      <4> QED BY <3>2, <4>1
    <3> QED BY <1>6, <3>1, <3>2, Zenon DEF Foreign
  <2>3. /\ wire' \in [Task -> TaskRow \cup {Gone}]
        /\ cache' \in [Task -> TaskRow \cup {Gone}]
        /\ foreign' \in Nat
    BY <1>1, <2>1, <2>2, OneRowWritten DEF TasksTypeOK
  <2> QED BY <1>1, <2>1, <2>3, WireAndCache, RecordsAlone
<1>7. ASSUME NEW t \in Task, NEW b \in BOOLEAN, CheckRecord(t, b) PROVE RecordInv'
  <2>1. UNCHANGED <<today, wire, cache, missed, closing, job, foreign, slips, unstamped,
                    relabelled>>
    BY <1>7 DEF CheckRecord
  <2>2. ask' \in Asking
    BY <1>7 DEF CheckRecord, Asking
  <2>3. TasksTypeOK'
    BY <1>1, <2>1, <2>2 DEF TasksTypeOK
  <2> QED BY <2>1, <2>3, RecordsAlone
<1>8. ASSUME SetClosing PROVE RecordInv'
  <2>1. /\ UNCHANGED <<today, wire, cache, missed, job, ask, foreign, slips, unstamped,
                       relabelled>>
        /\ closing' = ~closing
    BY <1>8 DEF SetClosing
  <2>2. TasksTypeOK'
    BY <1>1, <2>1 DEF TasksTypeOK
  <2> QED BY <2>1, <2>2, RecordsAlone
<1>9. ASSUME Refresh PROVE RecordInv'
  <2>1. /\ UNCHANGED <<today, wire, missed, closing, job, ask, foreign, slips, unstamped,
                       relabelled>>
        /\ cache' = wire
    BY <1>9 DEF Refresh
  <2>2. TasksTypeOK'
    BY <1>1, <2>1 DEF TasksTypeOK
  <2> QED BY <2>1, <2>2, RecordsAlone
<1>10. ASSUME NextDay PROVE RecordInv'
  <2>1. /\ UNCHANGED <<wire, cache, missed, closing, job, ask, foreign, slips, unstamped,
                       relabelled>>
        /\ today < LastDay /\ today' = today + 1
    BY <1>10 DEF NextDay, DayBreaks
  <2>2. LastDay \in Nat
    BY DEF TasksConstants
  <2>3. today' \in Day
    BY <1>1, <2>1, <2>2 DEF TasksTypeOK, Day
  <2>4. TasksTypeOK'
    BY <1>1, <2>1, <2>3 DEF TasksTypeOK
  <2> QED BY <2>1, <2>4, RecordsAlone
<1>11. ASSUME UNCHANGED tasksVars PROVE RecordInv'
  <2>1. UNCHANGED <<today, wire, cache, missed, closing, job, ask, foreign, slips, unstamped,
                    relabelled>>
    BY <1>11 DEF tasksVars
  <2>2. TasksTypeOK'
    BY <1>1, <2>1 DEF TasksTypeOK
  <2> QED BY <2>1, <2>2, RecordsAlone
<1> QED BY <1>2, <1>3, <1>4, <1>5, <1>6, <1>7, <1>8, <1>9, <1>10, <1>11

\* Nothing is being recorded while no request is under way.
LEMMA NoStamps ==
    ASSUME TasksTypeOK
    PROVE  /\ job = NoJob => ~Stamping
           /\ job # NoJob => job \in Working
           /\ job.pc # "idle" => job # NoJob
<1>1. job = NoJob => job.pc = "idle"
  BY DEF NoJob
<1>2. job # NoJob => job \in Working
  BY DEF TasksTypeOK
<1> QED BY <1>1, <1>2 DEF Stamping

\* A request that goes on to another stage.
LEMMA NextStage ==
    ASSUME NEW r \in Working, NEW pc \in {"put", "stamp", "stamp_moved", "climb"}
    PROVE  LET q == [r EXCEPT !.pc = pc]
           IN  /\ q \in Working /\ q.pc = pc /\ q # NoJob
               /\ q.task = r.task /\ q.edit = r.edit /\ q.old = r.old /\ q.slip = r.slip
<1> DEFINE q == [r EXCEPT !.pc = pc]
<1>1. /\ q \in Working /\ q.pc = pc
      /\ q.task = r.task /\ q.edit = r.edit /\ q.old = r.old /\ q.slip = r.slip
  BY DEF Working
<1> HIDE DEF q
<1>2. q # NoJob
  BY <1>1 DEF NoJob
<1> QED BY <1>1, <1>2 DEF q

LEMMA BeginKeeps ==
    ASSUME TasksConstants, RecordInv, NEW t \in Task, NEW e \in Edit, Begin(t, e),
           ask' \in Asking \cup {NoAsk}
    PROVE  RecordInv'
<1>1. TasksTypeOK /\ ~Stamping
  BY NoStamps DEF RecordInv, Begin, Idle
<1>2. UNCHANGED <<today, wire, cache, missed, closing, foreign, slips, unstamped, relabelled>>
  BY DEF Begin, History
<1>3. cache[t] # Gone => cache[t].due \in Day \cup {NoDay}
  <2>1. cache[t] # Gone => cache[t] \in TaskRow
    BY <1>1, ThereIsARow DEF TasksTypeOK
  <2> QED BY <2>1 DEF TaskRow
<1> DEFINE old == IF BeingMissed(t, e) THEN cache[t].due ELSE NoDay
           slip == IF e.field = "due" /\ HasTask(t) /\ cache[t].due # e.to
                      /\ Overdue(cache[t].due) THEN cache[t].due ELSE NoDay
           calm == [insync |-> wire = cache, foreign |-> foreign]
<1>4. old \in Day \cup {NoDay} /\ slip \in Day \cup {NoDay}
  BY <1>3 DEF BeingMissed, HasTask
<1>5. calm \in [insync : BOOLEAN, foreign : Nat]
  BY <1>1 DEF TasksTypeOK
<1>6. slip # NoDay => e.field = "due"
  OBVIOUS
<1>7. old = IF missed[t].due = NoDay \/ missed[t].moved THEN slip ELSE NoDay
  BY DEF BeingMissed
<1>8. job' = [pc |-> "put", task |-> t, edit |-> e, old |-> old, slip |-> slip, child |-> t,
              closed |-> {}, husks |-> Husks, calm |-> calm]
  BY Zenon DEF Begin
<1> HIDE DEF old, slip, calm
<1>9. Husks \in SUBSET Task
  BY DEF Husks
<1>10. job' \in Working
  BY <1>4, <1>5, <1>8, <1>9 DEF Working
<1>11. TasksTypeOK'
  BY <1>1, <1>2, <1>10 DEF TasksTypeOK
<1>12. ~Stamping'
  BY <1>8 DEF Stamping
<1>13. Recorded'
  BY <1>1, <1>2 DEF RecordInv, Recorded, Known
<1>14. Decided'
  BY <1>2, <1>6, <1>7, <1>8, <1>12 DEF Decided
<1>15. Latest'
  BY <1>12 DEF Latest
<1> QED BY <1>11, <1>13, <1>14, <1>15 DEF RecordInv

LEMMA EditBegins ==
    ASSUME TasksConstants, RecordInv,
           \/ \E t \in Task : \E e \in EditsOf(t) : EditTask(t, e)
           \/ EditParent
    PROVE  RecordInv'
<1>1. TasksTypeOK
  BY DEF RecordInv
<1>2. ASSUME NEW t \in Task, NEW e \in EditsOf(t), EditTask(t, e) PROVE RecordInv'
  <2>1. e \in Edit
    BY Wanted
  <2>2. ask' \in Asking \cup {NoAsk}
    BY <1>1, <1>2 DEF EditTask, TasksTypeOK
  <2> QED BY <1>2, <2>1, <2>2, BeginKeeps DEF EditTask
<1>3. ASSUME EditParent PROVE RecordInv'
  <2> DEFINE e == [field |-> "parent", to |-> ask.to]
  <2>1. ask.task \in Task /\ ask.to \in Task
    BY <1>1, <1>3 DEF EditParent, TasksTypeOK, Asking, NoAsk
  <2>2. e \in Edit
    BY <2>1 DEF Edit
  <2>3. Begin(ask.task, e) /\ ask' = NoAsk
    BY <1>3 DEF EditParent
  <2> HIDE DEF e
  <2> QED BY <2>1, <2>2, <2>3, BeginKeeps
<1> QED BY <1>2, <1>3

\* What a write that took effect adds to the history, and what that makes of the
\* record.
LEMMA SlipOfPut ==
    ASSUME RecordInv, job.pc = "put"
    PROVE  /\ Slipped \in [Task -> Seq(Slip)]
           /\ \A u \in Task \ {job.task} : Slipped[u] = slips[u]
           /\ job.task \in Known =>
                /\ job.old = NoDay => Says(missed[job.task], Slipped[job.task])
                /\ job.old # NoDay =>
                    LET s == Slipped[job.task]
                    IN  /\ s # <<>> /\ s[Len(s)] = [due |-> job.old, moved |-> job.edit.moved]
                        /\ Unmoved(s) \subseteq {Len(s)}
<1> DEFINE t == job.task
           r == [due |-> job.slip, moved |-> job.edit.moved]
<1>1. TasksTypeOK /\ job # NoJob /\ job \in Working /\ ~Stamping
  BY NoStamps DEF RecordInv, Stamping
<1>2. /\ t \in Task /\ job.edit \in Edit
      /\ job.slip \in Day \cup {NoDay}
  BY <1>1 DEF Working
<1>3. slips[t] \in Seq(Slip) /\ missed[t].moved \in BOOLEAN
  BY <1>1, <1>2 DEF TasksTypeOK
<1>4. /\ job.slip # NoDay => job.edit.field = "due"
      /\ job.old = IF missed[t].due = NoDay \/ missed[t].moved THEN job.slip
                   ELSE NoDay
  BY <1>1 DEF RecordInv, Decided
<1>5. t \in Known => Says(missed[t], slips[t])
  BY <1>1, <1>2 DEF RecordInv, Recorded, Known
<1>6. CASE job.slip = NoDay
  <2>1. Slipped = slips /\ job.old = NoDay
    BY <1>4, <1>6 DEF Slipped
  <2> QED BY <1>1, <1>5, <2>1 DEF TasksTypeOK
<1>7. CASE job.slip # NoDay
  <2>1. r \in Slip
    BY <1>2, <1>4, <1>7, EditFields DEF Slip
  <2>2. Slipped = [slips EXCEPT ![t] = Append(@, r)]
    BY <1>7 DEF Slipped
  <2>3. job.old # NoDay => r = [due |-> job.old, moved |-> job.edit.moved]
    BY <1>4
  <2> HIDE DEF r, t
  <2>4. Append(slips[t], r) \in Seq(Slip)
    BY <1>3, <2>1, OneMoreSlip
  <2>5. /\ Slipped \in [Task -> Seq(Slip)]
        /\ Slipped[t] = Append(slips[t], r)
        /\ \A u \in Task \ {t} : Slipped[u] = slips[u]
    BY <1>1, <1>2, <2>2, <2>4 DEF TasksTypeOK
  <2>6. ASSUME t \in Known
        PROVE  /\ job.old = NoDay => Says(missed[t], Slipped[t])
               /\ job.old # NoDay =>
                    LET s == Slipped[t]
                    IN  /\ s # <<>> /\ s[Len(s)] = r /\ Unmoved(s) \subseteq {Len(s)}
    <3>1. missed[t].due = NoDay \/ missed[t].moved <=> Unmoved(slips[t]) = {}
      BY <1>3, <1>5, <2>6, RecordTells
    <3>2. job.old = NoDay <=> Unmoved(slips[t]) # {}
      BY <1>4, <1>7, <3>1
    <3>3. CASE job.old = NoDay
      <4>1. Truth(Slipped[t]) = Truth(slips[t])
        BY <1>3, <2>1, <2>5, <3>2, <3>3, OneMoreSlip
      <4> QED BY <1>5, <2>6, <3>3, <4>1 DEF Says
    <3>4. CASE job.old # NoDay
      BY <1>3, <2>1, <2>5, <3>2, <3>4, OneMoreSlip
    <3> QED BY <3>3, <3>4
  <2> QED BY <2>3, <2>5, <2>6 DEF t
<1> QED BY <1>6, <1>7

\* A write, and one that fails, leave rows.
LEMMA Writes ==
    ASSUME TasksTypeOK, NEW t \in Task, NEW e \in Edit,
           Write(t, e) \/ WriteFails(t, e)
    PROVE  /\ wire' \in [Task -> TaskRow \cup {Gone}]
           /\ cache' \in [Task -> TaskRow \cup {Gone}]
<1>1. /\ wire \in [Task -> TaskRow \cup {Gone}]
      /\ cache \in [Task -> TaskRow \cup {Gone}]
  BY DEF TasksTypeOK
<1> DEFINE r == Applied(wire[t], e)
<1>2. wire[t] # Gone => r \in TaskRow
  <2>1. wire[t] # Gone => wire[t] \in TaskRow
    BY <1>1
  <2> QED BY <2>1, AppliedType
<1>3. CASE Write(t, e)
  <2>1. /\ wire[t] # Gone
        /\ wire' = [wire EXCEPT ![t] = r] /\ cache' = [cache EXCEPT ![t] = r]
    BY <1>1, <1>3 DEF Write
  <2> HIDE DEF r
  <2> QED BY <1>1, <1>2, <2>1, OneRowWritten
<1>4. CASE WriteFails(t, e)
  <2>1. /\ cache' = cache
        /\ wire' = wire \/ (wire[t] # Gone /\ wire' = [wire EXCEPT ![t] = r])
    BY <1>1, <1>4 DEF WriteFails
  <2> HIDE DEF r
  <2> QED BY <1>1, <1>2, <2>1, OneRowWritten
<1> QED BY <1>3, <1>4

LEMMA PutKeeps ==
    ASSUME TasksConstants, RecordInv, Put
    PROVE  RecordInv'
<1> DEFINE t == job.task
           wish == job.edit
<1>1. TasksTypeOK /\ job.pc = "put" /\ job # NoJob /\ job \in Working
      /\ ~Stamping
  BY NoStamps DEF RecordInv, Stamping, Put
<1>2. t \in Task /\ wish \in Edit
  BY <1>1 DEF Working
<1>3. UNCHANGED <<today, missed, closing, ask, foreign, relabelled>>
  BY DEF Put
<1>4. \/ /\ Write(t, wish) /\ job' = Goto(AfterPut(wish))
         /\ slips' = Slipped /\ unstamped' = unstamped
      \/ /\ WriteFails(t, wish) /\ job' = NoJob
         /\ \/ slips' = slips /\ unstamped' = unstamped
            \/ /\ slips' = Slipped
               /\ unstamped' = IF job.old = NoDay THEN unstamped ELSE unstamped \cup {t}
  BY DEF Put
<1> HIDE DEF t, wish
<1>5. /\ Slipped \in [Task -> Seq(Slip)]
      /\ \A u \in Task \ {t} : Slipped[u] = slips[u]
      /\ t \in Known =>
            /\ job.old = NoDay => Says(missed[t], Slipped[t])
            /\ job.old # NoDay =>
                LET s == Slipped[t]
                IN  /\ s # <<>> /\ s[Len(s)] = [due |-> job.old, moved |-> wish.moved]
                    /\ Unmoved(s) \subseteq {Len(s)}
  BY <1>1, SlipOfPut DEF t, wish
<1>6. /\ job.slip # NoDay => wish.field = "due"
      /\ job.old # NoDay => job.slip # NoDay
  BY <1>1 DEF RecordInv, Decided, wish
<1>7. \/ job' = NoJob /\ (job.old # NoDay => slips' = slips \/ t \in unstamped')
      \/ /\ job' = [job EXCEPT !.pc = "stamp"] /\ job.old # NoDay
         /\ slips' = Slipped /\ unstamped' = unstamped
      \/ job' = [job EXCEPT !.pc = "climb"] /\ job.old = NoDay
  <2>1. CASE /\ job' = NoJob
             /\ \/ slips' = slips /\ unstamped' = unstamped
                \/ /\ slips' = Slipped
                   /\ unstamped' = IF job.old = NoDay THEN unstamped
                                   ELSE unstamped \cup {t}
    BY <2>1
  <2>2. CASE /\ job' = Goto(AfterPut(wish))
             /\ slips' = Slipped /\ unstamped' = unstamped
    <3>1. CASE job.old # NoDay
      <4>1. wish.field = "due"
        BY <1>6, <3>1
      <4>2. AfterPut(wish) = "stamp"
        BY <3>1, <4>1 DEF AfterPut
      <4> QED BY <2>2, <3>1, <4>2 DEF Goto
    <3>2. CASE job.old = NoDay
      <4>1. AfterPut(wish) \in {"climb", "idle"}
        BY <3>2 DEF AfterPut
      <4> QED BY <2>2, <3>2, <4>1 DEF Goto
    <3> QED BY <3>1, <3>2
  <2> QED BY <1>4, <2>1, <2>2
<1>8. ASSUME NEW pc \in {"stamp", "climb"}, job' = [job EXCEPT !.pc = pc]
      PROVE  /\ job' \in Working /\ job'.task = t /\ job'.edit = wish
             /\ job'.old = job.old /\ job'.slip = job.slip /\ job'.pc = pc
             /\ job' # NoJob
  <2>1. /\ job' \in Working /\ job'.task = t /\ job'.edit = wish
        /\ job'.old = job.old /\ job'.slip = job.slip /\ job'.pc = pc
    BY <1>1, <1>8 DEF Working, t, wish
  <2> QED BY <2>1 DEF NoJob
<1>9. job' = NoJob => job'.pc = "idle"
  BY DEF NoJob
<1>10. job' # NoJob =>
        /\ job' \in Working /\ job'.task = t /\ job'.edit = wish
        /\ job'.old = job.old /\ job'.slip = job.slip
  BY <1>7, <1>8
<1>11. /\ wire' \in [Task -> TaskRow \cup {Gone}]
       /\ cache' \in [Task -> TaskRow \cup {Gone}]
  BY <1>1, <1>2, <1>4, Writes
<1>12. /\ slips' \in [Task -> Seq(Slip)]
       /\ \A u \in Task \ {t} : slips'[u] = slips[u]
       /\ slips' = slips \/ slips' = Slipped
  BY <1>1, <1>4, <1>5 DEF TasksTypeOK
<1>13. unstamped \subseteq unstamped' /\ unstamped' \subseteq unstamped \cup {t}
  BY <1>4
<1>14. TasksTypeOK'
  BY <1>1, <1>2, <1>3, <1>10, <1>11, <1>12, <1>13 DEF TasksTypeOK
<1>15. Stamping' => /\ job' # NoJob /\ job'.pc = "stamp" /\ job'.task = t
                          /\ job.old # NoDay /\ slips' = Slipped
                          /\ unstamped' = unstamped
  BY <1>7, <1>8, <1>9 DEF Stamping
<1>16. Known' \subseteq Known
  BY <1>3, <1>13 DEF Known
<1>17. Recorded'
  <2> SUFFICES ASSUME NEW u \in Known', ~(Stamping' /\ u = job'.task)
               PROVE  Says(missed[u], slips'[u])
    BY <1>3 DEF Recorded
  <2>1. u \in Known /\ u \in Task /\ Says(missed[u], slips[u])
    BY <1>1, <1>16 DEF RecordInv, Recorded, Known
  <2>2. CASE u # t
    BY <1>12, <2>1, <2>2
  <2>3. CASE u = t
    <3>1. CASE slips' = slips
      BY <2>1, <3>1
    <3>2. CASE slips' = Slipped /\ job.old = NoDay
      BY <1>5, <2>1, <2>3, <3>2
    <3>3. CASE slips' = Slipped /\ job.old # NoDay /\ slips' # slips
      <4>1. job' = NoJob => t \notin Known'
        BY <1>7, <1>8, <3>3 DEF Known
      <4>2. job' # NoJob => Stamping' /\ job'.task = t
        BY <1>7, <1>8, <3>3 DEF Stamping
      <4> QED BY <2>3, <4>1, <4>2
    <3> QED BY <1>12, <3>1, <3>2, <3>3
  <2> QED BY <2>2, <2>3
<1>18. Decided'
  <2>1. job' # NoJob => job'.pc # "put" /\ job'.pc # "stamp_moved"
    BY <1>7, <1>8
  <2> QED BY <1>6, <1>10, <1>15, <2>1 DEF Decided
<1>19. Latest'
  BY <1>5, <1>10, <1>15, <1>16 DEF Latest
<1> QED BY <1>14, <1>17, <1>18, <1>19 DEF RecordInv

\* The two columns of a record.
LEMMA StampsKeep ==
    ASSUME RecordInv, StampDue \/ StampMoved
    PROVE  RecordInv'
<1> DEFINE t == job.task
<1>1. /\ TasksTypeOK /\ Stamping /\ job # NoJob /\ job \in Working
      /\ t \in Task
  <2>1. job.pc \in {"stamp", "stamp_moved"}
    BY DEF StampDue, StampMoved
  <2>2. TasksTypeOK /\ Stamping /\ job # NoJob /\ job \in Working
    BY <2>1, NoStamps DEF RecordInv, Stamping
  <2> QED BY <2>2 DEF Working
<1>2. /\ job.edit.field = "due" /\ job.edit.moved \in BOOLEAN
      /\ job.old \in Day \cup {NoDay}
  <2>1. job.edit \in Edit /\ job.old \in Day \cup {NoDay}
    BY <1>1 DEF Working
  <2>2. job.edit.field = "due"
    BY <1>1 DEF RecordInv, Decided
  <2> QED BY <2>1, <2>2, EditFields
<1>3. UNCHANGED <<today, wire, cache, closing, ask, foreign, slips, unstamped, relabelled>>
  BY DEF StampDue, StampMoved, History
<1>4. \A u \in Known : u # t => Says(missed[u], slips[u])
  BY DEF RecordInv, Recorded
<1>5. t \in Known =>
        LET s == slips[t]
        IN  /\ s # <<>> /\ s[Len(s)] = [due |-> job.old, moved |-> job.edit.moved]
            /\ Unmoved(s) \subseteq {Len(s)}
  BY <1>1 DEF RecordInv, Latest
<1>6. Known' = Known
  BY <1>3 DEF Known
<1>7. CASE StampDue
  <2>1. /\ missed' = [missed EXCEPT ![t].due = job.old]
        /\ job' = [job EXCEPT !.pc = "stamp_moved"]
    BY <1>7 DEF StampDue
  <2>2. /\ job' \in Working /\ job'.task = t /\ job'.edit = job.edit
        /\ job'.old = job.old /\ job'.slip = job.slip /\ job'.pc = "stamp_moved"
    BY <1>1, <2>1, NextStage
  <2>3. job' # NoJob
    BY <2>2 DEF NoJob
  <2> HIDE DEF t
  <2>4. /\ missed' \in [Task -> [due : Day \cup {NoDay}, moved : BOOLEAN]]
        /\ missed'[t].due = job.old
        /\ \A u \in Task \ {t} : missed'[u] = missed[u]
    BY <1>1, <1>2, <2>1 DEF TasksTypeOK
  <2>5. TasksTypeOK'
    BY <1>1, <1>3, <2>2, <2>4 DEF TasksTypeOK
  <2>6. Stamping'
    BY <2>2 DEF Stamping
  <2>7. Recorded'
    BY <1>3, <1>4, <1>6, <2>2, <2>4, <2>6 DEF Recorded, Known
  <2>8. Decided'
    BY <1>1, <1>2, <2>2, <2>4 DEF Decided
  <2>9. Latest'
    BY <1>3, <1>5, <1>6, <2>2 DEF Latest
  <2> QED BY <2>5, <2>7, <2>8, <2>9 DEF RecordInv
<1>8. CASE StampMoved
  <2>1. /\ missed' = [missed EXCEPT ![t].moved = job.edit.moved]
        /\ job' = NoJob /\ job.pc = "stamp_moved"
    BY <1>8 DEF StampMoved
  <2>2. missed[t].due = job.old
    BY <1>1, <2>1 DEF RecordInv, Decided
  <2> HIDE DEF t
  <2>3. /\ missed' \in [Task -> [due : Day \cup {NoDay}, moved : BOOLEAN]]
        /\ missed'[t].due = job.old /\ missed'[t].moved = job.edit.moved
        /\ \A u \in Task \ {t} : missed'[u] = missed[u]
    BY <1>1, <1>2, <2>1, <2>2 DEF TasksTypeOK
  <2>4. TasksTypeOK'
    BY <1>1, <1>3, <2>1, <2>3 DEF TasksTypeOK
  <2>5. ~Stamping'
    BY <2>1 DEF Stamping, NoJob
  <2>6. ASSUME t \in Known PROVE Says(missed'[t], slips[t])
    <3>1. slips[t] \in Seq(Slip) /\ slips[t] # <<>>
      BY <1>1, <1>5, <2>6 DEF TasksTypeOK
    <3>2. About(slips[t]) = Len(slips[t])
      BY <1>5, <2>6, <3>1, AboutOne DEF About
    <3>3. Truth(slips[t]) = [due |-> job.old, moved |-> job.edit.moved]
      BY <1>5, <2>6, <3>1, <3>2 DEF Truth
    <3> QED BY <2>3, <3>3 DEF Says
  <2>7. Recorded'
    <3> SUFFICES ASSUME NEW u \in Known PROVE Says(missed'[u], slips[u])
      BY <1>3, <1>6 DEF Recorded
    <3>1. u \in Task
      BY DEF Known
    <3> QED BY <1>4, <2>3, <2>6, <3>1
  <2>8. Decided' /\ Latest'
    BY <2>1, <2>5 DEF Decided, Latest
  <2> QED BY <2>4, <2>7, <2>8 DEF RecordInv
<1> QED BY <1>7, <1>8

\* A request that does not record leaves the records as they were.
LEMMA NoRecord ==
    ASSUME RecordInv, TasksTypeOK', ~Stamping, ~Stamping',
           UNCHANGED <<missed, slips, unstamped, relabelled>>,
           \/ job' = NoJob
           \/ /\ job # NoJob /\ job'.pc # "put"
              /\ job'.slip = job.slip /\ job'.edit = job.edit
    PROVE  RecordInv'
<1>1. Recorded'
  BY DEF RecordInv, Recorded, Known
<1>2. Decided'
  BY DEF RecordInv, Decided, Stamping
<1>3. Latest'
  BY DEF Latest
<1> QED BY <1>1, <1>2, <1>3 DEF RecordInv

LEMMA ClimbKeeps ==
    ASSUME RecordInv, Climb
    PROVE  RecordInv'
<1>1. /\ TasksTypeOK /\ ~Stamping /\ job # NoJob /\ job \in Working
      /\ job.pc = "climb"
  BY NoStamps DEF RecordInv, Stamping, Climb
<1>2. UNCHANGED <<today, missed, closing, ask, foreign, slips, unstamped, relabelled>>
  BY DEF Climb, History
<1>3. Completed \in Edit
  BY DEF Completed, Edit, Status, Closed
<1>4. ClosesNext => Above \in Task
  BY DEF ClosesNext
<1>5. /\ wire' \in [Task -> TaskRow \cup {Gone}]
      /\ cache' \in [Task -> TaskRow \cup {Gone}]
  <2>1. CASE UNCHANGED <<wire, cache>>
    BY <1>1, <2>1 DEF TasksTypeOK
  <2>2. CASE /\ ClosesNext
             /\ \/ Write(Above, Completed)
                \/ WriteFails(Above, Completed)
    <3> HIDE DEF Above, Completed
    <3> QED BY <1>1, <1>3, <1>4, <2>2, Writes
  <2> QED BY <2>1, <2>2 DEF Climb
<1>6. \/ job' = NoJob
      \/ /\ ClosesNext
         /\ job' = [job EXCEPT !.child = Above, !.closed = @ \cup {Above}]
  BY DEF Climb
<1>7. CASE job' = NoJob
  <2>1. TasksTypeOK'
    BY <1>1, <1>2, <1>5, <1>7 DEF TasksTypeOK
  <2>2. ~Stamping'
    BY <1>7 DEF Stamping, NoJob
  <2> QED BY <1>1, <1>2, <1>7, <2>1, <2>2, NoRecord
<1>8. CASE /\ ClosesNext
           /\ job' = [job EXCEPT !.child = Above, !.closed = @ \cup {Above}]
  <2> DEFINE up == Above
  <2>1. up \in Task /\ job' = [job EXCEPT !.child = up, !.closed = @ \cup {up}]
    BY <1>4, <1>8
  <2> HIDE DEF up
  <2>2. /\ job' \in Working /\ job'.pc = "climb"
        /\ job'.slip = job.slip /\ job'.edit = job.edit
    BY <1>1, <2>1 DEF Working
  <2>3. TasksTypeOK'
    BY <1>1, <1>2, <1>5, <2>2 DEF TasksTypeOK
  <2>4. ~Stamping'
    BY <2>2 DEF Stamping
  <2> QED BY <1>1, <1>2, <2>2, <2>3, <2>4, NoRecord
<1> QED BY <1>6, <1>7, <1>8

LEMMA CrashKeeps ==
    ASSUME RecordInv, Crash
    PROVE  RecordInv'
<1>1. TasksTypeOK
  BY DEF RecordInv
<1>2. /\ UNCHANGED <<today, wire, cache, missed, closing, foreign, slips, relabelled>>
      /\ job' = NoJob /\ ask' = NoAsk
      /\ unstamped' = IF Stamping THEN unstamped \cup {job.task} ELSE unstamped
  BY DEF Crash, Stamping
<1>3. Stamping => job.task \in Task
  <2>1. Stamping => job \in Working
    BY <1>1, NoStamps
  <2> QED BY <2>1 DEF Working
<1>4. TasksTypeOK'
  BY <1>1, <1>2, <1>3 DEF TasksTypeOK
<1>5. ~Stamping'
  BY <1>2 DEF Stamping, NoJob
<1>6. Recorded'
  BY <1>2, <1>5 DEF RecordInv, Recorded, Known
<1>7. Decided' /\ Latest'
  BY <1>2, <1>5 DEF Decided, Latest
<1> QED BY <1>4, <1>6, <1>7 DEF RecordInv

\* The owner takes a record back, or calls it something else.
LEMMA OwnerRecords ==
    ASSUME RecordInv, Relabel \/ \E t \in Task : Forget(t)
    PROVE  RecordInv'
<1>1. TasksTypeOK /\ job = NoJob /\ ~Stamping
  BY NoStamps DEF RecordInv, Relabel, Forget, Idle
<1>2. \A u \in Known : Says(missed[u], slips[u])
  BY <1>1 DEF RecordInv, Recorded
<1>3. SUFFICES /\ TasksTypeOK' /\ job' = NoJob
               /\ \A u \in Known' : Says(missed'[u], slips'[u])
  <2>1. ASSUME job' = NoJob PROVE ~Stamping'
    BY <2>1 DEF Stamping, NoJob
  <2> QED BY <2>1 DEF RecordInv, Recorded, Decided, Latest
<1>4. ASSUME NEW t \in Task, Forget(t)
      PROVE  /\ TasksTypeOK' /\ job' = NoJob
             /\ \A u \in Known' : Says(missed'[u], slips'[u])
  <2>1. /\ UNCHANGED <<today, wire, cache, closing, job, ask, foreign>>
        /\ missed' = [missed EXCEPT ![t] = [due |-> NoDay, moved |-> FALSE]]
        /\ slips' = [slips EXCEPT ![t] = <<>>]
        /\ unstamped' = unstamped \ {t} /\ relabelled' = relabelled \ {t}
    BY <1>4 DEF Forget
  <2>2. TasksTypeOK'
    BY <1>1, <2>1 DEF TasksTypeOK
  <2>3. ASSUME NEW u \in Known' PROVE Says(missed'[u], slips'[u])
    <3>1. CASE u = t
      <4>1. missed'[t] = [due |-> NoDay, moved |-> FALSE] /\ slips'[t] = <<>>
        BY <1>1, <2>1 DEF TasksTypeOK
      <4> QED BY <3>1, <4>1 DEF Says, Truth
    <3>2. CASE u # t
      BY <1>1, <1>2, <2>1, <3>2 DEF TasksTypeOK, Known
    <3> QED BY <3>1, <3>2
  <2> QED BY <1>1, <2>1, <2>2, <2>3
<1>5. ASSUME Relabel
      PROVE  /\ TasksTypeOK' /\ job' = NoJob
             /\ \A u \in Known' : Says(missed'[u], slips'[u])
  <2> DEFINE t == ask.task
             b == ask.to
             q == [slips[t] EXCEPT ![About(slips[t])].moved = b]
  <2>1. t \in Task /\ b \in BOOLEAN
    BY <1>1, <1>5 DEF Relabel, TasksTypeOK, Asking, NoAsk
  <2>2. /\ UNCHANGED <<today, wire, cache, closing, job, foreign, unstamped>>
        /\ ask' = NoAsk /\ missed' = [missed EXCEPT ![t].moved = b]
        /\ slips' = IF slips[t] = <<>> THEN slips
                    ELSE [slips EXCEPT ![t][About(slips[t])].moved = b]
        /\ relabelled' = IF b /\ About(slips[t]) < Len(slips[t]) THEN relabelled \cup {t}
                         ELSE relabelled
    BY <1>5 DEF Relabel
  <2>3. slips[t] # <<>> => slips' = [slips EXCEPT ![t] = q]
    BY <2>2
  <2> HIDE DEF t, b
  <2>4. slips[t] \in Seq(Slip)
    BY <1>1, <2>1 DEF TasksTypeOK
  <2>5. slips[t] # <<>> => About(slips[t]) \in DOMAIN slips[t]
    BY <2>4, AboutOne
  <2>6. slips[t] # <<>> => q \in Seq(Slip)
    <3> SUFFICES ASSUME slips[t] # <<>> PROVE q \in Seq(Slip)
      OBVIOUS
    <3> DEFINE n == About(slips[t])
               r == [slips[t][n] EXCEPT !.moved = b]
    <3>1. n \in DOMAIN slips[t] /\ slips[t][n] \in Slip
      BY <2>4, <2>5
    <3>2. r \in Slip
      BY <2>1, <3>1 DEF Slip
    <3>3. q = [slips[t] EXCEPT ![n] = r]
      OBVIOUS
    <3> HIDE DEF n, r, q
    <3> QED BY <2>4, <3>1, <3>2, <3>3
  <2>7. /\ slips' \in [Task -> Seq(Slip)]
        /\ slips'[t] = IF slips[t] = <<>> THEN <<>> ELSE q
        /\ \A u \in Task \ {t} : slips'[u] = slips[u]
    <3> HIDE DEF q
    <3>1. CASE slips[t] = <<>>
      BY <1>1, <2>1, <2>2, <3>1 DEF TasksTypeOK
    <3>2. CASE slips[t] # <<>>
      BY <1>1, <2>1, <2>3, <2>6, <3>2 DEF TasksTypeOK
    <3> QED BY <3>1, <3>2
  <2>8. /\ missed' \in [Task -> [due : Day \cup {NoDay}, moved : BOOLEAN]]
        /\ missed'[t].due = missed[t].due /\ missed'[t].moved = b
        /\ \A u \in Task \ {t} : missed'[u] = missed[u]
    BY <1>1, <2>1, <2>2 DEF TasksTypeOK
  <2>9. TasksTypeOK'
    BY <1>1, <2>1, <2>2, <2>7, <2>8 DEF TasksTypeOK
  <2>10. Known' \subseteq Known
    BY <2>2 DEF Known
  <2>11. ASSUME t \in Known' PROVE Says(missed'[t], slips'[t])
    <3>1. Says(missed[t], slips[t])
      BY <1>2, <2>10, <2>11
    <3>2. CASE slips[t] = <<>>
      <4>1. missed'[t].due = NoDay
        BY <2>8, <3>1, <3>2 DEF Says, Truth
      <4> QED BY <2>7, <3>2, <4>1 DEF Says, Truth
    <3>3. CASE slips[t] # <<>>
      <4>1. ~(b /\ About(slips[t]) < Len(slips[t]))
        BY <2>1, <2>2, <2>11 DEF Known
      <4>2. b => About(slips[t]) = Len(slips[t])
        BY <2>4, <2>5, <3>3, <4>1
      <4>3. Truth(q) = [Truth(slips[t]) EXCEPT !.moved = b]
        BY <2>1, <2>4, <3>3, <4>2, CalledOtherwise
      <4>4. Truth(slips[t]) \in Slip
        BY <2>4, <3>3, AboutOne
      <4>5. Truth(q).due = Truth(slips[t]).due /\ Truth(q).moved = b
        BY <4>3, <4>4 DEF Slip
      <4> QED BY <2>7, <2>8, <3>1, <3>3, <4>5 DEF Says
    <3> QED BY <3>2, <3>3
  <2>12. ASSUME NEW u \in Known' PROVE Says(missed'[u], slips'[u])
    <3>1. u \in Task /\ Says(missed[u], slips[u])
      BY <1>2, <2>10 DEF Known
    <3> QED BY <2>7, <2>8, <2>11, <3>1
  <2> QED BY <1>1, <2>2, <2>9, <2>12
<1> QED BY <1>4, <1>5

LEMMA EditsInit ==
    ASSUME TasksConstants, TasksInit
    PROVE  RecordInv
<1>1. TasksTypeOK
  <2>1. PICK s \in Scenes : today = s.today /\ wire = s.list
    BY DEF TasksInit
  <2>2. today \in Day /\ wire \in [Task -> TaskRow \cup {Gone}]
    BY <2>1 DEF TasksConstants
  <2>3. <<>> \in Seq(Slip) /\ NoDay \in Day \cup {NoDay}
    OBVIOUS
  <2> QED BY <2>2, <2>3 DEF TasksInit, TasksTypeOK
<1>2. job = NoJob /\ ~Stamping
  BY <1>1, NoStamps DEF TasksInit
<1>3. Recorded
  BY DEF TasksInit, Recorded, Known, Says, Truth
<1> QED BY <1>1, <1>2, <1>3 DEF RecordInv, Decided, Latest

LEMMA EditsStep ==
    ASSUME TasksConstants, RecordInv, [TasksNext]_tasksVars
    PROVE  RecordInv'
BY CalmSteps, EditBegins, PutKeeps, StampsKeep, ClimbKeeps, CrashKeeps, OwnerRecords, Zenon
   DEF TasksNext

\* Of the tasks: while no request is under way, every record says what it should; a
\* request decided under the lock whether there is one to write; and a record that is
\* being written has only moved deadlines before it (service.py, edit_task and
\* _deadline_being_missed).
THEOREM EditsInductive ==
    TasksSpec => []RecordInv
<1>1. TasksInit => RecordInv
  BY EditsInit, TaskAssumption
<1>2. RecordInv /\ [TasksNext]_tasksVars => RecordInv'
  BY EditsStep, TaskAssumption
<1> QED BY <1>1, <1>2, PTL DEF TasksSpec

\* The record of a task is its first missed deadline, or the latest of those that
\* moved, whatever other clients write, wherever the process dies and in whatever
\* order requests, syncs and midnights come; but where a fault kept the record from
\* being written, or the owner called it something else after others were missed.
THEOREM FirstMissIsKept ==
    TasksSpec => []RecordIsTheFirstMiss
<1>1. ASSUME RecordInv PROVE RecordIsTheFirstMiss
  BY <1>1, NoStamps DEF RecordInv, Recorded, RecordIsTheFirstMiss, Idle
<1>2. RecordInv => RecordIsTheFirstMiss
  BY <1>1
<1> QED BY <1>2, EditsInductive, PTL

-----------------------------------------------------------------------------
(* The parents that have nothing left in them.                                *)

LEMMA StepKinds ==
    ASSUME [TasksNext]_tasksVars
    PROVE  \/ job' = NoJob \/ Put \/ StampDue \/ Climb
           \/ \E t \in Task : Foreign(t)
           \/ UNCHANGED <<wire, cache, job, foreign>>
           \/ \E t \in Task : \E e \in EditsOf(t) : EditTask(t, e)
           \/ EditParent
<1> USE DEF Idle
<1>1. CASE \/ \E t \in Task : \E p \in ParentsOf(t) \ {None} : CheckParent(t, p)
           \/ Refused \/ Relabel
  BY <1>1, Zenon DEF CheckParent, Refused, Relabel
<1>2. CASE StampMoved \/ Crash \/ SetClosing \/ Refresh \/ NextDay
           \/ UNCHANGED tasksVars
  BY <1>2, Zenon DEF StampMoved, Crash, SetClosing, Refresh,
     NextDay, tasksVars
<1>3. CASE \E t \in Task : \E p \in ParentsOf(t) : CreateTask(t, p)
  BY <1>3, Zenon DEF CreateTask
<1>4. CASE \E t \in Task : DeleteTask(t) \/ Forget(t) \/ Foreign(t)
  BY <1>4, Zenon DEF DeleteTask, Forget
<1>5. CASE \E t \in Task, b \in BOOLEAN : CheckRecord(t, b)
  BY <1>5, Zenon DEF CheckRecord
<1> QED BY <1>1, <1>2, <1>3, <1>4, <1>5, Zenon DEF TasksNext

\* A climb under way is carried on by itself, or broken off by a crash.
LEMMA ClimbEnds ==
    ASSUME [TasksNext]_tasksVars, job.pc = "climb", ~Idle, job' # job, ~Crash
    PROVE  Climb
<1>1. \A t \in Task : ~Forget(t) /\ ~DeleteTask(t) /\ ~Foreign(t)
  BY DEF Forget, DeleteTask, Foreign
<1>2. /\ \A t \in Task : \A b : ~CheckRecord(t, b)
      /\ \A t \in Task : \A p : ~CheckParent(t, p) /\ ~CreateTask(t, p)
  BY Zenon DEF CheckRecord, CheckParent, CreateTask
<1>3. /\ \A t \in Task : \A e : ~EditTask(t, e)
      /\ ~EditParent /\ ~Refused /\ ~Relabel
  BY Zenon DEF EditTask, EditParent, Begin, Refused, Relabel
<1>4. ~SetClosing /\ ~Refresh /\ ~NextDay /\ ~UNCHANGED tasksVars
  BY DEF SetClosing, Refresh, NextDay, tasksVars
<1>5. ~Put /\ ~StampDue /\ ~StampMoved
  BY DEF Put, StampDue, StampMoved
<1> QED BY <1>1, <1>2, <1>3, <1>4, <1>5, Zenon DEF TasksNext

LEMMA FaultsCount ==
    ASSUME faults \in Nat, [TasksNext]_tasksVars
    PROVE  faults' \in Nat
<1>1. faults' \in {faults, faults + 1}
  <2>1. CASE \/ \E t \in Task : \E e \in EditsOf(t) : EditTask(t, e)
             \/ EditParent
    BY <2>1, Zenon DEF EditTask, EditParent, Begin
  <2>2. CASE \/ \E t \in Task : \E p \in ParentsOf(t) \ {None} : CheckParent(t, p)
             \/ Refused \/ Relabel
    BY <2>2, Zenon DEF CheckParent, Refused, Relabel
  <2>3. CASE StampDue \/ StampMoved \/ SetClosing \/ Refresh
             \/ NextDay \/ UNCHANGED tasksVars
    BY <2>3, Zenon DEF StampDue, StampMoved, SetClosing, Refresh,
       NextDay, tasksVars
  <2>4. CASE Put \/ Climb \/ Crash
    BY <2>4 DEF Put, Climb, Crash, WriteFails, Fault
  <2>5. CASE \E t \in Task : \E p \in ParentsOf(t) : CreateTask(t, p)
    BY <2>5, Zenon DEF CreateTask
  <2>6. CASE \E t \in Task : DeleteTask(t) \/ Forget(t) \/ Foreign(t)
    BY <2>6, Zenon DEF DeleteTask, Forget, Foreign
  <2>7. CASE \E t \in Task, b \in BOOLEAN : CheckRecord(t, b)
    BY <2>7, Zenon DEF CheckRecord
  <2> QED BY <2>1, <2>2, <2>3, <2>4, <2>5, <2>6, <2>7, Zenon DEF TasksNext
<1> QED BY <1>1

\* Settling one task can finish only its parent, and leaves who is whose child.
LEMMA SettlesOne ==
    ASSUME TasksTypeOK, NEW t \in Task, cache[t] # Gone, NEW s \in Closed,
           cache' = [cache EXCEPT ![t] = [cache[t] EXCEPT !.status = s]]
    PROVE  /\ \A u \in Task : HasTask(u)' <=> HasTask(u)
           /\ \A u \in Task : HasTask(u) => cache'[u].parent = cache[u].parent
           /\ \A u \in Task : cache[u].status \in Closed => cache'[u].status \in Closed
           /\ cache'[t].status \in Closed
           /\ \A p : Children(p)' = Children(p)
           /\ Husks' \subseteq (Husks \ {t}) \cup {cache[t].parent}
<1>1. cache \in [Task -> TaskRow \cup {Gone}] /\ cache[t] \in TaskRow
  BY ThereIsARow DEF TasksTypeOK
<1> DEFINE r == [cache[t] EXCEPT !.status = s]
<1>2. r.status = s /\ r.parent = cache[t].parent
  BY <1>1 DEF TaskRow
<1>3. r # Gone
  BY <1>2 DEF Gone, Closed
<1> HIDE DEF r
<1>4. cache'[t] = r /\ \A u \in Task : u # t => cache'[u] = cache[u]
  BY <1>1 DEF r
<1>5. \A u \in Task : HasTask(u)' <=> HasTask(u)
  BY <1>3, <1>4 DEF HasTask
<1>6. \A u \in Task : HasTask(u) => cache'[u].parent = cache[u].parent
  BY <1>2, <1>4
<1>7. \A u \in Task : cache[u].status \in Closed => cache'[u].status \in Closed
  BY <1>2, <1>4
<1>8. cache'[t].status \in Closed
  BY <1>2, <1>4
<1>9. \A p : Children(p)' = Children(p)
  BY <1>5, <1>6 DEF Children
<1>10. ASSUME NEW p \in Husks', p # cache[t].parent
       PROVE  p \in Husks \ {t}
  <2>1. /\ p \in Task /\ HasTask(p)' /\ cache'[p].status \notin Closed
        /\ Children(p)' # {}
        /\ \A k \in Children(p)' : cache'[k].status \in Closed
    BY DEF Husks
  <2>2. p # t /\ HasTask(p) /\ cache[p].status \notin Closed
    BY <1>5, <1>7, <1>8, <2>1
  <2>3. t \notin Children(p)
    BY <1>10 DEF Children
  <2>4. \A k \in Children(p) : k \in Task /\ cache'[k] = cache[k]
    BY <1>4, <2>3 DEF Children
  <2> QED BY <1>9, <2>1, <2>2, <2>4 DEF Husks
<1> QED BY <1>5, <1>6, <1>7, <1>8, <1>9, <1>10

\* A write that is read back leaves what agreed in agreement.
LEMMA WriteAgrees ==
    ASSUME TasksTypeOK, wire = cache, NEW t \in Task, NEW e, Write(t, e)
    PROVE  /\ wire' = cache' /\ cache[t] # Gone
           /\ cache' = [cache EXCEPT ![t] = Applied(cache[t], e)]
BY DEF Write

LEMMA SettlingWrite ==
    ASSUME TasksTypeOK, wire = cache, NEW t \in Task, NEW e, Write(t, e),
           e.field = "status"
    PROVE  cache' = [cache EXCEPT ![t] = [cache[t] EXCEPT !.status = e.to]]
<1>1. Applied(cache[t], e) = [cache[t] EXCEPT !.status = e.to]
  BY DEF Applied
<1> QED BY <1>1, WriteAgrees

LEMMA BeginFinishes ==
    ASSUME TasksConstants, RecordInv, NEW t \in Task, NEW e, Begin(t, e)
    PROVE  Finishing'
<1>1. /\ UNCHANGED <<wire, cache, foreign>>
      /\ job'.pc = "put" /\ job'.task = t /\ job'.child = t /\ job'.closed = {}
      /\ job'.husks = Husks /\ job'.calm = [insync |-> wire = cache, foreign |-> foreign]
  BY DEF Begin
<1>2. job'.calm.foreign = foreign /\ job'.calm.insync = (wire = cache)
  <2> DEFINE same == wire = cache
  <2>1. job'.calm = [insync |-> same, foreign |-> foreign]
    BY <1>1
  <2> HIDE DEF same
  <2>2. job'.calm.foreign = foreign /\ job'.calm.insync = same
    BY <2>1
  <2> QED BY <2>2, Zenon DEF same
<1>3. foreign \in Nat /\ Depth \in Nat
  BY DEF RecordInv, TasksTypeOK, TasksConstants
<1>4. IsFiniteSet(job'.closed) /\ Cardinality(job'.closed) <= Depth
  BY <1>1, <1>3, FS_EmptySet
<1>5. Husks' = Husks
  BY <1>1 DEF Husks, HasTask, Children
<1>6. Bounded'
  BY <1>1, <1>2, <1>3, <1>4 DEF Bounded
<1>7. NotClimbed'
  BY <1>1, <1>5 DEF NotClimbed
<1>8. Undisturbed' => wire' = cache'
  BY <1>1, <1>2, Zenon DEF Undisturbed
<1> QED BY <1>1, <1>6, <1>7, <1>8 DEF Finishing

LEMMA PutFinishes ==
    ASSUME TasksConstants, RecordInv, Finishing, Put
    PROVE  Finishing'
<1> DEFINE t == job.task
           wish == job.edit
<1>1. /\ TasksTypeOK /\ job.pc = "put" /\ job # NoJob /\ job \in Working
      /\ t \in Task /\ wish \in Edit
  <2>1. TasksTypeOK /\ job.pc = "put" /\ job # NoJob /\ job \in Working
    BY NoStamps DEF RecordInv, Put
  <2> QED BY <2>1 DEF Working
<1>2. SUFFICES ASSUME job' # NoJob PROVE Finishing'
  BY DEF Finishing
<1>3. /\ Write(t, wish) /\ job' = [job EXCEPT !.pc = AfterPut(wish)]
      /\ foreign' = foreign
  BY <1>2 DEF Put, Goto
<1>4. /\ job'.pc = AfterPut(wish) /\ job'.task = t /\ job'.child = job.child
      /\ job'.closed = job.closed /\ job'.husks = job.husks /\ job'.calm = job.calm
  BY <1>1, <1>3 DEF Working
<1>5. AfterPut(wish) # "put"
  BY DEF AfterPut
<1>6. /\ job.husks = Husks /\ job.closed = {} /\ job.child = t
      /\ job.calm.foreign <= foreign
      /\ IsFiniteSet(job.closed) /\ Cardinality(job.closed) <= Depth
      /\ Undisturbed => wire = cache
  BY <1>1 DEF Finishing, NotClimbed, Bounded, t
<1>7. Undisturbed' <=> Undisturbed
  BY <1>3, <1>4 DEF Undisturbed
<1> HIDE DEF t, wish
<1>8. Undisturbed => wire' = cache'
  BY <1>1, <1>3, <1>6, WriteAgrees
<1>9. ASSUME job'.pc = "climb", Undisturbed
      PROVE  Climbed'
  <2>1. wish.field = "status" /\ wish.to \in Closed
    BY <1>4, <1>9 DEF AfterPut
  <2>2. cache' = [cache EXCEPT ![t] = [cache[t] EXCEPT !.status = wish.to]]
    BY <1>1, <1>3, <1>6, <1>9, <2>1, SettlingWrite
  <2>3. cache[t] # Gone
    BY <1>1, <1>3, <1>6, <1>9, WriteAgrees
  <2>4. /\ cache'[t] # Gone /\ cache'[t].status \in Closed
        /\ cache'[t].parent = cache[t].parent
        /\ Husks' \subseteq (Husks \ {t}) \cup {cache[t].parent}
    <3>1. HasTask(t)
      BY <2>3 DEF HasTask
    <3>2. /\ \A u \in Task : HasTask(u)' <=> HasTask(u)
          /\ \A u \in Task : HasTask(u) => cache'[u].parent = cache[u].parent
          /\ \A u \in Task : cache[u].status \in Closed =>
                  cache'[u].status \in Closed
          /\ cache'[t].status \in Closed
          /\ \A p : Children(p)' = Children(p)
          /\ Husks' \subseteq (Husks \ {t}) \cup {cache[t].parent}
      BY <1>1, <2>1, <2>2, <2>3, SettlesOne
    <3>3. cache'[t] # Gone
      BY <1>1, <3>1, <3>2 DEF HasTask
    <3> QED BY <1>1, <3>1, <3>2, <3>3
  <2>5. Above' = cache[t].parent
    <3>1. job'.child = t
      BY <1>4, <1>6
    <3>2. Above' = IF cache'[t] # Gone THEN cache'[t].parent ELSE None
      BY <3>1 DEF Above, HasTask
    <3> QED BY <2>4, <3>2
  <2>6. /\ job'.closed = {} /\ job'.task = t /\ job'.child = t /\ job'.husks = Husks
    BY <1>4, <1>6
  <2>7. /\ job'.child \in job'.closed \cup {job'.task}
        /\ \A p \in job'.closed : \A k \in Children(p)' :
                cache'[k].status \in Closed
    BY <2>6
  <2>8. \A p \in job'.closed \cup {job'.task} :
            HasTask(p)' /\ cache'[p].status \in Closed
    BY <2>4, <2>6 DEF HasTask
  <2>9. Husks' \ job'.husks \subseteq {Above'}
    BY <2>4, <2>5, <2>6
  <2> QED BY <2>7, <2>8, <2>9 DEF Climbed
<1>10. Bounded'
  BY <1>3, <1>4, <1>6 DEF Bounded
<1> QED BY <1>4, <1>5, <1>7, <1>8, <1>9, <1>10 DEF Finishing

\* What a climb closes is settled, and so is all that was in it.
LEMMA ClimbFinishes ==
    ASSUME TasksConstants, RecordInv, Finishing, Climb
    PROVE  Finishing'
<1>1. /\ TasksTypeOK /\ job.pc = "climb" /\ job # NoJob /\ job \in Working
  BY NoStamps DEF RecordInv, Climb
<1>2. SUFFICES ASSUME job' # NoJob PROVE Finishing'
  BY DEF Finishing
<1> DEFINE up == Above
<1>3. /\ ClosesNext /\ Write(up, Completed) /\ foreign' = foreign
      /\ job' = [job EXCEPT !.child = up, !.closed = @ \cup {up}]
  BY <1>2 DEF Climb
<1>4. /\ job'.pc = "climb" /\ job'.task = job.task /\ job'.child = up
      /\ job'.closed = job.closed \cup {up} /\ job'.husks = job.husks /\ job'.calm = job.calm
  BY <1>1, <1>3 DEF Working
<1>5. /\ Cardinality(job.closed) < Depth /\ up \in Task /\ up \notin job.closed
      /\ HasTask(up) /\ cache[up].status \notin Closed
      /\ \A k \in Children(up) : cache[k].status \in Closed
      /\ job.task \in Task /\ job.closed \subseteq Task
  <2>1. job.task \in Task /\ job.closed \subseteq Task
    BY <1>1 DEF Working
  <2> HIDE DEF Above
  <2>2. /\ Cardinality(job.closed) < Depth /\ up \in Task \ (job.closed \cup {job.task})
        /\ HasTask(up) /\ cache[up].status \notin Closed
        /\ \A k \in Children(up) : cache[k].status \in Closed
    BY <1>3 DEF ClosesNext, NothingLeft
  <2> QED BY <2>1, <2>2
<1> HIDE DEF up
<1>6. /\ job.calm.foreign <= foreign /\ (Undisturbed => wire = cache)
      /\ IsFiniteSet(job.closed)
      /\ Undisturbed =>
            /\ \A p \in job.closed \cup {job.task} :
                    HasTask(p) /\ cache[p].status \in Closed
            /\ \A p \in job.closed : \A k \in Children(p) :
                    cache[k].status \in Closed
            /\ Husks \ job.husks \subseteq {up}
  <2>1. Bounded /\ (Undisturbed => wire = cache) /\ (Undisturbed => Climbed)
    BY <1>1 DEF Finishing
  <2>2. job.calm.foreign <= foreign /\ IsFiniteSet(job.closed)
    BY <2>1 DEF Bounded
  <2>3. Climbed => Husks \ job.husks \subseteq {up}
    BY DEF Climbed, up
  <2>4. Climbed =>
            /\ \A p \in job.closed \cup {job.task} :
                    HasTask(p) /\ cache[p].status \in Closed
            /\ \A p \in job.closed : \A k \in Children(p) :
                    cache[k].status \in Closed
    BY Zenon DEF Climbed
  <2> QED BY <2>1, <2>2, <2>3, <2>4
<1>7. IsFiniteSet(job'.closed) /\ Cardinality(job'.closed) <= Depth
  <2>1. /\ IsFiniteSet(job'.closed) /\ Cardinality(job'.closed) = Cardinality(job.closed) + 1
    BY <1>4, <1>5, <1>6, FS_AddElement, SMTT(20)
  <2>2. Cardinality(job.closed) \in Nat /\ Depth \in Nat
    BY <1>6, FS_CardinalityType DEF TasksConstants
  <2> QED BY <1>5, <2>1, <2>2
<1>8. Undisturbed' <=> Undisturbed
  BY <1>3, <1>4 DEF Undisturbed
<1>9. ASSUME Undisturbed
      PROVE  /\ wire' = cache'
             /\ \A p \in job'.closed \cup {job.task} :
                    HasTask(p)' /\ cache'[p].status \in Closed
             /\ \A p \in job'.closed : \A k \in Children(p)' :
                    cache'[k].status \in Closed
             /\ Husks' \ job.husks \subseteq {Above'}
  <2>1. wire' = cache' /\ cache[up] # Gone
    BY <1>1, <1>3, <1>5, <1>6, <1>9, WriteAgrees
  <2>2. Completed.field = "status" /\ Completed.to \in Closed
    BY DEF Completed, Closed
  <2>3. cache' = [cache EXCEPT ![up] = [cache[up] EXCEPT !.status = Completed.to]]
    BY <1>1, <1>3, <1>5, <1>6, <1>9, <2>2, SettlingWrite
  <2>4. /\ \A u \in Task : HasTask(u)' <=> HasTask(u)
        /\ \A u \in Task : HasTask(u) => cache'[u].parent = cache[u].parent
        /\ \A u \in Task : cache[u].status \in Closed =>
                cache'[u].status \in Closed
        /\ cache'[up].status \in Closed
        /\ \A p : Children(p)' = Children(p)
        /\ Husks' \subseteq (Husks \ {up}) \cup {cache[up].parent}
    BY <1>1, <1>5, <2>1, <2>2, <2>3, SettlesOne
  <2>5. Above' = cache[up].parent
    BY <1>4, <1>5, <2>4 DEF Above
  <2>6. \A p \in job'.closed \cup {job.task} :
            HasTask(p)' /\ cache'[p].status \in Closed
    BY <1>4, <1>5, <1>6, <1>9, <2>4
  <2>7. \A p \in job'.closed : \A k \in Children(p)' : cache'[k].status \in Closed
    <3> SUFFICES ASSUME NEW p \in job'.closed, NEW k \in Children(p)
                 PROVE  cache'[k].status \in Closed
      BY <2>4
    <3>1. k \in Task
      BY DEF Children
    <3>2. cache[k].status \in Closed
      BY <1>4, <1>5, <1>6, <1>9
    <3> QED BY <2>4, <3>1, <3>2
  <2>8. Husks' \ job.husks \subseteq {Above'}
    BY <1>6, <1>9, <2>4, <2>5
  <2> QED BY <2>1, <2>6, <2>7, <2>8
<1>10. Bounded'
  BY <1>3, <1>4, <1>6, <1>7 DEF Bounded
<1>11. Undisturbed => Climbed'
  BY <1>4, <1>9 DEF Climbed
<1>12. Undisturbed => wire' = cache'
  BY <1>9
<1> QED BY <1>4, <1>8, <1>10, <1>11, <1>12 DEF Finishing

LEMMA OthersFinish ==
    ASSUME RecordInv, Finishing,
           \/ job' = NoJob \/ StampDue
           \/ \E t \in Task : Foreign(t)
           \/ UNCHANGED <<wire, cache, job, foreign>>
    PROVE  Finishing'
<1>1. CASE job' = NoJob
  BY <1>1 DEF Finishing
<1>2. CASE StampDue
  <2>1. job # NoJob /\ job \in Working
    BY <1>2, NoStamps DEF RecordInv, StampDue
  <2>2. /\ UNCHANGED <<wire, cache, foreign>> /\ job' = [job EXCEPT !.pc = "stamp_moved"]
    BY <1>2 DEF StampDue
  <2>3. /\ job'.pc = "stamp_moved" /\ job'.closed = job.closed /\ job'.calm = job.calm
    BY <2>1, <2>2 DEF Working
  <2> QED BY <2>1, <2>2, <2>3 DEF Finishing, Undisturbed, Bounded
<1>3. CASE \E t \in Task : Foreign(t)
  <2>1. foreign' = foreign + 1 /\ UNCHANGED <<cache, job>>
    BY <1>3 DEF Foreign
  <2>2. foreign \in Nat
    BY DEF RecordInv, TasksTypeOK
  <2>3. job # NoJob => job.calm.foreign \in Nat
    <3>1. job # NoJob => job \in Working
      BY NoStamps DEF RecordInv
    <3> QED BY <3>1 DEF Working
  <2>4. job # NoJob => job.calm.foreign <= foreign' /\ ~Undisturbed'
    BY <2>1, <2>2, <2>3 DEF Finishing, Undisturbed, Bounded
  <2>5. Husks' = Husks
    BY <2>1 DEF Husks, HasTask, Children
  <2>6. NotClimbed => NotClimbed'
    BY <2>1, <2>5 DEF NotClimbed
  <2>7. job # NoJob /\ Bounded => Bounded'
    BY <2>1, <2>4 DEF Bounded
  <2> QED BY <2>1, <2>4, <2>6, <2>7 DEF Finishing
<1>4. CASE UNCHANGED <<wire, cache, job, foreign>>
  <2>1. Husks' = Husks /\ Above' = Above
        /\ (Undisturbed' <=> Undisturbed)
    BY <1>4 DEF Husks, HasTask, Children, Above, Undisturbed
  <2>2. (Bounded' <=> Bounded) /\ (NotClimbed' <=> NotClimbed)
    BY <1>4, <2>1 DEF Bounded, NotClimbed
  <2>3. Climbed => Climbed'
    BY <1>4, <2>1 DEF Climbed, HasTask, Children
  <2> QED BY <1>4, <2>1, <2>2, <2>3 DEF Finishing
<1> QED BY <1>1, <1>2, <1>3, <1>4

LEMMA FinishingStep ==
    ASSUME TasksConstants, ParentInv, [TasksNext]_tasksVars
    PROVE  ParentInv'
<1>1. RecordInv /\ Finishing /\ faults \in Nat
  BY DEF ParentInv
<1>2. ASSUME \E t \in Task : \E e \in EditsOf(t) : EditTask(t, e)
      PROVE  Finishing'
  <2>1. PICK t \in Task : \E e \in EditsOf(t) : EditTask(t, e)
    BY <1>2, Zenon
  <2>2. PICK e \in EditsOf(t) : EditTask(t, e)
    BY <2>1, Zenon
  <2>3. Begin(t, e)
    BY <2>2, Zenon DEF EditTask
  <2> QED BY <1>1, <2>3, BeginFinishes
<1>3. ASSUME EditParent PROVE Finishing'
  <2>1. ask.task \in Task
    <3>1. ask \in Asking \cup {NoAsk}
      BY <1>1 DEF RecordInv, TasksTypeOK
    <3> QED BY <1>3, <3>1 DEF EditParent, Asking, NoAsk
  <2>2. PICK t \in Task, e \in {[field |-> "parent", to |-> ask.to]} : Begin(t, e)
    BY <1>3, <2>1, Zenon DEF EditParent
  <2> QED BY <1>1, <2>2, BeginFinishes
<1>4. Finishing'
  BY <1>1, <1>2, <1>3, StepKinds, PutFinishes, ClimbFinishes, OthersFinish, Zenon
<1> QED BY <1>1, <1>4, EditsStep, FaultsCount DEF ParentInv

\* As long as nobody else writes to the list, all that a climb has closed is settled
\* with all that was in it, and a parent it has left open with nothing in it is the
\* one it looks at next (service.py, _close_finished_parents).
THEOREM FinishingInductive ==
    TasksSpec => []ParentInv
<1>1. TasksInit => ParentInv
  BY EditsInit, TaskAssumption DEF TasksInit, ParentInv, Finishing
<1>2. ParentInv /\ [TasksNext]_tasksVars => ParentInv'
  BY FinishingStep, TaskAssumption
<1> QED BY <1>1, <1>2, PTL DEF TasksSpec

\* A request that settles a task leaves no parent open that it finished, however far
\* up, and finishes only what has nothing left in it: as far as Depth, when nothing
\* fails, and when nobody else writes to the list meanwhile.
THEOREM ParentsAreClosed ==
    TasksSpec => FinishedParentsClose
<1> DEFINE Closing ==
        job.pc = "climb" /\ job' = NoJob /\ faults' = faults /\ Undisturbed =>
            /\ Husks' \ job.husks # {} => Cardinality(job.closed) = Depth
            /\ \A p \in job.closed : \A k \in Children(p) :
                    wire[k].status \in Closed
<1>1. ASSUME ParentInv, [TasksNext]_tasksVars PROVE Closing
  <2> SUFFICES ASSUME job.pc = "climb", job' = NoJob, faults' = faults, Undisturbed
               PROVE  /\ Husks' \ job.husks # {} => Cardinality(job.closed) = Depth
                      /\ \A p \in job.closed : \A k \in Children(p) :
                            wire[k].status \in Closed
    OBVIOUS
  <2>1. /\ TasksTypeOK /\ job # NoJob /\ job \in Working /\ faults \in Nat
    BY <1>1, NoStamps DEF ParentInv, RecordInv
  <2>2. /\ wire = cache /\ IsFiniteSet(job.closed) /\ Cardinality(job.closed) <= Depth
        /\ \A p \in job.closed \cup {job.task} :
                HasTask(p) /\ cache[p].status \in Closed
        /\ \A p \in job.closed : \A k \in Children(p) : cache[k].status \in Closed
        /\ Husks \ job.husks \subseteq {Above}
    <3>1. Bounded /\ wire = cache /\ Climbed
      BY <1>1, <2>1 DEF ParentInv, Finishing
    <3>2. IsFiniteSet(job.closed) /\ Cardinality(job.closed) <= Depth
      BY <3>1 DEF Bounded
    <3> QED BY <3>1, <3>2, Zenon DEF Climbed
  <2>3. Climb
    <3>1. faults' # faults + 1
      BY <2>1
    <3>2. ~Idle /\ ~Crash
      BY <2>1, <3>1 DEF Idle, Crash, Fault
    <3>3. job' # job
      BY <2>1
    <3> QED BY <1>1, <3>2, <3>3, ClimbEnds
  <2>4. ~ClosesNext /\ UNCHANGED cache
    <3>1. ASSUME ClosesNext PROVE FALSE
      <4>1. Above \in Task /\ cache[Above] # Gone
        BY <3>1 DEF ClosesNext, HasTask
      <4>2. WriteFails(Above, Completed)
        <5>1. job' # [job EXCEPT !.child = Above, !.closed = @ \cup {Above}]
          <6>1. [job EXCEPT !.child = Above, !.closed = @ \cup {Above}].pc = "climb"
            BY <2>1 DEF Working
          <6> QED BY <6>1 DEF NoJob
        <5> QED BY <2>3, <3>1, <5>1 DEF Climb
      <4>3. Fault
        BY <2>2, <4>1, <4>2 DEF WriteFails
      <4> QED BY <2>1, <4>3 DEF Fault
    <3> QED BY <2>3, <3>1 DEF Climb
  <2>5. Husks' = Husks
    BY <2>4 DEF Husks, HasTask, Children
  <2>6. ASSUME NEW h \in Husks \ job.husks PROVE Cardinality(job.closed) = Depth
    <3>1. h = Above
      BY <2>2
    <3>2. /\ h \in Task /\ HasTask(h) /\ cache[h].status \notin Closed
          /\ NothingLeft(h)
      BY DEF Husks, NothingLeft
    <3>3. h \notin job.closed \cup {job.task}
      BY <2>2, <3>2
    <3>4. ~(Cardinality(job.closed) < Depth)
      <4> SUFFICES ASSUME Cardinality(job.closed) < Depth PROVE FALSE
        OBVIOUS
      <4>1. Above \in Task \ (job.closed \cup {job.task})
        BY <3>1, <3>2, <3>3
      <4> QED BY <2>4, <3>1, <3>2, <4>1, Zenon DEF ClosesNext
    <3>5. Cardinality(job.closed) \in Nat /\ Depth \in Nat
      BY <2>2, FS_CardinalityType, TaskAssumption DEF TasksConstants
    <3> QED BY <2>2, <3>4, <3>5
  <2> QED BY <2>2, <2>5, <2>6
<1>2. ParentInv /\ [TasksNext]_tasksVars => [Closing]_tasksVars
  BY <1>1
<1> QED BY <1>2, FinishingInductive, PTL DEF TasksSpec, FinishedParentsClose

=============================================================================
