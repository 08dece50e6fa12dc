----------------------------- MODULE Recursion -----------------------------
(***************************************************************************)
(* Induction over the natural numbers without an operator parameter: what  *)
(* is to be shown of a number is that it belongs to a set.  From it, that  *)
(* functions defined by recursion over Nat exist and satisfy their         *)
(* equations, and that a growing sequence of subsets of a finite set       *)
(* stands still after as many steps as the set has elements.               *)
(***************************************************************************)
EXTENDS Integers, WellFoundedInduction, FiniteSetTheorems, TLAPS

LessThan == {r \in Nat \X Nat : r[1] < r[2]}

\* Less-than as a set of pairs is well-founded.
LEMMA LessThanWellFounded == IsWellFoundedOn(LessThan, Nat)
<1>1. OpToRel(<, Nat) = LessThan
  BY DEF OpToRel, LessThan
<1> QED BY <1>1, NatLessThanWellFounded

\* A nonempty set of numbers has a smallest element.
LEMMA SmallestNumber ==
  ASSUME NEW T \in SUBSET Nat, T # {}
  PROVE  \E x \in T : \A y \in T : x <= y
<1>1. PICK x \in T : \A y \in T : ~ (<<y, x>> \in LessThan)
  BY LessThanWellFounded, WFMin
<1>2. \A y \in T : x \in Nat /\ y \in Nat
  OBVIOUS
<1>3. \A y \in T : ~ (y < x)
  BY <1>1, <1>2 DEF LessThan
<1> QED BY <1>2, <1>3

\* Induction.
LEMMA Induction ==
  ASSUME NEW S, 0 \in S, \A n \in Nat : n \in S => n + 1 \in S
  PROVE  Nat \subseteq S
<1> SUFFICES ASSUME Nat \ S # {} PROVE FALSE
  OBVIOUS
<1>1. PICK x \in Nat \ S : \A y \in Nat \ S : x <= y
  BY SmallestNumber
<1>2. x - 1 \in Nat /\ x - 1 \in S
  BY <1>1
<1> QED BY <1>1, <1>2

----------------------------------------------------------------------------
(* Functions defined by recursion: a value at 0, and a function from each  *)
(* value to the next.                                                      *)

\* h is the function up to n.
UpTo(h, n, start, next) ==
  /\ h[0] = start
  /\ \A i \in Nat : i < n => h[i + 1] = next[h[i]]

Sequence(start, next) ==
  CHOOSE f : f = [n \in Nat |-> IF n = 0 THEN start ELSE next[f[n - 1]]]

\* Two functions that agree on how they begin agree.
LEMMA UpToUnique ==
  ASSUME NEW start, NEW next, NEW n \in Nat, NEW g, NEW h,
         UpTo(g, n, start, next), UpTo(h, n, start, next)
  PROVE  g[n] = h[n]
<1> DEFINE S == {i \in Nat : i <= n => g[i] = h[i]}
<1>1. 0 \in S
  BY DEF UpTo
<1>2. ASSUME NEW i \in Nat, i \in S PROVE i + 1 \in S
  BY <1>2 DEF UpTo
<1>3. Nat \subseteq S
  <2> HIDE DEF S
  <2> QED BY <1>1, <1>2, Induction
<1> QED BY <1>3

\* There is such a function, of any length.
LEMMA UpToExists ==
  ASSUME NEW T, NEW start \in T, NEW next \in [T -> T], NEW n \in Nat
  PROVE  \E h \in [Nat -> T] : UpTo(h, n, start, next)
<1> DEFINE S == {i \in Nat : \E h \in [Nat -> T] : UpTo(h, i, start, next)}
<1>1. 0 \in S
  <2>1. UpTo([i \in Nat |-> start], 0, start, next)
    BY DEF UpTo
  <2> QED BY <2>1
<1>2. ASSUME NEW i \in Nat, i \in S PROVE i + 1 \in S
  <2>1. PICK h \in [Nat -> T] : UpTo(h, i, start, next)
    BY <1>2
  <2> DEFINE h2 == [j \in Nat |-> IF j = i + 1 THEN next[h[i]] ELSE h[j]]
  <2>2. h2 \in [Nat -> T]
    OBVIOUS
  <2>3. UpTo(h2, i + 1, start, next)
    BY <2>1 DEF UpTo
  <2> QED BY <2>2, <2>3
<1>3. Nat \subseteq S
  <2> HIDE DEF S
  <2> QED BY <1>1, <1>2, Induction
<1> QED BY <1>3

\* The recursive function satisfies its equations.
LEMMA SequenceFacts ==
  ASSUME NEW T, NEW start \in T, NEW next \in [T -> T]
  PROVE  /\ Sequence(start, next) \in [Nat -> T]
         /\ Sequence(start, next)[0] = start
         /\ \A n \in Nat : Sequence(start, next)[n + 1] = next[Sequence(start, next)[n]]
<1> DEFINE H(n) == CHOOSE h \in [Nat -> T] : UpTo(h, n, start, next)
           f == [n \in Nat |-> H(n)[n]]
<1>1. ASSUME NEW n \in Nat
      PROVE  H(n) \in [Nat -> T] /\ UpTo(H(n), n, start, next)
  BY UpToExists
<1> HIDE DEF H
<1>2. f \in [Nat -> T]
  BY <1>1
<1>3. f[0] = start
  BY <1>1 DEF UpTo
<1>4. ASSUME NEW n \in Nat PROVE f[n + 1] = next[f[n]]
  <2>1. UpTo(H(n + 1), n + 1, start, next)
    BY <1>1
  <2>2. UpTo(H(n + 1), n, start, next) /\ H(n + 1)[n + 1] = next[H(n + 1)[n]]
    BY <2>1 DEF UpTo
  <2>3. UpTo(H(n), n, start, next)
    BY <1>1
  <2>4. H(n + 1)[n] = H(n)[n]
    BY <2>2, <2>3, UpToUnique
  <2> QED BY <2>2, <2>4
<1> HIDE DEF f
<1>5. f = [n \in Nat |-> IF n = 0 THEN start ELSE next[f[n - 1]]]
  <2>1. ASSUME NEW n \in Nat
        PROVE  f[n] = IF n = 0 THEN start ELSE next[f[n - 1]]
    <3>1. CASE n = 0
      BY <1>3, <3>1
    <3>2. CASE n # 0
      <4>1. n - 1 \in Nat /\ (n - 1) + 1 = n
        BY <3>2
      <4> QED BY <1>4, <3>2, <4>1
    <3> QED BY <3>1, <3>2
  <2> QED BY <1>2, <2>1
<1> DEFINE s == Sequence(start, next)
<1>6. s = [n \in Nat |-> IF n = 0 THEN start ELSE next[s[n - 1]]]
  BY <1>5 DEF Sequence
<1> HIDE DEF s
<1>7. s[0] = start /\ \A n \in Nat : s[n + 1] = next[s[n]]
  <2>1. s[0] = start
    BY <1>6
  <2>2. ASSUME NEW n \in Nat PROVE s[n + 1] = next[s[n]]
    <3>1. n + 1 \in Nat /\ n + 1 # 0 /\ (n + 1) - 1 = n
      OBVIOUS
    <3> QED BY <1>6, <3>1
  <2> QED BY <2>1, <2>2
<1>8. \A n \in Nat : s[n] \in T
  <2> DEFINE S == {n \in Nat : s[n] \in T}
  <2>1. 0 \in S
    BY <1>7
  <2>2. \A n \in Nat : n \in S => n + 1 \in S
    BY <1>7
  <2> HIDE DEF S
  <2>3. Nat \subseteq S
    BY <2>1, <2>2, Induction
  <2> QED BY <2>3 DEF S
<1>9. s \in [Nat -> T]
  <2>1. s = [n \in Nat |-> s[n]]
    BY <1>6
  <2> QED BY <1>8, <2>1
<1> QED BY <1>7, <1>9 DEF s

----------------------------------------------------------------------------
\* A finite set that grew is larger.
LEMMA LargerSet ==
  ASSUME NEW B, IsFiniteSet(B), NEW A \in SUBSET B, A # B
  PROVE  /\ Cardinality(A) \in Nat /\ Cardinality(B) \in Nat
         /\ Cardinality(A) + 1 <= Cardinality(B)
<1>1. /\ IsFiniteSet(A) /\ Cardinality(A) <= Cardinality(B)
      /\ Cardinality(B) # Cardinality(A)
  BY FS_Subset
<1>2. Cardinality(A) \in Nat /\ Cardinality(B) \in Nat
  BY <1>1, FS_CardinalityType
<1> QED BY <1>1, <1>2

\* A sequence of ever larger subsets of U, in which a set that repeats goes
\* on repeating, stands still after Cardinality(U) steps.
LEMMA StandsStill ==
  ASSUME NEW U, IsFiniteSet(U), NEW f \in [Nat -> SUBSET U],
         \A n \in Nat : f[n] \subseteq f[n + 1],
         \A n \in Nat : f[n + 1] = f[n] => f[n + 2] = f[n + 1]
  PROVE  f[Cardinality(U) + 1] = f[Cardinality(U)]
<1> DEFINE N == Cardinality(U)
           S == {n \in Nat : f[n + 1] # f[n] => n + 1 <= Cardinality(f[n + 1])}
<1>1. N \in Nat
  BY FS_CardinalityType
<1>2. ASSUME NEW n \in Nat
      PROVE  /\ IsFiniteSet(f[n]) /\ Cardinality(f[n]) \in Nat
             /\ Cardinality(f[n]) <= N
             /\ f[n + 1] # f[n] => Cardinality(f[n]) + 1 <= Cardinality(f[n + 1])
  <2>1. f[n] \in SUBSET U /\ f[n + 1] \in SUBSET U
    OBVIOUS
  <2>2. IsFiniteSet(f[n]) /\ IsFiniteSet(f[n + 1]) /\ Cardinality(f[n]) <= N
    BY <2>1, FS_Subset
  <2>3. Cardinality(f[n]) \in Nat
    BY <2>2, FS_CardinalityType
  <2>4. f[n + 1] # f[n] => Cardinality(f[n]) + 1 <= Cardinality(f[n + 1])
    BY <2>2, LargerSet
  <2> QED BY <2>2, <2>3, <2>4
<1>3. 0 \in S
  <2>1. Cardinality(f[0]) \in Nat /\
        (f[0 + 1] # f[0] => Cardinality(f[0]) + 1 <= Cardinality(f[0 + 1]))
    BY <1>2
  <2>2. Cardinality(f[0 + 1]) \in Nat
    BY <1>2
  <2> QED BY <2>1, <2>2
<1>4. ASSUME NEW n \in Nat, n \in S PROVE n + 1 \in S
  <2> SUFFICES ASSUME f[n + 2] # f[n + 1]
               PROVE  n + 2 <= Cardinality(f[n + 2])
    BY SMT
  <2>1. f[n + 1] # f[n]
    OBVIOUS
  <2>2. n + 1 <= Cardinality(f[n + 1])
    BY <1>4, <2>1
  <2>3. /\ Cardinality(f[n + 1]) \in Nat
        /\ f[(n + 1) + 1] # f[n + 1] =>
             Cardinality(f[n + 1]) + 1 <= Cardinality(f[(n + 1) + 1])
    BY <1>2
  <2>4. (n + 1) + 1 = n + 2 /\ Cardinality(f[n + 2]) \in Nat
    BY <1>2
  <2> QED BY <2>2, <2>3, <2>4
<1>5. Nat \subseteq S
  <2> HIDE DEF S
  <2> QED BY <1>3, <1>4, Induction
<1> SUFFICES ASSUME f[N + 1] # f[N] PROVE FALSE
  OBVIOUS
<1>6. N + 1 <= Cardinality(f[N + 1])
  BY <1>1, <1>5
<1>7. Cardinality(f[N + 1]) \in Nat /\ Cardinality(f[N + 1]) <= N
  BY <1>1, <1>2
<1> QED BY <1>1, <1>6, <1>7
----------------------------------------------------------------------------
(* Functions defined by recursion over the subsets of a finite set, that   *)
(* walk from a set to the next until the next is the same.                 *)

\* Sets that only grow or only shrink from one to the next.
OneWay(next, U) == \/ \A N \in SUBSET U : N \subseteq next[N]
                   \/ \A N \in SUBSET U : next[N] \subseteq N

\* Where the walk ends.
WalkEnd(N, next, U) == Sequence(N, next)[Cardinality(U)]

\* h is the function that walks.
Walks(h, next, U) == h = [N \in SUBSET U |-> IF next[N] = N THEN N ELSE h[next[N]]]

\* No walk leaves the set of sets I.
Stays(I, next, U) == I \in SUBSET SUBSET U /\ \A M \in I : next[M] \in I

\* A set that repeats goes on repeating.
LEMMA SequenceRepeats ==
  ASSUME NEW T, NEW start \in T, NEW next \in [T -> T], next[start] = start,
         NEW n \in Nat
  PROVE  Sequence(start, next)[n] = start
<1> DEFINE s == Sequence(start, next)
           S == {i \in Nat : s[i] = start}
<1>1. s[0] = start /\ \A i \in Nat : s[i + 1] = next[s[i]]
  BY SequenceFacts
<1> HIDE DEF s
<1>2. 0 \in S /\ \A i \in Nat : i \in S => i + 1 \in S
  BY <1>1
<1>3. Nat \subseteq S
  <2> HIDE DEF S
  <2> QED BY <1>2, Induction
<1> QED BY <1>3 DEF s

\* A walk from the second set is one step ahead of that from the first.
LEMMA SequenceShifts ==
  ASSUME NEW T, NEW start \in T, NEW next \in [T -> T], NEW n \in Nat
  PROVE  Sequence(next[start], next)[n] = Sequence(start, next)[n + 1]
<1> DEFINE s == Sequence(start, next)
           r == Sequence(next[start], next)
           S == {i \in Nat : r[i] = s[i + 1]}
<1>1. s[0] = start /\ \A i \in Nat : s[i + 1] = next[s[i]]
  BY SequenceFacts
<1>2. r[0] = next[start] /\ \A i \in Nat : r[i + 1] = next[r[i]]
  BY SequenceFacts
<1> HIDE DEF s, r
<1>3. 0 \in S
  BY <1>1, <1>2
<1>4. ASSUME NEW i \in Nat, i \in S PROVE i + 1 \in S
  <2>1. i + 1 \in Nat
    OBVIOUS
  <2> QED BY <1>1, <1>2, <1>4, <2>1
<1>5. Nat \subseteq S
  <2> HIDE DEF S
  <2> QED BY <1>3, <1>4, Induction
<1> QED BY <1>5 DEF s, r

\* The walk has come to its end after as many steps as the set has elements.
LEMMA WalkEnds ==
  ASSUME NEW U, IsFiniteSet(U), NEW next \in [SUBSET U -> SUBSET U], OneWay(next, U),
         NEW N \in SUBSET U
  PROVE  /\ WalkEnd(N, next, U) \in SUBSET U
         /\ next[WalkEnd(N, next, U)] = WalkEnd(N, next, U)
         /\ Sequence(N, next)[Cardinality(U) + 1] = WalkEnd(N, next, U)
<1> DEFINE s == Sequence(N, next)
           c == Cardinality(U)
<1>1. c \in Nat
  BY FS_CardinalityType
<1>2. s \in [Nat -> SUBSET U] /\ \A i \in Nat : s[i + 1] = next[s[i]]
  <2> DEFINE T == SUBSET U
  <2>1. N \in T /\ next \in [T -> T]
    OBVIOUS
  <2> HIDE DEF T
  <2>2. s \in [Nat -> T] /\ \A i \in Nat : s[i + 1] = next[s[i]]
    BY <2>1, SequenceFacts
  <2> QED BY <2>2 DEF T
<1> HIDE DEF s
<1>3. \A n \in Nat : s[n + 1] = s[n] => s[n + 2] = s[n + 1]
  <2> SUFFICES ASSUME NEW n \in Nat, s[n + 1] = s[n] PROVE s[n + 2] = s[n + 1]
    OBVIOUS
  <2>1. n + 1 \in Nat /\ (n + 1) + 1 = n + 2
    OBVIOUS
  <2>2. s[(n + 1) + 1] = next[s[n + 1]] /\ s[n + 1] = next[s[n]]
    BY <1>2, <2>1
  <2> QED BY <2>1, <2>2
<1>4. s[c + 1] = s[c]
  <2>1. CASE \A M \in SUBSET U : M \subseteq next[M]
    <3>1. \A n \in Nat : s[n] \subseteq s[n + 1]
      BY <1>2, <2>1
    <3> QED BY <1>2, <1>3, <3>1, StandsStill
  <2>2. CASE \A M \in SUBSET U : next[M] \subseteq M
    <3> DEFINE f == [n \in Nat |-> U \ s[n]]
    <3>1. f \in [Nat -> SUBSET U]
      OBVIOUS
    <3>2. \A n \in Nat : s[n] \in SUBSET U /\ s[n + 1] \subseteq s[n]
      BY <1>2, <2>2
    <3>3. \A n \in Nat : n + 1 \in Nat /\ n + 2 \in Nat
      OBVIOUS
    <3>4. \A n \in Nat : f[n] = U \ s[n]
      OBVIOUS
    <3> HIDE DEF f
    <3>5. \A n \in Nat : f[n] \subseteq f[n + 1]
      BY <3>2, <3>3, <3>4
    <3>6. \A n \in Nat : f[n + 1] = f[n] => f[n + 2] = f[n + 1]
      <4> SUFFICES ASSUME NEW n \in Nat, f[n + 1] = f[n] PROVE f[n + 2] = f[n + 1]
        OBVIOUS
      <4>1. s[n + 1] = s[n]
        BY <3>2, <3>3, <3>4, ZenonT(60)
      <4>2. s[n + 2] = s[n + 1]
        BY <1>3, <4>1
      <4> QED BY <3>3, <3>4, <4>2
    <3>7. f[c + 1] = f[c]
      BY <3>1, <3>5, <3>6, StandsStill
    <3>8. c + 1 \in Nat
      BY <1>1
    <3>9. s[c] \in SUBSET U /\ s[c + 1] \in SUBSET U
      BY <1>1, <3>2, <3>8
    <3>10. f[c] = U \ s[c] /\ f[c + 1] = U \ s[c + 1]
      BY <1>1, <3>4, <3>8
    <3> QED BY <3>7, <3>9, <3>10
  <2> QED BY <2>1, <2>2 DEF OneWay
<1>5. s[c] \in SUBSET U /\ next[s[c]] = s[c]
  BY <1>1, <1>2, <1>4
<1> QED BY <1>4, <1>5 DEF WalkEnd, s

\* The recursive function exists ...
LEMMA WalkExists ==
  ASSUME NEW U, IsFiniteSet(U), NEW next \in [SUBSET U -> SUBSET U], OneWay(next, U)
  PROVE  \E h : Walks(h, next, U)
<1> DEFINE h == [N \in SUBSET U |-> WalkEnd(N, next, U)]
<1>1. ASSUME NEW N \in SUBSET U
      PROVE  h[N] = IF next[N] = N THEN N ELSE h[next[N]]
  <2>1. Cardinality(U) \in Nat
    BY FS_CardinalityType
  <2>2. CASE next[N] = N
    BY <2>1, <2>2, SequenceRepeats DEF WalkEnd
  <2>3. CASE next[N] # N
    <3>1. next[N] \in SUBSET U
      OBVIOUS
    <3>2. WalkEnd(next[N], next, U) = Sequence(N, next)[Cardinality(U) + 1]
      BY <2>1, SequenceShifts DEF WalkEnd
    <3> QED BY <2>3, <3>1, <3>2, WalkEnds
  <2> QED BY <2>2, <2>3
<1>2. h = [N \in SUBSET U |-> IF next[N] = N THEN N ELSE h[next[N]]]
  <2>1. h = [N \in SUBSET U |-> h[N]]
    OBVIOUS
  <2> HIDE DEF h
  <2> QED BY <1>1, <2>1
<1> QED BY <1>2 DEF Walks

\* ... and gives the end of the walk: a set that stays the same, and that is
\* in a set of sets the walk starts in and does not leave.
LEMMA WalkFacts ==
  ASSUME NEW U, IsFiniteSet(U), NEW next \in [SUBSET U -> SUBSET U], OneWay(next, U),
         NEW h, Walks(h, next, U),
         NEW I, Stays(I, next, U), NEW N \in I
  PROVE  h[N] \in I /\ next[h[N]] = h[N]
<1> DEFINE s == Sequence(N, next)
           c == Cardinality(U)
<1>1. c \in Nat /\ N \in SUBSET U
  BY FS_CardinalityType DEF Stays
<1>2. s \in [Nat -> SUBSET U] /\ s[0] = N /\ \A i \in Nat : s[i + 1] = next[s[i]]
  <2> DEFINE T == SUBSET U
  <2>1. N \in T /\ next \in [T -> T]
    BY <1>1
  <2> HIDE DEF T
  <2>2. s \in [Nat -> T] /\ s[0] = N /\ \A i \in Nat : s[i + 1] = next[s[i]]
    BY <2>1, SequenceFacts
  <2> QED BY <2>2 DEF T
<1>3. s[c] \in SUBSET U /\ next[s[c]] = s[c]
  BY <1>1, WalkEnds DEF WalkEnd
<1> HIDE DEF s, c
<1>4. \A M \in SUBSET U : h[M] = IF next[M] = M THEN M ELSE h[next[M]]
  <2> DEFINE body(M) == IF next[M] = M THEN M ELSE h[next[M]]
  <2>1. h = [M \in SUBSET U |-> body(M)]
    BY DEF Walks
  <2> HIDE DEF body
  <2>2. \A M \in SUBSET U : h[M] = body(M)
    BY <2>1
  <2> QED BY <2>2 DEF body
<1>5. h[s[c]] = h[N]
  <2> DEFINE S == {i \in Nat : h[s[i]] = h[N]}
  <2>1. 0 \in S
    BY <1>2
  <2>2. ASSUME NEW i \in Nat, i \in S PROVE i + 1 \in S
    <3>1. s[i] \in SUBSET U /\ s[i + 1] = next[s[i]]
      BY <1>2
    <3>2. h[s[i]] = h[s[i + 1]]
      BY <1>4, <3>1
    <3> QED BY <2>2, <3>2
  <2>3. Nat \subseteq S
    <3> HIDE DEF S
    <3> QED BY <2>1, <2>2, Induction
  <2> QED BY <1>1, <2>3
<1>6. h[N] = s[c]
  BY <1>3, <1>4, <1>5
<1>7. s[c] \in I
  <2> DEFINE S == {i \in Nat : s[i] \in I}
  <2>1. 0 \in S /\ \A i \in Nat : i \in S => i + 1 \in S
    BY <1>2 DEF Stays
  <2>2. Nat \subseteq S
    <3> HIDE DEF S
    <3> QED BY <2>1, Induction
  <2> QED BY <1>1, <2>2
<1> QED BY <1>3, <1>6, <1>7
----------------------------------------------------------------------------
\* A function on 0 .. n from a value at 0, and a step from each place and
\* value to the next value.
Steps(f, n, base, step) ==
  f[0] = base /\ \A i \in 1 .. n : f[i] = step[<<f[i - 1], i>>]

LEMMA StepsExist ==
  ASSUME NEW V, NEW base \in V, NEW n \in Nat, NEW step \in [V \X (1 .. n) -> V]
  PROVE  \E f \in [0 .. n -> V] : Steps(f, n, base, step)
<1> DEFINE S == {k \in Nat : k <= n => \E f \in [0 .. n -> V] : Steps(f, k, base, step)}
<1>1. 0 \in S
  <2>1. Steps([i \in 0 .. n |-> base], 0, base, step)
    BY DEF Steps
  <2> QED BY <2>1
<1>2. ASSUME NEW k \in Nat, k \in S PROVE k + 1 \in S
  <2> SUFFICES ASSUME k + 1 <= n
               PROVE  \E f \in [0 .. n -> V] : Steps(f, k + 1, base, step)
    OBVIOUS
  <2>1. PICK f \in [0 .. n -> V] : Steps(f, k, base, step)
    BY <1>2
  <2> DEFINE v == step[<<f[k], k + 1>>]
             g == [f EXCEPT ![k + 1] = v]
  <2>2. v \in V
    OBVIOUS
  <2> HIDE DEF v
  <2>3. g \in [0 .. n -> V] /\ g[k + 1] = v /\ \A i \in 0 .. k : g[i] = f[i]
    BY <2>2
  <2> HIDE DEF g
  <2>4. Steps(g, k + 1, base, step)
    <3>1. g[0] = base
      BY <2>1, <2>3 DEF Steps
    <3>2. ASSUME NEW i \in 1 .. k + 1 PROVE g[i] = step[<<g[i - 1], i>>]
      <4>1. CASE i = k + 1
        <5>1. g[i - 1] = f[k]
          BY <2>3, <4>1
        <5> QED BY <2>3, <4>1, <5>1 DEF v
      <4>2. CASE i # k + 1
        <5>1. i \in 1 .. k /\ i \in 0 .. k /\ i - 1 \in 0 .. k
          BY <4>2
        <5> QED BY <2>1, <2>3, <5>1 DEF Steps
      <4> QED BY <4>1, <4>2
    <3> QED BY <3>1, <3>2 DEF Steps
  <2> QED BY <2>3, <2>4
<1>3. Nat \subseteq S
  <2> HIDE DEF S
  <2> QED BY <1>1, <1>2, Induction
<1> QED BY <1>3
----------------------------------------------------------------------------
(* Functions that come to a value, or ask themselves again nearer to it.   *)

Again(f, D, stop, val, next) ==
  f = [p \in D |-> IF p \in stop THEN val[p] ELSE f[next[p]]]

LEMMA AgainExists ==
  ASSUME NEW D, NEW V, NEW rank \in [D -> Nat], NEW bound \in Nat,
         \A p \in D : rank[p] < bound,
         NEW stop, NEW val \in [D -> V], NEW next,
         \A p \in D : p \notin stop => next[p] \in D /\ rank[next[p]] < rank[p]
  PROVE  \E f \in [D -> V] : Again(f, D, stop, val, next)
<1> DEFINE Eq(f, k) == \A p \in D : rank[p] < k =>
                         f[p] = IF p \in stop THEN val[p] ELSE f[next[p]]
           S == {k \in Nat : \E f \in [D -> V] : Eq(f, k)}
<1>1. 0 \in S
  BY Z3
<1>2. ASSUME NEW k \in Nat, k \in S PROVE k + 1 \in S
  <2>1. PICK f \in [D -> V] : Eq(f, k)
    BY <1>2
  <2> DEFINE g == [p \in D |-> IF rank[p] < k THEN f[p]
                               ELSE IF p \in stop THEN val[p]
                               ELSE IF next[p] \in D THEN f[next[p]] ELSE val[p]]
  <2>2. g \in [D -> V]
    OBVIOUS
  <2>3. ASSUME NEW p \in D, rank[p] < k + 1
        PROVE  g[p] = IF p \in stop THEN val[p] ELSE g[next[p]]
    <3>1. CASE p \in stop
      <4>1. rank[p] < k => f[p] = val[p]
        BY <2>1, <3>1
      <4> QED BY <3>1, <4>1
    <3>2. CASE p \notin stop
      <4>1. next[p] \in D /\ rank[next[p]] < rank[p] /\ rank[p] \in Nat /\ rank[next[p]] \in Nat
        BY <3>2
      <4>2. rank[next[p]] < k
        BY <4>1, <2>3
      <4>3. g[next[p]] = f[next[p]]
        BY <4>1, <4>2
      <4>4. rank[p] < k => f[p] = f[next[p]]
        BY <2>1, <3>2
      <4>5. g[p] = f[next[p]]
        BY <3>2, <4>1, <4>4
      <4> QED BY <3>2, <4>3, <4>5
    <3> QED BY <3>1, <3>2
  <2>4. Eq(g, k + 1)
    BY <2>3
  <2>5. k + 1 \in Nat
    OBVIOUS
  <2> HIDE DEF g, Eq
  <2> QED BY <2>2, <2>4, <2>5
<1>3. bound \in S
  <2>1. Nat \subseteq S
    <3> HIDE DEF S
    <3> QED BY <1>1, <1>2, Induction
  <2> QED BY <2>1
<1>4. PICK f \in [D -> V] : Eq(f, bound)
  BY <1>3
<1>5. \A p \in D : f[p] = IF p \in stop THEN val[p] ELSE f[next[p]]
  BY <1>4
<1> QED BY <1>4, <1>5 DEF Again

\* From an argument in good it is never far from a value in R.
Arrives(D, rank, stop, val, next, good, R) ==
  /\ rank \in [D -> Nat] /\ good \subseteq D
  /\ \A p \in good : p \in stop => val[p] \in R
  /\ \A p \in good : p \notin stop => next[p] \in good /\ rank[next[p]] < rank[p]

LEMMA AgainFacts ==
  ASSUME NEW D, NEW rank, NEW stop, NEW val, NEW next, NEW f, NEW good, NEW R,
         Again(f, D, stop, val, next), Arrives(D, rank, stop, val, next, good, R)
  PROVE  \A p \in good : f[p] \in R
<1> USE DEF Arrives
<1> DEFINE P(k) == \A p \in good : rank[p] < k => f[p] \in R
           S == {k \in Nat : P(k)}
<1>1. 0 \in S
  OBVIOUS
<1>2. ASSUME NEW k \in Nat, k \in S PROVE k + 1 \in S
  <2>1. ASSUME NEW p \in good, rank[p] < k + 1 PROVE f[p] \in R
    <3>1. f[p] = IF p \in stop THEN val[p] ELSE f[next[p]]
      BY DEF Again
    <3>2. CASE p \in stop
      BY <3>1, <3>2
    <3>3. CASE p \notin stop
      <4>1. next[p] \in good /\ rank[next[p]] < rank[p] /\ rank[p] \in Nat /\ rank[next[p]] \in Nat
        BY <3>3
      <4>2. rank[next[p]] < k
        BY <4>1, <2>1
      <4> QED BY <3>1, <3>3, <4>1, <4>2, <1>2
    <3> QED BY <3>2, <3>3
  <2>2. k + 1 \in Nat
    OBVIOUS
  <2> QED BY <2>1, <2>2, Zenon
<1>3. Nat \subseteq S
  <2> HIDE DEF S
  <2> QED BY <1>1, <1>2, Induction
<1>4. ASSUME NEW p \in good PROVE f[p] \in R
  <2>1. rank[p] \in Nat /\ rank[p] + 1 \in Nat /\ rank[p] < rank[p] + 1
    OBVIOUS
  <2> QED BY <2>1, <1>3
<1> QED BY <1>4
=============================================================================
