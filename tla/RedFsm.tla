------------------------------- MODULE RedFsm -------------------------------
(***************************************************************************)
(* The reduced machine a code generator works on (redfsm.cpp and           *)
(* gendata.cpp): the out transitions of a state are a list of key ranges,  *)
(* ordered and disjoint.                                                   *)
(*                                                                         *)
(* Keys above MaxKey stand for a character of a condition space together   *)
(* with the outcome of the conditions of that space: space i has           *)
(* 2^Spaces[i] copies of the alphabet.                                     *)
(***************************************************************************)
EXTENDS Integers, Sequences, FiniteSets, SequencesExt

CONSTANTS MaxKey,   \* keyOps->maxKey; minKey is 0
          Spaces,   \* the number of conditions of each condition space
          Err       \* the error state

ASSUME KeyAssumption == MaxKey \in Nat /\ Spaces \in Seq(Nat) /\ Err \in Nat

AlphSize == MaxKey + 1

Alphabet == 0 .. MaxKey

\* The first key of each space, in the order the spaces were added.
baseKey[i \in 1 .. Len(Spaces)] ==
  IF i = 1 THEN MaxKey + 1 ELSE baseKey[i - 1] + 2 ^ Spaces[i - 1] * AlphSize

\* Op over a sequence from the left.
Folded(Op(_, _), base, seq) ==
  LET f[i \in 0 .. Len(seq)] == IF i = 0 THEN base ELSE Op(f[i - 1], seq[i])
  IN  f[Len(seq)]

\* The key that stands for k in a space when the conditions in holds are true.
Widened(space, k, holds) ==
  LET w[c \in 0 .. Spaces[space]] ==
        IF c = 0 THEN baseKey[space] + k
        ELSE IF c \in holds THEN w[c - 1] + 2 ^ (c - 1) * AlphSize ELSE w[c - 1]
  IN  w[Spaces[space]]

Span(r) == r.hi - r.lo + 1

\* A transition: the state it goes to and the action list it runs (0: none).
ErrorTrans == [to |-> Err, act |-> 0]

El(lo, hi, t) == [lo |-> lo, hi |-> hi, t |-> t]

-----------------------------------------------------------------------------
\* Mutant: the filler in front of a range stops one key short.
NewTransShort(range, el) ==
  LET next == IF range = <<>> THEN 0 ELSE Last(range).hi + 1
  IN  IF next < el.lo - 1 THEN range \o <<El(next, el.lo - 2, ErrorTrans), el>>
                          ELSE Append(range, el)

\* A transition joins the list of its state, and whatever gap it leaves below
\* goes to the error state.
NewTrans(range, el) ==
  LET next == IF range = <<>> THEN 0 ELSE Last(range).hi + 1
  IN  IF next < el.lo THEN range \o <<El(next, el.lo - 1, ErrorTrans), el>>
                      ELSE Append(range, el)

\* The alphabet above the last transition goes to the error state.
FinishTransList(range) ==
  LET next == IF range = <<>> THEN 0 ELSE Last(range).hi + 1
  IN  IF next <= MaxKey THEN Append(range, El(next, MaxKey, ErrorTrans)) ELSE range

\* A transition is known by where it goes and what it runs: equal ones are one.
AllocateTrans(set, t) == IF t \in Range(set) THEN set ELSE Append(set, t)

\* The filler is allocated after the transition it makes room for.
AllocateFiller(set, range) ==
  IF \E r \in Range(range) : r.t = ErrorTrans THEN AllocateTrans(set, ErrorTrans) ELSE set

-----------------------------------------------------------------------------
AlphabetCovered(range) ==
  /\ range # <<>>
  /\ range[1].lo = 0
  /\ \A i \in 2 .. Len(range) : range[i - 1].hi + 1 = range[i].lo
  /\ Last(range).hi >= MaxKey

\* The keys a transition covers.
SpanOf(range, t) ==
  Folded(LAMBDA n, r : IF r.t = t THEN n + Span(r) ELSE n, 0, range)

\* Transitions are compared by address, so of two that span as much either may
\* come first.
ChooseDefaultSpan(range) ==
  {t \in {r.t : r \in Range(range)} :
     \A r \in Range(range) : SpanOf(range, r.t) <= SpanOf(range, t)}

MoveToDefault(range, t) ==
  Folded(LAMBDA rest, r : IF r.t # t THEN Append(rest, r) ELSE rest, <<>>, range)

\* Only single keys stand between the range and another of the same transition.
CanExtend(range, pos) ==
  \E next \in pos + 1 .. Len(range) :
    /\ range[next].t = range[pos].t
    /\ \A j \in pos + 1 .. next : range[j].lo - 1 = range[j - 1].hi
    /\ \A j \in pos + 1 .. next - 1 : Span(range[j]) = 1 /\ range[j].t # range[pos].t

\* The next range of the same transition, when CanExtend.
NextSame(range, pos) ==
  CHOOSE n \in pos + 1 .. Len(range) :
    range[n].t = range[pos].t /\ \A j \in pos + 1 .. n - 1 : range[j].t # range[pos].t

\* One turn of the loop of moveTransToSingle over state st.
Extend(st, pos) ==
  LET n == NextSame(st.range, pos)
  IN  [st EXCEPT !.single = @ \o SubSeq(st.range, pos + 1, n - 1),
                 !.range = SubSeq(@, 1, pos - 1)
                             \o <<El(@[pos].lo, @[n].hi, @[pos].t)>>
                             \o SubSeq(@, n + 1, Len(@))]

\* Mutant: singles are put in front.
MoveToSingleFront(st, pos) ==
  [st EXCEPT !.single = <<st.range[pos]>> \o @, !.range = RemoveAt(@, pos)]

MoveToSingle(st, pos) ==
  [st EXCEPT !.single = Append(@, st.range[pos]), !.range = RemoveAt(@, pos)]

\* The flat list of a state: a transition for every key from the lowest to
\* the highest that is not left to the default.
MakeFlat(st) ==
  IF st.range = <<>> THEN <<>>
  ELSE LET low == st.range[1].lo
       IN  [i \in 1 .. Last(st.range).hi - low + 1 |->
              LET at == {r \in Range(st.range) : low + i - 1 \in r.lo .. r.hi}
              IN  IF at = {} THEN st.def ELSE (CHOOSE r \in at : TRUE).t]

-----------------------------------------------------------------------------
\* What the machine says of key k in a state, w being the key widened: the
\* transition listed for w, or the error transition.
Meant(list, w) ==
  LET at == {r \in Range(list) : w \in r.lo .. r.hi}
  IN  IF at = {} THEN ErrorTrans ELSE (CHOOSE r \in at : TRUE).t
=============================================================================
