---------------------------- MODULE AfterOp_proof ----------------------------
(***************************************************************************)
(* minimizeStable, minimizePartition1, which AfterOp extends, and what     *)
(* afterOpMinimize does with each of the four minimizers on whatever graph *)
(* an operator leaves: proved for every set of states, keys and data and   *)
(* every graph that satisfies MachinesAssumption.                          *)
(***************************************************************************)
EXTENDS AfterOp, Partition_proof

----------------------------------------------------------------------------
(* The marks of minimizeStable are right, for every machine a minimizer    *)
(* may be given, with error transitions too as long as the marking does    *)
(* not fault on them.                                                      *)

PairsOf(x) == {r \in x.live \X x.live : r[2] < r[1]}

\* What a round that marked nothing leaves of an unmarked pair.
AlikeByMarks(s, t) ==
  /\ input.data[s] = input.data[t]
  /\ \A k \in Key :
       /\ HasTrans(input, s, k) <=> HasTrans(input, t, k)
       /\ HasTrans(input, s, k) =>
            /\ input.out[s][k].act = input.out[t][k].act
            /\ To(input, s, k) # Null /\ To(input, t, k) # Null
            /\ ~ Mk!IsPairMarked(To(input, s, k), To(input, t, k))

\* Mk!Pairs whose data differ are marked from the first.
DataMarked == \A r \in PairsOf(input) \ marked : InitPartitionEqual(input, r[1], r[2])

\* No stable labelling joins a marked pair.
OnlyDiffering ==
  \A c \in [State -> State] : Stable(input, c) => \A r \in marked : c[r[1]] # c[r[2]]

\* What the round has passed without marking would not be marked now.
RoundSound ==
  ~ modified => \A r \in PairsOf(input) \ (todo \cup marked) :
                  ~ Mk!FollowsNull(r[1], r[2]) /\ ~ Mk!ShouldMark(r[1], r[2])

FixedPoint == \A r \in PairsOf(input) \ marked : AlikeByMarks(r[1], r[2])
-----------------------------------------------------------------------------
(* MinMark is instantiated in AfterOp, so the operators it takes from Fsm  *)
(* have names of their own there.  They are the same operators.            *)

LEMMA MkLookups ==
  ASSUME NEW x, NEW s, NEW t, NEW k, NEW lab, NEW u
  PROVE  /\ Mk!To(x, s, k) = To(x, s, k)
         /\ Mk!HasTrans(x, s, k) <=> HasTrans(x, s, k)
         /\ Mk!PartOf(lab, u) = PartOf(lab, u)
BY DEF Mk!To, To, Mk!HasTrans, HasTrans, Mk!PartOf, PartOf

LEMMA MkInitPartitionEqual ==
  ASSUME NEW x, NEW s, NEW t
  PROVE  Mk!InitPartitionEqual(x, s, t) <=> InitPartitionEqual(x, s, t)
BY MkLookups DEF Mk!InitPartitionEqual, InitPartitionEqual,
                 Mk!SameTransData, SameTransData

LEMMA MkFuse ==
  ASSUME NEW x, NEW dest, NEW src
  PROVE  Mk!Fuse(x, dest, src) = Fuse(x, dest, src)
BY MkLookups DEF Mk!Fuse, Fuse, Mk!Redirected, Redirected

LEMMA MkStable ==
  ASSUME NEW x, NEW lab PROVE Mk!Stable(x, lab) <=> Stable(x, lab)
<1>1. ASSUME NEW s, NEW t PROVE Mk!Alike(x, lab, s, t) <=> Alike(x, lab, s, t)
  BY MkLookups DEF Mk!Alike, Alike
<1> QED BY <1>1 DEF Mk!Stable, Stable

\* What the two tests of a pair look at.
LEMMA MkTests ==
  ASSUME NEW s, NEW t
  PROVE  /\ Mk!ShouldMark(s, t) <=>
              \E k \in Key : HasTrans(m, s, k) /\ Mk!IsPairMarked(To(m, s, k), To(m, t, k))
         /\ Mk!FollowsNull(s, t) <=>
              \E k \in Key : /\ HasTrans(m, s, k) /\ HasTrans(m, t, k)
                             /\ Null \in {To(m, s, k), To(m, t, k)}
                             /\ \A j \in Key : j < k /\ HasTrans(m, s, j)
                                  => ~ Mk!IsPairMarked(To(m, s, j), To(m, t, j))
BY MkLookups DEF Mk!ShouldMark, Mk!FollowsNull
-----------------------------------------------------------------------------
\* A machine's live states are numbers, its pointers good.
LEMMA Shape ==
  ASSUME NEW x, GoodMachine(x)
  PROVE  /\ x \in Machine /\ Closed(x) /\ ScannerShape(x)
         /\ x.live \subseteq State /\ x.live \subseteq Nat /\ Null \notin x.live
         /\ x.data \in [State -> Data]
         /\ x.out \in [State -> [Key -> Trans]]
<1>1. x \in Machine /\ Closed(x) /\ ScannerShape(x)
  BY DEF GoodMachine
<1> QED BY <1>1, StateAssumption, NullAssumption DEF Machine

\* Marking round 0: what it marks differs under every stable labelling.
LEMMA DataDiffers ==
  ASSUME NEW x, GoodMachine(x), NEW c \in [State -> State], Stable(x, c),
         NEW s \in x.live, NEW t \in x.live, c[s] = c[t]
  PROVE  InitPartitionEqual(x, s, t)
<1>1. Alike(x, c, s, t)
  BY DEF Stable
<1> QED BY <1>1 DEF Alike, InitPartitionEqual, SameTransData, HasTrans

\* A pair whose targets are marked differs under every stable labelling.
LEMMA MarkDiffers ==
  ASSUME NEW x, GoodMachine(x), m = x, NEW c \in [State -> State], Stable(x, c),
         marked \subseteq PairsOf(x), \A r \in marked : c[r[1]] # c[r[2]],
         NEW s \in x.live, NEW t \in x.live, Mk!ShouldMark(s, t)
  PROVE  c[s] # c[t]
<1> SUFFICES ASSUME c[s] = c[t] PROVE FALSE
  OBVIOUS
<1>1. Alike(x, c, s, t)
  BY DEF Stable
<1>2. PICK k \in Key : HasTrans(x, s, k) /\ Mk!IsPairMarked(To(x, s, k), To(x, t, k))
  BY MkTests
<1>3. To(x, s, k) \in x.live /\ To(x, t, k) \in x.live
  BY <1>2 DEF Mk!IsPairMarked, PairsOf
<1>4. To(x, s, k) # Null /\ To(x, t, k) # Null
  BY <1>3, Shape
<1>5. PartOf(c, To(x, s, k)) = PartOf(c, To(x, t, k))
  BY <1>1, <1>2 DEF Alike, HasTrans, To
<1>6. c[To(x, s, k)] = c[To(x, t, k)]
  BY <1>4, <1>5 DEF PartOf
<1> QED BY <1>2, <1>6 DEF Mk!IsPairMarked
-----------------------------------------------------------------------------
(* Unmarked is an equivalence at the fixed point.  Two states are taken    *)
(* together when every labelling that does not tell unmarked pairs apart   *)
(* gives them the same label: that is an equivalence, and it turns out     *)
(* stable, as the labels of targets, actions and data make labellings of   *)
(* that kind in their turn.  So it joins no marked pair.                   *)

Label == State \cup {Null} \cup Data \cup Trans

Respects(d) == \A x, y \in input.live : ~ Mk!IsPairMarked(x, y) => d[x] = d[y]

Together(s, t) == \A d \in [State -> Label] : Respects(d) => d[s] = d[t]

ClassOf(s) == {x \in input.live : Together(s, x)}
One(C) == CHOOSE x \in C : TRUE
Joined == [s \in State |-> IF s \in input.live THEN One(ClassOf(s)) ELSE s]

LEMMA UnmarkedAlike ==
  ASSUME GoodMachine(input), FixedPoint,
         NEW s \in input.live, NEW t \in input.live, s # t, ~ Mk!IsPairMarked(s, t)
  PROVE  AlikeByMarks(s, t)
<1>1. s \in Nat /\ t \in Nat
  BY Shape
<1>2. CASE t < s
  <2>1. <<s, t>> \in PairsOf(input) \ marked
    BY <1>2 DEF PairsOf, Mk!IsPairMarked
  <2> QED BY <2>1 DEF FixedPoint
<1>3. CASE s < t
  <2>1. <<t, s>> \in PairsOf(input) \ marked
    BY <1>3 DEF PairsOf, Mk!IsPairMarked
  <2>2. AlikeByMarks(t, s)
    BY <2>1 DEF FixedPoint
  <2> QED BY <2>2 DEF AlikeByMarks, Mk!IsPairMarked
<1> QED BY <1>1, <1>2, <1>3

\* States taken together have the same data.
LEMMA TogetherData ==
  ASSUME GoodMachine(input), FixedPoint,
         NEW s \in input.live, NEW t \in input.live, Together(s, t)
  PROVE  input.data[s] = input.data[t]
<1> DEFINE d == [x \in State |-> input.data[x]]
<1>1. d \in [State -> Label]
  BY Shape DEF Label
<1>2. Respects(d)
  BY Shape, UnmarkedAlike DEF Respects, AlikeByMarks
<1>3. d[s] = d[t]
  BY <1>1, <1>2 DEF Together
<1> QED BY <1>3, Shape

\* And on each key both or neither have a transition, with the same data.
LEMMA TogetherTrans ==
  ASSUME GoodMachine(input), FixedPoint,
         NEW s \in input.live, NEW t \in input.live, Together(s, t), NEW k \in Key
  PROVE  /\ HasTrans(input, s, k) <=> HasTrans(input, t, k)
         /\ HasTrans(input, s, k) => input.out[s][k].act = input.out[t][k].act
<1> DEFINE L(x) == IF HasTrans(input, x, k) THEN [to |-> Null, act |-> input.out[x][k].act]
                   ELSE NoTrans
           d == [x \in State |-> L(x)]
<1>1. \A x \in State : /\ L(x) \in Trans
                       /\ L(x) # NoTrans <=> HasTrans(input, x, k)
                       /\ HasTrans(input, x, k) => L(x).act = input.out[x][k].act
  <2> SUFFICES ASSUME NEW x \in State
               PROVE  /\ L(x) \in Trans
                      /\ L(x) # NoTrans <=> HasTrans(input, x, k)
                      /\ HasTrans(input, x, k) => L(x).act = input.out[x][k].act
    OBVIOUS
  <2>1. input.out[x][k] \in Trans
    BY Shape
  <2>2. CASE HasTrans(input, x, k)
    <3>1. input.out[x][k].act \in Act
      BY <2>1, <2>2 DEF Trans, HasTrans
    <3>2. [to |-> Null, act |-> input.out[x][k].act] \in [to : State \cup {Null}, act : Act]
      BY <3>1
    <3> QED BY <2>2, <3>2, TransAssumption DEF Trans
  <2>3. CASE ~ HasTrans(input, x, k)
    BY <2>3 DEF Trans
  <2> QED BY <2>2, <2>3
<1>2. d \in [State -> Label]
  BY <1>1 DEF Label
<1>3. \A x, y \in input.live : ~ Mk!IsPairMarked(x, y) => L(x) = L(y)
  BY UnmarkedAlike DEF AlikeByMarks
<1>4. Respects(d)
  BY <1>3, Shape DEF Respects
<1>5. d[s] = d[t]
  BY <1>2, <1>4 DEF Together
<1>6. L(s) = L(t) /\ s \in State /\ t \in State
  BY <1>5, Shape
<1> HIDE DEF L
<1> QED BY <1>1, <1>6

\* And what they lead to is together again, or null for both.
LEMMA TogetherTo ==
  ASSUME GoodMachine(input), FixedPoint,
         NEW s \in input.live, NEW t \in input.live, Together(s, t), NEW k \in Key
  PROVE  \/ To(input, s, k) = Null /\ To(input, t, k) = Null
         \/ /\ To(input, s, k) \in input.live /\ To(input, t, k) \in input.live
            /\ Together(To(input, s, k), To(input, t, k))
<1> DEFINE Next1(e) == [x \in State |->
              IF x \in input.live THEN PartOf(e, To(input, x, k)) ELSE Null]
<1>1. \A x \in input.live : To(input, x, k) \in input.live \cup {Null}
  BY Shape DEF Closed
<1>2. ASSUME NEW e \in [State -> Label], Respects(e)
      PROVE  PartOf(e, To(input, s, k)) = PartOf(e, To(input, t, k))
  <2>1. Next1(e) \in [State -> Label]
    BY <1>1, Shape DEF PartOf, Label
  <2>2. \A x, y \in input.live : ~ Mk!IsPairMarked(x, y)
          => PartOf(e, To(input, x, k)) = PartOf(e, To(input, y, k))
    <3> SUFFICES ASSUME NEW x \in input.live, NEW y \in input.live, x # y,
                        ~ Mk!IsPairMarked(x, y)
                 PROVE  PartOf(e, To(input, x, k)) = PartOf(e, To(input, y, k))
      OBVIOUS
    <3>1. AlikeByMarks(x, y)
      BY UnmarkedAlike
    <3>2. CASE HasTrans(input, x, k)
      BY <1>1, <1>2, <3>1, <3>2 DEF AlikeByMarks, Respects, PartOf
    <3>3. CASE ~ HasTrans(input, x, k)
      BY <3>1, <3>3 DEF AlikeByMarks, To, HasTrans
    <3> QED BY <3>2, <3>3
  <2>3. Respects(Next1(e))
    BY <2>2, Shape DEF Respects
  <2>4. Next1(e)[s] = Next1(e)[t]
    BY <2>1, <2>3 DEF Together
  <2> QED BY <2>4, Shape
<1>3. To(input, s, k) = Null <=> To(input, t, k) = Null
  <2> DEFINE e == [x \in State |-> s]
  <2>1. e \in [State -> Label] /\ Respects(e) /\ s # Null
    BY Shape DEF Label, Respects
  <2>2. PartOf(e, To(input, s, k)) = PartOf(e, To(input, t, k))
    BY <1>2, <2>1
  <2> QED BY <1>1, <2>2, Shape DEF PartOf
<1>4. CASE To(input, s, k) # Null
  BY <1>1, <1>2, <1>3, <1>4, Shape DEF Together, PartOf
<1> QED BY <1>3, <1>4

LEMMA JoinedStable ==
  ASSUME GoodMachine(input), FixedPoint
  PROVE  /\ Joined \in [State -> State] /\ Stable(input, Joined)
         /\ \A s, t \in input.live : Together(s, t) => Joined[s] = Joined[t]
<1>1. \A s \in input.live : s \in ClassOf(s)
  BY DEF ClassOf, Together
<1>2. \A s \in input.live : Joined[s] \in ClassOf(s)
  BY <1>1, Shape DEF Joined, One
<1>3. Joined \in [State -> State]
  BY <1>2, Shape DEF Joined, ClassOf
<1>4. \A s, t \in input.live : Together(s, t) => Joined[s] = Joined[t]
  <2> SUFFICES ASSUME NEW s \in input.live, NEW t \in input.live, Together(s, t)
               PROVE  Joined[s] = Joined[t]
    OBVIOUS
  <2>1. ClassOf(s) = ClassOf(t)
    BY DEF ClassOf, Together
  <2> QED BY <2>1, Shape DEF Joined
<1>5. Stable(input, Joined)
  <2> SUFFICES ASSUME NEW s \in input.live, NEW t \in input.live, Joined[s] = Joined[t]
               PROVE  Alike(input, Joined, s, t)
    BY DEF Stable
  <2>1. Together(s, t)
    BY <1>2 DEF ClassOf, Together
  <2>2. input.data[s] = input.data[t] /\ input.eof[s] = input.eof[t]
    BY <2>1, TogetherData, Shape DEF ScannerShape
  <2>3. ASSUME NEW k \in Key
        PROVE  PartOf(Joined, To(input, s, k)) = PartOf(Joined, To(input, t, k))
    <3>1. CASE To(input, s, k) = Null /\ To(input, t, k) = Null
      BY <3>1
    <3>2. CASE /\ To(input, s, k) \in input.live /\ To(input, t, k) \in input.live
               /\ Together(To(input, s, k), To(input, t, k))
      BY <1>4, <3>2, Shape DEF PartOf
    <3> QED BY <2>1, <3>1, <3>2, TogetherTo
  <2> QED BY <2>1, <2>2, <2>3, TogetherTrans DEF Alike, HasTrans, To
<1> QED BY <1>3, <1>4, <1>5

\* Unmarked states share a class, marked ones do not, and no labelling that
\* joins fewer states is as coarse.
LEMMA JoinedClasses ==
  ASSUME GoodMachine(input), FixedPoint, OnlyDiffering
  PROVE  /\ Minimal(input, Joined)
         /\ \A s, t \in input.live : ~ Mk!IsPairMarked(s, t) <=> Joined[s] = Joined[t]
<1>1. /\ Joined \in [State -> State] /\ Stable(input, Joined)
      /\ \A s, t \in input.live : Together(s, t) => Joined[s] = Joined[t]
  BY JoinedStable
<1>2. ASSUME NEW c \in [State -> State], Stable(input, c),
             NEW s \in input.live, NEW t \in input.live, c[s] = c[t]
      PROVE  ~ Mk!IsPairMarked(s, t)
  BY <1>2 DEF OnlyDiffering, Mk!IsPairMarked
<1>3. ASSUME NEW s \in input.live, NEW t \in input.live, ~ Mk!IsPairMarked(s, t)
      PROVE  Joined[s] = Joined[t]
  BY <1>1, <1>3 DEF Together, Respects
<1>4. Minimal(input, Joined)
  BY <1>1, <1>2, <1>3 DEF Minimal, Coarser
<1> QED BY <1>1, <1>2, <1>3, <1>4
-----------------------------------------------------------------------------
(* What minimizeStable keeps.  While it fuses, the machine stands for the  *)
(* input with its targets taken up to the classes of unmarked states.      *)

MkInv ==
  /\ pc \in {"init", "mark", "fuse", "done", "fault"}
  /\ GoodMachine(input) /\ GoodMachine(m)
  /\ m.live \subseteq input.live
  /\ pc \in {"init", "mark"} => m = input
  /\ pc = "init" => modified = FALSE
  /\ pc # "init" => marked \subseteq PairsOf(input) /\ OnlyDiffering
  /\ pc = "mark" => todo \subseteq PairsOf(input) /\ DataMarked /\ RoundSound
  /\ pc \in {"fuse", "done"} => FixedPoint
  /\ pc = "fuse" => StandsFor(input, m, Joined)

LEMMA InitMkInv == ASSUME Mk!Init PROVE MkInv
BY MachinesAssumption DEF Mk!Init, MkInv, GoodMachine

LEMMA InitialRoundMkInv == ASSUME MkInv, Mk!InitialMarkRound PROVE MkInv'
<1> USE DEF Mk!InitialMarkRound
<1>1. m = input /\ GoodMachine(input) /\ modified = FALSE
  BY DEF MkInv
<1>2. marked' \subseteq PairsOf(input) /\ todo' = PairsOf(input)
  BY <1>1 DEF Mk!Pairs, PairsOf
<1>3. OnlyDiffering'
  <2> SUFFICES ASSUME NEW c \in [State -> State], Stable(input, c), NEW r \in marked'
               PROVE  c[r[1]] # c[r[2]]
    BY DEF OnlyDiffering
  <2>1. r[1] \in input.live /\ r[2] \in input.live /\ ~ InitPartitionEqual(input, r[1], r[2])
    BY <1>1, <1>2, MkInitPartitionEqual DEF PairsOf
  <2> QED BY <1>1, <2>1, DataDiffers
<1>4. DataMarked'
  BY <1>1, MkInitPartitionEqual DEF DataMarked, Mk!Pairs, PairsOf
<1>5. RoundSound'
  BY <1>2 DEF RoundSound
<1> QED BY <1>1, <1>2, <1>3, <1>4, <1>5 DEF MkInv

LEMMA MarkPairMkInv == ASSUME MkInv, Mk!MarkPair PROVE MkInv'
<1>1. /\ pc = "mark" /\ m = input /\ GoodMachine(input)
      /\ UNCHANGED <<input, m>>
      /\ marked \subseteq PairsOf(input) /\ todo \subseteq PairsOf(input)
      /\ OnlyDiffering /\ DataMarked /\ RoundSound
  BY DEF Mk!MarkPair, MkInv
<1>2. PICK r \in todo :
        /\ todo' = todo \ {r}
        /\ \/ /\ r \in marked
              /\ UNCHANGED <<pc, marked, modified>>
           \/ /\ r \notin marked /\ Mk!FollowsNull(r[1], r[2])
              /\ pc' = "fault"
              /\ UNCHANGED <<marked, modified>>
           \/ /\ r \notin marked /\ ~ Mk!FollowsNull(r[1], r[2])
              /\ marked' = IF Mk!ShouldMark(r[1], r[2]) THEN marked \cup {r} ELSE marked
              /\ modified' = (modified \/ Mk!ShouldMark(r[1], r[2]))
              /\ UNCHANGED pc
  BY DEF Mk!MarkPair
<1>3. todo' \subseteq PairsOf(input)
  BY <1>1, <1>2
<1>4. CASE r \in marked /\ UNCHANGED <<pc, marked, modified>>
  <2>1. RoundSound'
    BY <1>1, <1>2, <1>4 DEF RoundSound, Mk!FollowsNull, Mk!ShouldMark, Mk!IsPairMarked, PairsOf
  <2> QED BY <1>1, <1>3, <1>4, <2>1 DEF MkInv, OnlyDiffering, DataMarked, PairsOf
<1>5. CASE pc' = "fault" /\ UNCHANGED <<marked, modified>>
  BY <1>1, <1>5 DEF MkInv, OnlyDiffering, PairsOf
<1>6. CASE /\ r \notin marked /\ ~ Mk!FollowsNull(r[1], r[2]) /\ ~ Mk!ShouldMark(r[1], r[2])
           /\ UNCHANGED <<pc, marked>>
           /\ modified' = (modified \/ Mk!ShouldMark(r[1], r[2]))
  <2>1. RoundSound'
    <3> SUFFICES ASSUME ~ modified', NEW q \in PairsOf(input), q \notin todo', q \notin marked
                 PROVE  ~ Mk!FollowsNull(q[1], q[2]) /\ ~ Mk!ShouldMark(q[1], q[2])
      BY <1>1, <1>6 DEF RoundSound, Mk!FollowsNull, Mk!ShouldMark, Mk!IsPairMarked, PairsOf
    <3>1. ~ modified
      BY <1>6
    <3>2. CASE q = r
      BY <1>6, <3>2
    <3>3. CASE q # r
      <4>1. q \notin todo
        BY <1>2, <3>3
      <4> QED BY <1>1, <3>1, <4>1 DEF RoundSound
    <3> QED BY <3>2, <3>3
  <2> QED BY <1>1, <1>3, <1>6, <2>1 DEF MkInv, OnlyDiffering, DataMarked, PairsOf
<1>7. CASE /\ r \notin marked /\ Mk!ShouldMark(r[1], r[2])
           /\ marked' = marked \cup {r} /\ modified' /\ UNCHANGED pc
  <2>1. r \in PairsOf(input) /\ todo' \subseteq PairsOf(input)
    BY <1>1, <1>2
  <2>2. OnlyDiffering'
    <3> SUFFICES ASSUME NEW c \in [State -> State], Stable(input, c), NEW q \in marked'
                 PROVE  c[q[1]] # c[q[2]]
      BY <1>1 DEF OnlyDiffering
    <3>1. \A x \in marked : c[x[1]] # c[x[2]]
      BY <1>1 DEF OnlyDiffering
    <3>2. CASE q = r
      <4>1. r[1] \in input.live /\ r[2] \in input.live
        BY <2>1 DEF PairsOf
      <4> QED BY <1>1, <1>7, <3>1, <3>2, <4>1, MarkDiffers
    <3> QED BY <1>7, <3>1, <3>2
  <2>3. DataMarked'
    BY <1>1, <1>7 DEF DataMarked, PairsOf
  <2>4. RoundSound'
    BY <1>7 DEF RoundSound
  <2> QED BY <1>1, <1>7, <2>1, <2>2, <2>3, <2>4 DEF MkInv, PairsOf
<1> QED BY <1>2, <1>4, <1>5, <1>6, <1>7

\* A pair that a whole round did not mark is alike.
LEMMA RoundLeavesAlike ==
  ASSUME MkInv, pc = "mark", todo = {}, ~ modified
  PROVE  FixedPoint
<1> SUFFICES ASSUME NEW r \in PairsOf(input) \ marked
             PROVE  AlikeByMarks(r[1], r[2])
  BY DEF FixedPoint
<1>1. m = input /\ DataMarked /\ RoundSound
  BY DEF MkInv
<1>2. InitPartitionEqual(input, r[1], r[2])
  BY <1>1 DEF DataMarked
<1>3. ~ Mk!FollowsNull(r[1], r[2]) /\ ~ Mk!ShouldMark(r[1], r[2])
  BY <1>1 DEF RoundSound
<1>4. ASSUME NEW k \in Key, HasTrans(input, r[1], k)
      PROVE  /\ HasTrans(input, r[2], k)
             /\ input.out[r[1]][k].act = input.out[r[2]][k].act
             /\ To(input, r[1], k) # Null /\ To(input, r[2], k) # Null
             /\ ~ Mk!IsPairMarked(To(input, r[1], k), To(input, r[2], k))
  <2>1. HasTrans(input, r[2], k) /\ input.out[r[1]][k].act = input.out[r[2]][k].act
    BY <1>2, <1>4 DEF InitPartitionEqual, SameTransData
  <2>2. \A j \in Key : HasTrans(m, r[1], j) => ~ Mk!IsPairMarked(To(m, r[1], j), To(m, r[2], j))
    BY <1>3, MkTests
  <2>3. Null \notin {To(m, r[1], k), To(m, r[2], k)}
    <3>1. ~ \E j \in Key : /\ HasTrans(m, r[1], j) /\ HasTrans(m, r[2], j)
                          /\ Null \in {To(m, r[1], j), To(m, r[2], j)}
                          /\ \A l \in Key : l < j /\ HasTrans(m, r[1], l)
                               => ~ Mk!IsPairMarked(To(m, r[1], l), To(m, r[2], l))
      BY <1>3, MkTests
    <3> QED BY <1>1, <1>4, <2>1, <2>2, <3>1
  <2> QED BY <1>1, <1>4, <2>1, <2>2, <2>3
<1> QED BY <1>2, <1>4 DEF AlikeByMarks, InitPartitionEqual, SameTransData

LEMMA EndRoundMkInv == ASSUME MkInv, Mk!EndRound PROVE MkInv'
<1>1. /\ pc = "mark" /\ todo = {} /\ UNCHANGED <<input, m, marked>>
      /\ m = input /\ GoodMachine(input)
      /\ marked \subseteq PairsOf(input) /\ OnlyDiffering /\ DataMarked
  BY DEF Mk!EndRound, MkInv
<1>2. CASE modified
  <2>1. pc' = pc /\ todo' = PairsOf(input)
    BY <1>1, <1>2 DEF Mk!EndRound, Mk!Pairs, PairsOf
  <2> QED BY <1>1, <2>1 DEF MkInv, OnlyDiffering, DataMarked, RoundSound, PairsOf
<1>3. CASE ~ modified
  <2>1. pc' = "fuse"
    BY <1>1, <1>3 DEF Mk!EndRound
  <2>2. FixedPoint
    BY <1>1, <1>3, RoundLeavesAlike
  <2>3. FixedPoint'
    BY <1>1, <2>2 DEF FixedPoint, AlikeByMarks, PairsOf, Mk!IsPairMarked
  <2>4. StandsFor(input', m', Joined')
    BY <1>1, StandsForItself
  <2> QED BY <1>1, <2>1, <2>3, <2>4 DEF MkInv, OnlyDiffering, PairsOf
<1> QED BY <1>2, <1>3

\* What the marks say depends on the marks and the input alone.
LEMMA SameMarks ==
  ASSUME UNCHANGED <<input, marked>>
  PROVE  /\ OnlyDiffering => OnlyDiffering'
         /\ FixedPoint => FixedPoint'
         /\ DataMarked => DataMarked'
         /\ Joined' = Joined
<1>1. \A s, t : Mk!IsPairMarked(s, t)' <=> Mk!IsPairMarked(s, t)
  BY DEF Mk!IsPairMarked
<1>2. \A s, t : AlikeByMarks(s, t)' <=> AlikeByMarks(s, t)
  BY <1>1 DEF AlikeByMarks
<1>3. \A d : Respects(d)' <=> Respects(d)
  BY <1>1 DEF Respects
<1>4. \A s, t : Together(s, t)' <=> Together(s, t)
  BY <1>3 DEF Together
<1>5. \A s : ClassOf(s)' = ClassOf(s)
  BY <1>4 DEF ClassOf
<1>6. Joined' = Joined
  BY <1>5 DEF Joined
<1> QED BY <1>2, <1>6 DEF OnlyDiffering, FixedPoint, DataMarked, PairsOf

\* A state is fused into one it is not marked with: same class, same data.
LEMMA FuseUnmarkedMkInv == ASSUME MkInv, Mk!FuseUnmarkedPair PROVE MkInv'
<1>a. PICK s \in m.live : \E t \in Mk!Unmarked(s) : m' = Fuse(m, t, s)
  BY MkFuse DEF Mk!FuseUnmarkedPair
<1>1. PICK t \in Mk!Unmarked(s) : m' = Fuse(m, t, s)
  BY <1>a
<1>2. /\ pc = "fuse" /\ pc' = pc /\ UNCHANGED <<input, marked>>
      /\ GoodMachine(input) /\ GoodMachine(m) /\ m.live \subseteq input.live
      /\ FixedPoint /\ OnlyDiffering /\ StandsFor(input, m, Joined)
      /\ marked \subseteq PairsOf(input)
  BY DEF Mk!FuseUnmarkedPair, MkInv
<1>3. /\ t \in m.live /\ t # s /\ ~ Mk!IsPairMarked(s, t)
      /\ s \in input.live /\ t \in input.live
  <2>1. t \in m.live /\ t < s /\ ~ Mk!IsPairMarked(s, t)
    BY DEF Mk!Unmarked
  <2>2. t \in Nat /\ s \in Nat
    BY <1>2, <2>1, PointersGood
  <2> QED BY <1>2, <2>1, <2>2
<1>4. Joined[t] = Joined[s]
  BY <1>2, <1>3, JoinedClasses
<1>5. m.data[t] = m.data[s]
  <2>1. AlikeByMarks(s, t)
    BY <1>2, <1>3, UnmarkedAlike
  <2> QED BY <1>2, <2>1 DEF AlikeByMarks, StandsFor
<1>6. GoodMachine(m')
  BY <1>1, <1>2, <1>3, <1>5, FuseGood
<1>7. StandsFor(input, m', Joined)
  BY <1>1, <1>2, <1>3, <1>4, FuseStandsFor
<1>8. m'.live \subseteq m.live
  BY <1>1 DEF Fuse
<1> QED BY <1>2, <1>6, <1>7, <1>8, SameMarks DEF MkInv, PairsOf

LEMMA OtherStepsMkInv ==
  ASSUME MkInv, Mk!FuseDone \/ Mk!Terminated \/ UNCHANGED Mk!vars
  PROVE  MkInv'
<1>1. UNCHANGED <<input, m, marked, todo, modified>>
  BY DEF Mk!FuseDone, Mk!Terminated, Mk!vars
<1>2. CASE Mk!FuseDone
  BY <1>1, <1>2, SameMarks DEF Mk!FuseDone, MkInv, PairsOf
<1>3. CASE UNCHANGED Mk!vars
  <2>1. RoundSound => RoundSound'
    BY <1>3 DEF Mk!vars, RoundSound, PairsOf, Mk!FollowsNull, Mk!ShouldMark,
                Mk!IsPairMarked, Mk!To, Mk!HasTrans
  <2> QED BY <1>3, <2>1, SameMarks DEF Mk!vars, MkInv, PairsOf
<1> QED BY <1>2, <1>3 DEF Mk!Terminated

\* Every step of minimizeStable keeps the invariant.
LEMMA StepMkInv == ASSUME MkInv, [Mk!Next]_(Mk!vars) PROVE MkInv'
BY InitialRoundMkInv, MarkPairMkInv, EndRoundMkInv, FuseUnmarkedMkInv,
   OtherStepsMkInv DEF Mk!Next

\* When no state has an unmarked state before it the machine is the input's
\* quotient by the coarsest stable labelling.
LEMMA MarksQuotient ==
  ASSUME MkInv, Mk!FuseDone
  PROVE  \E rep \in [State -> State] : Quotient(input, rep, m) /\ Minimal(input, rep)
<1>1. /\ pc = "fuse" /\ GoodMachine(input) /\ GoodMachine(m) /\ m.live \subseteq input.live
      /\ FixedPoint /\ OnlyDiffering /\ StandsFor(input, m, Joined)
  BY DEF Mk!FuseDone, MkInv
<1>2. /\ Minimal(input, Joined) /\ Stable(input, Joined)
      /\ \A s \in input.live : Joined[s] # Null
  <2>1. Joined \in [State -> State] /\ input.live \subseteq State /\ Null \notin State
    BY <1>1, JoinedStable, PointersGood, NullAssumption, StateAssumption
  <2> QED BY <1>1, <2>1, JoinedClasses, JoinedStable
<1>3. OnePerLabel(m, Joined)
  <2> SUFFICES ASSUME NEW s \in m.live, NEW t \in m.live, Joined[s] = Joined[t]
               PROVE  s = t
    BY DEF OnePerLabel
  <2>1. ~ Mk!IsPairMarked(s, t) /\ ~ Mk!IsPairMarked(t, s)
    BY <1>1, JoinedClasses
  <2>2. ~ (t < s) /\ ~ (s < t)
    BY <2>1 DEF Mk!FuseDone, Mk!Unmarked
  <2>3. s \in Nat /\ t \in Nat
    BY <1>1, PointersGood
  <2> QED BY <2>2, <2>3
<1>4. /\ Survivor(input, m, Joined) \in [State -> State]
      /\ Quotient(input, Survivor(input, m, Joined), m)
      /\ Minimal(input, Survivor(input, m, Joined))
  BY <1>1, <1>2, <1>3, SurvivorFacts, StandsForIsQuotient, SurvivorStable
<1> QED BY <1>4

\* The invariant holds throughout minimizeStable.
THEOREM MarkInvariance == Mk!Spec => []MkInv
<1>1. Mk!Init => MkInv
  BY InitMkInv
<1>2. MkInv /\ [Mk!Next]_(Mk!vars) => MkInv'
  BY StepMkInv
<1> QED BY <1>1, <1>2, PTL DEF Mk!Spec

\* The marks part of it, in the words of MinMark.
LEMMA MkInvMarks == MkInv => Mk!MarkedDiffer /\ Mk!UnmarkedTransitive
<1>1. MkInv => Mk!MarkedDiffer
  BY MkStable DEF MkInv, OnlyDiffering, Mk!MarkedDiffer
<1>2. MkInv => Mk!UnmarkedTransitive
  <2> SUFFICES ASSUME MkInv, pc = "fuse",
                      NEW s \in m.live, NEW t \in m.live, NEW u \in m.live,
                      ~ Mk!IsPairMarked(s, t), ~ Mk!IsPairMarked(t, u)
               PROVE  ~ Mk!IsPairMarked(s, u)
    BY DEF Mk!UnmarkedTransitive
  <2>1. /\ GoodMachine(input) /\ FixedPoint /\ OnlyDiffering
        /\ s \in input.live /\ t \in input.live /\ u \in input.live
    BY DEF MkInv
  <2> QED BY <2>1, JoinedClasses
<1> QED BY <1>1, <1>2

\* minimizeStable marks only pairs that some input tells apart.
THEOREM MarkedPairsDiffer == Mk!Spec => []Mk!MarkedDiffer
BY MkInvMarks, MarkInvariance, PTL

\* When minimizeStable fuses, each state has one class: being unmarked is
\* transitive on the states that are left, whatever was fused before.
THEOREM UnmarkedIsEquivalence == Mk!Spec => []Mk!UnmarkedTransitive
BY MkInvMarks, MarkInvariance, PTL

----------------------------------------------------------------------------
(* minimizePartition1 leaves the coarsest stable partition.                *)

\* As long as a round has split nothing, the partitions it has passed need
\* no splitting; a split ends that, for numParts then exceeds before.
RoundStable ==
  pc = "split" /\ numParts = before =>
    \A s, t \in m.live : part[s] = part[t] /\ part[s] < p => Alike(m, part, s, t)

RInv == /\ PInv
        /\ p \in Nat /\ p <= numParts
        /\ before \in Nat /\ before <= numParts
        /\ RoundStable

\* The invariant holds when minimizePartition1 is called.
LEMMA InitRInv == Init => RInv
<1> SUFFICES ASSUME Init PROVE RInv
  OBVIOUS
<1>1. PInv
  BY InitPInv DEF Init
<1> QED BY <1>1 DEF Init, PartitionInit, RInv, RoundStable

\* Before the first round no partition has been passed.
LEMMA InitialPartitionRInv == ASSUME RInv, InitialPartition PROVE RInv'
<1>1. PInv'
  BY PartitionByDataFacts DEF RInv, InitialPartition
<1>2. numParts' \in Nat /\ p' = 0 /\ before' = numParts'
  BY <1>1 DEF PInv, NumInv, InitialPartition
<1>3. \A s \in m'.live : part'[s] \in Nat
  BY <1>1, PointersGood DEF PInv,  NumInv
<1> QED BY <1>1, <1>2, <1>3 DEF RInv, RoundStable

\* A turn of partitionRound that splits nothing leaves one more stable
\* partition behind it; one that splits makes numParts exceed before.
LEMMA SplitTurnRInv == ASSUME RInv, SplitTurn PROVE RInv'
<1>1. PICK k \in NewParts(Members(p)) : SplitPartition(p, k)
  BY DEF SplitTurn
<1>2. /\ p \in Nat /\ p < numParts /\ p' = p + 1 /\ before' = before /\ pc' = pc
      /\ numParts \in Nat /\ before \in Nat /\ before <= numParts /\ k \in Nat
      /\ m' = m /\ pc = "split" /\ PInv
  BY <1>1 DEF RInv, SplitTurn, PInv, NumInv, NewParts, SplitPartition
<1>3. /\ PInv'
      /\ \A s, t \in m.live : part'[s] = part'[t] <=>
           part[s] = part[t] /\ (part[s] = p => PartitionEqual(m, part, s, t))
      /\ numParts' = numParts + k
      /\ k = 0 => \A s \in m.live : part'[s] = part[s]
  BY <1>1, <1>2, SplitPartitionFacts
<1>4. p' \in Nat /\ p' <= numParts' /\ before' <= numParts'
  BY <1>2, <1>3
<1>5. RoundStable'
  <2> SUFFICES ASSUME numParts' = before', NEW s \in m.live, NEW t \in m.live,
                      part'[s] = part'[t], part'[s] < p'
               PROVE  Alike(m, part', s, t)
    BY <1>2 DEF RoundStable
  <2>1. k = 0 /\ numParts = before
    BY <1>2, <1>3
  <2>2. \A x \in m.live : part'[x] = part[x] /\ part[x] \in Nat /\ part[x] # Null
    BY <1>2, <1>3, <2>1, LabelsNotNull
  <2>3. Alike(m, part, s, t)
    <3>1. CASE part[s] = p
      BY <1>2, <1>3, <3>1, ComparedAlike DEF PInv
    <3>2. CASE part[s] # p
      <4>1. part[s] < p
        BY <1>2, <2>2, <3>2
      <4> QED BY <1>2, <2>1, <2>2, <4>1 DEF RInv, RoundStable
    <3> QED BY <3>1, <3>2
  <2>4. GoodMachine(m)
    BY <1>2 DEF PInv
  <2> QED BY <2>2, <2>3, <2>4, AlikeKept
<1> QED BY <1>2, <1>3, <1>4, <1>5 DEF RInv

\* Every step of minimizePartition1 keeps the invariant.
LEMMA StepRInv == ASSUME RInv, [Next]_vars PROVE RInv'
<1>1. CASE InitialPartition
  BY <1>1, InitialPartitionRInv
<1>2. CASE SplitTurn
  BY <1>2, SplitTurnRInv
<1>3. CASE RoundAgain
  <2>1. PInv'
    BY <1>3, StutterPInv DEF RoundAgain, RInv
  <2>2. \A s \in m.live : part[s] \in Nat
    BY LabelsNotNull DEF RInv
  <2> QED BY <1>3, <2>1, <2>2 DEF RInv, RoundStable, RoundAgain, PInv, NumInv
<1>4. CASE RoundsDone
  <2>1. PInv'
    BY <1>4, PhasePInv DEF RoundsDone, RInv
  <2> QED BY <1>4, <2>1 DEF RoundsDone, RInv, RoundStable
<1>5. CASE FusePartitions
  <2>1. PInv' /\ pc' # "split" /\ numParts' = numParts
    <3>1. CASE FuseNext
      BY <3>1, FuseNextPInv DEF RInv, FuseNext
    <3>2. CASE FuseDone
      BY <3>2, PhasePInv DEF RInv, FuseDone
    <3> QED BY <1>5, <3>1, <3>2 DEF FusePartitions
  <2> QED BY <1>5, <2>1 DEF FusePartitions, RInv, RoundStable
<1>6. CASE UNCHANGED vars
  <2>1. PInv'
    BY <1>6, StutterPInv DEF RInv, vars
  <2> QED BY <1>6, <2>1 DEF vars, RInv, RoundStable
<1> QED BY <1>1, <1>2, <1>3, <1>4, <1>5, <1>6 DEF Next, Terminated

\* The invariant holds throughout minimizePartition1.
THEOREM RoundsInvariance == Spec => []RInv
<1>1. Init => RInv
  BY InitRInv
<1>2. RInv /\ [Next]_vars => RInv'
  BY StepRInv
<1> QED BY <1>1, <1>2, PTL DEF Spec

\* A round without a split leaves nothing to split.
LEMMA RInvMinimal == RInv => MinimalWhenRoundsEnd
<1> SUFFICES ASSUME RInv, pc = "split", p = numParts, numParts = before
             PROVE  Minimal(m, part)
  BY DEF MinimalWhenRoundsEnd
<1>1. \A s \in m.live : part[s] < p
  BY DEF RInv, PInv, NumInv
<1>2. Stable(m, part)
  BY <1>1 DEF RInv, RoundStable, Stable
<1> QED BY <1>2 DEF RInv, PInv, NeverTooFine, Minimal

\* minimizePartition1 stops splitting only at the coarsest stable partition:
\* a whole round without a split leaves nothing to split.
THEOREM RoundsReachMinimal == Spec => []MinimalWhenRoundsEnd
BY RInvMinimal, RoundsInvariance, PTL
----------------------------------------------------------------------------
(* minimizePartition1 implements MinSpec as minimizePartition2 does.        *)

\* The machine stands for the input in every round and while it is fused.
LEMMA RoundsStepRefineInv ==
  ASSUME RInv, RefineInv, [Next]_vars
  PROVE  RefineInv'
<1>0. PInv
  BY DEF RInv
<1>1. CASE InitialPartition
  BY <1>1 DEF InitialPartition, PartitionByData, RefineInv
<1>2. CASE SplitTurn
  BY <1>2, SameRefineInv DEF SplitTurn, SplitPartition
<1>3. CASE RoundAgain
  BY <1>3, SameRefineInv DEF RoundAgain
<1>4. CASE RoundsDone
  <2>1. Minimal(m, part)
    <3>1. \A s \in m.live : part[s] < p
      BY <1>0, <1>4 DEF RoundsDone, PInv, NumInv
    <3>2. Stable(m, part)
      BY <1>4, <3>1 DEF RoundsDone, RInv, RoundStable, Stable
    <3> QED BY <1>0, <1>4, <3>2 DEF RoundsDone, PInv, NeverTooFine, Minimal
  <2> QED BY <1>0, <1>4, <2>1, FuseBeginsRefineInv DEF RoundsDone
<1>5. CASE FusePartitions
  <2>1. CASE FuseNext
    BY <1>0, <2>1, FuseNextRefineInv
  <2>2. CASE FuseDone
    BY <2>2 DEF FuseDone, RefineInv
  <2> QED BY <1>5, <2>1, <2>2 DEF FusePartitions
<1>6. CASE UNCHANGED vars
  BY <1>6, SameRefineInv DEF vars
<1> QED BY <1>1, <1>2, <1>3, <1>4, <1>5, <1>6 DEF Next, Terminated

\* Every step is a step of MinSpec or leaves its variables alone.
LEMMA RoundsStepAbstract ==
  ASSUME RInv, RefineInv, [Next]_vars
  PROVE  [Abstract!Next]_(Abstract!vars)
<1>1. CASE FuseDone
  BY <1>1, FuseDoneMinimizes DEF RInv, Abstract!Next
<1>2. CASE ~ FuseDone
  <2>1. input' = input /\ (pc = "done" <=> pc' = "done") /\ (pc = "done" => m' = m)
    BY <1>2 DEF Next, vars, InitialPartition, PartitionByData, SplitTurn,
         SplitPartition, RoundAgain, RoundsDone, FusePartitions, FuseNext,
         Terminated
  <2> QED BY <2>1, OtherStepsStutter
<1> QED BY <1>1, <1>2

\* The rounds end in the input's quotient by the coarsest stable labelling,
\* the same promise minimizePartition2 keeps with fewer comparisons.
THEOREM RoundsImplementMinSpec == Spec => AbstractSpec
<1>1. Init => RefineInv /\ Abstract!Init
  BY InitRefineInv DEF Init, PartitionInit, Abstract!Init
<1>2. RInv /\ RefineInv /\ [Next]_vars => RefineInv'
  BY RoundsStepRefineInv
<1>3. RInv /\ RefineInv /\ [Next]_vars => [Abstract!Next]_(Abstract!vars)
  BY RoundsStepAbstract
<1> QED BY <1>1, <1>2, <1>3, RoundsInvariance, PTL DEF Spec, AbstractSpec, Abstract!Spec
-----------------------------------------------------------------------------
(* minimizePartition2.  AfterOp instantiates the other minimizers, so the  *)
(* operators they take from Partition and Fsm have names of their own      *)
(* there.  They are the same operators.                                    *)

LEMMA P2Lookups ==
  ASSUME NEW x, NEW s, NEW t, NEW lab
  PROVE  /\ P2!OutEmpty(x, s) <=> OutEmpty(x, s)
         /\ P2!Preds(x, s) = Preds(x, s)
         /\ P2!InitPartitionEqual(x, s, t) <=> InitPartitionEqual(x, s, t)
         /\ P2!PartitionEqual(x, lab, s, t) <=> PartitionEqual(x, lab, s, t)
<1>1. \A u, j : P2!To(x, u, j) = To(x, u, j)
  BY DEF P2!To, To
<1>2. \A u, j : P2!HasTrans(x, u, j) <=> HasTrans(x, u, j)
  BY DEF P2!HasTrans, HasTrans
<1>3. \A v : P2!PartOf(lab, v) = PartOf(lab, v)
  BY DEF P2!PartOf, PartOf
<1>4. P2!OutEmpty(x, s) <=> OutEmpty(x, s)
  BY <1>2 DEF P2!OutEmpty, OutEmpty
<1>5. P2!Preds(x, s) = Preds(x, s)
  BY <1>1 DEF P2!Preds, Preds
<1>6. P2!InitPartitionEqual(x, s, t) <=> InitPartitionEqual(x, s, t)
  BY <1>2 DEF P2!InitPartitionEqual, InitPartitionEqual, P2!SameTransData, SameTransData
<1>7. P2!PartitionEqual(x, lab, s, t) <=> PartitionEqual(x, lab, s, t)
  BY <1>1, <1>3 DEF P2!PartitionEqual, PartitionEqual
<1> QED BY <1>4, <1>5, <1>6, <1>7

LEMMA P2Fuse ==
  ASSUME NEW x, NEW dest, NEW src
  PROVE  P2!Fuse(x, dest, src) = Fuse(x, dest, src)
<1>1. \A u, j : P2!To(x, u, j) = To(x, u, j)
  BY DEF P2!To, To
<1> QED BY <1>1 DEF P2!Fuse, Fuse, P2!Redirected, Redirected

LEMMA P2Sets ==
  ASSUME NEW S, NEW q
  PROVE  /\ P2!Cardinality(S) = Cardinality(S)
         /\ P2!Members(q) = Members(q)
         /\ P2!NewParts(S) = NewParts(S)
<1>1. \A T : P2!Cardinality(T) = Cardinality(T)
  BY DEF P2!Cardinality, Cardinality
<1> QED BY <1>1 DEF P2!Members, Members, P2!NewParts, NewParts

LEMMA P2Split ==
  ASSUME NEW S, NEW q, NEW k, NEW R
  PROVE  P2!Split(S, q, k, R) <=> Split(S, q, k, R)
BY DEF P2!Split, Split, P2!Assignments, Assignments

LEMMA P2PartitionByData == P2!PartitionByData <=> PartitionByData
<1> DEFINE A == {r \in m.live \X m.live : InitPartitionEqual(m, r[1], r[2])}
           B == {r \in m.live \X m.live : P2!InitPartitionEqual(m, r[1], r[2])}
<1>1. A = B
  BY P2Lookups
<1>2. P2!PartitionByData <=> /\ pc = "init"
                             /\ \E k \in NewParts(m.live) : Split(m.live, 0, k, B)
                             /\ pc' = "split" /\ UNCHANGED <<input, m>>
  BY P2Sets, P2Split DEF P2!PartitionByData
<1> HIDE DEF B
<1> QED BY <1>1, <1>2 DEF PartitionByData

LEMMA P2SplitPartition ==
  ASSUME NEW q, NEW k PROVE P2!SplitPartition(q, k) <=> SplitPartition(q, k)
<1> DEFINE S == Members(q)
           A == {r \in S \X S : PartitionEqual(m, part, r[1], r[2])}
           B == {r \in S \X S : P2!PartitionEqual(m, part, r[1], r[2])}
<1>1. A = B
  BY P2Lookups
<1>2. P2!SplitPartition(q, k) <=> /\ pc = "split" /\ Split(S, q, k, B)
                                  /\ UNCHANGED <<input, m>>
  BY P2Sets, P2Split DEF P2!SplitPartition
<1> HIDE DEF B
<1> QED BY <1>1, <1>2 DEF SplitPartition

LEMMA P2Fusing == (P2!FuseNext <=> FuseNext) /\ (P2!FuseDone <=> FuseDone)
BY P2Fuse, P2Sets DEF P2!FuseNext, FuseNext, P2!FuseDone, FuseDone

\* What minimizePartition2 keeps: a partition off the list is stable.
P2Inv == /\ PInv /\ RefineInv
         /\ splittable \subseteq 0 .. (numParts - 1)
         /\ pc = "split" => StableOff(splittable)

LEMMA P2SplitInv ==
  ASSUME P2Inv, NEW q \in splittable, P2!SplitCandidate(q)
  PROVE  P2Inv'
<1>1. PICK k \in NewParts(Members(q)) :
        /\ SplitPartition(q, k)
        /\ splittable' = (splittable \ {q}) \cup P2!Woken(part', Members(q), k)
  BY P2Sets, P2SplitPartition DEF P2!SplitCandidate
<1>2. /\ q \in Nat /\ q < numParts /\ numParts \in Nat /\ k \in Nat
      /\ pc' = pc /\ m' = m /\ input' = input /\ pc = "split"
  BY <1>1 DEF P2Inv, PInv, NumInv, NewParts, P2!SplitCandidate, SplitPartition
<1>3. PInv' /\ numParts' = numParts + k
  BY <1>1, <1>2, SplitPartitionFacts DEF P2Inv
<1>4. RefineInv'
  BY <1>2, SameRefineInv DEF P2Inv
<1>5. splittable' \subseteq 0 .. (numParts' - 1)
  <2>1. \A s \in m.live : part'[s] \in 0 .. (numParts' - 1)
    <3>1. \A s \in m.live : part'[s] \in Nat /\ part'[s] < numParts'
      BY <1>2, <1>3, PointersGood DEF PInv, NumInv
    <3> QED BY <1>2, <1>3, <3>1
  <2>2. P2!Woken(part', Members(q), k) \subseteq 0 .. (numParts' - 1)
    BY <2>1, P2Lookups DEF P2!Woken, Preds
  <2>3. \A r \in splittable : r \in 0 .. (numParts' - 1)
    <3> SUFFICES ASSUME NEW r \in splittable PROVE r \in 0 .. (numParts' - 1)
      OBVIOUS
    <3>1. r \in 0 .. (numParts - 1)
      BY DEF P2Inv
    <3> QED BY <1>2, <1>3, <3>1
  <2> QED BY <1>1, <2>2, <2>3
<1>6. StableOff(splittable)'
  <2>1. k # 0 => \A t \in Preds(m, Members(q)) :
                   part'[t] \in P2!Woken(part', Members(q), k)
    BY P2Lookups DEF P2!Woken
  <2> QED BY <1>1, <1>2, <2>1, SplitWakes DEF P2Inv, StableOff
<1> QED BY <1>3, <1>4, <1>5, <1>6 DEF P2Inv

LEMMA P2StepInv == ASSUME P2Inv, P2!Next PROVE P2Inv'
<1>1. CASE P2!InitialPartition
  <2>1. /\ PartitionByData
        /\ splittable' = {part'[s] : s \in {t \in m.live : ~ OutEmpty(m, t)}}
    BY <1>1, P2PartitionByData, P2Lookups DEF P2!InitialPartition
  <2>2. PInv' /\ m' = m /\ input' = input /\ pc' = "split" /\ pc = "init"
    BY <2>1, PartitionByDataFacts DEF P2Inv, PartitionByData
  <2>3. \A s \in m.live : part'[s] \in 0 .. (numParts' - 1)
    <3>1. \A s \in m.live : part'[s] \in Nat /\ part'[s] < numParts' /\ numParts' \in Nat
      BY <2>2, PointersGood DEF PInv, NumInv
    <3> QED BY <3>1
  <2>4. StableOff(splittable)'
    BY <2>1, <2>2, EmptyOutsStable DEF P2Inv, StableOff
  <2> QED BY <2>1, <2>2, <2>3, <2>4 DEF P2Inv, RefineInv
<1>2. CASE \E q \in splittable : P2!SplitCandidate(q)
  BY <1>2, P2SplitInv
<1>3. CASE P2!SplitDone
  <2>1. /\ pc = "split" /\ pc' = "fuse" /\ splittable = {}
        /\ UNCHANGED <<input, m, part, numParts, splittable>>
    BY <1>3 DEF P2!SplitDone
  <2>2. Minimal(m, part)
    BY <2>1, AllStableMinimal DEF P2Inv
  <2> QED BY <2>1, <2>2, PhasePInv, FuseBeginsRefineInv DEF P2Inv
<1>4. CASE P2!FusePartitions
  <2>1. (FuseNext \/ FuseDone) /\ UNCHANGED splittable
    BY <1>4, P2Fusing DEF P2!FusePartitions
  <2>2. CASE FuseNext
    <3>1. pc' # "split" /\ numParts' = numParts
      BY <2>2 DEF FuseNext
    <3> QED BY <2>1, <2>2, <3>1, FuseNextPInv, FuseNextRefineInv DEF P2Inv
  <2>3. CASE FuseDone
    <3>1. /\ pc = "fuse" /\ pc' = "done" /\ numParts' = numParts
          /\ UNCHANGED <<input, m, part>>
      BY <2>3 DEF FuseDone
    <3> QED BY <2>1, <3>1, PhasePInv DEF P2Inv, RefineInv
  <2> QED BY <2>1, <2>2, <2>3
<1>5. CASE P2!Terminated
  BY <1>5, StutterPInv DEF P2!Terminated, P2!vars, P2Inv, RefineInv
<1> QED BY <1>1, <1>2, <1>3, <1>4, <1>5 DEF P2!Next
-----------------------------------------------------------------------------
(* minimizeApproximate.                                                    *)

LEMMA ApLookups ==
  ASSUME NEW x, NEW s, NEW t, NEW k, NEW lab, NEW S
  PROVE  /\ Ap!To(x, s, k) = To(x, s, k)
         /\ Ap!HasTrans(x, s, k) <=> HasTrans(x, s, k)
         /\ Ap!PartOf(lab, s) = PartOf(lab, s)
         /\ Ap!Cardinality(S) = Cardinality(S)
BY DEF Ap!To, To, Ap!HasTrans, HasTrans, Ap!PartOf, PartOf,
       Ap!Cardinality, Cardinality

LEMMA ApFuse ==
  ASSUME NEW x, NEW dest, NEW src
  PROVE  Ap!Fuse(x, dest, src) = Fuse(x, dest, src)
BY ApLookups DEF Ap!Fuse, Fuse, Ap!Redirected, Redirected

\* What ApproxCompare looks at; in this order or the other.
LEMMA ApEqualSays ==
  ASSUME NEW s, NEW t
  PROVE  /\ Ap!ApproxEqual(s, t) <=>
              /\ m.data[s].state = m.data[t].state /\ m.eof[s] = m.eof[t]
              /\ \A k \in Key : /\ HasTrans(m, s, k) <=> HasTrans(m, t, k)
                                /\ To(m, s, k) = To(m, t, k)
                                /\ To(m, s, k) # Null =>
                                     m.out[s][k].act = m.out[t][k].act
         /\ Ap!ApproxEqual(s, t) <=> Ap!ApproxEqual(t, s)
BY ApLookups DEF Ap!ApproxEqual, Ap!SameFull

\* What is left of the array while its states are walked.  As long as a
\* round has fused nothing the array holds the whole list, sorted, and no
\* two neighbours passed so far compare equal.
Sorted == \A x, z \in DOMAIN order : x < z /\ Ap!ApproxEqual(order[x], order[z]) =>
            \A y \in x .. z : Ap!ApproxEqual(order[x], order[y])

WalkInv(n) ==
  /\ order \in [1 .. n -> State]
  /\ \A x, z \in 1 .. n : order[x] = order[z] => x = z
  /\ last \in 1 .. n /\ i \in Nat /\ last < i
  /\ Cardinality(m.live) <= n
  /\ order[last] \in m.live
  /\ \A x \in 1 .. n : x >= i => order[x] \in m.live
  /\ ~ modified => /\ last = i - 1 /\ Cardinality(m.live) = n /\ Sorted
                   /\ \A s \in m.live : \E x \in 1 .. n : order[x] = s
                   /\ \A x \in 1 .. n : x + 1 < i =>
                        ~ Ap!ApproxEqual(order[x], order[x + 1])

ApInv == /\ pc \in {"sort", "walk", "done"}
         /\ GoodMachine(input) /\ GoodMachine(m)
         /\ pc = "walk" => \E n \in Nat : WalkInv(n)
         /\ pc = "done" => \A s, t \in m.live : s # t => ~ Ap!ApproxEqual(s, t)

\* A machine has at least its start state, and no more than there are.
LEMMA LiveCount ==
  ASSUME NEW x, GoodMachine(x)
  PROVE  /\ IsFiniteSet(x.live) /\ Cardinality(x.live) \in Nat
         /\ Cardinality(x.live) >= 1
         /\ \A s \in x.live : Cardinality(x.live \ {s}) = Cardinality(x.live) - 1
<1>1. IsFiniteSet(x.live) /\ x.start \in x.live
  BY PointersGood, StateAssumption, FS_Subset
<1>2. Cardinality(x.live) \in Nat /\ Cardinality(x.live) # 0
  BY <1>1, FS_CardinalityType, FS_EmptySet
<1>3. \A s \in x.live : Cardinality(x.live \ {s}) = Cardinality(x.live) - 1
  BY <1>1, FS_RemoveElement
<1> QED BY <1>1, <1>2, <1>3

LEMMA ApSortInv == ASSUME ApInv, Ap!Sort PROVE ApInv'
<1>n. PICK n \in Nat : n = Cardinality(m.live)
  BY LiveCount DEF ApInv
<1> DEFINE D == 1 .. n
<1>1. PICK q \in Ap!SetToSeqs(m.live) :
        /\ \A x, z \in DOMAIN q : x < z /\ Ap!ApproxEqual(q[x], q[z]) =>
             \A y \in x .. z : Ap!ApproxEqual(q[x], q[y])
        /\ order' = q
  BY DEF Ap!Sort
<1>2. /\ pc' = "walk" /\ last' = 1 /\ i' = 2 /\ modified' = FALSE
      /\ UNCHANGED <<input, m>> /\ GoodMachine(input) /\ GoodMachine(m)
  BY DEF Ap!Sort, ApInv
<1>3. n \in Nat /\ n >= 1 /\ IsFiniteSet(m.live) /\ m.live \subseteq State
  BY <1>2, <1>n, LiveCount, PointersGood
<1>4. q \in [D -> m.live] /\ \A x, z \in D : x # z => q[x] # q[z]
  BY <1>n, ApLookups DEF Ap!SetToSeqs
<1>5. \A s \in m.live : \E x \in D : q[x] = s
  <2>1. q \in Injection(D, m.live)
    BY <1>4 DEF Injection, IsInjective
  <2>2. Cardinality(D) = n
    BY <1>3, FS_Interval
  <2>3. q \in Surjection(D, m.live)
    <3> HIDE DEF D
    <3> QED BY <1>3, <1>n, <2>1, <2>2, FS_Injection
  <2> QED BY <2>3 DEF Surjection
<1>6. \A s, t : Ap!ApproxEqual(s, t)' <=> Ap!ApproxEqual(s, t)
  BY <1>2 DEF Ap!ApproxEqual, Ap!SameFull
<1>7. Sorted'
  BY <1>1, <1>6 DEF Sorted
<1>8. 1 \in D /\ q[1] \in m.live /\ \A x \in D : q[x] \in m.live
  BY <1>3, <1>4
<1>9. q \in [D -> State]
  BY <1>3, <1>4
<1>10. \A x \in D : ~ (x + 1 < 2)
  BY <1>3
<1>11. WalkInv(n)'
  BY <1>n, <1>1, <1>2, <1>3, <1>4, <1>5, <1>7, <1>8, <1>9, <1>10 DEF WalkInv
<1> QED BY <1>2, <1>3, <1>11 DEF ApInv

\* A turn of the walk looks at two states of the list, and fuses the later.
LEMMA ApWalkFacts ==
  ASSUME ApInv, Ap!Walk, NEW n \in Nat, WalkInv(n)
  PROVE  /\ last \in 1 .. n /\ i \in 1 .. n /\ last # i
         /\ order[last] \in m.live /\ order[i] \in m.live /\ order[last] # order[i]
         /\ i <= Cardinality(m.live)
         /\ Ap!ApproxEqual(order[last], order[i]) =>
              /\ m' = Fuse(m, order[last], order[i])
              /\ modified' = TRUE /\ last' = last
              /\ m.data[order[last]].state = m.data[order[i]].state
         /\ ~ Ap!ApproxEqual(order[last], order[i]) =>
              last' = i /\ UNCHANGED <<m, modified>>
         /\ i' = i + 1 /\ UNCHANGED <<pc, input, order>> /\ pc = "walk"
<1>1. i <= Cardinality(m.live) /\ Cardinality(m.live) \in Nat
  BY ApLookups, LiveCount DEF Ap!Walk, ApInv
<1>2. /\ last \in 1 .. n /\ i \in Nat /\ last < i /\ i \in 1 .. n /\ last # i
  BY <1>1 DEF WalkInv
<1>3. order[last] \in m.live /\ order[i] \in m.live /\ order[last] # order[i]
  BY <1>2 DEF WalkInv
<1> QED BY <1>1, <1>2, <1>3, ApFuse, ApEqualSays DEF Ap!Walk

LEMMA ApWalkInv == ASSUME ApInv, Ap!Walk PROVE ApInv'
<1>1. PICK n \in Nat : WalkInv(n)
  BY DEF Ap!Walk, ApInv
<1>2. /\ last \in 1 .. n /\ i \in 1 .. n /\ last # i
      /\ order[last] \in m.live /\ order[i] \in m.live /\ order[last] # order[i]
      /\ i <= Cardinality(m.live)
      /\ i' = i + 1 /\ UNCHANGED <<pc, input, order>> /\ pc = "walk"
      /\ GoodMachine(m) /\ GoodMachine(input)
  BY <1>1, ApWalkFacts DEF ApInv
<1>3. CASE Ap!ApproxEqual(order[last], order[i])
  <2>1. /\ m' = Fuse(m, order[last], order[i])
        /\ modified' = TRUE /\ last' = last
        /\ m.data[order[last]].state = m.data[order[i]].state
    BY <1>1, <1>3, ApWalkFacts
  <2>2. GoodMachine(m') /\ m'.live = m.live \ {order[i]}
    BY <1>2, <2>1, FuseGood DEF Fuse
  <2>3. Cardinality(m'.live) <= n
    <3>1. Cardinality(m'.live) = Cardinality(m.live) - 1 /\ Cardinality(m.live) \in Nat
      BY <1>2, <2>2, LiveCount
    <3> QED BY <1>1, <3>1 DEF WalkInv
  <2>4. \A x \in 1 .. n : x >= i' => order[x] \in m'.live
    <3> SUFFICES ASSUME NEW x \in 1 .. n, x >= i + 1
                 PROVE  order[x] \in m.live \ {order[i]}
      BY <1>2, <2>2
    <3>1. x >= i /\ x # i
      BY <1>2
    <3> QED BY <1>1, <1>2, <3>1 DEF WalkInv
  <2>5. last' < i' /\ i' \in Nat
    BY <1>1, <1>2, <2>1 DEF WalkInv
  <2>6. WalkInv(n)'
    BY <1>1, <1>2, <2>1, <2>2, <2>3, <2>4, <2>5 DEF WalkInv
  <2> QED BY <1>2, <2>2, <2>6 DEF ApInv
<1>4. CASE ~ Ap!ApproxEqual(order[last], order[i])
  <2>1. last' = i /\ UNCHANGED <<m, modified>>
    BY <1>1, <1>4, ApWalkFacts
  <2>2. \A s, t : Ap!ApproxEqual(s, t)' <=> Ap!ApproxEqual(s, t)
    BY <2>1 DEF Ap!ApproxEqual, Ap!SameFull
  <2>3. Sorted => Sorted'
    BY <1>2, <2>2 DEF Sorted
  <2>4. /\ last' \in 1 .. n /\ i' \in Nat /\ last' < i' /\ last' = i' - 1
        /\ order'[last'] \in m'.live
        /\ \A x \in 1 .. n : x >= i' => order[x] \in m.live
    BY <1>1, <1>2, <2>1 DEF WalkInv
  <2>5. ASSUME ~ modified, NEW x \in 1 .. n, x + 1 < i'
        PROVE  ~ Ap!ApproxEqual(order[x], order[x + 1])
    <3>1. CASE x + 1 < i
      BY <1>1, <2>5, <3>1 DEF WalkInv
    <3>2. CASE x + 1 = i
      <4>1. last = x
        BY <1>1, <1>2, <2>5, <3>2 DEF WalkInv
      <4> QED BY <1>4, <3>2, <4>1
    <3> QED BY <1>2, <2>5, <3>1, <3>2
  <2>6. WalkInv(n)'
    BY <1>1, <1>2, <2>1, <2>2, <2>3, <2>4, <2>5 DEF WalkInv
  <2> QED BY <1>2, <2>1, <2>6 DEF ApInv
<1> QED BY <1>3, <1>4

\* A round that fused nothing has compared every state with the one after
\* it, and equal states stand together.
LEMMA ApNothingEqual ==
  ASSUME ApInv, pc = "walk", i > Cardinality(m.live), ~ modified
  PROVE  \A s, t \in m.live : s # t => ~ Ap!ApproxEqual(s, t)
<1>1. PICK n \in Nat : WalkInv(n)
  BY DEF ApInv
<1>2. /\ Cardinality(m.live) = n /\ i \in Nat /\ i > n /\ Sorted
      /\ order \in [1 .. n -> State]
      /\ \A s \in m.live : \E x \in 1 .. n : order[x] = s
      /\ \A x \in 1 .. n : x + 1 < i => ~ Ap!ApproxEqual(order[x], order[x + 1])
  BY <1>1 DEF WalkInv
<1>3. ASSUME NEW x \in 1 .. n, NEW z \in 1 .. n, x < z
      PROVE  ~ Ap!ApproxEqual(order[x], order[z])
  <2>1. x + 1 \in x .. z /\ x + 1 < i
    BY <1>2, <1>3
  <2>2. ~ Ap!ApproxEqual(order[x], order[x + 1])
    BY <1>2, <2>1
  <2> QED BY <1>2, <1>3, <2>1, <2>2 DEF Sorted
<1> SUFFICES ASSUME NEW s \in m.live, NEW t \in m.live, s # t,
                    Ap!ApproxEqual(s, t)
             PROVE  FALSE
  OBVIOUS
<1>4. PICK x \in 1 .. n : order[x] = s
  BY <1>2
<1>5. PICK z \in 1 .. n : order[z] = t
  BY <1>2
<1>6. x < z \/ z < x
  BY <1>4, <1>5
<1> QED BY <1>3, <1>4, <1>5, <1>6, ApEqualSays

LEMMA ApStepInv == ASSUME ApInv, Ap!Next PROVE ApInv'
<1>1. CASE Ap!Sort
  BY <1>1, ApSortInv
<1>2. CASE Ap!Walk
  BY <1>2, ApWalkInv
<1>3. CASE Ap!EndRound
  <2>1. /\ pc = "walk" /\ i > Cardinality(m.live)
        /\ pc' = (IF modified THEN "sort" ELSE "done")
        /\ UNCHANGED <<input, m, order, last, i, modified>>
    BY <1>3, ApLookups DEF Ap!EndRound
  <2>2. \A s, t : Ap!ApproxEqual(s, t)' <=> Ap!ApproxEqual(s, t)
    BY <2>1 DEF Ap!ApproxEqual, Ap!SameFull
  <2>3. CASE modified
    BY <2>1, <2>3 DEF ApInv
  <2>4. CASE ~ modified
    BY <2>1, <2>2, <2>4, ApNothingEqual DEF ApInv
  <2> QED BY <2>3, <2>4
<1>4. CASE Ap!Terminated
  <2>1. UNCHANGED <<pc, input, m>> /\ pc = "done"
    BY <1>4 DEF Ap!Terminated, Ap!vars
  <2>2. \A s, t : Ap!ApproxEqual(s, t)' <=> Ap!ApproxEqual(s, t)
    BY <2>1 DEF Ap!ApproxEqual, Ap!SameFull
  <2> QED BY <2>1, <2>2 DEF ApInv
<1> QED BY <1>1, <1>2, <1>3, <1>4 DEF Ap!Next

(* What the fused machine is to the input.  rep sends every state of the   *)
(* input to the state left in its place, nearly alike to it.               *)

ApRep(rep) == /\ StandsFor(input, m, rep) /\ NearlyStable(input, rep)
              /\ \A s \in m.live : rep[s] = s
              /\ \A s \in input.live : rep[s] \in m.live

ApRefineInv == \E rep \in [State -> State] : ApRep(rep)

\* A label of a live state is a state, so only null pointers have none.
LEMMA LabelsTellNull ==
  ASSUME NEW x, GoodMachine(x), NEW lab \in [State -> State], NEW s \in x.live,
         NEW k \in Key
  PROVE  To(x, s, k) = Null <=> PartOf(lab, To(x, s, k)) = Null
<1>1. \A u \in x.live : lab[u] # Null
  BY PointersGood, NullAssumption, StateAssumption
<1> QED BY <1>1, PointersGood DEF PartOf

LEMMA NearlyAlikeRelation ==
  ASSUME NEW x, GoodMachine(x), NEW lab \in [State -> State],
         NEW s \in x.live, NEW t \in x.live, NEW u \in x.live
  PROVE  /\ NearlyAlike(x, lab, s, t) => NearlyAlike(x, lab, t, s)
         /\ NearlyAlike(x, lab, s, t) /\ NearlyAlike(x, lab, t, u)
              => NearlyAlike(x, lab, s, u)
<1>1. \A r \in {s, t, u}, k \in Key :
        To(x, r, k) = Null <=> PartOf(lab, To(x, r, k)) = Null
  BY LabelsTellNull
<1>2. NearlyAlike(x, lab, s, t) => NearlyAlike(x, lab, t, s)
  BY <1>1 DEF NearlyAlike
<1>3. NearlyAlike(x, lab, s, t) /\ NearlyAlike(x, lab, t, u)
        => NearlyAlike(x, lab, s, u)
  BY <1>1 DEF NearlyAlike
<1> QED BY <1>2, <1>3

\* States that are nearly alike stay so under a coarser labelling.
LEMMA NearlyAlikeCoarser ==
  ASSUME NEW x, NEW a, NEW b, GoodMachine(x), \A s \in x.live : a[s] # Null,
         \A s, t \in x.live : a[s] = a[t] => b[s] = b[t],
         NEW s \in x.live, NEW t \in x.live, NearlyAlike(x, a, s, t)
  PROVE  NearlyAlike(x, b, s, t)
<1>1. \A u, v \in x.live \cup {Null} :
        PartOf(a, u) = PartOf(a, v) => PartOf(b, u) = PartOf(b, v)
  BY PointersGood DEF PartOf
<1> QED BY <1>1, PointersGood DEF NearlyAlike

LEMMA ApRepBegins ==
  ASSUME GoodMachine(input'), m' = input' PROVE ApRefineInv'
<1> DEFINE rep == [s \in State |-> s]
<1>1. rep \in [State -> State] /\ \A s \in input'.live : rep[s] = s
  BY PointersGood
<1>2. NearlyStable(input', rep)
  BY <1>1 DEF NearlyStable, NearlyAlike
<1>3. StandsFor(input', m', rep)
  BY StandsForItself
<1>4. ApRep(rep)'
  BY <1>1, <1>2, <1>3 DEF ApRep
<1> QED BY <1>1, <1>4 DEF ApRefineInv

\* Two states that compare equal lead to the same states of the machine,
\* hence to states of the input that are represented by the same.
LEMMA ApEqualAlike ==
  ASSUME ApInv, NEW rep \in [State -> State], ApRep(rep),
         NEW s \in m.live, NEW t \in m.live, Ap!ApproxEqual(s, t)
  PROVE  NearlyAlike(input, rep, s, t)
<1>1. /\ GoodMachine(input) /\ GoodMachine(m) /\ m.live \subseteq input.live
      /\ m.data = input.data /\ m.eof = input.eof /\ SamePointers(input, m, rep)
  BY DEF ApInv, ApRep, StandsFor, SamePointers
<1>2. input.data[s].state = input.data[t].state /\ input.eof[s] = input.eof[t]
  BY <1>1, ApEqualSays
<1>3. ASSUME NEW k \in Key
      PROVE  /\ HasTrans(input, s, k) <=> HasTrans(input, t, k)
             /\ PartOf(rep, To(input, s, k)) = PartOf(rep, To(input, t, k))
             /\ To(input, s, k) # Null => input.out[s][k].act = input.out[t][k].act
  <2>1. \A u \in {s, t} :
          /\ HasTrans(m, u, k) <=> HasTrans(input, u, k)
          /\ HasTrans(m, u, k) => m.out[u][k].act = input.out[u][k].act
          /\ PartOf(rep, To(m, u, k)) = PartOf(rep, To(input, u, k))
    BY <1>1 DEF SamePointers
  <2>2. /\ HasTrans(m, s, k) <=> HasTrans(m, t, k)
        /\ To(m, s, k) = To(m, t, k)
        /\ To(m, s, k) # Null => m.out[s][k].act = m.out[t][k].act
    BY ApEqualSays
  <2>3. CASE To(m, s, k) # Null
    <3>1. HasTrans(m, s, k)
      BY <2>3 DEF To, HasTrans
    <3> QED BY <2>1, <2>2, <2>3, <3>1
  <2>4. CASE To(m, s, k) = Null
    <3>1. PartOf(rep, To(input, s, k)) = Null
      BY <2>1, <2>4 DEF PartOf
    <3>2. To(input, s, k) = Null
      BY <1>1, <3>1, LabelsTellNull
    <3> QED BY <2>1, <2>2, <3>2
  <2> QED BY <2>3, <2>4
<1> QED BY <1>2, <1>3 DEF NearlyAlike

\* After a fuse the states that src stood for are represented by dest.
LEMMA ApFuseRep ==
  ASSUME ApInv, NEW rep \in [State -> State], ApRep(rep),
         NEW dest \in m.live, NEW src \in m.live, dest # src,
         Ap!ApproxEqual(dest, src), m' = Fuse(m, dest, src), input' = input
  PROVE  ApRefineInv'
<1> DEFINE new == [s \in State |-> IF rep[s] = src THEN dest ELSE rep[s]]
<1>1. /\ GoodMachine(input) /\ GoodMachine(m) /\ m.live \subseteq input.live
      /\ input.live \subseteq State /\ dest \in State /\ src \in State
      /\ StandsFor(input, m, rep) /\ NearlyStable(input, rep)
      /\ rep[dest] = dest /\ rep[src] = src
  BY PointersGood DEF ApInv, ApRep, StandsFor
<1>2. /\ new \in [State -> State]
      /\ \A s \in State : new[s] = IF rep[s] = src THEN dest ELSE rep[s]
      /\ \A s, t \in input.live : rep[s] = rep[t] => new[s] = new[t]
      /\ \A s \in input.live : rep[s] # Null
  <2>1. \A s \in input.live : rep[s] \in State
    BY <1>1
  <2> QED BY <1>1, <2>1, NullAssumption, StateAssumption
<1> HIDE DEF new
<1>3. StandsFor(input, m, new)
  BY <1>1, <1>2, CoarserStandsFor
<1>4. new[dest] = new[src]
  BY <1>1, <1>2
<1>5. StandsFor(input, m', new)
  BY <1>1, <1>3, <1>4, FuseStandsFor
<1>6. \A s, t \in input.live : NearlyAlike(input, rep, s, t) => NearlyAlike(input, new, s, t)
  BY <1>1, <1>2, NearlyAlikeCoarser
<1>7. NearlyAlike(input, new, dest, src)
  BY <1>1, <1>6, ApEqualAlike
<1>8. NearlyStable(input, new)
  <2> SUFFICES ASSUME NEW s \in input.live, NEW t \in input.live, new[s] = new[t]
               PROVE  NearlyAlike(input, new, s, t)
    BY DEF NearlyStable
  <2>1. ASSUME NEW u \in input.live
        PROVE  /\ rep[u] \in m.live /\ rep[rep[u]] = rep[u]
               /\ NearlyAlike(input, new, u, rep[u])
    <3>1. rep[u] \in m.live /\ rep[rep[u]] = rep[u]
      BY DEF ApRep
    <3>2. NearlyAlike(input, rep, u, rep[u])
      BY <1>1, <3>1 DEF NearlyStable
    <3> QED BY <1>1, <1>6, <3>1, <3>2
  <2>2. ASSUME NEW u \in input.live PROVE NearlyAlike(input, new, u, new[u])
    <3>1. CASE rep[u] = src
      <4>1. NearlyAlike(input, new, u, src) /\ new[u] = dest
        BY <1>1, <1>2, <2>1, <3>1
      <4> QED BY <1>1, <1>2, <1>7, <4>1, NearlyAlikeRelation
    <3>2. CASE rep[u] # src
      BY <1>1, <1>2, <2>1, <3>2
    <3> QED BY <3>1, <3>2
  <2>3. NearlyAlike(input, new, s, new[s]) /\ NearlyAlike(input, new, t, new[s])
    BY <2>2
  <2>4. new[s] \in input.live
    BY <1>1, <1>2 DEF ApRep
  <2> QED BY <1>1, <1>2, <2>3, <2>4, NearlyAlikeRelation
<1>9. m'.live = m.live \ {src}
  BY DEF Fuse
<1>10. \A s \in m'.live : new[s] = s
  BY <1>1, <1>2, <1>9 DEF ApRep
<1>11. \A s \in input.live : new[s] \in m'.live
  BY <1>1, <1>2, <1>9 DEF ApRep
<1>12. ApRep(new)'
  BY <1>5, <1>8, <1>10, <1>11 DEF ApRep
<1> QED BY <1>2, <1>12 DEF ApRefineInv

LEMMA ApStepRefineInv ==
  ASSUME ApInv, ApRefineInv, Ap!Next
  PROVE  ApRefineInv'
<1>1. PICK rep \in [State -> State] : ApRep(rep)
  BY DEF ApRefineInv
<1>2. CASE UNCHANGED <<input, m>>
  BY <1>2 DEF ApRefineInv, ApRep
<1>3. CASE Ap!Walk
  <2>1. PICK n \in Nat : WalkInv(n)
    BY <1>3 DEF Ap!Walk, ApInv
  <2>2. CASE Ap!ApproxEqual(order[last], order[i])
    BY <1>1, <1>3, <2>1, <2>2, ApWalkFacts, ApFuseRep
  <2>3. CASE ~ Ap!ApproxEqual(order[last], order[i])
    BY <1>2, <1>3, <2>1, <2>3, ApWalkFacts
  <2> QED BY <2>2, <2>3
<1> QED BY <1>2, <1>3 DEF Ap!Next, Ap!Sort, Ap!EndRound, Ap!Terminated, Ap!vars

\* So it keeps some states of the input, each with all that it carries.
LEMMA ApRetract ==
  ASSUME ApInv, ApRefineInv
  PROVE  \E rep \in [State -> State] : Retract(input, rep, m) /\ NearlyStable(input, rep)
<1>1. PICK rep \in [State -> State] : ApRep(rep)
  BY DEF ApRefineInv
<1>2. /\ GoodMachine(input) /\ GoodMachine(m) /\ m \in Machine
      /\ m.live \subseteq input.live /\ m.live \subseteq State
      /\ m.data = input.data /\ m.eof = input.eof
      /\ SamePointers(input, m, rep) /\ Closed(m) /\ Closed(input)
  BY <1>1, PointersGood DEF ApInv, ApRep, StandsFor, SamePointers, GoodMachine
<1>3. /\ \A s \in m.live : rep[s] = s
      /\ \A s \in input.live : rep[s] \in m.live
  BY <1>1 DEF ApRep
<1>4. \A u \in m.live \cup {Null} : PartOf(rep, u) = u
  BY <1>2, <1>3, PointersGood DEF PartOf
<1>5. m.live = {rep[s] : s \in input.live}
  BY <1>2, <1>3
<1>6. m.start = rep[input.start]
  BY <1>2, <1>3 DEF SamePointers, Closed
<1>7. m.entry = {<<e[1], rep[e[2]]>> : e \in input.entry}
  <2>1. ASSUME NEW e \in m.entry
        PROVE  e[2] \in m.live /\ e = <<e[1], e[2]>> /\ rep[e[2]] = e[2]
    BY <1>2, <1>3, MachineFields DEF Closed
  <2>2. ASSUME NEW e \in m.entry
        PROVE  \E d \in input.entry : e = <<d[1], rep[d[2]]>>
    <3>1. PICK d \in input.entry : d[1] = e[1] /\ rep[d[2]] = rep[e[2]]
      BY <1>2 DEF SamePointers
    <3> QED BY <2>1, <3>1
  <2>3. ASSUME NEW d \in input.entry
        PROVE  <<d[1], rep[d[2]]>> \in m.entry
    <3>1. PICK e \in m.entry : e[1] = d[1] /\ rep[e[2]] = rep[d[2]]
      BY <1>2 DEF SamePointers
    <3> QED BY <2>1, <3>1
  <2> QED BY <2>2, <2>3
<1>8. \A s \in m.live : m.eof[s] = PartOf(rep, input.eof[s])
  BY <1>2, <1>4 DEF Closed
<1>9. ASSUME NEW s \in m.live, NEW k \in Key
      PROVE  m.out[s][k] =
               IF HasTrans(input, s, k)
               THEN [to  |-> PartOf(rep, To(input, s, k)),
                     act |-> input.out[s][k].act]
               ELSE NoTrans
  <2>1. /\ HasTrans(m, s, k) <=> HasTrans(input, s, k)
        /\ HasTrans(m, s, k) => m.out[s][k].act = input.out[s][k].act
        /\ PartOf(rep, To(m, s, k)) = PartOf(rep, To(input, s, k))
    BY <1>2 DEF SamePointers
  <2>2. To(m, s, k) = PartOf(rep, To(input, s, k))
    <3>1. To(m, s, k) \in m.live \cup {Null}
      BY <1>2 DEF Closed
    <3> QED BY <1>4, <2>1, <3>1
  <2>3. CASE ~ HasTrans(m, s, k)
    BY <2>1, <2>3 DEF HasTrans
  <2>4. CASE HasTrans(m, s, k)
    <3>1. m.out[s][k] \in [to : State \cup {Null}, act : Act]
      <4>1. m.out[s][k] \in Trans
        BY <1>2, MachineFields
      <4> QED BY <2>4, <4>1 DEF Trans, HasTrans
    <3>2. m.out[s][k] = [to |-> m.out[s][k].to, act |-> m.out[s][k].act]
      BY <3>1
    <3>3. m.out[s][k].to = To(m, s, k)
      BY <2>4 DEF To, HasTrans
    <3> QED BY <2>1, <2>2, <2>4, <3>2, <3>3
  <2> QED BY <2>3, <2>4
<1>10. Retract(input, rep, m)
  BY <1>2, <1>3, <1>5, <1>6, <1>7, <1>8, <1>9 DEF Retract
<1> QED BY <1>1, <1>10 DEF ApRep

\* No two states of the machine differ only in what ApproxCompare does not
\* look at.
NothingHidden(x) ==
  \A s, t \in x.live : x.data[s].state = x.data[t].state =>
    /\ x.data[s] = x.data[t]
    /\ \A k \in Key :
         HasTrans(x, s, k) /\ HasTrans(x, t, k) /\ To(x, s, k) = Null /\ To(x, t, k) = Null
           => x.out[s][k].act = x.out[t][k].act

\* Of such a machine a quotient is left.
LEMMA RetractIsQuotient ==
  ASSUME NEW x, NEW rep \in [State -> State], NEW y, GoodMachine(x),
         NothingHidden(x), NearlyStable(x, rep), Retract(x, rep, y)
  PROVE  Quotient(x, rep, y) /\ Stable(x, rep)
<1>1. ASSUME NEW s \in x.live, NEW t \in x.live, NearlyAlike(x, rep, s, t)
      PROVE  Alike(x, rep, s, t)
  <2>1. x.data[s] = x.data[t] /\ PartOf(rep, x.eof[s]) = PartOf(rep, x.eof[t])
    BY <1>1 DEF NearlyAlike, NothingHidden
  <2>2. ASSUME NEW k \in Key
        PROVE  /\ HasTrans(x, s, k) <=> HasTrans(x, t, k)
               /\ HasTrans(x, s, k) => x.out[s][k].act = x.out[t][k].act
               /\ PartOf(rep, To(x, s, k)) = PartOf(rep, To(x, t, k))
    <3>1. /\ HasTrans(x, s, k) <=> HasTrans(x, t, k)
          /\ PartOf(rep, To(x, s, k)) = PartOf(rep, To(x, t, k))
          /\ To(x, s, k) # Null => x.out[s][k].act = x.out[t][k].act
      BY <1>1 DEF NearlyAlike
    <3>2. To(x, s, k) = Null <=> To(x, t, k) = Null
      BY <3>1, LabelsTellNull
    <3>3. CASE To(x, s, k) = Null /\ HasTrans(x, s, k)
      BY <1>1, <3>1, <3>2, <3>3 DEF NothingHidden, NearlyAlike
    <3> QED BY <3>1, <3>3
  <2> QED BY <2>1, <2>2 DEF Alike, HasTrans, To
<1>2. Stable(x, rep)
  BY <1>1 DEF Stable, NearlyStable
<1>3. ASSUME NEW s \in x.live
      PROVE  /\ rep[s] \in y.live /\ rep[s] \in x.live /\ rep[rep[s]] = rep[s]
             /\ Alike(x, rep, s, rep[s])
  <2>1. rep[s] \in y.live /\ rep[s] \in x.live /\ rep[rep[s]] = rep[s]
    BY DEF Retract
  <2> QED BY <1>2, <2>1 DEF Stable
<1>4. ASSUME NEW s \in x.live
      PROVE  /\ y.data[rep[s]] = x.data[s]
             /\ y.eof[rep[s]] = PartOf(rep, x.eof[s])
  BY <1>3 DEF Alike, Retract
<1>5. ASSUME NEW s \in x.live, NEW k \in Key
      PROVE  y.out[rep[s]][k] =
               IF HasTrans(x, s, k)
               THEN [to |-> PartOf(rep, To(x, s, k)), act |-> x.out[s][k].act]
               ELSE NoTrans
  <2>1. y.out[rep[s]][k] =
          IF HasTrans(x, rep[s], k)
          THEN [to |-> PartOf(rep, To(x, rep[s], k)), act |-> x.out[rep[s]][k].act]
          ELSE NoTrans
    BY <1>3 DEF Retract
  <2>2. /\ HasTrans(x, s, k) <=> HasTrans(x, rep[s], k)
        /\ HasTrans(x, s, k) => /\ x.out[s][k].act = x.out[rep[s]][k].act
                                /\ PartOf(rep, To(x, s, k)) = PartOf(rep, To(x, rep[s], k))
    BY <1>3 DEF Alike, HasTrans, To
  <2> QED BY <2>1, <2>2
<1>6. /\ y.live = {rep[s] : s \in x.live}
      /\ y.start = rep[x.start]
      /\ y.entry = {<<e[1], rep[e[2]]>> : e \in x.entry}
  BY DEF Retract
<1> QED BY <1>2, <1>4, <1>5, <1>6 DEF Quotient
-----------------------------------------------------------------------------
(* The composition.  Once the graph is cleaned the machine of whichever    *)
(* minimizer runs keeps that minimizer's invariant; cleaning hands it a    *)
(* good machine, since what can be reached is closed (CutDownGood).        *)

AtStart == /\ part = [s \in State |-> 0] /\ numParts = 1 /\ p = 0 /\ before = 0
           /\ splittable = {} /\ marked = {} /\ todo = {} /\ modified = FALSE

OpInv ==
  /\ GoodMachine(graph)
  /\ level \in {"partition1", "partition2", "stable", "approx"}
  /\ pc = "clean" => AtStart
  /\ pc # "clean" =>
       /\ input = Cleaned(graph)
       /\ level = "partition1" => RInv /\ RefineInv
       /\ level = "partition2" => P2Inv /\ p = 0
       /\ level = "stable" => MkInv
       /\ level = "approx" => ApInv

\* Cleaning leaves a good machine.
LEMMA CleanedGood == ASSUME GoodMachine(graph) PROVE GoodMachine(Cleaned(graph))
BY CutDownGood DEF Cleaned

LEMMA OpInitInv == OpInit => OpInv
BY MachinesGood DEF OpInit, OpInv, AtStart

LEMMA CleanOpInv == ASSUME OpInv, RemoveUnreachableStates PROVE OpInv'
<1>1. /\ pc = "clean" /\ AtStart
      /\ input' = Cleaned(graph) /\ m' = input'
      /\ pc' = IF level = "approx" THEN "sort" ELSE "init"
      /\ UNCHANGED <<level, graph, part, numParts, p, before, splittable,
                     marked, todo, modified>>
  BY DEF OpInv, RemoveUnreachableStates, ofP1, ofP2, ofMk
<1>2. GoodMachine(input') /\ GoodMachine(m') /\ input' = Cleaned(graph)'
  BY <1>1, CleanedGood DEF OpInv, Cleaned
<1>3. pc' = "init" => PInv' /\ RefineInv'
  BY <1>1, <1>2 DEF AtStart, PInv, NumInv, DataInv, InitRespected, NeverTooFine,
                    RefineInv
<1>4. pc' = "init" => RInv'
  BY <1>1, <1>3 DEF AtStart, RInv, RoundStable
<1>5. pc' = "init" => P2Inv'
  BY <1>1, <1>3 DEF AtStart, P2Inv
<1>6. pc' = "init" => MkInv'
  BY <1>1, <1>2 DEF AtStart, MkInv
<1>7. pc' = "sort" => ApInv'
  BY <1>1, <1>2 DEF ApInv
<1>8. p' = 0
  BY <1>1 DEF AtStart
<1> QED BY <1>1, <1>2, <1>3, <1>4, <1>5, <1>6, <1>7, <1>8 DEF OpInv

\* No minimizer changes the machine it was called on.
LEMMA InputKept == ASSUME Minimizing PROVE input' = input
<1>1. Next => input' = input
  BY DEF Next, InitialPartition, PartitionByData, SplitTurn, SplitPartition,
         RoundAgain, RoundsDone, FusePartitions, FuseNext, FuseDone, Terminated, vars
<1>2. P2!Next => input' = input
  BY DEF P2!Next, P2!InitialPartition, P2!PartitionByData, P2!SplitCandidate,
         P2!SplitPartition, P2!SplitDone, P2!FusePartitions, P2!FuseNext,
         P2!FuseDone, P2!Terminated, P2!vars
<1>3. Mk!Next => input' = input
  BY DEF Mk!Next, Mk!InitialMarkRound, Mk!MarkPair, Mk!EndRound,
         Mk!FuseUnmarkedPair, Mk!FuseDone, Mk!Terminated, Mk!vars
<1>4. Ap!Next => input' = input
  BY DEF Ap!Next, Ap!Sort, Ap!Walk, Ap!EndRound, Ap!Terminated, Ap!vars
<1> QED BY <1>1, <1>2, <1>3, <1>4 DEF Minimizing

\* Each minimizer's step keeps its own invariant and leaves the others' be.
LEMMA MinimizingOpInv == ASSUME OpInv, Minimizing PROVE OpInv'
<1>1. /\ pc # "clean" /\ UNCHANGED <<level, graph, input>> /\ GoodMachine(graph)
      /\ input = Cleaned(graph) /\ Cleaned(graph)' = Cleaned(graph)
      /\ level \in {"partition1", "partition2", "stable", "approx"}
  BY InputKept DEF OpInv, Minimizing, Cleaned
<1>2. CASE level = "partition1"
  <2>1. RInv /\ RefineInv /\ Next
    BY <1>1, <1>2 DEF OpInv, Minimizing
  <2>2. RInv' /\ RefineInv'
    BY <2>1, StepRInv, RoundsStepRefineInv
  <2>3. pc' # "clean"
    BY <2>2 DEF RInv, PInv
  <2> QED BY <1>1, <1>2, <2>2, <2>3 DEF OpInv
<1>3. CASE level = "partition2"
  <2>1. P2Inv /\ P2!Next /\ p' = 0
    BY <1>1, <1>3 DEF OpInv, Minimizing
  <2>2. P2Inv'
    BY <2>1, P2StepInv
  <2>3. pc' # "clean"
    BY <2>2 DEF P2Inv, PInv
  <2> QED BY <1>1, <1>3, <2>1, <2>2, <2>3 DEF OpInv
<1>4. CASE level = "stable"
  <2>1. MkInv /\ Mk!Next
    BY <1>1, <1>4 DEF OpInv, Minimizing
  <2>2. MkInv'
    BY <2>1, StepMkInv
  <2>3. pc' # "clean"
    BY <2>2 DEF MkInv
  <2> QED BY <1>1, <1>4, <2>2, <2>3 DEF OpInv
<1>5. CASE level = "approx"
  <2>1. ApInv /\ Ap!Next
    BY <1>1, <1>5 DEF OpInv, Minimizing
  <2>2. ApInv'
    BY <2>1, ApStepInv
  <2>3. pc' # "clean"
    BY <2>2 DEF ApInv
  <2> QED BY <1>1, <1>5, <2>2, <2>3 DEF OpInv
<1> QED BY <1>1, <1>2, <1>3, <1>4, <1>5

\* An invariant reads nothing but variables.
LEMMA StutterOpInv == ASSUME OpInv, UNCHANGED opVars PROVE OpInv'
<1> USE DEF opVars, vars
<1>1. AtStart => AtStart'
  BY DEF AtStart
<1>2. RInv => RInv'
  BY StutterPInv DEF RInv, RoundStable
<1>3. RefineInv => RefineInv'
  BY DEF RefineInv
<1>4. P2Inv => P2Inv'
  BY <1>3, StutterPInv DEF P2Inv, StableOff
<1>5. MkInv => MkInv'
  BY StepMkInv DEF Mk!vars
<1>6. ApInv => ApInv'
  <2>1. \A s, t : Ap!ApproxEqual(s, t)' <=> Ap!ApproxEqual(s, t)
    BY DEF Ap!ApproxEqual, Ap!SameFull
  <2>2. \A n : WalkInv(n) => WalkInv(n)'
    BY <2>1 DEF WalkInv, Sorted
  <2> QED BY <2>1, <2>2 DEF ApInv
<1>7. UNCHANGED <<pc, input, p, level, graph>> /\ Cleaned(graph)' = Cleaned(graph)
  BY DEF Cleaned
<1> HIDE DEF opVars, vars
<1>8. CASE pc = "clean"
  BY <1>1, <1>7, <1>8 DEF OpInv
<1>9. CASE pc # "clean"
  <2>1. /\ input = Cleaned(graph) /\ GoodMachine(graph)
        /\ level \in {"partition1", "partition2", "stable", "approx"}
        /\ level = "partition1" => RInv' /\ RefineInv'
        /\ level = "partition2" => P2Inv' /\ p = 0
        /\ level = "stable" => MkInv'
        /\ level = "approx" => ApInv'
    BY <1>2, <1>3, <1>4, <1>5, <1>6, <1>9 DEF OpInv
  <2> QED BY <1>7, <1>9, <2>1 DEF OpInv
<1> QED BY <1>8, <1>9

\* The invariant holds throughout afterOpMinimize, whichever minimizer runs.
THEOREM OpInvariance == OpSpec => []OpInv
<1>1. OpInv /\ [OpNext]_opVars => OpInv'
  BY CleanOpInv, MinimizingOpInv, StutterOpInv DEF OpNext
<1> QED BY <1>1, OpInitInv, PTL DEF OpSpec

\* No pointer of a state on the main list, nor the start or an entry point,
\* ever leads to a state that removeUnreachableStates or fuseEquivStates has
\* taken off it.
THEOREM OpLeavesNoDanglingPointer == OpSpec => []OpNoDangling
<1>1. OpInv => OpNoDangling
  BY DEF OpInv, OpNoDangling, RInv, P2Inv, PInv, MkInv, ApInv, GoodMachine
<1> QED BY <1>1, OpInvariance, PTL

\* The marks of minimizeStable are right on the graph it is really given.
THEOREM OpMarksDiffer == OpSpec => []MarkedDiffer
<1>1. OpInv => MarkedDiffer
  <2> SUFFICES ASSUME OpInv, level = "stable"
               PROVE  Mk!MarkedDiffer /\ Mk!UnmarkedTransitive
    BY DEF MarkedDiffer
  <2>1. CASE pc = "clean"
    BY <2>1 DEF Mk!MarkedDiffer, Mk!UnmarkedTransitive
  <2>2. CASE pc # "clean"
    BY <2>2, MkInvMarks DEF OpInv
  <2> QED BY <2>1, <2>2
<1> QED BY <1>1, OpInvariance, PTL

\* minimizeApproximate reads no deleted state from its sorted array, though
\* the bound of its walk shrinks under it, and stops with no two equal left.
THEOREM OpWalkIsSound == OpSpec => []WalkSound
<1>1. OpInv => WalkSound
  <2> SUFFICES ASSUME OpInv, level = "approx"
               PROVE  Ap!FuseLive /\ Ap!NothingLeft
    BY DEF WalkSound
  <2>1. CASE pc = "clean"
    BY <2>1 DEF Ap!FuseLive, Ap!NothingLeft
  <2>2. CASE pc # "clean"
    <3>1. ApInv
      BY <2>2 DEF OpInv
    <3>2. Ap!NothingLeft
      BY <3>1 DEF ApInv, Ap!NothingLeft
    <3>3. ASSUME pc = "walk"
          PROVE  /\ order[last] \in m.live
                 /\ \A x \in i .. Cardinality(m.live) : order[x] \in m.live
      <4>1. PICK n \in Nat : WalkInv(n)
        BY <3>1, <3>3 DEF ApInv
      <4>2. Cardinality(m.live) \in Nat
        BY <3>1, LiveCount DEF ApInv
      <4>3. \A x \in i .. Cardinality(m.live) : x \in 1 .. n /\ x >= i
        BY <4>1, <4>2 DEF WalkInv
      <4> QED BY <4>1, <4>3 DEF WalkInv
    <3>4. Ap!FuseLive
      BY <3>3, ApLookups DEF Ap!FuseLive
    <3> QED BY <3>2, <3>4
  <2> QED BY <2>1, <2>2
<1> QED BY <1>1, OpInvariance, PTL

\* No round of minimizePartition1 ends early on the graph it is given.
THEOREM OpRoundsReachMinimal == OpSpec => []MinimalWhenRoundsEnd
<1>1. OpInv => MinimalWhenRoundsEnd
  <2> SUFFICES ASSUME OpInv, pc = "split", p = numParts, numParts = before
               PROVE  Minimal(m, part)
    BY DEF MinimalWhenRoundsEnd
  <2>1. level = "partition1" \/ level = "partition2"
    BY DEF OpInv, MkInv, ApInv
  <2>2. level # "partition2"
    BY DEF OpInv, P2Inv, PInv, NumInv
  <2>3. RInv
    BY <2>1, <2>2 DEF OpInv
  <2> QED BY <2>3, RInvMinimal DEF MinimalWhenRoundsEnd
<1> QED BY <1>1, OpInvariance, PTL
-----------------------------------------------------------------------------
(* The refinement of MinSpec by all four.                                  *)

\* MinSpec is instantiated too: its promise in the words of Fsm.
LEMMA OpPromise ==
  ASSUME NEW x, NEW rep, NEW y
  PROVE  /\ Op!Quotient(x, rep, y) <=> Quotient(x, rep, y)
         /\ Op!Stable(x, rep) <=> Stable(x, rep)
         /\ Op!Minimal(x, rep) <=> Minimal(x, rep)
         /\ Op!Retract(x, rep, y) <=> Retract(x, rep, y)
         /\ Op!NearlyStable(x, rep) <=> NearlyStable(x, rep)
<1>1. \A s, k : Op!To(x, s, k) = To(x, s, k)
  BY DEF Op!To, To
<1>2. \A s, k : Op!HasTrans(x, s, k) <=> HasTrans(x, s, k)
  BY DEF Op!HasTrans, HasTrans
<1>3. \A lab, u : Op!PartOf(lab, u) = PartOf(lab, u)
  BY DEF Op!PartOf, PartOf
<1>4. Op!Quotient(x, rep, y) <=> Quotient(x, rep, y)
  BY <1>1, <1>2, <1>3 DEF Op!Quotient, Quotient
<1>5. \A lab, s, t : Op!Alike(x, lab, s, t) <=> Alike(x, lab, s, t)
  BY <1>3 DEF Op!Alike, Alike
<1>6. \A lab : Op!Stable(x, lab) <=> Stable(x, lab)
  BY <1>5 DEF Op!Stable, Stable
<1>7. \A a, b : Op!Coarser(x, a, b) <=> Coarser(x, a, b)
  BY DEF Op!Coarser, Coarser
<1>8. Op!Minimal(x, rep) <=> Minimal(x, rep)
  BY <1>6, <1>7 DEF Op!Minimal, Minimal
<1>9. Op!Retract(x, rep, y) <=> Retract(x, rep, y)
  BY <1>1, <1>2, <1>3 DEF Op!Retract, Retract
<1>10. \A lab, s, t : Op!NearlyAlike(x, lab, s, t) <=> NearlyAlike(x, lab, s, t)
  BY <1>1, <1>2, <1>3 DEF Op!NearlyAlike, NearlyAlike
<1>11. Op!NearlyStable(x, rep) <=> NearlyStable(x, rep)
  BY <1>10 DEF Op!NearlyStable, NearlyStable
<1> QED BY <1>4, <1>6, <1>8, <1>9, <1>11

\* While minimizeApproximate fuses, the machine stands for the cleaned graph.
OpRefineInv == level = "approx" /\ pc # "clean" => ApRefineInv

LEMMA OpStepRefineInv ==
  ASSUME OpInv, OpRefineInv, [OpNext]_opVars PROVE OpRefineInv'
<1>1. UNCHANGED <<level, graph>>
  BY DEF OpNext, RemoveUnreachableStates, Minimizing, opVars
<1>3. CASE level = "approx" /\ RemoveUnreachableStates
  <2>1. GoodMachine(input') /\ m' = input'
    BY <1>3, CleanedGood DEF OpInv, RemoveUnreachableStates
  <2>2. ApRefineInv'
    BY <2>1, ApRepBegins
  <2> QED BY <2>2 DEF OpRefineInv
<1>4. CASE level = "approx" /\ Minimizing
  <2>1. ApInv /\ ApRefineInv /\ Ap!Next
    BY <1>4 DEF OpInv, OpRefineInv, Minimizing
  <2> QED BY <2>1, ApStepRefineInv DEF OpRefineInv
<1>5. CASE UNCHANGED opVars
  <2>1. ApRefineInv => ApRefineInv'
    BY <1>5 DEF opVars, vars, ApRefineInv, ApRep
  <2> QED BY <1>5, <2>1 DEF OpRefineInv, opVars, vars
<1>6. CASE level # "approx"
  BY <1>1, <1>6 DEF OpRefineInv
<1> QED BY <1>3, <1>4, <1>5, <1>6 DEF OpNext

\* The step that ends a minimizer, and no other, changes what is shown.
LEMMA OpStepAbstract ==
  ASSUME OpInv, OpRefineInv, [OpNext]_opVars
  PROVE  [IF level = "approx" THEN Op!Reduce ELSE Op!Minimize]_(Op!vars)
<1>1. Cleaned(graph)' = Cleaned(graph)
  BY DEF OpNext, RemoveUnreachableStates, Minimizing, opVars, Cleaned
<1>2. CASE (pc = "done" <=> pc' = "done") /\ (pc = "done" => m' = m)
  BY <1>1, <1>2 DEF Op!vars
<1>3. CASE /\ pc # "done" /\ pc' = "done" /\ m' = m /\ input = Cleaned(graph)
           /\ level # "approx"
           /\ \E rep \in [State -> State] : Quotient(input, rep, m) /\ Minimal(input, rep)
  BY <1>1, <1>3, OpPromise DEF Op!Minimize
<1>4. CASE /\ pc # "done" /\ pc' = "done" /\ m' = m /\ input = Cleaned(graph)
           /\ level = "approx"
           /\ \E rep \in [State -> State] : Retract(input, rep, m) /\ NearlyStable(input, rep)
  BY <1>1, <1>4, OpPromise DEF Op!Reduce
<1>5. CASE RemoveUnreachableStates
  BY <1>2, <1>5 DEF RemoveUnreachableStates
<1>6. CASE UNCHANGED opVars
  BY <1>2, <1>6 DEF opVars, vars
<1>7. CASE Minimizing
  <2>0. pc # "clean" /\ input = Cleaned(graph)
    BY <1>7 DEF Minimizing, OpInv
  <2>1. CASE level = "partition1"
    <3>1. RInv /\ RefineInv /\ Next
      BY <1>7, <2>0, <2>1 DEF Minimizing, OpInv
    <3>2. CASE FuseDone
      <4>1. \E rep \in [State -> State] : Quotient(input, rep, m) /\ Minimal(input, rep)
        BY <3>1, <3>2, FuseDoneQuotient DEF RInv
      <4> QED BY <1>3, <2>0, <2>1, <3>2, <4>1 DEF FuseDone
    <3>3. CASE ~ FuseDone
      BY <1>2, <3>1, <3>3 DEF Next, vars, InitialPartition, PartitionByData, SplitTurn,
         SplitPartition, RoundAgain, RoundsDone, FusePartitions, FuseNext, Terminated
    <3> QED BY <3>2, <3>3
  <2>2. CASE level = "partition2"
    <3>1. P2Inv /\ P2!Next
      BY <1>7, <2>0, <2>2 DEF Minimizing, OpInv
    <3>2. CASE P2!FuseDone
      <4>1. \E rep \in [State -> State] : Quotient(input, rep, m) /\ Minimal(input, rep)
        BY <3>1, <3>2, P2Fusing, FuseDoneQuotient DEF P2Inv
      <4> QED BY <1>3, <2>0, <2>2, <3>2, <4>1 DEF P2!FuseDone
    <3>3. CASE ~ P2!FuseDone
      BY <1>2, <3>1, <3>3 DEF P2!Next, P2!vars, P2!InitialPartition,
         P2!PartitionByData, P2!SplitCandidate, P2!SplitPartition, P2!SplitDone,
         P2!FusePartitions, P2!FuseNext, P2!Terminated
    <3> QED BY <3>2, <3>3
  <2>3. CASE level = "stable"
    <3>1. MkInv /\ Mk!Next
      BY <1>7, <2>0, <2>3 DEF Minimizing, OpInv
    <3>2. CASE Mk!FuseDone
      <4>1. \E rep \in [State -> State] : Quotient(input, rep, m) /\ Minimal(input, rep)
        BY <3>1, <3>2, MarksQuotient
      <4> QED BY <1>3, <2>0, <2>3, <3>2, <4>1 DEF Mk!FuseDone
    <3>3. CASE ~ Mk!FuseDone
      BY <1>2, <3>1, <3>3 DEF Mk!Next, Mk!vars, Mk!InitialMarkRound, Mk!MarkPair,
         Mk!EndRound, Mk!FuseUnmarkedPair, Mk!Terminated
    <3> QED BY <3>2, <3>3
  <2>4. CASE level = "approx"
    <3>1. ApInv /\ ApRefineInv /\ Ap!Next
      BY <1>7, <2>0, <2>4 DEF Minimizing, OpInv, OpRefineInv
    <3>2. CASE Ap!EndRound /\ ~ modified
      <4>1. \E rep \in [State -> State] : Retract(input, rep, m) /\ NearlyStable(input, rep)
        BY <3>1, ApRetract
      <4> QED BY <1>4, <2>0, <2>4, <3>2, <4>1 DEF Ap!EndRound
    <3>3. CASE ~ (Ap!EndRound /\ ~ modified)
      BY <1>2, <3>1, <3>3 DEF Ap!Next, Ap!vars, Ap!Sort, Ap!Walk, Ap!EndRound,
         Ap!Terminated
    <3> QED BY <3>2, <3>3
  <2> QED BY <2>1, <2>2, <2>3, <2>4 DEF OpInv
<1> QED BY <1>5, <1>6, <1>7 DEF OpNext

LEMMA OpRefineBegins == OpInit => OpRefineInv /\ Op!Init
<1> SUFFICES ASSUME OpInit PROVE OpRefineInv /\ Op!Init
  OBVIOUS
<1>1. pc = "clean" /\ GoodMachine(graph)
  BY MachinesGood DEF OpInit
<1>2. Cleaned(graph) \in Machine
  BY <1>1, CleanedGood DEF GoodMachine
<1>3. Cleaned(graph) \in Op!Machine
  BY <1>2 DEF Op!Machine, Machine, Op!Trans, Trans, Op!Data, Data
<1> QED BY <1>1, <1>2, <1>3 DEF OpRefineInv, Op!Init

\* afterOpMinimize with any of the four minimizers is, in one step, what
\* MinSpec says: the part of the graph that can be reached becomes its
\* smallest quotient.  With minimizeApproximate some of its states stay, each
\* for itself and others that differ from it at most in their condition lists
\* or in the data of error transitions.
THEOREM OpImplementsMinSpec == OpSpec => OpAbstractSpec
<1>1. OpInit => OpRefineInv /\ Op!Init
  BY OpRefineBegins
<1>2. OpInv /\ OpRefineInv /\ [OpNext]_opVars => OpRefineInv'
  BY OpStepRefineInv
<1>3. OpInv /\ OpRefineInv /\ [OpNext]_opVars
        => [IF level = "approx" THEN Op!Reduce ELSE Op!Minimize]_(Op!vars)
  BY OpStepAbstract
<1> QED BY <1>1, <1>2, <1>3, OpInvariance, PTL DEF OpSpec, OpAbstractSpec

\* Where no two states differ only in what ApproxCompare leaves out,
\* minimizeApproximate ends with a quotient of the part that can be reached:
\* no input tells it from that.
ApproxQuotient ==
  level = "approx" /\ pc = "done" /\ NothingHidden(Cleaned(graph)) =>
    \E rep \in [State -> State] : /\ Quotient(Cleaned(graph), rep, m)
                                  /\ Stable(Cleaned(graph), rep)

THEOREM OpApproxIsQuotient == OpSpec => []ApproxQuotient
<1>1. OpInit => OpRefineInv
  BY OpRefineBegins
<1>2. OpInv /\ OpRefineInv /\ [OpNext]_opVars => OpRefineInv'
  BY OpStepRefineInv
<1>3. OpInv /\ OpRefineInv => ApproxQuotient
  <2> SUFFICES ASSUME OpInv, OpRefineInv, level = "approx", pc = "done",
                      NothingHidden(Cleaned(graph))
               PROVE  \E rep \in [State -> State] : /\ Quotient(Cleaned(graph), rep, m)
                                                    /\ Stable(Cleaned(graph), rep)
    BY DEF ApproxQuotient
  <2>1. input = Cleaned(graph) /\ ApInv /\ ApRefineInv /\ GoodMachine(input)
    BY DEF OpInv, OpRefineInv, ApInv
  <2> QED BY <2>1, ApRetract, RetractIsQuotient
<1> QED BY <1>1, <1>2, <1>3, OpInvariance, PTL DEF OpSpec
=============================================================================
