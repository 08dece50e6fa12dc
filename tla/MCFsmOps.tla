------------------------------ MODULE MCFsmOps ------------------------------
(***************************************************************************)
(* Instances of FsmOps for TLC: the left machine on states 1 and 2, the    *)
(* right one on 3 and 4, 0 the state starOp and doOr add.  All machines on *)
(* at most two states that are reachable and lead to a final one, with the *)
(* actions and priorities of a variant: a record of actA, actB, prior,     *)
(* leaveA and leaveB.                                                      *)
(***************************************************************************)
EXTENDS FsmOps

\* Target tables: where each state of S goes on each key.  Which of them have
\* error transitions is "all", or "alone", those with transitions on one key only.
AllTargets(S) == [S -> [Key -> {NoTrans, Null} \cup Singles(S)]]
Erring(t)  == \E o \in DOMAIN t, k \in Key : t[o][k] = Null
OneKey(t)  == \E k \in Key : \A o \in DOMAIN t, l \in Key \ {k} : t[o][l] = NoTrans
Targets(S, errors) == {t \in AllTargets(S) : \/ errors = "all" \/ ~Erring(t)
                                             \/ errors = "alone" /\ OneKey(t)}

\* States of S that lead to F, and that s leads to, under t.
Reaches(S, t, F) ==
  LET R[n \in Nat] == IF n = 0 THEN F ELSE
        R[n-1] \cup {o \in S : \E k \in Key, q \in R[n-1] : t[o][k] = {q}}
  IN  R[Cardinality(S)]
ReachedFrom(S, t, s) ==
  LET R[n \in Nat] == IF n = 0 THEN {s} ELSE
        R[n-1] \cup {q \in S : \E k \in Key, o \in R[n-1] : t[o][k] = {q}}
  IN  R[Cardinality(S)]

\* Machines on a set of states S with start state s: targets and finals.
Shapes(S, s, errors) ==
  {m \in [t : Targets(S, errors), f : SUBSET S] :
     ReachedFrom(S, m.t, s) = S /\ Reaches(S, m.t, m.f) = S}

\* On the states S or on the start state alone.
Shapes12(S, s, errors) == Shapes(S, s, errors) \cup Shapes({s}, s, errors)

States(m) == DOMAIN m.t

\* The graph of a pair of machines: the actions of a machine, the priority of
\* the state a transition leaves.
Pair(a, b, v) ==
  LET S == States(a) \cup States(b)
      targets == [o \in S |-> IF o \in States(a) THEN a.t[o] ELSE b.t[o]]
      acts    == [o \in S |-> IF o \in States(a) THEN v.actA ELSE v.actB]
      Out(o)  == [k \in Key |->
                    IF targets[o][k] = NoTrans THEN NoTrans
                    ELSE [to |-> targets[o][k], act |-> acts[o],
                          prior |-> v.prior[o]]]
  IN
  [nodes |-> Singles(S),
   out   |-> [x \in Node |-> IF x \in Singles(S)
                             THEN Out(CHOOSE o \in S : x = {o}) ELSE EmptyOut],
   fin   |-> Singles(a.f \cup b.f),
   bits  |-> [x \in Node |-> {}],
   leave |-> [x \in Node |-> IF x \in Singles(a.f) THEN v.leaveA
                             ELSE IF x \in Singles(b.f) THEN v.leaveB ELSE {}],
   fill  |-> {}]

----------------------------------------------------------------------------
PlainAVal == {1, 2}
PlainBVal == {3, 4}
PlainVal  == 0..4

\* Priorities: all or none, since crossing a transition that has a priority
\* with one that has none depends on the order.
NoPrior == [o \in Plain |-> 0]
Prefer(S) == [o \in Plain |-> IF o \in S THEN 2 ELSE 1]

Variant(prior, la, lb) ==
  [actA |-> {"a"}, actB |-> {"b"}, prior |-> prior, leaveA |-> la, leaveB |-> lb]

\* Without priorities; with ones that prefer one state of either machine.
VariantsPairs == {Variant(NoPrior, {"l"}, {}), Variant(Prefer({2, 3}), {"l"}, {"m"})}
VariantsStar  == VariantsPairs \cup {Variant(Prefer({1}), {}, {})}

\* Of two left machines that only differ in the names of the keys, one.
Swapped(m) ==
  LET other[k \in Key] == CHOOSE l \in Key : l # k
  IN  [m EXCEPT !.t = [o \in DOMAIN m.t |-> [k \in Key |-> m.t[o][other[k]]]]]
LeftShapes ==
  {CHOOSE m \in {a, Swapped(a)} : TRUE : a \in Shapes12(PlainA, StartA, "alone")}

\* Right machines accept in their last state only.
RightShapes == {m \in Shapes(PlainB, StartB, "alone") : m.f = PlainB \ {StartB}}
                 \cup Shapes({StartB}, StartB, "alone")

Pairs == {Pair(a, b, v) : a \in LeftShapes, b \in RightShapes, v \in VariantsPairs}

\* starOp has a left machine only; the right one is the empty word.
EmptyWord == [t |-> [o \in {StartB} |-> [k \in Key |-> NoTrans]], f |-> {StartB}]
StarPairs == {Pair(a, EmptyWord, v) : a \in Shapes12(PlainA, StartA, "all"),
                                      v \in VariantsStar}
StarPairsClear == {i \in StarPairs : StarClear(i)}

InputsVal == [o \in Ops |-> IF o = "star" THEN StarPairsClear ELSE Pairs \cup StarPairsClear]

ASSUME InputsClear == \A o \in Ops : \A i \in Inputs[o] : Clear(o, i)
=============================================================================
