------------------------------- MODULE FsmOps -------------------------------
(***************************************************************************)
(* The regular operators of FsmAp: unionOp, intersectOp, subtractOp (all   *)
(* by doOr), concatOp (doConcat) and starOp.  A step is one call of        *)
(* mergeStates or one of the phases around them.                           *)
(*                                                                         *)
(* Sets of states are sorted by address and the fill list is in the order  *)
(* in which merging came upon the combined states: any order here.         *)
(***************************************************************************)
EXTENDS Merge

CONSTANTS Ops,      \* the operators of this instance
          PlainA,   \* states of the left machine; the only one of starOp
          PlainB,   \* states of the right machine
          StartA, StartB,
          New,      \* the state starOp and doOr add
          Inputs    \* for each operator, its pairs of machines, as one graph

ASSUME OpsAssumption ==
  Ops \subseteq {"union", "intersect", "subtract", "concat", "star"}
ASSUME PlainAssumption ==
  /\ PlainA \cap PlainB = {} /\ New \notin PlainA \cup PlainB
  /\ StartA \in PlainA /\ StartB \in PlainB
  /\ Plain = PlainA \cup PlainB \cup {New} /\ IsFiniteSet(Plain)

Singles(S) == {{o} : o \in S}

\* Two machines before the operation: no combined states, transitions stay
\* within a machine, leaving data on final states only.
TwoMachines == {i \in Graph :
  /\ i.nodes \subseteq Singles(PlainA \cup PlainB) /\ {StartA} \in i.nodes
  /\ {StartB} \in i.nodes
  /\ i.fin \subseteq i.nodes /\ i.fill = {}
  /\ \A x \in Node :
       /\ i.bits[x] = {}
       /\ i.leave[x] # {} => x \in i.fin
       /\ x \notin i.nodes => i.out[x] = EmptyOut
       /\ \A k \in Key : To(i, x, k) \in i.nodes \cup {Null}
  /\ \A S \in {PlainA, PlainB} : \A o \in S : \A k \in Key :
       To(i, {o}, k) \subseteq S}

ASSUME InputsAssumption == Inputs \in [Ops -> SUBSET TwoMachines]

VARIABLES
  op,      \* the operator called
  input,   \* the two machines when it was called
  pc,      \* "begin", "finals", "fill", "clean", "dead", "done" or "fault"
  g,       \* the graph
  start,   \* startState
  todo,    \* final states the start state has still to be merged into
  dest,    \* the state being merged into
  srcs     \* the states still to be merged into it

vars == <<op, input, pc, g, start, todo, dest, srcs>>

Init ==
  /\ op \in Ops
  /\ input \in Inputs[op]
  /\ g = input
  /\ pc = "begin"
  /\ start = {StartA} /\ todo = {} /\ dest = {New} /\ srcs = {}

----------------------------------------------------------------------------
(* doOr.                                                                   *)

\* setFinBits on one of the machines.
WithFinBits(i, S, b) ==
  [i EXCEPT !.bits = [x \in Node |->
     IF x \in i.fin \cap Singles(S) THEN i.bits[x] \cup {b} ELSE i.bits[x]]]

OrBits(i) ==
  CASE op = "union"     -> i
    [] op = "intersect" -> WithFinBits(WithFinBits(i, PlainA, 1), PlainB, 2)
    [] op = "subtract"  -> WithFinBits(i, PlainB, 1)

\* A new start state both start states are to be merged into.
OrBegin ==
  /\ pc = "begin" /\ op \in {"union", "intersect", "subtract"}
  /\ g' = [OrBits(g) EXCEPT !.nodes = @ \cup {{New}}]
  /\ start' = {New} /\ dest' = {New} /\ srcs' = {{StartA}, {StartB}}
  /\ pc' = "fill"
  /\ UNCHANGED <<op, input, todo>>

----------------------------------------------------------------------------
(* doConcat.                                                               *)

\* Our final states lose their status but not yet their leaving data.
ConcatBegin ==
  /\ pc = "begin" /\ op = "concat"
  /\ todo' = g.fin \cap Singles(PlainA)
  /\ g' = [g EXCEPT !.fin = @ \cap Singles(PlainB)]
  /\ pc' = "finals"
  /\ UNCHANGED <<op, input, start, dest, srcs>>

\* Mutant: leaving data stays on states that are not final any more.
ConcatFinalKeep(f) ==
  /\ pc = "finals" /\ op = "concat" /\ f \in todo
  /\ g' = MergeStatesLeaving(g, f, {StartB})
  /\ todo' = todo \ {f}
  /\ UNCHANGED <<op, input, pc, start, dest, srcs>>

\* One former final state is merged with other's start state.
ConcatFinal(f) ==
  /\ pc = "finals" /\ op = "concat" /\ f \in todo
  /\ LET h == MergeStatesLeaving(g, f, {StartB})
     IN  g' = IF f \in h.fin THEN h ELSE [h EXCEPT !.leave[f] = {}]
  /\ todo' = todo \ {f}
  /\ UNCHANGED <<op, input, pc, start, dest, srcs>>

----------------------------------------------------------------------------
(* starOp.                                                                 *)

\* The start state is isolated: a new one merged with it.
StarBegin ==
  /\ pc = "begin" /\ op = "star"
  /\ g' = MergeStates([g EXCEPT !.nodes = @ \cup {{New}}],
                      {New}, {StartA}, g.out[{StartA}])
  /\ start' = {New}
  /\ todo' = g'.fin \cap Singles(PlainA \cup {New})
  /\ pc' = "finals"
  /\ UNCHANGED <<op, input, dest, srcs>>

\* The iterator over finStateSet passes over the start state.
StarSkip ==
  /\ pc = "finals" /\ op = "star" /\ start \in todo
  /\ todo' = todo \ {start}
  /\ UNCHANGED <<op, input, pc, g, start, dest, srcs>>

\* The start state is merged into the next final state.  If that takes a copy
\* of a final start state the copy is inserted into finStateSet while the
\* iterator walks its array up to the end it had before: the elements after
\* the new one move up by one and the last is out of the iterator's reach,
\* or the array is moved and the iterator left with freed memory.
StarFinal(f) ==
  LET inserted == start \in g.fin /\ g.leave[f] # {}
      rest     == todo \ {f}
  IN
  /\ pc = "finals" /\ op = "star" /\ f \in todo \ {start}
  /\ g' = MergeStatesLeaving(g, f, start)
  /\ \/ todo' = rest /\ UNCHANGED pc
     \/ /\ inserted /\ UNCHANGED pc
        /\ \E r \in rest : todo' \in {rest \ {r}, {f} \cup (rest \ {r})}
     \/ inserted /\ todo' = rest /\ pc' = "fault"
  /\ UNCHANGED <<op, input, start, dest, srcs>>

\* "Now it is safe to merge the start state with itself", then it is final.
StarSelf ==
  /\ pc = "finals" /\ op = "star" /\ todo = {}
  /\ LET h == IF start \in g.fin THEN MergeStatesLeaving(g, start, start) ELSE g
     IN  g' = [h EXCEPT !.fin = @ \cup {start}]
  /\ pc' = "fill"
  /\ UNCHANGED <<op, input, start, todo, dest, srcs>>

FinalsDone ==
  /\ pc = "finals" /\ op = "concat" /\ todo = {}
  /\ pc' = "fill"
  /\ UNCHANGED <<op, input, g, start, todo, dest, srcs>>

----------------------------------------------------------------------------
(* mergeStates with a set of states, fillInStates, and the cleaning up.    *)

MergeNext(s) ==
  /\ pc = "fill" /\ s \in srcs
  /\ g' = MergeStates(g, dest, s, g.out[s])
  /\ srcs' = srcs \ {s}
  /\ UNCHANGED <<op, input, pc, start, todo, dest>>

\* Mutant: the state stays on the fill list.
FillNextKeep(x) ==
  /\ pc = "fill" /\ srcs = {} /\ x \in g.fill
  /\ dest' = x /\ srcs' = Singles(x)
  /\ UNCHANGED <<op, input, pc, g, start, todo>>

\* The next state of the fill list.
FillNext(x) ==
  /\ pc = "fill" /\ srcs = {} /\ x \in g.fill
  /\ g' = [g EXCEPT !.fill = @ \ {x}]
  /\ dest' = x /\ srcs' = Singles(x)
  /\ UNCHANGED <<op, input, pc, start, todo>>

FillDone ==
  /\ pc = "fill" /\ srcs = {} /\ g.fill = {}
  /\ pc' = "clean" /\ dest' = {New}
  /\ UNCHANGED <<op, input, g, start, todo, srcs>>

\* unsetKilledFinals and unsetIncompleteFinals.
LoseFinal ==
  {x \in g.fin : \/ op = "subtract" /\ 1 \in g.bits[x]
                 \/ op = "intersect" /\ g.bits[x] \in {{1}, {2}}}

\* Mutant: the bits stay.
UnsetFinalsKeepBits(i, lost) ==
  [i EXCEPT !.fin = @ \ lost,
            !.leave = [x \in Node |-> IF x \in lost THEN {} ELSE @[x]]]

\* Every final state loses the bits, some lose final status and leaving data.
UnsetFinals(i, lost) ==
  [i EXCEPT !.fin   = @ \ lost,
            !.leave = [x \in Node |-> IF x \in lost THEN {} ELSE @[x]],
            !.bits  = [x \in Node |-> IF x \in i.fin THEN {} ELSE @[x]]]

Clean ==
  /\ pc = "clean"
  /\ IF op \in {"intersect", "subtract"}
     THEN /\ g' = RemoveMisfits(UnsetFinals(g, LoseFinal), {start})
          /\ pc' = "dead"
     ELSE /\ g' = RemoveMisfits(g, {start})
          /\ pc' = "done"
  /\ UNCHANGED <<op, input, start, todo, dest, srcs>>

\* Mutant: dead ends are left in.
CleanDeadEndsNot ==
  /\ pc = "dead" /\ pc' = "done"
  /\ UNCHANGED <<op, input, g, start, todo, dest, srcs>>

CleanDeadEnds ==
  /\ pc = "dead"
  /\ g' = RemoveDeadEnds(g, start)
  /\ pc' = "done"
  /\ UNCHANGED <<op, input, start, todo, dest, srcs>>

Terminated == pc \in {"done", "fault"} /\ UNCHANGED vars

Next ==
  \/ OrBegin \/ ConcatBegin \/ StarBegin
  \/ \E f \in todo : ConcatFinal(f) \/ StarFinal(f)
  \/ FinalsDone \/ StarSkip \/ StarSelf
  \/ \E s \in srcs : MergeNext(s)
  \/ \E x \in g.fill : FillNext(x)
  \/ FillDone \/ Clean \/ CleanDeadEnds \/ Terminated

Spec == Init /\ [][Next]_vars
FairSpec == Spec /\ WF_vars(Next)   \* a sequential program runs on
----------------------------------------------------------------------------
(* What the operators promise.  The reference is a set of threads, each in *)
(* one state of one of the two machines: the threads follow all            *)
(* transitions on a key that have the highest priority among theirs, and   *)
(* the actions of all these transitions run.                               *)

Own(o, k) == IF input.out[{o}][k] = NoTrans THEN {} ELSE {input.out[{o}][k]}

\* The transitions of state q, taken on leaving the final state o.
Entered(q, o, k) ==
  {IF t.to = Null THEN t ELSE [t EXCEPT !.act = @ \cup input.leave[{o}]] :
     t \in Own(q, k)}

\* The transitions a thread in o has on k.
Alternatives(o, k) ==
  LET final == {o} \in input.fin IN
  CASE op = "star" /\ o = New ->
         Own(StartA, k) \cup
         (IF {StartA} \in input.fin THEN Entered(StartA, StartA, k) ELSE {})
    [] op # "star" /\ o = New -> Own(StartA, k) \cup Own(StartB, k)
    [] op = "star" /\ o \in PlainA /\ final -> Own(o, k) \cup Entered(StartA, o, k)
    [] op = "concat" /\ o \in PlainA /\ final ->
         Own(o, k) \cup Entered(StartB, o, k)
    [] OTHER -> Own(o, k)

\* All transitions of X with the highest priority, as one.
Best(X) ==
  LET top == {t \in X : \A u \in X : u.prior <= t.prior} IN
  IF X = {} THEN NoTrans
  ELSE [to    |-> UNION {t.to : t \in top},
        act   |-> UNION {t.act : t \in top},
        prior |-> (CHOOSE t \in top : TRUE).prior]

Step(T, k) == Best(UNION {Alternatives(o, k) : o \in T})

FinalIn(S, T) == \E o \in T : o \in S /\ {o} \in input.fin

\* Threads in the states of T accept.
Accepts(T) ==
  LET U == IF New \in T /\ op # "star" THEN {StartA, StartB} ELSE T IN
  CASE op = "union"     -> FinalIn(PlainA, U) \/ FinalIn(PlainB, U)
    [] op = "intersect" -> FinalIn(PlainA, U) /\ FinalIn(PlainB, U)
    [] op = "subtract"  -> FinalIn(PlainA, U) /\ ~ FinalIn(PlainB, U)
    [] op = "concat"    -> FinalIn(PlainB, U) \/
                             (FinalIn(PlainA, U) /\ {StartB} \in input.fin)
    [] op = "star"      -> FinalIn(PlainA, U) \/ New \in U

\* Sets of threads some input takes to acceptance: what Lead adds to the
\* accepting ones.
Alive ==
  LET sets    == {T : T \in Node}
      Into(A) == {T \in sets : \E k \in Key :
                    Step(T, k) # NoTrans /\ Step(T, k).to \in A}
      Lead[A \in SUBSET Node] ==
        LET more == A \cup Into(A) IN IF more = A THEN A ELSE Lead[more]
  IN  Lead[{T \in sets : Accepts(T)}]

Cleaned == op \in {"intersect", "subtract"}

\* For which machines the operators keep that promise.  All transitions have a
\* priority or none has: of one that has and one that has not, the order in
\* which they are crossed decides.  And StarFinal passes over no final state
\* but the start state.  starOp has one machine, the right one is a state
\* without transitions to others.
PriorsClear(i) ==
  LET trans == {i.out[x][k] : x \in i.nodes, k \in Key} \ {NoTrans}
  IN  (\A t \in trans : t.prior = 0) \/ (\A t \in trans : t.prior # 0)

StarClear(i) ==
  /\ i.nodes \cap Singles(PlainB) = {{StartB}}
  /\ \/ {StartA} \notin i.fin
     \/ i.fin \cap Singles(PlainA) = {{StartA}}
     \/ \A x \in i.fin \cap Singles(PlainA) : i.leave[x] = {}

Clear(o, i) == PriorsClear(i) /\ (o = "star" => StarClear(i))
ClearInput  == Clear(op, input)

----------------------------------------------------------------------------
TypeOK ==
  /\ op \in Ops /\ input \in TwoMachines
  /\ pc \in {"begin", "finals", "fill", "clean", "dead", "done", "fault"}
  /\ g \in Graph
  /\ start \in Node /\ dest \in Node
  /\ todo \subseteq Node /\ srcs \subseteq g.nodes

\* The result does what the two machines do side by side: from every state,
\* on every key, it takes the same actions to the same set of threads, and
\* it is final exactly if these accept.  Only what cannot lead to acceptance
\* is cut from an intersection or difference.
SubsetConstruction ==
  pc = "done" =>
    LET alive == Alive IN
    /\ {start} \cap g.nodes # {}
    /\ \A x \in g.nodes :
         /\ x \in g.fin <=> Accepts(x)
         /\ \A k \in Key :
              LET r == Step(x, k) IN
              IF Cleaned /\ r # NoTrans /\ r.to \notin alive \cup {Null}
              THEN g.out[x][k] = NoTrans
              ELSE g.out[x][k] = r

\* While states come and go no transition leads to one that was removed, and
\* none that was removed is final or waits to be filled in.
NoDangling ==
  /\ g.fin \cup g.fill \subseteq g.nodes
  /\ \A x \in g.nodes, k \in Key : To(g, x, k) \in g.nodes \cup {Null}

\* Where a state can be cut off from acceptance by the other machine, the
\* operator removes it: every state of an intersection or a difference but
\* the start state leads to a final one.
NoDeadEnds == pc = "done" /\ Cleaned => \A x \in g.nodes : x \in Alive \/ x = start

\* The marks intersection and subtraction put on final states are gone when
\* they end: the next operator would take them for its own.
NoStaleBits == pc = "done" => \A x \in Node : g.bits[x] = {}

\* A state that is not final, or no longer, has no leaving data when the
\* combined states are filled in: they would draw it from there.
LeavingOnFinals ==
  pc \in {"fill", "clean", "dead", "done"} =>
    \A x \in g.nodes : g.leave[x] # {} => x \in g.fin

\* Combining states comes to an end.
Termination == <>(pc \in {"done", "fault"})
=============================================================================
