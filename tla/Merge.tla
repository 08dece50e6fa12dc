------------------------------- MODULE Merge -------------------------------
(***************************************************************************)
(* The machine graph as the operators of fsmgraph.cpp see it while they    *)
(* merge states: MergeData's dictionary of combined states, mergeStates,   *)
(* crossTransitions, misfits and dead ends.                                *)
(*                                                                         *)
(* A state is named by the set of states it stands for: a state that was   *)
(* there before the operation by the set of itself, a state made by        *)
(* fsmAttachStates by the set it has in the state dictionary.  Looking up  *)
(* the union of two such sets in the dictionary is then taking the union,  *)
(* and the null state, the target of error transitions, is the empty set.  *)
(* A key is a range of the alphabet, as in Fsm.  Of the priority tables    *)
(* one priority name is kept; 0 means no priority on it.  Of the leaving   *)
(* data (outActionTable, outPriorTable, outCondSet) the actions are kept.  *)
(***************************************************************************)
EXTENDS Naturals, FiniteSets

CONSTANTS Plain,    \* states there may be besides combined ones
          Key,      \* uniform ranges of the alphabet
          Act,      \* actions
          Prior,    \* priorities, 0 for none
          NoTrans   \* no transition on a key

Null  == {}
Node  == (SUBSET Plain) \ {Null}
Trans == [to : SUBSET Plain, act : SUBSET Act, prior : Prior] \cup {NoTrans}

ASSUME PriorAssumption == Prior \subseteq Nat /\ 0 \in Prior
ASSUME TransAssumption ==
  NoTrans \notin [to : SUBSET Plain, act : SUBSET Act, prior : Prior]

Graph == [nodes : SUBSET Node,                    \* stateList and misfitList
          out   : [Node -> [Key -> Trans]],
          fin   : SUBSET Node,                    \* finStateSet
          bits  : [Node -> SUBSET {1, 2}],        \* STB_GRAPH1, STB_GRAPH2
          leave : [Node -> SUBSET Act],           \* outActionTable
          fill  : SUBSET Node]                    \* stfillHead

EmptyOut == [k \in Key |-> NoTrans]
To(g, x, k) == IF g.out[x][k] = NoTrans THEN Null ELSE g.out[x][k].to

----------------------------------------------------------------------------
(* Crossing transitions.                                                   *)

\* comparePrior(...) < 0: a priority name only one side has decides nothing.
LowerPrior(d, s) == d.prior # 0 /\ s.prior # 0 /\ d.prior < s.prior

\* Mutant: the transition with the lower priority wins.
CrossLower(d, s) ==
  IF LowerPrior(d, s) THEN d
  ELSE IF LowerPrior(s, d) THEN s
  ELSE [to |-> d.to \cup s.to, act |-> d.act \cup s.act,
        prior |-> IF d.prior = 0 THEN s.prior ELSE d.prior]

\* crossTransitions: the higher priority wins, equals are merged (mergeTrans,
\* fsmAttachStates).
Cross(d, s) ==
  IF LowerPrior(d, s) THEN s
  ELSE IF LowerPrior(s, d) THEN d
  ELSE [to |-> d.to \cup s.to, act |-> d.act \cup s.act,
        prior |-> IF d.prior = 0 THEN s.prior ELSE d.prior]

\* outTransCopy: what becomes of the out list d when s is copied into it.
OutTransCopy(d, s) ==
  [k \in Key |-> IF s[k] = NoTrans THEN d[k]
                 ELSE IF d[k] = NoTrans THEN s[k] ELSE Cross(d[k], s[k])]

\* Mutant: the null state is looked up like any other.
CombinedNull(g, o) == {o[k].to : k \in {j \in Key : o[j] # NoTrans}} \ g.nodes

\* States fsmAttachStates makes for the out list o.
Combined(g, o) ==
  {o[k].to : k \in {j \in Key : o[j] # NoTrans}} \ (g.nodes \cup {Null})

\* mergeStates(dest, src), where outList is src's out list or a copy of it
\* with the leaving data of dest transferred into it.
MergeStates(g, dest, src, outList) ==
  LET o   == OutTransCopy(g.out[dest], outList)
      new == Combined(g, o)
  IN  [nodes |-> g.nodes \cup new,
       out   |-> [g.out EXCEPT ![dest] = o],
       fin   |-> IF src \in g.fin THEN g.fin \cup {dest} ELSE g.fin,
       bits  |-> [g.bits EXCEPT ![dest] = @ \cup g.bits[src]],
       leave |-> [g.leave EXCEPT ![dest] = @ \cup g.leave[src]],
       fill  |-> g.fill \cup new]

\* transferOutData: leaving actions go onto transitions that lead somewhere.
TransferOutData(o, acts) ==
  [k \in Key |-> IF o[k] = NoTrans \/ o[k].to = Null THEN o[k]
                 ELSE [o[k] EXCEPT !.act = @ \cup acts]]

\* mergeStatesLeaving(dest, src).
MergeStatesLeaving(g, dest, src) ==
  MergeStates(g, dest, src, TransferOutData(g.out[src], g.leave[dest]))

----------------------------------------------------------------------------
(* Removing states.                                                        *)

\* Mutant: transitions into the state stay.
DetachStatesOut(g, gone) ==
  [nodes |-> g.nodes \ gone,
   out   |-> [x \in Node |-> IF x \in gone THEN EmptyOut ELSE g.out[x]],
   fin   |-> g.fin \ gone,
   bits  |-> [x \in Node |-> IF x \in gone THEN {} ELSE g.bits[x]],
   leave |-> [x \in Node |-> IF x \in gone THEN {} ELSE g.leave[x]],
   fill  |-> g.fill \ gone]

\* detachState for each state of gone: transitions in and out, final status.
DetachStates(g, gone) ==
  [nodes |-> g.nodes \ gone,
   out   |-> [x \in Node |->
                IF x \in gone THEN EmptyOut
                ELSE [k \in Key |-> IF To(g, x, k) \in gone THEN NoTrans
                                                            ELSE g.out[x][k]]],
   fin   |-> g.fin \ gone,
   bits  |-> [x \in Node |-> IF x \in gone THEN {} ELSE g.bits[x]],
   leave |-> [x \in Node |-> IF x \in gone THEN {} ELSE g.leave[x]],
   fill  |-> g.fill \ gone]

\* States of N that no other state of N has a transition into.
Misfits(g, N, roots) ==
  {x \in N \ roots : \A y \in N \ {x} : \A k \in Key : To(g, y, k) # x}

\* removeMisfits: detaching a misfit may make others.
RemoveMisfits(g, roots) ==
  LET Fit[N \in SUBSET g.nodes] ==
        LET misfits == Misfits(g, N, roots)
        IN  IF misfits = {} THEN N ELSE Fit[N \ misfits]
  IN  DetachStates(g, g.nodes \ Fit[g.nodes])

\* removeDeadEndStates: states not marked walking back from the final ones;
\* the start state is never removed.
RemoveDeadEnds(g, start) ==
  LET Marked[M \in SUBSET g.nodes] ==
        LET more == M \cup {x \in g.nodes : \E k \in Key : To(g, x, k) \in M}
        IN  IF more = M THEN M ELSE Marked[more]
  IN  DetachStates(g, g.nodes \ (Marked[g.fin] \cup {start}))
=============================================================================
