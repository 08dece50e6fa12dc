------------------------------- MODULE AfterOp -------------------------------
(***************************************************************************)
(* afterOpMinimize: what the parse tree does to the graph after each       *)
(* operator.  Unreachable states are removed, then the minimizer that the  *)
(* command line chose runs: the four of them on the same state.            *)
(***************************************************************************)
EXTENDS MinPartition1

VARIABLES level,               \* minimizeLevel
          graph,               \* the machine the operator has left
          splittable,          \* of minimizePartition2
          marked, todo,        \* of minimizeStable
          order, last, i,      \* of minimizeApproximate
          modified             \* of both

opVars == <<vars, level, graph, splittable, marked, todo, order, last, i, modified>>

P2 == INSTANCE MinPartition2
Mk == INSTANCE MinMark
Ap == INSTANCE MinApprox

ofP1 == <<part, numParts, p, before>>
ofP2 == <<splittable>>
ofMk == <<marked, todo>>
ofAp == <<order, last, i>>

\* Mutant: the walk starts at the start state only.
CleanedFromStart(g) ==
  LET seen == Reachable([g EXCEPT !.entry = {}])
  IN [g EXCEPT !.live = seen]

\* removeUnreachableStates: the states that nothing leads to from the start
\* and the entry points leave the main list.
Cleaned(g) == [g EXCEPT !.live = Reachable(g)]

OpInit == /\ level \in {"partition1", "partition2", "stable", "approx"}
          /\ graph \in Machines
          /\ pc = "clean" /\ input = graph /\ m = graph
          /\ part = [s \in State |-> 0] /\ numParts = 1 /\ p = 0 /\ before = 0
          /\ splittable = {}
          /\ marked = {} /\ todo = {} /\ modified = FALSE
          /\ order = <<>> /\ last = 1 /\ i = 2

RemoveUnreachableStates ==
  /\ pc = "clean"
  /\ input' = Cleaned(graph) /\ m' = input'
  /\ pc' = IF level = "approx" THEN "sort" ELSE "init"
  /\ UNCHANGED <<level, graph, ofP1, ofP2, ofMk, ofAp, modified>>

Minimizing ==
  /\ pc # "clean"
  /\ \/ level = "partition1" /\ Next    /\ UNCHANGED <<ofP2, ofMk, ofAp, modified>>
     \/ level = "partition2" /\ P2!Next /\ UNCHANGED <<p, before, ofMk, ofAp, modified>>
     \/ level = "stable"     /\ Mk!Next /\ UNCHANGED <<ofP1, ofP2, ofAp>>
     \/ level = "approx"     /\ Ap!Next /\ UNCHANGED <<ofP1, ofP2, ofMk>>
  /\ UNCHANGED <<level, graph>>

OpNext == RemoveUnreachableStates \/ Minimizing

OpSpec == OpInit /\ [][OpNext]_opVars /\ WF_opVars(OpNext)
-----------------------------------------------------------------------------
\* Whichever minimizer was chosen, what is left is the part of the graph that
\* can be reached, and of it the minimal quotient.  minimizeApproximate may
\* leave more of it, and of states that differ in nothing but condition
\* lists or the data of error transitions only one.  Never is anything
\* between shown to the next operator.
Op == INSTANCE MinSpec WITH Machines <- Machine,
                            input <- Cleaned(graph),
                            result <- IF pc = "done" THEN m ELSE Cleaned(graph)

OpAbstractSpec == /\ Op!Init
                  /\ [][IF level = "approx" THEN Op!Reduce ELSE Op!Minimize]_(Op!vars)

\* While the graph is cleaned and fused no pointer of a state on the main
\* list, nor the start or an entry point, leads to a state that is gone.
OpNoDangling == pc # "clean" => Closed(m)

\* Each of the four minimizers ends.
OpTermination == <>(pc \in {"done", "fault"})

\* Only pairs that some input tells apart are marked, in every round of
\* minimizeStable; and when it fuses, each state has one primary state.
MarkedDiffer == level = "stable" => Mk!MarkedDiffer /\ Mk!UnmarkedTransitive

\* The walk of minimizeApproximate over the sorted array meets no state that
\* a fuse has deleted, and however early the shrinking list ends its walks,
\* no two states that compare equal are left when the rounds stop.
WalkSound == level = "approx" => Ap!FuseLive /\ Ap!NothingLeft
=============================================================================
