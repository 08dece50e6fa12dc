----------------------------- MODULE MinApprox -----------------------------
(***************************************************************************)
(* FsmAp::minimizeApproximate: rounds that sort all states by              *)
(* ApproxCompare and fuse neighbours that compare equal, until a round     *)
(* fuses nothing.                                                          *)
(***************************************************************************)
EXTENDS Fsm, SequencesExt

CONSTANT Machines

VARIABLES
  pc,        \* "sort", "walk" or "done"
  input,     \* the machine minimizeApproximate was called on
  m,         \* the machine
  order,     \* statePtrs, sorted when the round began
  last,      \* pLast, an index into order
  i,         \* pState, an index into order, and the loop counter
  modified   \* the round has fused two states

vars == <<pc, input, m, order, last, i, modified>>

\* compareFullPtr: same target, and the same data unless the target is error.
SameFull(s, t, k) ==
  /\ HasTrans(m, s, k) <=> HasTrans(m, t, k)
  /\ To(m, s, k) = To(m, t, k)
  /\ To(m, s, k) # Null => m.out[s][k].act = m.out[t][k].act

\* ApproxCompare.  It does not look at the condition lists.
ApproxEqual(s, t) ==
  /\ m.data[s].state = m.data[t].state
  /\ \A k \in Key : SameFull(s, t, k)
  /\ m.eof[s] = m.eof[t]

----------------------------------------------------------------------------
Init ==
  /\ pc = "sort"
  /\ input \in Machines
  /\ m = input
  /\ order = <<>> /\ last = 1 /\ i = 2 /\ modified = FALSE

\* The sort leaves equal states next to each other and in list order; where
\* the others go depends on the addresses of states.
Sort ==
  /\ pc = "sort"
  /\ \E q \in SetToSeqs(m.live) :
       /\ \A x, z \in DOMAIN q : x < z /\ ApproxEqual(q[x], q[z]) =>
            /\ q[x] < q[z]
            /\ \A y \in x .. z : ApproxEqual(q[x], q[y])
       /\ order' = q
  /\ pc' = "walk" /\ last' = 1 /\ i' = 2 /\ modified' = FALSE
  /\ UNCHANGED <<input, m>>

\* Mutant: pLast moves on to the state just fused.
WalkLastMoves ==
  /\ pc = "walk" /\ i <= Cardinality(m.live)
  /\ IF ApproxEqual(order[last], order[i])
     THEN m' = Fuse(m, order[last], order[i]) /\ modified' = TRUE
     ELSE UNCHANGED <<m, modified>>
  /\ last' = i
  /\ i' = i + 1
  /\ UNCHANGED <<pc, input, order>>

\* One turn of the walk.  Its bound is the length of the state list, which
\* every fuse shortens: the end of the array may not be looked at.
Walk ==
  /\ pc = "walk" /\ i <= Cardinality(m.live)
  /\ IF ApproxEqual(order[last], order[i])
     THEN /\ m' = Fuse(m, order[last], order[i])
          /\ modified' = TRUE
          /\ UNCHANGED last
     ELSE last' = i /\ UNCHANGED <<m, modified>>
  /\ i' = i + 1
  /\ UNCHANGED <<pc, input, order>>

\* "While the last minimization round succeeded in compacting states,
\* continue to try to compact states."
EndRound ==
  /\ pc = "walk" /\ i > Cardinality(m.live)
  /\ pc' = IF modified THEN "sort" ELSE "done"
  /\ UNCHANGED <<input, m, order, last, i, modified>>

Terminated == pc = "done" /\ UNCHANGED vars

Next == Sort \/ Walk \/ EndRound \/ Terminated

Spec == Init /\ [][Next]_vars
FairSpec == Spec /\ WF_vars(Next)   \* a sequential program runs on
----------------------------------------------------------------------------
TypeOK ==
  /\ pc \in {"sort", "walk", "done"}
  /\ m \in Machine
  /\ order \in Seq(State)
  /\ last \in Nat /\ i \in Nat /\ last < i
  /\ modified \in BOOLEAN

\* However early a shrinking list ends the walks, no two states that compare
\* equal are left when the rounds stop.
NothingLeft ==
  pc = "done" => \A s, t \in m.live : s # t => ~ ApproxEqual(s, t)

\* The walk never fuses with a state that is no longer on the main list.
FuseLive ==
  pc = "walk" => /\ order[last] \in m.live
                 /\ \A x \in i .. Cardinality(m.live) : order[x] \in m.live

\* The rounds end.
Termination == <>(pc = "done")
=============================================================================
