------------------------------ MODULE MinSpec ------------------------------
(***************************************************************************)
(* What a minimizer promises, whatever its algorithm: one atomic step that *)
(* replaces the machine by its quotient under the coarsest stable          *)
(* labelling.  A quotient is given by the function that sends each state   *)
(* to the surviving state that stands for it.                              *)
(***************************************************************************)
EXTENDS Fsm

CONSTANT Machines   \* the machines minimization may be asked to reduce

VARIABLES input,    \* the machine before
          result    \* the machine after, or the machine before it is done

vars == <<input, result>>

Init == input \in Machines /\ result = input

Minimize ==
  /\ result = input
  /\ \E rep \in [State -> State] : /\ Quotient(input, rep, result')
                                   /\ Minimal(input, rep)
  /\ UNCHANGED input

Next == Minimize
Spec == Init /\ [][Next]_vars

----------------------------------------------------------------------------
(* A weaker promise: some states become one of them, not necessarily all   *)
(* that could.  Nothing tells them apart but what may be: their condition  *)
(* lists and what their error transitions carry.                           *)
Reduce ==
  /\ result = input
  /\ \E rep \in [State -> State] : /\ Retract(input, rep, result')
                                   /\ NearlyStable(input, rep)
  /\ UNCHANGED input

ReduceSpec == Init /\ [][Reduce]_vars
=============================================================================
