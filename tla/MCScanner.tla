------------------------------ MODULE MCScanner ------------------------------
(***************************************************************************)
(* Small scanners: every machine over State and Key that is the union of   *)
(* patterns, up to the names of its states.                                *)
(***************************************************************************)
EXTENDS Scanner, SequencesExt

CONSTANTS Labels,   \* the sets of patterns that match together
          Dead      \* what may stand for a missing transition: None, Null

States3 == 1 .. 3
States4 == 1 .. 4
Keys    == SetToSeq(Key)

\* The transitions a state may have when the final states are those in F.
Edges(F) == {[to |-> d, lm |-> {}] : d \in Dead \cup (State \ F)}
            \cup {[to |-> f, lm |-> L] : f \in F, L \in Labels}

\* The transitions in the order of the states and keys.
Places == 0 .. Cardinality(State) * Len(Keys) - 1

At(g, i) == g[1 + i \div Len(Keys)][Keys[1 + (i % Len(Keys))]]

\* States are numbered in the order a breadth-first walk finds them.
Found(g) ==
  \A t \in State \ {1} : \E i \in 0 .. (t - 1) * Len(Keys) - 1 :
    At(g, i).to = t /\ \A j \in 0 .. i - 1 : ~(At(g, j).to \in State /\ At(g, j).to > t)

\* Every state leads to a final one.
LeadsToFinal(g, F) ==
  LET more[M \in SUBSET State] ==
        LET N == M \cup {s \in State : \E k \in Key : g[s][k].to \in M}
        IN IF N = M THEN M ELSE more[N]
  IN more[F] = State

\* When the patterns never match the same text, they are interchangeable:
\* the one the numbering reaches first is pattern 1.
FirstLabel(g) ==
  \E i \in Places : At(g, i).lm = {1} /\ \A j \in 0 .. i - 1 : At(g, j).lm = {}

\* A final start state matters only where a transition leads back to it.
AllGraphs ==
  UNION { {g \in [State -> [Key -> Edges(F)]] :
             /\ Pat \in Labels \/ FirstLabel(g)
             /\ Found(g)
             /\ LeadsToFinal(g, F)
             /\ 1 \in F => \E s \in State, k \in Key : g[s][k].to = 1}
          : F \in (SUBSET State) \ {{}} }
=============================================================================
