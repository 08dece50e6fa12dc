--------------------------- MODULE MinPartition1 ---------------------------
(***************************************************************************)
(* FsmAp::minimizePartition1: partitionRound tries every partition in      *)
(* turn, those the round itself creates included, until a whole round      *)
(* splits nothing.                                                         *)
(***************************************************************************)
EXTENDS Partition

VARIABLES p,        \* the partition partitionRound looks at next
          before    \* numParts when the round began

vars == <<pc, input, m, part, numParts, p, before>>

Init == PartitionInit /\ p = 0 /\ before = 0

InitialPartition ==
  /\ PartitionByData
  /\ p' = 0 /\ before' = numParts'

\* One turn of the loop of partitionRound.
SplitTurn ==
  /\ p < numParts
  /\ \E k \in NewParts(Members(p)) : SplitPartition(p, k)
  /\ p' = p + 1
  /\ UNCHANGED <<pc, before>>

\* Mutant: the number of partitions before the round is not remembered.
RoundAgainForget ==
  /\ pc = "split" /\ p = numParts /\ numParts # before
  /\ p' = 0
  /\ UNCHANGED <<pc, input, m, part, numParts, before>>

\* The round split something: another.
RoundAgain ==
  /\ pc = "split" /\ p = numParts /\ numParts # before
  /\ p' = 0 /\ before' = numParts
  /\ UNCHANGED <<pc, input, m, part, numParts>>

\* "When no partitions can be split, stop."
RoundsDone ==
  /\ pc = "split" /\ p = numParts /\ numParts = before
  /\ pc' = "fuse"
  /\ UNCHANGED <<input, m, part, numParts, p, before>>

FusePartitions == (FuseNext \/ FuseDone) /\ UNCHANGED <<p, before>>

Terminated == pc = "done" /\ UNCHANGED vars

Next == \/ InitialPartition \/ SplitTurn \/ RoundAgain \/ RoundsDone
        \/ FusePartitions \/ Terminated

Spec == Init /\ [][Next]_vars
FairSpec == Spec /\ WF_vars(Next)   \* a sequential program runs on
----------------------------------------------------------------------------
TypeOK ==
  /\ pc \in {"init", "split", "fuse", "done"}
  /\ m \in Machine
  /\ part \in [State -> Nat]
  /\ numParts \in Nat \ {0}
  /\ p \in 0 .. numParts /\ before \in 0 .. numParts

\* A round that ends without a split has found the coarsest stable
\* partition ("until all partitions are unsplittable").
MinimalWhenRoundsEnd ==
  pc = "split" /\ p = numParts /\ numParts = before => Minimal(m, part)
=============================================================================
