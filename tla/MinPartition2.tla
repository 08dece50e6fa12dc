--------------------------- MODULE MinPartition2 ---------------------------
(***************************************************************************)
(* FsmAp::minimizePartition2, the default minimizer.  splitCandidates      *)
(* keeps a list of the partitions that may still have to be split, and     *)
(* after a split puts back on it only the partitions with a transition     *)
(* into the one that was split.                                            *)
(*                                                                         *)
(* The list is a set here: the code takes its partitions first in first    *)
(* out, but appends them in the order of the in lists, which is the order  *)
(* the transitions happened to be attached in.                             *)
(***************************************************************************)
EXTENDS Partition

VARIABLE splittable   \* the partitions marked active

vars == <<pc, input, m, part, numParts, splittable>>

\* Mutant: partition pointers read before the moved states got theirs fixed.
WokenStale(newPart, S, k) ==
  IF k = 0 THEN {} ELSE {part[t] : t \in Preds(m, S)}

\* Mutant: predecessors become active although nothing was split.
WokenAlways(newPart, S, k) == {newPart[t] : t \in Preds(m, S)}

\* The partitions a split of the states S into k + 1 makes splittable: those
\* a transition into S comes from.  None if nothing was split.
Woken(newPart, S, k) ==
  IF k = 0 THEN {} ELSE {newPart[t] : t \in Preds(m, S)}

Init == PartitionInit /\ splittable = {}

\* Every partition with a transition out of one of its states is active.
InitialPartition ==
  /\ PartitionByData
  /\ splittable' = {part'[s] : s \in {t \in m.live : ~ OutEmpty(m, t)}}

\* One turn of the loop of splitCandidates.
SplitCandidate(p) ==
  /\ p \in splittable
  /\ \E k \in NewParts(Members(p)) :
       /\ SplitPartition(p, k)
       /\ splittable' = (splittable \ {p}) \cup Woken(part', Members(p), k)
  /\ UNCHANGED pc

SplitDone ==
  /\ pc = "split" /\ splittable = {}
  /\ pc' = "fuse"
  /\ UNCHANGED <<input, m, part, numParts, splittable>>

FusePartitions == (FuseNext \/ FuseDone) /\ UNCHANGED splittable

Terminated == pc = "done" /\ UNCHANGED vars

Next == \/ InitialPartition
        \/ \E p \in splittable : SplitCandidate(p)
        \/ SplitDone
        \/ FusePartitions
        \/ Terminated

Spec == Init /\ [][Next]_vars
FairSpec == Spec /\ WF_vars(Next)   \* a sequential program runs on
----------------------------------------------------------------------------
TypeOK ==
  /\ pc \in {"init", "split", "fuse", "done"}
  /\ input \in Machines
  /\ m \in Machine
  /\ part \in [State -> Nat]
  /\ numParts \in Nat \ {0}
  /\ splittable \subseteq 0 .. (numParts - 1)

\* A partition that is not on the splittable list needs no splitting under
\* the current partition, however the others were split since it was looked
\* at: the in lists walked after a split reach every partition concerned.
InactiveStable ==
  pc = "split" => \A s, t \in m.live :
    part[s] = part[t] /\ part[s] \notin splittable => Alike(m, part, s, t)

\* When the list has run empty the partitions are the coarsest stable ones:
\* "continue until there are no more that might need to be split".
MinimalWhenInactive ==
  pc = "split" /\ splittable = {} => Minimal(m, part)
=============================================================================
