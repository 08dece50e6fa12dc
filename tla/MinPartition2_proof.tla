------------------------ MODULE MinPartition2_proof ------------------------
(***************************************************************************)
(* minimizePartition2 leaves the coarsest stable partition, and fusing     *)
(* leaves no dangling pointer.                                             *)
(***************************************************************************)
EXTENDS MinPartition2, Partition_proof

IInv == /\ PInv /\ input \in Machines
        /\ splittable \subseteq 0 .. (numParts - 1)
        /\ InactiveStable

\* The invariant holds when minimizePartition2 is called.
LEMMA InitIInv == Init => IInv
<1> SUFFICES ASSUME Init PROVE IInv
  OBVIOUS
<1>1. PInv
  BY InitPInv DEF Init
<1> QED BY <1>1 DEF Init, PartitionInit, IInv, InactiveStable

\* The first list holds every partition with a transition.
LEMMA InitialPartitionIInv == ASSUME IInv, InitialPartition PROVE IInv'
<1>1. /\ PInv' /\ m' = m /\ input' = input /\ pc' = "split"
      /\ splittable' = {part'[s] : s \in {t \in m.live : ~ OutEmpty(m, t)}}
  BY PartitionByDataFacts DEF IInv, InitialPartition, PartitionByData
<1>2. splittable' \subseteq 0 .. (numParts' - 1)
  <2>1. /\ \A s \in m.live : part'[s] \in Nat /\ part'[s] < numParts'
        /\ numParts' \in Nat
    BY <1>1, PointersGood DEF PInv, NumInv
  <2>2. \A s \in m.live : part'[s] \in 0 .. (numParts' - 1)
    BY <2>1
  <2> QED BY <1>1, <2>2
<1>3. InactiveStable'
  BY <1>1, EmptyOutsStable DEF IInv, InitialPartition, InactiveStable
<1> QED BY <1>1, <1>2, <1>3 DEF IInv

\* Partition numbers in use stay in use when more are taken.
LEMMA RangeGrows ==
  ASSUME NEW a \in Nat, NEW b \in Nat, a <= b
  PROVE  0 .. (a - 1) \subseteq 0 .. (b - 1)
OBVIOUS

\* Splitting a partition and waking the predecessors of its states.
LEMMA SplitCandidateIInv ==
  ASSUME IInv, NEW p \in splittable, SplitCandidate(p)
  PROVE  IInv'
<1>1. PICK k \in NewParts(Members(p)) :
        /\ SplitPartition(p, k)
        /\ splittable' = (splittable \ {p}) \cup Woken(part', Members(p), k)
  BY DEF SplitCandidate
<1>2. /\ p \in Nat /\ p < numParts /\ numParts \in Nat /\ k \in Nat /\ PInv
      /\ pc' = pc /\ m' = m /\ input' = input /\ pc = "split" /\ m.live \subseteq State
  BY <1>1, PointersGood
     DEF IInv, PInv, NumInv, NewParts, SplitCandidate, SplitPartition
<1>3. /\ PInv'
      /\ \A s, t \in m.live : part'[s] = part'[t] <=>
           part[s] = part[t] /\ (part[s] = p => PartitionEqual(m, part, s, t))
      /\ \A s \in m.live : part[s] # p => part'[s] = part[s]
      /\ numParts' = numParts + k
      /\ k = 0 => \A s \in m.live : part'[s] = part[s]
  BY <1>1, <1>2, SplitPartitionFacts
<1>4. splittable' \subseteq 0 .. (numParts' - 1)
  <2>1. \A s \in m.live : part'[s] \in Nat /\ part'[s] < numParts'
    BY <1>2, <1>3 DEF PInv, NumInv
  <2>2. numParts' \in Nat /\ numParts <= numParts'
    BY <1>2, <1>3
  <2>3. \A s \in m.live : part'[s] \in 0 .. (numParts' - 1)
    BY <2>1, <2>2
  <2>4. Woken(part', Members(p), k) \subseteq 0 .. (numParts' - 1)
    BY <2>3 DEF Woken, Preds
  <2>5. splittable \subseteq 0 .. (numParts' - 1)
    <3>1. 0 .. (numParts - 1) \subseteq 0 .. (numParts' - 1)
      BY <1>2, <2>2, RangeGrows
    <3> QED BY <3>1 DEF IInv
  <2> QED BY <1>1, <2>4, <2>5
<1>5. InactiveStable'
  <2>1. k # 0 => \A t \in Preds(m, Members(p)) :
                   part'[t] \in Woken(part', Members(p), k)
    BY DEF Woken
  <2>2. StableOff(splittable)
    BY <1>2 DEF IInv, InactiveStable, StableOff
  <2> QED BY <1>1, <1>2, <2>1, <2>2, SplitWakes DEF InactiveStable
<1> QED BY <1>2, <1>3, <1>4, <1>5 DEF IInv

\* The invariant is inductive.
LEMMA StepIInv == ASSUME IInv, [Next]_vars PROVE IInv'
<1>1. CASE InitialPartition
  BY <1>1, InitialPartitionIInv
<1>2. CASE \E p \in splittable : SplitCandidate(p)
  BY <1>2, SplitCandidateIInv
<1>3. CASE SplitDone
  <2>1. PInv'
    BY <1>3, PhasePInv DEF SplitDone, IInv
  <2> QED BY <1>3, <2>1 DEF SplitDone, IInv, InactiveStable
<1>4. CASE FusePartitions
  <2>1. PInv' /\ pc' # "split" /\ numParts' = numParts /\ input' = input
    <3>1. CASE FuseNext
      BY <3>1, FuseNextPInv DEF IInv, FuseNext
    <3>2. CASE FuseDone
      BY <3>2, PhasePInv DEF IInv, FuseDone
    <3> QED BY <1>4, <3>1, <3>2 DEF FusePartitions
  <2> QED BY <1>4, <2>1 DEF FusePartitions, IInv, InactiveStable
<1>5. CASE UNCHANGED vars
  <2>1. PInv'
    BY <1>5, StutterPInv DEF IInv, vars
  <2> QED BY <1>5, <2>1 DEF vars, IInv, InactiveStable
<1> QED BY <1>1, <1>2, <1>3, <1>4, <1>5 DEF Next, Terminated

\* The invariant holds in every reachable state.
THEOREM Invariance == Spec => []IInv
<1>1. Init => IInv
  BY InitIInv
<1>2. IInv /\ [Next]_vars => IInv'
  BY StepIInv
<1> QED BY <1>1, <1>2, PTL DEF Spec

----------------------------------------------------------------------------
\* Every variable keeps its type; the active partitions are in use.
THEOREM TypeCorrect == Spec => []TypeOK
<1>1. IInv => TypeOK
  BY DEF IInv, PInv, GoodMachine, NumInv, TypeOK
<1> QED BY <1>1, Invariance, PTL

\* comparePartPtr never meets a transition on one side only.
THEOREM TransitionsMatched == Spec => []InitRespected
<1>1. IInv => InitRespected
  BY DEF IInv, PInv
<1> QED BY <1>1, Invariance, PTL

\* A partition off the splittable list needs no splitting, whatever order
\* the others are split in (the requeueing of splitCandidates).
THEOREM InactivePartitionsStable == Spec => []InactiveStable
<1>1. IInv => InactiveStable
  BY DEF IInv
<1> QED BY <1>1, Invariance, PTL

\* When splitCandidates returns, the partitions are exactly the coarsest
\* stable labelling: the minimized machine is correct and minimal.
THEOREM SplitIsMinimal == Spec => []MinimalWhenInactive
<1>1. IInv => MinimalWhenInactive
  <2> SUFFICES ASSUME IInv, pc = "split", splittable = {}
               PROVE  Minimal(m, part)
    BY DEF MinimalWhenInactive
  <2>1. Stable(m, part)
    BY DEF IInv, InactiveStable, Stable
  <2> QED BY <2>1 DEF IInv, PInv, NeverTooFine, Minimal
<1> QED BY <1>1, Invariance, PTL

\* fusePartitions never leaves a pointer of a surviving state, or the start
\* or an entry point, on a state it has deleted.
THEOREM FusingLeavesNoDanglingPointer == Spec => []NoDangling
<1>1. IInv => NoDangling
  BY DEF IInv, PInv, GoodMachine, NoDangling
<1> QED BY <1>1, Invariance, PTL
----------------------------------------------------------------------------
(* minimizePartition2 implements MinSpec: only the last step of fusing      *)
(* changes the abstract machine, and it replaces it by its quotient.        *)

\* The machine stands for the input while it is split and fused.
LEMMA StepRefineInv ==
  ASSUME IInv, RefineInv, [Next]_vars
  PROVE  RefineInv'
<1>0. PInv
  BY DEF IInv
<1>1. CASE InitialPartition
  BY <1>1 DEF InitialPartition, PartitionByData, RefineInv
<1>2. CASE \E p \in splittable : SplitCandidate(p)
  BY <1>2, SameRefineInv DEF SplitCandidate, SplitPartition
<1>3. CASE SplitDone
  <2>1. Minimal(m, part)
    <3>1. StableOff({})
      BY <1>3 DEF SplitDone, IInv, InactiveStable, StableOff
    <3> QED BY <1>0, <1>3, <3>1, AllStableMinimal DEF SplitDone
  <2> QED BY <1>0, <1>3, <2>1, FuseBeginsRefineInv DEF SplitDone
<1>4. CASE FusePartitions
  <2>1. CASE FuseNext
    BY <1>0, <2>1, FuseNextRefineInv
  <2>2. CASE FuseDone
    BY <2>2 DEF FuseDone, RefineInv
  <2> QED BY <1>4, <2>1, <2>2 DEF FusePartitions
<1>5. CASE UNCHANGED vars
  BY <1>5, SameRefineInv DEF vars
<1> QED BY <1>1, <1>2, <1>3, <1>4, <1>5 DEF Next, Terminated

\* Every step is a step of MinSpec or leaves its variables alone.
LEMMA StepAbstract ==
  ASSUME IInv, RefineInv, [Next]_vars
  PROVE  [Abstract!Next]_(Abstract!vars)
<1>1. CASE FuseDone
  BY <1>1, FuseDoneMinimizes DEF IInv, Abstract!Next
<1>2. CASE ~ FuseDone
  <2>1. input' = input /\ (pc = "done" <=> pc' = "done") /\ (pc = "done" => m' = m)
    BY <1>2 DEF Next, vars, InitialPartition, PartitionByData, SplitCandidate,
         SplitPartition, SplitDone, FusePartitions, FuseNext, Terminated
  <2> QED BY <2>1, OtherStepsStutter
<1> QED BY <1>1, <1>2

\* Whatever the order in which partitions are split and states fused, the
\* outcome is the input's quotient by the coarsest stable labelling.
THEOREM ImplementsMinSpec == Spec => AbstractSpec
<1>1. Init => RefineInv /\ Abstract!Init
  BY InitRefineInv DEF Init, PartitionInit, Abstract!Init
<1>2. IInv /\ RefineInv /\ [Next]_vars => RefineInv'
  BY StepRefineInv
<1>3. IInv /\ RefineInv /\ [Next]_vars => [Abstract!Next]_(Abstract!vars)
  BY StepAbstract
<1> QED BY <1>1, <1>2, <1>3, Invariance, PTL DEF Spec, AbstractSpec, Abstract!Spec

\* No partition in use is ever empty while partitions are split.
LEMMA StepPartsInv ==
  ASSUME IInv, PartsInv, [Next]_vars
  PROVE  PartsInv'
<1>0. PInv
  BY DEF IInv
<1>1. CASE InitialPartition
  BY <1>0, <1>1, PartitionByDataPartsInv DEF InitialPartition
<1>2. CASE \E p \in splittable : SplitCandidate(p)
  <2>1. PICK p \in splittable : SplitCandidate(p)
    BY <1>2
  <2>2. PICK k \in NewParts(Members(p)) : SplitPartition(p, k) /\ pc' = pc
    BY <2>1 DEF SplitCandidate
  <2>3. p \in Nat /\ p < numParts
    BY <1>0 DEF IInv, PInv, NumInv
  <2> QED BY <1>0, <2>2, <2>3, SplitPartitionPartsInv
<1>3. CASE SplitDone
  BY <1>0, <1>3, FuseBeginsPartsInv DEF SplitDone
<1>4. CASE FusePartitions
  BY <1>4, SamePartsInv DEF FusePartitions
<1>5. CASE UNCHANGED vars
  BY <1>5, SamePartsInv DEF vars
<1> QED BY <1>1, <1>2, <1>3, <1>4, <1>5 DEF Next, Terminated

\* The parts array of minimizePartition2, one element per state, is never
\* overrun, and no partition number is left without a state.
THEOREM PartsArrayFits == Spec => []PartsFit
<1>1. Init => RefineInv /\ PartsInv
  BY InitRefineInv DEF Init, PartitionInit, PartsInv
<1>2. IInv /\ RefineInv /\ PartsInv /\ [Next]_vars => RefineInv' /\ PartsInv'
  BY StepRefineInv, StepPartsInv
<1>3. IInv /\ RefineInv /\ PartsInv => PartsFit
  BY PartsInvFits DEF IInv
<1> QED BY <1>1, <1>2, <1>3, Invariance, PTL DEF Spec
=============================================================================
