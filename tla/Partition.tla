----------------------------- MODULE Partition -----------------------------
(***************************************************************************)
(* What minimizePartition1 and minimizePartition2 have in common: the      *)
(* initial partition of the states by their data, the splitting of one     *)
(* partition by PartitionCompare, and fusePartitions.                      *)
(*                                                                         *)
(* The order in which a sort leaves the classes it finds (by addresses of  *)
(* condition spaces and actions, by partition) decides only which class    *)
(* keeps the partition's number and which get which new ones: any may.     *)
(***************************************************************************)
EXTENDS Fsm

CONSTANT Machines   \* the machines minimization may be asked to reduce

\* Minimizers run on graphs whose pointers are all good and whose EOF
\* targets, if any, are those of one scanner.
ASSUME MachinesAssumption ==
  Machines \subseteq {x \in Machine : Closed(x) /\ ScannerShape(x)}

VARIABLES
  pc,          \* "init", "split", "fuse" or "done"
  input,       \* the machine the minimizer was called on
  m,           \* the machine
  part,        \* alg.partition of each live state
  numParts     \* partitions 0 .. numParts-1 are in use

Members(p) == {s \in m.live : part[s] = p}

\* Mutant: the first new partition is one too far.
AssignmentsSkip(S, p, k, R) ==
  {f \in [S -> {p} \cup (numParts + 1) .. (numParts + k)] :
     /\ \A q \in {p} \cup (numParts + 1) .. (numParts + k) :
          \E s \in S : f[s] = q
     /\ \A s, t \in S : f[s] = f[t] <=> <<s, t>> \in R}

\* Mutant: a number is taken although no state moves to it.
AssignmentsEmpty(S, p, k, R) ==
  {f \in [S -> {p} \cup numParts .. (numParts + k - 1)] :
     \A s, t \in S : f[s] = f[t] <=> <<s, t>> \in R}

\* Assignments of the states of S to partition p and k new ones, such that
\* two states share one exactly if they are related by R.
Assignments(S, p, k, R) ==
  {f \in [S -> {p} \cup numParts .. (numParts + k - 1)] :
     /\ \A q \in {p} \cup numParts .. (numParts + k - 1) :
          \E s \in S : f[s] = q
     /\ \A s, t \in S : f[s] = f[t] <=> <<s, t>> \in R}

\* The states of S are sorted, compared with their neighbours, and all but
\* one of the classes found move to k new partitions.
Split(S, p, k, R) ==
  \E f \in Assignments(S, p, k, R) :
    /\ part' = [s \in State |-> IF s \in S THEN f[s] ELSE part[s]]
    /\ numParts' = numParts + k

\* How many new partitions a split of S may take.
NewParts(S) == 0 .. (Cardinality(S) - 1)

----------------------------------------------------------------------------
PartitionInit ==
  /\ pc = "init"
  /\ input \in Machines
  /\ m = input
  /\ part = [s \in State |-> 0]
  /\ numParts = 1

\* Sort all states by InitPartitionCompare.
PartitionByData ==
  /\ pc = "init"
  /\ \E k \in NewParts(m.live) :
       Split(m.live, 0, k,
             {r \in m.live \X m.live : InitPartitionEqual(m, r[1], r[2])})
  /\ pc' = "split"
  /\ UNCHANGED <<input, m>>

\* Sort partition p by PartitionCompare; k is the number of new partitions.
SplitPartition(p, k) ==
  LET S == Members(p) IN
  /\ pc = "split"
  /\ Split(S, p, k, {r \in S \X S : PartitionEqual(m, part, r[1], r[2])})
  /\ UNCHANGED <<input, m>>

\* One turn of the inner loop of fusePartitions: the second state of the
\* first partition with two is fused into its first.
FuseNext ==
  /\ pc = "fuse"
  /\ \E dest, src \in m.live :
       /\ dest < src /\ part[dest] = part[src]
       /\ \A s \in Members(part[src]) : s = dest \/ s >= src
       /\ \A p \in 0 .. (part[src] - 1) : Cardinality(Members(p)) = 1
       /\ m' = Fuse(m, dest, src)
  /\ UNCHANGED <<pc, input, part, numParts>>

FuseDone ==
  /\ pc = "fuse"
  /\ \A p \in 0 .. (numParts - 1) : Cardinality(Members(p)) = 1
  /\ pc' = "done"
  /\ UNCHANGED <<input, m, part, numParts>>

----------------------------------------------------------------------------
\* The parts array has one element per state and every partition in use has
\* a first state ("Assume that there will always be at least one state.").
PartsFit ==
  pc \in {"split", "fuse"} =>
    /\ numParts <= Cardinality(input.live)
    /\ \A s \in m.live : part[s] \in 0 .. (numParts - 1)
    /\ pc = "split" => \A p \in 0 .. (numParts - 1) : Members(p) # {}

\* Two states in one partition have transitions on the same keys, with the
\* same data: comparePartPtr relies on it ("If trans1 is set then so should
\* trans2. The initial partitioning guarantees this for us.").
InitRespected ==
  pc = "split" => \A s, t \in m.live : part[s] = part[t] =>
    /\ m.data[s] = m.data[t]
    /\ \A k \in Key : IF m.out[s][k] = NoTrans THEN m.out[t][k] = NoTrans
                     ELSE /\ m.out[t][k] # NoTrans
                          /\ m.out[s][k].act = m.out[t][k].act

\* While states are fused every pointer of a state still on the main list
\* leads to a state on it: transitions, start, entry points, EOF targets.
NoDangling == Closed(m)

\* Minimization ends.
Termination == <>(pc = "done")

\* The algorithm does what MinSpec says in one step.
Abstract == INSTANCE MinSpec WITH result <- IF pc = "done" THEN m ELSE input
AbstractSpec == Abstract!Spec
=============================================================================
