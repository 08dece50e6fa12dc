------------------------------ MODULE MinMark ------------------------------
(***************************************************************************)
(* FsmAp::minimizeStable: mark the pairs of states that differ, round by   *)
(* round, then fuse each state into the first one it is not marked with.   *)
(***************************************************************************)
EXTENDS Fsm

CONSTANT Machines

VARIABLES
  pc,         \* "init", "mark", "fuse", "done", or "fault": null dereference
  input,      \* the machine minimizeStable was called on
  m,          \* the machine
  marked,     \* markIndex: the pairs <<p, q>>, q < p, found to differ
  todo,       \* pairs markRound has not come to yet
  modified    \* the round has marked a pair

vars == <<pc, input, m, marked, todo, modified>>

\* The pairs the two nested walks of the state list visit.
Pairs == {r \in m.live \X m.live : r[2] < r[1]}

\* markIndex is symmetric; a state is never marked with itself.
IsPairMarked(s, t) == <<s, t>> \in marked \/ <<t, s>> \in marked

\* The order of the two nested walks of the state list.
Before(r1, r2) == r1[1] < r2[1] \/ (r1[1] = r2[1] /\ r1[2] < r2[2])

\* shouldMarkPtr follows the targets of both transitions without a test.
FollowsNull(s, t) ==
  \E k \in Key : /\ HasTrans(m, s, k) /\ HasTrans(m, t, k)
                 /\ Null \in {To(m, s, k), To(m, t, k)}
                 /\ \A j \in Key : j < k /\ HasTrans(m, s, j)
                      => ~ IsPairMarked(To(m, s, j), To(m, t, j))

\* Mutant: states are told apart by their targets, not by marks.
ShouldMarkTargets(s, t) ==
  \E k \in Key : HasTrans(m, s, k) /\ To(m, s, k) # To(m, t, k)

\* MarkCompare::shouldMark.
ShouldMark(s, t) ==
  \E k \in Key : HasTrans(m, s, k) /\ IsPairMarked(To(m, s, k), To(m, t, k))

----------------------------------------------------------------------------
Init ==
  /\ pc = "init"
  /\ input \in Machines
  /\ m = input
  /\ marked = {} /\ todo = {} /\ modified = FALSE

InitialMarkRound ==
  /\ pc = "init"
  /\ marked' = {r \in Pairs : ~ InitPartitionEqual(m, r[1], r[2])}
  /\ todo' = Pairs
  /\ pc' = "mark"
  /\ UNCHANGED <<input, m, modified>>

\* One turn of markRound's inner loop.
MarkPair ==
  /\ pc = "mark"
  /\ \E r \in todo :
       /\ \A r2 \in todo : r2 = r \/ Before(r, r2)
       /\ todo' = todo \ {r}
       /\ \/ /\ r \in marked
             /\ UNCHANGED <<pc, marked, modified>>
          \/ /\ r \notin marked /\ FollowsNull(r[1], r[2])
             /\ pc' = "fault"
             /\ UNCHANGED <<marked, modified>>
          \/ /\ r \notin marked /\ ~ FollowsNull(r[1], r[2])
             /\ LET mark == ShouldMark(r[1], r[2]) IN
                /\ marked' = IF mark THEN marked \cup {r} ELSE marked
                /\ modified' = (modified \/ mark)
             /\ UNCHANGED pc
  /\ UNCHANGED <<input, m>>

\* "While the last round of marking succeeded in marking a state continue."
EndRound ==
  /\ pc = "mark" /\ todo = {}
  /\ IF modified THEN pc' = pc /\ todo' = Pairs ELSE pc' = "fuse" /\ todo' = {}
  /\ modified' = FALSE
  /\ UNCHANGED <<input, m, marked>>

\* fuseUnmarkedPairs: the first state with an unmarked state before it is
\* fused into the first such state.
Unmarked(s) == {t \in m.live : t < s /\ ~ IsPairMarked(s, t)}

FuseUnmarkedPair ==
  /\ pc = "fuse"
  /\ \E s \in m.live : \E t \in Unmarked(s) :
       /\ \A u \in Unmarked(s) : t <= u
       /\ \A u \in m.live : u < s => Unmarked(u) = {}
       /\ m' = Fuse(m, t, s)
  /\ UNCHANGED <<pc, input, marked, todo, modified>>

FuseDone ==
  /\ pc = "fuse"
  /\ \A s \in m.live : Unmarked(s) = {}
  /\ pc' = "done"
  /\ UNCHANGED <<input, m, marked, todo, modified>>

Terminated == pc \in {"done", "fault"} /\ UNCHANGED vars

Next == \/ InitialMarkRound \/ MarkPair \/ EndRound
        \/ FuseUnmarkedPair \/ FuseDone \/ Terminated

Spec == Init /\ [][Next]_vars
FairSpec == Spec /\ WF_vars(Next)   \* a sequential program runs on
----------------------------------------------------------------------------
TypeOK ==
  /\ pc \in {"init", "mark", "fuse", "done", "fault"}
  /\ m \in Machine
  /\ marked \subseteq {r \in State \X State : r[2] < r[1]}
  /\ todo \subseteq {r \in State \X State : r[2] < r[1]}
  /\ modified \in BOOLEAN

\* Only pairs that some input tells apart are marked, in every round.
MarkedDiffer ==
  pc = "mark" => \A c \in [State -> State] : Stable(m, c) =>
    \A r \in marked : c[r[1]] # c[r[2]]

\* Once the fusing starts, "unmarked" is an equivalence: each state has one
\* class, the primary state of the comment in fuseUnmarkedPairs is unique.
UnmarkedTransitive ==
  pc = "fuse" => \A s, t, u \in m.live :
    ~ IsPairMarked(s, t) /\ ~ IsPairMarked(t, u) => ~ IsPairMarked(s, u)

\* shouldMarkPtr never dereferences the null target of an error transition.
NoFault == pc # "fault"

\* Marking reaches a fixed point and the fusing ends.
Termination == <>(pc \in {"done", "fault"})

\* minimizeStable does what MinSpec says in one step.
Abstract == INSTANCE MinSpec WITH result <- IF pc = "done" THEN m ELSE input
AbstractSpec == Abstract!Spec
=============================================================================
