-------------------------------- MODULE Fsm --------------------------------
(***************************************************************************)
(* The finite state machine graph (class FsmAp) as the minimizers see it,  *)
(* the comparison functors of fsmstate.cpp and the fusing of two states.   *)
(*                                                                         *)
(* A state is a number, its place on the main state list.  A key stands    *)
(* for one range of the alphabet on which every out list is uniform, so    *)
(* the pair iterator meets exactly one transition, or none, per state and  *)
(* key.  What a state carries has two parts, since not every comparison    *)
(* looks at both: its condition list, and all the rest (final bit, epsilon *)
(* list and what compareStateData looks at: priorities, action tables,     *)
(* leaving conditions).  All a transition carries besides its target is    *)
(* one value of Act.                                                       *)
(***************************************************************************)
EXTENDS Naturals, FiniteSets

CONSTANTS State,    \* states that may be on the main list
          Key,      \* uniform ranges of the alphabet
          StateData,\* final bits, epsilon lists and state data tables
          CondList, \* condition lists
          Act,      \* what compareTransData tells apart in a transition
          EntryId,  \* ids of labels with an entry point
          Null,     \* the null StateAp pointer: an error transition's target
          NoTrans   \* no transition at all on a key

ASSUME StateAssumption == State \subseteq Nat /\ IsFiniteSet(State)
ASSUME NullAssumption  == Null \notin Nat
ASSUME TransAssumption == NoTrans \notin [to : State \cup {Null}, act : Act]

\* What InitPartitionCompare tells apart in a state.
Data == [state : StateData, conds : CondList]

Trans == [to : State \cup {Null}, act : Act] \cup {NoTrans}

\* A machine: the states on its main list, and per state its data, out list
\* and EOF target; the start state and the entry points.
Machine == [live  : SUBSET State,
            data  : [State -> Data],
            out   : [State -> [Key -> Trans]],
            eof   : [State -> State \cup {Null}],
            start : State,
            entry : SUBSET (EntryId \X State)]

\* The targets of the pointers comparePartPtr follows.
To(m, s, k)   == IF m.out[s][k] = NoTrans THEN Null ELSE m.out[s][k].to
HasTrans(m, s, k) == m.out[s][k] # NoTrans
OutEmpty(m, s) == \A k \in Key : ~ HasTrans(m, s, k)

\* States with a transition into S: what a walk of the in lists of S finds.
Preds(m, S) == {t \in m.live : \E k \in Key : To(m, t, k) \in S}

----------------------------------------------------------------------------
(* The comparisons, each as "compares equal".                              *)

\* Mutant: a missing transition compares equal to any.
SameTransDataLax(m, s, t, k) ==
  HasTrans(m, s, k) /\ HasTrans(m, t, k) => m.out[s][k].act = m.out[t][k].act

\* compareDataPtr: both absent, or both there with the same data.
SameTransData(m, s, t, k) ==
  /\ HasTrans(m, s, k) <=> HasTrans(m, t, k)
  /\ HasTrans(m, s, k) => m.out[s][k].act = m.out[t][k].act

\* Mutant: the state data (final bit, action tables) is not compared.
InitPartitionEqualNoData(m, s, t) == \A k \in Key : SameTransData(m, s, t, k)

InitPartitionEqual(m, s, t) ==
  /\ m.data[s] = m.data[t]
  /\ \A k \in Key : SameTransData(m, s, t, k)

\* The partition a pointer leads to; a null pointer is its own class.
PartOf(part, x) == IF x = Null THEN Null ELSE part[x]

\* Mutant: compares the target states instead of their partitions.
PartitionEqualByState(m, part, s, t) ==
  /\ \A k \in Key : To(m, s, k) = To(m, t, k)
  /\ PartOf(part, m.eof[s]) = PartOf(part, m.eof[t])

PartitionEqual(m, part, s, t) ==
  /\ \A k \in Key : PartOf(part, To(m, s, k)) = PartOf(part, To(m, t, k))
  /\ PartOf(part, m.eof[s]) = PartOf(part, m.eof[t])

----------------------------------------------------------------------------
\* inTransMove: every transition into src leads to dest afterwards.
Redirected(m, dest, src) ==
  [s \in State |-> [k \in Key |->
     IF To(m, s, k) = src THEN [to |-> dest, act |-> m.out[s][k].act]
                          ELSE m.out[s][k]]]

\* Mutant: the entry points of src get lost.
FuseDropEntry(m, dest, src) ==
  [live  |-> m.live \ {src}, data |-> m.data,
   out   |-> Redirected(m, dest, src), eof |-> m.eof,
   start |-> IF m.start = src THEN dest ELSE m.start,
   entry |-> {e \in m.entry : e[2] # src}]

\* fuseEquivStates: src's in transitions, start mark and entry points move
\* to dest, src is detached and deleted.
Fuse(m, dest, src) ==
  [live  |-> m.live \ {src},
   data  |-> m.data,
   out   |-> Redirected(m, dest, src),
   eof   |-> m.eof,
   start |-> IF m.start = src THEN dest ELSE m.start,
   entry |-> {IF e[2] = src THEN <<e[1], dest>> ELSE e : e \in m.entry}]

----------------------------------------------------------------------------
(* Machines the minimizers are given.                                      *)

\* States reachable through transitions from the start and the entry points,
\* what is left after removeUnreachableStates.
Reachable(m) ==
  LET Step(S) == S \cup ({To(m, s, k) : s \in S, k \in Key} \ {Null})
      R[n \in Nat] == IF n = 0 THEN {m.start} \cup {e[2] : e \in m.entry}
                               ELSE Step(R[n-1])
  IN  R[Cardinality(State)]

\* EOF targets exist only in a machine built by runLongestMatch: they point
\* to the start state, which alone carries the action that sets ts, and a
\* state has one exactly if its EOF table ends in the scanner's own action.
ScannerShape(m) ==
  \A s, t \in m.live :
    /\ m.eof[s] \in {Null, m.start}
    /\ m.eof[s] # Null /\ t # m.start =>
         m.data[t].state # m.data[m.start].state
    /\ m.data[s].state = m.data[t].state => m.eof[s] = m.eof[t]

\* Pointers of live states lead to live states.
Closed(m) ==
  /\ m.start \in m.live
  /\ \A e \in m.entry : e[2] \in m.live
  /\ \A s \in m.live : /\ \A k \in Key : To(m, s, k) \in m.live \cup {Null}
                       /\ m.eof[s] \in m.live \cup {Null}

----------------------------------------------------------------------------
(* The promise of minimization, stated on the machine itself.              *)

\* Nothing seen in s and t themselves, or in the labels of the states they
\* lead to, tells s and t apart.
Alike(m, lab, s, t) ==
  /\ m.data[s] = m.data[t]
  /\ PartOf(lab, m.eof[s]) = PartOf(lab, m.eof[t])
  /\ \A k \in Key :
       /\ m.out[s][k] = NoTrans <=> m.out[t][k] = NoTrans
       /\ m.out[s][k] # NoTrans =>
            /\ m.out[s][k].act = m.out[t][k].act
            /\ PartOf(lab, m.out[s][k].to) = PartOf(lab, m.out[t][k].to)

\* A labelling is stable if states with the same label are alike under it.
Stable(m, lab) ==
  \A s, t \in m.live : lab[s] = lab[t] => Alike(m, lab, s, t)

\* a is at least as coarse as b.
Coarser(m, a, b) == \A s, t \in m.live : b[s] = b[t] => a[s] = a[t]

\* The coarsest stable labelling: two states have the same label exactly if
\* no input and no end of input tells them apart.
Minimal(m, lab) ==
  /\ Stable(m, lab)
  /\ \A c \in [State -> State] : Stable(m, c) => Coarser(m, lab, c)

\* q is m with every state replaced by its representative.
Quotient(m, rep, q) ==
  /\ q.live = {rep[s] : s \in m.live}
  /\ q.start = rep[m.start]
  /\ q.entry = {<<e[1], rep[e[2]]>> : e \in m.entry}
  /\ \A s \in m.live :
       /\ q.data[rep[s]] = m.data[s]
       /\ q.eof[rep[s]] = PartOf(rep, m.eof[s])
       /\ \A k \in Key : q.out[rep[s]][k] =
            IF HasTrans(m, s, k)
            THEN [to |-> PartOf(rep, To(m, s, k)), act |-> m.out[s][k].act]
            ELSE NoTrans
----------------------------------------------------------------------------
(* The smaller promise of minimizeApproximate.                             *)

\* As Alike, but for what ApproxCompare does not look at: condition lists
\* and the data of error transitions.
NearlyAlike(m, lab, s, t) ==
  /\ m.data[s].state = m.data[t].state
  /\ PartOf(lab, m.eof[s]) = PartOf(lab, m.eof[t])
  /\ \A k \in Key :
       /\ HasTrans(m, s, k) <=> HasTrans(m, t, k)
       /\ PartOf(lab, To(m, s, k)) = PartOf(lab, To(m, t, k))
       /\ To(m, s, k) # Null => m.out[s][k].act = m.out[t][k].act

NearlyStable(m, lab) ==
  \A s, t \in m.live : lab[s] = lab[t] => NearlyAlike(m, lab, s, t)

\* q is what is left of m when only the representatives stay: each of them
\* keeps all it carries, and is led to in place of those it stands for.
Retract(m, rep, q) ==
  /\ q.live = {rep[s] : s \in m.live}
  /\ q.start = rep[m.start]
  /\ q.entry = {<<e[1], rep[e[2]]>> : e \in m.entry}
  /\ \A s \in q.live :
       /\ s \in m.live /\ rep[s] = s
       /\ q.data[s] = m.data[s]
       /\ q.eof[s] = PartOf(rep, m.eof[s])
       /\ \A k \in Key : q.out[s][k] =
            IF HasTrans(m, s, k)
            THEN [to |-> PartOf(rep, To(m, s, k)), act |-> m.out[s][k].act]
            ELSE NoTrans
=============================================================================
