---------------------------- MODULE FsmOps_proof ----------------------------
(***************************************************************************)
(* The operators of FsmOps, whatever the machines: no step leaves a        *)
(* transition, a final state or an entry of the fill list on a state that  *)
(* is not there (OInv), bits and leaving data are taken off in time        *)
(* (MarksInv), and what comes out does what the two machines do side by    *)
(* side (PromiseInv): each state is, at every point of the run, what       *)
(* merging the threads it stands for that have been merged so far makes.   *)
(***************************************************************************)
EXTENDS FsmOps, Recursion

\* A transition leads to a state of N or is an error transition.
Into(t, N) == t = NoTrans \/ t.to \in N \cup {Null}

\* NoDangling of a graph, with its type.  States that are not there have no
\* transitions, so all names of states are covered.
Sound(h) == /\ h \in Graph
            /\ h.fin \cup h.fill \subseteq h.nodes
            /\ \A x \in Node, k \in Key : Into(h.out[x][k], h.nodes)

\* The states a combined state stands for are there to be merged.
Closed(h) == \A x \in h.nodes : Singles(x) \subseteq h.nodes

\* Lemma: crossing two transitions gives one, into one of their targets or
\* the two of them combined (crossTransitions).
LEMMA CrossFacts ==
  ASSUME NEW d \in Trans, d # NoTrans, NEW s \in Trans, s # NoTrans
  PROVE  /\ Cross(d, s) \in Trans /\ Cross(d, s) # NoTrans
         /\ Cross(d, s).to \in {d.to, s.to, d.to \cup s.to}
<1> DEFINE R == [to : SUBSET Plain, act : SUBSET Act, prior : Prior]
<1>1. d \in R /\ s \in R
  BY DEF Trans
<1>2. Cross(d, s) \in R
  BY <1>1 DEF Cross
<1>3. Cross(d, s).to \in {d.to, s.to, d.to \cup s.to}
  BY <1>1 DEF Cross
<1> QED BY <1>2, <1>3, TransAssumption DEF Trans

\* Lemma: the states fsmAttachStates adds are all that the merged out list
\* needs, and every one stands for states that are there.
LEMMA OutTransCopyFacts ==
  ASSUME NEW h, Sound(h), Closed(h), NEW x \in h.nodes,
         NEW s \in [Key -> Trans], \A k \in Key : Into(s[k], h.nodes)
  PROVE  LET o   == OutTransCopy(h.out[x], s)
             new == Combined(h, o)
         IN  /\ o \in [Key -> Trans]
             /\ new \subseteq Node
             /\ \A k \in Key : Into(o[k], h.nodes \cup new)
             /\ \A y \in new : Singles(y) \subseteq h.nodes
<1> DEFINE d   == h.out[x]
           o   == OutTransCopy(d, s)
           new == Combined(h, o)
<1>1. d \in [Key -> Trans] /\ x \in Node /\ h.nodes \subseteq Node
  BY DEF Sound, Graph
<1>2. \A k \in Key : Into(d[k], h.nodes)
  BY <1>1 DEF Sound
<1>3. ASSUME NEW k \in Key
      PROVE  /\ o[k] \in Trans
             /\ o[k] # NoTrans => Singles(o[k].to) \subseteq h.nodes /\ o[k].to \subseteq Plain
  <2>0. d[k] \in Trans /\ s[k] \in Trans
    BY <1>1
  <2>1. \A t \in {d[k], s[k]} : t # NoTrans => Singles(t.to) \subseteq h.nodes /\ t.to \subseteq Plain
    BY <1>1, <1>2, <2>0 DEF Into, Closed, Singles, Null, Trans
  <2>2. CASE s[k] = NoTrans \/ d[k] = NoTrans
    BY <2>0, <2>1, <2>2 DEF OutTransCopy
  <2>3. CASE s[k] # NoTrans /\ d[k] # NoTrans
    <3>1. o[k] = Cross(d[k], s[k])
      BY <2>3 DEF OutTransCopy
    <3> QED BY <2>0, <2>1, <2>3, <3>1, CrossFacts DEF Singles
  <2> QED BY <2>2, <2>3
<1>4. o \in [Key -> Trans]
  BY <1>3 DEF OutTransCopy
<1>5. new \subseteq Node /\ \A y \in new : Singles(y) \subseteq h.nodes
  <2> SUFFICES ASSUME NEW y \in new
               PROVE  y \in Node /\ Singles(y) \subseteq h.nodes
    OBVIOUS
  <2> HIDE DEF o
  <2>1. PICK k \in Key : o[k] # NoTrans /\ y = o[k].to /\ y # Null
    BY DEF Combined
  <2>2. y \in SUBSET Plain /\ y # {} /\ Singles(y) \subseteq h.nodes
    BY <1>3, <2>1 DEF Null
  <2> QED BY <2>2 DEF Node, Null
<1>6. \A k \in Key : Into(o[k], h.nodes \cup new)
  BY DEF Combined, Into, Null
<1> QED BY <1>4, <1>5, <1>6

\* Lemma: mergeStates leaves the graph sound, and takes no state away.
LEMMA MergeStatesSound ==
  ASSUME NEW h, Sound(h), Closed(h), NEW x \in h.nodes, NEW y \in h.nodes,
         NEW s \in [Key -> Trans], \A k \in Key : Into(s[k], h.nodes)
  PROVE  LET r == MergeStates(h, x, y, s)
         IN  Sound(r) /\ Closed(r) /\ h.nodes \subseteq r.nodes
<1> DEFINE o   == OutTransCopy(h.out[x], s)
           new == Combined(h, o)
           r   == MergeStates(h, x, y, s)
<1>1. /\ o \in [Key -> Trans] /\ new \subseteq Node
      /\ \A k \in Key : Into(o[k], h.nodes \cup new)
      /\ \A z \in new : Singles(z) \subseteq h.nodes
  BY OutTransCopyFacts
<1> HIDE DEF o, new
<1>2. /\ r.nodes = h.nodes \cup new
      /\ r.out = [h.out EXCEPT ![x] = o]
      /\ r.fin \in {h.fin, h.fin \cup {x}}
      /\ r.bits = [h.bits EXCEPT ![x] = @ \cup h.bits[y]]
      /\ r.leave = [h.leave EXCEPT ![x] = @ \cup h.leave[y]]
      /\ r.fill = h.fill \cup new
  BY DEF MergeStates, o, new
<1>3. /\ h.nodes \subseteq Node /\ h.out \in [Node -> [Key -> Trans]]
      /\ h.fin \subseteq h.nodes /\ h.fill \subseteq h.nodes
      /\ h.bits \in [Node -> SUBSET {1, 2}] /\ h.leave \in [Node -> SUBSET Act]
  BY DEF Sound, Graph
<1>4. /\ r.nodes \in SUBSET Node /\ r.out \in [Node -> [Key -> Trans]]
      /\ r.fin \in SUBSET Node /\ r.fill \in SUBSET Node
      /\ r.bits \in [Node -> SUBSET {1, 2}] /\ r.leave \in [Node -> SUBSET Act]
  BY <1>1, <1>2, <1>3
<1>5. r \in Graph
  BY <1>4 DEF MergeStates, Graph
<1>6. r.fin \cup r.fill \subseteq r.nodes
  BY <1>2, <1>3
<1>7. \A z \in Node, k \in Key : Into(r.out[z][k], r.nodes)
  <2> SUFFICES ASSUME NEW z \in Node, NEW k \in Key
               PROVE  Into(r.out[z][k], h.nodes \cup new)
    BY <1>2 DEF Into
  <2>1. CASE z = x
    BY <1>1, <1>2, <1>3, <2>1
  <2>2. CASE z # x
    <3>1. r.out[z] = h.out[z]
      BY <1>2, <1>3, <2>2
    <3> QED BY <3>1 DEF Sound, Into
  <2> QED BY <2>1, <2>2
<1>8. Closed(r)
  BY <1>1, <1>2 DEF Closed
<1> QED BY <1>2, <1>5, <1>6, <1>7, <1>8 DEF Sound

\* Lemma: so does mergeStatesLeaving, which copies the leaving actions onto
\* the source's transitions first.
LEMMA MergeStatesLeavingSound ==
  ASSUME NEW h, Sound(h), Closed(h), NEW x \in h.nodes, NEW y \in h.nodes
  PROVE  LET r == MergeStatesLeaving(h, x, y)
         IN  Sound(r) /\ Closed(r) /\ h.nodes \subseteq r.nodes
<1> DEFINE s == TransferOutData(h.out[y], h.leave[x])
<1>1. /\ h.out[y] \in [Key -> Trans] /\ h.leave[x] \in SUBSET Act
      /\ \A k \in Key : Into(h.out[y][k], h.nodes)
  BY DEF Sound, Graph
<1>2. \A k \in Key : s[k] \in Trans /\ Into(s[k], h.nodes)
  BY <1>1 DEF TransferOutData, Trans, Into
<1>3. s \in [Key -> Trans]
  BY <1>2 DEF TransferOutData
<1> HIDE DEF s
<1>4. LET r == MergeStates(h, x, y, s)
      IN  Sound(r) /\ Closed(r) /\ h.nodes \subseteq r.nodes
  BY <1>2, <1>3, MergeStatesSound
<1> QED BY <1>4 DEF MergeStatesLeaving, s

\* Lemma: detachState leaves no transition into the states it takes away.
LEMMA DetachStatesSound ==
  ASSUME NEW h, Sound(h), NEW gone
  PROVE  Sound(DetachStates(h, gone))
<1> DEFINE r == DetachStates(h, gone)
<1>1. /\ r.nodes = h.nodes \ gone /\ r.fin = h.fin \ gone /\ r.fill = h.fill \ gone
      /\ r.out = [x \in Node |-> IF x \in gone THEN EmptyOut
                   ELSE [k \in Key |-> IF To(h, x, k) \in gone THEN NoTrans
                                                               ELSE h.out[x][k]]]
      /\ r.bits = [x \in Node |-> IF x \in gone THEN {} ELSE h.bits[x]]
      /\ r.leave = [x \in Node |-> IF x \in gone THEN {} ELSE h.leave[x]]
  BY DEF DetachStates
<1>2. /\ h.nodes \subseteq Node /\ h.out \in [Node -> [Key -> Trans]]
      /\ h.fin \subseteq h.nodes /\ h.fill \subseteq h.nodes
      /\ h.bits \in [Node -> SUBSET {1, 2}] /\ h.leave \in [Node -> SUBSET Act]
  BY DEF Sound, Graph
<1>3. \A x \in Node, k \in Key : r.out[x][k] \in Trans /\ Into(r.out[x][k], r.nodes)
  BY <1>1, <1>2 DEF Sound, Into, To, EmptyOut, Trans
<1>4. r.out \in [Node -> [Key -> Trans]]
  BY <1>1, <1>2 DEF EmptyOut, Trans
<1>5. /\ r.nodes \in SUBSET Node /\ r.fin \in SUBSET Node /\ r.fill \in SUBSET Node
      /\ r.bits \in [Node -> SUBSET {1, 2}] /\ r.leave \in [Node -> SUBSET Act]
      /\ r.fin \cup r.fill \subseteq r.nodes
  BY <1>1, <1>2
<1>6. r \in Graph
  BY <1>4, <1>5 DEF DetachStates, Graph
<1> QED BY <1>3, <1>5, <1>6 DEF Sound

\* Lemma: the two machines are sound before the operation.
LEMMA TwoMachinesSound ==
  ASSUME NEW i \in TwoMachines
  PROVE  Sound(i) /\ Closed(i) /\ {StartA} \in i.nodes /\ {StartB} \in i.nodes
<1>1. i \in Graph /\ {StartA} \in i.nodes /\ {StartB} \in i.nodes
  BY DEF TwoMachines
<1>2. i.fin \cup i.fill \subseteq i.nodes
  BY DEF TwoMachines
<1>3. \A x \in Node, k \in Key : Into(i.out[x][k], i.nodes)
  BY DEF TwoMachines, To, Into
<1>4. Closed(i)
  <2>1. i.nodes \subseteq Singles(PlainA \cup PlainB)
    BY DEF TwoMachines
  <2> QED BY <2>1 DEF Closed, Singles
<1> QED BY <1>1, <1>2, <1>3, <1>4 DEF Sound

----------------------------------------------------------------------------
(* The steps.                                                              *)

Merging == pc \in {"begin", "finals", "fill"}

\* While states are merged, every state asked for is there; after that only
\* the graph's soundness matters.
Asked == /\ todo \cup srcs \subseteq g.nodes
         /\ pc \in {"begin", "finals"} => {start, {StartA}, {StartB}} \subseteq g.nodes
         /\ pc = "fill" /\ srcs # {} => dest \in g.nodes

OInv == /\ TypeOK
        /\ Sound(g)
        /\ Merging => Closed(g)
        /\ Asked
        /\ pc # "fill" => srcs = {}
        /\ pc \notin {"finals", "fault"} => todo = {}

\* The invariant holds when the operator is called.
LEMMA InitOInv == Init => OInv
<1> SUFFICES ASSUME Init PROVE OInv
  OBVIOUS
<1>1. input \in TwoMachines /\ g = input
  BY InputsAssumption DEF Init
<1>2. Sound(g) /\ Closed(g) /\ {StartA} \in g.nodes /\ {StartB} \in g.nodes
  BY <1>1, TwoMachinesSound
<1>3. {StartA} \in Node /\ {New} \in Node
  BY PlainAssumption DEF Node, Null
<1> QED BY <1>1, <1>2, <1>3 DEF Init, OInv, TypeOK, Asked, Sound

\* doOr adds a start state and asks for the two old ones.
LEMMA OrBeginOInv == ASSUME OInv, OrBegin PROVE OInv'
<1> DEFINE h == OrBits(g)
<1>1. Sound(g) /\ Closed(g) /\ {StartA} \in g.nodes /\ {StartB} \in g.nodes
  BY DEF OInv, OrBegin, Merging, Asked
<1>2. /\ h.nodes = g.nodes /\ h.out = g.out /\ h.fin = g.fin /\ h.fill = g.fill
      /\ h.leave = g.leave /\ h.bits \in [Node -> SUBSET {1, 2}] /\ h \in Graph
  BY <1>1 DEF OrBegin, OrBits, WithFinBits, Sound, Graph
<1> HIDE DEF h
<1>3. g' = [h EXCEPT !.nodes = @ \cup {{New}}]
  BY DEF OrBegin, h
<1>4. {New} \in Node
  BY PlainAssumption DEF Node, Null
<1>5. g' \in Graph
  BY <1>2, <1>3, <1>4 DEF Graph
<1>6. /\ g'.nodes = g.nodes \cup {{New}} /\ g'.out = g.out
      /\ g'.fin = g.fin /\ g'.fill = g.fill
  BY <1>2, <1>3 DEF Graph
<1>7. Sound(g') /\ Closed(g')
  BY <1>1, <1>5, <1>6 DEF Sound, Closed, Into, Singles
<1> QED BY <1>1, <1>4, <1>5, <1>6, <1>7
        DEF OInv, TypeOK, Asked, Merging, OrBegin

\* doConcat takes final status away, and nothing else.
LEMMA ConcatBeginOInv == ASSUME OInv, ConcatBegin PROVE OInv'
<1>1. g' \in Graph /\ g'.nodes = g.nodes /\ g'.out = g.out /\ g'.fill = g.fill
      /\ g'.fin \subseteq g.fin /\ g \in Graph
  BY DEF OInv, Sound, Graph, ConcatBegin
<1>2. Sound(g') /\ Closed(g') /\ todo' \subseteq g.nodes /\ todo' \subseteq Node
  BY <1>1 DEF OInv, Sound, Closed, Merging, ConcatBegin, Graph
<1> QED BY <1>1, <1>2 DEF OInv, TypeOK, Asked, Merging, ConcatBegin

\* A final state of the left machine is merged with the right start state.
LEMMA ConcatFinalOInv ==
  ASSUME OInv, NEW f \in todo, ConcatFinal(f) PROVE OInv'
<1> DEFINE h == MergeStatesLeaving(g, f, {StartB})
<1>1. Sound(g) /\ Closed(g) /\ f \in g.nodes /\ {StartB} \in g.nodes
  BY DEF OInv, ConcatFinal, Asked, Merging
<1>2. Sound(h) /\ Closed(h) /\ g.nodes \subseteq h.nodes
  BY <1>1, MergeStatesLeavingSound
<1>3. g' = IF f \in h.fin THEN h ELSE [h EXCEPT !.leave[f] = {}]
  BY DEF ConcatFinal
<1> HIDE DEF h
<1>4. g' \in Graph /\ g'.nodes = h.nodes /\ g'.out = h.out /\ g'.fin = h.fin
      /\ g'.fill = h.fill
  BY <1>2, <1>3 DEF Sound, Graph
<1>5. Sound(g') /\ Closed(g')
  BY <1>2, <1>4 DEF Sound, Closed
<1> QED BY <1>2, <1>4, <1>5 DEF OInv, TypeOK, Asked, Merging, ConcatFinal

\* starOp adds a start state and merges it with the old one.
LEMMA StarBeginOInv == ASSUME OInv, StarBegin PROVE OInv'
<1> DEFINE h == [g EXCEPT !.nodes = @ \cup {{New}}]
           s == g.out[{StartA}]
<1>1. Sound(g) /\ Closed(g) /\ {StartA} \in g.nodes /\ {StartB} \in g.nodes
  BY DEF OInv, StarBegin, Merging, Asked
<1>2. {New} \in Node
  BY PlainAssumption DEF Node, Null
<1>3. h \in Graph /\ h.nodes = g.nodes \cup {{New}} /\ h.out = g.out
      /\ h.fin = g.fin /\ h.fill = g.fill
  BY <1>1, <1>2 DEF Sound, Graph
<1> HIDE DEF h
<1>4. Sound(h) /\ Closed(h)
  BY <1>1, <1>3 DEF Sound, Closed, Into, Singles
<1>5. s \in [Key -> Trans] /\ \A k \in Key : Into(s[k], h.nodes)
  BY <1>1, <1>3 DEF Sound, Graph, Into
<1>6. g' = MergeStates(h, {New}, {StartA}, s)
  BY DEF StarBegin, h
<1>7. Sound(g') /\ Closed(g') /\ h.nodes \subseteq g'.nodes
  BY <1>1, <1>3, <1>4, <1>5, <1>6, MergeStatesSound
<1>8. start' = {New} /\ pc' = "finals" /\ srcs' = srcs /\ srcs \subseteq g.nodes
  BY DEF OInv, Asked, StarBegin
<1>9. todo' \subseteq g'.nodes
  BY <1>7 DEF StarBegin, Sound
<1>10. Asked'
  BY <1>1, <1>3, <1>7, <1>8, <1>9 DEF Asked
<1>11. TypeOK'
  BY <1>2, <1>7, <1>9, <1>10 DEF OInv, TypeOK, Asked, StarBegin, Sound, Graph
<1>12. srcs' = {}
  BY DEF OInv, StarBegin
<1> QED BY <1>7, <1>8, <1>10, <1>11, <1>12 DEF OInv

\* The start state is merged into a final state.
LEMMA StarFinalOInv ==
  ASSUME OInv, NEW f \in todo, StarFinal(f) PROVE OInv'
<1>1. Sound(g) /\ Closed(g) /\ f \in g.nodes /\ start \in g.nodes
  BY DEF OInv, StarFinal, Asked, Merging
<1>2. Sound(g') /\ Closed(g') /\ g.nodes \subseteq g'.nodes
  BY <1>1, MergeStatesLeavingSound DEF StarFinal
<1>3. todo' \subseteq todo /\ pc' \in {"finals", "fault"} /\ srcs' = {}
  BY DEF StarFinal, OInv
<1>4. Asked'
  BY <1>2, <1>3 DEF OInv, Asked, StarFinal
<1>5. TypeOK'
  BY <1>2, <1>3, <1>4 DEF OInv, TypeOK, Asked, StarFinal, Sound
<1> QED BY <1>2, <1>3, <1>4, <1>5 DEF OInv

\* The start state is merged with itself and made final.
LEMMA StarSelfOInv == ASSUME OInv, StarSelf PROVE OInv'
<1> DEFINE h == IF start \in g.fin THEN MergeStatesLeaving(g, start, start) ELSE g
<1>1. Sound(g) /\ Closed(g) /\ start \in g.nodes
  BY DEF OInv, StarSelf, Asked, Merging
<1>2. Sound(h) /\ Closed(h) /\ g.nodes \subseteq h.nodes
  BY <1>1, MergeStatesLeavingSound
<1>3. g' = [h EXCEPT !.fin = @ \cup {start}]
  BY DEF StarSelf
<1> HIDE DEF h
<1>4. g' \in Graph /\ g'.nodes = h.nodes /\ g'.out = h.out
      /\ g'.fin = h.fin \cup {start} /\ g'.fill = h.fill
  BY <1>1, <1>2, <1>3 DEF Sound, Graph
<1>5. Sound(g') /\ Closed(g')
  BY <1>1, <1>2, <1>4 DEF Sound, Closed
<1>6. srcs' \subseteq g'.nodes /\ todo' = {}
  BY <1>2, <1>4 DEF OInv, Asked, StarSelf
<1> QED BY <1>1, <1>2, <1>4, <1>5, <1>6 DEF OInv, TypeOK, Asked, Merging, StarSelf

\* A state is merged with one of the states it stands for.
LEMMA MergeNextOInv == ASSUME OInv, NEW s \in srcs, MergeNext(s) PROVE OInv'
<1>1. Sound(g) /\ Closed(g) /\ s \in g.nodes /\ dest \in g.nodes
  BY DEF OInv, MergeNext, Asked, Merging
<1>2. g.out[s] \in [Key -> Trans] /\ \A k \in Key : Into(g.out[s][k], g.nodes)
  BY <1>1 DEF Sound, Graph
<1>3. Sound(g') /\ Closed(g') /\ g.nodes \subseteq g'.nodes
  BY <1>1, <1>2, MergeStatesSound DEF MergeNext
<1>4. srcs' \subseteq g'.nodes /\ dest' \in g'.nodes /\ todo' = {}
  BY <1>1, <1>3 DEF OInv, Asked, MergeNext
<1> QED BY <1>3, <1>4 DEF OInv, TypeOK, Asked, Merging, MergeNext, Sound

\* The next state on the fill list.
LEMMA FillNextOInv == ASSUME OInv, NEW x \in g.fill, FillNext(x) PROVE OInv'
<1>1. Sound(g) /\ Closed(g) /\ x \in g.nodes /\ g \in Graph
  BY DEF OInv, FillNext, Merging, Sound
<1>2. g' \in Graph /\ g'.nodes = g.nodes /\ g'.out = g.out /\ g'.fin = g.fin
      /\ g'.fill = g.fill \ {x}
  BY <1>1 DEF FillNext, Graph
<1>3. Sound(g') /\ Closed(g')
  BY <1>1, <1>2 DEF Sound, Closed
<1>4. srcs' \subseteq g'.nodes /\ dest' \in g'.nodes /\ dest' \in Node /\ todo' = {}
  BY <1>1, <1>2 DEF OInv, Closed, FillNext, Graph
<1> QED BY <1>2, <1>3, <1>4 DEF OInv, TypeOK, Asked, Merging, FillNext

\* Final status is taken away, then states are.
LEMMA CleanOInv == ASSUME OInv, Clean PROVE OInv'
<1> DEFINE h == UnsetFinals(g, LoseFinal)
<1>1. Sound(g) /\ srcs = {} /\ todo = {}
  BY DEF OInv, Clean
<1>2. Sound(h)
  <2>1. h \in Graph /\ h.nodes = g.nodes /\ h.out = g.out /\ h.fill = g.fill
        /\ h.fin \subseteq g.fin
    BY <1>1 DEF UnsetFinals, Sound, Graph
  <2> QED BY <1>1, <2>1 DEF Sound
<1>3. Sound(g')
  BY <1>1, <1>2, DetachStatesSound DEF Clean, RemoveMisfits
<1>4. pc' \in {"dead", "done"} /\ UNCHANGED <<op, input, start, todo, dest, srcs>>
  BY DEF Clean
<1> QED BY <1>1, <1>3, <1>4 DEF OInv, TypeOK, Asked, Merging, Sound

\* Dead ends are taken away.
LEMMA CleanDeadEndsOInv == ASSUME OInv, CleanDeadEnds PROVE OInv'
<1>1. Sound(g) /\ srcs = {} /\ todo = {}
  BY DEF OInv, CleanDeadEnds
<1>2. Sound(g')
  BY <1>1, DetachStatesSound DEF CleanDeadEnds, RemoveDeadEnds
<1> QED BY <1>1, <1>2 DEF OInv, TypeOK, Asked, Merging, Sound, CleanDeadEnds

\* Every step of an operator preserves the invariant.
LEMMA NextOInv == OInv /\ [Next]_vars => OInv'
<1> SUFFICES ASSUME OInv, [Next]_vars PROVE OInv'
  OBVIOUS
<1>1. CASE OrBegin
  BY <1>1, OrBeginOInv
<1>2. CASE ConcatBegin
  BY <1>2, ConcatBeginOInv
<1>3. CASE StarBegin
  BY <1>3, StarBeginOInv
<1>4. ASSUME NEW f \in todo, ConcatFinal(f) PROVE OInv'
  BY <1>4, ConcatFinalOInv
<1>5. ASSUME NEW f \in todo, StarFinal(f) PROVE OInv'
  BY <1>5, StarFinalOInv
<1>6. CASE FinalsDone
  BY <1>6 DEF OInv, TypeOK, Asked, Merging, FinalsDone
<1>7. CASE StarSkip
  BY <1>7 DEF OInv, TypeOK, Asked, Merging, StarSkip
<1>8. CASE StarSelf
  BY <1>8, StarSelfOInv
<1>9. ASSUME NEW s \in srcs, MergeNext(s) PROVE OInv'
  BY <1>9, MergeNextOInv
<1>10. ASSUME NEW x \in g.fill, FillNext(x) PROVE OInv'
  BY <1>10, FillNextOInv
<1>11. CASE FillDone
  <2>1. {New} \in Node
    BY PlainAssumption DEF Node, Null
  <2> QED BY <1>11, <2>1 DEF OInv, TypeOK, Asked, Merging, FillDone
<1>12. CASE Clean
  BY <1>12, CleanOInv
<1>13. CASE CleanDeadEnds
  BY <1>13, CleanDeadEndsOInv
<1>14. CASE UNCHANGED vars
  BY <1>14 DEF OInv, TypeOK, Asked, Merging, vars
<1> QED BY <1>1, <1>2, <1>3, <1>4, <1>5, <1>6, <1>7, <1>8, <1>9, <1>10, <1>11,
           <1>12, <1>13, <1>14 DEF Next, Terminated

\* The variables keep their types while the operators run, whatever the two
\* machines, for any number of states, keys, actions and priorities.
THEOREM OpsTypeCorrect == Spec => []TypeOK
<1>1. OInv => TypeOK
  BY DEF OInv
<1> QED BY <1>1, InitOInv, NextOInv, PTL DEF Spec

\* Merging, filling in and removing states never leaves a transition into a
\* state that is gone, nor a final state or a state to be filled in that is.
THEOREM OpsNoDangling == Spec => []NoDangling
<1>1. OInv => NoDangling
  BY DEF OInv, NoDangling, Sound, Into, To, Graph
<1> QED BY <1>1, InitOInv, NextOInv, PTL DEF Spec

----------------------------------------------------------------------------
(* Marks on final states: leaving data and the bits of doOr.               *)

\* Marks are on final states, leaving data on some others too.
Marks(h, others) ==
  \A x \in Node : /\ h.leave[x] # {} => x \in h.fin \cup others
                  /\ h.bits[x] # {} => x \in h.fin

NoBits(h) == \A x \in Node : h.bits[x] = {}

\* doConcat's former final states keep leaving data until it is drawn in.
Others == IF op = "concat" THEN todo ELSE {}

MarksInv == /\ OInv
            /\ Marks(g, Others)
            /\ {StartB} \notin Others
            /\ (op \in {"intersect", "subtract"} /\ pc \notin {"dead", "done"}) \/ NoBits(g)
            /\ pc = "begin" => g.fin \subseteq Singles(PlainA \cup PlainB)

\* Lemma: mergeStates moves marks together with final status.
LEMMA MergeStatesMarks ==
  ASSUME NEW h, Sound(h), NEW x \in h.nodes, NEW y \in h.nodes, NEW s,
         NEW others, Marks(h, others), y \notin others
  PROVE  LET r == MergeStates(h, x, y, s)
         IN  Marks(r, others) /\ (NoBits(h) => NoBits(r))
<1> DEFINE r == MergeStates(h, x, y, s)
<1>1. /\ x \in Node /\ y \in Node
      /\ h.bits \in [Node -> SUBSET {1, 2}] /\ h.leave \in [Node -> SUBSET Act]
  BY DEF Sound, Graph
<1>2. /\ r.fin = IF y \in h.fin THEN h.fin \cup {x} ELSE h.fin
      /\ r.bits = [h.bits EXCEPT ![x] = @ \cup h.bits[y]]
      /\ r.leave = [h.leave EXCEPT ![x] = @ \cup h.leave[y]]
  BY DEF MergeStates
<1> HIDE DEF r
<1>3. \A z \in Node : /\ r.bits[z] = IF z = x THEN h.bits[x] \cup h.bits[y] ELSE h.bits[z]
                      /\ r.leave[z] = IF z = x THEN h.leave[x] \cup h.leave[y]
                                               ELSE h.leave[z]
  BY <1>1, <1>2
<1>4. Marks(r, others)
  BY <1>1, <1>2, <1>3 DEF Marks
<1>5. NoBits(h) => NoBits(r)
  BY <1>1, <1>3 DEF NoBits
<1> QED BY <1>4, <1>5 DEF r

\* Lemma: detachState takes the marks of a state with it.
LEMMA DetachStatesMarks ==
  ASSUME NEW h, NEW gone, Marks(h, {})
  PROVE  Marks(DetachStates(h, gone), {}) /\ (NoBits(h) => NoBits(DetachStates(h, gone)))
BY DEF Marks, NoBits, DetachStates

\* The invariant holds when the operator is called.
LEMMA InitMarksInv == Init => MarksInv
<1> SUFFICES ASSUME Init PROVE MarksInv
  OBVIOUS
<1>1. g \in TwoMachines /\ todo = {} /\ pc = "begin"
  BY InputsAssumption DEF Init
<1>2. Marks(g, {}) /\ NoBits(g)
  BY <1>1 DEF TwoMachines, Marks, NoBits
<1>3. g.fin \subseteq Singles(PlainA \cup PlainB)
  BY <1>1 DEF TwoMachines
<1> QED BY <1>1, <1>2, <1>3, InitOInv DEF MarksInv, Others

\* doOr puts bits on final states only.
LEMMA OrBeginMarks == ASSUME MarksInv, OrBegin PROVE MarksInv'
<1>2. g \in Graph /\ Others = {} /\ Others' = {}
  BY DEF MarksInv, OInv, Sound, OrBegin, Others
<1>3. Marks(g, {})
  BY <1>2 DEF MarksInv
<1>4. g'.fin = g.fin /\ g'.leave = g.leave
  BY <1>2 DEF OrBegin, OrBits, WithFinBits, Graph
<1>5. \A x \in Node : x \notin g.fin => g'.bits[x] = g.bits[x]
  BY <1>2 DEF OrBegin, OrBits, WithFinBits, Graph
<1>6. op = "union" => g'.bits = g.bits
  BY <1>2 DEF OrBegin, OrBits, Graph
<1>7. Marks(g', {})
  BY <1>3, <1>4, <1>5 DEF Marks
<1>8. op \in {"intersect", "subtract"} \/ NoBits(g')
  BY <1>6 DEF MarksInv, NoBits, OrBegin
<1>9. OInv' /\ op' = op /\ pc' = "fill"
  BY OrBeginOInv DEF MarksInv, OrBegin
<1> QED BY <1>2, <1>7, <1>8, <1>9 DEF MarksInv

\* doConcat: the left machine's final states are the others now.
LEMMA ConcatBeginMarks == ASSUME MarksInv, ConcatBegin PROVE MarksInv'
<1>1. g \in Graph /\ Marks(g, {}) /\ NoBits(g)
  BY DEF MarksInv, OInv, Sound, ConcatBegin, Others
<1>2. Others' = g.fin \cap Singles(PlainA) /\ {StartB} \notin Singles(PlainA)
  BY PlainAssumption DEF ConcatBegin, Others, Singles
<1>3. g.fin \subseteq Singles(PlainA) \cup Singles(PlainB)
  BY DEF MarksInv, ConcatBegin, Singles
<1>4. g'.fin = g.fin \cap Singles(PlainB) /\ g'.leave = g.leave /\ g'.bits = g.bits
  BY <1>1 DEF ConcatBegin, Graph
<1>5. Marks(g', Others') /\ NoBits(g')
  BY <1>1, <1>2, <1>3, <1>4 DEF Marks, NoBits
<1>6. OInv' /\ pc' = "finals"
  BY ConcatBeginOInv DEF MarksInv, ConcatBegin
<1> QED BY <1>2, <1>5, <1>6 DEF MarksInv

\* A former final state that did not become final again loses its leaving
\* data once it has drawn in the right start state.
LEMMA ConcatFinalMarks ==
  ASSUME MarksInv, NEW f \in todo, ConcatFinal(f) PROVE MarksInv'
<1> DEFINE s == TransferOutData(g.out[{StartB}], g.leave[f])
           h == MergeStates(g, f, {StartB}, s)
<1>1. Sound(g) /\ Closed(g) /\ f \in g.nodes /\ {StartB} \in g.nodes
  BY DEF MarksInv, OInv, ConcatFinal, Asked, Merging
<1>2. Others = todo /\ Others' = todo \ {f} /\ NoBits(g) /\ {StartB} \notin todo
  BY DEF MarksInv, ConcatFinal, Others
<1>3. Sound(h) /\ Marks(h, todo) /\ NoBits(h)
  <2>1. Marks(g, todo)
    BY <1>2 DEF MarksInv
  <2>2. Sound(MergeStatesLeaving(g, f, {StartB}))
    BY <1>1, MergeStatesLeavingSound
  <2> QED BY <1>1, <1>2, <2>1, <2>2, MergeStatesMarks DEF MergeStatesLeaving
<1>4. g' = IF f \in h.fin THEN h ELSE [h EXCEPT !.leave[f] = {}]
  BY DEF ConcatFinal, MergeStatesLeaving
<1> HIDE DEF h
<1>5. g'.fin = h.fin /\ g'.bits = h.bits
      /\ \A x \in Node : g'.leave[x] = IF x = f /\ f \notin h.fin THEN {} ELSE h.leave[x]
  BY <1>3, <1>4 DEF Sound, Graph
<1>6. Marks(g', todo \ {f}) /\ NoBits(g')
  BY <1>3, <1>5 DEF Marks, NoBits
<1>7. OInv' /\ pc' = "finals"
  BY ConcatFinalOInv DEF MarksInv, ConcatFinal
<1> QED BY <1>2, <1>6, <1>7 DEF MarksInv

\* starOp and filling in: marks move with final status.
LEMMA StarMarks ==
  ASSUME MarksInv, StarBegin \/ StarSelf \/ \E f \in todo : StarFinal(f)
  PROVE  MarksInv'
<1>1. OInv' /\ Others = {} /\ Others' = {} /\ NoBits(g) /\ Marks(g, {}) /\ Sound(g)
  BY StarBeginOInv, StarSelfOInv, StarFinalOInv
     DEF MarksInv, Others, StarBegin, StarSelf, StarFinal, OInv
<1>2. pc' # "begin"
  BY DEF StarBegin, StarSelf, StarFinal
<1>3. Marks(g', {}) /\ NoBits(g')
  <2>1. CASE StarBegin
    <3> DEFINE h == [g EXCEPT !.nodes = @ \cup {{New}}]
    <3>1. {StartA} \in g.nodes /\ {New} \in Node
      BY <2>1, PlainAssumption DEF MarksInv, OInv, Asked, StarBegin, Node, Null
    <3>2. h \in Graph /\ h.nodes = g.nodes \cup {{New}} /\ h.out = g.out
          /\ h.fin = g.fin /\ h.fill = g.fill /\ h.bits = g.bits /\ h.leave = g.leave
      BY <1>1, <3>1 DEF Sound, Graph
    <3>3. g' = MergeStates(h, {New}, {StartA}, g.out[{StartA}])
      BY <2>1 DEF StarBegin
    <3> HIDE DEF h
    <3>4. Sound(h) /\ Marks(h, {}) /\ NoBits(h)
      BY <1>1, <3>2 DEF Sound, Into, Marks, NoBits
    <3> QED BY <3>1, <3>2, <3>3, <3>4, MergeStatesMarks
  <2>2. CASE StarSelf
    <3> DEFINE h == IF start \in g.fin THEN MergeStatesLeaving(g, start, start) ELSE g
    <3>1. start \in g.nodes /\ Closed(g)
      BY <2>2 DEF MarksInv, OInv, Asked, StarSelf, Merging
    <3>2. Sound(h) /\ Marks(h, {}) /\ NoBits(h)
      BY <1>1, <3>1, MergeStatesMarks, MergeStatesLeavingSound DEF MergeStatesLeaving
    <3>3. g' = [h EXCEPT !.fin = @ \cup {start}]
      BY <2>2 DEF StarSelf
    <3> HIDE DEF h
    <3>4. g'.fin = h.fin \cup {start} /\ g'.bits = h.bits /\ g'.leave = h.leave
      BY <3>2, <3>3 DEF Sound, Graph
    <3> QED BY <3>2, <3>4 DEF Marks, NoBits
  <2>3. ASSUME NEW f \in todo, StarFinal(f) PROVE Marks(g', {}) /\ NoBits(g')
    <3>1. start \in g.nodes /\ f \in g.nodes
      BY <2>3 DEF MarksInv, OInv, Asked, StarFinal
    <3> QED BY <1>1, <2>3, <3>1, MergeStatesMarks DEF StarFinal, MergeStatesLeaving
  <2> QED BY <2>1, <2>2, <2>3
<1> QED BY <1>1, <1>2, <1>3 DEF MarksInv

\* So they do when a state is filled in.
LEMMA FillMarks ==
  ASSUME MarksInv, (\E s \in srcs : MergeNext(s)) \/ (\E x \in g.fill : FillNext(x))
  PROVE  MarksInv'
<1>1. OInv' /\ Others = {} /\ Others' = {} /\ Marks(g, {}) /\ Sound(g)
  BY MergeNextOInv, FillNextOInv DEF MarksInv, Others, MergeNext, FillNext, OInv
<1>2. pc' = "fill" /\ pc = "fill" /\ op' = op
  BY DEF MergeNext, FillNext
<1>3. Marks(g', {}) /\ (NoBits(g) => NoBits(g'))
  <2>1. ASSUME NEW s \in srcs, MergeNext(s) PROVE Marks(g', {}) /\ (NoBits(g) => NoBits(g'))
    <3>1. s \in g.nodes /\ dest \in g.nodes
      BY <2>1 DEF MarksInv, OInv, Asked, MergeNext
    <3> QED BY <1>1, <2>1, <3>1, MergeStatesMarks DEF MergeNext
  <2>2. ASSUME NEW x \in g.fill, FillNext(x) PROVE Marks(g', {}) /\ (NoBits(g) => NoBits(g'))
    <3>1. g'.fin = g.fin /\ g'.bits = g.bits /\ g'.leave = g.leave
      BY <1>1, <2>2 DEF FillNext, Sound, Graph
    <3> QED BY <1>1, <3>1 DEF Marks, NoBits
  <2> QED BY <2>1, <2>2
<1> QED BY <1>1, <1>2, <1>3 DEF MarksInv

\* The bits are cleared and killed final states lose their leaving data
\* before states are removed.
LEMMA CleanMarks == ASSUME MarksInv, Clean \/ CleanDeadEnds PROVE MarksInv'
<1>1. OInv' /\ Others = {} /\ Others' = {} /\ Marks(g, {}) /\ Sound(g) /\ op' = op
  BY CleanOInv, CleanDeadEndsOInv DEF MarksInv, Others, Clean, CleanDeadEnds, OInv
<1>2. Marks(g', {}) /\ NoBits(g')
  <2>1. CASE CleanDeadEnds
    BY <1>1, <2>1, DetachStatesMarks DEF MarksInv, CleanDeadEnds, RemoveDeadEnds
  <2>2. CASE Clean /\ op \in {"intersect", "subtract"}
    <3> DEFINE h == UnsetFinals(g, LoseFinal)
    <3>1. /\ h.fin = g.fin \ LoseFinal
          /\ h.leave = [x \in Node |-> IF x \in LoseFinal THEN {} ELSE g.leave[x]]
          /\ h.bits = [x \in Node |-> IF x \in g.fin THEN {} ELSE g.bits[x]]
      BY <1>1 DEF UnsetFinals, Sound, Graph
    <3> HIDE DEF h
    <3>2. Marks(h, {}) /\ NoBits(h)
      BY <1>1, <3>1 DEF Marks, NoBits
    <3> QED BY <2>2, <3>2, DetachStatesMarks DEF Clean, RemoveMisfits, h
  <2>3. CASE Clean /\ op \notin {"intersect", "subtract"}
    BY <1>1, <2>3, DetachStatesMarks DEF MarksInv, Clean, RemoveMisfits
  <2> QED BY <2>1, <2>2, <2>3
<1>3. pc' # "begin"
  BY DEF Clean, CleanDeadEnds
<1> QED BY <1>1, <1>2, <1>3 DEF MarksInv

\* Every step of an operator preserves the marks.
LEMMA NextMarksInv == MarksInv /\ [Next]_vars => MarksInv'
<1> SUFFICES ASSUME MarksInv, [Next]_vars PROVE MarksInv'
  OBVIOUS
<1>1. OInv'
  BY NextOInv DEF MarksInv
<1>2. CASE FinalsDone \/ StarSkip \/ FillDone
  BY <1>1, <1>2 DEF MarksInv, Others, FinalsDone, StarSkip, FillDone
<1>3. CASE UNCHANGED vars
  BY <1>1, <1>3 DEF MarksInv, Others, vars
<1>4. ASSUME NEW f \in todo, ConcatFinal(f) PROVE MarksInv'
  BY <1>4, ConcatFinalMarks
<1> QED BY <1>2, <1>3, <1>4, OrBeginMarks, ConcatBeginMarks, StarMarks, FillMarks,
           CleanMarks DEF Next, Terminated

\* When combined states are filled in and from then on, leaving data is on
\* final states only: no other state has any to pass on.
THEOREM OpsLeavingOnFinals == Spec => []LeavingOnFinals
<1>1. MarksInv => LeavingOnFinals
  BY DEF MarksInv, OInv, Marks, Others, LeavingOnFinals, Sound, Graph
<1> QED BY <1>1, InitMarksInv, NextMarksInv, PTL DEF Spec

\* No state keeps a bit of an intersection or a difference.
THEOREM OpsNoStaleBits == Spec => []NoStaleBits
<1>1. MarksInv => NoStaleBits
  BY DEF MarksInv, NoBits, NoStaleBits
<1> QED BY <1>1, InitMarksInv, NextMarksInv, PTL DEF Spec

----------------------------------------------------------------------------
(* What the operators promise.  A transition that stands for a set of      *)
(* transitions joins those of the highest priority.                        *)

Record == [to : SUBSET Plain, act : SUBSET Act, prior : Prior]

TopsAt(X, p) == {t \in X : t.prior = p}

Joined(X, p) ==
  [to    |-> UNION {t.to : t \in TopsAt(X, p)},
   act   |-> UNION {t.act : t \in TopsAt(X, p)},
   prior |-> p]

\* p is the highest priority in X.
TopPrior(X, p) == (\E t \in X : t.prior = p) /\ \A t \in X : t.prior <= p

\* t stands for X.
StandsFor(t, X) ==
  \/ X = {} /\ t = NoTrans
  \/ \E p \in Prior : TopPrior(X, p) /\ t = Joined(X, p)

\* All of X have a priority or none has.
SameKind(X) == (\A t \in X : t.prior = 0) \/ (\A t \in X : t.prior # 0)

\* Lemma: what stands for X is Best(X).
LEMMA StandsForBest ==
  ASSUME NEW X \in SUBSET Record, NEW t, StandsFor(t, X)
  PROVE  t = Best(X) /\ (t # NoTrans => t \in Record)
<1>1. CASE X = {} /\ t = NoTrans
  BY <1>1 DEF Best
<1>2. ASSUME NEW p \in Prior, TopPrior(X, p), t = Joined(X, p)
      PROVE  t = Best(X) /\ t \in Record
  <2> DEFINE top == {u \in X : \A v \in X : v.prior <= u.prior}
  <2>1. p \in Nat /\ \A u \in X : u.prior \in Nat
    BY PriorAssumption DEF Record
  <2>2. PICK u \in X : u.prior = p
    BY <1>2 DEF TopPrior
  <2>3. top = TopsAt(X, p)
    BY <1>2, <2>1, <2>2 DEF TopPrior, TopsAt
  <2>4. u \in top /\ \A v \in top : v.prior = p
    BY <2>2, <2>3 DEF TopsAt
  <2>5. (CHOOSE v \in top : TRUE).prior = p
    <3> HIDE DEF top
    <3>1. (CHOOSE v \in top : TRUE) \in top
      BY <2>4
    <3> QED BY <2>4, <3>1
  <2>6. t = Best(X)
    <3>1. X # {}
      BY <2>2
    <3>2. Best(X) = [to |-> UNION {v.to : v \in top}, act |-> UNION {v.act : v \in top},
                     prior |-> (CHOOSE v \in top : TRUE).prior]
      BY <3>1 DEF Best
    <3> HIDE DEF top
    <3> QED BY <1>2, <2>3, <2>5, <3>2 DEF Joined
  <2>7. t \in Record
    BY <1>2 DEF Joined, Record, TopsAt
  <2> QED BY <2>6, <2>7
<1> QED BY <1>1, <1>2 DEF StandsFor

\* Lemma: a transition stands for itself.
LEMMA StandsForOne ==
  ASSUME NEW t \in Record
  PROVE  StandsFor(t, {t})
<1> DEFINE p == t.prior
<1>1. p \in Prior /\ p <= p
  <2>1. p \in Prior
    BY DEF Record
  <2>2. p \in Nat
    BY <2>1, PriorAssumption
  <2> QED BY <2>1, <2>2
<1>2. TopPrior({t}, p) /\ TopsAt({t}, p) = {t}
  BY <1>1 DEF TopPrior, TopsAt
<1>3. t = [to |-> t.to, act |-> t.act, prior |-> t.prior]
  BY DEF Record
<1>4. t = Joined({t}, p)
  BY <1>2, <1>3 DEF Joined
<1> QED BY <1>1, <1>2, <1>4 DEF StandsFor

\* Lemma: crossing what stands for two sets stands for both together
\* (crossTransitions).
LEMMA CrossStandsFor ==
  ASSUME NEW X \in SUBSET Record, NEW Y \in SUBSET Record, SameKind(X \cup Y),
         NEW t, NEW u, t # NoTrans, u # NoTrans, StandsFor(t, X), StandsFor(u, Y)
  PROVE  StandsFor(Cross(t, u), X \cup Y)
<1>1. PICK p \in Prior : TopPrior(X, p) /\ t = Joined(X, p)
  BY DEF StandsFor
<1>2. PICK q \in Prior : TopPrior(Y, q) /\ u = Joined(Y, q)
  BY DEF StandsFor
<1>3. p \in Nat /\ q \in Nat /\ \A v \in X \cup Y : v.prior \in Nat
  BY PriorAssumption DEF Record
<1>4. t.prior = p /\ u.prior = q
  BY <1>1, <1>2 DEF Joined
<1>5. (p = 0 <=> q = 0) /\ (p = 0 => p = q)
  BY <1>1, <1>2 DEF TopPrior, SameKind
<1>6. CASE p < q
  <2>1. TopPrior(X \cup Y, q) /\ TopsAt(X \cup Y, q) = TopsAt(Y, q)
    BY <1>1, <1>2, <1>3, <1>6 DEF TopPrior, TopsAt
  <2>2. Cross(t, u) = u
    BY <1>3, <1>4, <1>5, <1>6 DEF Cross, LowerPrior
  <2> QED BY <1>2, <2>1, <2>2 DEF StandsFor, Joined
<1>7. CASE q < p
  <2>1. TopPrior(X \cup Y, p) /\ TopsAt(X \cup Y, p) = TopsAt(X, p)
    BY <1>1, <1>2, <1>3, <1>7 DEF TopPrior, TopsAt
  <2>2. Cross(t, u) = t
    BY <1>3, <1>4, <1>5, <1>7 DEF Cross, LowerPrior
  <2> QED BY <1>1, <2>1, <2>2 DEF StandsFor, Joined
<1>8. CASE p = q
  <2>1. TopPrior(X \cup Y, p)
    BY <1>1, <1>2, <1>8 DEF TopPrior
  <2>2. TopsAt(X \cup Y, p) = TopsAt(X, p) \cup TopsAt(Y, p)
    BY DEF TopsAt
  <2>3. Cross(t, u) = [to |-> t.to \cup u.to, act |-> t.act \cup u.act, prior |-> p]
    BY <1>3, <1>4, <1>8 DEF Cross, LowerPrior
  <2>4. /\ t.to = UNION {v.to : v \in TopsAt(X, p)}
        /\ t.act = UNION {v.act : v \in TopsAt(X, p)}
        /\ u.to = UNION {v.to : v \in TopsAt(Y, p)}
        /\ u.act = UNION {v.act : v \in TopsAt(Y, p)}
    BY <1>1, <1>2, <1>8 DEF Joined
  <2>5. /\ t.to \cup u.to = UNION {v.to : v \in TopsAt(X \cup Y, p)}
        /\ t.act \cup u.act = UNION {v.act : v \in TopsAt(X \cup Y, p)}
    BY <2>2, <2>4, ZenonT(60)
  <2>6. Cross(t, u) = Joined(X \cup Y, p)
    BY <2>3, <2>5 DEF Joined
  <2> QED BY <2>1, <2>6 DEF StandsFor
<1> QED BY <1>3, <1>6, <1>7, <1>8

\* Lemma: so does an out list another is copied into (outTransCopy).
LEMMA CopyStandsFor ==
  ASSUME NEW d, NEW s, NEW k \in Key, NEW X \in SUBSET Record, NEW Y \in SUBSET Record,
         SameKind(X \cup Y), StandsFor(d[k], X), StandsFor(s[k], Y)
  PROVE  StandsFor(OutTransCopy(d, s)[k], X \cup Y)
<1>1. OutTransCopy(d, s)[k] = IF s[k] = NoTrans THEN d[k]
                              ELSE IF d[k] = NoTrans THEN s[k] ELSE Cross(d[k], s[k])
  BY DEF OutTransCopy
<1>2. ASSUME NEW t, NEW Z \in SUBSET Record, StandsFor(t, Z), t = NoTrans
      PROVE  Z = {}
  <2>1. ASSUME NEW p \in Prior, TopPrior(Z, p), t = Joined(Z, p) PROVE FALSE
    <3>1. Joined(Z, p) \in Record
      BY DEF Joined, Record, TopsAt
    <3> QED BY <1>2, <2>1, <3>1, TransAssumption DEF Record
  <2> QED BY <1>2, <2>1 DEF StandsFor
<1>3. CASE s[k] = NoTrans
  <2>1. Y = {} /\ X \cup Y = X
    BY <1>2, <1>3
  <2> QED BY <1>1, <1>3, <2>1
<1>4. CASE s[k] # NoTrans /\ d[k] = NoTrans
  <2>1. X = {} /\ X \cup Y = Y
    BY <1>2, <1>4
  <2> QED BY <1>1, <1>4, <2>1
<1>5. CASE s[k] # NoTrans /\ d[k] # NoTrans
  BY <1>1, <1>5, CrossStandsFor
<1> QED BY <1>3, <1>4, <1>5

----------------------------------------------------------------------------
(* The transitions of the two machines.                                    *)

\* Lemma: what the machines are made of.
LEMMA InputFacts ==
  ASSUME TypeOK
  PROVE  /\ input \in Graph /\ input.fin \subseteq input.nodes /\ input.fill = {}
         /\ input.nodes \subseteq Singles(PlainA \cup PlainB)
         /\ {StartA} \in input.nodes /\ {StartB} \in input.nodes
         /\ \A x \in Node \ input.nodes : input.out[x] = EmptyOut /\ input.leave[x] = {}
         /\ \A x \in Node : input.bits[x] = {}
         /\ \A x \in Node : input.leave[x] # {} => x \in input.fin
         /\ \A o \in Plain : {o} \in Node
BY DEF TypeOK, TwoMachines, Node, Null

\* Lemma: the alternatives of each kind of thread.
LEMMA AlternativesOf ==
  ASSUME NEW k
  PROVE  /\ op = "star" =>
              Alternatives(New, k) =
                Own(StartA, k) \cup (IF {StartA} \in input.fin
                                     THEN Entered(StartA, StartA, k) ELSE {})
         /\ op # "star" => Alternatives(New, k) = Own(StartA, k) \cup Own(StartB, k)
         /\ \A o \in PlainA \cup PlainB :
              Alternatives(o, k) =
                IF o \in PlainA /\ {o} \in input.fin /\ op = "star"
                  THEN Own(o, k) \cup Entered(StartA, o, k)
                ELSE IF o \in PlainA /\ {o} \in input.fin /\ op = "concat"
                  THEN Own(o, k) \cup Entered(StartB, o, k)
                ELSE Own(o, k)
<1>1. New \notin PlainA \cup PlainB
  BY PlainAssumption
<1>2. op = "star" => Alternatives(New, k) =
                       Own(StartA, k) \cup (IF {StartA} \in input.fin
                                            THEN Entered(StartA, StartA, k) ELSE {})
  BY <1>1 DEF Alternatives
<1>3. op # "star" => Alternatives(New, k) = Own(StartA, k) \cup Own(StartB, k)
  BY <1>1 DEF Alternatives
<1>4. ASSUME NEW o \in PlainA \cup PlainB
      PROVE  Alternatives(o, k) =
                IF o \in PlainA /\ {o} \in input.fin /\ op = "star"
                  THEN Own(o, k) \cup Entered(StartA, o, k)
                ELSE IF o \in PlainA /\ {o} \in input.fin /\ op = "concat"
                  THEN Own(o, k) \cup Entered(StartB, o, k)
                ELSE Own(o, k)
  <2>1. o # New
    BY <1>1
  <2>2. CASE op = "star"
    BY <2>1, <2>2 DEF Alternatives
  <2>3. CASE op = "concat"
    BY <2>1, <2>3 DEF Alternatives
  <2>4. CASE op # "star" /\ op # "concat"
    BY <2>1, <2>4 DEF Alternatives
  <2> QED BY <2>2, <2>3, <2>4
<1> QED BY <1>2, <1>3, <1>4

\* From(t, q, k): t is q's own transition on k, but for its actions.
From(t, q, k) ==
  /\ input.out[{q}][k] # NoTrans
  /\ t.to = input.out[{q}][k].to /\ t.prior = input.out[{q}][k].prior

\* Lemma: what a thread can take is a transition of a state of its machine or
\* of a start state.
LEMMA AlternativesFrom ==
  ASSUME TypeOK, NEW o \in Plain, NEW k \in Key, NEW t \in Alternatives(o, k)
  PROVE  /\ t \in Record
         /\ \E q \in PlainA \cup PlainB :
              /\ From(t, q, k)
              /\ op = "star" /\ o \in PlainA \cup {New} => q \in PlainA
<1>1. StartA \in PlainA /\ StartB \in PlainB /\ PlainA \subseteq Plain /\ PlainB \subseteq Plain
      /\ Plain = PlainA \cup PlainB \cup {New} /\ PlainA \cap PlainB = {}
  BY PlainAssumption
<1>2. input.out \in [Node -> [Key -> Trans]] /\ input.leave \in [Node -> SUBSET Act]
      /\ \A q \in Plain : {q} \in Node
  BY InputFacts DEF Graph
<1>3. ASSUME NEW q \in Plain, NEW u \in Own(q, k)
      PROVE  u \in Record /\ From(u, q, k)
  <2>1. u = input.out[{q}][k] /\ u # NoTrans
    BY DEF Own
  <2>2. u \in Trans
    BY <1>2, <2>1
  <2> QED BY <2>1, <2>2 DEF Trans, Record, From
<1>4. ASSUME NEW q \in Plain, NEW f \in Plain, NEW u \in Entered(q, f, k)
      PROVE  u \in Record /\ From(u, q, k)
  <2>1. PICK v \in Own(q, k) :
          u = IF v.to = Null THEN v ELSE [v EXCEPT !.act = @ \cup input.leave[{f}]]
    BY DEF Entered
  <2>2. v \in Record /\ From(v, q, k)
    BY <1>3
  <2>3. input.leave[{f}] \in SUBSET Act
    BY <1>2
  <2>4. u \in Record /\ u.to = v.to /\ u.prior = v.prior
    BY <2>1, <2>2, <2>3 DEF Record
  <2> QED BY <2>2, <2>4 DEF From
<1>5. CASE o = New /\ op = "star"
  <2>1. t \in Own(StartA, k) \/ t \in Entered(StartA, StartA, k)
    BY <1>5, AlternativesOf
  <2> QED BY <1>1, <1>3, <1>4, <2>1
<1>6. CASE o = New /\ op # "star"
  <2>1. t \in Own(StartA, k) \/ t \in Own(StartB, k)
    BY <1>6, AlternativesOf
  <2> QED BY <1>1, <1>3, <1>6, <2>1
<1>7. CASE o # New
  <2>1. o \in PlainA \cup PlainB
    BY <1>1, <1>7
  <2>2. \/ t \in Own(o, k)
        \/ t \in Entered(StartA, o, k)
        \/ op = "concat" /\ t \in Entered(StartB, o, k)
    BY <2>1, AlternativesOf
  <2>3. o \in PlainA \cup {New} => o \in PlainA
    BY <1>7
  <2> QED BY <1>1, <1>3, <1>4, <2>1, <2>2, <2>3
<1> QED BY <1>5, <1>6, <1>7

\* What threads in the states of P can take on k.
Taken(P, k) == UNION {Alternatives(p, k) : p \in P}

\* Lemma: these are transitions of one kind, into states of the machines.
LEMMA TakenFacts ==
  ASSUME TypeOK, ClearInput, NEW P \in SUBSET Plain, NEW k \in Key
  PROVE  /\ Taken(P, k) \in SUBSET Record
         /\ SameKind(Taken(P, k))
         /\ \A t \in Taken(P, k) : t.to \subseteq PlainA \cup PlainB
         /\ op = "star" /\ P \subseteq PlainA \cup {New} =>
              \A t \in Taken(P, k) : t.to \subseteq PlainA
<1>1. ASSUME NEW t \in Taken(P, k)
      PROVE  /\ t \in Record
             /\ \E q \in PlainA \cup PlainB :
                  /\ From(t, q, k)
                  /\ op = "star" /\ P \subseteq PlainA \cup {New} => q \in PlainA
  <2>1. PICK p \in P : t \in Alternatives(p, k)
    BY DEF Taken
  <2>2. p \in Plain
    BY <2>1
  <2> QED BY <2>1, <2>2, AlternativesFrom
<1>2. ASSUME NEW S \in {PlainA, PlainB}, NEW q \in S, NEW t, From(t, q, k)
      PROVE  t.to \subseteq S
  <2>1. To(input, {q}, k) \subseteq S
    BY DEF TypeOK, TwoMachines
  <2> QED BY <1>2, <2>1 DEF From, To
<1>3. SameKind(Taken(P, k))
  <2> DEFINE trans == {input.out[x][l] : x \in input.nodes, l \in Key} \ {NoTrans}
  <2>1. ASSUME NEW t \in Taken(P, k) PROVE \E u \in trans : t.prior = u.prior
    <3>1. PICK q \in PlainA \cup PlainB : From(t, q, k)
      BY <1>1
    <3>2. q \in Plain
      BY PlainAssumption
    <3>3. {q} \in input.nodes
      BY <3>1, <3>2, InputFacts DEF From, EmptyOut
    <3> QED BY <3>1, <3>3 DEF From
  <2>2. (\A u \in trans : u.prior = 0) \/ (\A u \in trans : u.prior # 0)
    BY DEF ClearInput, Clear, PriorsClear
  <2> HIDE DEF trans
  <2> QED BY <2>1, <2>2 DEF SameKind
<1>4. \A t \in Taken(P, k) : t.to \subseteq PlainA \cup PlainB
  BY <1>1, <1>2
<1>5. op = "star" /\ P \subseteq PlainA \cup {New} =>
        \A t \in Taken(P, k) : t.to \subseteq PlainA
  BY <1>1, <1>2
<1> QED BY <1>1, <1>3, <1>4, <1>5

\* Lemma: an out list that stands for transitions leads where they lead.
LEMMA StandsForTo ==
  ASSUME NEW X, NEW t, StandsFor(t, X), t # NoTrans, NEW S,
         \A u \in X : u.to \subseteq S
  PROVE  t.to \subseteq S
<1>1. PICK p \in Prior : t = Joined(X, p)
  BY DEF StandsFor
<1> QED BY <1>1 DEF Joined, TopsAt

\* Lemma: a state's own transition stands for what Own says, and with leaving
\* data transferred into it for what Entered says (transferOutData).
LEMMA OwnStandsFor ==
  ASSUME TypeOK, NEW q \in Plain, NEW k \in Key
  PROVE  /\ StandsFor(input.out[{q}][k], Own(q, k))
         /\ \A o \in Plain :
              StandsFor(TransferOutData(input.out[{q}], input.leave[{o}])[k],
                        Entered(q, o, k))
<1> DEFINE t == input.out[{q}][k]
<1>1. t \in Trans /\ \A o \in Plain : input.leave[{o}] \in SUBSET Act
  BY InputFacts DEF Graph
<1>2. CASE t = NoTrans
  <2>1. Own(q, k) = {} /\ \A o \in Plain : Entered(q, o, k) = {}
    BY <1>2 DEF Own, Entered
  <2>2. \A o \in Plain : TransferOutData(input.out[{q}], input.leave[{o}])[k] = NoTrans
    BY <1>2 DEF TransferOutData
  <2> QED BY <1>2, <2>1, <2>2 DEF StandsFor
<1>3. CASE t # NoTrans
  <2>1. t \in Record /\ Own(q, k) = {t}
    BY <1>1, <1>3 DEF Trans, Record, Own
  <2>2. ASSUME NEW o \in Plain
        PROVE  StandsFor(TransferOutData(input.out[{q}], input.leave[{o}])[k],
                         Entered(q, o, k))
    <3> DEFINE u == IF t.to = Null THEN t ELSE [t EXCEPT !.act = @ \cup input.leave[{o}]]
    <3>1. Entered(q, o, k) = {u}
      BY <2>1 DEF Entered
    <3>2. TransferOutData(input.out[{q}], input.leave[{o}])[k] = u
      BY <1>3 DEF TransferOutData
    <3>3. u \in Record
      BY <1>1, <2>1 DEF Record
    <3> QED BY <3>1, <3>2, <3>3, StandsForOne
  <2> QED BY <2>1, <2>2, StandsForOne
<1> QED BY <1>2, <1>3

----------------------------------------------------------------------------
(* The states while they are merged.                                       *)

\* The threads a state stands for.
Parts(x) == IF x = {New} /\ op # "star" THEN {StartA, StartB} ELSE x

\* Threads that make a state final.
FinalPart(p) ==
  IF op = "star" THEN p = New \/ {p} \in input.fin
  ELSE IF op = "concat" THEN {p} \in input.fin /\ (p \in PlainA => {StartB} \in input.fin)
  ELSE {p} \in input.fin

\* The bit a thread gives the states it is in.
BitsOf(p) ==
  IF op = "intersect" /\ {p} \in input.fin
    THEN {b \in {1, 2} : (b = 1 /\ p \in PlainA) \/ (b = 2 /\ p \in PlainB)}
  ELSE IF op = "subtract" /\ {p} \in input.fin /\ p \in PlainB THEN {1}
  ELSE {}

\* State x of h is what merging the threads of P makes.
Made(h, x, P) ==
  /\ \A k \in Key : StandsFor(h.out[x][k], Taken(P, k))
  /\ x \in h.fin <=> \E p \in P : FinalPart(p)
  /\ h.bits[x] = UNION {BitsOf(p) : p \in P}

\* The threads that have been merged into x.
Merged(x) ==
  IF x \notin g.nodes \/ x \in g.fill THEN {}
  ELSE {p \in Parts(x) : x = dest => {p} \notin srcs}

\* The states there may be.
Threads  == IF op = "star" THEN PlainA ELSE PlainA \cup PlainB
Named(x) == x \in {{New}, {StartB}} \/ x \subseteq Threads

\* Every state is what merging its threads so far makes; no state that was
\* there before is to be filled in, nor is the one being merged into.
Filling ==
  /\ \A x \in Node : Made(g, x, Merged(x))
  /\ \A x \in g.nodes : Named(x)
  /\ g.fill \cap Singles(Plain) = {}
  /\ dest \notin g.fill
  /\ srcs \subseteq Singles(Parts(dest) \ {New})
  /\ srcs # {} => dest \notin Singles(PlainA \cup PlainB)
  /\ start \in g.nodes /\ (op # "concat" => start = {New})
  /\ op = "concat" => {New} \notin g.nodes

\* Lemma: what an operator promises is the same throughout a run.
LEMMA SameRun ==
  ASSUME op' = op, input' = input
  PROVE  /\ \A P, k : Taken(P, k)' = Taken(P, k)
         /\ \A p : FinalPart(p)' = FinalPart(p) /\ BitsOf(p)' = BitsOf(p)
         /\ \A x : Parts(x)' = Parts(x) /\ Named(x)' = Named(x)
         /\ \A h, x, P : Made(h, x, P)' = Made(h, x, P)
<1>1. \A P, k : Taken(P, k)' = Taken(P, k)
  BY DEF Taken, Alternatives, Own, Entered
<1>2. \A p : FinalPart(p)' = FinalPart(p) /\ BitsOf(p)' = BitsOf(p)
  BY DEF FinalPart, BitsOf
<1>3. \A x : Parts(x)' = Parts(x) /\ Named(x)' = Named(x)
  BY DEF Parts, Named, Threads
<1>4. \A h, x, P : Made(h, x, P)' = Made(h, x, P)
  BY <1>1, <1>2 DEF Made
<1> QED BY <1>1, <1>2, <1>3, <1>4

\* Lemma: what mergeStates changes.
LEMMA MergeStatesFields ==
  ASSUME NEW h \in Graph, NEW x \in Node, NEW y, NEW s
  PROVE  LET r == MergeStates(h, x, y, s)
         IN  /\ r.out[x] = OutTransCopy(h.out[x], s)
             /\ \A z \in Node \ {x} : /\ r.out[z] = h.out[z] /\ r.bits[z] = h.bits[z]
                                      /\ r.leave[z] = h.leave[z]
             /\ r.bits[x] = h.bits[x] \cup h.bits[y]
             /\ r.leave[x] = h.leave[x] \cup h.leave[y]
             /\ r.fin = IF y \in h.fin THEN h.fin \cup {x} ELSE h.fin
BY DEF MergeStates, Graph

\* r has new states besides those of h: combined ones, to be filled in, that
\* transitions of x lead to.
Adds(h, r, x) ==
  \E new \in SUBSET Node :
    /\ r.nodes = h.nodes \cup new /\ r.fill = h.fill \cup new
    /\ new \cap h.nodes = {} /\ new \cap Singles(Plain) = {}
    /\ \A z \in new : \E k \in Key : r.out[x][k] # NoTrans /\ z = r.out[x][k].to

\* Lemma: the states fsmAttachStates adds are combined ones a transition of
\* the state merged into leads to.
LEMMA NewNodes ==
  ASSUME NEW h, Sound(h), Closed(h), NEW x \in h.nodes, NEW y,
         NEW s \in [Key -> Trans], \A k \in Key : Into(s[k], h.nodes)
  PROVE  Adds(h, MergeStates(h, x, y, s), x)
<1> DEFINE o   == OutTransCopy(h.out[x], s)
           new == Combined(h, o)
           r   == MergeStates(h, x, y, s)
<1>1. new \subseteq Node /\ \A z \in new : Singles(z) \subseteq h.nodes
  BY OutTransCopyFacts
<1>2. /\ r.nodes = h.nodes \cup new /\ r.fill = h.fill \cup new /\ r.out[x] = o
  BY MergeStatesFields DEF MergeStates, Sound, Graph
<1>3. /\ new \cap h.nodes = {}
      /\ \A z \in new : \E k \in Key : o[k] # NoTrans /\ z = o[k].to
  BY DEF Combined
<1> HIDE DEF o, new, r
<1>4. ASSUME NEW z \in new PROVE z \notin Singles(Plain)
  <2> SUFFICES ASSUME NEW p \in Plain, z = {p} PROVE FALSE
    BY DEF Singles
  <2>1. z \in Singles(z)
    BY DEF Singles
  <2> QED BY <1>1, <1>3, <2>1
<1> QED BY <1>1, <1>2, <1>3, <1>4 DEF r, Adds

\* Lemma: merging what two sets of threads make makes what both together do.
LEMMA MergeStatesMade ==
  ASSUME TypeOK, ClearInput, NEW h \in Graph, NEW x \in Node, NEW y \in Node,
         NEW P \in SUBSET Plain, NEW Q \in SUBSET Plain, Made(h, x, P), Made(h, y, Q)
  PROVE  LET r == MergeStates(h, x, y, h.out[y])
         IN  /\ Made(r, x, P \cup Q)
             /\ \A z \in Node \ {x} : \A R : Made(h, z, R) => Made(r, z, R)
<1>0. PICK s : s = h.out[y]
  OBVIOUS
<1> DEFINE r == MergeStates(h, x, y, s)
<1>1. /\ r.out[x] = OutTransCopy(h.out[x], s)
      /\ \A z \in Node \ {x} : r.out[z] = h.out[z] /\ r.bits[z] = h.bits[z]
      /\ r.bits[x] = h.bits[x] \cup h.bits[y]
      /\ r.fin = IF y \in h.fin THEN h.fin \cup {x} ELSE h.fin
  BY DEF MergeStates, Graph
<1> HIDE DEF r
<1>2. ASSUME NEW k \in Key PROVE StandsFor(r.out[x][k], Taken(P \cup Q, k))
  <2>1. Taken(P \cup Q, k) = Taken(P, k) \cup Taken(Q, k)
    BY DEF Taken
  <2>2. /\ Taken(P, k) \in SUBSET Record /\ Taken(Q, k) \in SUBSET Record
        /\ SameKind(Taken(P \cup Q, k))
    BY TakenFacts
  <2>3. StandsFor(h.out[x][k], Taken(P, k)) /\ StandsFor(h.out[y][k], Taken(Q, k))
    BY DEF Made
  <2> DEFINE d == h.out[x]
  <2>4. StandsFor(OutTransCopy(d, s)[k], Taken(P, k) \cup Taken(Q, k))
    <3> HIDE DEF d
    <3>1. StandsFor(d[k], Taken(P, k)) /\ StandsFor(s[k], Taken(Q, k))
      BY <1>0, <2>3 DEF d
    <3> QED BY <2>1, <2>2, <3>1, CopyStandsFor
  <2> QED BY <1>1, <2>1, <2>4
<1>3. x \in r.fin <=> \E p \in P \cup Q : FinalPart(p)
  BY <1>1 DEF Made
<1>4. r.bits[x] = UNION {BitsOf(p) : p \in P \cup Q}
  BY <1>1 DEF Made
<1>5. ASSUME NEW z \in Node \ {x}, NEW R, Made(h, z, R) PROVE Made(r, z, R)
  <2>1. z \in r.fin <=> z \in h.fin
    BY <1>1
  <2> QED BY <1>1, <1>5, <2>1 DEF Made
<1>6. Made(r, x, P \cup Q)
  BY <1>2, <1>3, <1>4 DEF Made
<1> QED BY <1>0, <1>5, <1>6 DEF r

\* Lemma: the singleton sets of states.
LEMMA SingleIn == ASSUME NEW o, NEW S PROVE {o} \in Singles(S) <=> o \in S
<1>1. ASSUME NEW p \in S, {o} = {p} PROVE o \in S
  BY <1>1
<1> QED BY <1>1 DEF Singles

\* Lemma: a state drawn from a state of its own, one that was there before.
LEMMA SourceFacts ==
  ASSUME OInv, Filling, pc = "fill", NEW s \in srcs
  PROVE  /\ dest \in g.nodes /\ dest \in Node /\ s \in Node /\ s # dest
         /\ \E p \in Plain \ {New} : s = {p} /\ p \in Parts(dest) /\ Merged(s) = {p}
<1>1. /\ dest \in g.nodes /\ s \in g.nodes /\ g.nodes \subseteq Node
  BY DEF OInv, Asked, Sound, Graph
<1>2. PICK p \in Parts(dest) \ {New} : s = {p}
  BY DEF Filling, Singles
<1>3. Plain = PlainA \cup PlainB \cup {New}
  BY PlainAssumption
<1>4. p \in Plain
  <2>1. Parts(dest) \subseteq Plain
    <3>1. StartA \in Plain /\ StartB \in Plain
      BY PlainAssumption
    <3> QED BY <1>1, <3>1 DEF Parts, Node
  <2> QED BY <1>2, <2>1
<1>5. s \in Singles(PlainA \cup PlainB)
  BY <1>2, <1>3, <1>4 DEF Singles
<1>6. s # dest
  BY <1>5 DEF Filling
<1>7. s \notin g.fill
  BY <1>2, <1>4 DEF Filling, Singles
<1>8. Parts(s) = {p}
  BY <1>2 DEF Parts
<1>9. Merged(s) = {p}
  BY <1>1, <1>6, <1>7, <1>8 DEF Merged
<1> QED BY <1>1, <1>2, <1>4, <1>6, <1>9

\* Merging one more state adds its threads to those of the state merged into.
LEMMA MergeNextFilling ==
  ASSUME OInv, ClearInput, Filling, NEW s \in srcs, MergeNext(s)
  PROVE  Filling'
<1>1. /\ pc = "fill" /\ op' = op /\ input' = input /\ dest' = dest /\ start' = start
      /\ srcs' = srcs \ {s} /\ g' = MergeStates(g, dest, s, g.out[s])
  BY DEF MergeNext
<1>2. /\ dest \in g.nodes /\ dest \in Node /\ s \in Node /\ s # dest
  BY <1>1, SourceFacts
<1>3. PICK p \in Plain \ {New} : s = {p} /\ p \in Parts(dest) /\ Merged(s) = {p}
  BY <1>1, SourceFacts
<1>4. Sound(g) /\ Closed(g) /\ g \in Graph /\ TypeOK
  BY <1>1 DEF OInv, Merging, Sound
<1>5. g.out[s] \in [Key -> Trans] /\ \A k \in Key : Into(g.out[s][k], g.nodes)
  BY <1>2, <1>4 DEF Sound, Graph
<1>6. PICK new \in SUBSET Node :
          /\ g'.nodes = g.nodes \cup new /\ g'.fill = g.fill \cup new
          /\ new \cap g.nodes = {} /\ new \cap Singles(Plain) = {}
          /\ \A z \in new : \E k \in Key : g'.out[dest][k] # NoTrans /\ z = g'.out[dest][k].to
  <2>1. PICK t : t = g.out[s]
    OBVIOUS
  <2>2. t \in [Key -> Trans] /\ \A k \in Key : Into(t[k], g.nodes)
    BY <1>5, <2>1
  <2>3. g' = MergeStates(g, dest, s, t)
    BY <1>1, <2>1
  <2>4. Adds(g, g', dest)
    BY <1>2, <1>4, <2>2, <2>3, NewNodes
  <2> QED BY <2>4 DEF Adds
<1>7. PICK P : P = Merged(dest)
  OBVIOUS
<1>8. P = {q \in Parts(dest) : {q} \notin srcs}
  BY <1>2, <1>7 DEF Merged, Filling
<1>9. P \in SUBSET Plain
  <2>1. StartA \in Plain /\ StartB \in Plain
    BY PlainAssumption
  <2> QED BY <1>2, <1>8, <2>1 DEF Parts, Node
<1>10. Made(g, dest, P) /\ Made(g, s, {p})
  BY <1>2, <1>3, <1>7 DEF Filling
<1>11. /\ Made(g', dest, P \cup {p})
       /\ \A z \in Node \ {dest} : \A R : Made(g, z, R) => Made(g', z, R)
  BY <1>1, <1>2, <1>3, <1>4, <1>9, <1>10, MergeStatesMade
<1>12. \A h, x, R : Made(h, x, R)' = Made(h, x, R)
  BY <1>1, SameRun
<1>13. \A x : Parts(x)' = Parts(x) /\ Named(x)' = Named(x)
  BY <1>1, SameRun
<1>14. ASSUME NEW x \in Node PROVE Made(g, x, Merged(x))'
  <2>1. CASE x = dest
    <3>1. Merged(dest)' = {q \in Parts(dest) : {q} \notin srcs \ {s}}
      BY <1>1, <1>2, <1>6, <1>13 DEF Merged, Filling
    <3>2. Merged(dest)' = P \cup {p}
      BY <1>3, <1>8, <3>1
    <3> QED BY <1>1, <1>11, <1>12, <2>1, <3>2
  <2>2. CASE x # dest
    <3>1. Merged(x)' = Merged(x)
      BY <1>1, <1>6, <1>13, <2>2 DEF Merged
    <3>2. Made(g, x, Merged(x))
      BY DEF Filling
    <3>3. Made(g', x, Merged(x))
      BY <1>11, <2>2, <3>2
    <3> QED BY <1>12, <3>1, <3>3
  <2> QED BY <2>1, <2>2
<1>15. ASSUME NEW x \in g'.nodes PROVE Named(x)
  <2>1. CASE x \in g.nodes
    BY <2>1 DEF Filling
  <2>2. CASE x \in new
    <3>1. PICK k \in Key : g'.out[dest][k] # NoTrans /\ x = g'.out[dest][k].to
      BY <1>6, <2>2
    <3>2. StandsFor(g'.out[dest][k], Taken(P \cup {p}, k))
      BY <1>11 DEF Made
    <3>3. P \cup {p} \in SUBSET Plain
      BY <1>9
    <3>4. op = "star" => P \cup {p} \subseteq PlainA \cup {New}
      <4>1. dest \notin Singles(PlainA \cup PlainB) /\ Named(dest)
        BY <1>2 DEF Filling
      <4>2. {StartB} \in Singles(PlainA \cup PlainB)
        BY PlainAssumption DEF Singles
      <4>3. op = "star" => dest \subseteq PlainA \cup {New}
        BY <4>1, <4>2 DEF Named, Threads
      <4> QED BY <1>3, <1>8, <4>3 DEF Parts
    <3>5. \A t \in Taken(P \cup {p}, k) : t.to \subseteq Threads
      BY <1>4, <3>3, <3>4, TakenFacts DEF Threads
    <3> QED BY <3>1, <3>2, <3>5, StandsForTo DEF Named
  <2> QED BY <1>6, <2>1, <2>2
<1>16. /\ g'.fill \cap Singles(Plain) = {} /\ dest' \notin g'.fill
       /\ srcs' \subseteq Singles(Parts(dest) \ {New})
       /\ srcs' # {} => dest' \notin Singles(PlainA \cup PlainB)
       /\ start' \in g'.nodes /\ (op' # "concat" => start' = {New})
       /\ op' = "concat" => {New} \notin g'.nodes
  <2>1. {New} \in Singles(Plain)
    BY PlainAssumption, SingleIn
  <2> QED BY <1>1, <1>2, <1>6, <2>1 DEF Filling
<1>17. Singles(Parts(dest) \ {New})' = Singles(Parts(dest) \ {New})
  BY <1>1, <1>13 DEF Singles
<1> QED BY <1>13, <1>14, <1>15, <1>16, <1>17 DEF Filling

\* The next state of the fill list takes the place of one that is complete.
LEMMA FillNextFilling ==
  ASSUME OInv, Filling, NEW x \in g.fill, FillNext(x)
  PROVE  Filling'
<1>1. /\ pc = "fill" /\ op' = op /\ input' = input /\ dest' = x /\ start' = start
      /\ srcs = {} /\ srcs' = Singles(x) /\ g' = [g EXCEPT !.fill = @ \ {x}]
  BY DEF FillNext
<1>2. g \in Graph /\ x \in g.nodes /\ x \in Node
  BY DEF OInv, Sound, Graph
<1>3. /\ g'.nodes = g.nodes /\ g'.out = g.out /\ g'.fin = g.fin /\ g'.bits = g.bits
      /\ g'.fill = g.fill \ {x}
  BY <1>1, <1>2 DEF Graph
<1>4. \A h, y, R : Made(h, y, R)' = Made(h, y, R)
  BY <1>1, SameRun
<1>5. \A y : Parts(y)' = Parts(y) /\ Named(y)' = Named(y)
  BY <1>1, SameRun
<1>6. x \notin Singles(Plain)
  BY DEF Filling
<1>7. Parts(x) = x /\ New \notin x /\ x \notin Singles(PlainA \cup PlainB)
  <2>1. {New} \in Singles(Plain) /\ {StartB} \in Singles(Plain)
        /\ Singles(PlainA \cup PlainB) \subseteq Singles(Plain)
    BY PlainAssumption DEF Singles
  <2>2. Named(x)
    BY <1>2 DEF Filling
  <2>3. x \subseteq PlainA \cup PlainB
    BY <1>6, <2>1, <2>2 DEF Named, Threads
  <2> QED BY <1>6, <2>1, <2>3, PlainAssumption DEF Parts
<1>8. ASSUME NEW y \in Node PROVE Made(g, y, Merged(y))'
  <2>1. Made(g, y, Merged(y))
    BY DEF Filling
  <2>2. Merged(y)' = Merged(y)
    <3>1. CASE y = x
      BY <1>1, <1>3, <1>5, <1>7, <3>1 DEF Merged, Singles
    <3>2. CASE y # x
      BY <1>1, <1>3, <1>5, <3>2 DEF Merged
    <3> QED BY <3>1, <3>2
  <2>3. Made(g', y, Merged(y))
    BY <1>3, <2>1 DEF Made
  <2> QED BY <1>4, <2>2, <2>3
<1>9. /\ g'.fill \cap Singles(Plain) = {} /\ dest' \notin g'.fill
      /\ srcs' \subseteq Singles(Parts(x) \ {New})
      /\ srcs' # {} => dest' \notin Singles(PlainA \cup PlainB)
      /\ start' \in g'.nodes /\ (op' # "concat" => start' = {New})
      /\ op' = "concat" => {New} \notin g'.nodes
      /\ \A y \in g'.nodes : Named(y)
  BY <1>1, <1>3, <1>7 DEF Filling, Singles
<1>10. Singles(Parts(dest) \ {New})' = Singles(Parts(x) \ {New})
  BY <1>1, <1>5 DEF Singles
<1> QED BY <1>5, <1>8, <1>9, <1>10 DEF Filling

\* Nothing is left to be filled in.
LEMMA FillDoneFilling ==
  ASSUME Filling, FillDone
  PROVE  Filling' /\ g'.fill = {} /\ srcs' = {}
<1>1. /\ op' = op /\ input' = input /\ dest' = {New} /\ start' = start
      /\ srcs = {} /\ srcs' = {} /\ g' = g /\ g.fill = {}
  BY DEF FillDone
<1>2. \A h, y, R : Made(h, y, R)' = Made(h, y, R)
  BY <1>1, SameRun
<1>3. \A y : Parts(y)' = Parts(y) /\ Named(y)' = Named(y)
  BY <1>1, SameRun
<1>4. \A y : Merged(y)' = Merged(y)
  BY <1>1, <1>3 DEF Merged
<1> QED BY <1>1, <1>2, <1>3, <1>4 DEF Filling

\* The operator has just been called.
Begun == /\ g = input /\ start = {StartA} /\ dest = {New} /\ srcs = {} /\ todo = {}

\* Lemma: a state that is not there is what merging no thread makes.
LEMMA MadeNone ==
  ASSUME NEW h, NEW x, h.out[x] = EmptyOut, x \notin h.fin, h.bits[x] = {}
  PROVE  Made(h, x, {})
BY DEF Made, EmptyOut, Taken, StandsFor

\* Lemma: in doOr a state that was there before is what its thread makes.
LEMMA MadeOwn ==
  ASSUME TypeOK, op \in {"union", "intersect", "subtract"},
         NEW o \in PlainA \cup PlainB, NEW h,
         h.out[{o}] = input.out[{o}], {o} \in h.fin <=> {o} \in input.fin,
         h.bits[{o}] = BitsOf(o)
  PROVE  Made(h, {o}, {o})
<1>1. ASSUME NEW k \in Key PROVE StandsFor(h.out[{o}][k], Taken({o}, k))
  <2>1. Taken({o}, k) = Own(o, k)
    BY AlternativesOf DEF Taken
  <2>2. o \in Plain
    BY PlainAssumption
  <2> QED BY <2>1, <2>2, OwnStandsFor
<1>2. FinalPart(o) <=> {o} \in input.fin
  BY DEF FinalPart
<1>3. UNION {BitsOf(p) : p \in {o}} = BitsOf(o)
  OBVIOUS
<1> QED BY <1>1, <1>2, <1>3 DEF Made

\* doOr adds a start state made of nothing yet.
LEMMA OrBeginFilling == ASSUME TypeOK, Begun, OrBegin PROVE Filling'
<1>1. /\ op \in {"union", "intersect", "subtract"} /\ op' = op /\ input' = input
      /\ g = input /\ dest' = {New} /\ start' = {New} /\ srcs' = {{StartA}, {StartB}}
      /\ g' = [OrBits(g) EXCEPT !.nodes = @ \cup {{New}}]
  BY DEF OrBegin, Begun
<1>2. /\ input \in Graph /\ input.fin \subseteq input.nodes /\ input.fill = {}
      /\ input.nodes \subseteq Singles(PlainA \cup PlainB)
      /\ \A x \in Node \ input.nodes : input.out[x] = EmptyOut
      /\ \A x \in Node : input.bits[x] = {}
  BY InputFacts
<1>3. /\ StartA \in PlainA /\ StartB \in PlainB /\ PlainA \cap PlainB = {}
      /\ Plain = PlainA \cup PlainB \cup {New} /\ New \notin PlainA \cup PlainB
      /\ {New} \in Node /\ {New} \notin input.nodes
  <2>1. {New} \notin Singles(PlainA \cup PlainB)
    BY PlainAssumption DEF Singles
  <2>2. {New} \in Node
    BY PlainAssumption, InputFacts
  <2> QED BY <1>2, <2>1, <2>2, PlainAssumption
<1> DEFINE h == OrBits(g)
<1>4. /\ h \in Graph /\ h.nodes = input.nodes /\ h.out = input.out /\ h.fin = input.fin
      /\ h.fill = {}
  BY <1>1, <1>2 DEF OrBits, WithFinBits, Graph
<1>5. \A x \in Node : h.bits[x] =
        IF op = "union" THEN {}
        ELSE IF op = "intersect"
          THEN (IF x \in input.fin \cap Singles(PlainA) THEN {1} ELSE {}) \cup
               (IF x \in input.fin \cap Singles(PlainB) THEN {2} ELSE {})
          ELSE (IF x \in input.fin \cap Singles(PlainB) THEN {1} ELSE {})
  BY <1>1, <1>2 DEF OrBits, WithFinBits, Graph
<1> HIDE DEF h
<1>6. /\ g'.nodes = input.nodes \cup {{New}} /\ g'.out = input.out /\ g'.fin = input.fin
      /\ g'.fill = {} /\ g'.bits = h.bits
  BY <1>1, <1>4 DEF Graph, h
<1>7. \A o : /\ {o} \in Singles(PlainA) <=> o \in PlainA
             /\ {o} \in Singles(PlainB) <=> o \in PlainB
  <2>1. ASSUME NEW o, NEW S PROVE {o} \in Singles(S) <=> o \in S
    <3>1. ASSUME NEW p \in S, {o} = {p} PROVE o \in S
      BY <3>1
    <3> QED BY <3>1 DEF Singles
  <2> QED BY <2>1
<1>8. \A h1, x, P : Made(h1, x, P)' = Made(h1, x, P)
  BY <1>1, SameRun
<1>9. \A y : Parts(y)' = Parts(y) /\ Named(y)' = Named(y)
  BY <1>1, SameRun
<1>10. ASSUME NEW x \in Node PROVE Made(g, x, Merged(x))'
  <2>1. CASE x \in input.nodes
    <3>1. PICK o \in PlainA \cup PlainB : x = {o}
      BY <1>2, <2>1 DEF Singles
    <3>2. o # New /\ x # {New}
      BY <1>3, <3>1
    <3>3. Merged(x)' = {o}
      BY <1>1, <1>6, <1>9, <2>1, <3>1, <3>2 DEF Merged, Parts
    <3>4. h.bits[x] = BitsOf(o)
      <4>1. \A b \in {1, 2} : b = 1 \/ b = 2
        OBVIOUS
      <4>2. CASE op = "union"
        BY <1>5, <3>1, <4>2 DEF BitsOf
      <4>3. CASE op = "subtract"
        BY <1>5, <1>7, <3>1, <4>3 DEF BitsOf
      <4>4. CASE op = "intersect"
        <5>1. h.bits[x] = (IF {o} \in input.fin /\ o \in PlainA THEN {1} ELSE {}) \cup
                          (IF {o} \in input.fin /\ o \in PlainB THEN {2} ELSE {})
          BY <1>5, <1>7, <3>1, <4>4
        <5>2. BitsOf(o) = IF {o} \in input.fin
                THEN {b \in {1, 2} : (b = 1 /\ o \in PlainA) \/ (b = 2 /\ o \in PlainB)}
                ELSE {}
          BY <4>4 DEF BitsOf
        <5> QED BY <3>1, <5>1, <5>2
      <4> QED BY <1>1, <4>2, <4>3, <4>4
    <3>5. Made(g', {o}, {o})
      BY <1>1, <1>6, <3>1, <3>4, MadeOwn
    <3> QED BY <1>8, <3>1, <3>3, <3>5
  <2>2. CASE x \notin input.nodes
    <3>1. Merged(x)' = {}
      <4>1. CASE x = {New}
        <5>1. Parts(x) = {StartA, StartB}
          BY <1>1, <4>1 DEF Parts
        <5> QED BY <1>1, <1>6, <1>9, <4>1, <5>1 DEF Merged
      <4>2. CASE x # {New}
        BY <1>6, <2>2, <4>2 DEF Merged
      <4> QED BY <4>1, <4>2
    <3>2. h.bits[x] = {}
      BY <1>2, <1>5, <2>2
    <3>3. Made(g', x, {})
      BY <1>2, <1>6, <2>2, <3>2, MadeNone
    <3> QED BY <1>8, <3>1, <3>3
  <2> QED BY <2>1, <2>2
<1>11. \A x \in g'.nodes : Named(x)
  BY <1>1, <1>2, <1>6 DEF Named, Threads, Singles
<1>12. Singles(Parts(dest) \ {New})' = {{StartA}, {StartB}}
  <2>1. Parts({New}) \ {New} = {StartA, StartB}
    BY <1>1, <1>3 DEF Parts
  <2>2. (Parts(dest) \ {New})' = {StartA, StartB}
    BY <1>1, <1>9, <2>1
  <2> QED BY <2>2 DEF Singles
<1>13. {New} \notin Singles(PlainA \cup PlainB)
  BY <1>3 DEF Singles
<1> QED BY <1>1, <1>6, <1>9, <1>10, <1>11, <1>12, <1>13 DEF Filling

----------------------------------------------------------------------------
(* The final states of doConcat and starOp.                                *)

\* The states of N are there, others only to be filled in.
Around(h, N) ==
  /\ N \subseteq h.nodes /\ h.nodes \ N \subseteq h.fill
  /\ h.fill \cap Singles(Plain) = {}
  /\ \A x \in h.nodes : Named(x)
  /\ \A x \in Node \ N : h.out[x] = EmptyOut /\ x \notin h.fin

\* Lemma: merging a state of N leaves it so.
LEMMA AroundKept ==
  ASSUME TypeOK, ClearInput, NEW N \in SUBSET Node, NEW x \in N, NEW h, NEW r,
         Around(h, N), Adds(h, r, x),
         \A z \in Node \ {x} : r.out[z] = h.out[z], r.fin \subseteq h.fin \cup {x},
         NEW P \in SUBSET Plain, op = "star" => P \subseteq PlainA \cup {New},
         \A k \in Key : StandsFor(r.out[x][k], Taken(P, k))
  PROVE  Around(r, N)
<1>1. PICK new \in SUBSET Node :
        /\ r.nodes = h.nodes \cup new /\ r.fill = h.fill \cup new
        /\ new \cap h.nodes = {} /\ new \cap Singles(Plain) = {}
        /\ \A z \in new : \E k \in Key : r.out[x][k] # NoTrans /\ z = r.out[x][k].to
  BY DEF Adds
<1>2. ASSUME NEW z \in new PROVE Named(z)
  <2>1. PICK k \in Key : r.out[x][k] # NoTrans /\ z = r.out[x][k].to
    BY <1>1
  <2>2. \A t \in Taken(P, k) : t.to \subseteq Threads
    BY TakenFacts DEF Threads
  <2>3. StandsFor(r.out[x][k], Taken(P, k))
    OBVIOUS
  <2> QED BY <2>1, <2>2, <2>3, StandsForTo DEF Named
<1>3. \A z \in r.nodes : Named(z)
  BY <1>1, <1>2 DEF Around
<1>4. /\ N \subseteq r.nodes /\ r.nodes \ N \subseteq r.fill
      /\ r.fill \cap Singles(Plain) = {}
  BY <1>1 DEF Around
<1>5. \A z \in Node \ N : r.out[z] = EmptyOut /\ z \notin r.fin
  BY DEF Around
<1> QED BY <1>3, <1>4, <1>5 DEF Around

\* Lemma: copying the transitions of state q, with the leaving data of l, into
\* an out list makes up the alternatives of thread p.
LEMMA DrawIn ==
  ASSUME TypeOK, ClearInput, NEW k \in Key, NEW p \in Plain, NEW q \in Plain,
         NEW l \in Plain, NEW X \in SUBSET Alternatives(p, k),
         X \cup Entered(q, l, k) = Alternatives(p, k), NEW d, StandsFor(d[k], X)
  PROVE  StandsFor(OutTransCopy(d, TransferOutData(input.out[{q}], input.leave[{l}]))[k],
                   Taken({p}, k))
<1>1. PICK s : s = TransferOutData(input.out[{q}], input.leave[{l}])
  OBVIOUS
<1>2. StandsFor(s[k], Entered(q, l, k))
  BY <1>1, OwnStandsFor
<1>3. Taken({p}, k) = Alternatives(p, k)
  BY DEF Taken
<1>4. Alternatives(p, k) \in SUBSET Record /\ SameKind(Alternatives(p, k))
  <2>1. {p} \in SUBSET Plain
    OBVIOUS
  <2> QED BY <1>3, <2>1, TakenFacts
<1>5. X \in SUBSET Record /\ Entered(q, l, k) \in SUBSET Record
  BY <1>4
<1>6. StandsFor(OutTransCopy(d, s)[k], X \cup Entered(q, l, k))
  BY <1>2, <1>4, <1>5, CopyStandsFor
<1> QED BY <1>1, <1>3, <1>6

\* r is h with y merged into x, which puts its leaving data on y's transitions.
DrawsIn(h, r, x, y) ==
  /\ r.out[x] = OutTransCopy(h.out[x], TransferOutData(h.out[y], h.leave[x]))
  /\ \A z \in Node \ {x} : r.out[z] = h.out[z] /\ r.leave[z] = h.leave[z]
  /\ r.leave[x] = h.leave[x] \cup h.leave[y]
  /\ r.fin = IF y \in h.fin THEN h.fin \cup {x} ELSE h.fin
  /\ Adds(h, r, x)

\* Lemma: mergeStatesLeaving is mergeStates with a copy of the out list.
LEMMA LeavingFields ==
  ASSUME NEW h, Sound(h), Closed(h), NEW x \in h.nodes, NEW y \in h.nodes
  PROVE  DrawsIn(h, MergeStatesLeaving(h, x, y), x, y)
<1> DEFINE s == TransferOutData(h.out[y], h.leave[x])
           r == MergeStates(h, x, y, s)
<1>1. /\ h.out[y] \in [Key -> Trans] /\ h.leave[x] \in SUBSET Act /\ x \in Node
      /\ \A k \in Key : Into(h.out[y][k], h.nodes)
  BY DEF Sound, Graph
<1>2. \A k \in Key : s[k] \in Trans /\ Into(s[k], h.nodes)
  BY <1>1 DEF TransferOutData, Trans, Into
<1>3. s \in [Key -> Trans]
  BY <1>2 DEF TransferOutData
<1>4. /\ r.out[x] = OutTransCopy(h.out[x], s)
      /\ \A z \in Node \ {x} : r.out[z] = h.out[z] /\ r.leave[z] = h.leave[z]
      /\ r.leave[x] = h.leave[x] \cup h.leave[y]
      /\ r.fin = IF y \in h.fin THEN h.fin \cup {x} ELSE h.fin
  <2> HIDE DEF s
  <2> QED BY <1>1 DEF MergeStates, Sound, Graph
<1>5. Adds(h, r, x)
  <2> HIDE DEF s
  <2> QED BY <1>2, <1>3, NewNodes
<1> HIDE DEF r, s
<1>6. MergeStatesLeaving(h, x, y) = r
  BY DEF r, s, MergeStatesLeaving
<1> QED BY <1>4, <1>5, <1>6 DEF s, DrawsIn

\* The final states of the left machine that are still to be merged are as
\* they were, but for their status; all others are what their thread makes.
ConcatFinals ==
  /\ op = "concat" /\ start = {StartA} /\ dest = {New} /\ srcs = {}
  /\ Around(g, input.nodes)
  /\ todo \subseteq input.fin \cap Singles(PlainA)
  /\ \A o \in PlainA \cup PlainB :
       IF {o} \in todo
       THEN /\ g.out[{o}] = input.out[{o}] /\ g.leave[{o}] = input.leave[{o}]
            /\ {o} \notin g.fin
       ELSE /\ \A k \in Key : StandsFor(g.out[{o}][k], Taken({o}, k))
            /\ {o} \in g.fin <=> FinalPart(o)
  /\ g.out[{StartB}] = input.out[{StartB}]

\* doConcat begins.
LEMMA ConcatBeginFinals ==
  ASSUME TypeOK, Begun, ConcatBegin
  PROVE  ConcatFinals'
<1>1. /\ op = "concat" /\ op' = op /\ input' = input /\ start' = {StartA}
      /\ dest' = {New} /\ srcs' = {} /\ g = input
      /\ todo' = input.fin \cap Singles(PlainA)
      /\ g' = [input EXCEPT !.fin = @ \cap Singles(PlainB)]
  BY DEF ConcatBegin, Begun
<1>2. /\ input \in Graph /\ input.fin \subseteq input.nodes /\ input.fill = {}
      /\ input.nodes \subseteq Singles(PlainA \cup PlainB)
      /\ \A x \in Node \ input.nodes : input.out[x] = EmptyOut
  BY InputFacts
<1>3. /\ g'.nodes = input.nodes /\ g'.out = input.out /\ g'.fill = {}
      /\ g'.leave = input.leave /\ g'.fin = input.fin \cap Singles(PlainB)
  BY <1>1, <1>2 DEF Graph
<1>4. \A x \in input.nodes : Named(x)
  BY <1>1, <1>2 DEF Named, Threads, Singles
<1>5. Around(g', input.nodes)
  BY <1>2, <1>3, <1>4 DEF Around
<1>6. \A h, N : Around(h, N)' = Around(h, N)
  BY <1>1, SameRun DEF Around
<1>7. ASSUME NEW o \in PlainA \cup PlainB
      PROVE  IF {o} \in todo'
             THEN /\ g'.out[{o}] = input.out[{o}] /\ g'.leave[{o}] = input.leave[{o}]
                  /\ {o} \notin g'.fin
             ELSE /\ \A k \in Key : StandsFor(g'.out[{o}][k], Taken({o}, k))
                  /\ {o} \in g'.fin <=> FinalPart(o)
  <2>1. PlainA \cap PlainB = {} /\ o \in Plain
    BY PlainAssumption
  <2>2. CASE {o} \in todo'
    <3>1. {o} \notin Singles(PlainB)
      BY <1>1, <2>1, <2>2, SingleIn
    <3> QED BY <1>3, <2>2, <3>1
  <2>3. CASE {o} \notin todo'
    <3>1. ~ (o \in PlainA /\ {o} \in input.fin)
      BY <1>1, <2>3, SingleIn
    <3>2. \A k \in Key : Taken({o}, k) = Own(o, k)
      BY <3>1, AlternativesOf DEF Taken
    <3>3. \A k \in Key : StandsFor(g'.out[{o}][k], Taken({o}, k))
      BY <1>3, <2>1, <3>2, OwnStandsFor
    <3>4. {o} \in g'.fin <=> FinalPart(o)
      BY <1>1, <1>3, <3>1, SingleIn DEF FinalPart
    <3> QED BY <2>3, <3>3, <3>4
  <2> QED BY <2>2, <2>3
<1>8. /\ \A P, k : Taken(P, k)' = Taken(P, k)
      /\ \A p : FinalPart(p)' = FinalPart(p)
  BY <1>1, SameRun
<1> QED BY <1>1, <1>3, <1>5, <1>6, <1>7, <1>8 DEF ConcatFinals

\* A final state that has drawn in the right start state is what its thread
\* makes.
LEMMA ConcatFinalFinals ==
  ASSUME OInv, ClearInput, ConcatFinals, NEW f \in todo, ConcatFinal(f)
  PROVE  ConcatFinals'
<1> DEFINE h == MergeStatesLeaving(g, f, {StartB})
<1>1. /\ op = "concat" /\ op' = op /\ input' = input /\ start' = start /\ dest' = dest
      /\ srcs' = srcs /\ todo' = todo \ {f} /\ pc = "finals"
      /\ g' = IF f \in h.fin THEN h ELSE [h EXCEPT !.leave[f] = {}]
  BY DEF ConcatFinal
<1>2. /\ TypeOK /\ Sound(g) /\ Closed(g) /\ f \in g.nodes /\ {StartB} \in g.nodes
      /\ f \in Node
  BY <1>1 DEF OInv, Asked, Merging, Sound, Graph
<1>3. Sound(h)
  BY <1>2, MergeStatesLeavingSound
<1>4. /\ h.out[f] = OutTransCopy(g.out[f], TransferOutData(g.out[{StartB}], g.leave[f]))
      /\ \A z \in Node \ {f} : h.out[z] = g.out[z] /\ h.leave[z] = g.leave[z]
      /\ h.fin = IF {StartB} \in g.fin THEN g.fin \cup {f} ELSE g.fin
      /\ Adds(g, h, f)
  <2>1. DrawsIn(g, h, f, {StartB})
    BY <1>2, LeavingFields
  <2> HIDE DEF h
  <2> QED BY <2>1 DEF DrawsIn
<1> HIDE DEF h
<1>5. /\ g'.out = h.out /\ g'.fin = h.fin /\ g'.nodes = h.nodes /\ g'.fill = h.fill
      /\ \A z \in Node \ {f} : g'.leave[z] = h.leave[z]
  BY <1>1, <1>3 DEF Sound, Graph
<1>6. PICK o \in PlainA : f = {o} /\ {o} \in input.fin
  BY DEF ConcatFinals, Singles
<1>7. /\ PlainA \cap PlainB = {} /\ StartB \in PlainB /\ o \in Plain /\ StartB \in Plain
      /\ f # {StartB} /\ f \in input.nodes /\ input.nodes \subseteq Node
      /\ {StartB} \notin todo
  <2>1. PlainA \cap PlainB = {} /\ StartB \in PlainB /\ o \in Plain /\ StartB \in Plain
    BY PlainAssumption
  <2>2. {StartB} \notin Singles(PlainA)
    BY <2>1, SingleIn
  <2>3. f \in input.nodes /\ input.nodes \subseteq Node
    BY <1>2, <1>6, InputFacts DEF Graph
  <2> QED BY <1>6, <2>1, <2>2, <2>3 DEF ConcatFinals
<1>8. /\ g.out[f] = input.out[{o}] /\ g.leave[f] = input.leave[{o}] /\ f \notin g.fin
      /\ g.out[{StartB}] = input.out[{StartB}]
  BY <1>6 DEF ConcatFinals
<1>9. ASSUME NEW k \in Key PROVE StandsFor(h.out[f][k], Taken({o}, k))
  <2>1. PICK d : d = input.out[{o}]
    OBVIOUS
  <2>2. StandsFor(d[k], Own(o, k))
    BY <1>2, <1>7, <2>1, OwnStandsFor
  <2>3. Alternatives(o, k) = Own(o, k) \cup Entered(StartB, o, k)
    BY <1>1, <1>6, AlternativesOf
  <2>4. h.out[f] = OutTransCopy(d, TransferOutData(input.out[{StartB}], input.leave[{o}]))
    BY <1>4, <1>8, <2>1
  <2>5. Own(o, k) \in SUBSET Alternatives(o, k)
    BY <2>3
  <2> QED BY <1>2, <1>7, <2>2, <2>3, <2>4, <2>5, DrawIn
<1>10. f \in h.fin <=> FinalPart(o)
  <2>1. {StartB} \in g.fin <=> FinalPart(StartB)
    BY <1>7 DEF ConcatFinals
  <2> QED BY <1>1, <1>4, <1>6, <1>7, <1>8, <2>1 DEF FinalPart
<1>11. Around(h, input.nodes)
  <2>1. Around(g, input.nodes) /\ {o} \in SUBSET Plain
    BY <1>7 DEF ConcatFinals
  <2>2. h.fin \subseteq g.fin \cup {f}
    BY <1>4
  <2> QED BY <1>1, <1>2, <1>4, <1>7, <1>9, <2>1, <2>2, AroundKept
<1>12. Around(g', input.nodes)
  BY <1>5, <1>11 DEF Around
<1>13. \A r, N : Around(r, N)' = Around(r, N)
  BY <1>1, SameRun DEF Around
<1>14. ASSUME NEW p \in PlainA \cup PlainB
       PROVE  IF {p} \in todo'
              THEN /\ g'.out[{p}] = input.out[{p}] /\ g'.leave[{p}] = input.leave[{p}]
                   /\ {p} \notin g'.fin
              ELSE /\ \A k \in Key : StandsFor(g'.out[{p}][k], Taken({p}, k))
                   /\ {p} \in g'.fin <=> FinalPart(p)
  <2>1. CASE p = o
    BY <1>1, <1>5, <1>6, <1>9, <1>10, <2>1
  <2>2. CASE p # o
    <3>1. {p} # f /\ {p} \in Node
      <4>1. p \in Plain
        BY PlainAssumption
      <4> QED BY <1>2, <1>6, <2>2, <4>1, InputFacts
    <3>2. /\ g'.out[{p}] = g.out[{p}] /\ g'.leave[{p}] = g.leave[{p}]
          /\ {p} \in g'.fin <=> {p} \in g.fin
      BY <1>4, <1>5, <3>1
    <3>3. {p} \in todo' <=> {p} \in todo
      BY <1>1, <3>1
    <3> QED BY <3>2, <3>3 DEF ConcatFinals
  <2> QED BY <2>1, <2>2
<1>15. /\ \A P, k : Taken(P, k)' = Taken(P, k)
       /\ \A p : FinalPart(p)' = FinalPart(p)
  BY <1>1, SameRun
<1>16. g'.out[{StartB}] = input.out[{StartB}]
  <2>1. {StartB} \in Node
    BY <1>2, <1>7, InputFacts
  <2> QED BY <1>4, <1>5, <1>7, <1>8, <2>1
<1> QED BY <1>1, <1>12, <1>13, <1>14, <1>15, <1>16 DEF ConcatFinals

\* Lemma: when the states that were there are what their threads make,
\* filling in can begin.
LEMMA FillingBegins ==
  ASSUME TypeOK, op' = op, input' = input, op \in {"concat", "star"},
         dest' = {New}, srcs' = {}, start' \in g'.nodes, op # "concat" => start' = {New},
         NoBits(g'), NEW N \in SUBSET Singles(Plain), Around(g', N),
         op = "concat" => {New} \notin N,
         \A x \in N : /\ \A k \in Key : StandsFor(g'.out[x][k], Taken(x, k))
                      /\ x \in g'.fin <=> \E p \in x : FinalPart(p)
  PROVE  Filling'
<1>1. \A y : Parts(y)' = Parts(y) /\ Named(y)' = Named(y)
  BY SameRun
<1>2. \A h, x, P : Made(h, x, P)' = Made(h, x, P)
  BY SameRun
<1>3. ASSUME NEW x \in Node PROVE Made(g, x, Merged(x))'
  <2>1. CASE x \in N
    <3>1. x \in g'.nodes /\ x \notin g'.fill
      BY <2>1 DEF Around
    <3>2. Parts(x) = x
      BY <2>1 DEF Parts
    <3>3. Merged(x)' = x
      BY <1>1, <3>1, <3>2 DEF Merged
    <3>4. g'.bits[x] = UNION {BitsOf(p) : p \in x}
      BY DEF NoBits, BitsOf
    <3>5. Made(g', x, x)
      BY <2>1, <3>4 DEF Made
    <3> QED BY <1>2, <3>3, <3>5
  <2>2. CASE x \notin N
    <3>1. Merged(x)' = {}
      BY <2>2 DEF Merged, Around
    <3>2. g'.out[x] = EmptyOut /\ x \notin g'.fin /\ g'.bits[x] = {}
      BY <2>2 DEF Around, NoBits
    <3>3. Made(g', x, {})
      BY <3>2, MadeNone
    <3> QED BY <1>2, <3>1, <3>3
  <2> QED BY <2>1, <2>2
<1>4. /\ \A x \in g'.nodes : Named(x)
      /\ g'.fill \cap Singles(Plain) = {} /\ dest' \notin g'.fill
      /\ op = "concat" => {New} \notin g'.nodes
  <2>1. {New} \in Singles(Plain)
    BY PlainAssumption, SingleIn
  <2> QED BY <2>1 DEF Around
<1> QED BY <1>1, <1>3, <1>4 DEF Filling, Singles

\* doConcat goes on to fill in the combined states.
LEMMA FinalsDoneFilling ==
  ASSUME MarksInv, MarksInv', ConcatFinals, FinalsDone PROVE Filling'
<1>1. /\ op = "concat" /\ op' = op /\ input' = input /\ start' = {StartA} /\ dest' = {New}
      /\ srcs' = {} /\ g' = g /\ todo = {} /\ TypeOK /\ NoBits(g')
  BY DEF FinalsDone, ConcatFinals, MarksInv, OInv
<1>2. /\ input.nodes \subseteq Singles(PlainA \cup PlainB) /\ {StartA} \in input.nodes
  BY <1>1, InputFacts
<1>3. input.nodes \subseteq Singles(Plain) /\ {New} \notin input.nodes
  <2>1. {New} \notin Singles(PlainA \cup PlainB)
    BY PlainAssumption, SingleIn
  <2>2. Singles(PlainA \cup PlainB) \subseteq Singles(Plain)
    BY PlainAssumption DEF Singles
  <2> QED BY <1>2, <2>1, <2>2
<1>4. Around(g', input.nodes) /\ start' \in g'.nodes
  BY <1>1, <1>2 DEF ConcatFinals, Around
<1>5. ASSUME NEW x \in input.nodes
      PROVE  /\ \A k \in Key : StandsFor(g'.out[x][k], Taken(x, k))
             /\ x \in g'.fin <=> \E p \in x : FinalPart(p)
  <2>1. PICK o \in PlainA \cup PlainB : x = {o}
    BY <1>2 DEF Singles
  <2>2. /\ \A k \in Key : StandsFor(g.out[x][k], Taken(x, k))
        /\ x \in g.fin <=> FinalPart(o)
    BY <1>1, <2>1 DEF ConcatFinals
  <2> QED BY <1>1, <2>1, <2>2
<1> QED BY <1>1, <1>3, <1>4, <1>5, FillingBegins

\* The start state has a copy of the old one's transitions; a final state may
\* be merged with it twice, which makes no difference.
StarFinals ==
  LET N == input.nodes \cup {{New}} IN
  /\ op = "star" /\ start = {New} /\ dest = {New} /\ srcs = {}
  /\ Around(g, N)
  /\ todo \subseteq (input.fin \cap Singles(PlainA)) \cup {{New}}
  /\ g.out[{New}] = input.out[{StartA}] /\ g.leave[{New}] = input.leave[{StartA}]
  /\ {New} \in g.fin <=> {StartA} \in input.fin
  /\ \A o \in PlainA \cup PlainB :
       /\ {o} \in g.fin <=> {o} \in input.fin
       /\ g.leave[{o}] = input.leave[{o}]
       /\ \A k \in Key :
            \/ StandsFor(g.out[{o}][k], Taken({o}, k))
            \/ {o} \in todo /\ StandsFor(g.out[{o}][k], Own(o, k))

\* Lemma: the states there are when starOp is called, and the one it adds.
LEMMA NamedOfStar ==
  ASSUME TypeOK, ClearInput, op = "star"
  PROVE  \A x \in input.nodes \cup {{New}} : Named(x)
<1>1. input.nodes \cap Singles(PlainB) = {{StartB}}
  BY DEF ClearInput, Clear, StarClear
<1>2. ASSUME NEW x \in input.nodes PROVE Named(x)
  <2>1. PICK o \in PlainA \cup PlainB : x = {o}
    BY InputFacts DEF Singles
  <2>2. CASE o \in PlainA
    BY <2>1, <2>2 DEF Named, Threads
  <2>3. CASE o \in PlainB
    <3>1. x \in Singles(PlainB)
      BY <2>1, <2>3 DEF Singles
    <3> QED BY <1>1, <3>1 DEF Named
  <2> QED BY <2>1, <2>2, <2>3
<1> QED BY <1>2 DEF Named

\* starOp begins.
LEMMA StarBeginFinals ==
  ASSUME OInv, ClearInput, Begun, StarBegin
  PROVE  StarFinals'
<1> DEFINE N == input.nodes \cup {{New}}
<1>1. /\ op = "star" /\ op' = op /\ input' = input /\ start' = {New} /\ dest' = {New}
      /\ srcs' = {} /\ g = input /\ todo' = g'.fin \cap Singles(PlainA \cup {New})
      /\ g' = MergeStates([input EXCEPT !.nodes = @ \cup {{New}}],
                          {New}, {StartA}, input.out[{StartA}])
  BY DEF StarBegin, Begun
<1>2. /\ input \in Graph /\ input.fin \subseteq input.nodes /\ input.fill = {}
      /\ input.nodes \subseteq Singles(PlainA \cup PlainB) /\ input.nodes \subseteq Node
      /\ {StartA} \in input.nodes
      /\ \A x \in Node \ input.nodes : input.out[x] = EmptyOut /\ input.leave[x] = {}
      /\ \A k \in Key : Into(input.out[{StartA}][k], input.nodes)
      /\ input.out[{StartA}] \in [Key -> Trans] /\ TypeOK
  <2>1. TypeOK /\ Sound(input)
    BY <1>1 DEF OInv
  <2>2. {StartA} \in input.nodes
    BY <2>1, InputFacts
  <2> QED BY <2>1, <2>2, InputFacts DEF Sound, Graph
<1>3. /\ {New} \in Node /\ {New} \notin input.nodes /\ N \subseteq Node
      /\ \A o \in PlainA \cup PlainB : {o} \in Node \ {{New}}
      /\ Plain = PlainA \cup PlainB \cup {New}
  <2>1. {New} \notin Singles(PlainA \cup PlainB)
    BY PlainAssumption, SingleIn
  <2>2. \A o \in Plain : {o} \in Node
    BY <1>2, InputFacts
  <2>3. Plain = PlainA \cup PlainB \cup {New} /\ New \notin PlainA \cup PlainB
    BY PlainAssumption
  <2> QED BY <1>2, <2>1, <2>2, <2>3
<1> DEFINE h == [input EXCEPT !.nodes = @ \cup {{New}}]
<1>4. PICK s : s = input.out[{StartA}]
  OBVIOUS
<1>5. /\ h.nodes = N /\ h.out = input.out /\ h.fin = input.fin /\ h.fill = {}
      /\ h.leave = input.leave
  BY <1>2 DEF Graph
<1>6. Sound(h) /\ Closed(h)
  <2>1. h \in Graph
    BY <1>2, <1>3 DEF Graph
  <2>2. Sound(input) /\ Closed(input)
    BY <1>1 DEF OInv, Merging, Begun, StarBegin
  <2> HIDE DEF h
  <2> QED BY <1>5, <2>1, <2>2 DEF Sound, Closed, Into, Singles
<1>7. g' = MergeStates(h, {New}, {StartA}, s)
  BY <1>1, <1>4
<1> HIDE DEF h
<1>8. Adds(h, g', {New})
  <2>1. s \in [Key -> Trans] /\ \A k \in Key : Into(s[k], h.nodes)
    BY <1>2, <1>4, <1>5 DEF Into
  <2>2. {New} \in h.nodes
    BY <1>5
  <2> QED BY <1>6, <1>7, <2>1, <2>2, NewNodes
<1>9. /\ g'.out[{New}] = OutTransCopy(h.out[{New}], s)
      /\ \A z \in Node \ {{New}} : g'.out[z] = h.out[z] /\ g'.leave[z] = h.leave[z]
      /\ g'.leave[{New}] = h.leave[{New}] \cup h.leave[{StartA}]
      /\ g'.fin = IF {StartA} \in h.fin THEN h.fin \cup {{New}} ELSE h.fin
  BY <1>3, <1>6, <1>7 DEF MergeStates, Sound, Graph
<1>10. g'.out[{New}] = input.out[{StartA}] /\ g'.leave[{New}] = input.leave[{StartA}]
  <2>1. input.out[{New}] = EmptyOut /\ input.leave[{New}] = {}
    BY <1>2, <1>3
  <2>2. OutTransCopy(EmptyOut, s) = s
    <3>1. s = [k \in Key |-> s[k]]
      BY <1>2, <1>4
    <3>2. OutTransCopy(EmptyOut, s) = [k \in Key |-> s[k]]
      BY DEF OutTransCopy, EmptyOut
    <3> QED BY <3>1, <3>2
  <2> QED BY <1>4, <1>5, <1>9, <2>1, <2>2
<1>12. g'.nodes = N /\ g'.fill = {}
  <2>1. PICK new \in SUBSET Node :
          /\ g'.nodes = N \cup new /\ g'.fill = new /\ new \cap N = {}
          /\ \A z \in new : \E k \in Key : g'.out[{New}][k] # NoTrans
                                           /\ z = g'.out[{New}][k].to
    <3>1. PICK new \in SUBSET Node :
            /\ g'.nodes = h.nodes \cup new /\ g'.fill = h.fill \cup new
            /\ new \cap h.nodes = {}
            /\ \A z \in new : \E k \in Key : g'.out[{New}][k] # NoTrans
                                             /\ z = g'.out[{New}][k].to
      BY <1>8 DEF Adds
    <3>2. g'.nodes = N \cup new /\ g'.fill = new /\ new \cap N = {}
      BY <1>5, <3>1
    <3> QED BY <3>1, <3>2
  <2>2. ASSUME NEW z \in new PROVE FALSE
    <3>1. PICK k \in Key : s[k] # NoTrans /\ z = s[k].to
      BY <1>4, <1>10, <2>1, <2>2
    <3>2. z \in input.nodes \cup {Null}
      BY <1>2, <1>4, <3>1 DEF Into
    <3>3. z \in Node
      OBVIOUS
    <3> QED BY <2>1, <3>2, <3>3 DEF Node
  <2> QED BY <2>1, <2>2
<1>13. \A x \in N : Named(x)
  BY <1>1, <1>2, NamedOfStar
<1>14. Around(g', N)
  BY <1>2, <1>3, <1>5, <1>9, <1>12, <1>13 DEF Around
<1>15. \A r, M : Around(r, M)' = Around(r, M)
  BY <1>1, SameRun DEF Around
<1>16. \A P, k : Taken(P, k)' = Taken(P, k)
  BY <1>1, SameRun
<1>17. todo' \subseteq (input.fin \cap Singles(PlainA)) \cup {{New}}
  <2>1. g'.fin \subseteq input.fin \cup {{New}}
    BY <1>5, <1>9
  <2>2. Singles(PlainA \cup {New}) = Singles(PlainA) \cup {{New}}
    BY DEF Singles
  <2> QED BY <1>1, <2>1, <2>2
<1>18. ASSUME NEW o \in PlainA \cup PlainB
       PROVE  /\ {o} \in g'.fin <=> {o} \in input.fin
              /\ g'.leave[{o}] = input.leave[{o}]
              /\ \A k \in Key :
                   \/ StandsFor(g'.out[{o}][k], Taken({o}, k))
                   \/ {o} \in todo' /\ StandsFor(g'.out[{o}][k], Own(o, k))
  <2>1. {o} \in Node \ {{New}} /\ o \in Plain
    BY <1>3
  <2>2. /\ {o} \in g'.fin <=> {o} \in input.fin
        /\ g'.leave[{o}] = input.leave[{o}] /\ g'.out[{o}] = input.out[{o}]
    BY <1>5, <1>9, <2>1
  <2>3. \A k \in Key : StandsFor(g'.out[{o}][k], Own(o, k))
    BY <1>2, <2>1, <2>2, OwnStandsFor
  <2>4. CASE o \in PlainA /\ {o} \in input.fin
    <3>1. {o} \in todo'
      BY <1>1, <2>2, <2>4, SingleIn
    <3> QED BY <2>2, <2>3, <3>1
  <2>5. CASE ~ (o \in PlainA /\ {o} \in input.fin)
    <3>1. \A k \in Key : Taken({o}, k) = Own(o, k)
      BY <2>5, AlternativesOf DEF Taken
    <3> QED BY <2>2, <2>3, <3>1
  <2> QED BY <2>4, <2>5
<1>19. {New} \in g'.fin <=> {StartA} \in input.fin
  BY <1>2, <1>3, <1>5, <1>9
<1>20. Around(g, input.nodes \cup {{New}})'
  BY <1>1, <1>14, <1>15
<1>21. ASSUME NEW o \in PlainA \cup PlainB
       PROVE  (/\ {o} \in g.fin <=> {o} \in input.fin
               /\ g.leave[{o}] = input.leave[{o}]
               /\ \A k \in Key :
                    \/ StandsFor(g.out[{o}][k], Taken({o}, k))
                    \/ {o} \in todo /\ StandsFor(g.out[{o}][k], Own(o, k)))'
  <2>1. \A k : Own(o, k)' = Own(o, k)
    BY <1>1 DEF Own
  <2> QED BY <1>1, <1>16, <1>18, <2>1
<1> HIDE DEF N
<1> QED BY <1>1, <1>10, <1>17, <1>19, <1>20, <1>21 DEF StarFinals

\* A final state that has drawn in the start state is what its thread makes,
\* and none but the start state is passed over.
LEMMA StarFinalFinals ==
  ASSUME OInv, ClearInput, StarFinals, NEW f \in todo, StarFinal(f), pc' = "finals"
  PROVE  StarFinals'
<1> DEFINE N == input.nodes \cup {{New}}
<1>1. /\ op = "star" /\ op' = op /\ input' = input /\ start = {New} /\ start' = start
      /\ dest' = dest /\ srcs' = srcs /\ pc = "finals" /\ f \in todo \ {start}
      /\ g' = MergeStatesLeaving(g, f, {New})
  BY DEF StarFinal, StarFinals
<1>2. PICK o \in PlainA : f = {o} /\ {o} \in input.fin
  <2>1. f \in input.fin \cap Singles(PlainA)
    BY <1>1 DEF StarFinals
  <2> QED BY <2>1 DEF Singles
<1>3. /\ TypeOK /\ Sound(g) /\ Closed(g) /\ f \in g.nodes /\ {New} \in g.nodes
      /\ f \in Node /\ {New} \in Node /\ f # {New} /\ o \in Plain /\ StartA \in Plain
      /\ o \in PlainA \cup PlainB
  BY <1>1, PlainAssumption DEF OInv, Asked, Merging, Sound, Graph
<1>4. DrawsIn(g, g', f, {New})
  BY <1>1, <1>3, LeavingFields
<1>5. /\ g.out[{New}] = input.out[{StartA}] /\ g.leave[{New}] = input.leave[{StartA}]
      /\ {New} \in g.fin <=> {StartA} \in input.fin
      /\ g.leave[f] = input.leave[{o}] /\ f \in g.fin
      /\ Around(g, N)
  BY <1>2, <1>3 DEF StarFinals
<1>6. StarClear(input)
  BY <1>1 DEF ClearInput, Clear
<1>7. /\ g'.out[f] = OutTransCopy(g.out[f],
                        TransferOutData(input.out[{StartA}], input.leave[{o}]))
      /\ \A z \in Node \ {f} : g'.out[z] = g.out[z] /\ g'.leave[z] = g.leave[z]
      /\ g'.leave[f] = input.leave[{o}] \cup input.leave[{StartA}]
      /\ g'.fin = g.fin
      /\ Adds(g, g', f)
  BY <1>4, <1>5 DEF DrawsIn
<1>8. input.leave[{StartA}] \subseteq input.leave[{o}]
  <2>1. {StartA} \in Node /\ (input.leave[{StartA}] # {} => {StartA} \in input.fin)
    BY <1>3, InputFacts
  <2>2. {StartA} \in Singles(PlainA) /\ {o} \in Singles(PlainA)
    BY PlainAssumption, SingleIn
  <2>3. CASE {StartA} \notin input.fin
    BY <2>1, <2>3
  <2>4. CASE input.fin \cap Singles(PlainA) = {{StartA}}
    BY <1>2, <2>2, <2>4
  <2>5. CASE \A x \in input.fin \cap Singles(PlainA) : input.leave[x] = {}
    BY <1>2, <2>1, <2>2, <2>5
  <2> QED BY <1>6, <2>3, <2>4, <2>5 DEF StarClear
<1>9. ASSUME NEW k \in Key PROVE StandsFor(g'.out[f][k], Taken({o}, k))
  <2>1. PICK d : d = g.out[f]
    OBVIOUS
  <2>2. Alternatives(o, k) = Own(o, k) \cup Entered(StartA, o, k)
    BY <1>1, <1>2, AlternativesOf
  <2>3. Taken({o}, k) = Alternatives(o, k)
    BY DEF Taken
  <2>4. PICK X \in {Own(o, k), Alternatives(o, k)} : StandsFor(d[k], X)
    BY <1>2, <1>3, <2>1, <2>3 DEF StarFinals
  <2>5. X \in SUBSET Alternatives(o, k)
        /\ X \cup Entered(StartA, o, k) = Alternatives(o, k)
    BY <2>2, <2>4
  <2>6. StandsFor(OutTransCopy(d, TransferOutData(input.out[{StartA}], input.leave[{o}]))[k],
                  Taken({o}, k))
    BY <1>3, <2>4, <2>5, DrawIn
  <2> QED BY <1>7, <2>1, <2>6
<1>10. ASSUME NEW r \in input.fin \cap Singles(PlainA), r \in todo, r # f
       PROVE  r \in todo'
  <2>1. CASE todo' = todo \ {f}
    BY <1>10, <2>1
  <2>2. CASE start \in g.fin /\ g.leave[f] # {}
    <3>1. {StartA} \in input.fin /\ input.leave[{o}] # {}
      BY <1>1, <1>5, <2>2
    <3>2. input.fin \cap Singles(PlainA) = {{StartA}}
      BY <1>2, <1>6, <3>1, SingleIn DEF StarClear
    <3>3. {o} \in Singles(PlainA)
      BY SingleIn
    <3> QED BY <1>2, <1>10, <3>2, <3>3
  <2> QED BY <1>1, <2>1, <2>2 DEF StarFinal
<1>11. todo' \subseteq todo
  BY DEF StarFinal
<1>12. Around(g', N)
  <2>1. N \in SUBSET Node /\ f \in N /\ {o} \in SUBSET Plain
    <3>1. input.nodes \subseteq Node /\ input.fin \subseteq input.nodes
      BY <1>3, InputFacts DEF Graph
    <3> QED BY <1>2, <1>3, <3>1
  <2>2. g'.fin \subseteq g.fin \cup {f} /\ {o} \subseteq PlainA \cup {New}
    BY <1>7
  <2>3. \A z \in Node \ {f} : g'.out[z] = g.out[z]
    BY <1>7
  <2> HIDE DEF N
  <2> QED BY <1>3, <1>5, <1>7, <1>9, <2>1, <2>2, <2>3, AroundKept
<1>13. \A r, M : Around(r, M)' = Around(r, M)
  BY <1>1, SameRun DEF Around
<1>14. \A P, k : Taken(P, k)' = Taken(P, k)
  BY <1>1, SameRun
<1>15. Around(g, input.nodes \cup {{New}})'
  BY <1>1, <1>12, <1>13
<1>16. ASSUME NEW p \in PlainA \cup PlainB
       PROVE  (/\ {p} \in g.fin <=> {p} \in input.fin
               /\ g.leave[{p}] = input.leave[{p}]
               /\ \A k \in Key :
                    \/ StandsFor(g.out[{p}][k], Taken({p}, k))
                    \/ {p} \in todo /\ StandsFor(g.out[{p}][k], Own(p, k)))'
  <2>1. \A k : Own(p, k)' = Own(p, k)
    BY <1>1 DEF Own
  <2>2. /\ {p} \in g'.fin <=> {p} \in input.fin
        /\ g'.leave[{p}] = input.leave[{p}]
        /\ \A k \in Key :
             \/ StandsFor(g'.out[{p}][k], Taken({p}, k))
             \/ {p} \in todo' /\ StandsFor(g'.out[{p}][k], Own(p, k))
    <3>1. CASE p = o
      BY <1>2, <1>5, <1>7, <1>8, <1>9, <3>1
    <3>2. CASE p # o
      <4>1. {p} # f /\ {p} \in Node
        <5>1. p \in Plain
          BY PlainAssumption
        <5> QED BY <1>2, <1>3, <3>2, <5>1, InputFacts
      <4>2. g'.out[{p}] = g.out[{p}] /\ g'.leave[{p}] = g.leave[{p}]
        BY <1>7, <4>1
      <4>3. {p} \in todo => {p} \in todo'
        <5>1. {p} # {New}
          BY PlainAssumption
        <5>2. {p} \in todo => {p} \in input.fin \cap Singles(PlainA)
          BY <5>1 DEF StarFinals
        <5> QED BY <1>10, <4>1, <5>2
      <4> QED BY <1>7, <4>2, <4>3 DEF StarFinals
    <3> QED BY <3>1, <3>2
  <2> QED BY <1>1, <1>14, <2>1, <2>2
<1>17. g'.out[{New}] = input.out[{StartA}] /\ g'.leave[{New}] = input.leave[{StartA}]
  BY <1>3, <1>5, <1>7
<1>18. todo' \subseteq (input.fin \cap Singles(PlainA)) \cup {{New}}
  BY <1>11 DEF StarFinals
<1> HIDE DEF N
<1> QED BY <1>1, <1>5, <1>7, <1>15, <1>16, <1>17, <1>18 DEF StarFinals

\* Passing over the start state.
LEMMA StarSkipFinals ==
  ASSUME StarFinals, StarSkip
  PROVE  StarFinals'
<1>1. /\ op = "star" /\ op' = op /\ input' = input /\ start = {New} /\ start' = start
      /\ dest' = dest /\ srcs' = srcs /\ g' = g /\ todo' = todo \ {{New}}
  BY DEF StarSkip, StarFinals
<1>2. \A r, M : Around(r, M)' = Around(r, M)
  BY <1>1, SameRun DEF Around
<1>3. \A P, k : Taken(P, k)' = Taken(P, k)
  BY <1>1, SameRun
<1>4. Around(g, input.nodes \cup {{New}})'
  BY <1>1, <1>2 DEF StarFinals
<1>5. ASSUME NEW p \in PlainA \cup PlainB
      PROVE  (/\ {p} \in g.fin <=> {p} \in input.fin
              /\ g.leave[{p}] = input.leave[{p}]
              /\ \A k \in Key :
                   \/ StandsFor(g.out[{p}][k], Taken({p}, k))
                   \/ {p} \in todo /\ StandsFor(g.out[{p}][k], Own(p, k)))'
  <2>1. \A k : Own(p, k)' = Own(p, k)
    BY <1>1 DEF Own
  <2>2. {p} # {New}
    BY PlainAssumption
  <2> QED BY <1>1, <1>3, <2>1, <2>2, SMTT(30) DEF StarFinals
<1>6. /\ todo' \subseteq (input.fin \cap Singles(PlainA)) \cup {{New}}
      /\ g.out[{New}] = input.out[{StartA}] /\ g.leave[{New}] = input.leave[{StartA}]
      /\ {New} \in g.fin <=> {StartA} \in input.fin
      /\ dest = {New} /\ srcs = {}
  BY <1>1 DEF StarFinals
<1> QED BY <1>1, <1>4, <1>5, <1>6 DEF StarFinals

\* Lemma: with the start state complete and final all states are.
LEMMA StarSelfEnds ==
  ASSUME TypeOK, StarFinals, StarSelf, NoBits(g'), NEW h, Sound(h),
         g' = [h EXCEPT !.fin = @ \cup {{New}}],
         Around(h, input.nodes \cup {{New}}),
         \A z \in Node \ {{New}} : h.out[z] = g.out[z],
         h.fin \subseteq g.fin \cup {{New}}, g.fin \subseteq h.fin,
         \A k \in Key : StandsFor(h.out[{New}][k], Taken({New}, k))
  PROVE  Filling'
<1> DEFINE N == input.nodes \cup {{New}}
<1>1. /\ op = "star" /\ op' = op /\ input' = input /\ start' = {New}
      /\ dest' = {New} /\ srcs' = {} /\ todo = {}
  BY DEF StarSelf, StarFinals
<1>2. /\ g'.nodes = h.nodes /\ g'.out = h.out /\ g'.fill = h.fill
      /\ g'.fin = h.fin \cup {{New}}
  BY DEF Sound, Graph
<1>3. /\ input.nodes \subseteq Singles(PlainA \cup PlainB)
      /\ Plain = PlainA \cup PlainB \cup {New} /\ New \notin PlainA \cup PlainB
      /\ PlainA \cap PlainB = {} /\ \A o \in Plain : {o} \in Node
  BY InputFacts, PlainAssumption
<1>4. N \in SUBSET Singles(Plain)
  BY <1>3 DEF Singles
<1>5. Around(g', N) /\ start' \in g'.nodes
  BY <1>1, <1>2 DEF Around
<1>6. ASSUME NEW x \in N
      PROVE  /\ \A k \in Key : StandsFor(g'.out[x][k], Taken(x, k))
             /\ x \in g'.fin <=> \E p \in x : FinalPart(p)
  <2>1. CASE x = {New}
    <3>1. FinalPart(New)
      BY <1>1 DEF FinalPart
    <3> QED BY <1>2, <2>1, <3>1
  <2>2. CASE x # {New}
    <3>1. PICK o \in PlainA \cup PlainB : x = {o}
      BY <1>3, <2>2 DEF Singles
    <3>2. FinalPart(o) <=> {o} \in input.fin
      BY <1>1, <1>3 DEF FinalPart
    <3>3. /\ \A k \in Key : StandsFor(g.out[x][k], Taken(x, k))
          /\ x \in g.fin <=> {o} \in input.fin
      BY <1>1, <3>1 DEF StarFinals
    <3>4. x \in Node \ {{New}}
      BY <1>3, <2>2, <3>1
    <3>5. g'.out[x] = g.out[x] /\ (x \in g'.fin <=> x \in g.fin)
      BY <1>2, <3>4
    <3> QED BY <3>1, <3>2, <3>3, <3>5
  <2> QED BY <2>1, <2>2
<1> HIDE DEF N
<1> QED BY <1>1, <1>4, <1>5, <1>6, FillingBegins

\* The start state, merged with itself if it was final, is made final, and the
\* combined states can be filled in.
LEMMA StarSelfFilling ==
  ASSUME MarksInv, MarksInv', ClearInput, StarFinals, StarSelf
  PROVE  Filling'
<1> DEFINE N == input.nodes \cup {{New}}
<1>1. /\ op = "star" /\ op' = op /\ input' = input /\ start = {New} /\ start' = {New}
      /\ dest' = {New} /\ srcs' = {} /\ todo = {} /\ pc = "finals"
  BY DEF StarSelf, StarFinals
<1>2. /\ TypeOK /\ Sound(g) /\ Closed(g) /\ {New} \in g.nodes /\ {New} \in Node
      /\ StartA \in PlainA /\ StartA \in Plain /\ New \in Plain /\ NoBits(g')
  BY <1>1, PlainAssumption DEF MarksInv, OInv, Asked, Merging, Sound, Graph
<1>3. /\ g.out[{New}] = input.out[{StartA}] /\ g.leave[{New}] = input.leave[{StartA}]
      /\ {New} \in g.fin <=> {StartA} \in input.fin
      /\ Around(g, N)
  BY DEF StarFinals
<1> DEFINE h == IF {New} \in g.fin THEN MergeStatesLeaving(g, {New}, {New}) ELSE g
<1>4. g' = [h EXCEPT !.fin = @ \cup {{New}}]
  BY <1>1 DEF StarSelf
<1>5. Sound(h)
  BY <1>2, MergeStatesLeavingSound
<1>6. CASE {New} \in g.fin
  <2>1. DrawsIn(g, h, {New}, {New})
    BY <1>2, <1>6, LeavingFields
  <2> HIDE DEF h
  <2>2. /\ h.out[{New}] = OutTransCopy(g.out[{New}],
                            TransferOutData(input.out[{StartA}], input.leave[{StartA}]))
        /\ \A z \in Node \ {{New}} : h.out[z] = g.out[z]
        /\ h.fin = g.fin \cup {{New}} /\ Adds(g, h, {New})
    BY <1>3, <1>6, <2>1 DEF DrawsIn
  <2>3. ASSUME NEW k \in Key PROVE StandsFor(h.out[{New}][k], Taken({New}, k))
    <3>1. PICK d : d = g.out[{New}]
      OBVIOUS
    <3>2. Alternatives(New, k) = Own(StartA, k) \cup Entered(StartA, StartA, k)
      BY <1>1, <1>3, <1>6, AlternativesOf
    <3>3. StandsFor(d[k], Own(StartA, k))
      BY <1>2, <1>3, <3>1, OwnStandsFor
    <3>4. Own(StartA, k) \in SUBSET Alternatives(New, k)
      BY <3>2
    <3>5. StandsFor(OutTransCopy(d, TransferOutData(input.out[{StartA}],
                                                    input.leave[{StartA}]))[k],
                    Taken({New}, k))
      BY <1>2, <3>2, <3>3, <3>4, DrawIn
    <3> QED BY <2>2, <3>1, <3>5
  <2>4. Around(h, N)
    <3>1. N \in SUBSET Node /\ {New} \in N /\ {New} \in SUBSET Plain
          /\ {New} \subseteq PlainA \cup {New}
      <4>1. input.nodes \subseteq Node
        BY <1>2, InputFacts DEF Graph
      <4> QED BY <1>2, <4>1
    <3>2. h.fin \subseteq g.fin \cup {{New}}
      BY <2>2
    <3> HIDE DEF N
    <3> QED BY <1>2, <1>3, <2>2, <2>3, <3>1, <3>2, AroundKept
  <2> QED BY <1>2, <1>4, <1>5, <2>2, <2>3, <2>4, StarSelfEnds
<1>7. CASE {New} \notin g.fin
  <2>1. h = g
    BY <1>7
  <2>2. ASSUME NEW k \in Key PROVE StandsFor(g.out[{New}][k], Taken({New}, k))
    <3>1. Taken({New}, k) = Own(StartA, k)
      BY <1>1, <1>3, <1>7, AlternativesOf DEF Taken
    <3> QED BY <1>2, <1>3, <3>1, OwnStandsFor
  <2> QED BY <1>2, <1>3, <1>4, <2>1, <2>2, StarSelfEnds
<1> QED BY <1>6, <1>7

----------------------------------------------------------------------------
(* Cleaning up.                                                            *)

\* Lemma: there are finitely many states.
LEMMA NodesFinite == ASSUME NEW S \in SUBSET Node PROVE IsFiniteSet(S)
<1>1. IsFiniteSet(SUBSET Plain)
  BY PlainAssumption, FS_SUBSET
<1>2. S \subseteq SUBSET Plain
  BY DEF Node
<1> QED BY <1>1, <1>2, FS_Subset

\* N is what removeMisfits leaves of h: no transition leads out of it, and
\* every state but the root is led to from another.
Fits(h, root, N) ==
  /\ N \subseteq h.nodes /\ root \in N
  /\ \A x \in N, k \in Key : To(h, x, k) \in N \cup {Null}
  /\ Misfits(h, N, {root}) = {}

\* Lemma: removeMisfits takes away what does not belong to such a set.
LEMMA MisfitsRemoved ==
  ASSUME NEW h, Sound(h), NEW root \in h.nodes
  PROVE  \E N : Fits(h, root, N)
                /\ RemoveMisfits(h, {root}) = DetachStates(h, h.nodes \ N)
<1> DEFINE U == h.nodes
           Fit[N \in SUBSET h.nodes] ==
             LET misfits == Misfits(h, N, {root})
             IN  IF misfits = {} THEN N ELSE Fit[N \ misfits]
           next == [N \in SUBSET U |-> N \ Misfits(h, N, {root})]
           I == {N \in SUBSET U : root \in N /\
                   \A x \in N, k \in Key : To(h, x, k) \in N \cup {Null}}
<1>1. IsFiniteSet(U) /\ U \in SUBSET Node
  <2>1. U \in SUBSET Node
    BY DEF Sound, Graph
  <2> QED BY <2>1, NodesFinite
<1>2. ASSUME NEW N \in SUBSET U
      PROVE  /\ next[N] \in SUBSET U /\ next[N] \subseteq N
             /\ next[N] = N \ Misfits(h, N, {root})
             /\ next[N] = N <=> Misfits(h, N, {root}) = {}
  BY DEF Misfits
<1>3. next \in [SUBSET U -> SUBSET U] /\ OneWay(next, U)
  <2>1. next \in [SUBSET U -> SUBSET U]
    BY <1>2
  <2> HIDE DEF next
  <2> QED BY <1>2, <2>1 DEF OneWay
<1>4. Walks(Fit, next, U)
  <2> DEFINE body(f, N) == IF Misfits(h, N, {root}) = {} THEN N
                           ELSE f[N \ Misfits(h, N, {root})]
  <2>1. PICK f : f = [N \in SUBSET U |-> IF next[N] = N THEN N ELSE f[next[N]]]
    <3> HIDE DEF next, U
    <3> QED BY <1>1, <1>3, WalkExists, ZenonT(60) DEF Walks
  <2>2. f = [N \in SUBSET U |-> body(f, N)]
    <3>1. \A N \in SUBSET U :
            (IF next[N] = N THEN N ELSE f[next[N]]) = body(f, N)
      <4> HIDE DEF next
      <4> QED BY <1>2
    <3> HIDE DEF next, body
    <3> QED BY <2>1, <3>1
  <2>3. Fit = [N \in SUBSET U |-> body(Fit, N)]
    <3>1. Fit = CHOOSE e : e = [N \in SUBSET U |-> body(e, N)]
      OBVIOUS
    <3> HIDE DEF Fit, body
    <3> QED BY <2>2, <3>1
  <2>4. \A N \in SUBSET U :
          (IF next[N] = N THEN N ELSE Fit[next[N]]) = body(Fit, N)
    <3> HIDE DEF next, Fit
    <3> QED BY <1>2
  <2> HIDE DEF next, Fit, body
  <2> QED BY <2>3, <2>4 DEF Walks
<1> DEFINE N == Fit[U]
<1>5. I \in SUBSET SUBSET U /\ U \in I
  <2>1. \A x \in U, k \in Key : To(h, x, k) \in U \cup {Null}
    BY <1>1 DEF Sound, Into, To
  <2> QED BY <2>1
<1>6. ASSUME NEW M \in I PROVE next[M] \in I
  <2>1. M \in SUBSET U /\ root \in M
    OBVIOUS
  <2>2. root \in next[M] /\ next[M] \in SUBSET U
    BY <1>2, <2>1 DEF Misfits
  <2>3. ASSUME NEW x \in next[M], NEW k \in Key PROVE To(h, x, k) \in next[M] \cup {Null}
    <3>1. x \in M /\ x \notin Misfits(h, M, {root}) /\ next[M] = M \ Misfits(h, M, {root})
      BY <1>2, <2>1
    <3>2. To(h, x, k) \in M \cup {Null}
      BY <3>1
    <3>3. To(h, x, k) \in Misfits(h, M, {root}) => x = To(h, x, k)
      BY <3>1 DEF Misfits
    <3> QED BY <3>1, <3>2, <3>3
  <2> HIDE DEF next
  <2> QED BY <2>2, <2>3
<1>7. N \in SUBSET U /\ next[N] = N /\ N \in I
  <2> HIDE DEF next, Fit, I, U
  <2>0. Stays(I, next, U)
    BY <1>5, <1>6 DEF Stays
  <2>1. Fit[U] \in I /\ next[Fit[U]] = Fit[U]
    BY <1>1, <1>3, <1>4, <1>5, <2>0, WalkFacts
  <2> QED BY <1>5, <2>1
<1>8. RemoveMisfits(h, {root}) = DetachStates(h, h.nodes \ N)
  BY DEF RemoveMisfits
<1>9. Fits(h, root, N)
  <2> HIDE DEF next, N
  <2>1. Misfits(h, N, {root}) = {}
    BY <1>2, <1>7
  <2> QED BY <1>7, <2>1 DEF Fits
<1> HIDE DEF N
<1> QED BY <1>8, <1>9

\* Whatever has a transition into A is in A.
Backward(h, A) == \A x \in h.nodes : (\E k \in Key : To(h, x, k) \in A) => x \in A

\* M is the smallest set with the final states that is so.
Leads(h, M) ==
  /\ M \subseteq h.nodes /\ h.fin \subseteq M /\ Backward(h, M)
  /\ \A A : h.fin \subseteq A /\ Backward(h, A) => M \subseteq A

\* Lemma: removeDeadEndStates takes away what does not belong to it.
LEMMA DeadEndsRemoved ==
  ASSUME NEW h, Sound(h), NEW s
  PROVE  \E M : Leads(h, M)
                /\ RemoveDeadEnds(h, s) = DetachStates(h, h.nodes \ (M \cup {s}))
<1> DEFINE U == h.nodes
           Marked[M \in SUBSET h.nodes] ==
             LET more == M \cup {x \in h.nodes : \E k \in Key : To(h, x, k) \in M}
             IN  IF more = M THEN M ELSE Marked[more]
           more(M) == M \cup {x \in h.nodes : \E k \in Key : To(h, x, k) \in M}
           next == [M \in SUBSET U |-> more(M)]
           M == Marked[h.fin]
<1>1. IsFiniteSet(U) /\ U \in SUBSET Node /\ h.fin \in SUBSET U
  <2>1. U \in SUBSET Node /\ h.fin \in SUBSET U
    BY DEF Sound, Graph
  <2> QED BY <2>1, NodesFinite
<1>2. \A N \in SUBSET U : next[N] = more(N) /\ next[N] \in SUBSET U /\ N \subseteq next[N]
  OBVIOUS
<1>3. next \in [SUBSET U -> SUBSET U] /\ OneWay(next, U)
  <2>1. next \in [SUBSET U -> SUBSET U]
    OBVIOUS
  <2> HIDE DEF next
  <2> QED BY <1>2, <2>1 DEF OneWay
<1>4. Walks(Marked, next, U)
  <2> DEFINE body(f, N) == IF more(N) = N THEN N ELSE f[more(N)]
  <2>1. \A f, N : N \in SUBSET U => (IF next[N] = N THEN N ELSE f[next[N]]) = body(f, N)
    <3> HIDE DEF next, more, U
    <3> QED BY <1>2
  <2>2. PICK f : Walks(f, next, U)
    <3> HIDE DEF next, U
    <3> QED BY <1>1, <1>3, WalkExists
  <2>3. f = [N \in SUBSET U |-> body(f, N)]
    <3> HIDE DEF next, body, U
    <3> QED BY <2>1, <2>2 DEF Walks
  <2>4. Marked = [N \in SUBSET U |-> body(Marked, N)]
    <3>1. Marked = CHOOSE e : e = [N \in SUBSET U |-> body(e, N)]
      OBVIOUS
    <3> HIDE DEF Marked, body
    <3> QED BY <2>3, <3>1
  <2> HIDE DEF next, Marked, body
  <2> QED BY <2>1, <2>4 DEF Walks
<1>5. ASSUME NEW I, I \in SUBSET SUBSET U, \A N \in I : more(N) \in I, h.fin \in I
      PROVE  M \in I /\ more(M) = M
  <2>1. M \in I /\ next[M] = M
    <3> HIDE DEF next, Marked, U, more
    <3>1. Stays(I, next, U)
      BY <1>2, <1>5 DEF Stays
    <3> QED BY <1>1, <1>3, <1>4, <1>5, <3>1, WalkFacts
  <2> HIDE DEF next, M, more
  <2> QED BY <1>2, <1>5, <2>1
<1> HIDE DEF next, M, U
<1>6. M \in SUBSET U /\ h.fin \subseteq M /\ more(M) = M
  <2> DEFINE I == {N \in SUBSET U : h.fin \subseteq N}
  <2>1. \A N \in I : more(N) \in I
    BY DEF U
  <2>2. h.fin \in I /\ I \in SUBSET SUBSET U
    BY <1>1
  <2> HIDE DEF more
  <2> QED BY <1>5, <2>1, <2>2
<1>7. ASSUME NEW A, h.fin \subseteq A, Backward(h, A) PROVE M \subseteq A
  <2> DEFINE I == {N \in SUBSET U : N \subseteq A}
  <2>1. \A N \in I : more(N) \in I
    BY <1>7 DEF U, Backward
  <2>2. h.fin \in I /\ I \in SUBSET SUBSET U
    BY <1>1, <1>7
  <2> HIDE DEF more
  <2> QED BY <1>5, <2>1, <2>2
<1>8. Backward(h, M)
  BY <1>6 DEF Backward
<1>9. RemoveDeadEnds(h, s) = DetachStates(h, h.nodes \ (M \cup {s}))
  BY DEF RemoveDeadEnds, M
<1>10. Leads(h, M)
  BY <1>6, <1>7, <1>8 DEF Leads, U
<1> QED BY <1>9, <1>10

\* A set of sets of threads is closed if whatever steps into it is in it.
StepsBack(A) ==
  \A T \in Node : (\E k \in Key : Step(T, k) # NoTrans /\ Step(T, k).to \in A) => T \in A

\* A is the smallest such set with the accepting sets of threads.
Survivors(A) ==
  /\ A \subseteq Node /\ StepsBack(A)
  /\ \A T \in Node : Accepts(T) => T \in A
  /\ \A B : (\A T \in Node : Accepts(T) => T \in B) /\ StepsBack(B) => A \subseteq B

\* Lemma: that is what Alive is.
LEMMA AliveFacts == Survivors(Alive)
<1> DEFINE U == Node
           sets == {T : T \in Node}
           Before(A) == {T \in sets : \E k \in Key :
                           Step(T, k) # NoTrans /\ Step(T, k).to \in A}
           Lead[A \in SUBSET Node] ==
             LET more == A \cup Before(A) IN IF more = A THEN A ELSE Lead[more]
           more(A) == A \cup Before(A)
           next == [A \in SUBSET U |-> more(A)]
           fin == {T \in sets : Accepts(T)}
           M == Lead[fin]
<1>1. IsFiniteSet(U) /\ fin \in SUBSET U
  <2>1. fin \in SUBSET U
    OBVIOUS
  <2> QED BY <2>1, NodesFinite
<1>2. \A N \in SUBSET U : next[N] = more(N) /\ next[N] \in SUBSET U /\ N \subseteq next[N]
  OBVIOUS
<1>3. next \in [SUBSET U -> SUBSET U] /\ OneWay(next, U)
  <2>1. next \in [SUBSET U -> SUBSET U]
    OBVIOUS
  <2> HIDE DEF next
  <2> QED BY <1>2, <2>1 DEF OneWay
<1>4. Walks(Lead, next, U)
  <2> DEFINE body(f, N) == IF more(N) = N THEN N ELSE f[more(N)]
  <2>1. \A f, N : N \in SUBSET U => (IF next[N] = N THEN N ELSE f[next[N]]) = body(f, N)
    <3> HIDE DEF next, more, U
    <3> QED BY <1>2
  <2>2. PICK f : Walks(f, next, U)
    <3> HIDE DEF next, U
    <3> QED BY <1>1, <1>3, WalkExists
  <2>3. f = [N \in SUBSET U |-> body(f, N)]
    <3> HIDE DEF next, body, U
    <3> QED BY <2>1, <2>2 DEF Walks
  <2>4. Lead = [N \in SUBSET U |-> body(Lead, N)]
    <3>1. Lead = CHOOSE e : e = [N \in SUBSET U |-> body(e, N)]
      OBVIOUS
    <3> HIDE DEF Lead, body
    <3> QED BY <2>3, <3>1
  <2> HIDE DEF next, Lead, body
  <2> QED BY <2>1, <2>4 DEF Walks
<1>5. ASSUME NEW I, I \in SUBSET SUBSET U, \A N \in I : more(N) \in I, fin \in I
      PROVE  M \in I /\ more(M) = M
  <2>1. M \in I /\ next[M] = M
    <3> HIDE DEF next, Lead, U, more, fin
    <3>1. Stays(I, next, U)
      BY <1>2, <1>5 DEF Stays
    <3>2. IsFiniteSet(U)
      BY <1>1
    <3>3. fin \in I
      BY <1>5
    <3> QED BY <1>3, <1>4, <3>1, <3>2, <3>3, WalkFacts, SMTT(30)
  <2> HIDE DEF next, M, more
  <2> QED BY <1>2, <1>5, <2>1
<1>6. Alive = M
  BY DEF Alive
<1> HIDE DEF next, M, Lead
<1>7. M \in SUBSET U /\ fin \subseteq M /\ more(M) = M
  <2> DEFINE I == {N \in SUBSET U : fin \subseteq N}
  <2>1. \A N \in I : more(N) \in I
    OBVIOUS
  <2>2. fin \in I /\ I \in SUBSET SUBSET U
    BY <1>1
  <2> HIDE DEF more, fin
  <2> QED BY <1>5, <2>1, <2>2
<1>8. ASSUME NEW A, \A T \in Node : Accepts(T) => T \in A, StepsBack(A)
      PROVE  M \subseteq A
  <2> DEFINE I == {N \in SUBSET U : N \subseteq A}
  <2>1. \A N \in I : more(N) \in I
    BY <1>8 DEF StepsBack
  <2>2. fin \in I /\ I \in SUBSET SUBSET U
    BY <1>8
  <2> HIDE DEF more, fin
  <2> QED BY <1>5, <2>1, <2>2
<1>9. StepsBack(M)
  BY <1>7 DEF StepsBack
<1> QED BY <1>6, <1>7, <1>8, <1>9 DEF Survivors

\* Lemma: what the promise refers to is the same throughout a run.
LEMMA SamePromise ==
  ASSUME op' = op, input' = input
  PROVE  /\ \A T, k : Step(T, k)' = Step(T, k)
         /\ \A T : Accepts(T)' = Accepts(T)
         /\ \A A : Survivors(A)' = Survivors(A)
<1>1. \A T, k : Step(T, k)' = Step(T, k)
  <2>1. \A T, k : Step(T, k) = Best(Taken(T, k))
    BY DEF Step, Taken
  <2>2. \A T, k : Step(T, k)' = Best(Taken(T, k)')
    BY DEF Step, Taken
  <2> QED BY <2>1, <2>2, SameRun
<1>2. \A T : Accepts(T)' = Accepts(T)
  BY DEF Accepts, FinalIn
<1>3. \A A : StepsBack(A)' = StepsBack(A)
  BY <1>1 DEF StepsBack
<1> QED BY <1>1, <1>2, <1>3 DEF Survivors

\* Lemma: once all is filled in, every state does what its threads do.
LEMMA FillingComplete ==
  ASSUME TypeOK, ClearInput, Filling, g.fill = {}, srcs = {}, NEW x \in g.nodes
  PROVE  /\ \A k \in Key : /\ g.out[x][k] = Step(x, k)
                           /\ To(g, x, k) \subseteq PlainA \cup PlainB
                           /\ op = "star" /\ x # {StartB} => To(g, x, k) \subseteq PlainA
         /\ x \in g.fin <=> \E p \in Parts(x) : FinalPart(p)
         /\ g.bits[x] = UNION {BitsOf(p) : p \in Parts(x)}
<1>1. x \in Node
  BY DEF TypeOK, Graph
<1>2. PICK P : P = Parts(x)
  OBVIOUS
<1>3. Merged(x) = P
  BY <1>2 DEF Merged
<1>4. Made(g, x, P)
  BY <1>1, <1>3 DEF Filling
<1>5. P \in SUBSET Plain
  <2>1. StartA \in Plain /\ StartB \in Plain
    BY PlainAssumption
  <2> QED BY <1>1, <1>2, <2>1 DEF Parts, Node
<1>6. op = "star" /\ x # {StartB} => P \subseteq PlainA \cup {New}
  BY <1>2 DEF Filling, Named, Threads, Parts
<1>7. ASSUME NEW k \in Key
      PROVE  /\ g.out[x][k] = Step(x, k)
             /\ To(g, x, k) \subseteq PlainA \cup PlainB
             /\ op = "star" /\ x # {StartB} => To(g, x, k) \subseteq PlainA
  <2>1. PICK X : X = Taken(P, k)
    OBVIOUS
  <2>2. PICK t : t = g.out[x][k]
    OBVIOUS
  <2>3. StandsFor(t, X) /\ X \in SUBSET Record
    BY <1>4, <1>5, <2>1, <2>2, TakenFacts DEF Made
  <2>4. t = Best(X)
    BY <2>3, StandsForBest
  <2>5. Step(x, k) = Best(X)
    <3>1. CASE x = {New} /\ op # "star"
      <4>1. P = {StartA, StartB}
        BY <1>2, <3>1 DEF Parts
      <4>2. StartA \in PlainA \cup PlainB /\ StartB \in PlainA \cup PlainB
            /\ StartB \notin PlainA
        BY PlainAssumption
      <4>3. CASE op # "concat"
        <5>1. Alternatives(New, k) = Own(StartA, k) \cup Own(StartB, k)
          BY <3>1, AlternativesOf
        <5>2. Alternatives(StartA, k) = Own(StartA, k)
              /\ Alternatives(StartB, k) = Own(StartB, k)
          BY <3>1, <4>2, <4>3, AlternativesOf
        <5>3. X = UNION {Alternatives(o, k) : o \in x}
          BY <2>1, <3>1, <4>1, <5>1, <5>2 DEF Taken
        <5> QED BY <5>3 DEF Step
      <4>4. CASE op = "concat"
        BY <3>1, <4>4 DEF Filling
      <4> QED BY <4>3, <4>4
    <3>2. CASE ~ (x = {New} /\ op # "star")
      <4>1. P = x
        BY <1>2, <3>2 DEF Parts
      <4> QED BY <2>1, <4>1 DEF Step, Taken
    <3> QED BY <3>1, <3>2
  <2>6. \A u \in X : u.to \subseteq PlainA \cup PlainB
    BY <1>5, <2>1, TakenFacts
  <2>7. op = "star" /\ x # {StartB} => \A u \in X : u.to \subseteq PlainA
    BY <1>5, <1>6, <2>1, TakenFacts
  <2>8. To(g, x, k) = IF t = NoTrans THEN {} ELSE t.to
    BY <2>2 DEF To, Null
  <2>9. t # NoTrans => t.to \subseteq PlainA \cup PlainB
    BY <2>3, <2>6, StandsForTo
  <2>10. op = "star" /\ x # {StartB} /\ t # NoTrans => t.to \subseteq PlainA
    BY <2>3, <2>7, StandsForTo
  <2> QED BY <2>2, <2>4, <2>5, <2>8, <2>9, <2>10
<1> QED BY <1>2, <1>4, <1>7 DEF Made

\* Lemma: a state accepts exactly if its threads make it final and no bit takes
\* that away again (unsetKilledFinals, unsetIncompleteFinals).
LEMMA AcceptsFacts ==
  ASSUME TypeOK, NEW x \in Node, Named(x), op = "star" => x # {StartB}
  PROVE  Accepts(x) <=>
           LET bits == UNION {BitsOf(p) : p \in Parts(x)}
           IN  /\ \E p \in Parts(x) : FinalPart(p)
               /\ ~ (op = "subtract" /\ 1 \in bits)
               /\ ~ (op = "intersect" /\ bits \in {{1}, {2}})
<1> DEFINE bits == UNION {BitsOf(p) : p \in Parts(x)}
<1>1. /\ StartA \in PlainA /\ StartB \in PlainB /\ PlainA \cap PlainB = {}
      /\ New \notin PlainA \cup PlainB
  BY PlainAssumption
<1>2. PICK P : P = Parts(x)
  OBVIOUS
<1>3. P = IF New \in x /\ op # "star" THEN {StartA, StartB} ELSE x
  BY <1>1, <1>2 DEF Parts, Named, Threads
<1>4. /\ op # "star" => P \subseteq PlainA \cup PlainB
      /\ op = "star" => P = x /\ P \subseteq PlainA \cup {New}
  BY <1>1, <1>2 DEF Parts, Named, Threads
<1>5. Accepts(x) <=>
        CASE op = "union"     -> FinalIn(PlainA, P) \/ FinalIn(PlainB, P)
          [] op = "intersect" -> FinalIn(PlainA, P) /\ FinalIn(PlainB, P)
          [] op = "subtract"  -> FinalIn(PlainA, P) /\ ~ FinalIn(PlainB, P)
          [] op = "concat"    -> FinalIn(PlainB, P) \/
                                   (FinalIn(PlainA, P) /\ {StartB} \in input.fin)
          [] op = "star"      -> FinalIn(PlainA, P) \/ New \in P
  BY <1>3 DEF Accepts
<1>6. op \in {"union", "intersect", "subtract", "concat", "star"}
  BY OpsAssumption DEF TypeOK
<1>7. CASE op = "union"
  <2>1. Accepts(x) <=> \E p \in P : {p} \in input.fin
    BY <1>4, <1>5, <1>7 DEF FinalIn
  <2> QED BY <1>2, <1>7, <2>1 DEF FinalPart
<1>8. CASE op = "concat"
  <2>1. Accepts(x) <=> FinalIn(PlainB, P) \/ (FinalIn(PlainA, P) /\ {StartB} \in input.fin)
    BY <1>5, <1>8
  <2>2. Accepts(x) <=>
          \E p \in P : {p} \in input.fin /\ (p \in PlainA => {StartB} \in input.fin)
    BY <1>1, <1>4, <1>8, <2>1 DEF FinalIn
  <2> QED BY <1>2, <1>8, <2>2 DEF FinalPart
<1>9. CASE op = "star"
  <2>1. {New} \notin input.fin
    BY <1>1, InputFacts, SingleIn
  <2>2. Accepts(x) <=> \E p \in P : p = New \/ {p} \in input.fin
    BY <1>4, <1>5, <1>9 DEF FinalIn
  <2> QED BY <1>2, <1>9, <2>2 DEF FinalPart
<1>10. CASE op = "intersect"
  <2>1. \A p : 1 \in BitsOf(p) <=> {p} \in input.fin /\ p \in PlainA
    BY <1>10 DEF BitsOf
  <2>2. \A p : 2 \in BitsOf(p) <=> {p} \in input.fin /\ p \in PlainB
    BY <1>10 DEF BitsOf
  <2>3. \A p : BitsOf(p) \subseteq {1, 2}
    BY <1>10 DEF BitsOf
  <2>4. /\ 1 \in bits <=> FinalIn(PlainA, P)
        /\ 2 \in bits <=> FinalIn(PlainB, P)
        /\ bits \subseteq {1, 2}
    BY <1>2, <2>1, <2>2, <2>3, ZenonT(60) DEF FinalIn
  <2>5. (\E p \in P : FinalPart(p)) <=> FinalIn(PlainA, P) \/ FinalIn(PlainB, P)
    BY <1>4, <1>10 DEF FinalIn, FinalPart
  <2>6. Accepts(x) <=> FinalIn(PlainA, P) /\ FinalIn(PlainB, P)
    BY <1>5, <1>10
  <2> HIDE DEF bits
  <2> QED BY <1>2, <1>10, <2>4, <2>5, <2>6 DEF bits
<1>11. CASE op = "subtract"
  <2>1. \A p : 1 \in BitsOf(p) <=> {p} \in input.fin /\ p \in PlainB
    BY <1>11 DEF BitsOf
  <2>2. 1 \in bits <=> FinalIn(PlainB, P)
    BY <1>2, <2>1 DEF FinalIn
  <2>3. (\E p \in P : FinalPart(p)) <=> FinalIn(PlainA, P) \/ FinalIn(PlainB, P)
    BY <1>4, <1>11 DEF FinalIn, FinalPart
  <2>4. Accepts(x) <=> FinalIn(PlainA, P) /\ ~ FinalIn(PlainB, P)
    BY <1>5, <1>11
  <2> HIDE DEF bits
  <2> QED BY <1>2, <1>11, <2>2, <2>3, <2>4 DEF bits
<1> QED BY <1>6, <1>7, <1>8, <1>9, <1>10, <1>11

\* All there is does what its threads do, but for dead ends.
Filled ==
  /\ start \in g.nodes /\ (op # "concat" => start = {New})
  /\ \A x \in g.nodes :
       /\ x \in g.fin <=> Accepts(x)
       /\ \A k \in Key : g.out[x][k] = Step(x, k) /\ To(g, x, k) # {New}

\* The final states are put right, and misfits are taken away.
LEMMA CleanFilled ==
  ASSUME OInv, ClearInput, Filling, g.fill = {}, Clean
  PROVE  Filled'
<1>1. /\ op' = op /\ input' = input /\ start' = start /\ srcs = {}
      /\ Sound(g) /\ TypeOK /\ start \in g.nodes
      /\ op # "concat" => start = {New}
      /\ g.nodes \subseteq Node
  BY DEF OInv, Clean, Filling, Sound, Graph
<1>2. PICK h : /\ h = IF op \in {"intersect", "subtract"}
                      THEN UnsetFinals(g, LoseFinal) ELSE g
               /\ g' = RemoveMisfits(h, {start})
  BY DEF Clean
<1>3. /\ h.nodes = g.nodes /\ h.out = g.out /\ h.fin = g.fin \ LoseFinal /\ Sound(h)
  <2>1. CASE op \in {"intersect", "subtract"}
    <3>1. /\ h \in Graph /\ h.nodes = g.nodes /\ h.out = g.out /\ h.fill = g.fill
          /\ h.fin = g.fin \ LoseFinal
      BY <1>1, <1>2, <2>1 DEF UnsetFinals, Sound, Graph
    <3> QED BY <1>1, <3>1 DEF Sound
  <2>2. CASE op \notin {"intersect", "subtract"}
    BY <1>1, <1>2, <2>2 DEF LoseFinal
  <2> QED BY <2>1, <2>2
<1>4. PICK N : Fits(h, start, N) /\ g' = DetachStates(h, h.nodes \ N)
  BY <1>1, <1>2, <1>3, MisfitsRemoved
<1>5. /\ N \subseteq g.nodes /\ start \in N
      /\ \A x \in N, k \in Key : To(h, x, k) \in N \cup {Null}
      /\ Misfits(h, N, {start}) = {}
  BY <1>3, <1>4 DEF Fits
<1>6. ASSUME NEW x \in g.nodes, NEW k \in Key
      PROVE  /\ g.out[x][k] = Step(x, k)
             /\ To(h, x, k) \subseteq PlainA \cup PlainB
             /\ op = "star" /\ x # {StartB} => To(h, x, k) \subseteq PlainA
  BY <1>1, <1>3, FillingComplete DEF To
<1>7. op = "star" => {StartB} \notin N
  <2> SUFFICES ASSUME op = "star", {StartB} \in N PROVE FALSE
    OBVIOUS
  <2>1. StartB \notin PlainA /\ {StartB} # start
    BY <1>1, PlainAssumption
  <2>2. {StartB} \notin Misfits(h, N, {start})
    BY <1>5
  <2>3. PICK y \in N \ {{StartB}}, k \in Key : To(h, y, k) = {StartB}
    BY <2>1, <2>2 DEF Misfits
  <2>4. To(h, y, k) \subseteq PlainA
    BY <1>5, <1>6, <2>3
  <2> QED BY <2>1, <2>3, <2>4
<1>8. ASSUME NEW x \in N
      PROVE  x \in h.fin <=> Accepts(x)
  <2>1. x \in g.nodes /\ x \in Node /\ Named(x)
    BY <1>1, <1>5 DEF Filling
  <2> DEFINE bits == UNION {BitsOf(p) : p \in Parts(x)}
             part == \E p \in Parts(x) : FinalPart(p)
  <2>2. (x \in g.fin <=> part) /\ g.bits[x] = bits
    BY <1>1, <2>1, FillingComplete
  <2>3. Accepts(x) <=> /\ part
                       /\ ~ (op = "subtract" /\ 1 \in bits)
                       /\ ~ (op = "intersect" /\ bits \in {{1}, {2}})
    BY <1>1, <1>7, <2>1, AcceptsFacts
  <2> HIDE DEF bits, part
  <2> QED BY <1>3, <2>2, <2>3 DEF LoseFinal
<1>9. /\ g'.nodes = N
      /\ \A x \in N : x \in g'.fin <=> x \in h.fin
  BY <1>3, <1>4, <1>5 DEF DetachStates
<1>10. ASSUME NEW x \in N, NEW k \in Key PROVE g'.out[x][k] = g.out[x][k]
  <2>1. x \notin h.nodes \ N /\ x \in Node /\ Null \notin h.nodes
    BY <1>1, <1>3, <1>5 DEF Node
  <2>2. To(h, x, k) \notin h.nodes \ N
    BY <1>5, <2>1
  <2>3. g'.out[x] = [j \in Key |-> IF To(h, x, j) \in h.nodes \ N THEN NoTrans
                                                                ELSE h.out[x][j]]
    BY <1>4, <2>1 DEF DetachStates
  <2> QED BY <1>3, <2>2, <2>3
<1>11. /\ \A T, k : Step(T, k)' = Step(T, k)
       /\ \A T : Accepts(T)' = Accepts(T)
  BY <1>1, SamePromise
<1>12. ASSUME NEW x \in N, NEW k \in Key PROVE To(g', x, k) # {New}
  <2>1. To(g', x, k) = To(h, x, k)
    BY <1>3, <1>10 DEF To
  <2>2. New \notin PlainA \cup PlainB
    BY PlainAssumption
  <2> QED BY <1>5, <1>6, <2>1, <2>2
<1>13. ASSUME NEW x \in N
       PROVE  /\ x \in g'.fin <=> Accepts(x)
              /\ \A k \in Key : g'.out[x][k] = Step(x, k) /\ To(g', x, k) # {New}
  BY <1>5, <1>6, <1>8, <1>9, <1>10, <1>12
<1> QED BY <1>1, <1>5, <1>9, <1>11, <1>13 DEF Filled, To

\* What leads to acceptance is left, and the start state.
Trimmed ==
  /\ start \in g.nodes
  /\ \A A : Survivors(A) =>
       \A x \in g.nodes :
         /\ x \in A \/ x = start
         /\ x \in g.fin <=> Accepts(x)
         /\ \A k \in Key :
              g.out[x][k] = IF Step(x, k) # NoTrans /\ Step(x, k).to \notin A \cup {Null}
                            THEN NoTrans ELSE Step(x, k)

\* Lemma: a state leads to a final one exactly if its threads lead to
\* acceptance.
LEMMA LeadsAlive ==
  ASSUME Sound(g), Filled, NEW M, Leads(g, M), NEW A, Survivors(A)
  PROVE  \A x \in g.nodes : x \in M <=> x \in A
<1>1. g.nodes \subseteq Node /\ g.fin \subseteq g.nodes /\ M \subseteq g.nodes
      /\ Null \notin Node /\ A \subseteq Node
  BY DEF Sound, Graph, Leads, Survivors, Node
<1>2. \A x \in g.nodes, k \in Key :
        /\ g.out[x][k] = Step(x, k)
        /\ Step(x, k) # NoTrans => Step(x, k).to \in g.nodes \cup {Null}
        /\ To(g, x, k) = IF Step(x, k) = NoTrans THEN Null ELSE Step(x, k).to
  BY <1>1 DEF Filled, Sound, Into, To
<1>3. M \subseteq A
  <2>1. g.fin \subseteq A
    BY <1>1 DEF Filled, Survivors
  <2>2. Backward(g, A)
    BY <1>1, <1>2 DEF Backward, Survivors, StepsBack
  <2> QED BY <2>1, <2>2 DEF Leads
<1>4. A \subseteq M \cup (Node \ g.nodes)
  <2> DEFINE B == M \cup (Node \ g.nodes)
  <2>1. \A T \in Node : Accepts(T) => T \in B
    BY DEF Filled, Leads
  <2>2. ASSUME NEW T \in Node, NEW k \in Key, Step(T, k) # NoTrans, Step(T, k).to \in B
        PROVE  T \in B
    <3>1. CASE T \in g.nodes
      <4>1. To(g, T, k) \in M
        BY <1>1, <1>2, <2>2, <3>1
      <4> QED BY <3>1, <4>1 DEF Leads, Backward
    <3> QED BY <3>1
  <2>3. StepsBack(B)
    BY <2>2 DEF StepsBack
  <2> HIDE DEF B
  <2>4. A \subseteq B
    BY <2>1, <2>3 DEF Survivors
  <2> QED BY <2>4 DEF B
<1> QED BY <1>1, <1>3, <1>4

\* Dead ends are cut off, and nothing else.
LEMMA CleanDeadEndsTrimmed ==
  ASSUME OInv, Filled, op # "concat", CleanDeadEnds
  PROVE  Trimmed'
<1>1. /\ op' = op /\ input' = input /\ start' = start /\ Sound(g)
      /\ start \in g.nodes /\ start = {New} /\ g' = RemoveDeadEnds(g, start)
  BY DEF OInv, CleanDeadEnds, Filled
<1>2. PICK M : Leads(g, M) /\ g' = DetachStates(g, g.nodes \ (M \cup {start}))
  BY <1>1, DeadEndsRemoved
<1>3. PICK gone : gone = g.nodes \ (M \cup {start})
  OBVIOUS
<1>4. /\ g'.nodes = g.nodes \ gone /\ g'.fin = g.fin \ gone
      /\ \A x \in Node \ gone : \A k \in Key :
           g'.out[x][k] = IF To(g, x, k) \in gone THEN NoTrans ELSE g.out[x][k]
  BY <1>2, <1>3 DEF DetachStates
<1>5. g.nodes \subseteq Node /\ Null \notin Node
  BY <1>1 DEF Sound, Graph, Node
<1>6. ASSUME NEW A, Survivors(A), NEW x \in g'.nodes
      PROVE  /\ x \in A \/ x = start
             /\ x \in g'.fin <=> Accepts(x)
             /\ \A k \in Key :
                  g'.out[x][k] = IF Step(x, k) # NoTrans /\ Step(x, k).to \notin A \cup {Null}
                                 THEN NoTrans ELSE Step(x, k)
  <2>1. \A y \in g.nodes : y \in M <=> y \in A
    BY <1>1, <1>2, <1>6, LeadsAlive
  <2>2. x \in g.nodes /\ x \notin gone /\ x \in Node /\ (x \in M \/ x = start)
    BY <1>3, <1>4, <1>5
  <2>3. x \in g'.fin <=> Accepts(x)
    BY <1>4, <2>2 DEF Filled
  <2>4. ASSUME NEW k \in Key
        PROVE  g'.out[x][k] = IF Step(x, k) # NoTrans /\ Step(x, k).to \notin A \cup {Null}
                              THEN NoTrans ELSE Step(x, k)
    <3>1. PICK r : r = Step(x, k)
      OBVIOUS
    <3>2. /\ g.out[x][k] = r /\ To(g, x, k) # start
          /\ r # NoTrans => r.to \in g.nodes \cup {Null}
          /\ To(g, x, k) = IF r = NoTrans THEN Null ELSE r.to
      BY <1>1, <2>2, <3>1 DEF Filled, Sound, Into, To
    <3>3. g'.out[x][k] = IF To(g, x, k) \in gone THEN NoTrans ELSE r
      BY <1>4, <2>2, <3>2
    <3>4. To(g, x, k) \in gone <=> r # NoTrans /\ r.to \notin A \cup {Null}
      BY <1>3, <1>5, <2>1, <3>2
    <3> QED BY <3>1, <3>3, <3>4
  <2> QED BY <2>1, <2>2, <2>3, <2>4
<1>7. /\ \A T, k : Step(T, k)' = Step(T, k)
      /\ \A T : Accepts(T)' = Accepts(T)
      /\ \A A : Survivors(A)' = Survivors(A)
  BY <1>1, SamePromise
<1>8. start' \in g'.nodes
  BY <1>1, <1>3, <1>4
<1> QED BY <1>1, <1>6, <1>7, <1>8 DEF Trimmed

----------------------------------------------------------------------------
(* The operator from call to return.                                       *)

Promise ==
  /\ pc = "begin" => Begun
  /\ pc = "finals" => ConcatFinals \/ StarFinals
  /\ pc \in {"fill", "clean"} => Filling
  /\ pc = "clean" => g.fill = {}
  /\ pc = "dead" => Cleaned /\ Filled
  /\ pc = "done" => IF Cleaned THEN Trimmed ELSE Filled

PromiseInv == MarksInv /\ ClearInput /\ Promise

\* Lemma: it holds when the operator is called on machines it is safe for.
LEMMA InitPromiseInv == ClearInput /\ Init => PromiseInv
<1> SUFFICES ASSUME ClearInput, Init PROVE PromiseInv
  OBVIOUS
<1>1. Promise
  BY DEF Init, Promise, Begun
<1> QED BY <1>1, InitMarksInv DEF PromiseInv

\* Lemma: nothing of it is lost while nothing changes.
LEMMA SamePromiseInv == ASSUME Promise, UNCHANGED vars PROVE Promise'
<1>1. /\ op' = op /\ input' = input /\ pc' = pc /\ g' = g /\ start' = start
      /\ todo' = todo /\ dest' = dest /\ srcs' = srcs
  BY DEF vars
<1>2. /\ \A P, k : Taken(P, k)' = Taken(P, k)
      /\ \A p : FinalPart(p)' = FinalPart(p)
      /\ \A x : Parts(x)' = Parts(x) /\ Named(x)' = Named(x)
      /\ \A h, x, P : Made(h, x, P)' = Made(h, x, P)
  BY <1>1, SameRun
<1>3. /\ \A T, k : Step(T, k)' = Step(T, k)
      /\ \A T : Accepts(T)' = Accepts(T)
      /\ \A A : Survivors(A)' = Survivors(A)
  BY <1>1, SamePromise
<1>4. Begun' = Begun
  BY <1>1 DEF Begun
<1>5. Around(g, input.nodes)' = Around(g, input.nodes)
      /\ Around(g, input.nodes \cup {{New}})' = Around(g, input.nodes \cup {{New}})
  BY <1>1, <1>2 DEF Around
<1>6. ConcatFinals => ConcatFinals'
  BY <1>1, <1>2, <1>5 DEF ConcatFinals
<1>7. StarFinals => StarFinals'
  <2>1. \A o, k : Own(o, k)' = Own(o, k)
    BY <1>1 DEF Own
  <2> QED BY <1>1, <1>2, <1>5, <2>1 DEF StarFinals
<1>8. Filling => Filling'
  <2>1. \A x : Merged(x)' = Merged(x)
    BY <1>1, <1>2 DEF Merged
  <2> QED BY <1>1, <1>2, <2>1 DEF Filling
<1>9. Filled => Filled'
  BY <1>1, <1>3 DEF Filled, To
<1>10. Trimmed => Trimmed'
  BY <1>1, <1>3 DEF Trimmed
<1>11. Cleaned' = Cleaned
  BY <1>1 DEF Cleaned
<1> QED BY <1>1, <1>4, <1>6, <1>7, <1>8, <1>9, <1>10, <1>11 DEF Promise

\* Every step of an operator preserves it.
LEMMA NextPromiseInv == PromiseInv /\ [Next]_vars => PromiseInv'
<1> SUFFICES ASSUME PromiseInv, [Next]_vars PROVE PromiseInv'
  OBVIOUS
<1>1. MarksInv /\ MarksInv' /\ ClearInput /\ Promise /\ OInv /\ TypeOK
  BY NextMarksInv DEF PromiseInv, MarksInv, OInv
<1>2. op' = op /\ input' = input
  BY DEF Next, Terminated, vars, OrBegin, ConcatBegin, StarBegin, ConcatFinal, StarFinal,
         FinalsDone, StarSkip, StarSelf, MergeNext, FillNext, FillDone, Clean, CleanDeadEnds
<1>3. ClearInput'
  BY <1>1, <1>2 DEF ClearInput
<1>4. CASE OrBegin
  <2>1. pc' = "fill" /\ Filling'
    BY <1>1, <1>4, OrBeginFilling DEF OrBegin, Promise
  <2> QED BY <1>1, <1>3, <2>1 DEF PromiseInv, Promise
<1>5. CASE ConcatBegin
  <2>1. pc' = "finals" /\ ConcatFinals'
    BY <1>1, <1>5, ConcatBeginFinals DEF ConcatBegin, Promise
  <2> QED BY <1>1, <1>3, <2>1 DEF PromiseInv, Promise
<1>6. CASE StarBegin
  <2>1. pc' = "finals" /\ StarFinals'
    BY <1>1, <1>6, StarBeginFinals DEF StarBegin, Promise
  <2> QED BY <1>1, <1>3, <2>1 DEF PromiseInv, Promise
<1>7. ASSUME NEW f \in todo, ConcatFinal(f) PROVE PromiseInv'
  <2>1. ConcatFinals /\ pc' = "finals"
    BY <1>1, <1>7 DEF ConcatFinal, Promise, StarFinals
  <2>2. ConcatFinals'
    BY <1>1, <1>7, <2>1, ConcatFinalFinals
  <2> QED BY <1>1, <1>3, <2>1, <2>2 DEF PromiseInv, Promise
<1>8. ASSUME NEW f \in todo, StarFinal(f) PROVE PromiseInv'
  <2>1. StarFinals /\ pc' \in {"finals", "fault"}
    BY <1>1, <1>8 DEF StarFinal, Promise, ConcatFinals
  <2>2. pc' = "finals" => StarFinals'
    BY <1>1, <1>8, <2>1, StarFinalFinals
  <2> QED BY <1>1, <1>3, <2>1, <2>2 DEF PromiseInv, Promise
<1>9. CASE FinalsDone
  <2>1. ConcatFinals /\ pc' = "fill"
    BY <1>1, <1>9 DEF FinalsDone, Promise, StarFinals
  <2>2. Filling'
    BY <1>1, <1>9, <2>1, FinalsDoneFilling
  <2> QED BY <1>1, <1>3, <2>1, <2>2 DEF PromiseInv, Promise
<1>10. CASE StarSkip
  <2>1. StarFinals /\ pc' = "finals"
    BY <1>1, <1>10 DEF StarSkip, Promise, ConcatFinals
  <2>2. StarFinals'
    BY <1>10, <2>1, StarSkipFinals
  <2> QED BY <1>1, <1>3, <2>1, <2>2 DEF PromiseInv, Promise
<1>11. CASE StarSelf
  <2>1. StarFinals /\ pc' = "fill"
    BY <1>1, <1>11 DEF StarSelf, Promise, ConcatFinals
  <2>2. Filling'
    BY <1>1, <1>11, <2>1, StarSelfFilling
  <2> QED BY <1>1, <1>3, <2>1, <2>2 DEF PromiseInv, Promise
<1>12. ASSUME NEW s \in srcs, MergeNext(s) PROVE PromiseInv'
  <2>1. Filling /\ pc' = "fill"
    BY <1>1, <1>12 DEF MergeNext, Promise
  <2>2. Filling'
    BY <1>1, <1>12, <2>1, MergeNextFilling
  <2> QED BY <1>1, <1>3, <2>1, <2>2 DEF PromiseInv, Promise
<1>13. ASSUME NEW x \in g.fill, FillNext(x) PROVE PromiseInv'
  <2>1. Filling /\ pc' = "fill"
    BY <1>1, <1>13 DEF FillNext, Promise
  <2>2. Filling'
    BY <1>1, <1>13, <2>1, FillNextFilling
  <2> QED BY <1>1, <1>3, <2>1, <2>2 DEF PromiseInv, Promise
<1>14. CASE FillDone
  <2>1. Filling /\ pc' = "clean"
    BY <1>1, <1>14 DEF FillDone, Promise
  <2>2. Filling' /\ g'.fill = {}
    BY <1>14, <2>1, FillDoneFilling
  <2> QED BY <1>1, <1>3, <2>1, <2>2 DEF PromiseInv, Promise
<1>15. CASE Clean
  <2>1. Filling /\ g.fill = {} /\ pc' = IF Cleaned THEN "dead" ELSE "done"
    BY <1>1, <1>15 DEF Clean, Promise, Cleaned
  <2>2. Filled'
    BY <1>1, <1>15, <2>1, CleanFilled
  <2>3. Cleaned' = Cleaned
    BY <1>2 DEF Cleaned
  <2> QED BY <1>1, <1>3, <2>1, <2>2, <2>3 DEF PromiseInv, Promise
<1>16. CASE CleanDeadEnds
  <2>1. Filled /\ Cleaned /\ pc' = "done"
    BY <1>1, <1>16 DEF CleanDeadEnds, Promise
  <2>2. Trimmed'
    BY <1>1, <1>16, <2>1, CleanDeadEndsTrimmed DEF Cleaned
  <2>3. Cleaned' = Cleaned
    BY <1>2 DEF Cleaned
  <2> QED BY <1>1, <1>3, <2>1, <2>2, <2>3 DEF PromiseInv, Promise
<1>17. CASE UNCHANGED vars
  BY <1>1, <1>3, <1>17, SamePromiseInv DEF PromiseInv
<1> QED BY <1>4, <1>5, <1>6, <1>7, <1>8, <1>9, <1>10, <1>11, <1>12, <1>13, <1>14, <1>15,
           <1>16, <1>17 DEF Next, Terminated

\* Union, intersection, difference, concatenation and star of machines without
\* a mix of transitions with and without priority (and, for star, with leaving
\* actions that do not upset its walk over the final states) do what the
\* machines do side by side, whatever their states, keys and actions.
THEOREM OpsSubsetConstruction == ClearInput /\ Spec => []SubsetConstruction
<1>1. PromiseInv => SubsetConstruction
  <2> SUFFICES ASSUME PromiseInv, pc = "done" PROVE SubsetConstruction
    BY DEF SubsetConstruction
  <2>1. IF Cleaned THEN Trimmed ELSE Filled
    BY DEF PromiseInv, Promise
  <2>2. PICK alive : alive = Alive
    OBVIOUS
  <2>3. Survivors(alive)
    BY <2>2, AliveFacts
  <2>4. ASSUME NEW x \in g.nodes
        PROVE  /\ x \in g.fin <=> Accepts(x)
               /\ \A k \in Key :
                    IF Cleaned /\ Step(x, k) # NoTrans
                               /\ Step(x, k).to \notin alive \cup {Null}
                    THEN g.out[x][k] = NoTrans
                    ELSE g.out[x][k] = Step(x, k)
    BY <2>1, <2>3 DEF Trimmed, Filled
  <2>5. start \in g.nodes
    BY <2>1 DEF Trimmed, Filled
  <2> QED BY <2>2, <2>4, <2>5 DEF SubsetConstruction
<1> QED BY <1>1, InitPromiseInv, NextPromiseInv, PTL DEF Spec

\* All that is left of an intersection or a difference leads to acceptance.
THEOREM OpsNoDeadEnds == ClearInput /\ Spec => []NoDeadEnds
<1>1. PromiseInv => NoDeadEnds
  BY AliveFacts DEF PromiseInv, Promise, Trimmed, NoDeadEnds
<1> QED BY <1>1, InitPromiseInv, NextPromiseInv, PTL DEF Spec
=============================================================================
