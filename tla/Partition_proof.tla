-------------------------- MODULE Partition_proof --------------------------
(***************************************************************************)
(* Lemmas that the minimizers share, for every set of states, keys and     *)
(* data.  About machines: what fusing two states does to one, when one is  *)
(* a quotient of another, and that what can be reached from the start and  *)
(* the entry points is a machine of its own; nothing there depends on how  *)
(* a minimizer works.  Then about the parts both partitioning minimizers   *)
(* are made of, for machines that satisfy MachinesAssumption.              *)
(***************************************************************************)
EXTENDS Partition, Recursion

\* What minimizers are given and must keep: a machine whose pointers are
\* all good, with EOF targets, if any, of one scanner.
GoodMachine(x) == x \in Machine /\ Closed(x) /\ ScannerShape(x)

\* Fields of a machine.
LEMMA MachineFields ==
  ASSUME NEW x \in Machine
  PROVE  /\ x.live \subseteq State
         /\ x.data \in [State -> Data]
         /\ x.out \in [State -> [Key -> Trans]]
         /\ x.eof \in [State -> State \cup {Null}]
         /\ x.start \in State
         /\ x.entry \subseteq EntryId \X State
BY DEF Machine

\* The target of a transition is a state or null.
LEMMA ToType ==
  ASSUME NEW x \in Machine, NEW s \in State, NEW k \in Key
  PROVE  To(x, s, k) \in State \cup {Null}
<1>1. x.out[s][k] \in Trans
  BY MachineFields
<1> QED BY <1>1 DEF To, Trans

\* Fusing two states of a machine gives a machine.
LEMMA FuseType ==
  ASSUME NEW x \in Machine, NEW dest \in State, NEW src \in State
  PROVE  Fuse(x, dest, src) \in Machine
<1>1. Redirected(x, dest, src) \in [State -> [Key -> Trans]]
  <2> SUFFICES ASSUME NEW s \in State, NEW k \in Key
               PROVE  (IF To(x, s, k) = src
                       THEN [to |-> dest, act |-> x.out[s][k].act]
                       ELSE x.out[s][k]) \in Trans
    BY DEF Redirected
  <2>1. x.out[s][k] \in Trans
    BY MachineFields
  <2>2. CASE To(x, s, k) = src
    <3>1. x.out[s][k] \in [to : State \cup {Null}, act : Act]
      BY <2>1, <2>2, NullAssumption, StateAssumption DEF To, Trans
    <3> QED BY <2>2, <3>1 DEF Trans
  <2> QED BY <2>1, <2>2
<1>2. {IF e[2] = src THEN <<e[1], dest>> ELSE e : e \in x.entry}
        \subseteq EntryId \X State
  BY MachineFields
<1> QED BY <1>1, <1>2, MachineFields DEF Fuse, Machine

\* Where a fused machine's transitions lead.
LEMMA FuseTo ==
  ASSUME NEW x \in Machine, NEW dest \in State, NEW src \in State,
         NEW s \in State, NEW k \in Key
  PROVE  To(Fuse(x, dest, src), s, k) =
           IF To(x, s, k) = src THEN dest ELSE To(x, s, k)
<1>1. Fuse(x, dest, src).out[s][k] =
        IF To(x, s, k) = src THEN [to |-> dest, act |-> x.out[s][k].act]
                             ELSE x.out[s][k]
  BY DEF Fuse, Redirected
<1>2. CASE To(x, s, k) = src
  <2>1. [to |-> dest, act |-> x.out[s][k].act] # NoTrans
    <3>1. x.out[s][k] \in Trans /\ x.out[s][k] # NoTrans
      BY <1>2, MachineFields, NullAssumption, StateAssumption DEF To
    <3>2. x.out[s][k].act \in Act
      BY <3>1 DEF Trans
    <3> QED BY <3>2, TransAssumption
  <2> QED BY <1>1, <1>2, <2>1 DEF To
<1>3. CASE To(x, s, k) # src
  BY <1>1, <1>3 DEF To
<1> QED BY <1>2, <1>3

\* Targets of live states are live; no state is null.
LEMMA PointersGood ==
  ASSUME NEW x, GoodMachine(x)
  PROVE  /\ x.live \subseteq State /\ x.live \subseteq Nat /\ Null \notin x.live
         /\ x.start \in x.live
         /\ \A s \in x.live : /\ \A k \in Key : To(x, s, k) \in x.live \cup {Null}
                              /\ x.eof[s] \in x.live \cup {Null}
BY MachineFields, NullAssumption, StateAssumption DEF GoodMachine, Closed

\* Fusing a state into another with the same data, condition lists aside,
\* leaves no pointer behind:
\* a scanner's start state is never fused away under the EOF targets that
\* point to it, for no other state has its data.
LEMMA FuseGood ==
  ASSUME NEW x, GoodMachine(x), NEW dest \in x.live, NEW src \in x.live,
         dest # src, x.data[dest].state = x.data[src].state
  PROVE  GoodMachine(Fuse(x, dest, src))
<1> DEFINE y == Fuse(x, dest, src)
<1>1. /\ x.live \subseteq State /\ x \in Machine /\ Closed(x) /\ ScannerShape(x)
      /\ dest \in State /\ src \in State
  BY PointersGood DEF GoodMachine
<1>2. y \in Machine
  BY <1>1, FuseType
<1>3. /\ y.live = x.live \ {src} /\ y.data = x.data /\ y.eof = x.eof
      /\ y.start = IF x.start = src THEN dest ELSE x.start
      /\ y.entry = {IF e[2] = src THEN <<e[1], dest>> ELSE e : e \in x.entry}
  BY DEF Fuse
<1>4. \A s \in State, k \in Key :
        To(y, s, k) = IF To(x, s, k) = src THEN dest ELSE To(x, s, k)
  BY <1>1, FuseTo
<1> HIDE DEF y
<1>5. x.start = src => \A s \in x.live : x.eof[s] = Null
  BY <1>1 DEF ScannerShape
<1>6. \A s \in y.live : y.eof[s] \in {Null, y.start}
  BY <1>1, <1>3, <1>5 DEF ScannerShape
<1>7. ScannerShape(y)
  <2> SUFFICES ASSUME NEW s \in y.live, NEW t \in y.live
               PROVE  /\ y.eof[s] # Null /\ t # y.start =>
                           y.data[t].state # y.data[y.start].state
                      /\ y.data[s].state = y.data[t].state => y.eof[s] = y.eof[t]
    BY <1>6 DEF ScannerShape
  <2> QED BY <1>1, <1>3, <1>5 DEF ScannerShape
<1>8. Closed(y)
  <2>1. y.start \in y.live
    BY <1>1, <1>3 DEF Closed
  <2>2. \A e \in y.entry : e[2] \in y.live
    BY <1>1, <1>3 DEF Closed
  <2>3. ASSUME NEW s \in y.live, NEW k \in Key
        PROVE  To(y, s, k) \in y.live \cup {Null}
    <3>1. s \in x.live /\ s \in State
      BY <1>1, <1>3
    <3>2. To(x, s, k) \in x.live \cup {Null}
      BY <1>1, <3>1 DEF Closed
    <3> QED BY <1>3, <1>4, <3>1, <3>2
  <2>4. \A s \in y.live : y.eof[s] \in y.live \cup {Null}
    BY <1>6, <2>1
  <2> QED BY <2>1, <2>2, <2>3, <2>4
    DEF Closed
<1> QED BY <1>2, <1>7, <1>8 DEF GoodMachine, y

----------------------------------------------------------------------------
(* When a machine stands for another.  While states are fused the machine  *)
(* y stands for the input x with its targets taken up to label: no label   *)
(* has lost its last state, and every pointer leads to the label the       *)
(* pointer of the input leads to.                                          *)

SamePointers(x, y, lab) ==
  /\ lab[y.start] = lab[x.start]
  /\ \A e \in y.entry : \E d \in x.entry : d[1] = e[1] /\ lab[d[2]] = lab[e[2]]
  /\ \A d \in x.entry : \E e \in y.entry : e[1] = d[1] /\ lab[e[2]] = lab[d[2]]
  /\ y.eof = x.eof
  /\ \A s \in y.live, k \in Key :
       /\ HasTrans(y, s, k) <=> HasTrans(x, s, k)
       /\ HasTrans(y, s, k) => y.out[s][k].act = x.out[s][k].act
       /\ PartOf(lab, To(y, s, k)) = PartOf(lab, To(x, s, k))

StandsFor(x, y, lab) ==
  /\ y.live \subseteq x.live
  /\ \A s \in x.live : \E t \in y.live : lab[t] = lab[s]
  /\ y.data = x.data
  /\ SamePointers(x, y, lab)

\* A machine stands for itself.
LEMMA StandsForItself == ASSUME NEW x, NEW lab PROVE StandsFor(x, x, lab)
BY DEF StandsFor, SamePointers

\* Fusing two states of one label changes no pointer's label.
LEMMA FuseStandsFor ==
  ASSUME NEW x, NEW y, NEW lab, GoodMachine(y), StandsFor(x, y, lab),
         NEW dest \in y.live, NEW src \in y.live, dest # src, lab[dest] = lab[src]
  PROVE  StandsFor(x, Fuse(y, dest, src), lab)
<1> DEFINE z == Fuse(y, dest, src)
<1>1. lab[dest] = lab[src]
  OBVIOUS
<1>2. StandsFor(x, y, lab) /\ y \in Machine
  BY DEF GoodMachine
<1>3. /\ dest \in State /\ src \in State /\ dest # src /\ src # Null /\ dest # Null
      /\ y.live \subseteq State
  BY PointersGood
<1>4. /\ z.live = y.live \ {src} /\ z.data = y.data /\ z.eof = y.eof
      /\ z.start = IF y.start = src THEN dest ELSE y.start
      /\ z.entry = {IF e[2] = src THEN <<e[1], dest>> ELSE e : e \in y.entry}
      /\ z.out = Redirected(y, dest, src)
  BY DEF Fuse
<1>t. \A s \in State, k \in Key :
        To(z, s, k) = IF To(y, s, k) = src THEN dest ELSE To(y, s, k)
  BY <1>2, <1>3, FuseTo
<1> HIDE DEF z
<1>5. \A s \in x.live : \E t \in z.live : lab[t] = lab[s]
  <2> SUFFICES ASSUME NEW s \in x.live
               PROVE  \E t \in y.live \ {src} : lab[t] = lab[s]
    BY <1>4
  <2>1. PICK t \in y.live : lab[t] = lab[s]
    BY <1>2 DEF StandsFor
  <2> QED BY <1>1, <1>3, <2>1
<1>6. lab[z.start] = lab[x.start]
  BY <1>1, <1>2, <1>4 DEF StandsFor, SamePointers
<1>7. \A e \in z.entry : \E d \in x.entry :
        d[1] = e[1] /\ lab[d[2]] = lab[e[2]]
  <2> SUFFICES ASSUME NEW f \in y.entry
               PROVE  \E d \in x.entry :
                        /\ d[1] = (IF f[2] = src THEN <<f[1], dest>> ELSE f)[1]
                        /\ lab[d[2]] =
                             lab[(IF f[2] = src THEN <<f[1], dest>> ELSE f)[2]]
    BY <1>4
  <2>1. PICK d \in x.entry : d[1] = f[1] /\ lab[d[2]] = lab[f[2]]
    BY <1>2 DEF StandsFor, SamePointers
  <2> QED BY <1>1, <2>1
<1>8. \A d \in x.entry : \E e \in z.entry :
        e[1] = d[1] /\ lab[e[2]] = lab[d[2]]
  <2> SUFFICES ASSUME NEW d \in x.entry
               PROVE  \E e \in z.entry : e[1] = d[1] /\ lab[e[2]] = lab[d[2]]
    OBVIOUS
  <2>1. PICK f \in y.entry : f[1] = d[1] /\ lab[f[2]] = lab[d[2]]
    BY <1>2 DEF StandsFor, SamePointers
  <2> DEFINE g == IF f[2] = src THEN <<f[1], dest>> ELSE f
  <2>2. g \in z.entry
    BY <1>4, <2>1
  <2>3. g[1] = d[1] /\ lab[g[2]] = lab[d[2]]
    BY <1>1, <2>1
  <2> QED BY <2>2, <2>3
<1>9. ASSUME NEW s \in z.live, NEW k \in Key
      PROVE  /\ HasTrans(z, s, k) <=> HasTrans(x, s, k)
             /\ HasTrans(z, s, k) => z.out[s][k].act = x.out[s][k].act
             /\ PartOf(lab, To(z, s, k)) = PartOf(lab, To(x, s, k))
  <2>1. s \in y.live /\ s \in State
    BY <1>3, <1>4
  <2>2. To(z, s, k) = IF To(y, s, k) = src THEN dest ELSE To(y, s, k)
    BY <1>1, <1>2, <1>3, <2>1, <1>t
  <2>3. z.out[s][k] =
          IF To(y, s, k) = src THEN [to |-> dest, act |-> y.out[s][k].act]
                               ELSE y.out[s][k]
    BY <1>4, <2>1 DEF Redirected
  <2>4. /\ HasTrans(y, s, k) <=> HasTrans(x, s, k)
        /\ HasTrans(y, s, k) => y.out[s][k].act = x.out[s][k].act
        /\ PartOf(lab, To(y, s, k)) = PartOf(lab, To(x, s, k))
    BY <1>2, <2>1 DEF StandsFor, SamePointers
  <2>5. CASE To(y, s, k) = src
    <3>1. HasTrans(y, s, k)
      BY <1>3, <2>5 DEF To, HasTrans
    <3>2. HasTrans(z, s, k)
      BY <1>3, <2>2, <2>5 DEF To, HasTrans
    <3>3. z.out[s][k].act = y.out[s][k].act
      BY <2>3, <2>5
    <3>4. PartOf(lab, To(z, s, k)) = PartOf(lab, To(y, s, k))
      BY <1>1, <1>3, <2>2, <2>5 DEF PartOf
    <3> QED BY <2>4, <3>1, <3>2, <3>3, <3>4
  <2>6. CASE To(y, s, k) # src
    BY <2>2, <2>3, <2>4, <2>6 DEF HasTrans
  <2> QED BY <2>5, <2>6
<1>10. SamePointers(x, z, lab)
  BY <1>2, <1>4, <1>6, <1>7, <1>8, <1>9 DEF StandsFor, SamePointers
<1>11. StandsFor(x, z, lab)
  BY <1>2, <1>4, <1>5, <1>10 DEF StandsFor
<1> QED BY <1>11 DEF z

\* A coarser labelling tells even less.
LEMMA CoarserStandsFor ==
  ASSUME NEW x, NEW y, NEW a, NEW b, GoodMachine(x), GoodMachine(y),
         StandsFor(x, y, a), \A s \in x.live : a[s] # Null,
         \A s, t \in x.live : a[s] = a[t] => b[s] = b[t]
  PROVE  StandsFor(x, y, b)
<1>1. /\ y.live \subseteq x.live /\ y.start \in y.live /\ x.start \in x.live
      /\ \A e \in y.entry : e[2] \in x.live
      /\ \A e \in x.entry : e[2] \in x.live
      /\ SamePointers(x, y, a)
  BY DEF StandsFor, GoodMachine, Closed
<1>2. ASSUME NEW s \in y.live, NEW k \in Key
      PROVE  PartOf(b, To(y, s, k)) = PartOf(b, To(x, s, k))
  <2>1. /\ To(y, s, k) \in x.live \cup {Null} /\ To(x, s, k) \in x.live \cup {Null}
        /\ PartOf(a, To(y, s, k)) = PartOf(a, To(x, s, k))
    BY <1>1, PointersGood DEF SamePointers
  <2> QED BY <2>1 DEF PartOf
<1>3. b[y.start] = b[x.start]
  BY <1>1 DEF SamePointers
<1>4. \A e \in y.entry : \E d \in x.entry : d[1] = e[1] /\ b[d[2]] = b[e[2]]
  BY <1>1 DEF SamePointers
<1>5. \A d \in x.entry : \E e \in y.entry : e[1] = d[1] /\ b[e[2]] = b[d[2]]
  BY <1>1 DEF SamePointers
<1>6. SamePointers(x, y, b)
  BY <1>1, <1>2, <1>3, <1>4, <1>5 DEF SamePointers
<1>7. \A s \in x.live : \E t \in y.live : b[t] = b[s]
  BY <1>1 DEF StandsFor
<1> QED BY <1>6, <1>7 DEF StandsFor

\* States alike under a labelling are alike under a coarser one.
LEMMA AlikeCoarser ==
  ASSUME NEW x, NEW a, NEW b, GoodMachine(x), \A s \in x.live : a[s] # Null,
         \A s, t \in x.live : a[s] = a[t] => b[s] = b[t],
         NEW s \in x.live, NEW t \in x.live, Alike(x, a, s, t)
  PROVE  Alike(x, b, s, t)
<1>1. \A u, v \in x.live \cup {Null} :
        PartOf(a, u) = PartOf(a, v) => PartOf(b, u) = PartOf(b, v)
  BY PointersGood DEF PartOf
<1>2. PartOf(b, x.eof[s]) = PartOf(b, x.eof[t])
  BY <1>1, PointersGood DEF Alike
<1>3. ASSUME NEW k \in Key, x.out[s][k] # NoTrans
      PROVE  PartOf(b, x.out[s][k].to) = PartOf(b, x.out[t][k].to)
  <2>1. To(x, s, k) = x.out[s][k].to /\ To(x, t, k) = x.out[t][k].to
    BY <1>3 DEF Alike, To
  <2>2. To(x, s, k) \in x.live \cup {Null} /\ To(x, t, k) \in x.live \cup {Null}
    BY PointersGood
  <2> QED BY <1>1, <1>3, <2>1, <2>2 DEF Alike
<1> QED BY <1>2, <1>3 DEF Alike

----------------------------------------------------------------------------
(* Quotients.  A machine that stands for the input under a stable          *)
(* labelling, with one state left for each label, is the input's quotient: *)
(* a state is represented by the survivor of its label.                    *)

Survivor(x, y, lab) ==
  [s \in State |-> IF s \in x.live THEN CHOOSE t \in y.live : lab[t] = lab[s]
                                  ELSE s]

OnePerLabel(y, lab) == \A s, t \in y.live : lab[s] = lab[t] => s = t

\* A survivor is the only one, and its own.
LEMMA SurvivorFacts ==
  ASSUME NEW x, NEW y, NEW lab, GoodMachine(x), GoodMachine(y),
         StandsFor(x, y, lab), OnePerLabel(y, lab)
  PROVE  /\ Survivor(x, y, lab) \in [State -> State]
         /\ \A s \in x.live : /\ Survivor(x, y, lab)[s] \in y.live
                              /\ lab[Survivor(x, y, lab)[s]] = lab[s]
         /\ \A s \in x.live, t \in y.live :
              lab[t] = lab[s] => Survivor(x, y, lab)[s] = t
         /\ \A s, t \in x.live :
              Survivor(x, y, lab)[s] = Survivor(x, y, lab)[t] <=> lab[s] = lab[t]
<1> DEFINE rep == Survivor(x, y, lab)
<1>1. y.live \subseteq x.live /\ x.live \subseteq State
  BY PointersGood DEF StandsFor
<1>2. \A s \in x.live : rep[s] \in y.live /\ lab[rep[s]] = lab[s]
  <2> SUFFICES ASSUME NEW s \in x.live
               PROVE  rep[s] \in y.live /\ lab[rep[s]] = lab[s]
    OBVIOUS
  <2>1. \E t \in y.live : lab[t] = lab[s]
    BY DEF StandsFor
  <2>2. rep[s] = CHOOSE t \in y.live : lab[t] = lab[s]
    BY <1>1 DEF Survivor
  <2> QED BY <2>1, <2>2
<1>3. \A s \in x.live, t \in y.live : lab[t] = lab[s] => rep[s] = t
  BY <1>2 DEF OnePerLabel
<1>4. rep \in [State -> State]
  <2>1. rep = [s \in State |-> rep[s]]
    BY DEF Survivor
  <2>2. ASSUME NEW s \in State PROVE rep[s] \in State
    <3>1. CASE s \in x.live
      BY <1>1, <1>2, <3>1
    <3>2. CASE s \notin x.live
      BY <3>2 DEF Survivor
    <3> QED BY <3>1, <3>2
  <2> HIDE DEF rep
  <2> QED BY <2>1, <2>2
<1>5. \A s, t \in x.live : rep[s] = rep[t] <=> lab[s] = lab[t]
  BY <1>2, <1>3
<1> QED BY <1>2, <1>3, <1>4, <1>5

\* The machine is the quotient.
LEMMA StandsForIsQuotient ==
  ASSUME NEW x, NEW y, NEW lab, GoodMachine(x), GoodMachine(y),
         StandsFor(x, y, lab), OnePerLabel(y, lab), Stable(x, lab),
         \A s \in x.live : lab[s] # Null
  PROVE  Quotient(x, Survivor(x, y, lab), y)
<1> DEFINE rep == Survivor(x, y, lab)
<1>1. /\ y.live \subseteq x.live /\ x.live \subseteq State
      /\ \A s \in x.live : rep[s] \in y.live /\ lab[rep[s]] = lab[s]
      /\ \A s \in x.live, t \in y.live : lab[t] = lab[s] => rep[s] = t
      /\ \A s \in x.live : lab[s] # Null
  BY SurvivorFacts, PointersGood DEF StandsFor
<1> HIDE DEF rep
<1>2. /\ StandsFor(x, y, lab) /\ SamePointers(x, y, lab) /\ Stable(x, lab)
      /\ x \in Machine /\ Closed(x) /\ ScannerShape(x)
      /\ y \in Machine /\ Closed(y) /\ GoodMachine(x) /\ GoodMachine(y)
  BY DEF StandsFor, GoodMachine
<1>3. \A t \in y.live : rep[t] = t /\ t # Null
  BY <1>1, <1>2, PointersGood
<1>4. \A s \in x.live : Alike(x, lab, s, rep[s])
  BY <1>1, <1>2 DEF Stable
<1>5. y.live = {rep[s] : s \in x.live}
  BY <1>1, <1>3
<1>6. y.start = rep[x.start]
  BY <1>1, <1>2 DEF SamePointers, Closed
<1>7. y.entry = {<<e[1], rep[e[2]]>> : e \in x.entry}
  <2>1. ASSUME NEW e \in y.entry
        PROVE  \E d \in x.entry : e = <<d[1], rep[d[2]]>>
    <3>1. PICK d \in x.entry : d[1] = e[1] /\ lab[d[2]] = lab[e[2]]
      BY <1>2 DEF SamePointers
    <3>2. d[2] \in x.live /\ e[2] \in y.live
      BY <1>2 DEF Closed
    <3>3. rep[d[2]] = e[2]
      BY <1>1, <3>1, <3>2
    <3>4. e = <<e[1], e[2]>>
      BY <1>2, MachineFields
    <3> QED BY <3>1, <3>3, <3>4
  <2>2. ASSUME NEW d \in x.entry
        PROVE  <<d[1], rep[d[2]]>> \in y.entry
    <3>1. PICK e \in y.entry : e[1] = d[1] /\ lab[e[2]] = lab[d[2]]
      BY <1>2 DEF SamePointers
    <3>2. d[2] \in x.live /\ e[2] \in y.live
      BY <1>2 DEF Closed
    <3>3. rep[d[2]] = e[2]
      BY <1>1, <3>1, <3>2
    <3>4. e = <<e[1], e[2]>>
      BY <1>2, MachineFields
    <3> QED BY <3>1, <3>3, <3>4
  <2> QED BY <2>1, <2>2
<1>8. ASSUME NEW s \in x.live
      PROVE  /\ y.data[rep[s]] = x.data[s]
             /\ y.eof[rep[s]] = PartOf(rep, x.eof[s])
  <2>1. y.data = x.data /\ y.eof = x.eof
    BY <1>2 DEF StandsFor, SamePointers
  <2>2. x.data[s] = x.data[rep[s]]
    BY <1>4 DEF Alike
  <2>3. x.eof[s] = x.eof[rep[s]]
    BY <1>1, <1>2, <2>2 DEF ScannerShape
  <2>4. y.eof[rep[s]] \in y.live \cup {Null}
    BY <1>1, <1>2 DEF Closed
  <2>5. PartOf(rep, y.eof[rep[s]]) = y.eof[rep[s]]
    BY <1>3, <2>4 DEF PartOf
  <2> QED BY <2>1, <2>2, <2>3, <2>5
<1>9. ASSUME NEW s \in x.live, NEW k \in Key
      PROVE  y.out[rep[s]][k] =
               IF HasTrans(x, s, k)
               THEN [to  |-> PartOf(rep, To(x, s, k)),
                     act |-> x.out[s][k].act]
               ELSE NoTrans
  <2> DEFINE r == rep[s]
  <2>1. r \in y.live /\ r \in State /\ s \in State
    BY <1>1
  <2>2. /\ HasTrans(y, r, k) <=> HasTrans(x, r, k)
        /\ HasTrans(y, r, k) => y.out[r][k].act = x.out[r][k].act
        /\ PartOf(lab, To(y, r, k)) = PartOf(lab, To(x, r, k))
    BY <1>2, <2>1 DEF SamePointers
  <2>3. /\ HasTrans(x, s, k) <=> HasTrans(x, r, k)
        /\ HasTrans(x, s, k) => /\ x.out[s][k].act = x.out[r][k].act
                                   /\ PartOf(lab, x.out[s][k].to)
                                        = PartOf(lab, x.out[r][k].to)
    BY <1>4 DEF Alike, HasTrans
  <2>4. CASE ~ HasTrans(x, s, k)
    BY <2>2, <2>3, <2>4 DEF HasTrans
  <2>5. CASE HasTrans(x, s, k)
    <3>1. HasTrans(y, r, k) /\ HasTrans(x, r, k)
      BY <2>2, <2>3, <2>5
    <3>2. y.out[r][k] = [to |-> y.out[r][k].to, act |-> y.out[r][k].act]
      <4>1. y.out[r][k] \in Trans
        BY <1>2, <2>1, MachineFields
      <4> QED BY <3>1, <4>1 DEF Trans, HasTrans
    <3>3. y.out[r][k].act = x.out[s][k].act
      BY <2>2, <2>3, <2>5, <3>1
    <3>4. PartOf(lab, To(y, r, k)) = PartOf(lab, To(x, s, k))
      BY <2>2, <2>3, <2>5, <3>1 DEF To, HasTrans
    <3>5. To(y, r, k) \in y.live \cup {Null}
          /\ To(x, s, k) \in x.live \cup {Null}
      BY <1>2, <2>1 DEF Closed
    <3>6. \A u \in x.live : lab[u] # Null /\ u # Null
      BY <1>1, <1>2, PointersGood
    <3>7. To(y, r, k) = PartOf(rep, To(x, s, k))
      <4>1. CASE To(x, s, k) = Null
        BY <1>1, <3>4, <3>5, <3>6, <4>1 DEF PartOf
      <4>2. CASE To(x, s, k) # Null
        BY <1>1, <3>4, <3>5, <3>6, <4>2 DEF PartOf
      <4> QED BY <4>1, <4>2
    <3>8. To(y, r, k) = y.out[r][k].to
      BY <3>1 DEF To, HasTrans
    <3> HIDE DEF r
    <3>9. y.out[r][k] = [to  |-> PartOf(rep, To(x, s, k)),
                         act |-> x.out[s][k].act]
      BY <3>2, <3>3, <3>7, <3>8
    <3> QED BY <2>5, <3>9 DEF r
  <2> QED BY <2>4, <2>5
<1> QED BY <1>5, <1>6, <1>7, <1>8, <1>9 DEF Quotient, rep

\* Its states are as good a labelling of the input as the labels were.
LEMMA SurvivorStable ==
  ASSUME NEW x, NEW y, NEW lab, GoodMachine(x), GoodMachine(y),
         StandsFor(x, y, lab), OnePerLabel(y, lab), Stable(x, lab),
         \A s \in x.live : lab[s] # Null
  PROVE  /\ Stable(x, Survivor(x, y, lab))
         /\ Minimal(x, lab) => Minimal(x, Survivor(x, y, lab))
<1> DEFINE rep == Survivor(x, y, lab)
<1>1. \A s, t \in x.live : rep[s] = rep[t] <=> lab[s] = lab[t]
  BY SurvivorFacts
<1> HIDE DEF rep
<1>2. Stable(x, rep)
  BY <1>1, AlikeCoarser DEF Stable
<1>3. Minimal(x, lab) => Minimal(x, rep)
  BY <1>1, <1>2 DEF Minimal, Coarser
<1> QED BY <1>2, <1>3 DEF rep

----------------------------------------------------------------------------
(* What removeUnreachableStates leaves.                                    *)

Roots(x) == {x.start} \cup {e[2] : e \in x.entry}
Onward(x, S) == S \cup ({To(x, s, k) : s \in S, k \in Key} \ {Null})

\* The recursion in Reachable makes steps of the walk from the roots.
LEMMA ReachableSteps ==
  ASSUME NEW x, GoodMachine(x)
  PROVE  \E f \in [Nat -> SUBSET x.live] :
           /\ f[0] = Roots(x)
           /\ \A n \in Nat : f[n + 1] = Onward(x, f[n])
           /\ Reachable(x) = f[Cardinality(State)]
<1> DEFINE next == [S \in SUBSET x.live |-> Onward(x, S)]
           f == Sequence(Roots(x), next)
           R == CHOOSE r : r = [n \in Nat |-> IF n = 0 THEN Roots(x)
                                              ELSE Onward(x, r[n - 1])]
<1>1. Roots(x) \in SUBSET x.live
  BY DEF Roots, GoodMachine, Closed
<1>2. \A S \in SUBSET x.live : Onward(x, S) \in SUBSET x.live
  BY PointersGood DEF Onward
<1>3. next \in [SUBSET x.live -> SUBSET x.live]
  BY <1>2
<1>4. Reachable(x) = R[Cardinality(State)]
  BY DEF Reachable, Roots, Onward
<1>5. /\ f \in [Nat -> SUBSET x.live] /\ f[0] = Roots(x)
      /\ \A n \in Nat : f[n + 1] = next[f[n]]
  <2> DEFINE T == SUBSET x.live
  <2>1. Roots(x) \in T /\ next \in [T -> T]
    BY <1>1, <1>3
  <2> HIDE DEF next, T
  <2>2. f \in [Nat -> T] /\ f[0] = Roots(x) /\ \A n \in Nat : f[n + 1] = next[f[n]]
    BY <2>1, SequenceFacts
  <2> QED BY <2>2 DEF T
<1> HIDE DEF f
<1>6. \A n \in Nat : f[n + 1] = Onward(x, f[n])
  BY <1>5
<1>7. f = [n \in Nat |-> IF n = 0 THEN Roots(x) ELSE Onward(x, f[n - 1])]
  <2>1. ASSUME NEW n \in Nat
        PROVE  f[n] = IF n = 0 THEN Roots(x) ELSE Onward(x, f[n - 1])
    <3>1. CASE n = 0
      BY <1>5, <3>1
    <3>2. CASE n # 0
      <4>1. n - 1 \in Nat /\ (n - 1) + 1 = n
        BY <3>2
      <4> QED BY <1>6, <3>2, <4>1
    <3> QED BY <3>1, <3>2
  <2> QED BY <1>5, <2>1
<1>8. R = [n \in Nat |-> IF n = 0 THEN Roots(x) ELSE Onward(x, R[n - 1])]
  BY <1>7
<1> HIDE DEF R
<1>9. \A n \in Nat : R[n] = f[n]
  <2> DEFINE S == {n \in Nat : R[n] = f[n]}
  <2>1. 0 \in S
    BY <1>5, <1>8
  <2>2. ASSUME NEW n \in Nat, n \in S PROVE n + 1 \in S
    <3>1. n + 1 \in Nat /\ n + 1 # 0 /\ (n + 1) - 1 = n
      OBVIOUS
    <3>2. R[n + 1] = Onward(x, R[n])
      BY <1>8, <3>1
    <3> QED BY <1>6, <2>2, <3>2
  <2>3. Nat \subseteq S
    <3> HIDE DEF S
    <3> QED BY <2>1, <2>2, Induction
  <2> QED BY <2>3
<1>10. Cardinality(State) \in Nat
  BY StateAssumption, FS_CardinalityType
<1>11. Reachable(x) = f[Cardinality(State)]
  BY <1>4, <1>9, <1>10
<1> QED BY <1>5, <1>6, <1>11

\* The walk is over when Reachable stops it: the set is closed.
LEMMA ReachableClosed ==
  ASSUME NEW x, GoodMachine(x)
  PROVE  /\ Reachable(x) \subseteq x.live /\ Roots(x) \subseteq Reachable(x)
         /\ \A s \in Reachable(x), k \in Key :
              To(x, s, k) \in Reachable(x) \cup {Null}
<1>1. PICK f \in [Nat -> SUBSET x.live] :
        /\ f[0] = Roots(x)
        /\ \A n \in Nat : f[n + 1] = Onward(x, f[n])
        /\ Reachable(x) = f[Cardinality(State)]
  BY ReachableSteps
<1>2. Cardinality(State) \in Nat
  BY StateAssumption, FS_CardinalityType
<1>3. f \in [Nat -> SUBSET State]
  BY PointersGood
<1>4. ASSUME NEW n \in Nat PROVE f[n] \subseteq f[n + 1]
  <2>1. f[n + 1] = Onward(x, f[n])
    BY <1>1
  <2> QED BY <2>1 DEF Onward
<1>5. \A n \in Nat : f[n + 1] = f[n] => f[n + 2] = f[n + 1]
  <2> SUFFICES ASSUME NEW n \in Nat, f[n + 1] = f[n]
               PROVE  f[n + 2] = f[n + 1]
    OBVIOUS
  <2>1. f[(n + 1) + 1] = Onward(x, f[n + 1]) /\ f[n + 1] = Onward(x, f[n])
    BY <1>1
  <2>2. (n + 1) + 1 = n + 2
    OBVIOUS
  <2> QED BY <2>1, <2>2
<1>6. f[Cardinality(State) + 1] = f[Cardinality(State)]
  BY <1>3, <1>4, <1>5, StateAssumption, StandsStill
<1>7. Roots(x) \subseteq f[Cardinality(State)]
  <2> DEFINE S == {n \in Nat : Roots(x) \subseteq f[n]}
  <2>1. 0 \in S
    BY <1>1
  <2>2. \A n \in Nat : n \in S => n + 1 \in S
    BY <1>4
  <2>3. Nat \subseteq S
    <3> HIDE DEF S
    <3> QED BY <2>1, <2>2, Induction
  <2> QED BY <1>2, <2>3
<1>8. f[Cardinality(State)] = Onward(x, f[Cardinality(State)])
  BY <1>1, <1>2, <1>6
<1> QED BY <1>1, <1>2, <1>7, <1>8 DEF Onward

\* A machine cut down to what can be reached is a good machine.
LEMMA CutDownGood ==
  ASSUME NEW x, GoodMachine(x)
  PROVE  GoodMachine([x EXCEPT !.live = Reachable(x)])
<1> DEFINE y == [x EXCEPT !.live = Reachable(x)]
<1>1. x \in Machine /\ Closed(x) /\ ScannerShape(x)
  BY DEF GoodMachine
<1>2. /\ Reachable(x) \subseteq x.live /\ x.start \in Reachable(x)
      /\ \A e \in x.entry : e[2] \in Reachable(x)
      /\ \A s \in Reachable(x), k \in Key :
           To(x, s, k) \in Reachable(x) \cup {Null}
  BY ReachableClosed DEF Roots
<1>3. /\ y \in Machine /\ y.live = Reachable(x) /\ y.data = x.data /\ y.out = x.out
      /\ y.eof = x.eof /\ y.start = x.start /\ y.entry = x.entry
  BY <1>1, <1>2 DEF Machine
<1> HIDE DEF y
<1>4. ScannerShape(y)
  BY <1>1, <1>2, <1>3 DEF ScannerShape
<1>5. Closed(y)
  BY <1>2, <1>3, <1>4 DEF Closed, ScannerShape, To
<1> QED BY <1>3, <1>4, <1>5 DEF GoodMachine, y

----------------------------------------------------------------------------
(* The parts of the partitioning minimizers.                               *)

\* The machines a minimizer may be asked to reduce are good.
LEMMA MachinesGood == \A x \in Machines : GoodMachine(x)
BY MachinesAssumption DEF GoodMachine

----------------------------------------------------------------------------
(* What both algorithms keep.  The machine is good at every step:          *)
(* its pointers lead to live states, so a label of a target is always      *)
(* defined, and EOF targets keep to the scanner's start state, so a split  *)
(* never separates two of them.  DataInv carries the initial partition's   *)
(* promise into the fuse phase, where it shows that no scanner start state *)
(* is ever fused away under the EOF targets that point to it.              *)

NumInv ==
  /\ part \in [State -> Nat]
  /\ numParts \in Nat \ {0}
  /\ pc \in {"split", "fuse"} => \A s \in m.live : part[s] < numParts

DataInv ==
  pc \in {"split", "fuse"} =>
    \A s, t \in m.live : part[s] = part[t] => m.data[s] = m.data[t]

\* No split separates two states that some stable labelling keeps together:
\* the half of minimality that every split has to keep.
NeverTooFine ==
  pc = "split" => \A c \in [State -> State] :
    Stable(m, c) => Coarser(m, part, c)

PInv ==
  /\ pc \in {"init", "split", "fuse", "done"}
  /\ GoodMachine(input)
  /\ GoodMachine(m)
  /\ NumInv
  /\ DataInv
  /\ InitRespected
  /\ NeverTooFine

\* The shared invariant holds when a minimizer is called.
LEMMA InitPInv == PartitionInit => PInv
BY MachinesGood
   DEF PartitionInit, PInv, NumInv, DataInv, InitRespected, NeverTooFine

\* Alike states compare equal on data; the reference and the comparison
\* functor agree.
LEMMA AlikeInit ==
  ASSUME NEW lab, NEW s, NEW t, Alike(m, lab, s, t)
  PROVE  InitPartitionEqual(m, s, t)
BY DEF Alike, InitPartitionEqual, SameTransData, HasTrans

\* Data and transition data agree: what InitRespected says of two states.
LEMMA InitPartitionFacts ==
  ASSUME NEW s, NEW t, InitPartitionEqual(m, s, t)
  PROVE  /\ m.data[s] = m.data[t]
         /\ \A k \in Key : IF m.out[s][k] = NoTrans THEN m.out[t][k] = NoTrans
                          ELSE /\ m.out[t][k] # NoTrans
                               /\ m.out[s][k].act = m.out[t][k].act
BY DEF InitPartitionEqual, SameTransData, HasTrans

\* Two states alike under one labelling are alike under another that gives
\* the targets of both the same labels whenever the first does.
LEMMA AlikeKept ==
  ASSUME GoodMachine(m), NEW a, NEW b, NEW s \in m.live, NEW t \in m.live,
         Alike(m, a, s, t),
         \A x \in m.live : a[x] # Null /\ b[x] # Null,
         \A k \in Key : LET x == To(m, s, k)
                            y == To(m, t, k)
                        IN  x \in m.live /\ y \in m.live /\ a[x] = a[y]
                              => b[x] = b[y]
  PROVE  Alike(m, b, s, t)
<1>1. m.data[s] = m.data[t] /\ m.eof[s] = m.eof[t]
  BY DEF Alike, GoodMachine, ScannerShape
<1>2. ASSUME NEW k \in Key, m.out[s][k] # NoTrans
      PROVE  PartOf(b, m.out[s][k].to) = PartOf(b, m.out[t][k].to)
  <2>1. /\ To(m, s, k) = m.out[s][k].to /\ To(m, t, k) = m.out[t][k].to
        /\ PartOf(a, To(m, s, k)) = PartOf(a, To(m, t, k))
    BY <1>2 DEF Alike, To
  <2>2. /\ To(m, s, k) \in m.live \cup {Null}
        /\ To(m, t, k) \in m.live \cup {Null}
        /\ Null \notin m.live
    BY PointersGood
  <2>3. PartOf(b, To(m, s, k)) = PartOf(b, To(m, t, k))
    BY <2>1, <2>2 DEF PartOf
  <2> QED BY <2>1, <2>3
<1> QED BY <1>1, <1>2 DEF Alike

\* States of one partition that PartitionCompare finds equal are alike.
LEMMA ComparedAlike ==
  ASSUME GoodMachine(m), InitRespected, pc = "split", NEW s \in m.live, NEW t \in m.live,
         part[s] = part[t], PartitionEqual(m, part, s, t)
  PROVE  Alike(m, part, s, t)
BY DEF InitRespected, PartitionEqual, Alike, To

\* What a split does to the partitions of the states it is given.
LEMMA SplitFacts ==
  ASSUME NEW S \in SUBSET State, NEW p \in Nat, NEW k \in Nat, NEW R,
         part \in [State -> Nat], numParts \in Nat, p < numParts,
         Split(S, p, k, R)
  PROVE  /\ part' \in [State -> Nat]
         /\ numParts' = numParts + k
         /\ \A s \in S : part'[s] = p \/ part'[s] >= numParts
         /\ \A s \in S : part'[s] < numParts + k
         /\ \A s, t \in S : part'[s] = part'[t] <=> <<s, t>> \in R
         /\ \A s \in State \ S : part'[s] = part[s]
         /\ k = 0 => \A s \in S : part'[s] = p
<1>1. PICK f \in Assignments(S, p, k, R) :
        /\ part' = [s \in State |-> IF s \in S THEN f[s] ELSE part[s]]
        /\ numParts' = numParts + k
  BY DEF Split
<1>2. \A s \in S : f[s] \in {p} \cup numParts .. (numParts + k - 1)
  BY DEF Assignments
<1>3. \A s, t \in S : f[s] = f[t] <=> <<s, t>> \in R
  BY DEF Assignments
<1>4. ASSUME NEW s \in S
      PROVE  /\ f[s] \in Nat /\ f[s] < numParts + k
             /\ f[s] = p \/ f[s] >= numParts
             /\ k = 0 => f[s] = p
  BY <1>2
<1>5. \A s \in S : part'[s] = f[s]
  BY <1>1
<1>6. part' \in [State -> Nat]
  BY <1>1, <1>4
<1> QED BY <1>1, <1>3, <1>4, <1>5, <1>6

\* The initial partition puts states together exactly if they compare equal.
LEMMA PartitionByDataFacts ==
  ASSUME PInv, PartitionByData
  PROVE  /\ PInv'
         /\ \A s, t \in m.live :
              part'[s] = part'[t] <=> InitPartitionEqual(m, s, t)
<1> DEFINE R == {r \in m.live \X m.live : InitPartitionEqual(m, r[1], r[2])}
<1>1. PICK k \in NewParts(m.live) : Split(m.live, 0, k, R)
  BY DEF PartitionByData
<1>2. /\ m' = m /\ input' = input /\ pc = "init" /\ pc' = "split"
      /\ m.live \in SUBSET State
  BY PointersGood DEF PInv, PartitionByData
<1>3. k \in Nat /\ numParts \in Nat /\ 0 < numParts /\ part \in [State -> Nat]
  BY DEF PInv, NumInv, NewParts
<1>4. /\ part' \in [State -> Nat]
      /\ numParts' = numParts + k
      /\ \A s \in m.live : part'[s] < numParts + k
      /\ \A s, t \in m.live : part'[s] = part'[t] <=> <<s, t>> \in R
  <2> HIDE DEF R
  <2> QED BY <1>1, <1>2, <1>3, SplitFacts
<1>5. \A s, t \in m.live : part'[s] = part'[t] <=> InitPartitionEqual(m, s, t)
  BY <1>4
<1>6. NumInv'
  BY <1>2, <1>3, <1>4 DEF NumInv
<1>7. DataInv' /\ InitRespected'
  BY <1>2, <1>5, InitPartitionFacts DEF DataInv, InitRespected
<1>8. NeverTooFine'
  BY <1>2, <1>5, AlikeInit DEF NeverTooFine, Stable, Coarser
<1> QED BY <1>2, <1>5, <1>6, <1>7, <1>8 DEF PInv

\* Splitting partition p separates exactly those of its states that
\* PartitionCompare tells apart, and keeps every part of the invariant.
LEMMA SplitPartitionFacts ==
  ASSUME PInv, NEW p \in Nat, p < numParts,
         NEW k \in NewParts(Members(p)), SplitPartition(p, k), pc' = pc
  PROVE  /\ PInv'
         /\ \A s, t \in m.live : part'[s] = part'[t] <=>
              part[s] = part[t] /\ (part[s] = p => PartitionEqual(m, part, s, t))
         /\ \A s \in m.live : part[s] # p => part'[s] = part[s]
         /\ numParts' = numParts + k
         /\ k = 0 => \A s \in m.live : part'[s] = part[s]
<1> DEFINE S == Members(p)
           R == {r \in S \X S : PartitionEqual(m, part, r[1], r[2])}
<1>1. Split(S, p, k, R)
  BY DEF SplitPartition
<1>2. /\ m' = m /\ input' = input /\ pc = "split" /\ pc' = "split"
      /\ m.live \subseteq State
  BY PointersGood DEF PInv, SplitPartition
<1>3. /\ k \in Nat /\ numParts \in Nat \ {0} /\ part \in [State -> Nat]
      /\ \A s \in m.live : part[s] < numParts
      /\ S \in SUBSET State
  BY <1>2 DEF PInv, NumInv, Members, NewParts
<1>4. /\ part' \in [State -> Nat]
      /\ numParts' = numParts + k
      /\ \A s \in S : part'[s] = p \/ part'[s] >= numParts
      /\ \A s \in S : part'[s] < numParts + k
      /\ \A s, t \in S : part'[s] = part'[t] <=> <<s, t>> \in R
      /\ \A s \in State \ S : part'[s] = part[s]
      /\ k = 0 => \A s \in S : part'[s] = p
  <2> HIDE DEF S, R
  <2> QED BY <1>1, <1>3, SplitFacts
<1>5. \A s \in m.live : s \in S <=> part[s] = p
  BY DEF Members
<1>6. \A s, t \in m.live : part'[s] = part'[t] <=>
        part[s] = part[t] /\ (part[s] = p => PartitionEqual(m, part, s, t))
  <2> SUFFICES ASSUME NEW s \in m.live, NEW t \in m.live
               PROVE  part'[s] = part'[t] <=> part[s] = part[t] /\
                        (part[s] = p => PartitionEqual(m, part, s, t))
    OBVIOUS
  <2>1. CASE s \in S /\ t \in S
    <3>1. part'[s] = part'[t] <=> <<s, t>> \in R
      BY <1>4, <2>1
    <3>2. <<s, t>> \in R <=> PartitionEqual(m, part, s, t)
      BY <2>1
    <3>3. part[s] = p /\ part[t] = p
      BY <1>5, <2>1
    <3> QED BY <3>1, <3>2, <3>3
  <2>2. CASE s \in S /\ t \notin S
    <3>1. part'[t] = part[t] /\ part[t] # p /\ part[s] = p /\ part[t] < numParts
      BY <1>2, <1>3, <1>4, <1>5, <2>2
    <3>2. part'[s] = p \/ part'[s] >= numParts
      BY <1>4, <2>2
    <3>3. part[t] \in Nat /\ part'[s] \in Nat /\ numParts \in Nat
      BY <1>2, <1>3, <1>4
    <3> QED BY <3>1, <3>2, <3>3
  <2>3. CASE s \notin S /\ t \in S
    <3>1. part'[s] = part[s] /\ part[s] # p /\ part[t] = p /\ part[s] < numParts
      BY <1>2, <1>3, <1>4, <1>5, <2>3
    <3>2. part'[t] = p \/ part'[t] >= numParts
      BY <1>4, <2>3
    <3>3. part[s] \in Nat /\ part'[t] \in Nat /\ numParts \in Nat
      BY <1>2, <1>3, <1>4
    <3> QED BY <3>1, <3>2, <3>3
  <2>4. CASE s \notin S /\ t \notin S
    BY <1>2, <1>4, <1>5, <2>4
  <2> QED BY <2>1, <2>2, <2>3, <2>4
<1>7. NumInv'
  <2>1. numParts' \in Nat \ {0}
    BY <1>3, <1>4
  <2>2. ASSUME NEW s \in m.live
        PROVE  part'[s] < numParts + k
    <3>1. part[s] \in Nat /\ part[s] < numParts
      BY <1>2, <1>3
    <3> QED BY <1>2, <1>3, <1>4, <3>1
  <2> QED BY <1>2, <1>4, <2>1, <2>2 DEF NumInv
<1>8. DataInv' /\ InitRespected'
  BY <1>2, <1>6 DEF PInv, DataInv, InitRespected
<1>9. NeverTooFine'
  <2> SUFFICES ASSUME NEW c \in [State -> State], Stable(m, c),
                      NEW s \in m.live, NEW t \in m.live, c[s] = c[t]
               PROVE  part'[s] = part'[t]
    BY <1>2 DEF NeverTooFine, Coarser
  <2>1. \A x, y \in m.live : c[x] = c[y] => part[x] = part[y]
    BY <1>2 DEF PInv, NeverTooFine, Coarser
  <2>2. Alike(m, c, s, t)
    BY DEF Stable
  <2>3. \A j \in Key : PartOf(part, To(m, s, j)) = PartOf(part, To(m, t, j))
    <3> SUFFICES ASSUME NEW j \in Key
                 PROVE  PartOf(part, To(m, s, j)) = PartOf(part, To(m, t, j))
      OBVIOUS
    <3>1. PartOf(c, To(m, s, j)) = PartOf(c, To(m, t, j))
      BY <2>2 DEF Alike, To
    <3>2. /\ To(m, s, j) \in m.live \cup {Null}
          /\ To(m, t, j) \in m.live \cup {Null}
      BY DEF PInv, GoodMachine, Closed
    <3>3. \A x \in m.live : c[x] # Null /\ x # Null
      BY <1>2, NullAssumption, StateAssumption
    <3> QED BY <2>1, <3>1, <3>2, <3>3 DEF PartOf
  <2>4. m.eof[s] = m.eof[t]
    BY <2>2 DEF Alike, PInv, GoodMachine, ScannerShape
  <2>5. PartitionEqual(m, part, s, t)
    BY <2>3, <2>4 DEF PartitionEqual
  <2> QED BY <1>6, <2>1, <2>5
<1>10. \A s \in m.live : part[s] # p => part'[s] = part[s]
  BY <1>2, <1>4, <1>5
<1>11. k = 0 => \A s \in m.live : part'[s] = part[s]
  BY <1>4, <1>5, <1>10
<1>12. PInv'
  BY <1>2, <1>7, <1>8, <1>9 DEF PInv
<1> QED BY <1>4, <1>6, <1>10, <1>11, <1>12

\* Fusing a state into another of its partition leaves no pointer behind.
LEMMA FuseNextPInv ==
  ASSUME PInv, FuseNext
  PROVE  PInv'
<1>1. PICK dest \in m.live, src \in m.live :
        dest < src /\ part[dest] = part[src] /\ m' = Fuse(m, dest, src)
  BY DEF FuseNext
<1>2. /\ pc = "fuse" /\ pc' = "fuse" /\ input' = input /\ part' = part
      /\ numParts' = numParts /\ m.live \subseteq Nat
  BY PointersGood DEF PInv, FuseNext
<1>3. dest # src /\ m.data[dest] = m.data[src]
  <2>1. dest \in Nat /\ src \in Nat
    BY <1>2
  <2> QED BY <1>1, <1>2, <2>1 DEF PInv, DataInv
<1>4. GoodMachine(m')
  BY <1>1, <1>3, FuseGood DEF PInv
<1>5. m'.live \subseteq m.live /\ m'.data = m.data
  BY <1>1 DEF Fuse
<1>6. NumInv' /\ DataInv'
  BY <1>2, <1>5 DEF PInv, NumInv, DataInv
<1>7. InitRespected' /\ NeverTooFine'
  BY <1>2 DEF InitRespected, NeverTooFine
<1> QED BY <1>2, <1>4, <1>6, <1>7 DEF PInv

\* Labels of live states are numbers, so none is null.
LEMMA LabelsNotNull ==
  ASSUME PInv
  PROVE  \A x \in m.live : part[x] \in Nat /\ part[x] # Null
BY PointersGood, NullAssumption DEF PInv, NumInv

\* Leaving a phase keeps the invariant.
LEMMA PhasePInv ==
  ASSUME PInv, pc' \in {"fuse", "done"}, pc \in {"split", "fuse"},
         UNCHANGED <<input, m, part, numParts>>
  PROVE  PInv'
BY DEF PInv, NumInv, DataInv, InitRespected, NeverTooFine

\* A step that changes none of the shared variables keeps the invariant.
LEMMA StutterPInv ==
  ASSUME PInv, UNCHANGED <<pc, input, m, part, numParts>>
  PROVE  PInv'
BY DEF PInv, NumInv, DataInv, InitRespected, NeverTooFine
----------------------------------------------------------------------------
(* What the list of splittable partitions is good for: a partition off it  *)
(* needs no splitting.                                                     *)

StableOff(active) ==
  \A s, t \in m.live :
    part[s] = part[t] /\ part[s] \notin active => Alike(m, part, s, t)

\* A partition none of whose states has a transition is stable at once.
LEMMA EmptyOutsStable ==
  ASSUME PInv, PartitionByData, NEW active,
         active = {part'[s] : s \in {t \in m.live : ~ OutEmpty(m, t)}}
  PROVE  \A s, t \in m.live :
           part'[s] = part'[t] /\ part'[s] \notin active => Alike(m, part', s, t)
<1> SUFFICES ASSUME NEW s \in m.live, NEW t \in m.live,
                    part'[s] = part'[t], part'[s] \notin active
             PROVE  Alike(m, part', s, t)
  OBVIOUS
<1>1. OutEmpty(m, s) /\ OutEmpty(m, t)
  OBVIOUS
<1>2. InitPartitionEqual(m, s, t)
  BY PartitionByDataFacts
<1>3. m.data[s] = m.data[t] /\ m.eof[s] = m.eof[t]
  BY <1>2, InitPartitionFacts DEF PInv, GoodMachine, ScannerShape
<1> QED BY <1>1, <1>3 DEF Alike, OutEmpty, HasTrans

\* Splitting a partition and waking those with transitions into it.
LEMMA SplitWakes ==
  ASSUME PInv, NEW p \in Nat, p < numParts, NEW active, StableOff(active),
         NEW k \in NewParts(Members(p)), SplitPartition(p, k), pc' = pc,
         NEW woken, k # 0 => \A t \in Preds(m, Members(p)) : part'[t] \in woken
  PROVE  \A s, t \in m.live :
           part'[s] = part'[t] /\ part'[s] \notin (active \ {p}) \cup woken
             => Alike(m, part', s, t)
<1> SUFFICES ASSUME NEW s \in m.live, NEW t \in m.live,
                    part'[s] = part'[t],
                    part'[s] \notin (active \ {p}) \cup woken
             PROVE  Alike(m, part', s, t)
  OBVIOUS
<1>1. /\ PInv'
      /\ \A x, y \in m.live : part'[x] = part'[y] <=>
           part[x] = part[y] /\ (part[x] = p => PartitionEqual(m, part, x, y))
      /\ \A x \in m.live : part[x] # p => part'[x] = part[x]
      /\ k = 0 => \A x \in m.live : part'[x] = part[x]
      /\ m' = m /\ pc = "split"
  BY SplitPartitionFacts DEF SplitPartition
<1>2. Alike(m, part, s, t)
  <2>1. CASE part[s] = p
    BY <1>1, <2>1, ComparedAlike DEF PInv
  <2>2. CASE part[s] # p
    BY <1>1, <2>2 DEF StableOff
  <2> QED BY <2>1, <2>2
<1>3. \A x \in m.live : part[x] # Null /\ part'[x] # Null
  <2>1. \A x \in m.live : part[x] \in Nat /\ part'[x] \in Nat
    BY <1>1, PointersGood DEF PInv, NumInv
  <2> QED BY <2>1, NullAssumption
<1>4. ASSUME NEW j \in Key, To(m, s, j) \in m.live, To(m, t, j) \in m.live,
             part[To(m, s, j)] = part[To(m, t, j)]
      PROVE  part'[To(m, s, j)] = part'[To(m, t, j)]
  <2> DEFINE x == To(m, s, j)
             y == To(m, t, j)
  <2>1. CASE part[x] # p
    BY <1>1, <1>4, <2>1
  <2>2. CASE k = 0
    BY <1>1, <1>4, <2>2
  <2>3. CASE part[x] = p /\ k # 0
    <3>1. s \in Preds(m, Members(p))
      BY <1>4, <2>3 DEF Preds, Members
    <3> QED BY <2>3, <3>1
  <2> QED BY <2>1, <2>2, <2>3
<1> QED BY <1>2, <1>3, <1>4, AlikeKept DEF PInv

\* When nothing is left to split the partitions are minimal.
LEMMA AllStableMinimal ==
  ASSUME PInv, pc = "split", StableOff({})
  PROVE  Minimal(m, part)
BY DEF PInv, StableOff, Stable, NeverTooFine, Minimal

\* A numbered partition of live states is in use.
LEMMA PartsInUse ==
  ASSUME PInv, pc \in {"split", "fuse"}
  PROVE  \A s \in m.live : part[s] \in 0 .. (numParts - 1)
<1>1. \A s \in m.live : part[s] \in Nat /\ part[s] < numParts /\ numParts \in Nat
  BY PointersGood DEF PInv, NumInv
<1> QED BY <1>1

----------------------------------------------------------------------------
(* The refinement of MinSpec: the machine is the input while it is split,  *)
(* and stands for it, with its targets taken up to partition, while it is  *)
(* fused.                                                                  *)

RefineInv ==
  /\ pc \in {"init", "split"} => m = input
  /\ pc = "fuse" => Minimal(input, part) /\ StandsFor(input, m, part)

\* The machine is the input until fusing begins.
LEMMA InitRefineInv == PartitionInit => RefineInv
BY DEF PartitionInit, RefineInv

\* A machine stands for itself.
LEMMA FuseBeginsRefineInv ==
  ASSUME PInv, RefineInv, Minimal(m, part), pc = "split", pc' = "fuse",
         UNCHANGED <<input, m, part, numParts>>
  PROVE  RefineInv'
BY StandsForItself DEF RefineInv

\* A step that changes neither machine nor phase.
LEMMA SameRefineInv ==
  ASSUME RefineInv, UNCHANGED <<pc, input, m>>, pc = "fuse" => part' = part
  PROVE  RefineInv'
BY DEF RefineInv

\* Fusing two states of one partition changes no pointer's partition.
LEMMA FuseNextRefineInv ==
  ASSUME PInv, RefineInv, FuseNext
  PROVE  RefineInv'
<1>1. PICK dest \in m.live, src \in m.live :
        dest < src /\ part[dest] = part[src] /\ m' = Fuse(m, dest, src)
  BY DEF FuseNext
<1>2. /\ pc = "fuse" /\ pc' = "fuse" /\ input' = input /\ part' = part
      /\ StandsFor(input, m, part) /\ Minimal(input, part)
      /\ GoodMachine(m) /\ m.live \subseteq Nat
  BY PointersGood DEF PInv, FuseNext, RefineInv
<1>3. dest \in Nat /\ src \in Nat
  BY <1>2
<1>4. StandsFor(input, m', part)
  BY <1>1, <1>2, <1>3, FuseStandsFor
<1> QED BY <1>2, <1>4 DEF RefineInv

\* When fusing ends every partition has one state left.
LEMMA OneStatePerPart ==
  ASSUME PInv, FuseDone, NEW s \in m.live, NEW t \in m.live, part[s] = part[t]
  PROVE  s = t
<1> DEFINE M == Members(part[s])
<1>1. m.live \subseteq State /\ pc = "fuse"
  BY PointersGood DEF PInv, FuseDone
<1>2. part[s] \in Nat /\ part[s] < numParts /\ numParts \in Nat
  BY <1>1 DEF PInv, NumInv
<1>3. part[s] \in 0 .. (numParts - 1)
  BY <1>2
<1>4. Cardinality(M) = 1
  BY <1>3 DEF FuseDone
<1>5. M \subseteq State /\ s \in M /\ t \in M
  BY <1>1 DEF Members
<1>6. IsFiniteSet(M)
  BY <1>5, StateAssumption, FS_Subset
<1>7. \E x : M = {x}
  <2> HIDE DEF M
  <2> QED BY <1>4, <1>6, FS_Singleton
<1> QED BY <1>5, <1>7

\* Then the machine is the input's quotient by the partitions.
LEMMA FuseDoneQuotient ==
  ASSUME PInv, RefineInv, FuseDone
  PROVE  \E rep \in [State -> State] : Quotient(input, rep, m) /\ Minimal(input, rep)
<1> DEFINE rep == Survivor(input, m, part)
<1>1. /\ GoodMachine(input) /\ GoodMachine(m) /\ StandsFor(input, m, part)
      /\ Minimal(input, part) /\ Stable(input, part) /\ OnePerLabel(m, part)
  BY OneStatePerPart DEF PInv, RefineInv, FuseDone, Minimal, OnePerLabel
<1>2. \A s \in input.live : part[s] # Null
  <2>1. \A s \in input.live : part[s] \in Nat
    BY PointersGood DEF PInv, NumInv
  <2> QED BY <2>1, NullAssumption
<1>3. rep \in [State -> State] /\ Quotient(input, rep, m) /\ Minimal(input, rep)
  BY <1>1, <1>2, SurvivorFacts, StandsForIsQuotient, SurvivorStable
<1> QED BY <1>3

\* The last step of fusing is the step of MinSpec.
LEMMA FuseDoneMinimizes ==
  ASSUME PInv, RefineInv, FuseDone
  PROVE  Abstract!Minimize
<1>1. PICK rep \in [State -> State] : Quotient(input, rep, m) /\ Minimal(input, rep)
  BY FuseDoneQuotient
<1>2. pc = "fuse" /\ pc' = "done" /\ m' = m /\ input' = input
  BY DEF FuseDone
<1>3. Abstract!Quotient(input, rep, m)
  BY <1>1 DEF Abstract!Quotient, Quotient, Abstract!PartOf, PartOf,
              Abstract!HasTrans, HasTrans, Abstract!To, To
<1>4. Abstract!Minimal(input, rep)
  <2>1. ASSUME NEW lab
        PROVE  Abstract!Stable(input, lab) <=> Stable(input, lab)
    BY DEF Abstract!Stable, Stable, Abstract!Alike, Alike,
           Abstract!PartOf, PartOf
  <2>2. ASSUME NEW c
        PROVE  Abstract!Coarser(input, rep, c) <=> Coarser(input, rep, c)
    BY DEF Abstract!Coarser, Coarser
  <2> QED BY <1>1, <2>1, <2>2 DEF Abstract!Minimal, Minimal
<1> QED BY <1>2, <1>3, <1>4 DEF Abstract!Minimize

\* Every other step leaves the abstract state as it is.
LEMMA OtherStepsStutter ==
  ASSUME input' = input, pc = "done" <=> pc' = "done", pc = "done" => m' = m
  PROVE  UNCHANGED Abstract!vars
BY DEF Abstract!vars
----------------------------------------------------------------------------
(* The parts array.  Every partition in use keeps a state until fusing      *)
(* begins, so there are never more partitions than states.                  *)

PartsInv ==
  /\ pc \in {"init", "split"} => m = input
  /\ pc = "init" => numParts = 1
  /\ pc = "split" => \A q \in 0 .. (numParts - 1) : Members(q) # {}
  /\ pc = "fuse" => numParts <= Cardinality(input.live)

\* Each partition a split may use gets a state.
LEMMA SplitCovers ==
  ASSUME NEW S \in SUBSET State, NEW p \in Nat, NEW k \in Nat, NEW R,
         Split(S, p, k, R)
  PROVE  /\ \A q \in {p} \cup numParts .. (numParts + k - 1) :
              \E s \in S : part'[s] = q
         /\ \A s \in State \ S : part'[s] = part[s]
         /\ numParts' = numParts + k
<1>1. PICK f \in Assignments(S, p, k, R) :
        /\ part' = [s \in State |-> IF s \in S THEN f[s] ELSE part[s]]
        /\ numParts' = numParts + k
  BY DEF Split
<1>2. \A q \in {p} \cup numParts .. (numParts + k - 1) : \E s \in S : f[s] = q
  BY DEF Assignments
<1>3. \A s \in S : part'[s] = f[s]
  BY <1>1
<1> QED BY <1>1, <1>2, <1>3

\* If every one of n partitions has a state, there are n states.
LEMMA PartsBound ==
  ASSUME PInv, m.live \subseteq input.live,
         \A s \in m.live : part[s] < numParts,
         \A q \in 0 .. (numParts - 1) : Members(q) # {}
  PROVE  numParts <= Cardinality(input.live)
<1> DEFINE L == input.live
           N == 0 .. (numParts - 1)
           f == [s \in L |-> IF s \in m.live THEN part[s] ELSE 0]
<1>1. /\ L \subseteq State /\ m.live \subseteq State
      /\ part \in [State -> Nat] /\ numParts \in Nat \ {0}
  BY PointersGood DEF PInv, NumInv
<1>2. IsFiniteSet(L)
  BY <1>1, StateAssumption, FS_Subset
<1>3. \A s \in L : f[s] \in N
  <2>1. \A s \in m.live : part[s] \in Nat /\ part[s] < numParts
    BY <1>1
  <2>2. \A s \in m.live : part[s] \in N
    BY <1>1, <2>1
  <2>3. 0 \in N
    BY <1>1
  <2> QED BY <2>2, <2>3
<1>4. \A q \in N : \E s \in L : f[s] = q
  BY DEF Members
<1>5. f \in Surjection(L, N)
  BY <1>3, <1>4 DEF Surjection
<1>6. Cardinality(N) <= Cardinality(L)
  <2> HIDE DEF f, L, N
  <2> QED BY <1>2, <1>5, FS_Surjection
<1>7. Cardinality(N) = numParts
  BY <1>1, FS_Interval
<1> QED BY <1>6, <1>7

\* Splitting the initial partition.
LEMMA PartitionByDataPartsInv ==
  ASSUME PInv, PartsInv, PartitionByData
  PROVE  PartsInv'
<1> DEFINE R == {r \in m.live \X m.live : InitPartitionEqual(m, r[1], r[2])}
<1>1. PICK k \in NewParts(m.live) : Split(m.live, 0, k, R)
  BY DEF PartitionByData
<1>2. /\ m' = m /\ input' = input /\ pc = "init" /\ pc' = "split"
      /\ m.live \in SUBSET State /\ k \in Nat /\ numParts = 1
  BY PointersGood DEF PInv, PartitionByData, PartsInv, NewParts
<1>3. /\ \A q \in {0} \cup 1 .. k : \E s \in m.live : part'[s] = q
      /\ numParts' = 1 + k
  <2>1. /\ \A q \in {0} \cup numParts .. (numParts + k - 1) :
             \E s \in m.live : part'[s] = q
        /\ numParts' = numParts + k
    <3> HIDE DEF R
    <3> QED BY <1>1, <1>2, SplitCovers
  <2>2. numParts + k - 1 = k
    BY <1>2
  <2> QED BY <1>2, <2>1, <2>2
<1>4. \A q \in 0 .. (numParts' - 1) : \E s \in m.live : part'[s] = q
  BY <1>2, <1>3
<1> QED BY <1>2, <1>4 DEF PartsInv, Members

\* Splitting one partition: the others keep their states, and it and the
\* new ones get some.
LEMMA SplitPartitionPartsInv ==
  ASSUME PInv, PartsInv, NEW p \in Nat, p < numParts,
         NEW k \in NewParts(Members(p)), SplitPartition(p, k), pc' = pc
  PROVE  PartsInv'
<1> DEFINE S == Members(p)
           R == {r \in S \X S : PartitionEqual(m, part, r[1], r[2])}
<1>1. Split(S, p, k, R)
  BY DEF SplitPartition
<1>2. /\ m' = m /\ input' = input /\ pc = "split" /\ pc' = "split"
      /\ m.live \subseteq State /\ S \in SUBSET State
      /\ k \in Nat /\ numParts \in Nat \ {0}
  BY PointersGood DEF PInv, NumInv, SplitPartition, Members, NewParts
<1>3. /\ \A q \in {p} \cup numParts .. (numParts + k - 1) :
           \E s \in S : part'[s] = q
      /\ \A s \in State \ S : part'[s] = part[s]
      /\ numParts' = numParts + k
  <2> HIDE DEF S, R
  <2> QED BY <1>1, <1>2, SplitCovers
<1>4. ASSUME NEW q \in 0 .. (numParts' - 1)
      PROVE  \E s \in m.live : part'[s] = q
  <2>1. CASE q = p \/ q >= numParts
    <3>1. q \in {p} \cup numParts .. (numParts + k - 1)
      BY <1>2, <1>3, <2>1
    <3>2. PICK s \in S : part'[s] = q
      BY <1>3, <3>1
    <3> QED BY <3>2 DEF Members
  <2>2. CASE q # p /\ q < numParts
    <3>1. q \in 0 .. (numParts - 1)
      BY <1>2, <1>3, <2>2
    <3>2. Members(q) # {}
      BY <1>2, <3>1 DEF PartsInv
    <3>3. PICK s \in m.live : part[s] = q
      BY <3>2 DEF Members
    <3>4. s \in State \ S
      BY <1>2, <2>2, <3>3 DEF Members
    <3> QED BY <1>3, <3>3, <3>4
  <2> QED BY <1>2, <1>3, <2>1, <2>2
<1> QED BY <1>2, <1>4 DEF PartsInv, Members

\* The two parts of the invariant give PartsFit.
LEMMA PartsInvFits == PInv /\ PartsInv /\ RefineInv => PartsFit
<1> SUFFICES ASSUME PInv, PartsInv, RefineInv, pc \in {"split", "fuse"}
             PROVE  PartsFit
  BY DEF PartsFit
<1>1. /\ \A s \in m.live : part[s] \in Nat /\ part[s] < numParts
      /\ numParts \in Nat
  BY LabelsNotNull DEF PInv, NumInv
<1>2. \A s \in m.live : part[s] \in 0 .. (numParts - 1)
  BY <1>1
<1>3. numParts <= Cardinality(input.live)
  BY <1>1, PartsBound DEF PartsInv
<1> QED BY <1>2, <1>3 DEF PartsFit, PartsInv

\* Leaving the split phase, and steps that split nothing.
LEMMA FuseBeginsPartsInv ==
  ASSUME PInv, PartsInv, pc = "split", pc' = "fuse",
         UNCHANGED <<input, m, part, numParts>>
  PROVE  PartsInv'
<1>1. \A s \in m.live : part[s] < numParts
  BY DEF PInv, NumInv
<1>2. numParts <= Cardinality(input.live)
  BY <1>1, PartsBound DEF PartsInv
<1> QED BY <1>2 DEF PartsInv

LEMMA SamePartsInv ==
  ASSUME PartsInv,
         \/ UNCHANGED <<pc, input, m, part, numParts>>
         \/ FuseNext
         \/ FuseDone
  PROVE  PartsInv'
BY DEF PartsInv, FuseNext, FuseDone, Members
=============================================================================
