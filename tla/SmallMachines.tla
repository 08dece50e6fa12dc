--------------------------- MODULE SmallMachines ---------------------------
(* Machines of a given size for TLC: every machine on the states State all *)
(* of which can be reached, as after removeUnreachableStates.              *)
EXTENDS Fsm

CONSTANTS Accept, NonAccept, ScanStart,   \* values of StateData
          NoConds,                        \* the empty condition list
          PlainActs,                      \* what transitions to states carry
          Starts,                         \* where on the list the start is
          ScanStates                      \* how large scanners are

Bare(d) == [state |-> d, conds |-> NoConds]

\* Out lists; error transitions carry one of errs.
Outs(errs) == [State -> [Key -> {NoTrans} \cup [to : State, act : PlainActs]
                                          \cup [to : {Null}, act : errs]]]

\* Machines without EOF targets, as every operator but the scanner's makes.
PlainMachines ==
  {x \in [live : {State}, data : [State -> {Bare(Accept), Bare(NonAccept)}],
          out : Outs(PlainActs), eof : {[s \in State |-> Null]},
          start : Starts, entry : {{}}] : Reachable(x) = State}

\* Scanners: the start state was isolated by runLongestMatch.
ScannerMachines ==
  {x \in [live : {ScanStates}, data : [State -> {Bare(d) : d \in StateData}],
          out : Outs(PlainActs), eof : [State -> {Null} \cup Starts],
          start : Starts, entry : {{}}] :
     /\ \A s \in State : x.data[s] = Bare(ScanStart) <=> s = x.start
     /\ \A s \in State \ ScanStates : /\ x.data[s] = Bare(NonAccept)
                                      /\ x.eof[s] = Null
                                      /\ x.out[s] = [k \in Key |-> NoTrans]
     /\ ScannerShape(x)
     /\ Reachable(x) = ScanStates}

\* TLC names constants, not expressions.
AllMachines == PlainMachines \cup ScannerMachines
=============================================================================
