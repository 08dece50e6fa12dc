------------------------------ MODULE MCAfterOp ------------------------------
(* The four minimizers on small machines that need cleaning first. *)
EXTENDS AfterOp, SmallMachines

CONSTANT Conds   \* a condition list that is not empty

\* Machines of three states with an entry point, not all of which need be
\* reachable; with whole lists, larger machines that are.
Unclean(S) ==
  {x \in [live : {S}, data : [State -> {Bare(Accept), Bare(NonAccept)}],
          out : Outs(PlainActs),
          eof : {[s \in State |-> Null]}, start : Starts \cap S,
          entry : {{<<e, s>>} : e \in EntryId, s \in S}] :
     /\ \A e \in x.entry : e[2] # x.start
     /\ \A s \in S, k \in Key : To(x, s, k) \in S \cup {Null}
     /\ \A s \in State \ S : /\ x.data[s] = Bare(NonAccept)
                            /\ x.out[s] = [k \in Key |-> NoTrans]}

\* Reachable machines whose states differ in what ApproxCompare does not look
\* at: condition lists and the data of error transitions.
Hiding(S) ==
  LET Part(f, other) == [s \in State |-> IF s \in S THEN f[s] ELSE other]
  IN {x \in [live : {S},
             data : {Part(f, Bare(NonAccept)) :
                       f \in [S -> [state : {Accept, NonAccept}, conds : CondList]]},
             out : {Part(f, [k \in Key |-> NoTrans]) : f \in Outs(Act)},
             eof : {[s \in State |-> Null]}, start : Starts, entry : {{}}] :
        Reachable(x) = S}

Graphs == Unclean(ScanStates) \cup PlainMachines \cup Hiding(ScanStates)

\* minimizeStable is not given error transitions (NoFault says why).
NoErrors(g) == \A s \in State, k \in Key : HasTrans(g, s, k) => To(g, s, k) # Null

MCInit == /\ OpInit
          /\ level = "stable" => NoErrors(graph)
          /\ CASE level = "approx" -> graph \in PlainMachines \cup Hiding(ScanStates)
               [] level = "stable" -> graph \in PlainMachines
               [] OTHER -> graph \in Unclean(ScanStates)

MCSpec == MCInit /\ [][OpNext]_opVars /\ WF_opVars(OpNext)
=============================================================================
