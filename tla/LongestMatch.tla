---------------------------- MODULE LongestMatch ----------------------------
(***************************************************************************)
(* LongestMatch::runLongestMatch, which turns the union of the patterns of *)
(* a scanner into a backtracking machine.  A state's item set holds the    *)
(* patterns that may be the last one matched when the state has no         *)
(* transition on the next character (0: nothing was matched); it decides   *)
(* which error action the state gets, and which transitions must record    *)
(* the end (te) and the identity (act) of a match.                         *)
(*                                                                         *)
(* out[s][k].to is None where the state has no transition on k, and Null   *)
(* where it has one to the error state (left by an error or a leaving      *)
(* action); lm is the transition's lmActionTable.                          *)
(***************************************************************************)
EXTENDS Integers, FiniteSetsExt, Functions

CONSTANTS State, Key, Pat, Start, Fresh, Null, None, Err

ASSUME ScanConstants == /\ Start \in State /\ Fresh \notin State
                        /\ Pat \subseteq Nat \ {0}
                        /\ {Null, None, Err} \cap (State \cup {Fresh}) = {}
                        /\ None \notin Nat

Node == State \cup {Fresh}

Edge == [to : State \cup {Null, None}, lm : SUBSET Pat]

\* What the runtime does for a character: the embedded actions, the pattern
\* they are about, and the target.
Move == [to : Node \cup {Err},
         do : SUBSET {"te", "act", "last", "next", "lag", "switch"},
         pat : Pat \cup {0}]

\* The final states some transition leads to.
Fin(out) == {t \in State : \E s \in State, k \in Key :
                             out[s][k].to = t /\ out[s][k].lm # {}}

\* A transition completes a match exactly when its target is final.
ScannerGraph == {out \in [State -> [Key -> Edge]] :
                   \A s \in State, k \in Key :
                     out[s][k].lm # {} <=> out[s][k].to \in Fin(out)}

HasOut(out, s) == \E k \in Key : out[s][k].to # None

\* markReachableFromHereStopFinal: the least set that holds s and, with a
\* state, the targets of its transitions that are not final.
StopFinal(out, s) ==
  LET Step == {e \in State \X (State \ Fin(out)) : \E k \in Key : out[e[1]][k].to = e[2]}
      Closed(M) == s \in M /\ \A e \in Step : e[1] \in M => e[2] \in M
  IN {t \in State : \A M \in SUBSET State : Closed(M) => t \in M}

\* Only the first entry of an lmActionTable is ever looked at.
LmActLast(e) == Max(e.lm)
LmAct(e) == Min(e.lm)

\* The two passes that fill lmItemSet.
Items(out) ==
  LET from == [s \in State |-> StopFinal(out, s)]
  IN [s \in State |->
        (IF s \in from[Start] THEN {0} ELSE {})
        \cup {LmAct(e) : e \in {f \in UNION {Range(out[r]) : r \in State} :
                 /\ f.lm # {} /\ HasOut(out, f.to)
                 /\ s \in from[f.to]}}]

\* An item set of length two or more.
Many(set) == \E x, y \in set : x # y

\* lmSwitchHandlesError: the switch may be reached before any match.
HandlesError(out, items) == \E s \in StopFinal(out, Start) : Many(items[s])

\* isStartStateIsolated, isolateStartState: the start state after isolation.
Isolated(out) == \A s \in State, k \in Key : out[s][k].to # Start

Root(out) == IF Isolated(out) THEN Start ELSE Fresh

\* A bug: te is set only where act is.
OnMatchEndForgotten(out, items, e) ==
  IF ~HasOut(out, e.to) THEN {"last"}
  ELSE IF \E s \in StopFinal(out, e.to) : Many(items[s]) THEN {"te", "act"} ELSE {}

\* A bug: act is set only where the switch may find that nothing matched.
OnMatchActLate(out, items, e) ==
  IF ~HasOut(out, e.to) THEN {"last"}
  ELSE {"te"} \cup IF \E s \in StopFinal(out, e.to) : 0 \in items[s] /\ Many(items[s])
                   THEN {"act"} ELSE {}

\* The actions embedded in a transition that completes a match.
OnMatch(out, items, e) ==
  LET ahead == StopFinal(out, e.to)
      choice == \E s \in ahead : Many(items[s])
  IN IF ~HasOut(out, e.to) THEN {"last"}
     ELSE (IF choice \/ \E s \in ahead \ Fin(out) : items[s] # {} THEN {"te"} ELSE {})
          \cup (IF choice THEN {"act"} ELSE {})

\* A transition that leads to a state, after the embedding and the restarts.
Taken(out, items, e) ==
  IF e.lm = {} THEN [to |-> e.to, do |-> {}, pat |-> 0]
  ELSE LET do == OnMatch(out, items, e)
       IN [to |-> IF "last" \in do THEN Root(out) ELSE e.to,
           do |-> do, pat |-> LmAct(e)]

\* A bug: a state where nothing may have matched has no error action.
OnErrorUnmatched(out, items, s) ==
  LET set == IF s = Fresh THEN {} ELSE items[s]
  IN IF set = {} \/ 0 \in set THEN [to |-> Err, do |-> {}, pat |-> 0]
     ELSE IF Many(set) THEN [to |-> Root(out), do |-> {"switch"}, pat |-> 0]
     ELSE [to |-> Root(out), pat |-> Min(set),
           do |-> IF s \in Fin(out) THEN {"next"} ELSE {"lag"}]

\* A bug: the last character read is always taken for the end of the match.
OnErrorNext(out, items, s) ==
  LET set == IF s = Fresh THEN {} ELSE items[s]
  IN IF set \subseteq {0} THEN [to |-> Err, do |-> {}, pat |-> 0]
     ELSE IF Many(set) THEN [to |-> Root(out), do |-> {"switch"}, pat |-> 0]
     ELSE [to |-> Root(out), do |-> {"next"}, pat |-> Min(set)]

\* setErrorTarget, eofActionTable and eofTarget: what a state does where it
\* has no transition.
OnError(out, items, s) ==
  LET set == IF s = Fresh THEN {} ELSE items[s]
  IN IF set \subseteq {0} THEN [to |-> Err, do |-> {}, pat |-> 0]
     ELSE IF Many(set) THEN [to |-> Root(out), do |-> {"switch"}, pat |-> 0]
     ELSE [to |-> Root(out), pat |-> Min(set),
           do |-> IF s \in Fin(out) THEN {"next"} ELSE {"lag"}]

\* The machine runLongestMatch leaves behind.
RunLongestMatch(out) ==
  LET items == Items(out)
      edge(s, k) == out[IF s = Fresh THEN Start ELSE s][k]
  IN [root |-> Root(out),
      move |-> [s \in Node |-> [k \in Key |->
                  IF edge(s, k).to \in State THEN Taken(out, items, edge(s, k))
                                             ELSE OnError(out, items, s)]],
      atEof |-> [s \in Node |-> OnError(out, items, s)],
      handlesError |-> HandlesError(out, items),
      inLmSelect |-> (UNION {items[s] : s \in {r \in State : Many(items[r])}}) \ {0}]
=============================================================================
