----------------------------- MODULE LookupSpec -----------------------------
(***************************************************************************)
(* What looking up a transition promises, whatever was reduced and however *)
(* it is laid out: asked for a state, a character and the conditions that  *)
(* hold, it sooner or later answers what the machine says, the error       *)
(* transition where the machine says nothing; asked for the end of the     *)
(* input, the EOF transition of the state if it has one.                   *)
(***************************************************************************)
EXTENDS TableCode

CONSTANT Conds   \* the conditions

VARIABLES machine,    \* a sequence of states, whatever it is
          question, answer

vars == <<machine, question, answer>>

Nothing == [s |-> 0]

EofAsked == MaxKey + 1   \* the end of the input, asked like a character

\* The key that a character stands for in state st.
WideKey(st, k, holds) ==
  LET at == {c \in Range(st.conds) : k \in c.lo .. c.hi}
  IN  IF at = {} THEN k ELSE Widened((CHOOSE c \in at : TRUE).space, k, holds)

Answer(q) ==
  LET st == machine[q.s]
  IN  IF q.k = EofAsked THEN st.eof ELSE Meant(st.list, WideKey(st, q.k, q.holds))

Init == question = Nothing /\ answer = NoTrans

Ask == /\ question = Nothing
       /\ \E s \in 1 .. Len(machine) \ {Err}, k \in Alphabet \cup {EofAsked}, h \in SUBSET Conds :
            question' = [s |-> s, k |-> k, holds |-> h]
       /\ answer' = NoTrans
       /\ UNCHANGED machine

Reply == /\ question # Nothing
         /\ answer' = Answer(question)
         /\ question' = Nothing
         /\ UNCHANGED machine

Spec == Init /\ [][Ask \/ Reply]_vars /\ WF_vars(Reply)
=============================================================================
