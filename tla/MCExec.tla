-------------------------------- MODULE MCExec --------------------------------
(***************************************************************************)
(* Jobs for the loops: a machine of two states that goes round on a, stays *)
(* in 1 and fails in 2 on b, with one list of statements in one place, and *)
(* a short input in one block or two.                                      *)
(***************************************************************************)
EXTENDS Exec

C(n) == Stmt("code", n)
J(op) == Stmt(op, 0)

\* A base machine: with marks everywhere (rich) or on transitions only;
\* calling: failing in 2 is replaced by a call of 1.
Base(rich, calling) ==
  [move  |-> << [a |-> [to |-> 2, do |-> <<C(1)>>], b |-> [to |-> 1, do |-> <<>>]],
                [a |-> [to |-> 1, do |-> <<C(2)>>],
                 b |-> IF calling THEN [to |-> 2, do |-> <<Stmt("call", 1)>>]
                                  ELSE [to |-> Err, do |-> <<C(3)>>]] >>,
   atEof |-> [s \in State |-> NoTrans],
   from  |-> [s \in State |-> IF rich THEN <<C(10 + s)>> ELSE <<>>],
   into  |-> [s \in State |-> IF rich THEN <<C(20 + s)>> ELSE <<>>],
   eof   |-> [s \in State |-> IF rich THEN <<C(30 + s)>> ELSE <<>>]]

\* Lists: what stands before and after one of Ragel's statements.
Plain == {<<Stmt("goto", 1), C(8)>>, <<C(9), Stmt("goto", 2), C(8)>>,
          <<Stmt("call", 1), C(8)>>, <<Stmt("call", 2), C(8)>>,
          <<C(9), J("ret"), C(8)>>, <<J("break"), C(8)>>,
          <<Stmt("next", 1), C(8)>>, <<Stmt("next", 1), J("break")>>}
Held  == {<<J("hold")>> \o l : l \in Plain} \cup {<<Stmt("exec", 1), C(9), Stmt("goto", 1)>>}
Only  == {<<J("hold"), C(9)>>, <<Stmt("exec", 0), Stmt("goto", 2), C(8)>>, <<J("curs"), J("targs")>>,
          <<Stmt("next", 1), J("targs")>>}

Machines ==
  {[Base(r, c) EXCEPT !.move[1]["a"].do = l] : r \in BOOLEAN, c \in BOOLEAN, l \in Plain \cup Only}
    \cup {[Base(TRUE, c) EXCEPT !.move[2]["a"].do = l] : c \in BOOLEAN, l \in Plain \cup Held}
    \cup {[Base(TRUE, c) EXCEPT !.from[2] = l] : c \in BOOLEAN, l \in Plain}
    \cup {[Base(TRUE, c) EXCEPT !.into[2] = l] : c \in BOOLEAN, l \in Plain}
    \cup {[Base(TRUE, c) EXCEPT !.eof[2] = l] : c \in BOOLEAN, l \in Plain \cup Held}
    \cup {[Base(TRUE, c) EXCEPT !.atEof[2] = [to |-> t, do |-> l]] :
             c \in BOOLEAN, t \in State, l \in Held \cup {<<J("hold"), J("curs"), C(9)>>}}
    \cup {[Base(TRUE, FALSE) EXCEPT !.eof[2] = <<Stmt("next", 1), Stmt("exec", 0), Stmt("call", 2)>>,
                                    !.move[2]["a"].do = <<J("ret")>>],
          [Base(TRUE, FALSE) EXCEPT !.move[1]["a"].do = <<Stmt("next", 1), Stmt("call", 2), C(8)>>,
                                    !.move[2]["a"].do = <<J("ret"), C(8)>>]}

Words == {<<>>} \cup {<<x>> : x \in Key} \cup {<<x, y>> : x \in Key, y \in Key}
           \cup {<<"a", "b", "a">>, <<"a", "a", "a">>, <<"a", "b", "b">>}

\* One block, or two.
Cuts(w) == {<<Len(w)>>} \cup {<<n, Len(w)>> : n \in 1 .. Len(w) - 1}

SomeJob == \E m \in Machines, w \in Words : \E c \in Cuts(w) :
             job = [machine |-> m, word |-> w, cuts |-> c, eof |-> TRUE]

MCInit == SomeJob /\ Init

MCSpec == MCInit /\ [][Next]_vars /\ WF_vars(Next)

\* Every job, whatever the style is known to lack.
BeginSpec == SomeJob /\ Begin /\ [][Next]_vars

\* One style for each that has a loop of its own.
Same(x, y) ==
  /\ ProgramOf[x] = ProgramOf[y]
  /\ \A f \in BOOLEAN, t \in State, n \in BOOLEAN,
        s \in {Stmt("goto", 1), Stmt("call", 1), J("ret"), Stmt("next", 1), J("curs"),
               J("targs"), J("break")} : JumpOf(x, s, f, t, n) = JumpOf(y, s, f, t, n)
  /\ \A set \in {InPlace, OCamlStyles, CStyles \cup GoStyles, {"rbxgoto"}} : x \in set <=> y \in set

Representatives == {CHOOSE y \in Style : Same(x, y) : x \in Style}
=============================================================================
