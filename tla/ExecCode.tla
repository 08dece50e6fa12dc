------------------------------- MODULE ExecCode -------------------------------
(***************************************************************************)
(* The instructions generated execution loops are made of.  A program is a *)
(* sequence of them; control falls from one to the next, and a label       *)
(* stands for the place of the instruction after it.  The languages differ *)
(* in how they reach a label (goto, continue with a target, a level tested *)
(* by a chain of ifs, a call of the function named after it), not in where *)
(* it is.                                                                  *)
(***************************************************************************)
EXTENDS ExecMachine, SequencesExt

Label(l) == [op |-> "label", to |-> l]
Goto(l)  == [op |-> "goto", to |-> l]

\* Tests, and the step to the next character.
IfEnd(l)     == [op |-> "ifEnd", to |-> l]       \* p = pe
IfErr(l)     == [op |-> "ifErr", to |-> l]       \* cs is the error state
UnlessEof(l) == [op |-> "unlessEof", to |-> l]   \* p is not eof
Advance(l)   == [op |-> "advance", to |-> l]     \* p moves on, is not pe

\* The transition on the next character, and at EOF if the state has one.
Locate      == [op |-> "locate"]
EofTrans(l) == [op |-> "eofTrans", to |-> l]

\* The target of the transition becomes the current state, ps the state it
\* leaves.
Enter  == [op |-> "enter"]
SavePs == [op |-> "savePs"]

\* An action list is run.  An exception its jumps raise is caught at label l.
Never      == "uncaught"
From(l)    == [op |-> "from", to |-> l]
Acts(l)    == [op |-> "acts", to |-> l]
Into(l)    == [op |-> "into", to |-> l]
EofActs(l) == [op |-> "eofActs", to |-> l]

\* After a list: leave for the level a jump in it has set.
IfTriggered == [op |-> "ifTriggered"]

\* Statements on the way: each is what a jump expands to, in part.
SetCs(s)   == [op |-> "setCs", arg |-> s]
PushCs     == [op |-> "pushCs"]
Pop        == [op |-> "pop"]
Step       == [op |-> "step"]                    \* p moves on
Trigger(l) == [op |-> "trigger", to |-> l]       \* break, the level is l
Raise      == [op |-> "raise"]
LogCs      == [op |-> "logCs"]
LogPs      == [op |-> "logPs"]

\* The loops that have code for each state keep the state whose code runs,
\* at, apart from cs.
SwitchCs(l) == [op |-> "switchCs", to |-> l]     \* at the case of cs, if any
Dispatch    == [op |-> "dispatch"]               \* at the code of cs
Stray       == [op |-> "stray"]                  \* at the first state's exit
SaveCs      == [op |-> "saveCs"]                 \* cs is the state at
SetAt(s)    == [op |-> "setAt", arg |-> s]
Push(s)     == [op |-> "push", arg |-> s]
LogArg(s)   == [op |-> "logArg", arg |-> s]
IfAtErr(l)  == [op |-> "ifAtErr", to |-> l]
FromAt      == [op |-> "fromAt"]
LocateAt    == [op |-> "locateAt"]
IntoAt      == [op |-> "intoAt"]
Preload     == [op |-> "preload"]                \* cs, if the actions may set it
IfNext(l)   == [op |-> "ifNext", to |-> l]
Arrive      == [op |-> "arrive"]                 \* at the target

-----------------------------------------------------------------------------
(***************************************************************************)
(* The two shapes of loop.  The first keeps the current state in cs alone  *)
(* and enters every state at one place, again.  test: what follows each    *)
(* action list; l: where the exceptions of transition and EOF actions are  *)
(* caught.                                                                 *)
(***************************************************************************)
Loop(test, l) ==
  <<IfEnd("test_eof"), IfErr("out"),
    Label("resume"), From(Never)>> \o test \o
  <<Locate,
    Label("eof_trans"), SavePs, Enter, Acts(l)>> \o test \o
  <<Label("again"), Into(Never)>> \o test \o
  <<IfErr("out"), Advance("resume"),
    Label("test_eof"), UnlessEof("out"), EofTrans("eof_trans"), EofActs(l)>> \o test \o
  <<Label("out")>>

\* The second has code for every state.  stray: where the loop goes when it
\* is called in the error state.
InPlaceLoop(stray) ==
  <<IfEnd("test_eof"), Goto("resume"),
    Label("again"), Dispatch, Goto("st"),
    Label("resume"), SwitchCs(stray),
    Label("case"), FromAt, SavePs, LocateAt,
    Label("tr"), Preload, Acts(Never), IfNext("again"), Arrive,
    Label("st"), IfAtErr("err"), IntoAt, Advance("case"),
    Label("exit"), SaveCs,
    Label("test_eof"), UnlessEof("out"), EofTrans("tr"), EofActs(Never), Goto("out"),
    Label("stray"), Stray, Goto("exit"),
    Label("err"), SaveCs,
    Label("out")>>

\* What a jump does before it enters its target, and what fbreak does before
\* it leaves, where the current state is in cs.
InCs(s, enter, leave) ==
  CASE s.op = "goto"  -> <<SetCs(s.arg)>> \o enter
    [] s.op = "call"  -> <<PushCs, SetCs(s.arg)>> \o enter
    [] s.op = "ret"   -> <<Pop>> \o enter
    [] s.op = "next"  -> <<SetCs(s.arg)>>
    [] s.op = "curs"  -> <<LogPs>>
    [] s.op = "targs" -> <<LogCs>>
    [] s.op = "break" -> <<Step>> \o leave

\* What is written for a statement: j for one that the style has a form of
\* its own for.
Inlined(s, j) == IF s.op \in {"code", "hold", "exec"} THEN <<s>> ELSE j

\* EOF_CHECK: in an EOF action (fin) the block may be used up.
CheckEof(fin, l) == IF fin THEN <<IfEnd(l)>> ELSE <<>>
=============================================================================
