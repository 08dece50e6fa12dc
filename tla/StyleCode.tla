----------------------------- MODULE StyleCode -----------------------------
(***************************************************************************)
(* The loops of the code generators: the program of each style, and what   *)
(* Ragel's statements expand to in it (fin: in an EOF action; targ: the    *)
(* state the generator knows the action leads to; set: its action list     *)
(* contains fnext).  First C and D, then Go.                               *)
(***************************************************************************)
EXTENDS ExecCode

FsmCodeGen_INLINE_LIST(s, j) == Inlined(s, j)

\* Table styles: actions looked up in a table or in functions of their own,
\* keys searched for or indexed with.
TabCodeGen_writeExec   == Loop(<<>>, Never)
FTabCodeGen_writeExec  == Loop(<<>>, Never)
FlatCodeGen_writeExec  == Loop(<<>>, Never)
FFlatCodeGen_writeExec == Loop(<<>>, Never)

\* Mutant: the jumps before Ragel 6.10.
TabCodeGen_jumpUnchecked(s, fin, targ, set) == InCs(s, <<Goto("again")>>, <<Goto("out")>>)

TabCodeGen_jump(s, fin, targ, set) ==
  InCs(s, CheckEof(fin, "test_eof") \o <<Goto("again")>>, <<Goto("out")>>)

FlatCodeGen_jump(s, fin, targ, set) ==
  InCs(s, CheckEof(fin, "test_eof") \o <<Goto("again")>>, <<Goto("out")>>)

\* A label for every transition: the label eof_trans stands for all of them.
GotoCodeGen_writeExec  == Loop(<<>>, Never)
FGotoCodeGen_writeExec == Loop(<<>>, Never)

GotoCodeGen_jump(s, fin, targ, set) ==
  InCs(s, CheckEof(fin, "test_eof") \o <<Goto("again")>>, <<Goto("out")>>)

\* Code for every state but the error state: the switch over cs has no case
\* for it and falls through to the exit of the first state.
IpGotoCodeGen_writeExec == InPlaceLoop("stray")

IpGotoCodeGen_jump(s, fin, targ, set) ==
  CASE s.op = "goto"  -> <<SetAt(s.arg)>> \o CheckEof(fin, "exit") \o <<Goto("st")>>
    [] s.op = "call"  -> <<Push(targ), SetAt(s.arg)>> \o CheckEof(fin, "exit") \o <<Goto("st")>>
    [] s.op = "ret"   -> <<Pop>> \o CheckEof(fin, "test_eof") \o <<Goto("again")>>
    [] s.op = "next"  -> <<SetCs(s.arg)>>
    [] s.op = "curs"  -> <<LogPs>>
    [] s.op = "targs" -> <<LogArg(targ)>>
    [] s.op = "break" -> <<Step>> \o (IF set THEN <<>> ELSE <<SetCs(targ)>>) \o <<Goto("out")>>

-----------------------------------------------------------------------------
GoCodeGen_INLINE_LIST(s, j) == Inlined(s, j)

\* Go.  All styles but the in-place one share their jumps.
GoTabCodeGen_writeExec   == Loop(<<>>, Never)
GoFTabCodeGen_writeExec  == Loop(<<>>, Never)
GoFlatCodeGen_writeExec  == Loop(<<>>, Never)
GoFFlatCodeGen_writeExec == Loop(<<>>, Never)
GoGotoCodeGen_writeExec  == Loop(<<>>, Never)
GoFGotoCodeGen_writeExec == Loop(<<>>, Never)

GoTablishCodeGen_jump(s, fin, targ, set) ==
  InCs(s, CheckEof(fin, "test_eof") \o <<Goto("again")>>, <<Goto("out")>>)

\* Here the error state has a case as well.
GoIpGotoCodeGen_writeExec == InPlaceLoop("err")

GoIpGotoCodeGen_jump(s, fin, targ, set) ==
  CASE s.op = "goto"  -> <<SetAt(s.arg)>> \o CheckEof(fin, "exit") \o <<Goto("st")>>
    [] s.op = "call"  -> <<Push(targ), SetAt(s.arg)>> \o CheckEof(fin, "exit") \o <<Goto("st")>>
    [] s.op = "ret"   -> <<Pop>> \o CheckEof(fin, "test_eof") \o <<Goto("again")>>
    [] s.op = "next"  -> <<SetCs(s.arg)>>
    [] s.op = "curs"  -> <<LogPs>>
    [] s.op = "targs" -> <<LogArg(targ)>>
    [] s.op = "break" -> <<Step>> \o (IF set THEN <<>> ELSE <<SetCs(targ)>>) \o <<Goto("out")>>

-----------------------------------------------------------------------------
(* C#, Java, OCaml, Ruby, Crystal and Rubinius: their jumps do not ask     *)
(* whether an EOF action is at the end of its block.                       *)

CSharpFsmCodeGen_INLINE_LIST(s, j) == Inlined(s, j)
JavaTabCodeGen_INLINE_LIST(s, j)   == Inlined(s, j)
OCamlCodeGen_INLINE_LIST(s, j)     == Inlined(s, j)
RubyCodeGen_INLINE_LIST(s, j)      == Inlined(s, j)
CrystalCodeGen_INLINE_LIST(s, j)   == Inlined(s, j)

\* C#: as in C but for the check.
CSharpTabCodeGen_writeExec   == Loop(<<>>, Never)
CSharpFTabCodeGen_writeExec  == Loop(<<>>, Never)
CSharpFlatCodeGen_writeExec  == Loop(<<>>, Never)
CSharpFFlatCodeGen_writeExec == Loop(<<>>, Never)
CSharpGotoCodeGen_writeExec  == Loop(<<>>, Never)
CSharpFGotoCodeGen_writeExec == Loop(<<>>, Never)

CSharpTabCodeGen_jump(s, fin, targ, set)  == InCs(s, <<Goto("again")>>, <<Goto("out")>>)
CSharpFlatCodeGen_jump(s, fin, targ, set) == InCs(s, <<Goto("again")>>, <<Goto("out")>>)
CSharpGotoCodeGen_jump(s, fin, targ, set) == InCs(s, <<Goto("again")>>, <<Goto("out")>>)

CSharpIpGotoCodeGen_writeExec == InPlaceLoop("stray")

CSharpIpGotoCodeGen_jump(s, fin, targ, set) ==
  CASE s.op = "goto"  -> <<SetAt(s.arg), Goto("st")>>
    [] s.op = "call"  -> <<Push(targ), SetAt(s.arg), Goto("st")>>
    [] s.op = "ret"   -> <<Pop, Goto("again")>>
    [] s.op = "next"  -> <<SetCs(s.arg)>>
    [] s.op = "curs"  -> <<LogPs>>
    [] s.op = "targs" -> <<LogArg(targ)>>
    [] s.op = "break" -> <<Step, SetCs(targ), Goto("out")>>

-----------------------------------------------------------------------------
\* Java: labels are cases of a switch inside a loop.
JavaTabCodeGen_writeExec == Loop(<<>>, Never)

JavaTabCodeGen_jump(s, fin, targ, set) == InCs(s, <<Goto("again")>>, <<Goto("out")>>)

-----------------------------------------------------------------------------
\* OCaml: labels are functions, and a jump raises Goto_again, which is caught
\* around transition actions and EOF actions only.
OCamlTabCodeGen_writeExec   == Loop(<<>>, "again")
OCamlFTabCodeGen_writeExec  == Loop(<<>>, "again")
OCamlFlatCodeGen_writeExec  == Loop(<<>>, "again")
OCamlFFlatCodeGen_writeExec == Loop(<<>>, "again")
OCamlGotoCodeGen_writeExec  == Loop(<<>>, "again")
OCamlFGotoCodeGen_writeExec == Loop(<<>>, "again")

OCamlTabCodeGen_jump(s, fin, targ, set)  == InCs(s, <<Raise>>, <<Raise>>)
OCamlFlatCodeGen_jump(s, fin, targ, set) == InCs(s, <<Raise>>, <<Raise>>)
OCamlGotoCodeGen_jump(s, fin, targ, set) == InCs(s, <<Raise>>, <<Raise>>)

-----------------------------------------------------------------------------
\* Ruby and Crystal: labels are levels tested from the top of a loop.  With
\* action tables a jump breaks the loop over the list and the level is gone
\* to after the list; with action functions it is gone to at once.
RubyTabCodeGen_writeExec     == Loop(<<IfTriggered>>, Never)
RubyFlatCodeGen_writeExec    == Loop(<<IfTriggered>>, Never)
CrystalTabCodeGen_writeExec  == Loop(<<IfTriggered>>, Never)
CrystalFlatCodeGen_writeExec == Loop(<<IfTriggered>>, Never)
RubyFTabCodeGen_writeExec    == Loop(<<>>, Never)
RubyFFlatCodeGen_writeExec   == Loop(<<>>, Never)

RubyTabCodeGen_jump(s, fin, targ, set) == InCs(s, <<Trigger("again")>>, <<Trigger("out")>>)
RubyFlatCodeGen_jump(s, fin, targ, set) == InCs(s, <<Trigger("again")>>, <<Trigger("out")>>)
CrystalTabCodeGen_jump(s, fin, targ, set) == InCs(s, <<Trigger("again")>>, <<Trigger("out")>>)
CrystalFlatCodeGen_jump(s, fin, targ, set) == InCs(s, <<Trigger("again")>>, <<Trigger("out")>>)
RubyFTabCodeGen_jump(s, fin, targ, set)  == InCs(s, <<Goto("again")>>, <<Goto("out")>>)
RubyFFlatCodeGen_jump(s, fin, targ, set) == InCs(s, <<Goto("again")>>, <<Goto("out")>>)

\* Rubinius: nothing happens at the end of a block.
RbxGotoCodeGen_writeExec ==
  <<IfEnd("out"), IfErr("out"),
    Label("resume"), From(Never), Locate, SavePs, Enter, Acts(Never),
    Label("again"), Into(Never), IfErr("out"), Advance("resume"),
    Label("out")>>

RbxGotoCodeGen_jump(s, fin, targ, set) == InCs(s, <<Goto("again")>>, <<Goto("out")>>)
=============================================================================
