------------------------------- MODULE Styles -------------------------------
(***************************************************************************)
(* The styles of generated code, named after the files that generate them, *)
(* and what the jobs they are known not to do have in them.                *)
(***************************************************************************)
EXTENDS StyleCode, FiniteSets

\* The loop of each style.
ProgramOf ==
  [cdtable      |-> TabCodeGen_writeExec,
   cdftable     |-> FTabCodeGen_writeExec,
   cdflat       |-> FlatCodeGen_writeExec,
   cdfflat      |-> FFlatCodeGen_writeExec,
   cdgoto       |-> GotoCodeGen_writeExec,
   cdfgoto      |-> FGotoCodeGen_writeExec,
   cdipgoto     |-> IpGotoCodeGen_writeExec,
   gotable      |-> GoTabCodeGen_writeExec,
   goftable     |-> GoFTabCodeGen_writeExec,
   goflat       |-> GoFlatCodeGen_writeExec,
   gofflat      |-> GoFFlatCodeGen_writeExec,
   gogoto       |-> GoGotoCodeGen_writeExec,
   gofgoto      |-> GoFGotoCodeGen_writeExec,
   goipgoto     |-> GoIpGotoCodeGen_writeExec,
   cstable      |-> CSharpTabCodeGen_writeExec,
   csftable     |-> CSharpFTabCodeGen_writeExec,
   csflat       |-> CSharpFlatCodeGen_writeExec,
   csfflat      |-> CSharpFFlatCodeGen_writeExec,
   csgoto       |-> CSharpGotoCodeGen_writeExec,
   csfgoto      |-> CSharpFGotoCodeGen_writeExec,
   csipgoto     |-> CSharpIpGotoCodeGen_writeExec,
   java         |-> JavaTabCodeGen_writeExec,
   mltable      |-> OCamlTabCodeGen_writeExec,
   mlftable     |-> OCamlFTabCodeGen_writeExec,
   mlflat       |-> OCamlFlatCodeGen_writeExec,
   mlfflat      |-> OCamlFFlatCodeGen_writeExec,
   mlgoto       |-> OCamlGotoCodeGen_writeExec,
   mlfgoto      |-> OCamlFGotoCodeGen_writeExec,
   rubytable    |-> RubyTabCodeGen_writeExec,
   rubyftable   |-> RubyFTabCodeGen_writeExec,
   rubyflat     |-> RubyFlatCodeGen_writeExec,
   rubyfflat    |-> RubyFFlatCodeGen_writeExec,
   crystaltable |-> CrystalTabCodeGen_writeExec,
   crystalflat  |-> CrystalFlatCodeGen_writeExec,
   rbxgoto      |-> RbxGotoCodeGen_writeExec]

Style == DOMAIN ProgramOf

CStyles       == {"cdtable", "cdftable", "cdflat", "cdfflat", "cdgoto", "cdfgoto", "cdipgoto"}
GoStyles      == {"gotable", "goftable", "goflat", "gofflat", "gogoto", "gofgoto", "goipgoto"}
CSharpStyles  == {"cstable", "csftable", "csflat", "csfflat", "csgoto", "csfgoto", "csipgoto"}
OCamlStyles   == {"mltable", "mlftable", "mlflat", "mlfflat", "mlgoto", "mlfgoto"}
RubyStyles    == {"rubytable", "rubyftable", "rubyflat", "rubyfflat", "rbxgoto"}
CrystalStyles == {"crystaltable", "crystalflat"}

InPlace == {"cdipgoto", "goipgoto", "csipgoto"}

\* What a statement becomes, given what the style has for it.
InlineOf(style, s, j) ==
  CASE style \in CStyles       -> FsmCodeGen_INLINE_LIST(s, j)
    [] style \in GoStyles      -> GoCodeGen_INLINE_LIST(s, j)
    [] style \in CSharpStyles  -> CSharpFsmCodeGen_INLINE_LIST(s, j)
    [] style = "java"          -> JavaTabCodeGen_INLINE_LIST(s, j)
    [] style \in OCamlStyles   -> OCamlCodeGen_INLINE_LIST(s, j)
    [] style \in RubyStyles    -> RubyCodeGen_INLINE_LIST(s, j)
    [] style \in CrystalStyles -> CrystalCodeGen_INLINE_LIST(s, j)

\* What one of Ragel's statements expands to in each style.
JumpOf(style, s, fin, targ, set) ==
  CASE style \in {"cdtable", "cdftable"} ->
         TabCodeGen_jump(s, fin, targ, set)
    [] style \in {"cdflat", "cdfflat"} ->
         FlatCodeGen_jump(s, fin, targ, set)
    [] style \in {"cdgoto", "cdfgoto"} ->
         GotoCodeGen_jump(s, fin, targ, set)
    [] style = "cdipgoto" ->
         IpGotoCodeGen_jump(s, fin, targ, set)
    [] style \in {"gotable", "goftable", "goflat", "gofflat", "gogoto", "gofgoto"} ->
         GoTablishCodeGen_jump(s, fin, targ, set)
    [] style = "goipgoto" ->
         GoIpGotoCodeGen_jump(s, fin, targ, set)
    [] style \in {"cstable", "csftable"} ->
         CSharpTabCodeGen_jump(s, fin, targ, set)
    [] style \in {"csflat", "csfflat"} ->
         CSharpFlatCodeGen_jump(s, fin, targ, set)
    [] style \in {"csgoto", "csfgoto"} ->
         CSharpGotoCodeGen_jump(s, fin, targ, set)
    [] style = "csipgoto" ->
         CSharpIpGotoCodeGen_jump(s, fin, targ, set)
    [] style = "java" ->
         JavaTabCodeGen_jump(s, fin, targ, set)
    [] style \in {"mltable", "mlftable"} ->
         OCamlTabCodeGen_jump(s, fin, targ, set)
    [] style \in {"mlflat", "mlfflat"} ->
         OCamlFlatCodeGen_jump(s, fin, targ, set)
    [] style \in {"mlgoto", "mlfgoto"} ->
         OCamlGotoCodeGen_jump(s, fin, targ, set)
    [] style = "rubytable" ->
         RubyTabCodeGen_jump(s, fin, targ, set)
    [] style = "rubyftable" ->
         RubyFTabCodeGen_jump(s, fin, targ, set)
    [] style = "rubyflat" ->
         RubyFlatCodeGen_jump(s, fin, targ, set)
    [] style = "rubyfflat" ->
         RubyFFlatCodeGen_jump(s, fin, targ, set)
    [] style = "crystaltable" ->
         CrystalTabCodeGen_jump(s, fin, targ, set)
    [] style = "crystalflat" ->
         CrystalFlatCodeGen_jump(s, fin, targ, set)
    [] style = "rbxgoto" ->
         RbxGotoCodeGen_jump(s, fin, targ, set)

-----------------------------------------------------------------------------
\* The lists of a machine, by where they are embedded.
AllIn(f)       == {f[s] : s \in DOMAIN f}
TransLists(m)  == {m.move[x][k].do : x \in State, k \in Key}
EofTransOf(m)  == {t.do : t \in AllIn(m.atEof)}
StateLists(m)  == AllIn(m.from) \cup AllIn(m.into)
EofLists(m)    == AllIn(m.eof)
AllLists(m)    == TransLists(m) \cup EofTransOf(m) \cup StateLists(m) \cup EofLists(m)

Uses(lists, ops) == \E do \in lists : AnyOf(do, ops)

\* In do a statement of first is followed by one of second.
Follows(do, first, second) ==
  \E i, k \in DOMAIN do : i < k /\ do[i].op \in first /\ do[k].op \in second

JumpsAtEnd(m) == \E do \in EofLists(m) : \E i \in DOMAIN do :
                    /\ do[i].op \in Jumps
                    /\ \A k \in 1 .. i - 1 : do[k].op \notin {"hold", "exec"}

\* Has the loop been called again in the error state?
CalledInError(run) ==
  \E i \in DOMAIN run : run[i][1] = "return" /\ run[i][2] = Err /\ i < Len(run)

\* What a style is known not to do as the others do: C# and the languages
\* after it do not check the end in a jump of an EOF action; the in-place
\* styles do not keep a state set by fnext outside of transitions, take the
\* target of the transition for the current state in fcall and ftargs even
\* after fnext, know no state to push in an EOF action, and have no ps
\* in EOF transitions; OCaml catches no jump in a from-state or
\* to-state action and does not declare what fbreak and fcurs use; Rubinius
\* has no code for the end and from-state and to-state actions in C; C and C#
\* in place leave the error state when they are called in it.
Lacks(style, m, run) ==
  \/ /\ style \notin CStyles \cup GoStyles
     /\ JumpsAtEnd(m)
  \/ /\ style \in InPlace
     /\ \/ Uses(StateLists(m), {"next"})
        \/ \E do \in TransLists(m) \cup EofTransOf(m) : Follows(do, {"next"}, {"call", "targs"})
        \/ Uses(EofLists(m), {"call"})
        \/ Uses(EofTransOf(m), {"curs"})
  \/ /\ style = "csipgoto"
     /\ \/ \E do \in AllLists(m) : Follows(do, {"next"}, {"break"})
        \/ Uses(EofLists(m), {"break"})
  \/ /\ style \in OCamlStyles
     /\ \/ Uses(StateLists(m), Jumps)
        \/ Uses(AllLists(m), {"break", "curs"})
  \/ /\ style = "rbxgoto"
     /\ \/ EofLists(m) \cup StateLists(m) # {<<>>}
        \/ \E x \in State : m.atEof[x] # NoTrans
  \/ /\ style \in {"cdipgoto", "csipgoto"}
     /\ CalledInError(run)
=============================================================================
