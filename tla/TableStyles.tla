----------------------------- MODULE TableStyles -----------------------------
(***************************************************************************)
(* What each code generator writes and how its code looks transitions up,  *)
(* named after the classes.  The generators were written by copying, so    *)
(* that most definitions are the same: each is read from its own file.     *)
(***************************************************************************)
EXTENDS TableCode

-----------------------------------------------------------------------------
\* Table styles.  COND_TRANSLATE: whether a match ends the search, which in
\* Ruby and Crystal only breaks out of the case.

\* C and D
TabCodeGen_offsets(r)        == TabOffsets(r)
TabCodeGen_keys(r, set)      == TabKeys(r, set)
TabCodeGen_trans(r, set, wi) == TabTrans(r, set, wi)
TabCodeGen_writeData(r, set, wi) ==
  Data(TabCodeGen_offsets(r), TabCodeGen_keys(r, set), TabCodeGen_trans(r, set, wi))
TabCodeGen_COND_TRANSLATE    == Stops
TabCodeGen_LOCATE_TRANS(lower, upper, w) == Middle(lower, upper, w)

\* C#
CSharpTabCodeGen_offsets(r)        == TabOffsets(r)
CSharpTabCodeGen_keys(r, set)      == TabKeys(r, set)
CSharpTabCodeGen_trans(r, set, wi) == TabTrans(r, set, wi)
CSharpTabCodeGen_writeData(r, set, wi) ==
  Data(CSharpTabCodeGen_offsets(r), CSharpTabCodeGen_keys(r, set), CSharpTabCodeGen_trans(r, set, wi))
CSharpTabCodeGen_COND_TRANSLATE    == Stops
CSharpTabCodeGen_LOCATE_TRANS(lower, upper, w) == Middle(lower, upper, w)

\* Go
GoTabCodeGen_offsets(r)        == TabOffsets(r)
GoTabCodeGen_keys(r, set)      == TabKeys(r, set)
GoTabCodeGen_trans(r, set, wi) == TabTrans(r, set, wi)
GoTabCodeGen_writeData(r, set, wi) ==
  Data(GoTabCodeGen_offsets(r), GoTabCodeGen_keys(r, set), GoTabCodeGen_trans(r, set, wi))
GoTabCodeGen_COND_TRANSLATE    == Stops
GoTabCodeGen_LOCATE_TRANS(lower, upper, w) == Middle(lower, upper, w)

\* OCaml
OCamlTabCodeGen_offsets(r)        == TabOffsets(r)
OCamlTabCodeGen_keys(r, set)      == TabKeys(r, set)
OCamlTabCodeGen_trans(r, set, wi) == TabTrans(r, set, wi)
OCamlTabCodeGen_writeData(r, set, wi) ==
  Data(OCamlTabCodeGen_offsets(r), OCamlTabCodeGen_keys(r, set), OCamlTabCodeGen_trans(r, set, wi))
OCamlTabCodeGen_COND_TRANSLATE    == Stops
OCamlTabCodeGen_LOCATE_TRANS(lower, upper, w) == Middle(lower, upper, w)

\* Java
JavaTabCodeGen_offsets(r)        == TabOffsets(r)
JavaTabCodeGen_keys(r, set)      == TabKeys(r, set)
JavaTabCodeGen_trans(r, set, wi) == TabTrans(r, set, wi)
JavaTabCodeGen_writeData(r, set, wi) ==
  Data(JavaTabCodeGen_offsets(r), JavaTabCodeGen_keys(r, set), JavaTabCodeGen_trans(r, set, wi))
JavaTabCodeGen_COND_TRANSLATE    == Stops
JavaTabCodeGen_LOCATE_TRANS(lower, upper, w) == Middle(lower, upper, w)

\* Ruby
RubyTabCodeGen_offsets(r)        == TabOffsets(r)
RubyTabCodeGen_keys(r, set)      == TabKeys(r, set)
RubyTabCodeGen_trans(r, set, wi) == TabTrans(r, set, wi)
RubyTabCodeGen_writeData(r, set, wi) ==
  Data(RubyTabCodeGen_offsets(r), RubyTabCodeGen_keys(r, set), RubyTabCodeGen_trans(r, set, wi))
RubyTabCodeGen_COND_TRANSLATE    == GoesOn
RubyTabCodeGen_LOCATE_TRANS(lower, upper, w) == Middle(lower, upper, w)

\* Crystal
CrystalTabCodeGen_offsets(r)        == TabOffsets(r)
CrystalTabCodeGen_keys(r, set)      == TabKeys(r, set)
CrystalTabCodeGen_trans(r, set, wi) == TabTrans(r, set, wi)
CrystalTabCodeGen_writeData(r, set, wi) ==
  Data(CrystalTabCodeGen_offsets(r), CrystalTabCodeGen_keys(r, set), CrystalTabCodeGen_trans(r, set, wi))
CrystalTabCodeGen_COND_TRANSLATE    == GoesOn
CrystalTabCodeGen_LOCATE_TRANS(lower, upper, w) == Middle(lower, upper, w)

-----------------------------------------------------------------------------
\* Flat styles.  Both lookups: the place of x in the segment of state s, if x
\* lies between its bounds.
Inside(bounds, s, span, x) == span[s] > 0 /\ x \in bounds[2 * s - 1] .. bounds[2 * s]

CondIn(arr, s, k) ==
  IF Inside(arr.ck, s, arr.cl, k) THEN arr.cs[arr.co[s] + k - arr.ck[2 * s - 1] + 1] ELSE 0

IndexIn(arr, s, w) ==
  arr.io[s] + (IF Inside(arr.k, s, arr.sp, w) THEN w - arr.k[2 * s - 1] ELSE arr.sp[s])

\* C and D
FlatCodeGen_offsets(r)    == FlatOffsets(r)
FlatCodeGen_keys(r, set)  == FlatKeys(r, set)
FlatCodeGen_trans(r, set) == FlatTrans(r, set)
FlatCodeGen_writeData(r, set) ==
  Data(FlatCodeGen_offsets(r), FlatCodeGen_keys(r, set), FlatCodeGen_trans(r, set))
FlatCodeGen_COND_TRANSLATE(arr, s, k) == CondIn(arr, s, k)
FlatCodeGen_LOCATE_TRANS(arr, s, w)   == IndexIn(arr, s, w)

\* C#
CSharpFlatCodeGen_offsets(r)    == FlatOffsets(r)
CSharpFlatCodeGen_keys(r, set)  == FlatKeys(r, set)
CSharpFlatCodeGen_trans(r, set) == FlatTrans(r, set)
CSharpFlatCodeGen_writeData(r, set) ==
  Data(CSharpFlatCodeGen_offsets(r), CSharpFlatCodeGen_keys(r, set), CSharpFlatCodeGen_trans(r, set))
CSharpFlatCodeGen_COND_TRANSLATE(arr, s, k) == CondIn(arr, s, k)
CSharpFlatCodeGen_LOCATE_TRANS(arr, s, w)   == IndexIn(arr, s, w)

\* Go
GoFlatCodeGen_offsets(r)    == FlatOffsets(r)
GoFlatCodeGen_keys(r, set)  == FlatKeys(r, set)
GoFlatCodeGen_trans(r, set) == FlatTrans(r, set)
GoFlatCodeGen_writeData(r, set) ==
  Data(GoFlatCodeGen_offsets(r), GoFlatCodeGen_keys(r, set), GoFlatCodeGen_trans(r, set))
GoFlatCodeGen_COND_TRANSLATE(arr, s, k) == CondIn(arr, s, k)
GoFlatCodeGen_LOCATE_TRANS(arr, s, w)   == IndexIn(arr, s, w)

\* OCaml
OCamlFlatCodeGen_offsets(r)    == FlatOffsets(r)
OCamlFlatCodeGen_keys(r, set)  == FlatKeys(r, set)
OCamlFlatCodeGen_trans(r, set) == FlatTrans(r, set)
OCamlFlatCodeGen_writeData(r, set) ==
  Data(OCamlFlatCodeGen_offsets(r), OCamlFlatCodeGen_keys(r, set), OCamlFlatCodeGen_trans(r, set))
OCamlFlatCodeGen_COND_TRANSLATE(arr, s, k) == CondIn(arr, s, k)
OCamlFlatCodeGen_LOCATE_TRANS(arr, s, w)   == IndexIn(arr, s, w)

\* Ruby
RubyFlatCodeGen_offsets(r)    == FlatOffsets(r)
RubyFlatCodeGen_keys(r, set)  == FlatKeys(r, set)
RubyFlatCodeGen_trans(r, set) == FlatTrans(r, set)
RubyFlatCodeGen_writeData(r, set) ==
  Data(RubyFlatCodeGen_offsets(r), RubyFlatCodeGen_keys(r, set), RubyFlatCodeGen_trans(r, set))
RubyFlatCodeGen_COND_TRANSLATE(arr, s, k) == CondIn(arr, s, k)
RubyFlatCodeGen_LOCATE_TRANS(arr, s, w)   == IndexIn(arr, s, w)

\* Crystal
CrystalFlatCodeGen_offsets(r)    == FlatOffsets(r)
CrystalFlatCodeGen_keys(r, set)  == FlatKeys(r, set)
CrystalFlatCodeGen_trans(r, set) == FlatTrans(r, set)
CrystalFlatCodeGen_writeData(r, set) ==
  Data(CrystalFlatCodeGen_offsets(r), CrystalFlatCodeGen_keys(r, set), CrystalFlatCodeGen_trans(r, set))
CrystalFlatCodeGen_COND_TRANSLATE(arr, s, k) == CondIn(arr, s, k)
CrystalFlatCodeGen_LOCATE_TRANS(arr, s, w)   == IndexIn(arr, s, w)

-----------------------------------------------------------------------------
\* Goto styles: no arrays but code for every state, which tries the singles,
\* searches the ranges and takes the default.
SinglesOf(st) == st.single

\* C and D
GotoCodeGen_STATE_GOTOS(r) == r
GotoCodeGen_emitSingleSwitch(st) == SinglesOf(st)
GotoCodeGen_emitRangeBSearch(x, low, mid, high, e) == Tested(x, low, mid, high, e.lo, e.hi)
GotoCodeGen_emitCondBSearch(x, low, mid, high, e)  == Tested(x, low, mid, high, e.lo, e.hi)

\* C#
CSharpGotoCodeGen_STATE_GOTOS(r) == r
CSharpGotoCodeGen_emitSingleSwitch(st) == SinglesOf(st)
CSharpGotoCodeGen_emitRangeBSearch(x, low, mid, high, e) == Tested(x, low, mid, high, e.lo, e.hi)
CSharpGotoCodeGen_emitCondBSearch(x, low, mid, high, e)  == Tested(x, low, mid, high, e.lo, e.hi)

\* Go
GoGotoCodeGen_STATE_GOTOS(r) == r
GoGotoCodeGen_emitSingleSwitch(st) == SinglesOf(st)
GoGotoCodeGen_emitRangeBSearch(x, low, mid, high, e) == Tested(x, low, mid, high, e.lo, e.hi)
GoGotoCodeGen_emitCondBSearch(x, low, mid, high, e)  == Tested(x, low, mid, high, e.lo, e.hi)

\* OCaml
OCamlGotoCodeGen_STATE_GOTOS(r) == r
OCamlGotoCodeGen_emitSingleSwitch(st) == SinglesOf(st)
OCamlGotoCodeGen_emitRangeBSearch(x, low, mid, high, e) == Tested(x, low, mid, high, e.lo, e.hi)
OCamlGotoCodeGen_emitCondBSearch(x, low, mid, high, e)  == Tested(x, low, mid, high, e.lo, e.hi)

\* Rubinius
RbxGotoCodeGen_STATE_GOTOS(r) == r
RbxGotoCodeGen_emitSingleSwitch(st) == SinglesOf(st)
RbxGotoCodeGen_emitRangeBSearch(x, low, mid, high, e) == Tested(x, low, mid, high, e.lo, e.hi)
RbxGotoCodeGen_emitCondBSearch(x, low, mid, high, e)  == Tested(x, low, mid, high, e.lo, e.hi)

-----------------------------------------------------------------------------
\* A class by name.
TabClasses  == {"TabCodeGen", "CSharpTabCodeGen", "GoTabCodeGen", "OCamlTabCodeGen", "JavaTabCodeGen", "RubyTabCodeGen", "CrystalTabCodeGen"}
FlatClasses == {"FlatCodeGen", "CSharpFlatCodeGen", "GoFlatCodeGen", "OCamlFlatCodeGen", "RubyFlatCodeGen", "CrystalFlatCodeGen"}
GotoClasses == {"GotoCodeGen", "CSharpGotoCodeGen", "GoGotoCodeGen", "OCamlGotoCodeGen", "RbxGotoCodeGen"}

DataOf(class, r, set, wi) ==
  CASE class = "TabCodeGen" -> TabCodeGen_writeData(r, set, wi)
    [] class = "CSharpTabCodeGen" -> CSharpTabCodeGen_writeData(r, set, wi)
    [] class = "GoTabCodeGen" -> GoTabCodeGen_writeData(r, set, wi)
    [] class = "OCamlTabCodeGen" -> OCamlTabCodeGen_writeData(r, set, wi)
    [] class = "JavaTabCodeGen" -> JavaTabCodeGen_writeData(r, set, wi)
    [] class = "RubyTabCodeGen" -> RubyTabCodeGen_writeData(r, set, wi)
    [] class = "CrystalTabCodeGen" -> CrystalTabCodeGen_writeData(r, set, wi)
    [] class = "FlatCodeGen" -> FlatCodeGen_writeData(r, set)
    [] class = "CSharpFlatCodeGen" -> CSharpFlatCodeGen_writeData(r, set)
    [] class = "GoFlatCodeGen" -> GoFlatCodeGen_writeData(r, set)
    [] class = "OCamlFlatCodeGen" -> OCamlFlatCodeGen_writeData(r, set)
    [] class = "RubyFlatCodeGen" -> RubyFlatCodeGen_writeData(r, set)
    [] class = "CrystalFlatCodeGen" -> CrystalFlatCodeGen_writeData(r, set)
    [] class = "GotoCodeGen" -> GotoCodeGen_STATE_GOTOS(r)
    [] class = "CSharpGotoCodeGen" -> CSharpGotoCodeGen_STATE_GOTOS(r)
    [] class = "GoGotoCodeGen" -> GoGotoCodeGen_STATE_GOTOS(r)
    [] class = "OCamlGotoCodeGen" -> OCamlGotoCodeGen_STATE_GOTOS(r)
    [] class = "RbxGotoCodeGen" -> RbxGotoCodeGen_STATE_GOTOS(r)

MatchOf(class) ==
  CASE class = "TabCodeGen" -> TabCodeGen_COND_TRANSLATE
    [] class = "CSharpTabCodeGen" -> CSharpTabCodeGen_COND_TRANSLATE
    [] class = "GoTabCodeGen" -> GoTabCodeGen_COND_TRANSLATE
    [] class = "OCamlTabCodeGen" -> OCamlTabCodeGen_COND_TRANSLATE
    [] class = "JavaTabCodeGen" -> JavaTabCodeGen_COND_TRANSLATE
    [] class = "RubyTabCodeGen" -> RubyTabCodeGen_COND_TRANSLATE
    [] class = "CrystalTabCodeGen" -> CrystalTabCodeGen_COND_TRANSLATE

MiddleOf(class, lower, upper, w) ==
  CASE class = "TabCodeGen" -> TabCodeGen_LOCATE_TRANS(lower, upper, w)
    [] class = "CSharpTabCodeGen" -> CSharpTabCodeGen_LOCATE_TRANS(lower, upper, w)
    [] class = "GoTabCodeGen" -> GoTabCodeGen_LOCATE_TRANS(lower, upper, w)
    [] class = "OCamlTabCodeGen" -> OCamlTabCodeGen_LOCATE_TRANS(lower, upper, w)
    [] class = "JavaTabCodeGen" -> JavaTabCodeGen_LOCATE_TRANS(lower, upper, w)
    [] class = "RubyTabCodeGen" -> RubyTabCodeGen_LOCATE_TRANS(lower, upper, w)
    [] class = "CrystalTabCodeGen" -> CrystalTabCodeGen_LOCATE_TRANS(lower, upper, w)

CondOf(class, arr, s, k) ==
  CASE class = "FlatCodeGen" -> FlatCodeGen_COND_TRANSLATE(arr, s, k)
    [] class = "CSharpFlatCodeGen" -> CSharpFlatCodeGen_COND_TRANSLATE(arr, s, k)
    [] class = "GoFlatCodeGen" -> GoFlatCodeGen_COND_TRANSLATE(arr, s, k)
    [] class = "OCamlFlatCodeGen" -> OCamlFlatCodeGen_COND_TRANSLATE(arr, s, k)
    [] class = "RubyFlatCodeGen" -> RubyFlatCodeGen_COND_TRANSLATE(arr, s, k)
    [] class = "CrystalFlatCodeGen" -> CrystalFlatCodeGen_COND_TRANSLATE(arr, s, k)

IndexOf(class, arr, s, w) ==
  CASE class = "FlatCodeGen" -> FlatCodeGen_LOCATE_TRANS(arr, s, w)
    [] class = "CSharpFlatCodeGen" -> CSharpFlatCodeGen_LOCATE_TRANS(arr, s, w)
    [] class = "GoFlatCodeGen" -> GoFlatCodeGen_LOCATE_TRANS(arr, s, w)
    [] class = "OCamlFlatCodeGen" -> OCamlFlatCodeGen_LOCATE_TRANS(arr, s, w)
    [] class = "RubyFlatCodeGen" -> RubyFlatCodeGen_LOCATE_TRANS(arr, s, w)
    [] class = "CrystalFlatCodeGen" -> CrystalFlatCodeGen_LOCATE_TRANS(arr, s, w)

SwitchOf(class, st) ==
  CASE class = "GotoCodeGen" -> GotoCodeGen_emitSingleSwitch(st)
    [] class = "CSharpGotoCodeGen" -> CSharpGotoCodeGen_emitSingleSwitch(st)
    [] class = "GoGotoCodeGen" -> GoGotoCodeGen_emitSingleSwitch(st)
    [] class = "OCamlGotoCodeGen" -> OCamlGotoCodeGen_emitSingleSwitch(st)
    [] class = "RbxGotoCodeGen" -> RbxGotoCodeGen_emitSingleSwitch(st)

RangeTest(class, x, low, mid, high, e) ==
  CASE class = "GotoCodeGen" -> GotoCodeGen_emitRangeBSearch(x, low, mid, high, e)
    [] class = "CSharpGotoCodeGen" -> CSharpGotoCodeGen_emitRangeBSearch(x, low, mid, high, e)
    [] class = "GoGotoCodeGen" -> GoGotoCodeGen_emitRangeBSearch(x, low, mid, high, e)
    [] class = "OCamlGotoCodeGen" -> OCamlGotoCodeGen_emitRangeBSearch(x, low, mid, high, e)
    [] class = "RbxGotoCodeGen" -> RbxGotoCodeGen_emitRangeBSearch(x, low, mid, high, e)

CondTest(class, x, low, mid, high, e) ==
  CASE class = "GotoCodeGen" -> GotoCodeGen_emitCondBSearch(x, low, mid, high, e)
    [] class = "CSharpGotoCodeGen" -> CSharpGotoCodeGen_emitCondBSearch(x, low, mid, high, e)
    [] class = "GoGotoCodeGen" -> GoGotoCodeGen_emitCondBSearch(x, low, mid, high, e)
    [] class = "OCamlGotoCodeGen" -> OCamlGotoCodeGen_emitCondBSearch(x, low, mid, high, e)
    [] class = "RbxGotoCodeGen" -> RbxGotoCodeGen_emitCondBSearch(x, low, mid, high, e)
=============================================================================
