------------------------------ MODULE TableCode ------------------------------
(***************************************************************************)
(* The arrays the table and flat styles write for a reduced machine r, a   *)
(* sequence of states: each array is one segment per state, found through  *)
(* an offset.  As in the generated code offsets count from 0.              *)
(***************************************************************************)
EXTENDS RedFsm

NoTrans == [to |-> 0, act |-> 0]

\* Where each state's segment starts when state st takes Size(st) places.
Offsets(r, Size(_)) ==
  [s \in 1 .. Len(r) |-> Folded(LAMBDA n, st : n + Size(st), 0, SubSeq(r, 1, s - 1))]

\* The segments of all states one after the other.
Written(r, Part(_)) == Folded(LAMBDA a, st : a \o Part(st), <<>>, r)

Each(seq, F(_)) == [i \in 1 .. Len(seq) |-> F(seq[i])]

Flattened(seqs) == Folded(LAMBDA a, x : a \o x, <<>>, seqs)

Bounds(seq) == Flattened(Each(seq, LAMBDA x : <<x.lo, x.hi>>))

Default(st) == IF st.def = NoTrans THEN <<>> ELSE <<st.def>>

\* The place of t among the transitions, by id or where it was written last.
PlaceOf(seq, t) == CHOOSE i \in 1 .. Len(seq) :
                     seq[i] = t /\ \A j \in i + 1 .. Len(seq) : seq[j] # t

EofTransOf(r) == SelectSeq(Each(r, LAMBDA st : st.eof), LAMBDA t : t # NoTrans)

\* All arrays by name.
Data(offsets, keys, trans) ==
  [a \in DOMAIN offsets \cup DOMAIN keys \cup DOMAIN trans |->
     IF a \in DOMAIN offsets THEN offsets[a] ELSE IF a \in DOMAIN keys THEN keys[a] ELSE trans[a]]

-----------------------------------------------------------------------------
\* Table styles: the keys of the singles, then the bounds of the ranges.
Row(st) == Each(st.single \o st.range, LAMBDA x : x.t) \o Default(st)

\* Mutant: the two keys of a range are counted as one.
TabOffsetsShort(r) ==
  [co |-> Offsets(r, LAMBDA st : Len(st.conds)),
   ko |-> Offsets(r, LAMBDA st : Len(st.single) + Len(st.range)),
   io |-> Offsets(r, LAMBDA st : Len(st.single) + Len(st.range) + Len(Default(st))),
   cl |-> Each(r, LAMBDA st : Len(st.conds)),
   sl |-> Each(r, LAMBDA st : Len(st.single)),
   rl |-> Each(r, LAMBDA st : Len(st.range))]

TabOffsets(r) ==
  [co |-> Offsets(r, LAMBDA st : Len(st.conds)),
   ko |-> Offsets(r, LAMBDA st : Len(st.single) + 2 * Len(st.range)),
   io |-> Offsets(r, LAMBDA st : Len(st.single) + Len(st.range) + Len(Default(st))),
   cl |-> Each(r, LAMBDA st : Len(st.conds)),
   sl |-> Each(r, LAMBDA st : Len(st.single)),
   rl |-> Each(r, LAMBDA st : Len(st.range))]

TabKeys(r, set) ==
  [ck |-> Written(r, LAMBDA st : Bounds(st.conds)),
   cs |-> Written(r, LAMBDA st : Each(st.conds, LAMBDA c : c.space)),
   k  |-> Written(r, LAMBDA st : Each(st.single, LAMBDA x : x.lo) \o Bounds(st.range)),
   i  |-> Written(r, LAMBDA st : Each(Row(st), LAMBDA t : PlaceOf(set, t) - 1))]

\* Transitions are written once each, in the order of their ids, when the
\* indicies are (wi); otherwise as often as they are used, those taken at the
\* end of the input last.
TabTrans(r, set, wi) ==
  LET seq == IF wi THEN set ELSE Written(r, Row) \o EofTransOf(r)
  IN  [tt |-> Each(seq, LAMBDA t : t.to),
       ta |-> Each(seq, LAMBDA t : t.act),
       et |-> Each(r, LAMBDA st : IF st.eof = NoTrans THEN 0 ELSE PlaceOf(seq, st.eof))]

-----------------------------------------------------------------------------
\* Flat styles: a transition for every key between two bounds.
CondFlat(st) ==
  IF st.conds = <<>> THEN <<>>
  ELSE LET low == st.conds[1].lo
       IN  [i \in 1 .. Last(st.conds).hi - low + 1 |->
              LET at == {c \in Range(st.conds) : low + i - 1 \in c.lo .. c.hi}
              IN  IF at = {} THEN 0 ELSE (CHOOSE c \in at : TRUE).space]

Ends(seq) == IF seq = <<>> THEN <<0, 0>> ELSE <<seq[1].lo, Last(seq).hi>>

FlatOffsets(r) ==
  [co |-> Offsets(r, LAMBDA st : Len(CondFlat(st))),
   cl |-> Each(r, LAMBDA st : Len(CondFlat(st))),
   io |-> Offsets(r, LAMBDA st : Len(MakeFlat(st)) + Len(Default(st))),
   sp |-> Each(r, LAMBDA st : Len(MakeFlat(st)))]

FlatKeys(r, set) ==
  [ck |-> Written(r, LAMBDA st : Ends(st.conds)),
   cs |-> Written(r, CondFlat),
   k  |-> Written(r, LAMBDA st : Ends(st.range)),
   i  |-> Written(r, LAMBDA st : Each(MakeFlat(st) \o Default(st),
                                      LAMBDA t : PlaceOf(set, t) - 1))]

FlatTrans(r, set) == TabTrans(r, set, TRUE)

-----------------------------------------------------------------------------
\* Mutant: the middle of two bounds may be an upper one.
MiddleOdd(lower, upper, w) == lower + (upper - lower) \div 2

\* The binary searches of the table styles: the middle, in steps of w places.
Middle(lower, upper, w) == lower + (((upper - lower) \div 2) \div w) * w

Stops  == "stops"     \* a match ends the search for a condition space
GoesOn == "goes on"   \* the search goes on with the widened key

-----------------------------------------------------------------------------
\* The tests of emitRangeBSearch and emitCondBSearch for the middle one of the
\* entries from low to high: the bounds the search has passed already, and
\* those at the limits of the alphabet, are not tested.
Tested(x, low, mid, high, lo, hi) ==
  CASE mid > low /\ x < lo  -> "lower"
    [] mid < high /\ x > hi -> "higher"
    [] OTHER -> IF /\ mid > low \/ lo = 0 \/ x >= lo
                   /\ mid < high \/ hi = MaxKey \/ x <= hi
                THEN "take" ELSE "none"
=============================================================================
