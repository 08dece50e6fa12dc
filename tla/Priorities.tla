------------------------------ MODULE Priorities ------------------------------
(***************************************************************************)
(* Priorities embedded in a chain of transitions, as one for "ab", that is *)
(* repeated.  The priority tables are SBstSets: an element is the name of  *)
(* the priority, with its value and ordering.                              *)
(***************************************************************************)
EXTENDS SharedTable

CONSTANTS Name,     \* names of priorities
          Prior,    \* values
          MaxOrd    \* bound on the embeddings

\* Table, an interval from 1, holds the transitions of the longest chain.

VARIABLES n,     \* the transitions of the chain are 1 .. n
          mem,   \* priorTable of each
          ord,   \* curPriorOrd
          want   \* for each transition and name, the values last embedded there

vars == <<n, mem, ord, want>>

PriorEl(name, o, p) == <<name, [ordering |-> o, prior |-> p]>>

\* setPrior: the element of a name that is there already is overwritten where
\* it is, unless it was embedded later.
SetPrior(m, v, el) ==
  LET s == Search(Contents(m, v), KeyOf(el)) IN
  IF ~s.found THEN PutAt(m, v, s.at, el)
  ELSE IF el[2].ordering < Header(m, v).cells[s.at + 1][2].ordering THEN m
  ELSE [m EXCEPT !.buf[m.data[v]].cells =
                   [i \in DOMAIN @ |-> IF i = s.at + 1 THEN el ELSE @[i]]]

RECURSIVE SetPriors(_, _, _, _)
SetPriors(m, v, els, i) ==
  IF i > Len(els) THEN m ELSE SetPriors(SetPrior(m, v, els[i]), v, els, i + 1)

\* The same element for each transition of a range.
RECURSIVE SetEach(_, _, _, _)
SetEach(m, v, last, el) ==
  IF v > last THEN m ELSE SetEach(SetPrior(m, v, el), v + 1, last, el)

Init == /\ n \in Table
        /\ mem = NoTables
        /\ ord = 0
        /\ want = [v \in Table |-> [name \in Name |-> {}]]

\* startFsmPrior, finishFsmPrior and allTransPrior.
Embed(first, last, name, p) ==
  /\ ord < MaxOrd
  /\ mem'  = SetEach(mem, first, last, PriorEl(name, ord, p))
  /\ want' = [v \in Table |-> IF v \in first .. last THEN [want[v] EXCEPT ![name] = {p}]
                              ELSE want[v]]
  /\ ord' = ord + 1
  /\ UNCHANGED n

\* The transitions of the copies: one out of a start state is made anew when
\* the start state is merged into the final state before it, by dupTrans; the
\* others are the ones the copy constructor made.
RECURSIVE Copies(_, _, _)
Copies(m, v, last) ==
  IF v > last THEN m
  ELSE LET src == ((v - 1) % n) + 1 IN
       Copies(IF src = 1 THEN SetPriors(m, v, Contents(m, 1), 1) ELSE TableAssign(m, v, src),
              v + 1, last)

\* repeatOp
Repeat(times) ==
  /\ n * times \in Table
  /\ n' = n * times
  /\ mem'  = Copies(mem, n + 1, n')
  /\ want' = [v \in Table |-> IF v \in n + 1 .. n' THEN want[((v - 1) % n) + 1] ELSE want[v]]
  /\ UNCHANGED ord

Next == \/ \E name \in Name, p \in Prior : \/ Embed(1, 1, name, p)
                                           \/ Embed(n, n, name, p)
                                           \/ Embed(1, n, name, p)
        \/ \E times \in Table \ {1} : Repeat(times)

Spec == Init /\ [][Next]_vars

\* Every transition has the priorities embedded into it and into what it was
\* copied from, and no others: embedding one into the transitions into final
\* states, say, sets that of no other transition (finishFsmPrior, fsmap.cpp).
PriorsAsEmbedded ==
  \A v \in Table, name \in Name :
    want[v][name] = {Contents(mem, v)[i][2].prior :
                       i \in {j \in 1 .. Length(mem, v) : KeyOf(Contents(mem, v)[j]) = name}}
=============================================================================
