------------------------------- MODULE Tables -------------------------------
(***************************************************************************)
(* From the transitions of a machine to a lookup in the generated code:    *)
(* the lists are completed (gendata.cpp), reduced to singles, ranges and a *)
(* default (redfsm.cpp), written out by one of the code generators, and    *)
(* searched by the code it generates.                                      *)
(***************************************************************************)
EXTENDS TableStyles

CONSTANTS Machines,   \* sequences of states [list, conds, eof]
          Conds,      \* the conditions, numbered by their place in a space
          Classes     \* the code generators to choose from

Transitions == [to : Nat, act : Nat]

ListEntries == [lo : Nat, hi : Nat, t : Transitions]

CondRanges == [lo : Nat, hi : Nat, space : 1 .. Len(Spaces)]

\* The ranges of a list do not overlap, and stand in the order of their keys.
Ordered(list) ==
  \A i, j \in 1 .. Len(list) : /\ list[i].lo <= list[i].hi
                               /\ i < j => list[i].hi < list[j].lo

MachineState == {st \in [list : Seq(ListEntries), conds : Seq(CondRanges), eof : Transitions] :
                   Ordered(st.list)}

ASSUME MachinesAssumption == Machines \subseteq Seq(MachineState)

VARIABLES machine,    \* the machine
          pc,         \* what is going on
          cur, pos,   \* allStates + snum, and the place in its list
          red,        \* the reduced states
          set,        \* transSet, in the order of the ids
          class, wi,  \* the code generator, and its useIndicies
          arr,        \* what it has written
          question,   \* the state, the character and the conditions that hold
          widec, keys, klen, trans, lower, upper,   \* locals of the generated loop
          answer      \* the transition found

builder == <<machine, cur, pos, red, set, class, wi, arr>>
finder  == <<question, widec, keys, klen, trans, lower, upper, answer>>
vars    == <<builder, pc, finder>>

States == 1 .. Len(machine)

Nothing == [s |-> 0]

EofAsked == MaxKey + 1

Init ==
  /\ machine \in Machines
  /\ pc = "read" /\ cur = 1 /\ pos = 1
  /\ red = [s \in States |-> [range |-> <<>>, single |-> <<>>, def |-> NoTrans,
                              conds |-> machine[s].conds, eof |-> machine[s].eof]]
  /\ set = <<>> /\ class = "" /\ wi = FALSE /\ arr = <<>>
  /\ question = Nothing /\ widec = 0 /\ keys = 0 /\ klen = 0 /\ trans = 0
  /\ lower = 0 /\ upper = 0 /\ answer = NoTrans

-----------------------------------------------------------------------------
\* Reading the machine: the EOF transition of a state, then its list.  The
\* error state keeps an empty one.
SetEofTrans ==
  /\ pc = "read" /\ cur \in States /\ pos = 1
  /\ machine[cur].eof # NoTrans /\ machine[cur].eof \notin Range(set)
  /\ set' = AllocateTrans(set, machine[cur].eof)
  /\ UNCHANGED <<machine, pc, cur, pos, red, class, wi, arr, finder>>

TakeTrans ==
  /\ pc = "read" /\ cur \in States
  /\ pos = 1 => machine[cur].eof \in Range(set) \cup {NoTrans}
  /\ pos <= Len(machine[cur].list)
  /\ pos' = pos + 1
  /\ LET el == machine[cur].list[pos]
         range == NewTrans(red[cur].range, el)
     IN  IF cur = Err THEN UNCHANGED <<red, set>>
         ELSE /\ red' = [red EXCEPT ![cur].range = range]
              /\ set' = AllocateFiller(AllocateTrans(set, el.t), range)
  /\ UNCHANGED <<machine, pc, cur, class, wi, arr, finder>>

FinishState ==
  /\ pc = "read" /\ cur \in States
  /\ pos = 1 => machine[cur].eof \in Range(set) \cup {NoTrans}
  /\ pos > Len(machine[cur].list)
  /\ LET range == FinishTransList(red[cur].range)
     IN  IF cur = Err THEN UNCHANGED <<red, set>>
         ELSE /\ red' = [red EXCEPT ![cur].range = range]
              /\ set' = AllocateFiller(set, range)
  /\ pos' = 1 /\ cur' = cur + 1
  /\ UNCHANGED <<machine, pc, class, wi, arr, finder>>

\* finishRagelDef: the defaults, then the singles or the flat lists.
ChooseDefaults ==
  /\ pc = "read" /\ cur \notin States
  /\ pc' = "default" /\ cur' = 1
  /\ UNCHANGED <<machine, pos, red, set, class, wi, arr, finder>>

ChooseDefault ==
  /\ pc = "default" /\ cur \in States
  /\ cur' = cur + 1
  /\ IF AlphabetCovered(red[cur].range)
     THEN \E t \in ChooseDefaultSpan(red[cur].range) :
            red' = [red EXCEPT ![cur].range = MoveToDefault(@, t), ![cur].def = t]
     ELSE UNCHANGED red
  /\ UNCHANGED <<machine, pc, pos, set, class, wi, arr, finder>>

ChooseStyle ==
  /\ pc = "default" /\ cur \notin States
  /\ cur' = 1
  /\ class' \in Classes
  /\ wi' \in IF class' \in TabClasses THEN BOOLEAN ELSE {FALSE}
  /\ pc' = IF class' \in FlatClasses THEN "write" ELSE "single"
  /\ UNCHANGED <<machine, pos, red, set, arr, finder>>

MoveTransToSingle ==
  /\ pc = "single" /\ cur \in States
  /\ LET st == red[cur]
     IN  IF pos > Len(st.range) THEN /\ pos' = 1 /\ cur' = cur + 1
                                     /\ UNCHANGED red
         ELSE /\ UNCHANGED cur
              /\ IF CanExtend(st.range, pos)
                 THEN red' = [red EXCEPT ![cur] = Extend(@, pos)] /\ UNCHANGED pos
                 ELSE IF Span(st.range[pos]) = 1
                 THEN red' = [red EXCEPT ![cur] = MoveToSingle(@, pos)] /\ UNCHANGED pos
                 ELSE UNCHANGED red /\ pos' = pos + 1
  /\ UNCHANGED <<machine, pc, set, class, wi, arr, finder>>

SinglesMoved ==
  /\ pc = "single" /\ cur \notin States
  /\ pc' = "write"
  /\ UNCHANGED <<builder, finder>>

WriteData ==
  /\ pc = "write"
  /\ arr' = DataOf(class, red, set, wi)
  /\ pc' = "ready"
  /\ UNCHANGED <<machine, cur, pos, red, set, class, wi, finder>>

-----------------------------------------------------------------------------
\* The generated code.  A character is looked up in state question.s, or the
\* EOF transition at the end of the input.
Wide(s, k, holds) ==
  LET at == {c \in Range(machine[s].conds) : k \in c.lo .. c.hi}
  IN  IF at = {} THEN k ELSE Widened((CHOOSE c \in at : TRUE).space, k, holds)

\* Lookups that are known to go wrong, and are not asked: a key above every key
\* of the list goes to the default, whatever that is (GapsGoToError); in the
\* goto styles a key above the alphabet passes for one of the last range if
\* that ends with the alphabet, since limitHigh leaves out its upper test.
KnownFlaw(s, w) ==
  /\ w > MaxKey
  /\ \/ machine[s].list = <<>> \/ w > Last(machine[s].list).hi
     \/ /\ class \in GotoClasses
        /\ w \notin {x.lo : x \in Range(red[s].single)}
        /\ red[s].range # <<>> /\ Last(red[s].range).hi = MaxKey

Ask ==
  /\ pc = "ready"
  /\ \E s \in States \ {Err}, k \in Alphabet \cup {EofAsked}, h \in SUBSET Conds :
       /\ k # EofAsked => ~KnownFlaw(s, Wide(s, k, h))
       /\ question' = [s |-> s, k |-> k, holds |-> h]
  /\ pc' = "asked"
  /\ answer' = NoTrans
  /\ UNCHANGED <<builder, widec, keys, klen, trans, lower, upper>>

\* The locals are set before they are used again.
Found(t) ==
  /\ answer' = t /\ question' = Nothing /\ pc' = "ready"
  /\ widec' = 0 /\ keys' = 0 /\ klen' = 0 /\ trans' = 0 /\ lower' = 0 /\ upper' = 0
  /\ UNCHANGED builder

Transition(i) == [to |-> arr.tt[i + 1], act |-> arr.ta[i + 1]]

FindEofTrans ==
  /\ pc = "asked" /\ question.k = EofAsked
  /\ Found(IF class \in GotoClasses THEN arr[question.s].eof
           ELSE IF arr.et[question.s] = 0 THEN NoTrans
           ELSE Transition(arr.et[question.s] - 1))

-----------------------------------------------------------------------------
\* Table styles.
TabAsked == pc = "asked" /\ class \in TabClasses /\ question.k # EofAsked

SearchConds ==
  /\ TabAsked
  /\ widec' = question.k
  /\ klen' = arr.cl[question.s]
  /\ keys' = 2 * arr.co[question.s]
  /\ lower' = keys' /\ upper' = keys' + 2 * klen' - 2
  /\ pc' = IF klen' > 0 THEN "conds" ELSE "locate"
  /\ UNCHANGED <<builder, question, trans, answer>>

\* One turn of a binary search in the keys a, two to an entry when w is 2.
Halved(a, w, mid) ==
  \/ /\ widec < a[mid + 1]
     /\ upper' = mid - w /\ UNCHANGED lower
  \/ /\ widec > a[mid + w]
     /\ lower' = mid + w /\ UNCHANGED upper

SearchCond ==
  /\ pc = "conds" /\ upper >= lower
  /\ LET mid == MiddleOf(class, lower, upper, 2)
     IN  \/ /\ Halved(arr.ck, 2, mid)
            /\ UNCHANGED <<widec, pc>>
         \/ /\ widec \in arr.ck[mid + 1] .. arr.ck[mid + 2]
            /\ widec' = Widened(arr.cs[arr.co[question.s] + (mid - keys) \div 2 + 1],
                                question.k, question.holds)
            /\ pc' = IF MatchOf(class) = Stops THEN "locate" ELSE "conds"
            /\ UNCHANGED <<lower, upper>>
  /\ UNCHANGED <<builder, question, keys, klen, trans, answer>>

CondsSearched ==
  /\ pc = "conds" /\ upper < lower
  /\ pc' = "locate"
  /\ UNCHANGED <<builder, finder>>

SearchSingles ==
  /\ pc = "locate"
  /\ keys' = arr.ko[question.s] /\ trans' = arr.io[question.s]
  /\ klen' = arr.sl[question.s]
  /\ lower' = keys' /\ upper' = keys' + klen' - 1
  /\ pc' = "singles"
  /\ UNCHANGED <<builder, question, widec, answer>>

\* _match: the place found, through the indicies or at once.
Match(i) == Found(Transition(IF wi THEN arr.i[i + 1] ELSE i))

SearchSingle ==
  /\ pc = "singles" /\ upper >= lower
  /\ LET mid == MiddleOf(class, lower, upper, 1)
     IN  \/ /\ Halved(arr.k, 1, mid)
            /\ UNCHANGED <<builder, pc, question, widec, keys, klen, trans, answer>>
         \/ widec = arr.k[mid + 1] /\ Match(trans + mid - keys)

SearchRanges ==
  /\ pc = "singles" /\ upper < lower
  /\ keys' = keys + klen /\ trans' = trans + klen
  /\ klen' = arr.rl[question.s]
  /\ lower' = keys' /\ upper' = keys' + 2 * klen' - 2
  /\ pc' = "ranges"
  /\ UNCHANGED <<builder, question, widec, answer>>

SearchRange ==
  /\ pc = "ranges" /\ upper >= lower
  /\ LET mid == MiddleOf(class, lower, upper, 2)
     IN  \/ /\ Halved(arr.k, 2, mid)
            /\ UNCHANGED <<builder, pc, question, widec, keys, klen, trans, answer>>
         \/ /\ widec \in arr.k[mid + 1] .. arr.k[mid + 2]
            /\ Match(trans + (mid - keys) \div 2)

TakeDefault ==
  /\ pc = "ranges" /\ upper < lower
  /\ Match(trans + klen)

-----------------------------------------------------------------------------
\* Flat styles: two indexed accesses.
FlatLookup ==
  /\ pc = "asked" /\ class \in FlatClasses /\ question.k # EofAsked
  /\ LET s == question.s
         space == CondOf(class, arr, s, question.k)
         w == IF space = 0 THEN question.k ELSE Widened(space, question.k, question.holds)
     IN  Found(Transition(arr.i[IndexOf(class, arr, s, w) + 1]))

-----------------------------------------------------------------------------
\* Goto styles: the code of a state is a tree of comparisons.
EnterCondTests ==
  /\ pc = "asked" /\ class \in GotoClasses /\ question.k # EofAsked
  /\ widec' = question.k
  /\ lower' = 0 /\ upper' = Len(arr[question.s].conds) - 1
  /\ pc' = IF upper' >= 0 THEN "condtests" ELSE "switch"
  /\ UNCHANGED <<builder, question, keys, klen, trans, answer>>

TestCond ==
  /\ pc = "condtests"
  /\ LET mid == (lower + upper) \div 2
         c == arr[question.s].conds[mid + 1]
         test == CondTest(class, question.k, lower, mid, upper, c)
     IN  /\ lower' = IF test = "higher" THEN mid + 1 ELSE lower
         /\ upper' = IF test = "lower" THEN mid - 1 ELSE upper
         /\ pc' = IF test \in {"higher", "lower"} THEN pc ELSE "switch"
         /\ widec' = IF test = "take" THEN Widened(c.space, question.k, question.holds)
                                      ELSE widec
  /\ UNCHANGED <<builder, question, keys, klen, trans, answer>>

Switch ==
  /\ pc = "switch"
  /\ LET at == {x \in Range(SwitchOf(class, arr[question.s])) : x.lo = widec}
         n == Len(arr[question.s].range)
     IN  IF at # {} THEN Found((CHOOSE x \in at : TRUE).t)
         ELSE IF n = 0 THEN Found(arr[question.s].def)
         ELSE /\ pc' = "tests" /\ lower' = 0 /\ upper' = n - 1
              /\ UNCHANGED <<builder, question, widec, keys, klen, trans, answer>>

TestRange ==
  /\ pc = "tests"
  /\ LET mid == (lower + upper) \div 2
         e == arr[question.s].range[mid + 1]
         test == RangeTest(class, widec, lower, mid, upper, e)
     IN  IF test \in {"take", "none"}
         THEN Found(IF test = "take" THEN e.t ELSE arr[question.s].def)
         ELSE /\ lower' = IF test = "higher" THEN mid + 1 ELSE lower
              /\ upper' = IF test = "lower" THEN mid - 1 ELSE upper
              /\ UNCHANGED <<builder, pc, question, widec, keys, klen, trans, answer>>

-----------------------------------------------------------------------------
Build == \/ SetEofTrans \/ TakeTrans \/ FinishState \/ ChooseDefaults \/ ChooseDefault
         \/ ChooseStyle \/ MoveTransToSingle \/ SinglesMoved \/ WriteData

Lookup == \/ FindEofTrans
          \/ SearchConds \/ SearchCond \/ CondsSearched
          \/ SearchSingles \/ SearchSingle \/ SearchRanges \/ SearchRange \/ TakeDefault
          \/ FlatLookup
          \/ EnterCondTests \/ TestCond \/ Switch \/ TestRange

Next == Build \/ Ask \/ Lookup

\* The generator and the generated code run on as long as they can.
Spec == Init /\ [][Next]_vars /\ WF_vars(Build \/ Lookup)

-----------------------------------------------------------------------------
\* Reducing a list never changes what it says of a key (moveToDefault,
\* moveTransToSingle): the key's single if it has one, else its range, else
\* the default.  The error state apart, that is what the machine says, for the
\* whole alphabet and as far as the list goes.
Says(r, w) ==
  LET in(x) == w \in x.lo .. x.hi
      singles == {x \in Range(r.single) : in(x)}
      ranges == {x \in Range(r.range) : in(x)}
  IN  IF singles # {} THEN {x.t : x \in singles}
      ELSE IF ranges # {} THEN {x.t : x \in ranges} ELSE {r.def}

Top(s) == IF machine[s].list = <<>> \/ Last(machine[s].list).hi < MaxKey THEN MaxKey
          ELSE Last(machine[s].list).hi

MeaningKept ==
  pc # "read" => \A s \in States \ {Err} : \A w \in 0 .. Top(s) :
                   Says(red[s], w) = {Meant(machine[s].list, w)}

\* The keys the table styles search are in order, or the binary search would
\* miss some: those of the singles, and those of the ranges
\* (moveTransToSingle appends the singles it takes out from between two
\* ranges at once, before it goes on).
KeysSorted ==
  pc \in {"write", "ready"} =>
    \A s \in States :
      /\ \A i \in 2 .. Len(red[s].single) : red[s].single[i - 1].lo < red[s].single[i].lo
      /\ \A i \in 2 .. Len(red[s].range) : red[s].range[i - 1].hi < red[s].range[i].lo

\* A search reads keys of its own state only, and keys of the kind it is for:
\* the offsets are written by other functions than the keys they lead to, and
\* a range search must not start from an upper key.
OwnStart(Part(_), s) == Len(Written(SubSeq(red, 1, s - 1), Part))

KeysIn(r) == Each(r.single, LAMBDA x : x.lo) \o Bounds(r.range)

ReadsOwnKeys ==
  LET s == question.s
      within(start, len) == start <= lower /\ upper < start + len
      first == OwnStart(KeysIn, s) + Len(red[s].single)
      conds == OwnStart(LAMBDA r : Bounds(r.conds), s)
  IN  upper >= lower =>
        /\ pc = "conds" => /\ within(conds, 2 * Len(red[s].conds) - 1)
                          /\ (lower - conds) % 2 = 0
        /\ pc = "singles" => within(first - Len(red[s].single), Len(red[s].single))
        /\ pc = "ranges" => /\ within(first, 2 * Len(red[s].range) - 1)
                           /\ (lower - first) % 2 = 0

\* A machine is to be complete: a key nothing is listed for goes to the error
\* state (newTrans, finishTransList).  Not so above the last range of a state
\* with conditions, which alphabetCovered compares with the alphabet's maxKey.
GapsGoToError ==
  pc \in {"write", "ready"} =>
    \A s \in States \ {Err}, k \in Alphabet, h \in SUBSET Conds :
      Says(red[s], Wide(s, k, h)) = {Meant(machine[s].list, Wide(s, k, h))}

\* The lookup answers what the machine says, and does answer.
Promised == INSTANCE LookupSpec

AbstractSpec == Promised!Spec
=============================================================================
