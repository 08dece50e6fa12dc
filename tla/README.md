# Verification of Ragel's state machine core

Ragel compiles a description of regular languages with embedded actions into a
finite state machine and the machine into a program. This directory holds TLA+
models of the parts of the compiler (`src/ragel/`, `src/aapl/`) that are hardest to
get right and to test: the operators that build the machine graph, the four
minimizers, the construction of scanners, the reduction of the graph to tables and
the lookup in them, the execution loops that are generated for eight host
languages, and the trees and tables all of it is stored in. TLC checks them on
small instances; TLAPS proves invariants for machines of any size.

## 1. Inventory

| Component | Source (`src/ragel/`) | State it keeps | Operations |
|---|---|---|---|
| State and transition lists | fsmattach.cpp, fsmbase.cpp, fsmgraph.h | main list, misfit list, out and in list of each state, `foreignInTrans`, final state set, entry point map | attach, detach, redirect and copy transitions; set and unset start, final and entry states; misfit accounting |
| Graph operators | fsmgraph.cpp, fsmattach.cpp | the graph; `MergeData`: dictionary of combined states, fill list | union, intersection, difference, concatenation, star, repetition, join, epsilon transitions, entry points |
| Actions, priorities, conditions | fsmap.cpp, fsmgraph.cpp | tables ordered by embedding order or key, leaving data, condition spaces | embed, transfer, compare, expand alphabet by conditions |
| Minimization | fsmmin.cpp, fsmstate.cpp | partitions with an active flag and a worklist, or a table of marked pairs | minimizePartition1/2, minimizeStable, minimizeApproximate, fusing, removal of states |
| Scanners | parsetree.cpp, xmlcodegen.cpp | item sets of states, `lmSwitchHandlesError`, `inLmSelect` | runLongestMatch: which action each transition, each missing transition and the end of the input get |
| Generated execution loops | c?table.cpp, c?flat.cpp, c?goto.cpp and the other hosts' | `cs`, `p`, `pe`, `eof`, `ts`, `te`, `act`, stack | init, exec |
| Name resolution and graph building | parsedata.cpp, parsetree.cpp | name tree, references, use counts of names | resolve, make instances, unset unused entries |
| Reduced machine | redfsm.cpp, gendata.cpp | reduced states, out ranges, singles, default, flat tables | complete lists, move singles out, choose defaults, flatten, order and partition states |
| Parser | rlscan.rl, rlparse.kl | tokens, parse tree | text processing |
| Output | xmlcodegen.cpp, dotcodegen.cpp, `*codegen.cpp` | none | formatting |
| Command line | main.cpp, common.cpp | options | pure I/O |
| Container library | `src/aapl/` | AVL trees and their lists, sorted tables in buffers that are counted and shared until changed, vectors | insert, remove, find, copy, transfer, empty |

**How they interact.** The parse tree calls the graph operators bottom up. Each
operator consumes its arguments (no machine is shared) and leaves one machine,
and unless told otherwise the parse tree minimizes after each
(`afterOpMinimize`, parsedata.cpp:61). Operators merge states with
`mergeStates`, which attaches transitions, which makes combined states that are
filled in by further merges. `runLongestMatch` rewrites the finished union of a
scanner's patterns, and only it makes EOF targets. The reduced machine is taken
from the graph when it no longer changes (`GenData`), reduced state by state, and
written as arrays or as code; the generated loop looks each character up there and
is called block by block by a driver that the user writes. Sets of states,
action and priority tables and the state dictionary are containers of aapl; a
copied transition shares its tables with the original until one of them changes.

**What is hard.** Nothing is concurrent. The difficulty is in long sequences of
steps on shared, mutable pointer structures:

* *Order.* Sets of states are sorted by address, in lists are in attach order,
  sorts leave their classes in any order. No result may depend on it.
* *Iteration over what changes*: worklists that are refilled while they are
  emptied, states fused while the list is walked, final states added while
  final states are iterated over, misfits made while misfits are removed.
* *Stale state*: partition pointers read before or after the moved states get
  theirs; bits, leaving data and the `te` and `act` of an earlier token.
* *Termination* of worklists, rounds, and of a scanner that moves back.
* *Boundaries*: the largest key of the alphabet, the end of a block inside a
  token, the end of the input in any state.
* *Null*: error transitions have no target.
* *The same thing many times over*: eight host languages and up to seven styles each
  were written by copying a generator and adapting it, so that a repair of one need
  not have reached the others.
* *Sharing*: whoever writes into a table without asking for a buffer of its own
  changes the tables of other transitions.

**What makes them correct.** Minimizers: the result is the input's quotient
under the coarsest equivalence, no more and no less, and no pointer leads to a
fused state. Operators: the result does what its arguments do run side by side,
for whatever order of merging; what is removed is exactly what leads nowhere.
Scanners: tokens are the longest matches, ties go to the earlier pattern, each
token is announced once and as early as it is known, and no text is needed that
the driver was free to drop. Reduction and tables: the code generated looks up
what the machine says, for every character and every outcome of the conditions.
Execution loops: whatever the style, actions run in the order, and calls, jumps
and breaks leave the state, that the guide describes. Containers: each is the
sorted sequence it stands for, and no call on one shows in another. All of them
end.

Every hazard found in the code, with its line and the property that covers it
or the reason why none does, is in PROJECT.json.

## 2. Modules

    Fsm ---- MinSpec                              what minimizers promise
     |-- Partition -- MinPartition1 -- AfterOp (composes the four) -- MCAfterOp
     |      `-------- MinPartition2 -- MCMinPartition2
     |-- MinMark -- MCMinMark
     |-- MinApprox
     `-- SmallMachines           used by MCMinPartition2, MCMinMark, MCAfterOp

    Recursion -- Partition_proof -- MinPartition2_proof
         |              `---------- AfterOp_proof
         |-- Scanner_proof, FsmOps_proof
         `-- Tables_proof, Containers_proof

    Merge -- FsmOps -- FsmOps_proof
                `----- MCFsmOps

    ScanSpec                                      what a scanner promises
    LongestMatch -- Scanner -- Scanner_proof
                       `------ MCScanner

    ExecMachine -- ExecSpec                       what executing a machine promises
         `-- ExecCode -- StyleCode -- Styles -- Exec -- MCExec

    RedFsm -- LookupSpec                          what looking a transition up promises
       `-- TableCode -- TableStyles -- Tables -- MCTables
                                          `----- Tables_proof

    OrderedTables                                 what sorted containers promise
    AvlTree, SharedTable -- Containers -- MCContainers
                 |              `------- Containers_proof
                 `--------- Priorities

An operator named after a bug (`FuseDropEntry`, `EnterKeepTs`, ...) and
introduced by "Mutant" or "A bug" is a faulty variant of the definition that
follows. PROJECT.json pairs each checked property with a variant that breaks it:
the property would notice that bug.

### Minimization

**Fsm** is the graph as minimizers see it: live states, per state its data, out
transitions and EOF target, start state and entry points. What a state carries is
in two parts, as not every comparison looks at both: `conds`, its condition list,
and `state`, all the rest (final bit, epsilon list and what `compareStateData`
looks at). Keys are ranges on which all out
lists are uniform, so that the pair iterator meets at most one transition per
state and key. `Fuse` is `fuseEquivStates`. A transition has a target, `Null` for
error transitions, or is absent, `NoTrans`: the functors treat the two
differently, and much depends on it. EOF targets exist in scanners only, and
there all of them are the isolated start state (`ScannerShape`, from
`runLongestMatch`): the code redirects no EOF target when it fuses states, and
needs this to be right. It never deletes a start state that is an EOF target only because
nothing else has its state data: the mutant that forgets to compare the data leaves a
dangling EOF target (`NoDangling`).

**MinSpec** is the abstract specification: in one step the machine is replaced
by its quotient under a labelling that is stable (equal label: equal data, equal
keys, targets of equal label) and that is the coarsest one. `ReduceSpec` promises
less: some of the states stay (`Retract`), each with all it carries and led to in place
of those it stands for, which differ from it at most in what ApproxCompare leaves out,
condition lists and the data of error transitions (`NearlyStable`).

**Partition** holds what minimizePartition1 and 2 share: the initial partition by
data, the splitting of one partition into the classes of `PartitionCompare`
(which class keeps the number is left open, as it follows addresses), fusing.
**MinPartition1** is the rounds over all partitions, **MinPartition2** (the
default) the worklist: `splittable` is the partitions marked active, `Woken`
those a split puts back. **MinMark** is minimizeStable with its table of marked
pairs, including the pair order and the flag, and a `fault` state for the null
dereference. **MinApprox** is minimizeApproximate: sorting by ApproxCompare, which
looks neither at condition lists nor at the data of error transitions, then a walk
over the sorted array whose length is that of the list shrinking under it.

**AfterOp** is `afterOpMinimize` (parsedata.cpp:61): the states that neither the start
nor an entry point reaches are removed, then the minimizer that the command line
chose runs. It composes the four: one step of its `Next` is one step of the chosen
minimizer's, on the graph the cleaning left.

### Graph operators

**Merge**: a state is named by the set of original states it stands for, which
is the key it has in the state dictionary; `Cross` is `crossTransitions` (higher
priority wins, else actions and targets are united), `OutTransCopy` the copy of
an out list, `MergeStates` and `MergeStatesLeaving` the two merges, `Combined` the
states that `fsmAttachStates` makes, `RemoveMisfits` and `RemoveDeadEnds` the
cleaning.
**FsmOps** is the operators, one action per call of `mergeStates` and per phase;
the order of merges and of the fill list is left open. Its last part states
what they promise: a reference semantics of threads, each in one state of one
argument (`Step`, `Accepts`), that the result must simulate state for state, and
for which arguments it does (`Clear`, see *What is not asked*).

### Scanners

**ScanSpec** is the promise, maximal munch: the input arrives in pieces
(`Read`, `End`), and a `Token` is the longest non-empty match from where the last
one ended, belongs to the first pattern that matches it, and is announced only
when no more input could make it longer.
**LongestMatch** is `runLongestMatch` as operators on a given pattern machine:
the item sets (`Items`), whether the switch must handle error (`HandlesError`),
the isolation of the start state (`Root`; `Fresh` is the new state), what a
matching transition records (`OnMatch`), what a state does without a transition
or at the end of the input (`OnError`). **Scanner** runs the result: `Exec` is one
turn of the exec loop (`_resume` to `_again`), with the actions of xmlcodegen.cpp
(`OnLast`, `OnNext`, `LagBehind`, `Switch`), `ExecEof` the jump at `_test_eof`,
`Feed` and `FeedEof` the driver of rlscan.rl: it keeps the text from `ts` on
(`kept`), and reads on. `FeedEof` is a block of length 0 at the end, as in
rlscan.rl; a driver may also set eof along with the last block, as the tests do,
so `Feed` leaves that open.

### Execution loops

**ExecMachine** is what a loop runs: transitions, from-state, to-state and EOF actions
as lists of statements (ordinary code, or Ragel's own `fhold`, `fexec`, `fgoto`,
`fcall`, `fret`, `fnext`, `fbreak`, `fcurs`, `ftargs`), and a job: a machine, a word, where
it is cut into blocks, and whether the last block is known to be the end.
**ExecSpec** is the promise, as the guide words it, and the same for all styles: `Run`
evaluates a job to the log of what happens and the specification hands it out
event by event.
**ExecCode** is the instructions that loops consist of (test the end, run a list of
actions, look up, set the state, go to a label). **StyleCode** (C, Go, C#, Java,
OCaml, Ruby, Crystal, Rubinius) gives for each style the
sequence its `writeExec` writes and what its expansions of Ragel's statements
(`GOTO`, `CALL`, `RET`, `NEXT`, `BREAK`, ...) expand to. **Styles** collects them by file
name; `Lacks` says which jobs a style is known not to do like the others (section 5).
**Exec** runs the program, one action per kind of instruction, with the
statements of an action list as pending instructions, and the caller that hands in
block after block.

### Reduced machine and tables

**RedFsm** is a state's transitions as an ordered list of key ranges, keys of condition
spaces lying above the alphabet as `1 << length` copies of it, and the operators of
redfsm.cpp that change lists: `alphabetCovered`, `canExtend`, `moveTransToSingle`, the
choice of the default. **TableCode** is the arrays: one segment per state in each,
found by an offset, and the functions that write them. **TableStyles** says class by
class (`TabCodeGen`, `FlatCodeGen`, `GotoCodeGen` and what the other languages' classes
call theirs) which arrays are written and how they are searched. **Tables** is the
way through: `Complete` (finishTransList), `Reduce`, `Write`, then any number of
lookups, each a condition search, a search of the singles and one of the ranges,
step by step with `lower` and `upper` (or the index of the flat style, or the
comparisons that the goto styles nest). **LookupSpec** is what it must answer.

### Containers

**OrderedTables** is the promise: a family of sequences sorted by key of which a call
changes one. **AvlTree** is avlcommon.h, an operator per function, with the links of
tree and list, heights, rebalancing, `FindNext` and `FindPrev`; **SharedTable** is
svector.h, vector.h, resize.h, table.h and bstcommon.h: buffers with reference
counts, allocated sizes, raw cells, copies on write. **Containers** makes any call on
any of a few objects; a call is one step, as nothing is concurrent.
**Priorities** uses these tables as fsmap.cpp does: priorities embedded in a chain of
transitions, and the chain repeated.

## 3. What the runs check

| Run | Instance | Shows |
|---|---|---|
| partition2 | every machine of 4 states all of which can be reached, 1 key, error transitions; every scanner of 3 states | the default minimizer implements `MinSpec`; the worklist forgets no partition (`InactiveStable`), stops only at the coarsest stable one, never leaves an empty partition, never compares transitions it takes to be there, leaves no dangling pointer, and ends |
| afterop | every graph of 3 states with an entry point, reachable or not, for the two partitioning minimizers; every machine of 4 reachable states for the other two; for minimizeApproximate also every machine of 3 reachable states with condition lists and error transitions of two kinds; 1 key | after each operator the chosen minimizer leaves the minimal quotient of what can be reached (`OpAbstractSpec`; minimizeApproximate: some of its states, each for itself and for others that differ at most in what ApproxCompare leaves out); marks are exactly what differs and unmarked is an equivalence; the walk of minimizeApproximate meets no fused state and, though it stops short, leaves nothing to fuse; entry points survive; all of them end |
| mark_error | 2 states with error transitions | **finding**: shouldMarkPtr follows a null pointer |
| ops | union, concatenation, intersection, difference of every pair of machines of at most 2 states, 2 keys (up to swapping the keys of the left one; the right one accepts in its last state), without priorities and with priorities, error transitions where a machine has one key; these operators with the empty word, and star, of every machine of at most 2 states with error transitions on any key | the result simulates the arguments side by side; nothing dangles while states are removed; no marks or leaving data are left behind; what cannot lead to acceptance is gone; combining states ends |
| scanner | every scanner of 3 states, 2 characters, input up to 3, each character a block | longest match (`MaximalMunch`), never an error while a match is known, `te` and `act` right wherever an action may use them, text kept |
| scanner_ties | every scanner of 4 states, 1 character, two patterns that may match the same text, error transitions, input up to 6 in blocks up to 3 | the same with ties; `ts` marks the token; scanning ends |
| exec | one style for each that has a loop of its own, on 2 states with a list of statements in each kind of place and words up to 3 in one or two blocks | the log of the generated loop is the promised one (`AbstractSpec`): order of actions, places, the state each call returns in, and that the job ends |
| exec_error | as exec, no job left out | **finding**: the in-place loop of C leaves the error state |
| tables | 3 states (error state, one in front so that segments do not start at 0, one with any list), 3 characters, spaces of one and two conditions; four classes | completing, singles and default change the meaning of no key; keys are in order for the binary searches; a search never reads a neighbour's segment; every lookup ends in what the machine says |
| tables_gaps | as tables | **finding**: with conditions a gap may go to the default |
| containers | AVL trees: any calls on two trees of up to 4 keys, on one of 6, and 3 calls on the sparsest tree of 12; tables with shared or with own buffers: any calls on 2 tables of up to 3 elements, on 3 of one key; 3 calls on tables of 7 elements, which outgrow a buffer or lose most of one at once | each container is the sorted sequence it stands for and a call shows in no other (`AbstractSpec`); balance, links and walks; lookups, runs of equal keys; reference counts |
| prior_leak | chains of up to 4 transitions, 2 priority names, 3 embeddings | **finding**: a priority embedded in a copy shows in the original |

**Bounds.** All of them are sizes of the instance, in the .cfg or the MC module;
`MaxLen` and `MaxBlock` also bound `Feed`, `Fuel` the characters a job processes, `room`
the length of a table, `calls` the calls on the large containers, `MaxOrd` the
embeddings. They are chosen so that what the
algorithms are about does occur. Three splits in a row, one of which wakes a
partition already passed, need 4 states. Two states per argument give
combined states that are combined again (sets of up to four states), final
states of both kinds, leaving actions that are taken over, and dead ends behind
a lost final state. In a scanner of three states a pattern can match, fail on
the way to a longer one and be taken back to; four states let two matches be
pending at different distances. Inputs are longer than the longest chain of
states, so that the text given back is scanned again. A loop is asked for each
statement in each place, before and after others, with a call
below it on the stack and a block boundary before, at or after it; more states
would add nothing, as a loop sees one at a time. Three characters are the first,
the last and one between: a range can end at either end of the alphabet, a single
can be taken out of the middle, and condition keys of two spaces lie above. The
twelve-element tree is the smallest in which one removal unbalances elements on
two levels. Machines are *all* machines of their size up to the names of states or
keys, not a selection; those of the exec run are the lists of `MCExec`. The
minimizers' start state is the first on the list or one further back, since fusing
keeps the first of two states.

**One class for several.** Generators were written by copying. Where the definitions
taken from two of them are equal, running one shows what running both would: the
exec run takes one of each set of styles that are equal in program and in every
expansion (`Representatives` finds them); the tables run takes `TabCodeGen`,
`RubyTabCodeGen`, `FlatCodeGen` and `GotoCodeGen`, whose definitions the others'
repeat.

**What is not asked.** Transitions of one machine carry the
same action, and priorities are given to all transitions or to none: crossing a
transition that has a priority with one that has none is order dependent in the
code too, as `comparePrior` calls them equal. minimizeStable is not given error
transitions (mark_error). Jobs that a style is known not to do as the others do
(`Lacks`) and lookups known to go wrong (`KnownFlaw`) are left out of the
passing runs; section 5 lists both. A star whose start state is final and that has
leaving actions is left out for what section 5 says of starOp, unless that state is
its only final one. FsmOps states both conditions (`PriorsClear`, `StarClear`).

**Fairness.** The compiler and the generated code are sequential: as long as a
step is possible the program takes one. All liveness properties assume only
`WF_vars(Next)`, never fairness of a particular action. For the scanner this
includes that the driver reads on until the input ends. A scanner stops at an
error or at the end of its input, so its runs do not look for deadlocks; the
minimizers and operators end in an explicit `Terminated` step and do. Jobs and
bounded plans of containers end too. A lookup is fair once it was
asked, but nobody has to ask.

## 4. What is proved

For every alphabet, number of states, set of actions, and set of input machines
that meets the assumptions. What is assumed of the constants: states are numbers
of a finite set and `Null`, `NoTrans` are not among them (`StateAssumption`,
`NullAssumption`, `TransAssumption`); minimizers get machines whose pointers are
good and whose EOF targets are a scanner's (`MachinesAssumption`); operators get
two machines without common states, with leaving data on final states only
(`OpsAssumption`, `PlainAssumption`, which also makes states finite in number,
`InputsAssumption`, `PriorAssumption`); a
scanner's pattern machine has a pattern on exactly the transitions that lead to
final states (`ScanConstants`, `ScanBounds`, `ScanGraphs`); the machines that are
reduced have lists of disjoint ranges in the order of their keys, as the out lists of
the graph are (`MachinesAssumption`), and keys are numbers (`KeyAssumption`);
containers have keys that are positive numbers (`AvlKeys`), buffers at nonzero
addresses (`BufNumbers`), one more of them than tables (`EnoughBufs`: memory does not
run out; where it does, the code throws and ragel ends), uninitialised cells that are told from elements (`RawNoElem`), and plans of calls on the
tables and elements there are (`PlansFit`). TLC evaluates all of them in the runs.

* **minimizePartition2** (MinPartition2_proof): `TypeCorrect`,
  `TransitionsMatched`, `InactivePartitionsStable`, `SplitIsMinimal`,
  `FusingLeavesNoDanglingPointer`, `PartsArrayFits`, and the refinement
  `ImplementsMinSpec`. The inductive invariant `IInv` is `PInv`, shared
  with minimizePartition1 and kept by the lemmas of Partition_proof, and
  `InactiveStable`. `PInv` says that the partitions in use are numbered without a
  gap, that states of one partition agree on data (the functors compare only
  what is left), and that no partition is finer than any stable labelling
  (`NeverTooFine`): that half of minimality is about all labellings and has to be
  kept by each split. The other half is `InactiveStable`: a partition off the list
  is stable. It is kept because a split changes only the labels of its members,
  whose predecessors are woken. An empty list gives both halves. `PartsArrayFits`
  counts: each partition in use has a member of its own, so there are no more of
  them than states.
  The refinement adds `RefineInv`: while states are fused one by one, the machine
  `StandsFor` the input: it has the data and keys of the input, its pointers lead to
  the same labels, and no label has lost its last state; when each label has one
  state left, the machine is the quotient.
* **minimizePartition1** (AfterOp_proof): `RoundsReachMinimal`,
  `RoundsImplementMinSpec`. Here the
  second half is `RoundStable`: as long as a round has split nothing, the
  partitions it passed are stable, and a split is remembered in `numParts`.
* **minimizeStable** (AfterOp_proof): `MarkedPairsDiffer`, `UnmarkedIsEquivalence`, for
  the machines of the other minimizers, error transitions included as long as no
  fault occurs. `MkInv` says that
  no stable labelling joins a marked pair, that pairs whose data differ are marked from
  the first, and that what an unsuccessful round has passed would not be marked now.
  At the fixed point two states are taken `Together` if every labelling that
  respects the unmarked pairs gives them one label; the labels of targets, actions
  and data make such labellings in turn, so `Together` is stable, hence
  joins no marked pair, hence unmarked is transitive. While pairs are fused the
  machine stands for the input as above.
* **afterOpMinimize** (AfterOp_proof): `OpLeavesNoDanglingPointer`, `OpMarksDiffer`,
  `OpWalkIsSound`, `OpRoundsReachMinimal`, and the refinement `OpImplementsMinSpec`,
  for all four minimizers on whatever graph an operator leaves. `OpInv` says which
  minimizer's invariant holds, of which input: the cleaned graph, which has to be
  shown good (`CleanedGood`): `Reachable` is a recursive function that is iterated as
  often as there are states, and has to be closed by then.
  minimizeApproximate's invariant `ApInv` is about its walk (`WalkInv`): the entries
  ahead of it, and the one it compares with, are states still on the list, which is
  never longer than the array though its shrinking length bounds the walk; as long as
  the round has fused nothing, the array is the whole list, sorted, and no two neighbours
  passed compare equal. So a round that fuses nothing has missed nothing, and one
  that stopped short is followed by another.
  The refinement of minimizeApproximate is to the smaller promise, `Reduce`: each state
  left stands for itself (`ApRep`), since the one that goes on is the one all pointers
  are moved to, and being nearly alike is transitive, so that fuses of later rounds lose
  nothing more. `OpApproxIsQuotient` says when the promise is the full one: where no two
  states of the graph differ only in what ApproxCompare leaves out (`NothingHidden`),
  what is left is an exact quotient under a stable labelling.
* **Graph operators** (FsmOps_proof): `OpsTypeCorrect`, `OpsNoDangling`,
  `OpsLeavingOnFinals`, `OpsNoStaleBits`. `OInv` adds to the types that the graph
  is sound (pointers lead to nodes; nothing is kept of removed nodes), that while
  merging goes on every combined state's parts are still there (`Closed`, which
  is what entitles `fillInStates` to merge from them), and that every state the
  operator will still touch is there (`Asked`). `MarksInv` adds where leaving data
  and bits may be in each phase.

  `OpsSubsetConstruction` and `OpsNoDeadEnds` say that the operators are right: for
  machines of any size, in whatever order states are merged, the result does what the
  arguments do side by side, and only what cannot lead to acceptance is cut off. Their
  hypothesis `ClearInput` is what section 3 leaves out, since there the order of merging
  decides; TLC evaluates that the machines of the run ops meet it (`InputsClear`).
  They rest on what a transition `StandsFor`: a set of transitions of the arguments, of
  which it joins those of the highest priority. Crossing two transitions stands for the
  union of their sets (`CrossStandsFor`), if all have a priority or none has. That is
  associative, commutative and absorbs repetition, and hence the order of merging and
  the states that are merged twice make no difference. `PromiseInv` says, phase by phase,
  which threads have been merged into each state so far (`Merged`), and that its
  transitions, final status and bits are what these make (`Made`). A state that waits
  on the fill list has none; one taken off it has those not in `srcs`; any other all.
  Before that the final states of a concatenation or star are merged one by one
  (`ConcatFinals`, `StarFinals`), each of them with leaving data of its own. When the
  fill list is empty all states are complete (`Filled`). Taking away misfits, and states
  that are not marked walking back from the final ones, leaves what it should
  (`MisfitsRemoved`, `DeadEndsRemoved`), as a state leads to a final one exactly if its
  threads lead to acceptance (`LeadsAlive`).
* **Scanners** (Scanner_proof): `ScanTypeCorrect` (no token is empty, `p` and `te`
  stay within the input), `ScanTsMarksToken`, `ScanTextIsKept`, `SwitchHasCase`,
  `ScanErrorActionReady`, `ScanStopsOnlyWithoutMatch`, and the refinement
  `ScanIsMaximalMunch`.
  The invariant `SInv` locates the run in the pattern machine: inside a token the
  state is either one that can be reached from the start without a match
  (`Unmatched`, and then 0 is in its item set), or one that can be reached from
  the target of the last match without another (`Recorded`, and then that match is
  in its item set, and `te` and `act` are what `OnMatch` recorded if anything ahead
  may need them). That the generator's two searches of the graph, one to fill the
  item sets and one to decide what to record, fit together is what the proof shows.
  `MunchInv` adds the text: the state is the one that ScanSpec's `Run`, a recursive
  function of what was read since the last token, has come to, and the match recorded
  is the last in that text. Where the scanner stops or falls back the run is dead
  (`DeadRun`) or the input over, so that match is the longest there will be; what is
  read later changes no run (`RunAgrees`).
* **Reduced machine and tables** (Tables_proof): `TablesMeaningKept`,
  `TablesKeysSorted`, `TablesReadOwnKeys`. `ReduceInv` goes through the phases. While
  a list is read, the part made so far says what the entries read so far say, up to
  the key the last of them ends with (`Reads`); once finished it has no gap in the
  alphabet (`Full`), and so an entry that is moved to the default can be answered
  by it. While singles are moved out (`Before`), each is below the ranges not walked
  yet, except for the range walked now, which may have taken in the ranges around a
  single: it then spans more than a key and stays a range. That what lies between two
  ranges it joins are one-key ranges without a gap, each of which becomes a
  single, is `Contiguous`. `Gives` is what a lookup by
  single, range and default answers; `Kept` says that it is what the machine means,
  and holds of every state from then on.
  `TablesReadOwnKeys` relates two ways of counting: an offset is the sum of sizes of
  the states before (`IsSum`), the keys are their parts one after the other
  (`IsConcat`); `ConcatLength` shows for any number of states that one is the length
  of the other. `SearchInv` then keeps both bounds of a search an even distance from
  where the keys start (`Pairs`), which each halving preserves (`PairsHalved`). The
  theorem is for all seven table generators at once (`OffsetsWritten`,
  `MiddleOfTables`).
* **Containers** (Containers_proof), for the tables over shared and over own buffers:
  `TablesInvariance`, `BuffersCounted`, `TableLookupsRight`, and the refinement
  `TablesPromised`, for any number of tables, elements and calls. The inductive
  invariant `TablesInv` says that the memory is well-formed (`WellMem`: every buffer
  counts exactly the tables that point to it, is no longer than its cells and is free at
  zero), that what a table shows are elements in the order of their keys (`Tidy`), which
  the binary search needs to be right, and that a buffer of Vector has one owner (`Own`),
  which `transfer` needs not to show in others. The operations of svector.h
  and vector.h are first described by what they make of the family: table v
  `Becomes` a sequence and no other table shows a difference. Each of them has a branch that
  works in place when the count is one and a branch that leaves the buffer to the
  others, and resizes in both (`RawSpaceOpens`, `RemoveAtCuts`, `SetAsSets`; for whole
  buffers `AssignShares`, `DuplicateCopies`, `TransferMoves`). There always is
  a free buffer, since each one in use has a table of its own that points to it (`NewBufFree`).
  Above these the operations of bstcommon.h are a search and a change: `SearchFinds`
  says that the bounds always enclose the key, so a miss gives the only place that keeps
  the order, and `FindMultiFinds` that the scans from a hit find the ends of its run.
  `NextDoes` sums up what any call does (`Does`), from which both the invariant
  (`DoesTidy`) and the step of the abstract specification (`DoesPromised`) follow.
  Inserting one table into another is a loop of inserts; what it has joined so far is
  `Joins`. Two theorems have the hypothesis that the containers are not AVL trees.

**How recursion is reached.** The library's induction theorems take an operator, which
the provers cannot instantiate. **Recursion** restates induction over the numbers for a
*set* (`Induction`), gets it from a well-founded relation, and derives from it what
the proofs need: that a function defined step by step satisfies its equations
(`SequenceFacts`) and that a growing chain of subsets of a finite set stands still
after as many steps as it has elements (`StandsStill`), and that a function that walks
through the subsets of a finite set, always growing or always shrinking them, exists,
ends where the walk stands still, and keeps what each step keeps (`WalkExists`,
`WalkFacts`). Scanner_proof uses them for
`Run`, Tables_proof for what the folds over lists and arrays give (`StepsExist`),
FsmOps_proof for the removal of misfits and dead ends and for what is `Alive`,
**Partition_proof** for `Reachable`; it also shows what one `Fuse` does to a machine, on
which every minimizer's proof rests. A loop whose number of rounds is not known
beforehand is a function that comes to a value or asks itself again, nearer to one by
some measure: such a function exists (`AgainExists`), and where it arrives is where
the steps that preserve an invariant lead (`AgainFacts`). The binary search and
the scans of `findMulti` are of this kind.

**How instances are reached.** AfterOp instantiates three minimizers. A theorem
about a module is not visible through its instance, so AfterOp_proof first shows that
the operators of an instance are those of Fsm and Partition (`P2Lookups`, `MkLookups`,
`ApLookups` and their like) and then works with the latter.

**Only model-checked**: liveness; everything about execution loops and the chains of
priorities, whose modules have recursive operators (ExecSpec, Priorities) that the provers
cannot reach; AVL trees (`Balanced`, `WalksInOrder`, and for trees `LookupsRight` and
`AbstractSpec`), whose theorems would be about functions that branch over the shape of
a tree; and that a lookup answers what the machine says
(`AbstractSpec` of Tables), of which the theorems about tables give the parts that
concern the reduction and the places searched: the flat and goto styles, the
indicies and the widening of keys are left to TLC.

## 5. Findings

With a run each:

* `mark_error`: with `-b` two error transitions on one key make minimizeStable
  dereference a null pointer.
* `exec_error`: a `-G2` loop in C that is called again in the error state leaves it:
  its switch has no case for that state (cdipgoto.cpp:263 says none is needed). Go
  writes the case.
* `tables_gaps`: `alphabetCovered` (redfsm.cpp:384) compares the last range with the
  largest plain key. A state with conditions has keys above, and those above its last
  range go to the default transition where they should go to the error state.
* `prior_leak`: `setPrior` (fsmap.cpp:96) writes through the pointer that `insert`
  returned into a buffer that other copies of the transition share: in
  `("ab" $(n,1)){2} @(n,5)` the first `b` gets priority 5 as well.

Met while modelling, and left out of the passing runs:

* `starOp` (fsmgraph.cpp:226) inserts into `finStateSet` while it walks it, if the start
  state is final and there is leaving data, as in `('a'* %A)*`.
* `compareFullPtr` (fsmstate.cpp:460) does not look at the data of error transitions, and
  `ApproxCompare` (fsmstate.cpp:176) not at condition lists: with `-a` states are fused
  whose error actions or condition lists differ, and those of the state that stays are
  kept. `OpAbstractSpec` says that no more than this is lost.
* A concatenation under priorities can leave dead ends, which the comment at
  parsedata.cpp:68 rules out.
* `limitHigh` (cdgoto.cpp:156) leaves out the upper test of a range that ends
  with the alphabet, also where condition keys lie above it.
* The array of EOF transitions is typed by a value too small for its largest entry
  (cdtable.cpp:899).
* `empty` and `abandon` of an AVL tree without a list leave `head` and `tail` where they
  were, though the comment says that the tree is reset to its initial state; nothing in
  ragel reads them then. Assigning a shared vector to itself loses its contents;
  nothing in ragel does so.
* The generators differ where they should not (`Lacks` in Styles):
  * C#, Java, OCaml, Ruby and Crystal do not check the
    end of the input in a jump of an EOF action, and read on past it; C and Go do.
  * In-place styles forget a state set by `fnext` outside a transition, and give
    `fcall` and `ftargs` after an `fnext` the target of the transition for the current
    state; they have no state to push in an EOF action.
  * In C#'s in-place style `fbreak` overwrites the state set by `fnext`.
  * OCaml catches no jump in from-state and to-state actions, and refers to names it
    does not declare for `fbreak` and `fcurs`; for conditions it writes C.
  * Rubinius has no code for the end of the input, and from-state and to-state actions in
    the syntax of C.

## 6. What is not modelled

* *Text processing*: parser, name lookup, command line, XML and Graphviz
  output. Their correctness is about formats, which a state machine says little about.
* *Name resolution and graph building* (parsedata.cpp): a recursive walk of the parse
  tree that calls the operators modelled here in its order; what it keeps, names and
  their use counts, is text again. The step it repeats, an operator followed by
  `afterOpMinimize`, is FsmOps and AfterOp.
* *Lists as data structures*: in lists, `foreignInTrans`, misfit list and entry point map are
  modelled by what they contain.
* *Join, epsilon transitions, `deterministicEntry`, `isolateStartState`* as graph
  operations, and repetition apart from what it does to priorities.
* *Ranges in the graph*: operators and minimizers work on keys on which out lists are
  uniform; the pair iterator that splits ranges, and `compressTransitions`, are not
  modelled. From the reduced machine on, ranges are.
* *Several priority names in one crossing, leaving priorities, embedding of actions,
  condition spaces in the graph.* Conditions are modelled from the reduced machine on;
  before it a state's condition list is a value that comparisons look at or not.
* *Scanner patterns* whose actions jump, call, break or move `p`, patterns without an
  action, and names that refer to the scanner's start state.
* *Split styles* (cdsplit.cpp, cssplit.cpp), which spread a loop over several
  functions; the partitioning and ordering of states for them.
* *Of the containers*: replacing elements, `setAsDup` and `setAsNew`, keyless trees, and
  moving whole lists.

What would come next: the graph's lists with their counts, against a recount; join and
epsilon transitions on Merge, against threads that follow epsilon moves; the pair
iterator at the ends of the alphabet, against functions from keys to transitions;
proofs of what searches in the generated tables answer, and of the AVL trees, from what a
branch contains to the heights that a rotation restores.
