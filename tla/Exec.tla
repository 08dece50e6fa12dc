--------------------------------- MODULE Exec ---------------------------------
(***************************************************************************)
(* A generated execution loop at work on a job: the program of a style,    *)
(* one action per instruction, and the code around it that hands the loop  *)
(* block after block.  Ragel's statements expand, when a list is run, to   *)
(* the instructions the style's generator writes for them; those are done  *)
(* before the program goes on.                                             *)
(***************************************************************************)
EXTENDS Styles

CONSTANTS Fuel,    \* as in ExecSpec
          Chosen   \* the styles that are run

ASSUME ExecChosen == Chosen \subseteq Style

VARIABLES job,      \* the machine and its input
          promise,  \* what is promised of the job: only read at the start
          style,    \* the style of the loop
          blk,      \* the block being processed
          pc,       \* the next instruction of the program; 0: stopped
          cs, p,    \* the current state, the position in the input
          stack,    \* the states fcall has left
          at,       \* in place: the state whose code runs
          trans,    \* the transition being taken
          ps,       \* the state it leaves
          todo,     \* what is left of an action list, expanded
          catch,    \* where the list's exceptions are caught
          trig,     \* the level a jump in a list has set
          log       \* the events so far

input == <<job, promise, style>>
regs  == <<cs, p, stack>>
local == <<at, trans, ps>>
lists == <<todo, catch, trig>>
vars  == <<input, blk, pc, regs, local, lists, log>>

S == INSTANCE ExecSpec

\* The program of a style without its labels, and the place of each label.
Unlabelled == [y \in Style |-> SelectSeq(ProgramOf[y], LAMBDA i : i.op # "label")]

Places == [y \in Style |->
  LET c == ProgramOf[y]
      labels == {i \in DOMAIN c : c[i].op = "label"}
  IN [l \in {c[i].to : i \in labels} |->
        LET i == CHOOSE k \in labels : c[k].to = l
        IN i - Cardinality({k \in labels : k < i})]]

Code  == Unlabelled[style]
Instr == IF todo # <<>> THEN Head(todo) ELSE Code[pc]

Running(op) == (todo # <<>> \/ pc \in 1 .. Len(Code)) /\ Instr.op = op

pe  == BlockEnd(job, blk)
eof == EofAt(job, blk)

Fall == IF todo # <<>> THEN todo' = Tail(todo) /\ UNCHANGED <<pc, catch, trig>>
                       ELSE pc' = pc + 1 /\ UNCHANGED lists

GoTo(l) == pc' = Places[style][l] /\ todo' = <<>> /\ UNCHANGED <<catch, trig>>

If(c, l) == IF c THEN GoTo(l) ELSE Fall

Note(e, a) == log' = Append(log, S!Event(e, a, p))

Stop(e) == Note(e, 0) /\ pc' = 0 /\ todo' = <<>> /\ UNCHANGED <<catch, trig>>

-----------------------------------------------------------------------------
\* Tests and steps.
Testing == /\ \/ Running("goto")  /\ GoTo(Instr.to)
              \/ Running("ifEnd") /\ If(p = pe, Instr.to)
              \/ Running("ifErr") /\ If(cs = Err, Instr.to)
              \/ Running("ifAtErr") /\ If(at = Err, Instr.to)
              \/ Running("unlessEof") /\ If(p # eof, Instr.to)
           /\ UNCHANGED <<input, blk, regs, local, log>>

Advancing == /\ Running("advance")
             /\ p' = p + 1
             /\ If(p' # pe, Instr.to)
             /\ UNCHANGED <<input, blk, cs, stack, local, log>>

LocateFrom(s) ==
  IF p \in 0 .. pe - 1
  THEN /\ trans' = job.machine.move[s][job.word[p + 1]]
       /\ Fall /\ UNCHANGED log
  ELSE Stop("overrun") /\ UNCHANGED trans

Locating == /\ \/ Running("locate") /\ LocateFrom(cs)
               \/ Running("locateAt") /\ LocateFrom(at)
            /\ UNCHANGED <<input, blk, regs, at, ps>>

\* In place the EOF transition's code is that of a transition into its
\* target.
EofTransition == /\ Running("eofTrans")
                 /\ IF cs # Err /\ job.machine.atEof[cs] # NoTrans
                    THEN trans' = job.machine.atEof[cs] /\ GoTo(Instr.to)
                    ELSE Fall /\ UNCHANGED trans
                 /\ UNCHANGED <<input, blk, regs, at, ps, log>>

Entering == /\ \/ Running("enter") /\ cs' = trans.to /\ UNCHANGED local
               \/ Running("savePs") /\ ps' = (IF style \in InPlace THEN at ELSE cs)
                                    /\ UNCHANGED <<cs, at, trans>>
            /\ Fall
            /\ UNCHANGED <<input, blk, p, stack, log>>

-----------------------------------------------------------------------------
\* Action lists.
NextIn(do) == AnyOf(do, {"next"})

Expanded(do, fin, targ) ==
  FlattenSeq([i \in DOMAIN do |->
    InlineOf(style, do[i], IF do[i].op \in {"code", "hold", "exec"} THEN <<>>
                           ELSE JumpOf(style, do[i], fin, targ, fin \/ NextIn(do)))])

RunList(do, fin, targ) ==
  /\ pc' = pc + 1
  /\ todo' = Expanded(do, fin, targ)
  /\ catch' = (IF "to" \in DOMAIN Instr THEN Instr.to ELSE Never)
  /\ trig' = ""

OfState(f, s) == IF s = Err THEN <<>> ELSE f[s]

RunActions ==
  /\ \/ Running("from") /\ RunList(OfState(job.machine.from, cs), FALSE, cs)
     \/ Running("fromAt") /\ RunList(OfState(job.machine.from, at), FALSE, at)
     \/ Running("acts") /\ RunList(trans.do, FALSE, trans.to)
     \/ Running("into") /\ RunList(OfState(job.machine.into, cs), FALSE, cs)
     \/ Running("intoAt") /\ RunList(OfState(job.machine.into, at), FALSE, at)
     \/ Running("eofActs") /\ RunList(OfState(job.machine.eof, cs), TRUE, Err)
  /\ UNCHANGED <<input, blk, regs, local, log>>

\* The rest of the list is dropped, or the list has been left already.
Triggering ==
  /\ \/ /\ Running("trigger")
        /\ trig' = Instr.to /\ todo' = <<>>
        /\ UNCHANGED <<pc, catch>>
     \/ Running("ifTriggered") /\ If(trig # "", trig)
  /\ UNCHANGED <<input, blk, regs, local, log>>

Raising == /\ Running("raise")
           /\ IF catch = Never THEN Stop("uncaught") ELSE GoTo(catch) /\ UNCHANGED log
           /\ UNCHANGED <<input, blk, regs, local>>

-----------------------------------------------------------------------------
\* Statements.
Speaking == /\ \/ Running("code")   /\ Note("code", Instr.arg)
               \/ Running("logCs")  /\ Note("targs", cs)
               \/ Running("logArg") /\ Note("targs", Instr.arg)
               \/ Running("logPs")  /\ Note("curs", ps)
            /\ Fall
            /\ UNCHANGED <<input, blk, regs, local>>

Moving == /\ \/ Running("hold") /\ p' = p - 1
             \/ Running("exec") /\ p' = Instr.arg - 1
             \/ Running("step") /\ p' = p + 1
          /\ Fall
          /\ UNCHANGED <<input, blk, cs, stack, local, log>>

SettingCs == /\ \/ Running("setCs") /\ cs' = Instr.arg
                \/ Running("saveCs") /\ cs' = at
                \/ Running("preload") /\ cs' = (IF NextIn(trans.do) THEN trans.to ELSE cs)
             /\ Fall
             /\ UNCHANGED <<input, blk, p, stack, local, log>>

Pushing == /\ \/ Running("pushCs") /\ stack' = Append(stack, cs)
              \/ Running("push") /\ stack' = Append(stack, Instr.arg)
           /\ Fall
           /\ UNCHANGED <<input, blk, cs, p, local, log>>

Popping == /\ Running("pop")
           /\ IF stack = <<>> THEN Stop("underflow") /\ UNCHANGED <<cs, stack>>
              ELSE /\ stack' = SubSeq(stack, 1, Len(stack) - 1)
                   /\ cs' = stack[Len(stack)]
                   /\ Fall /\ UNCHANGED log
           /\ UNCHANGED <<input, blk, p, local>>

-----------------------------------------------------------------------------
\* In place.  An exit is written for the states something leads to.
HasExit == {s \in State : \E x \in State, k \in Key : job.machine.move[x][k].to = s}

InPlaceStep ==
  /\ \/ /\ Running("switchCs")
        /\ IF cs = Err THEN at' = cs /\ GoTo(Instr.to) ELSE at' = cs /\ Fall
     \/ Running("dispatch") /\ at' = cs /\ Fall
     \/ Running("setAt") /\ at' = Instr.arg /\ Fall
     \/ Running("arrive") /\ at' = trans.to /\ Fall
     \/ Running("stray") /\ at' \in HasExit /\ Fall
     \/ Running("stray") /\ HasExit = {} /\ at' = at /\ Fall
     \/ Running("ifNext") /\ at' = at /\ If(NextIn(trans.do), Instr.to)
  /\ UNCHANGED <<input, blk, regs, trans, ps, log>>

-----------------------------------------------------------------------------
\* The loop returns.  It is called again for what fbreak has left of the
\* block, and with the next block; in the error state the rest of a block is
\* dropped.
Return ==
  /\ pc > Len(Code) /\ todo = <<>>
  /\ Note("return", cs)
  /\ at' = Err /\ trans' = NoTrans /\ ps' = Err
  /\ catch' = Never /\ trig' = "" /\ todo' = <<>>
  /\ IF cs # Err /\ p < pe
     THEN pc' = 1 /\ UNCHANGED <<blk, p>>
     ELSE IF blk = Len(job.cuts)
     THEN pc' = 0 /\ UNCHANGED <<blk, p>>
     ELSE pc' = 1 /\ blk' = blk + 1 /\ p' = pe
  /\ UNCHANGED <<input, cs, stack>>

Begin == /\ IsJob(job)
         /\ promise = S!Run(job)
         /\ ~S!Faulty(promise)
         /\ style \in Chosen
         /\ blk = 1 /\ pc = 1
         /\ cs = Start /\ p = 0 /\ stack = <<>>
         /\ at = Err /\ trans = NoTrans /\ ps = Err
         /\ todo = <<>> /\ catch = Never /\ trig = ""
         /\ log = <<>>

\* The jobs a style is not known to do otherwise.
Init == Begin /\ ~Lacks(style, job.machine, promise)

Next == \/ Testing \/ Advancing \/ Locating \/ EofTransition \/ Entering
        \/ RunActions \/ Triggering \/ Raising
        \/ Speaking \/ Moving \/ SettingCs \/ Pushing \/ Popping
        \/ InPlaceStep
        \/ Return

Spec == Init /\ [][Next]_vars /\ WF_vars(Next)

-----------------------------------------------------------------------------
\* Whatever the language and the style, the code logs what is promised of the
\* job: the actions run in the promised order and places, every call of the
\* loop returns in the promised state, and the job comes to its end.
AbstractSpec == S!Spec

\* "The machine immediately breaks out of the processing loop when it finds
\* itself in the error state": once a call has returned in the error state
\* every later call does (ragel-guide.tex 2788).
ErrorStateKept ==
  \A i, k \in DOMAIN log :
     /\ i < k
     /\ log[i][1] = "return" /\ log[i][2] = Err
     => /\ log[k][1] = "return" /\ log[k][2] = Err
=============================================================================
