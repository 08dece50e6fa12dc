------------------------------- MODULE ExecSpec -------------------------------
(***************************************************************************)
(* What executing a machine promises, whatever the language and the style  *)
(* of the generated code: on each character the from-state actions of the  *)
(* current state, then the transition with its actions, then the to-state  *)
(* actions of the target; jumps abandon what is left of their action and   *)
(* enter their target like a transition does; at the end of the input the  *)
(* EOF transition or the EOF actions; and nothing more once in the error   *)
(* state.  Run computes the whole log of a job at once, as the nested      *)
(* evaluation of its parts; the specification hands it out event by event. *)
(***************************************************************************)
EXTENDS ExecMachine

CONSTANT Fuel   \* bound on the characters a job processes

VARIABLES job,       \* the machine and its input
          promise,   \* the log of the whole job
          log        \* the events so far

Event(e, a, p) == <<e, a, p>>

Noted(c, e, a) == [c EXCEPT !.log = Append(@, Event(e, a, c.p))]

\* One statement.  then says how the action goes on: to the next statement,
\* into the state cs, or out of the loop.
Perform(c, s, targ) ==
  CASE s.op = "code"  -> Noted(c, "code", s.arg)
    [] s.op = "curs"  -> Noted(c, "curs", c.ps)
    [] s.op = "targs" -> Noted(c, "targs", c.cs)
    [] s.op = "hold"  -> [c EXCEPT !.p = @ - 1]
    [] s.op = "exec"  -> [c EXCEPT !.p = s.arg - 1]
    [] s.op = "goto"  -> [c EXCEPT !.cs = s.arg, !.then = "enter"]
    [] s.op = "call"  -> [c EXCEPT !.stack = Append(@, c.cs), !.cs = s.arg, !.then = "enter"]
    [] s.op = "ret"   -> IF c.stack = <<>> THEN [Noted(c, "underflow", 0) EXCEPT !.then = "leave"]
                         ELSE [c EXCEPT !.stack = SubSeq(@, 1, Len(@) - 1),
                                        !.cs = c.stack[Len(c.stack)], !.then = "enter"]
    [] s.op = "next"  -> [c EXCEPT !.cs = s.arg]
    [] s.op = "break" -> [c EXCEPT !.p = @ + 1, !.then = "leave"]

PerformAll(c, do) ==
  LET upto[i \in 0 .. Len(do)] ==
        IF i = 0 THEN [c EXCEPT !.then = "on"]
        ELSE IF upto[i - 1].then # "on" THEN upto[i - 1]
        ELSE Perform(upto[i - 1], do[i], c.cs)
  IN upto[Len(do)]

RECURSIVE Resume(_, _), Entered(_, _), AtEnd(_, _), Block(_, _)

\* The transition t from the current state, then its target.
Take(j, c, t) ==
  LET d == PerformAll([c EXCEPT !.ps = c.cs, !.cs = t.to], t.do)
  IN IF d.then = "leave" THEN d ELSE Entered(j, d)

\* A character is there for the current state.
Resume(j, c) ==
  IF c.fuel = 0 THEN Noted(c, "endless", 0)
  ELSE LET d == PerformAll([c EXCEPT !.fuel = @ - 1], j.machine.from[c.cs])
       IN IF d.then = "leave" THEN d
          ELSE IF d.then = "enter" THEN Entered(j, d)
          ELSE IF d.p \notin 0 .. c.pe - 1 THEN Noted(d, "overrun", 0)
          ELSE Take(j, d, j.machine.move[d.cs][j.word[d.p + 1]])

\* The state cs has been entered, by a transition or a jump.
Entered(j, c) ==
  IF c.cs = Err THEN c
  ELSE IF c.fuel = 0 THEN Noted(c, "endless", 0)
  ELSE LET d == PerformAll([c EXCEPT !.fuel = @ - 1], j.machine.into[c.cs])
       IN IF d.then = "leave" \/ d.cs = Err THEN d
          ELSE IF d.then = "enter" THEN Entered(j, d)
          ELSE LET e == [d EXCEPT !.p = @ + 1]
               IN IF e.p # c.pe THEN Resume(j, e) ELSE AtEnd(j, e)

\* The block is used up.  An EOF action may jump: into a state whose end it
\* is as well, or after a step back into the rest of the input.
AtEnd(j, c) ==
  IF c.fuel = 0 THEN Noted(c, "endless", 0)
  ELSE IF c.cs = Err \/ c.p # c.eof THEN c
  ELSE IF j.machine.atEof[c.cs] # NoTrans
  THEN Take(j, [c EXCEPT !.fuel = @ - 1], j.machine.atEof[c.cs])
  ELSE LET d == PerformAll([c EXCEPT !.fuel = @ - 1], j.machine.eof[c.cs])
       IN IF d.then # "enter" THEN d
          ELSE IF d.p = c.pe THEN AtEnd(j, d)
          ELSE Entered(j, d)

\* One call of the loop.
Execute(j, c) ==
  IF c.p = c.pe THEN AtEnd(j, c)
  ELSE IF c.cs = Err THEN c
  ELSE Resume(j, c)

\* The blocks from block b on.  The driver calls the loop again after fbreak;
\* once in the error state what is left of a block is dropped.
Block(j, c) ==
  LET d == Execute(j, [c EXCEPT !.pe = BlockEnd(j, c.blk), !.eof = EofAt(j, c.blk)])
      e == Noted(d, "return", d.cs)
  IN IF d.fuel = 0 THEN Noted(d, "endless", 0)
     ELSE IF e.cs # Err /\ e.p < e.pe THEN Block(j, e)
     ELSE IF e.blk = Len(j.cuts) THEN e
     ELSE Block(j, [e EXCEPT !.blk = @ + 1, !.p = e.pe])

Run(j) ==
  Block(j, [cs |-> Start, p |-> 0, ps |-> Start, stack |-> <<>>, log |-> <<>>,
            then |-> "on", blk |-> 1, pe |-> 0, eof |-> -1, fuel |-> Fuel]).log

\* A job no machine should be given: it never ends, or it leaves the input.
Faulty(run) == \E i \in DOMAIN run : run[i][1] \in {"endless", "overrun", "underflow"}

-----------------------------------------------------------------------------
vars == <<job, promise, log>>

Init == /\ IsJob(job) /\ promise = Run(job) /\ ~Faulty(promise)
        /\ log = <<>>

Next == /\ Len(log) < Len(promise)
        /\ log' = Append(log, promise[Len(log) + 1])
        /\ UNCHANGED <<job, promise>>

Spec == Init /\ [][Next]_vars /\ WF_vars(Next)
=============================================================================
