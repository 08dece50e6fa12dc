----------------------------- MODULE ExecMachine -----------------------------
(***************************************************************************)
(* What a generated execution loop runs: a reduced machine whose           *)
(* transitions and states carry statements, and an input that arrives in   *)
(* blocks.  A statement is ordinary code, which leaves a mark in the log,  *)
(* or one of Ragel's own: fhold, fexec, fcurs, ftargs, fgoto, fcall, fret,  *)
(* fnext, fbreak.  Together machine and input are a job.                          *)
(***************************************************************************)
EXTENDS Integers, Sequences

CONSTANTS State,   \* the states but the error state
          Start,   \* the start state
          Err,     \* the error state
          Key      \* the alphabet

ASSUME ExecStates == Start \in State /\ Err \notin State

Stmt(op, arg) == [op |-> op, arg |-> arg]

Jumps == {"goto", "call", "ret"}

Statement == [op : {"code", "exec", "goto", "call", "next"}, arg : Nat]
               \cup [op : {"hold", "curs", "targs", "ret", "break"}, arg : {0}]

\* Of the actions of a list, the statements in their order.
Action == Seq(Statement)

Trans == [to : State \cup {Err}, do : Action]

NoTrans == [to |-> Err, do |-> <<>>]   \* no EOF transition

Machine == [move : [State -> [Key -> Trans]],
            atEof : [State -> Trans],
            from : [State -> Action],
            into : [State -> Action],
            eof : [State -> Action]]

\* The input is cut before each of cuts; eof says whether its end is known
\* when the last block is processed.
IsJob(j) == /\ j.machine \in Machine
            /\ j.word \in Seq(Key)
            /\ j.cuts \in Seq(0 .. Len(j.word))
            /\ j.cuts # <<>> /\ j.cuts[Len(j.cuts)] = Len(j.word)
            /\ \A b \in 1 .. Len(j.cuts) - 1 : j.cuts[b] <= j.cuts[b + 1]
            /\ j.eof \in BOOLEAN

\* pe and eof while block b is processed; -1 when the end is not known.
BlockEnd(j, b) == j.cuts[b]
EofAt(j, b)    == IF j.eof /\ b = Len(j.cuts) THEN Len(j.word) ELSE -1

AnyOf(do, ops) == \E i \in DOMAIN do : do[i].op \in ops
=============================================================================
