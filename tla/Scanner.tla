------------------------------- MODULE Scanner -------------------------------
(***************************************************************************)
(* The generated scanner at run time: the exec loop of TabCodeGen with the *)
(* longest-match actions of xmlcodegen.cpp, and the driver that hands it   *)
(* the input block by block as the guide prescribes, keeping only the text *)
(* from ts on.  Positions are absolute: p is the number of characters      *)
(* before the next one, and pe is Len(word).                               *)
(***************************************************************************)
EXTENDS LongestMatch, Sequences

CONSTANTS Graphs,    \* the pattern machines the scanner is built from
          MaxLen,    \* bound on the length of the input
          MaxBlock   \* bound on the length of a block

ASSUME ScanBounds == MaxLen \in Nat /\ MaxBlock \in Nat \ {0}

ASSUME ScanGraphs == Graphs \subseteq ScannerGraph

VARIABLES out, word, eof, toks,     \* as in ScanSpec
          mach,                     \* what runLongestMatch makes of out
          cs, p, ts, te, act,       \* the scanner's variables
          kept                      \* the first character still in the buffer

vars == <<out, word, eof, toks, mach, cs, p, ts, te, act, kept>>

-----------------------------------------------------------------------------
\* write init
Init == /\ out \in Graphs
        /\ mach = RunLongestMatch(out)
        /\ word = <<>> /\ eof = FALSE /\ toks = <<>> /\ kept = 0
        /\ cs = mach.root /\ p = 0
        /\ ts = None /\ te = 0 /\ act = 0

\* A bug: ts is never set to null again.
EnterKeepTs(s, a) == /\ cs' = s
                     /\ ts' = a.ts
                     /\ act' = IF s = mach.root /\ mach.handlesError THEN 0 ELSE a.act

\* A bug: act keeps the pattern of the last token.
EnterKeepAct(s, a) == /\ cs' = s
                      /\ ts' = IF s = mach.root THEN None ELSE a.ts
                      /\ act' = a.act

\* The initts and initact actions of the start state, run on entering it.
Enter(s, a) == /\ cs' = s
               /\ ts' = IF s = mach.root THEN None ELSE a.ts
               /\ act' = IF s = mach.root /\ mach.handlesError THEN 0 ELSE a.act

\* A token is handed to the pattern's action and scanning restarts at upto.
Emit(pat, from, upto, m, a) ==
  /\ toks' = Append(toks, <<pat, from, upto>>)
  /\ p' = upto
  /\ Enter(m.to, a)

\* The error state: exec leaves the loop with p where it is.
Fail(start) == cs' = Err /\ ts' = start /\ UNCHANGED <<toks, p, te, act>>

\* The actions of a transition.  start is ts as they see it.
OnLast(m, start) ==
  /\ "last" \in m.do
  /\ te' = p + 1
  /\ Emit(m.pat, start, p + 1, m, [ts |-> start, act |-> act])

OnNext(m, start) ==
  /\ "next" \in m.do
  /\ te' = p
  /\ Emit(m.pat, start, p, m, [ts |-> start, act |-> act])

LagBehind(m, start) ==
  /\ "lag" \in m.do
  /\ Emit(m.pat, start, te, m, [ts |-> start, act |-> act])
  /\ UNCHANGED te

\* A bug: case 0 scans the token again.
SwitchRetry(m, start) ==
  /\ "switch" \in m.do
  /\ IF act = 0 /\ mach.handlesError
     THEN /\ p' = start /\ Enter(m.to, [ts |-> start, act |-> act])
          /\ UNCHANGED <<toks, te>>
     ELSE /\ toks' = Append(toks, <<act, start, te>>)
          /\ p' = te
          /\ Enter(m.to, [ts |-> start, act |-> act])
          /\ UNCHANGED te

\* Without a case for act the switch does nothing and scanning restarts on
\* the next character.
Switch(m, start) ==
  /\ "switch" \in m.do
  /\ IF act = 0 /\ mach.handlesError
     THEN Fail(start)
     ELSE LET known == act \in mach.inLmSelect
          IN /\ toks' = IF known THEN Append(toks, <<act, start, te>>) ELSE toks
             /\ p' = IF known THEN te ELSE p + 1
             /\ Enter(m.to, [ts |-> start, act |-> act])
             /\ UNCHANGED te

Advance(m, start) ==
  /\ m.to # Err /\ m.do \cap {"last", "next", "lag", "switch"} = {}
  /\ p' = p + 1
  /\ te' = IF "te" \in m.do THEN p + 1 ELSE te
  /\ Enter(m.to, [ts |-> start, act |-> IF "act" \in m.do THEN m.pat ELSE act])
  /\ UNCHANGED toks

Error(m, start) == m.to = Err /\ Fail(start)

Perform(m, start) ==
  \/ OnLast(m, start) \/ OnNext(m, start) \/ LagBehind(m, start)
  \/ Switch(m, start) \/ Advance(m, start) \/ Error(m, start)

-----------------------------------------------------------------------------
\* A bug: the start state has no from-state action.
TokStartUnset == ts

\* The from-state action of the start state sets ts.
TokStart == IF cs = mach.root THEN p ELSE ts

\* _resume: the from-state action, then the transition.
Exec == /\ cs # Err /\ p < Len(word)
        /\ Perform(mach.move[cs][word[p + 1]], TokStart)
        /\ UNCHANGED <<out, word, eof, mach, kept>>

\* _test_eof: p = pe = eof and the state has an EOF transition.
ExecEof == /\ cs # Err /\ p = Len(word) /\ eof
           /\ mach.atEof[cs].to # Err
           /\ Perform(mach.atEof[cs], ts)
           /\ UNCHANGED <<out, word, eof, mach, kept>>

\* The driver, once exec has returned with the block consumed: it keeps the
\* text from ts on, and reads the next block or finds the end of the input.
Shift == kept' = IF ts = None THEN p ELSE ts

Feed == /\ cs # Err /\ p = Len(word) /\ ~eof
        /\ \E n \in 1 .. MaxBlock : \E b \in [1 .. n -> Key] :
             Len(word) + n <= MaxLen /\ word' = word \o b
        /\ eof' \in BOOLEAN
        /\ Shift
        /\ UNCHANGED <<out, toks, mach, cs, p, ts, te, act>>

FeedEof == /\ cs # Err /\ p = Len(word) /\ ~eof
           /\ eof' = TRUE
           /\ Shift
           /\ UNCHANGED <<out, word, toks, mach, cs, p, ts, te, act>>

Next == Exec \/ ExecEof \/ Feed \/ FeedEof

Spec == Init /\ [][Next]_vars

\* The generated code runs until it returns; the driver reads until the end.
FairSpec == Spec /\ WF_vars(Next)

Finished == cs = Err \/ (eof /\ p = Len(word) /\ mach.atEof[cs].to = Err)

-----------------------------------------------------------------------------
(* Properties.                                                             *)

Promise == INSTANCE ScanSpec

\* Every value the variables take: in particular te and p never leave the
\* input, and a token is never empty.
TypeOK == /\ out \in [State -> [Key -> Edge]]
          /\ word \in Seq(Key) /\ Len(word) <= MaxLen
          /\ eof \in BOOLEAN
          /\ toks \in Seq(Pat \X (0 .. MaxLen) \X (1 .. MaxLen))
          /\ mach.root \in Node
          /\ mach.move \in [Node -> [Key -> Move]]
          /\ mach.atEof \in [Node -> Move]
          /\ mach.handlesError \in BOOLEAN
          /\ mach.inLmSelect \subseteq Pat
          /\ cs \in Node \cup {Err}
          /\ p \in 0 .. Len(word)
          /\ ts \in (0 .. Len(word)) \cup {None}
          /\ te \in 0 .. Len(word)
          /\ act \in Pat \cup {0}
          /\ kept \in 0 .. Len(word)

\* The scanner cuts its input as ScanSpec says: whatever the error actions,
\* the te and act bookkeeping the generator thought necessary, the blocks
\* the input arrives in and the end of the input do, each token is the
\* longest match, goes to the first matching pattern, and is announced only
\* when no longer one can follow.
MaximalMunch == Promise!Spec

\* The scanner gives up, by error or at the end of the input, only where
\* none of its patterns matches a prefix of what is left.
StopsOnlyWithoutMatch == Finished => Promise!Matches(Promise!Pos) = {}

\* Wherever the next character or the end of the input may trigger the
\* action that accepts an earlier match, te and act are those of the longest
\* match since ts: no error action ever uses the te or act of an earlier
\* token, and the switch finds 0 exactly when nothing has matched.
ErrorActionReady ==
  cs # Err =>
    LET do == mach.atEof[cs].do
        ends == {j \in Promise!Matches(Promise!Pos) : j <= p}
        last == Max(ends)
        pat  == Min(Promise!Matching(Promise!Pos, last))
    IN /\ "lag" \in do => ends # {} /\ te = last /\ mach.atEof[cs].pat = pat
       /\ "switch" \in do => IF ends = {} THEN act = 0
                              ELSE te = last /\ act = pat

\* Between tokens ts is null, inside one it is where the token starts: the
\* driver knows from ts alone what it must keep.
TsMarksToken ==
  cs # Err => ts = IF cs = mach.root THEN None ELSE Promise!Pos

\* The scanner never goes back to text the driver has thrown away, neither
\* to rescan it nor to hand it out as part of a token.
KeepsText == /\ p' >= kept
             /\ toks' # toks => toks'[Len(toks')][2] \in kept .. p'

TextIsKept == [][KeepsText]_vars

\* Once the whole input is there the scanner finishes: backtracking never
\* goes round in circles.
Terminates == <>Finished
=============================================================================
