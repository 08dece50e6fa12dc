------------------------------ MODULE ScanSpec ------------------------------
(***************************************************************************)
(* What a scanner  |* p1; p2; ... *|  promises.  The union of the patterns *)
(* is one deterministic machine, out; a transition carries in its lm the   *)
(* patterns that match when it is taken.  The input is cut into tokens     *)
(* from left to right: each token is the longest non-empty match that      *)
(* starts where the last one ended, it is given to the first of the        *)
(* patterns that match it, and it may be announced before the end of the   *)
(* input only when no further character could make a longer match.         *)
(***************************************************************************)
EXTENDS Integers, SequencesExt

CONSTANTS State, Key, Pat, Start, Null, None

VARIABLES out,      \* the machine: out[s][k] = [to, lm]
          word,     \* the characters read so far
          eof,      \* the input is known to be complete
          toks      \* the tokens: <<pattern, from, upto>>

specVars == <<out, word, eof, toks>>

-----------------------------------------------------------------------------
\* The state after each prefix of the input that starts at i; not a State
\* once the machine has failed.
Run(i) ==
  LET at[j \in i .. Len(word)] ==
        IF j = i THEN Start
        ELSE IF at[j - 1] \in State THEN out[at[j - 1]][word[j]].to ELSE None
  IN at

\* The patterns that match the characters i+1 .. j.
Matching(i, j) == LET s == Run(i)[j - 1]
                  IN IF s \in State THEN out[s][word[j]].lm ELSE {}

Matches(i) == {j \in i + 1 .. Len(word) : Matching(i, j) # {}}

\* Reading on may still move the machine that started at i.
Extendable(i) == LET s == Run(i)[Len(word)]
                 IN s \in State /\ \E k \in Key : out[s][k].to \in State

Pos == IF toks = <<>> THEN 0 ELSE toks[Len(toks)][3]

-----------------------------------------------------------------------------
Init == word = <<>> /\ eof = FALSE /\ toks = <<>>

Read == /\ ~eof
        /\ word' \in Seq(Key) /\ IsStrictPrefix(word, word')
        /\ eof' \in BOOLEAN
        /\ UNCHANGED <<out, toks>>

End == ~eof /\ eof' = TRUE /\ UNCHANGED <<out, word, toks>>

Token == /\ Matches(Pos) # {}
         /\ eof \/ ~Extendable(Pos)
         /\ LET j == Max(Matches(Pos))
            IN toks' = Append(toks, <<Min(Matching(Pos, j)), Pos, j>>)
         /\ UNCHANGED <<out, word, eof>>

Next == Read \/ End \/ Token

Spec == Init /\ [][Next]_specVars
=============================================================================
