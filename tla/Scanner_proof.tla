---------------------------- MODULE Scanner_proof ----------------------------
(***************************************************************************)
(* For every scanner and every input: ts marks the token being scanned,    *)
(* the switch always has a case for act, and the scanner never goes back   *)
(* to text its driver no longer has.                                       *)
(***************************************************************************)
EXTENDS Scanner, Recursion, SequenceTheorems, TLAPS

\* Lemma: Min of a set of numbers is one of them.
LEMMA MinInSet ==
  ASSUME NEW S, S \subseteq Nat, S # {}
  PROVE  Min(S) \in S
<1>1. PICK x \in S : \A y \in S : x =< y
  BY SmallestNumber
<1> QED BY <1>1 DEF Min

-----------------------------------------------------------------------------
(* The pattern machine and its item sets.                                  *)

\* The transitions that hand their pattern on to the item sets.
MatchEdge(g) == {f \in UNION {Range(g[r]) : r \in State} : f.lm # {} /\ HasOut(g, f.to)}

\* Lemma: the marked states include the first one and all that is reached
\* from them without entering a final state (markReachableFromHereStopFinal).
LEMMA Marked ==
  ASSUME NEW g, NEW s \in State
  PROVE  /\ s \in StopFinal(g, s)
         /\ StopFinal(g, s) \subseteq State
         /\ \A r \in StopFinal(g, s), k \in Key :
              g[r][k].to \in State \ Fin(g) => g[r][k].to \in StopFinal(g, s)
<1> DEFINE Step == {e \in State \X (State \ Fin(g)) : \E k \in Key : g[e[1]][k].to = e[2]}
           Closed(M) == s \in M /\ \A e \in Step : e[1] \in M => e[2] \in M
<1>1. StopFinal(g, s) = {t \in State : \A M \in SUBSET State : Closed(M) => t \in M}
  BY DEF StopFinal
<1>2. ASSUME NEW r \in StopFinal(g, s), NEW k \in Key, g[r][k].to \in State \ Fin(g)
      PROVE  g[r][k].to \in StopFinal(g, s)
  <2>1. r \in State
    BY <1>1
  <2>2. <<r, g[r][k].to>> \in Step
    BY <1>2, <2>1
  <2> HIDE DEF Step
  <2>3. ASSUME NEW M \in SUBSET State, Closed(M)
        PROVE  g[r][k].to \in M
    <3>1. r \in M
      BY <1>1, <2>3
    <3> QED BY <2>2, <2>3, <3>1
  <2> QED BY <1>1, <1>2, <2>3
<1> QED BY <1>1, <1>2

\* Lemma: nothing marks a start state that no transition leads to, unless
\* marking begins there.
LEMMA StartUnmarked ==
  ASSUME NEW g, NEW s \in State, Isolated(g), s # Start
  PROVE  Start \notin StopFinal(g, s)
<1> DEFINE M == State \ {Start}
           Step == {e \in State \X (State \ Fin(g)) : \E k \in Key : g[e[1]][k].to = e[2]}
<1>1. \A e \in Step : e[2] \in M
  BY DEF Isolated
<1> HIDE DEF Step
<1>2. s \in M /\ \A e \in Step : e[1] \in M => e[2] \in M
  BY <1>1
<1>3. StopFinal(g, s) \subseteq M
  BY <1>2 DEF StopFinal, Step
<1> QED BY <1>3

\* Lemma: 0 is in the item sets of the states reached without a match, and
\* the pattern of a transition in those of the states behind it.
LEMMA ItemFacts ==
  ASSUME NEW g \in ScannerGraph
  PROVE  /\ \A e \in MatchEdge(g) : e.to \in State /\ LmAct(e) \in Pat
         /\ \A s \in State :
              /\ Items(g)[s] \subseteq Pat \cup {0}
              /\ 0 \in Items(g)[s] <=> s \in StopFinal(g, Start)
              /\ \A e \in MatchEdge(g) : s \in StopFinal(g, e.to) => LmAct(e) \in Items(g)[s]
              /\ \A q \in Items(g)[s] \ {0} : \E e \in MatchEdge(g) :
                   q = LmAct(e) /\ s \in StopFinal(g, e.to)
<1>1. ASSUME NEW e \in MatchEdge(g)
      PROVE  e.to \in State /\ LmAct(e) \in Pat
  <2>1. PICK r \in State, k \in Key : e = g[r][k] /\ g[r][k].lm # {}
    BY DEF MatchEdge, Range, ScannerGraph
  <2>2. g[r][k] \in Edge /\ g[r][k].to \in Fin(g)
    BY <2>1 DEF ScannerGraph
  <2>3. e.lm \subseteq Pat /\ e.lm # {} /\ e.to \in State
    BY <2>1, <2>2 DEF Edge, Fin
  <2>4. LmAct(e) \in e.lm
    BY <2>3, MinInSet, ScanConstants DEF LmAct
  <2> QED BY <2>3, <2>4
<1>2. ASSUME NEW s \in State
      PROVE  Items(g)[s] = (IF s \in StopFinal(g, Start) THEN {0} ELSE {})
                 \cup {LmAct(e) : e \in {f \in MatchEdge(g) : s \in StopFinal(g, f.to)}}
  <2> DEFINE from == [t \in State |-> StopFinal(g, t)]
             at(t) == (IF t \in from[Start] THEN {0} ELSE {})
                      \cup {LmAct(e) : e \in {f \in UNION {Range(g[r]) : r \in State} :
                              /\ f.lm # {} /\ HasOut(g, f.to)
                              /\ t \in from[f.to]}}
  <2>1. Items(g) = [t \in State |-> at(t)]
    BY DEF Items
  <2>2. {f \in UNION {Range(g[r]) : r \in State} :
           f.lm # {} /\ HasOut(g, f.to) /\ s \in from[f.to]}
        = {f \in MatchEdge(g) : s \in StopFinal(g, f.to)}
    <3>1. \A f \in MatchEdge(g) : from[f.to] = StopFinal(g, f.to)
      BY <1>1
    <3> QED BY <3>1 DEF MatchEdge
  <2>3. from[Start] = StopFinal(g, Start)
    BY ScanConstants
  <2> QED BY <2>1, <2>2, <2>3
<1>3. \A e \in MatchEdge(g) : LmAct(e) # 0
  BY <1>1, ScanConstants
<1> QED BY <1>1, <1>2, <1>3

-----------------------------------------------------------------------------
(* The machine runLongestMatch makes.                                      *)

Fails(m)    == m.to = Err /\ m.do = {}
Accepts(m, r) == m.to = r /\ m.do \in {{"switch"}, {"next"}, {"lag"}}

\* Lemma: what a state does where it has no transition (setErrorTarget).
LEMMA ErrorFacts ==
  ASSUME NEW g \in ScannerGraph, NEW s \in Node
  PROVE  LET m == OnError(g, Items(g), s)
         IN  /\ m \in Move
             /\ Fails(m) \/ Accepts(m, Root(g))
             /\ Accepts(m, Root(g)) => s \in State
             /\ m.do = {"switch"} => Many(Items(g)[s])
             /\ Fails(m) => s = Fresh \/ Items(g)[s] \subseteq {0}
             /\ m.do \in {{"next"}, {"lag"}} =>
                  m.pat \in Pat /\ 0 \notin Items(g)[s] /\ Items(g)[s] = {m.pat}
             /\ m.do = {"next"} => s \in Fin(g)
             /\ m.do = {"lag"} => s \notin Fin(g) /\ Items(g)[s] # {}
<1> DEFINE m   == OnError(g, Items(g), s)
           set == IF s = Fresh THEN {} ELSE Items(g)[s]
<1>1. s = Fresh => set = {}
  OBVIOUS
<1>2. s # Fresh => s \in State /\ set = Items(g)[s] /\ set \subseteq Pat \cup {0}
  BY ItemFacts DEF Node
<1>3. Root(g) \in Node /\ Root(g) # Err /\ Err \notin Node
  BY ScanConstants DEF Root, Node
<1>4. CASE set \subseteq {0}
  <2>1. m = [to |-> Err, do |-> {}, pat |-> 0]
    BY <1>4 DEF OnError
  <2>2. m \in Move /\ Fails(m) /\ ~ Accepts(m, Root(g)) /\ m.do = {}
    BY <1>3, <2>1 DEF Move, Fails, Accepts
  <2>3. s = Fresh \/ Items(g)[s] \subseteq {0}
    BY <1>2, <1>4
  <2> HIDE DEF m, set
  <2> QED BY <2>2, <2>3 DEF m
<1>5. CASE ~(set \subseteq {0}) /\ Many(set)
  <2>1. m = [to |-> Root(g), do |-> {"switch"}, pat |-> 0]
    BY <1>5 DEF OnError
  <2>2. m \in Move /\ ~ Fails(m) /\ Accepts(m, Root(g)) /\ m.do = {"switch"}
    BY <1>3, <2>1 DEF Move, Fails, Accepts
  <2>3. s \in State /\ Many(Items(g)[s])
    BY <1>1, <1>2, <1>5
  <2> HIDE DEF m, set
  <2> QED BY <2>2, <2>3 DEF m
<1>6. CASE ~(set \subseteq {0}) /\ ~Many(set)
  <2>1. m = [to |-> Root(g), pat |-> Min(set),
             do |-> IF s \in Fin(g) THEN {"next"} ELSE {"lag"}]
    BY <1>6 DEF OnError
  <2>2. PICK q \in set : q # 0
    BY <1>6
  <2>3. s \in State /\ set = Items(g)[s] /\ q \in Pat
    BY <1>1, <1>2, <2>2
  <2>4. \A x \in set : x = q
    BY <1>6, <2>2 DEF Many
  <2>5. set = {q}
    BY <2>2, <2>4
  <2>6. Min(set) = q
    BY <2>3, <2>4, <2>5, MinInSet, ScanConstants
  <2>7. m.do = {"next"} \/ m.do = {"lag"}
    BY <2>1
  <2>8. m.to = Root(g) /\ m.pat = q /\ (m.do = {"lag"} => s \notin Fin(g))
    BY <2>1, <2>6
  <2>9. m \in Move
    BY <1>3, <2>1, <2>3, <2>6 DEF Move
  <2>10. 0 \notin set /\ set = {m.pat} /\ (m.do = {"next"} => s \in Fin(g))
    BY <2>1, <2>2, <2>4, <2>5, <2>6
  <2> HIDE DEF m, set
  <2>11. ~Fails(m) /\ Accepts(m, Root(g)) /\ m.do # {"switch"}
    BY <1>3, <2>7, <2>8 DEF Fails, Accepts
  <2> QED BY <2>3, <2>7, <2>8, <2>9, <2>10, <2>11 DEF m
<1> QED BY <1>4, <1>5, <1>6

\* Lemma: the start state has no error action.
LEMMA RootFails ==
  ASSUME NEW g \in ScannerGraph
  PROVE  Fails(OnError(g, Items(g), Root(g)))
<1>1. CASE Isolated(g)
  <2>1. Root(g) = Start /\ Start \in State /\ Start # Fresh
    BY <1>1, ScanConstants DEF Root
  <2>2. \A e \in MatchEdge(g) : e.to \in State /\ e.to # Start
    <3>1. \A e \in MatchEdge(g) : \E r \in State, k \in Key : e = g[r][k]
      BY DEF MatchEdge, Range, ScannerGraph
    <3> QED BY <1>1, <3>1, ItemFacts DEF Isolated
  <2>3. Items(g)[Start] \ {0} = {}
    BY <1>1, <2>1, <2>2, ItemFacts, StartUnmarked
  <2> QED BY <2>1, <2>3 DEF OnError, Fails
<1>2. CASE ~Isolated(g)
  BY <1>2 DEF Root, OnError, Fails
<1> QED BY <1>1, <1>2

\* The transition of the pattern machine behind a character.
EdgeOf(g, s, k) == g[IF s = Fresh THEN Start ELSE s][k]

\* The ways a character is handled: as an error, on the way to a match, as
\* the last character of a match, or as one that may have been it.
OnTheWay(g, e, m) == /\ e.to \in State \ Fin(g)
                     /\ m = [to |-> e.to, do |-> {}, pat |-> 0]

Last(g, e, m) == /\ e.to \in State /\ e.lm # {} /\ ~ HasOut(g, e.to)
                 /\ m = [to |-> Root(g), do |-> {"last"}, pat |-> LmAct(e)]
                 /\ LmAct(e) \in Pat

Matched(g, e, m) ==
  /\ e \in MatchEdge(g)
  /\ m = [to |-> e.to, do |-> OnMatch(g, Items(g), e), pat |-> LmAct(e)]

\* Lemma: the moves of the machine runLongestMatch makes.
LEMMA MoveFacts ==
  ASSUME NEW g \in ScannerGraph, NEW s \in Node, NEW k \in Key
  PROVE  LET mc == RunLongestMatch(g)
             m  == mc.move[s][k]
             e  == EdgeOf(g, s, k)
         IN  /\ m \in Move
             /\ \/ e.to \notin State /\ m = mc.atEof[s]
                \/ OnTheWay(g, e, m)
                \/ Last(g, e, m)
                \/ Matched(g, e, m)
             /\ e.to # Root(g)
<1> DEFINE mc == RunLongestMatch(g)
           m  == mc.move[s][k]
           r  == IF s = Fresh THEN Start ELSE s
           e  == EdgeOf(g, s, k)
<1>1. r \in State /\ e = g[r][k] /\ e \in Edge
  BY ScanConstants DEF Node, EdgeOf, ScannerGraph
<1>2. m = IF e.to \in State THEN Taken(g, Items(g), e) ELSE OnError(g, Items(g), s)
  BY DEF RunLongestMatch, EdgeOf
<1>3. mc.atEof[s] = OnError(g, Items(g), s)
  BY DEF RunLongestMatch
<1>4. e.to # Root(g)
  BY <1>1, ScanConstants DEF Root, Isolated, Edge
<1>5. Root(g) \in Node
  BY ScanConstants DEF Root, Node
<1>6. CASE e.to \notin State
  BY <1>2, <1>3, <1>4, <1>6, ErrorFacts
<1>7. CASE e.to \in State /\ e.lm = {}
  <2>1. m = [to |-> e.to, do |-> {}, pat |-> 0]
    BY <1>2, <1>7 DEF Taken
  <2>2. e.to \notin Fin(g)
    BY <1>1, <1>7 DEF ScannerGraph
  <2> QED BY <1>4, <1>7, <2>1, <2>2 DEF OnTheWay, Move, Node
<1>8. CASE e.to \in State /\ e.lm # {}
  <2>1. m = [to |-> IF "last" \in OnMatch(g, Items(g), e) THEN Root(g) ELSE e.to,
             do |-> OnMatch(g, Items(g), e), pat |-> LmAct(e)]
    BY <1>2, <1>8 DEF Taken
  <2>2. LmAct(e) \in Pat
    BY <1>1, <1>8, MinInSet, ScanConstants DEF LmAct, Edge
  <2>3. CASE ~HasOut(g, e.to)
    <3>1. OnMatch(g, Items(g), e) = {"last"}
      BY <2>3 DEF OnMatch
    <3>2. m = [to |-> Root(g), do |-> {"last"}, pat |-> LmAct(e)]
      BY <2>1, <3>1
    <3>3. m \in Move
      BY <1>5, <2>2, <3>2 DEF Move
    <3> QED BY <1>4, <1>8, <2>2, <2>3, <3>2, <3>3 DEF Last
  <2>4. CASE HasOut(g, e.to)
    <3>1. OnMatch(g, Items(g), e) \subseteq {"te", "act"}
      BY <2>4 DEF OnMatch
    <3>2. e \in MatchEdge(g)
      BY <1>1, <1>8, <2>4 DEF MatchEdge, Range, ScannerGraph
    <3>3. m = [to |-> e.to, do |-> OnMatch(g, Items(g), e), pat |-> LmAct(e)]
      BY <2>1, <3>1
    <3>4. m \in Move
      BY <1>8, <2>2, <3>1, <3>3 DEF Move, Node
    <3> QED BY <1>4, <3>2, <3>3, <3>4 DEF Matched
  <2> QED BY <2>3, <2>4
<1> QED BY <1>6, <1>7, <1>8

\* Lemma: wherever an error action accepts an earlier match, the transition
\* that completed it has recorded what the action needs.
LEMMA RecordFacts ==
  ASSUME NEW g \in ScannerGraph, NEW s \in State
  PROVE  LET mc == RunLongestMatch(g)
             m  == mc.atEof[s]
         IN  /\ s \in StopFinal(g, Start) =>
                  /\ Fails(m) \/ (Accepts(m, Root(g)) /\ m.do = {"switch"})
                  /\ m.do = {"switch"} => mc.handlesError
             /\ \A e \in MatchEdge(g) : s \in StopFinal(g, e.to) =>
                  /\ m.do = {"switch"} => /\ {"te", "act"} \subseteq OnMatch(g, Items(g), e)
                                         /\ LmAct(e) \in mc.inLmSelect
                  /\ m.do = {"lag"} => "te" \in OnMatch(g, Items(g), e)
<1> DEFINE mc == RunLongestMatch(g)
           m  == mc.atEof[s]
<1>1. s \in Node /\ m = OnError(g, Items(g), s)
  BY DEF RunLongestMatch, Node
<1>2. s \in StopFinal(g, Start) /\ m.do = {"switch"} => mc.handlesError
  BY <1>1, ErrorFacts DEF RunLongestMatch, HandlesError
<1>3. s \in StopFinal(g, Start) => Fails(m) \/ (Accepts(m, Root(g)) /\ m.do = {"switch"})
  BY <1>1, ErrorFacts, ItemFacts DEF Accepts
<1>4. ASSUME NEW e \in MatchEdge(g), s \in StopFinal(g, e.to)
      PROVE  /\ m.do = {"switch"} => /\ {"te", "act"} \subseteq OnMatch(g, Items(g), e)
                                    /\ LmAct(e) \in mc.inLmSelect
             /\ m.do = {"lag"} => "te" \in OnMatch(g, Items(g), e)
  <2>1. HasOut(g, e.to)
    BY DEF MatchEdge
  <2>2. ASSUME m.do = {"switch"}
        PROVE  {"te", "act"} \subseteq OnMatch(g, Items(g), e) /\ LmAct(e) \in mc.inLmSelect
    <3>1. Many(Items(g)[s])
      BY <1>1, <2>2, ErrorFacts
    <3>2. LmAct(e) \in Items(g)[s] /\ LmAct(e) # 0
      BY <1>4, ItemFacts, ScanConstants
    <3>3. mc.inLmSelect = (UNION {Items(g)[t] : t \in {r \in State : Many(Items(g)[r])}}) \ {0}
      BY DEF RunLongestMatch
    <3> DEFINE some == {r \in State : Many(Items(g)[r])}
    <3>4. s \in some
      BY <3>1
    <3>5. LmAct(e) \in UNION {Items(g)[t] : t \in some}
      BY <3>2, <3>4
    <3>6. LmAct(e) \in mc.inLmSelect
      BY <3>2, <3>3, <3>5
    <3> QED BY <1>4, <2>1, <3>1, <3>6 DEF OnMatch
  <2>3. ASSUME m.do = {"lag"}
        PROVE  "te" \in OnMatch(g, Items(g), e)
    <3>1. s \notin Fin(g) /\ Items(g)[s] # {}
      BY <1>1, <2>3, ErrorFacts
    <3> QED BY <1>4, <2>1, <3>1 DEF OnMatch
  <2> QED BY <2>2, <2>3
<1> QED BY <1>2, <1>3, <1>4

-----------------------------------------------------------------------------
(* What the pattern machine does on the text from a position on.           *)

\* The states it goes through, and the patterns that match up to a position,
\* as ScanSpec has them, of any machine and text.
RunOf(g, w, i) ==
  LET at[j \in i .. Len(w)] ==
        IF j = i THEN Start
        ELSE IF at[j - 1] \in State THEN g[at[j - 1]][w[j]].to ELSE None
  IN at

MatchingOf(g, w, i, j) == LET s == RunOf(g, w, i)[j - 1]
                          IN IF s \in State THEN g[s][w[j]].lm ELSE {}

\* The state after one more character.
After(g, s, c) == IF s \in State THEN g[s][c].to ELSE None

NoMatch(g, w, i, from, upto) == \A j \in from .. upto : MatchingOf(g, w, i, j) = {}

\* Lemma: a run is defined, character by character.
LEMMA RunFacts ==
  ASSUME NEW g, NEW w \in Seq(Key), NEW i \in 0 .. Len(w)
  PROVE  /\ RunOf(g, w, i)[i] = Start
         /\ \A j \in i + 1 .. Len(w) :
              RunOf(g, w, i)[j] = After(g, RunOf(g, w, i)[j - 1], w[j])
<1> DEFINE step(j, s) == After(g, s, w[j])
           Is(h, n) == h = [j \in i .. n |-> IF j = i THEN Start ELSE step(j, h[j - 1])]
           S == {n \in Nat : \E h : Is(h, i + n)}
<1>0. i \in Nat /\ Len(w) \in Nat /\ i =< Len(w)
  OBVIOUS
<1> HIDE DEF step
<1>1. 0 \in S
  <2>1. Is([j \in i .. i |-> Start], i)
    BY <1>0
  <2>2. i + 0 = i
    BY <1>0
  <2> HIDE DEF Is
  <2> QED BY <2>1, <2>2
<1>2. ASSUME NEW n \in Nat, n \in S PROVE n + 1 \in S
  <2>1. PICK h : Is(h, i + n)
    BY <1>2
  <2> DEFINE h2 == [j \in i .. i + (n + 1) |->
                      IF j = i + (n + 1) THEN step(j, h[j - 1]) ELSE h[j]]
  <2>2. ASSUME NEW j \in i .. i + (n + 1)
        PROVE  h2[j] = IF j = i THEN Start ELSE step(j, h2[j - 1])
    <3>1. CASE j = i + (n + 1)
      <4>1. j # i /\ j - 1 \in i .. i + n /\ j - 1 \in i .. i + (n + 1) /\ j - 1 # i + (n + 1)
        BY <1>0, <3>1
      <4> QED BY <3>1, <4>1
    <3>2. CASE j # i + (n + 1)
      <4>1. j \in i .. i + n /\ h2[j] = h[j]
        BY <1>0, <3>2
      <4>2. h[j] = IF j = i THEN Start ELSE step(j, h[j - 1])
        BY <2>1, <4>1
      <4>3. j # i => h2[j - 1] = h[j - 1]
        BY <1>0, <3>2
      <4> QED BY <4>1, <4>2, <4>3
    <3> QED BY <3>1, <3>2
  <2>3. Is(h2, i + (n + 1))
    <3> HIDE DEF S
    <3> QED BY <2>2
  <2> HIDE DEF Is, h2
  <2> QED BY <2>3
<1>3. Len(w) - i \in S
  <2>1. Nat \subseteq S
    <3> HIDE DEF S
    <3> QED BY <1>1, <1>2, Induction
  <2> HIDE DEF S
  <2> QED BY <1>0, <2>1
<1>4. PICK h : Is(h, Len(w))
  <2>1. i + (Len(w) - i) = Len(w)
    BY <1>0
  <2> QED BY <1>3, <2>1
<1> DEFINE r == RunOf(g, w, i)
<1>5. r = CHOOSE q : Is(q, Len(w))
  BY DEF RunOf, step, After
<1>6. Is(r, Len(w))
  <2> HIDE DEF Is, r
  <2> QED BY <1>4, <1>5
<1> HIDE DEF r
<1>7. r[i] = Start
  BY <1>0, <1>6
<1>8. ASSUME NEW j \in i + 1 .. Len(w) PROVE r[j] = step(j, r[j - 1])
  <2>1. j \in i .. Len(w) /\ j # i
    BY <1>0
  <2> QED BY <1>6, <2>1
<1> QED BY <1>7, <1>8 DEF r, step

\* Lemma: once the machine has failed it stays so, and nothing matches.
LEMMA DeadRun ==
  ASSUME NEW g, NEW w \in Seq(Key), NEW i \in 0 .. Len(w), NEW n \in i .. Len(w),
         RunOf(g, w, i)[n] \notin State
  PROVE  /\ \A j \in n .. Len(w) : RunOf(g, w, i)[j] \notin State
         /\ NoMatch(g, w, i, n + 1, Len(w))
<1> DEFINE r == RunOf(g, w, i)
           S == {d \in Nat : n + d =< Len(w) => r[n + d] \notin State}
<1>0. i \in Nat /\ Len(w) \in Nat /\ n \in Nat /\ i =< n
  OBVIOUS
<1>1. \A j \in i + 1 .. Len(w) :
        r[j] = After(g, r[j - 1], w[j])
  BY RunFacts
<1>2. r[n] \notin State /\ None \notin State
  BY ScanConstants
<1> HIDE DEF r
<1>3. 0 \in S
  BY <1>0, <1>2
<1>4. ASSUME NEW d \in Nat, d \in S PROVE d + 1 \in S
  <2> SUFFICES ASSUME n + (d + 1) =< Len(w) PROVE r[n + (d + 1)] \notin State
    OBVIOUS
  <2>1. n + (d + 1) \in i + 1 .. Len(w) /\ (n + (d + 1)) - 1 = n + d /\ n + d =< Len(w)
    BY <1>0
  <2>2. r[n + d] \notin State
    BY <1>4, <2>1
  <2> QED BY <1>1, <1>2, <2>1, <2>2 DEF After
<1>5. Nat \subseteq S
  <2> HIDE DEF S
  <2> QED BY <1>3, <1>4, Induction
<1>6. ASSUME NEW j \in n .. Len(w) PROVE r[j] \notin State
  <2>1. j - n \in Nat /\ n + (j - n) = j
    BY <1>0
  <2> QED BY <1>5, <2>1, SMTT(30)
<1>7. \A j \in n + 1 .. Len(w) : j - 1 \in n .. Len(w)
  BY <1>0
<1> QED BY <1>6, <1>7 DEF NoMatch, MatchingOf, r

\* Lemma: what has been read does not change when more is.
LEMMA RunAgrees ==
  ASSUME NEW g, NEW w \in Seq(Key), NEW v \in Seq(Key), Len(w) =< Len(v),
         \A j \in 1 .. Len(w) : v[j] = w[j], NEW i \in 0 .. Len(w)
  PROVE  /\ \A j \in i .. Len(w) : RunOf(g, v, i)[j] = RunOf(g, w, i)[j]
         /\ \A j \in i + 1 .. Len(w) : MatchingOf(g, v, i, j) = MatchingOf(g, w, i, j)
<1> DEFINE r == RunOf(g, w, i)
           q == RunOf(g, v, i)
           S == {d \in Nat : i + d =< Len(w) => q[i + d] = r[i + d]}
<1>0. i \in Nat /\ Len(w) \in Nat /\ Len(v) \in Nat /\ i \in 0 .. Len(v)
  OBVIOUS
<1>1. /\ r[i] = Start
      /\ \A j \in i + 1 .. Len(w) :
           r[j] = After(g, r[j - 1], w[j])
  BY RunFacts
<1>2. /\ q[i] = Start
      /\ \A j \in i + 1 .. Len(v) :
           q[j] = After(g, q[j - 1], v[j])
  BY <1>0, RunFacts
<1> HIDE DEF r, q
<1>3. 0 \in S
  BY <1>0, <1>1, <1>2
<1>4. ASSUME NEW d \in Nat, d \in S PROVE d + 1 \in S
  <2> SUFFICES ASSUME i + (d + 1) =< Len(w) PROVE q[i + (d + 1)] = r[i + (d + 1)]
    OBVIOUS
  <2> DEFINE j == i + (d + 1)
  <2>1. j \in i + 1 .. Len(w) /\ j \in i + 1 .. Len(v) /\ j \in 1 .. Len(w)
        /\ j - 1 = i + d /\ i + d =< Len(w)
    BY <1>0
  <2>2. q[j - 1] = r[j - 1] /\ v[j] = w[j]
    BY <1>4, <2>1
  <2> HIDE DEF j
  <2>3. q[j] = r[j]
    BY <1>1, <1>2, <2>1, <2>2
  <2> QED BY <2>3 DEF j
<1>5. Nat \subseteq S
  <2> HIDE DEF S
  <2> QED BY <1>3, <1>4, Induction
<1>6. ASSUME NEW j \in i .. Len(w) PROVE q[j] = r[j]
  <2>1. j - i \in Nat /\ i + (j - i) = j /\ j =< Len(w)
    BY <1>0
  <2> QED BY <1>5, <2>1
<1>7. \A j \in i + 1 .. Len(w) : j - 1 \in i .. Len(w) /\ j \in 1 .. Len(w)
  BY <1>0
<1> QED BY <1>6, <1>7 DEF MatchingOf, r, q

-----------------------------------------------------------------------------
(* The scanner at run time.                                                *)

\* The scanner has seen no match since ts; the switch would find 0.
Unmatched == /\ cs \in StopFinal(out, Start)
             /\ mach.handlesError => act = 0

\* The last match since ts was completed by e, which recorded what it had to.
Recorded(e) == /\ cs \in StopFinal(out, e.to)
               /\ "te" \in OnMatch(out, Items(out), e) => Promise!Pos < te /\ te =< p
               /\ "act" \in OnMatch(out, Items(out), e) => act = LmAct(e)

\* Where the scanner is, and what it knows of the token it is in.
BetweenTokens == /\ p = Promise!Pos
                 /\ kept =< p
                 /\ mach.handlesError => act = 0

InsideToken == /\ cs \in State
               /\ kept =< Promise!Pos /\ Promise!Pos < p
               /\ Unmatched \/ \E e \in MatchEdge(out) : Recorded(e)

Located == cs # Err => IF cs = mach.root THEN BetweenTokens ELSE InsideToken

Built == out \in ScannerGraph /\ mach = RunLongestMatch(out)

\* The inductive invariant.  TypeOK is part of it only as far as it speaks of
\* the variables that change; Built gives the rest.
RunTypeOK == /\ word \in Seq(Key) /\ Len(word) =< MaxLen
             /\ eof \in BOOLEAN
             /\ toks \in Seq(Pat \X (0 .. MaxLen) \X (1 .. MaxLen))
             /\ cs \in Node \cup {Err}
             /\ p \in 0 .. Len(word)
             /\ ts \in (0 .. Len(word)) \cup {None}
             /\ te \in 0 .. Len(word)
             /\ act \in Pat \cup {0}
             /\ kept \in 0 .. Len(word)

SInv == RunTypeOK /\ Built /\ TsMarksToken /\ Located

\* Lemma: the machine has the type Scanner gives it.
LEMMA MachineType ==
  ASSUME Built
  PROVE  /\ mach.root = Root(out) /\ mach.root \in Node /\ mach.root # Err
         /\ mach.move \in [Node -> [Key -> Move]]
         /\ mach.atEof \in [Node -> Move]
         /\ mach.handlesError \in BOOLEAN
         /\ mach.inLmSelect \subseteq Pat
<1>1. mach.root = Root(out) /\ Root(out) \in Node /\ Root(out) # Err
  BY ScanConstants DEF Built, RunLongestMatch, Root, Node
<1>2. mach.move \in [Node -> [Key -> Move]]
  <2>1. \A s \in Node, k \in Key : mach.move[s][k] \in Move
    BY MoveFacts DEF Built
  <2>2. \E f : mach.move = [s \in Node |-> [k \in Key |-> f[s][k]]]
    <3> DEFINE f == mach.move
    <3>1. mach.move = [s \in Node |-> [k \in Key |-> f[s][k]]]
      BY DEF Built, RunLongestMatch
    <3> QED BY <3>1
  <2> QED BY <2>1, <2>2
<1>3. mach.atEof \in [Node -> Move]
  BY ErrorFacts DEF Built, RunLongestMatch
<1>4. mach.handlesError \in BOOLEAN
  BY DEF Built, RunLongestMatch, HandlesError
<1>5. mach.inLmSelect \subseteq Pat
  <2>1. mach.inLmSelect = (UNION {Items(out)[t] : t \in {r \in State : Many(Items(out)[r])}}) \ {0}
    BY DEF Built, RunLongestMatch
  <2>2. \A t \in State : Items(out)[t] \subseteq Pat \cup {0}
    BY ItemFacts DEF Built
  <2> QED BY <2>1, <2>2
<1> QED BY <1>1, <1>2, <1>3, <1>4, <1>5

\* Lemma: RunTypeOK and Built are TypeOK.
LEMMA TypeFollows ==
  ASSUME SInv
  PROVE  TypeOK
BY MachineType DEF SInv, RunTypeOK, Built, ScannerGraph, TypeOK

Token == Pat \X (0 .. MaxLen) \X (1 .. MaxLen)

\* Lemma: Pos is where the last token ends.
LEMMA PosFacts ==
  ASSUME toks \in Seq(Token)
  PROVE  /\ Promise!Pos \in 0 .. MaxLen
         /\ toks' = toks => Promise!Pos' = Promise!Pos
         /\ \A t \in Token : toks' = Append(toks, t) =>
              /\ toks' \in Seq(Token) /\ toks' # toks
              /\ Promise!Pos' = t[3] /\ toks'[Len(toks')] = t
<1>1. Promise!Pos \in 0 .. MaxLen
  <2>1. CASE toks = <<>>
    BY <2>1, ScanBounds DEF Promise!Pos
  <2>2. CASE toks # <<>>
    <3>1. toks[Len(toks)] \in Token
      BY <2>2
    <3> QED BY <2>2, <3>1, ScanBounds DEF Promise!Pos, Token
  <2> QED BY <2>1, <2>2
<1>2. toks' = toks => Promise!Pos' = Promise!Pos
  BY DEF Promise!Pos
<1>3. ASSUME NEW t \in Token, toks' = Append(toks, t)
      PROVE  /\ toks' \in Seq(Token) /\ toks' # toks
             /\ Promise!Pos' = t[3] /\ toks'[Len(toks')] = t
  <2>1. toks' \in Seq(Token) /\ Len(toks') = Len(toks) + 1 /\ toks'[Len(toks')] = t
    BY <1>3, AppendProperties
  <2>2. toks' # <<>> /\ toks' # toks
    BY <2>1
  <2> QED BY <2>1, <2>2 DEF Promise!Pos
<1> QED BY <1>1, <1>2, <1>3

\* What exec leaves alone.
ExecFrame == UNCHANGED <<out, word, eof, mach, kept>>

\* Lemma: the text since the last token is still there.
LEMMA KeptBeforePos ==
  ASSUME SInv, cs # Err
  PROVE  /\ kept \in Nat /\ kept =< Promise!Pos /\ Promise!Pos =< p
         /\ TokStart = Promise!Pos
         /\ cs # mach.root => ts = Promise!Pos /\ Promise!Pos < p /\ cs \in State
<1>1. Promise!Pos \in Nat /\ p \in Nat /\ kept \in Nat
  BY PosFacts DEF SInv, RunTypeOK, Token
<1> QED BY <1>1 DEF SInv, Located, BetweenTokens, InsideToken, TsMarksToken, TokStart

\* Lemma: handing out a token and going back to the start state.
LEMMA Emitted ==
  ASSUME SInv, cs # Err, ExecFrame, NEW pat \in Pat, NEW upto \in 0 .. Len(word),
         Promise!Pos < upto, te' \in 0 .. Len(word),
         toks' = Append(toks, <<pat, Promise!Pos, upto>>), p' = upto,
         Enter(mach.root, [ts |-> Promise!Pos, act |-> act])
  PROVE  SInv' /\ KeepsText
<1> DEFINE t == <<pat, Promise!Pos, upto>>
<1>1. Promise!Pos \in 0 .. MaxLen /\ Len(word) \in Nat /\ Len(word) =< MaxLen
  BY PosFacts, ScanBounds DEF SInv, RunTypeOK, Token
<1>2. t \in Token
  BY <1>1, ScanBounds DEF Token
<1>3. toks' \in Seq(Token) /\ Promise!Pos' = upto /\ toks'[Len(toks')] = t
  BY <1>2, PosFacts DEF SInv, RunTypeOK, Token
<1>4. kept \in Nat /\ kept =< Promise!Pos
  BY KeptBeforePos
<1>5. mach.root \in Node /\ mach.root # Err
  BY MachineType DEF SInv
<1>6. cs' = mach.root /\ ts' = None /\ act' \in Pat \cup {0} /\ (mach.handlesError => act' = 0)
  BY DEF Enter, SInv, RunTypeOK
<1>7. RunTypeOK'
  BY <1>1, <1>3, <1>5, <1>6 DEF SInv, RunTypeOK, ExecFrame, Token
<1>8. Located'
  BY <1>1, <1>3, <1>4, <1>5, <1>6 DEF Located, BetweenTokens, ExecFrame
<1>9. TsMarksToken'
  BY <1>6 DEF TsMarksToken, ExecFrame
<1>10. KeepsText
  BY <1>1, <1>3, <1>4 DEF KeepsText
<1> QED BY <1>7, <1>8, <1>9, <1>10 DEF SInv, Built, ExecFrame

\* Lemma: giving up.
LEMMA Failed ==
  ASSUME SInv, cs # Err, ExecFrame, Fail(Promise!Pos)
  PROVE  SInv' /\ KeepsText
<1>1. Promise!Pos \in 0 .. Len(word)
  BY KeptBeforePos, PosFacts DEF SInv, RunTypeOK, Token
<1>2. p' >= kept /\ toks' = toks
  BY KeptBeforePos, PosFacts DEF Fail, SInv, RunTypeOK, Token
<1> QED BY <1>1, <1>2 DEF SInv, RunTypeOK, Built, Located, TsMarksToken, KeepsText, Fail, ExecFrame

\* Lemma: an error action accepts the match it should, and there is one.
LEMMA ErrorStep ==
  ASSUME SInv, cs # Err, ExecFrame, Perform(mach.atEof[cs], Promise!Pos)
  PROVE  SInv' /\ KeepsText
<1> DEFINE m == mach.atEof[cs]
<1>1. cs \in Node /\ m = OnError(out, Items(out), cs)
  BY DEF SInv, RunTypeOK, Built, RunLongestMatch
<1>2. mach.root = Root(out) /\ mach.root # Err /\ out \in ScannerGraph
  BY MachineType DEF SInv, Built
<1>3. CASE Fails(m)
  <2>1. m.to = Err /\ m.do = {}
    BY <1>3 DEF Fails
  <2>2. Fail(Promise!Pos)
    BY <2>1 DEF Perform, OnLast, OnNext, LagBehind, Switch, Advance, Error
  <2> QED BY <2>2, Failed
<1>4. CASE Accepts(m, mach.root)
  <2>1. cs # mach.root
    BY <1>1, <1>2, <1>4, RootFails DEF Accepts, Fails
  <2>2. InsideToken
    BY <2>1 DEF SInv, Located
  <2>3. Promise!Pos \in Nat /\ Promise!Pos < p /\ p =< Len(word) /\ p \in Nat /\ Len(word) \in Nat
    BY <2>1, KeptBeforePos, PosFacts DEF SInv, RunTypeOK, Token
  <2>4. cs \in State /\ m.to = mach.root /\ mach = RunLongestMatch(out)
    BY <1>4, <2>2 DEF Accepts, InsideToken, SInv, Built
  <2>5. CASE m.do = {"next"}
    <3>1. OnNext(m, Promise!Pos)
      BY <1>2, <2>4, <2>5 DEF Perform, OnLast, OnNext, LagBehind, Switch, Advance, Error
    <3>2. m.pat \in Pat
      BY <1>1, <1>2, <2>5, ErrorFacts
    <3> QED BY <2>3, <2>4, <3>1, <3>2, Emitted DEF OnNext, Emit
  <2>6. CASE m.do = {"lag"}
    <3>1. LagBehind(m, Promise!Pos)
      BY <1>2, <2>4, <2>6 DEF Perform, OnLast, OnNext, LagBehind, Switch, Advance, Error
    <3>2. m.pat \in Pat
      BY <1>1, <1>2, <2>6, ErrorFacts
    <3>3. ~Unmatched
      BY <1>2, <2>4, <2>6, RecordFacts DEF Unmatched, Fails, Accepts
    <3>4. Promise!Pos < te /\ te =< p
      BY <1>2, <2>2, <2>4, <2>6, <3>3, RecordFacts DEF InsideToken, Recorded
    <3>5. te \in 0 .. Len(word)
      BY DEF SInv, RunTypeOK
    <3> QED BY <2>3, <2>4, <3>1, <3>2, <3>4, <3>5, Emitted DEF LagBehind, Emit
  <2>7. CASE m.do = {"switch"}
    <3>1. Switch(m, Promise!Pos)
      BY <1>2, <2>4, <2>7 DEF Perform, OnLast, OnNext, LagBehind, Switch, Advance, Error
    <3>2. CASE act = 0 /\ mach.handlesError
      BY <3>1, <3>2, Failed DEF Switch
    <3>3. CASE ~(act = 0 /\ mach.handlesError)
      <4>1. ~Unmatched
        BY <1>2, <2>4, <2>7, <3>3, RecordFacts DEF Unmatched
      <4>2. PICK e \in MatchEdge(out) : Recorded(e)
        BY <2>2, <4>1 DEF InsideToken
      <4>3. /\ {"te", "act"} \subseteq OnMatch(out, Items(out), e)
            /\ LmAct(e) \in mach.inLmSelect
        BY <1>2, <2>4, <2>7, <4>2, RecordFacts DEF Recorded
      <4>4. Promise!Pos < te /\ te =< p /\ act \in mach.inLmSelect
        BY <4>2, <4>3 DEF Recorded
      <4>5. act \in Pat
        BY <4>4, MachineType DEF SInv
      <4>6. te \in 0 .. Len(word)
        BY DEF SInv, RunTypeOK
      <4> QED BY <2>4, <3>1, <3>3, <4>4, <4>5, <4>6, Emitted DEF Switch
    <3> QED BY <3>2, <3>3
  <2> QED BY <1>4, <2>5, <2>6, <2>7 DEF Accepts
<1> QED BY <1>1, <1>2, <1>3, <1>4, ErrorFacts

\* Lemma: the states a match or the start of a token leads to.
LEMMA WayFacts ==
  ASSUME SInv, cs # Err, NEW k \in Key,
         EdgeOf(out, cs, k).to \in State \ Fin(out)
  PROVE  LET t == EdgeOf(out, cs, k).to
         IN  /\ cs = mach.root \/ cs \in StopFinal(out, Start) => t \in StopFinal(out, Start)
             /\ \A e \in MatchEdge(out) : cs \in StopFinal(out, e.to) => t \in StopFinal(out, e.to)
<1> DEFINE t == EdgeOf(out, cs, k).to
<1>1. cs \in Node /\ out \in ScannerGraph /\ mach.root = Root(out)
  BY MachineType DEF SInv, RunTypeOK, Built
<1>2. cs \in State => t = out[cs][k].to
  BY ScanConstants DEF EdgeOf
<1>3. cs = mach.root => t = out[Start][k].to
  BY <1>1, ScanConstants DEF EdgeOf, Root
<1>4. Start \in StopFinal(out, Start)
  BY ScanConstants, Marked
<1>5. cs = mach.root => t \in StopFinal(out, Start)
  BY <1>3, <1>4, ScanConstants, Marked
<1>6. cs \in StopFinal(out, Start) => t \in StopFinal(out, Start)
  <2> SUFFICES ASSUME cs \in StopFinal(out, Start)
               PROVE  t \in StopFinal(out, Start)
    OBVIOUS
  <2>1. cs \in State
    BY ScanConstants, Marked
  <2> QED BY <1>2, <2>1, ScanConstants, Marked
<1>7. ASSUME NEW e \in MatchEdge(out), cs \in StopFinal(out, e.to)
      PROVE  t \in StopFinal(out, e.to)
  <2>1. e.to \in State
    BY <1>1, ItemFacts
  <2>2. cs \in State
    BY <1>7, <2>1, Marked
  <2> QED BY <1>2, <1>7, <2>1, <2>2, Marked
<1> QED BY <1>5, <1>6, <1>7

\* Lemma: reading a character of the token.
LEMMA AdvanceStep ==
  ASSUME SInv, cs # Err, p < Len(word), ExecFrame, NEW k \in Key, NEW m \in Move,
         EdgeOf(out, cs, k).to # mach.root,
         OnTheWay(out, EdgeOf(out, cs, k), m) \/ Matched(out, EdgeOf(out, cs, k), m),
         Perform(m, Promise!Pos)
  PROVE  SInv' /\ KeepsText
<1> DEFINE e == EdgeOf(out, cs, k)
<1>1. out \in ScannerGraph /\ mach.root # Err /\ Err \notin State
  BY MachineType, ScanConstants DEF SInv, Built
<1>2. m.to = e.to /\ e.to \in State /\ e.to # Err /\ m.do \subseteq {"te", "act"}
  <2>1. CASE OnTheWay(out, e, m)
    BY <1>1, <2>1 DEF OnTheWay
  <2>2. CASE Matched(out, e, m)
    <3>1. e.to \in State
      BY <1>1, <2>2, ItemFacts DEF Matched
    <3>2. OnMatch(out, Items(out), e) \subseteq {"te", "act"}
      BY <2>2 DEF Matched, MatchEdge, OnMatch
    <3> QED BY <1>1, <2>2, <3>1, <3>2 DEF Matched
  <2> QED BY <2>1, <2>2
<1>3. Advance(m, Promise!Pos)
  BY <1>2 DEF Perform, OnLast, OnNext, LagBehind, Switch, Advance, Error
<1>4. /\ cs' = e.to /\ p' = p + 1 /\ toks' = toks /\ ts' = Promise!Pos
      /\ te' = (IF "te" \in m.do THEN p + 1 ELSE te)
      /\ act' = (IF "act" \in m.do THEN m.pat ELSE act)
  BY <1>2, <1>3 DEF Advance, Enter
<1>5. Promise!Pos \in Nat /\ kept \in Nat /\ kept =< Promise!Pos /\ Promise!Pos =< p
      /\ p \in Nat /\ te \in Nat /\ Len(word) \in Nat /\ Promise!Pos' = Promise!Pos
      /\ kept =< Len(word) /\ Promise!Pos =< Len(word)
  BY <1>4, KeptBeforePos, PosFacts DEF SInv, RunTypeOK, Token
<1>6. m.pat \in Pat \cup {0}
  BY DEF Move
<1>7. RunTypeOK'
  BY <1>2, <1>4, <1>5, <1>6 DEF SInv, RunTypeOK, ExecFrame, Node
<1>8. KeepsText
  BY <1>4, <1>5 DEF KeepsText
<1>9. TsMarksToken'
  BY <1>2, <1>4, <1>5 DEF TsMarksToken, ExecFrame
<1>10. InsideToken'
  <2>1. cs' \in State /\ kept' =< Promise!Pos' /\ Promise!Pos' < p'
    BY <1>2, <1>4, <1>5 DEF ExecFrame
  <2>2. CASE Matched(out, e, m)
    <3>1. e \in MatchEdge(out) /\ m.do = OnMatch(out, Items(out), e) /\ m.pat = LmAct(e)
      BY <2>2 DEF Matched
    <3>2. e.to \in StopFinal(out, e.to)
      BY <1>2, Marked
    <3>3. \E f \in MatchEdge(out) :
             /\ e.to \in StopFinal(out, f.to)
             /\ "te" \in OnMatch(out, Items(out), f) => Promise!Pos < te' /\ te' =< p'
             /\ "act" \in OnMatch(out, Items(out), f) => act' = LmAct(f)
      <4>1. "te" \in OnMatch(out, Items(out), e) => Promise!Pos < te' /\ te' =< p'
        BY <1>4, <1>5, <3>1
      <4>2. "act" \in OnMatch(out, Items(out), e) => act' = LmAct(e)
        BY <1>4, <3>1
      <4> QED BY <3>1, <3>2, <4>1, <4>2
    <3> QED BY <1>4, <1>5, <2>1, <3>3 DEF InsideToken, Recorded, ExecFrame
  <2>3. CASE OnTheWay(out, e, m)
    <3>1. m.do = {} /\ e.to \in State \ Fin(out)
      BY <2>3 DEF OnTheWay
    <3>2. te' = te /\ act' = act
      BY <1>4, <3>1
    <3>3. CASE cs = mach.root \/ Unmatched
      <4>1. mach.handlesError => act = 0
        BY <3>3 DEF SInv, Located, BetweenTokens, Unmatched
      <4>2. e.to \in StopFinal(out, Start)
        BY <3>1, <3>3, WayFacts DEF Unmatched
      <4>3. Unmatched'
        BY <1>4, <3>2, <4>1, <4>2 DEF Unmatched, ExecFrame
      <4> QED BY <2>1, <4>3 DEF InsideToken
    <3>4. CASE cs # mach.root /\ ~Unmatched
      <4>1. PICK f \in MatchEdge(out) : Recorded(f)
        BY <3>4 DEF SInv, Located, InsideToken
      <4>2. e.to \in StopFinal(out, f.to)
        BY <3>1, <4>1, WayFacts DEF Recorded
      <4>3. /\ "te" \in OnMatch(out, Items(out), f) => Promise!Pos < te' /\ te' =< p'
            /\ "act" \in OnMatch(out, Items(out), f) => act' = LmAct(f)
        BY <1>4, <1>5, <3>2, <4>1 DEF Recorded
      <4> QED BY <1>4, <1>5, <2>1, <4>2, <4>3 DEF InsideToken, Recorded, ExecFrame
    <3> QED BY <3>3, <3>4
  <2> QED BY <2>2, <2>3
<1>11. Located'
  BY <1>2, <1>4, <1>10 DEF Located, ExecFrame
<1> QED BY <1>7, <1>8, <1>9, <1>11 DEF SInv, Built, ExecFrame

\* Lemma: a character that can only be the last of its token.
LEMMA LastStep ==
  ASSUME SInv, cs # Err, p < Len(word), ExecFrame, NEW e, NEW m, Last(out, e, m),
         Perform(m, Promise!Pos)
  PROVE  SInv' /\ KeepsText
<1>1. m.to = mach.root /\ m.do = {"last"} /\ m.pat \in Pat /\ mach.root # Err
  BY MachineType DEF Last, SInv
<1>2. OnLast(m, Promise!Pos)
  BY <1>1 DEF Perform, OnLast, OnNext, LagBehind, Switch, Advance, Error
<1>3. Promise!Pos \in Nat /\ p \in Nat /\ Promise!Pos =< p /\ Len(word) \in Nat
  BY KeptBeforePos, PosFacts DEF SInv, RunTypeOK, Token
<1>4. p + 1 \in 0 .. Len(word) /\ Promise!Pos < p + 1
  BY <1>3
<1> QED BY <1>1, <1>2, <1>4, Emitted DEF OnLast, Emit

\* Lemma: exec, on a character and at the end of the input.
LEMMA ExecStep ==
  ASSUME SInv, Exec \/ ExecEof
  PROVE  SInv' /\ KeepsText
<1>1. CASE ExecEof
  <2>1. cs # Err /\ ExecFrame /\ mach.atEof[cs].to # Err /\ Perform(mach.atEof[cs], ts)
    BY <1>1 DEF ExecEof, ExecFrame
  <2>2. cs # mach.root
    BY <2>1, RootFails, MachineType DEF SInv, Built, RunLongestMatch, Fails
  <2> QED BY <2>1, <2>2, KeptBeforePos, ErrorStep
<1>2. CASE Exec
  <2> DEFINE k == word[p + 1]
             m == mach.move[cs][k]
  <2>1. cs # Err /\ p < Len(word) /\ ExecFrame /\ Perform(m, Promise!Pos)
    BY <1>2, KeptBeforePos DEF Exec, ExecFrame
  <2>2. k \in Key
    BY <2>1 DEF SInv, RunTypeOK
  <2>3. cs \in Node /\ out \in ScannerGraph /\ mach = RunLongestMatch(out) /\ mach.root = Root(out)
    BY <2>1, MachineType DEF SInv, RunTypeOK, Built
  <2>4. m \in Move /\ EdgeOf(out, cs, k).to # mach.root
    BY <2>2, <2>3, MoveFacts
  <2>5. \/ m = mach.atEof[cs]
        \/ OnTheWay(out, EdgeOf(out, cs, k), m)
        \/ Last(out, EdgeOf(out, cs, k), m)
        \/ Matched(out, EdgeOf(out, cs, k), m)
    BY <2>2, <2>3, MoveFacts
  <2> HIDE DEF m, k
  <2> QED BY <2>1, <2>2, <2>4, <2>5, ErrorStep, AdvanceStep, LastStep
<1> QED BY <1>1, <1>2

\* Lemma: the driver keeps the token being scanned.
LEMMA FeedStep ==
  ASSUME SInv, Feed \/ FeedEof
  PROVE  SInv' /\ KeepsText
<1>1. /\ cs # Err /\ p = Len(word) /\ Shift /\ eof' \in BOOLEAN
      /\ UNCHANGED <<out, toks, mach, cs, p, ts, te, act>>
  BY DEF Feed, FeedEof
<1>2. word' \in Seq(Key) /\ Len(word') >= Len(word) /\ Len(word') =< MaxLen
  <2>1. CASE FeedEof
    BY <2>1 DEF FeedEof, SInv, RunTypeOK
  <2>2. CASE Feed
    <3>1. PICK n \in 1 .. MaxBlock : \E b \in [1 .. n -> Key] :
             Len(word) + n =< MaxLen /\ word' = word \o b
      BY <2>2 DEF Feed
    <3>2. PICK b \in [1 .. n -> Key] : Len(word) + n =< MaxLen /\ word' = word \o b
      BY <3>1
    <3>3. n \in Nat /\ b \in Seq(Key) /\ Len(b) = n
      BY ScanBounds
    <3>4. word \in Seq(Key)
      BY DEF SInv, RunTypeOK
    <3>5. word' \in Seq(Key) /\ Len(word') = Len(word) + n
      BY <3>2, <3>3, <3>4, ConcatProperties
    <3> QED BY <3>2, <3>3, <3>4, <3>5
  <2> QED BY <2>1, <2>2
<1>3. Promise!Pos' = Promise!Pos /\ Promise!Pos \in Nat /\ kept =< Promise!Pos /\ Promise!Pos =< p
  BY <1>1, PosFacts, KeptBeforePos DEF SInv, RunTypeOK, Token
<1>4. kept' = (IF cs = mach.root THEN p ELSE Promise!Pos)
  BY <1>1, <1>3, KeptBeforePos, ScanConstants DEF Shift, SInv, TsMarksToken
<1>5. RunTypeOK'
  BY <1>1, <1>2, <1>3, <1>4 DEF SInv, RunTypeOK
<1>6. TsMarksToken'
  BY <1>1, <1>3 DEF SInv, TsMarksToken
<1>7. Located'
  <2>1. CASE cs = mach.root
    BY <1>1, <1>3, <1>4, <2>1 DEF SInv, Located, BetweenTokens, RunTypeOK
  <2>2. CASE cs # mach.root
    BY <1>1, <1>3, <1>4, <2>2 DEF SInv, Located, InsideToken, Unmatched, Recorded
  <2> QED BY <2>1, <2>2
<1>8. KeepsText
  BY <1>1, <1>3 DEF KeepsText, SInv, RunTypeOK
<1> QED BY <1>1, <1>5, <1>6, <1>7, <1>8 DEF SInv, Built

\* Lemma: the scanner starts between tokens.
LEMMA InitInv ==
  ASSUME Init
  PROVE  SInv
<1>1. Built /\ toks = <<>> /\ Promise!Pos = 0
  BY ScanGraphs DEF Init, Built, Promise!Pos
<1>2. mach.root \in Node
  BY <1>1, MachineType
<1>3. RunTypeOK
  <2>1. word = <<>> /\ Len(word) = 0 /\ MaxLen \in Nat
    BY ScanBounds DEF Init
  <2>2. word \in Seq(Key) /\ toks \in Seq(Pat \X (0 .. MaxLen) \X (1 .. MaxLen))
    BY <1>1, <2>1
  <2>3. eof \in BOOLEAN
    BY DEF Init
  <2>4. p = 0 /\ ts = None /\ te = 0 /\ act = 0 /\ kept = 0 /\ cs \in Node
    BY <1>2 DEF Init
  <2>5. 0 \in 0 .. Len(word) /\ Len(word) =< MaxLen
    BY <2>1
  <2> QED BY <2>2, <2>3, <2>4, <2>5 DEF RunTypeOK
<1> QED BY <1>1, <1>3 DEF Init, SInv, Located, BetweenTokens, TsMarksToken

\* Theorem: at every step SInv holds, and the step goes back only to text the
\* driver has kept (the scanner of LongestMatch, run by TabCodeGen's loop).
THEOREM ScanInvariant == Spec => [](SInv)
<1>1. ASSUME SInv, [Next]_vars
      PROVE  SInv'
  <2>1. CASE Next
    BY <1>1, <2>1, ExecStep, FeedStep DEF Next
  <2>2. CASE UNCHANGED vars
    BY <1>1, <2>2 DEF vars, SInv, RunTypeOK, Built, TsMarksToken, Located, BetweenTokens,
                      InsideToken, Unmatched, Recorded, Promise!Pos
  <2> QED BY <1>1, <2>1, <2>2
<1> QED BY <1>1, InitInv, PTL DEF Spec

\* Theorem: type correctness, for any patterns, alphabet and blocks.
THEOREM ScanTypeCorrect == Spec => []TypeOK
<1>1. SInv => TypeOK
  BY TypeFollows
<1> QED BY <1>1, ScanInvariant, PTL

\* Theorem: between tokens ts is null and inside one it is where the token
\* starts (the actions initts and ts that runLongestMatch embeds).
THEOREM ScanTsMarksToken == Spec => []TsMarksToken
<1>1. SInv => TsMarksToken
  BY DEF SInv
<1> QED BY <1>1, ScanInvariant, PTL

\* Theorem: the scanner never needs text its driver has thrown away (te of
\* the error actions, and the text the driver of rlscan.rl preserves).
THEOREM ScanTextIsKept == Spec => TextIsKept
<1>1. ASSUME SInv, [Next]_vars
      PROVE  [KeepsText]_vars
  BY <1>1, ExecStep, FeedStep DEF Next
<1> QED BY <1>1, ScanInvariant, PTL DEF Spec, TextIsKept

\* Theorem: when the switch runs, act is one of its cases: either a pattern
\* in inLmSelect, or 0 in a scanner whose switch handles the error
\* (makeLmSwitch writes no other case).
THEOREM SwitchHasCase ==
  Spec => [](cs # Err /\ mach.atEof[cs].do = {"switch"} =>
               act \in mach.inLmSelect \/ (act = 0 /\ mach.handlesError))
<1>1. ASSUME SInv, cs # Err, mach.atEof[cs].do = {"switch"}
      PROVE  act \in mach.inLmSelect \/ (act = 0 /\ mach.handlesError)
  <2>1. out \in ScannerGraph /\ mach = RunLongestMatch(out) /\ mach.root = Root(out)
    BY <1>1, MachineType DEF SInv, Built
  <2>2. cs # mach.root
    <3>1. mach.atEof[Root(out)] = OnError(out, Items(out), Root(out))
      BY <1>1, <2>1, MachineType DEF SInv, RunLongestMatch
    <3>2. mach.atEof[Root(out)].do = {}
      BY <2>1, <3>1, RootFails DEF Fails
    <3> QED BY <1>1, <2>1, <3>2
  <2>3. InsideToken /\ cs \in State
    BY <1>1, <2>2 DEF SInv, Located, InsideToken
  <2>4. CASE Unmatched
    BY <1>1, <2>1, <2>3, <2>4, RecordFacts DEF Unmatched
  <2>5. CASE ~Unmatched
    <3>1. PICK e \in MatchEdge(out) : Recorded(e)
      BY <2>3, <2>5 DEF InsideToken
    <3> QED BY <1>1, <2>1, <2>3, <3>1, RecordFacts DEF Recorded
  <2> QED BY <2>4, <2>5
<1> QED BY <1>1, ScanInvariant, PTL
-----------------------------------------------------------------------------
(* Maximal munch: the scanner follows the pattern machine, and te and act  *)
(* stand for the longest match since the last token wherever they matter.  *)

\* No pattern has matched since the last token.
NothingMatched == /\ NoMatch(out, word, Promise!Pos, Promise!Pos + 1, p)
                  /\ Unmatched

\* The longest match since the last token ends at l, with the transition e.
LastMatched(e, l) ==
  /\ l \in Promise!Pos + 1 .. p
  /\ RunOf(out, word, Promise!Pos)[l - 1] \in State
  /\ e = out[RunOf(out, word, Promise!Pos)[l - 1]][word[l]]
  /\ NoMatch(out, word, Promise!Pos, l + 1, p)
  /\ cs \in StopFinal(out, e.to)
  /\ "te" \in OnMatch(out, Items(out), e) => te = l
  /\ "act" \in OnMatch(out, Items(out), e) => act = LmAct(e)

OnTrack == /\ RunOf(out, word, Promise!Pos)[p] = cs
           /\ NothingMatched \/ \E e \in MatchEdge(out), l \in Nat : LastMatched(e, l)

MunchInv ==
  /\ cs = Err => NoMatch(out, word, Promise!Pos, Promise!Pos + 1, Len(word))
  /\ cs # Err /\ cs # mach.root => OnTrack

\* Lemma: ScanSpec's runs and matches.
LEMMA PromiseIs ==
  /\ \A i : Promise!Run(i) = RunOf(out, word, i)
  /\ \A i, j : Promise!Matching(i, j) = MatchingOf(out, word, i, j)
<1>1. \A i : Promise!Run(i) = RunOf(out, word, i)
  BY DEF Promise!Run, RunOf
<1> QED BY <1>1 DEF Promise!Matching, MatchingOf

\* Lemma: positions.
LEMMA Positions ==
  ASSUME SInv
  PROVE  /\ word \in Seq(Key) /\ Len(word) \in Nat /\ Promise!Pos \in Nat
         /\ p \in Nat /\ p =< Len(word) /\ te \in Nat
         /\ out \in ScannerGraph /\ mach = RunLongestMatch(out)
         /\ mach.root = Root(out) /\ mach.root \in Node /\ mach.root # Err
         /\ cs # Err => Promise!Pos =< p
         /\ cs = mach.root => p = Promise!Pos
         /\ cs # Err /\ cs # mach.root => Promise!Pos < p /\ cs \in State
<1>1. Promise!Pos \in Nat
  BY PosFacts DEF SInv, RunTypeOK, Token
<1>2. word \in Seq(Key) /\ Len(word) \in Nat /\ p \in Nat /\ p =< Len(word) /\ te \in Nat
  BY DEF SInv, RunTypeOK
<1>3. /\ out \in ScannerGraph /\ mach = RunLongestMatch(out)
      /\ mach.root = Root(out) /\ mach.root \in Node /\ mach.root # Err
  BY MachineType DEF SInv, Built
<1>4. cs = mach.root => p = Promise!Pos
  BY <1>3 DEF SInv, Located, BetweenTokens
<1> QED BY <1>1, <1>2, <1>3, <1>4, KeptBeforePos

\* Lemma: the pattern machine stands where the scanner does.
LEMMA PathHere ==
  ASSUME SInv, MunchInv, cs # Err
  PROVE  /\ RunOf(out, word, Promise!Pos)[p] = (IF cs = Fresh THEN Start ELSE cs)
         /\ RunOf(out, word, Promise!Pos)[p] \in State
<1>1. CASE cs = mach.root
  <2>1. p = Promise!Pos /\ Promise!Pos \in 0 .. Len(word) /\ word \in Seq(Key)
    BY <1>1, Positions
  <2>2. RunOf(out, word, Promise!Pos)[p] = Start
    BY <2>1, RunFacts
  <2> QED BY <1>1, <2>2, Positions, ScanConstants DEF Root
<1>2. CASE cs # mach.root
  <2>1. RunOf(out, word, Promise!Pos)[p] = cs /\ cs \in State
    BY <1>2, Positions DEF MunchInv, OnTrack
  <2> QED BY <2>1, ScanConstants
<1> QED BY <1>1, <1>2

\* Lemma: the next character.
LEMMA CharRead ==
  ASSUME SInv, MunchInv, cs # Err, p < Len(word)
  PROVE  LET e == EdgeOf(out, cs, word[p + 1])
         IN  /\ word[p + 1] \in Key
             /\ e = out[RunOf(out, word, Promise!Pos)[p]][word[p + 1]] /\ e \in Edge
             /\ RunOf(out, word, Promise!Pos)[p + 1] = e.to
             /\ MatchingOf(out, word, Promise!Pos, p + 1) = e.lm
             /\ e.to \notin State => e.lm = {}
<1> DEFINE r == RunOf(out, word, Promise!Pos)
           e == EdgeOf(out, cs, word[p + 1])
<1>1. r[p] = (IF cs = Fresh THEN Start ELSE cs) /\ r[p] \in State
  BY PathHere
<1>2. /\ p + 1 \in 1 .. Len(word) /\ p + 1 \in Promise!Pos + 1 .. Len(word)
      /\ (p + 1) - 1 = p /\ Promise!Pos \in 0 .. Len(word)
  BY Positions
<1>3. word[p + 1] \in Key
  BY <1>2, Positions
<1>4. r[p + 1] = IF r[p] \in State THEN out[r[p]][word[p + 1]].to ELSE None
  <2>1. r[p + 1] = After(out, r[(p + 1) - 1], word[p + 1])
    BY <1>2, Positions, RunFacts
  <2> HIDE DEF r
  <2> QED BY <1>2, <2>1 DEF After
<1>5. MatchingOf(out, word, Promise!Pos, p + 1)
        = IF r[p] \in State THEN out[r[p]][word[p + 1]].lm ELSE {}
  BY <1>2 DEF MatchingOf
<1> HIDE DEF r
<1>6. e = out[r[p]][word[p + 1]]
  BY <1>1 DEF EdgeOf
<1>7. out \in ScannerGraph
  BY Positions
<1>8. e \in Edge /\ (e.lm # {} <=> e.to \in Fin(out))
  BY <1>1, <1>3, <1>6, <1>7 DEF ScannerGraph
<1>9. e.to \notin State => e.lm = {}
  BY <1>8 DEF Fin
<1> QED BY <1>1, <1>3, <1>4, <1>5, <1>6, <1>8, <1>9 DEF r

\* Where the scanner stops or falls back: on a character without a
\* transition, or at the end of the input.
Stuck == \/ p < Len(word) /\ EdgeOf(out, cs, word[p + 1]).to \notin State
         \/ p = Len(word) /\ eof

\* Lemma: there, no longer match can follow.
LEMMA StuckFacts ==
  ASSUME SInv, MunchInv, cs # Err, Stuck
  PROVE  /\ NoMatch(out, word, Promise!Pos, p + 1, Len(word))
         /\ eof \/ RunOf(out, word, Promise!Pos)[Len(word)] \notin State
<1>1. CASE p = Len(word) /\ eof
  BY <1>1, Positions DEF NoMatch
<1>2. CASE p < Len(word) /\ EdgeOf(out, cs, word[p + 1]).to \notin State
  <2>1. /\ RunOf(out, word, Promise!Pos)[p + 1] \notin State
        /\ MatchingOf(out, word, Promise!Pos, p + 1) = {}
    BY <1>2, CharRead
  <2>2. p + 1 \in Promise!Pos .. Len(word) /\ Promise!Pos \in 0 .. Len(word)
        /\ Len(word) \in p + 1 .. Len(word) /\ word \in Seq(Key)
    BY <1>2, Positions
  <2>3. /\ RunOf(out, word, Promise!Pos)[Len(word)] \notin State
        /\ NoMatch(out, word, Promise!Pos, (p + 1) + 1, Len(word))
    BY <2>1, <2>2, DeadRun
  <2>4. \A j \in p + 1 .. Len(word) : j = p + 1 \/ j \in (p + 1) + 1 .. Len(word)
    BY Positions
  <2> QED BY <2>1, <2>3, <2>4 DEF NoMatch
<1> QED BY <1>1, <1>2 DEF Stuck
\* The longest match since the last token that the scanner has seen.
LongestSeen(l) == /\ l \in Promise!Pos + 1 .. p
                  /\ MatchingOf(out, word, Promise!Pos, l) # {}
                  /\ NoMatch(out, word, Promise!Pos, l + 1, p)

\* Lemma: the invariant knows it.
LEMMA SeenFacts ==
  ASSUME SInv, MunchInv, cs # Err
  PROVE  /\ NoMatch(out, word, Promise!Pos, Promise!Pos + 1, p) \/ \E l \in Nat : LongestSeen(l)
         /\ NoMatch(out, word, Promise!Pos, Promise!Pos + 1, p) => cs = mach.root \/ Unmatched
         /\ \A l : LongestSeen(l) =>
              /\ cs # mach.root
              /\ \E e \in MatchEdge(out) :
                   LastMatched(e, l) /\ MatchingOf(out, word, Promise!Pos, l) = e.lm
<1> DEFINE M(j) == MatchingOf(out, word, Promise!Pos, j)
<1>1. Promise!Pos \in Nat /\ p \in Nat
  BY Positions
<1>2. CASE cs = mach.root
  <2>1. p = Promise!Pos
    BY <1>2, Positions
  <2> QED BY <1>1, <1>2, <2>1 DEF NoMatch, LongestSeen
<1>3. CASE cs # mach.root /\ NothingMatched
  BY <1>1, <1>3 DEF NothingMatched, NoMatch, LongestSeen
<1>4. ASSUME NEW e \in MatchEdge(out), NEW n \in Nat, LastMatched(e, n), cs # mach.root
      PROVE  /\ LongestSeen(n) /\ M(n) = e.lm
             /\ \A l : LongestSeen(l) => l = n
             /\ ~ NoMatch(out, word, Promise!Pos, Promise!Pos + 1, p)
  <2>1. M(n) = e.lm /\ M(n) # {}
    BY <1>4 DEF LastMatched, MatchingOf, MatchEdge
  <2> HIDE DEF M
  <2>2. n \in Promise!Pos + 1 .. p /\ \A j \in n + 1 .. p : M(j) = {}
    BY <1>4 DEF LastMatched, NoMatch, M
  <2>3. LongestSeen(n) /\ ~ NoMatch(out, word, Promise!Pos, Promise!Pos + 1, p)
    BY <2>1, <2>2 DEF LongestSeen, NoMatch, M
  <2>4. ASSUME NEW l, LongestSeen(l) PROVE l = n
    <3>1. l \in Promise!Pos + 1 .. p /\ M(l) # {} /\ \A j \in l + 1 .. p : M(j) = {}
      BY <2>4 DEF LongestSeen, NoMatch, M
    <3>2. ~ (l < n) /\ ~ (n < l)
      BY <1>1, <2>1, <2>2, <3>1
    <3> QED BY <1>1, <2>2, <3>1, <3>2
  <2> QED BY <2>1, <2>3, <2>4
<1> QED BY <1>2, <1>3, <1>4 DEF MunchInv, OnTrack

\* Lemma: what an error action is about to use is what it should.
LEMMA ReadyFacts ==
  ASSUME SInv, MunchInv, cs # Err, NEW m, m = mach.atEof[cs]
  PROVE  /\ NoMatch(out, word, Promise!Pos, Promise!Pos + 1, p) =>
              Fails(m) \/ (m.do = {"switch"} /\ mach.handlesError /\ act = 0)
         /\ \A l : LongestSeen(l) =>
              LET q == Min(MatchingOf(out, word, Promise!Pos, l))
              IN  /\ Accepts(m, mach.root) /\ q \in Pat
                  /\ m.do = {"next"} => l = p /\ m.pat = q
                  /\ m.do = {"lag"} => te = l /\ m.pat = q
                  /\ m.do = {"switch"} => te = l /\ act = q /\ act \in mach.inLmSelect
<1>1. /\ cs \in Node /\ m = OnError(out, Items(out), cs)
      /\ out \in ScannerGraph /\ mach = RunLongestMatch(out) /\ mach.root = Root(out)
  BY Positions DEF SInv, RunTypeOK, RunLongestMatch
<1>2. ASSUME NoMatch(out, word, Promise!Pos, Promise!Pos + 1, p)
      PROVE  Fails(m) \/ (m.do = {"switch"} /\ mach.handlesError /\ act = 0)
  <2>1. CASE cs = mach.root
    BY <1>1, <2>1, RootFails
  <2>2. CASE cs # mach.root
    <3>1. Unmatched /\ cs \in State
      BY <1>2, <2>2, SeenFacts, Positions
    <3>2. Fails(m) \/ (m.do = {"switch"} /\ mach.handlesError)
      BY <1>1, <3>1, RecordFacts DEF Unmatched
    <3> QED BY <3>1, <3>2 DEF Unmatched
  <2> QED BY <2>1, <2>2
<1>3. ASSUME NEW l, LongestSeen(l)
      PROVE  LET q == Min(MatchingOf(out, word, Promise!Pos, l))
             IN  /\ Accepts(m, mach.root) /\ q \in Pat
                 /\ m.do = {"next"} => l = p /\ m.pat = q
                 /\ m.do = {"lag"} => te = l /\ m.pat = q
                 /\ m.do = {"switch"} => te = l /\ act = q /\ act \in mach.inLmSelect
  <2>1. PICK e \in MatchEdge(out) :
          LastMatched(e, l) /\ MatchingOf(out, word, Promise!Pos, l) = e.lm
    BY <1>3, SeenFacts
  <2>2. cs \in State /\ cs # mach.root /\ cs # Fresh /\ cs \in StopFinal(out, e.to)
    BY <1>3, <2>1, SeenFacts, Positions, ScanConstants DEF LastMatched
  <2>3. /\ LmAct(e) = Min(MatchingOf(out, word, Promise!Pos, l))
        /\ LmAct(e) \in Items(out)[cs] /\ LmAct(e) \in Pat /\ LmAct(e) # 0
    BY <1>1, <2>1, <2>2, ItemFacts, ScanConstants DEF LmAct
  <2>4. Accepts(m, mach.root)
    BY <1>1, <2>2, <2>3, ErrorFacts
  <2>5. m.do \in {{"next"}, {"lag"}} => m.pat = LmAct(e)
    BY <1>1, <2>3, ErrorFacts
  <2>6. m.do = {"lag"} => te = l
    BY <1>1, <2>1, <2>2, RecordFacts DEF LastMatched
  <2>7. m.do = {"switch"} => te = l /\ act = LmAct(e) /\ act \in mach.inLmSelect
    BY <1>1, <2>1, <2>2, RecordFacts DEF LastMatched
  <2>8. m.do = {"next"} => l = p
    <3> SUFFICES ASSUME m.do = {"next"} PROVE l = p
      OBVIOUS
    <3> DEFINE r == RunOf(out, word, Promise!Pos)
    <3>1. cs \in Fin(out)
      BY <1>1, ErrorFacts
    <3>2. r[p] = cs
      BY <2>2 DEF MunchInv, OnTrack
    <3>3. /\ Promise!Pos < p /\ p \in Promise!Pos + 1 .. Len(word) /\ word \in Seq(Key)
          /\ Promise!Pos \in 0 .. Len(word) /\ p \in 1 .. Len(word)
      BY <2>2, Positions
    <3>4. r[p] = After(out, r[p - 1], word[p])
      BY <3>3, RunFacts
    <3>5. MatchingOf(out, word, Promise!Pos, p) = IF r[p - 1] \in State
                                                  THEN out[r[p - 1]][word[p]].lm ELSE {}
      BY DEF MatchingOf
    <3> HIDE DEF r
    <3>6. r[p - 1] \in State /\ out[r[p - 1]][word[p]].to = cs
      BY <2>2, <3>2, <3>4, ScanConstants DEF After
    <3>7. word[p] \in Key
      BY <3>3
    <3>8. MatchingOf(out, word, Promise!Pos, p) # {}
      BY <1>1, <3>1, <3>5, <3>6, <3>7 DEF ScannerGraph
    <3> QED BY <1>3, <3>3, <3>8 DEF LongestSeen, NoMatch
  <2> QED BY <2>3, <2>4, <2>5, <2>6, <2>7, <2>8
<1> QED BY <1>2, <1>3
\* Lemma: handing out the longest match is a Token of ScanSpec.
LEMMA TokenOfSpec ==
  ASSUME SInv, UNCHANGED <<out, word, eof>>, NEW l \in Promise!Pos + 1 .. Len(word),
         MatchingOf(out, word, Promise!Pos, l) # {},
         NoMatch(out, word, Promise!Pos, l + 1, Len(word)),
         eof \/ ~ (/\ RunOf(out, word, Promise!Pos)[Len(word)] \in State
                   /\ HasOut(out, RunOf(out, word, Promise!Pos)[Len(word)])),
         toks' = Append(toks, <<Min(MatchingOf(out, word, Promise!Pos, l)), Promise!Pos, l>>)
  PROVE  Promise!Token
<1>1. /\ Promise!Pos \in Nat /\ Len(word) \in Nat /\ out \in ScannerGraph
  BY Positions
<1>2. Promise!Matches(Promise!Pos) =
        {j \in Promise!Pos + 1 .. Len(word) : MatchingOf(out, word, Promise!Pos, j) # {}}
  BY PromiseIs DEF Promise!Matches
<1> DEFINE ends == Promise!Matches(Promise!Pos)
<1>3. l \in ends /\ \A j \in ends : j \in Nat /\ j =< l
  BY <1>1, <1>2 DEF NoMatch
<1> HIDE DEF ends
<1>4. Promise!Max(ends) = l
  <2>1. \E x \in ends : \A y \in ends : x >= y
    BY <1>1, <1>3
  <2>2. Promise!Max(ends) \in ends /\ \A y \in ends : Promise!Max(ends) >= y
    BY <2>1 DEF Promise!Max
  <2> DEFINE x == Promise!Max(ends)
  <2>3. x \in Nat /\ x =< l /\ x >= l
    BY <1>3, <2>2
  <2> HIDE DEF x
  <2>4. x = l
    BY <1>1, <2>3
  <2> QED BY <2>4 DEF x
<1>5. Promise!Min(Promise!Matching(Promise!Pos, l)) = Min(MatchingOf(out, word, Promise!Pos, l))
  BY PromiseIs DEF Promise!Min, Min
<1>6. eof \/ ~ Promise!Extendable(Promise!Pos)
  <2>1. ASSUME NEW s \in State, NEW k \in Key, out[s][k].to \in State
        PROVE  HasOut(out, s)
    BY <2>1, ScanConstants DEF HasOut
  <2> QED BY <2>1, PromiseIs DEF Promise!Extendable
<1> QED BY <1>3, <1>4, <1>5, <1>6 DEF Promise!Token, ends

\* What a step of exec does to ScanSpec's variables.
TokenOrNone == Promise!Token \/ UNCHANGED <<out, word, eof, toks>>

\* Lemma: between tokens there is nothing to keep track of.
LEMMA EmittedMunch ==
  ASSUME SInv, ExecFrame, cs' = mach.root
  PROVE  MunchInv'
BY Positions DEF MunchInv, ExecFrame

\* Lemma: an error action hands out the longest match, or there is none.
LEMMA ErrorMunch ==
  ASSUME SInv, MunchInv, cs # Err, ExecFrame, Stuck, Perform(mach.atEof[cs], Promise!Pos)
  PROVE  MunchInv' /\ TokenOrNone
<1> DEFINE m == mach.atEof[cs]
<1>1. mach.root # Err /\ Promise!Pos \in Nat /\ p \in Nat /\ Len(word) \in Nat /\ p =< Len(word)
  BY Positions
<1>2. /\ NoMatch(out, word, Promise!Pos, p + 1, Len(word))
      /\ eof \/ RunOf(out, word, Promise!Pos)[Len(word)] \notin State
  BY StuckFacts
<1>3. CASE NoMatch(out, word, Promise!Pos, Promise!Pos + 1, p)
  <2>1. Fails(m) \/ (m.do = {"switch"} /\ mach.handlesError /\ act = 0)
    BY <1>3, ReadyFacts
  <2> HIDE DEF m
  <2>2. Fail(Promise!Pos)
    BY <2>1 DEF m, Perform, Fails, OnLast, OnNext, LagBehind, Switch, Advance, Error
  <2>3. NoMatch(out, word, Promise!Pos, Promise!Pos + 1, Len(word))
    BY <1>1, <1>2, <1>3 DEF NoMatch
  <2>4. cs' = Err /\ toks' = toks /\ Promise!Pos' = Promise!Pos
    BY <2>2, PosFacts DEF Fail, SInv, RunTypeOK, Token
  <2> QED BY <1>1, <2>3, <2>4 DEF MunchInv, NoMatch, TokenOrNone, ExecFrame
<1>4. ASSUME NEW l \in Nat, LongestSeen(l)
      PROVE  MunchInv' /\ TokenOrNone
  <2> DEFINE q == Min(MatchingOf(out, word, Promise!Pos, l))
  <2>1. /\ Accepts(m, mach.root) /\ q \in Pat
        /\ m.do = {"next"} => l = p /\ m.pat = q
        /\ m.do = {"lag"} => te = l /\ m.pat = q
        /\ m.do = {"switch"} => te = l /\ act = q /\ act \in mach.inLmSelect
    BY <1>4, ReadyFacts
  <2> HIDE DEF m, q
  <2>2. toks' = Append(toks, <<q, Promise!Pos, l>>) /\ cs' = mach.root
    <3>1. CASE m.do = {"next"}
      <4>1. OnNext(m, Promise!Pos)
        BY <1>1, <2>1, <3>1
           DEF m, Accepts, Perform, OnLast, OnNext, LagBehind, Switch, Advance, Error
      <4> QED BY <2>1, <3>1, <4>1 DEF OnNext, Emit, Enter, Accepts
    <3>2. CASE m.do = {"lag"}
      <4>1. LagBehind(m, Promise!Pos)
        BY <1>1, <2>1, <3>2
           DEF m, Accepts, Perform, OnLast, OnNext, LagBehind, Switch, Advance, Error
      <4> QED BY <2>1, <3>2, <4>1 DEF LagBehind, Emit, Enter, Accepts
    <3>3. CASE m.do = {"switch"}
      <4>1. Switch(m, Promise!Pos)
        BY <1>1, <2>1, <3>3
           DEF m, Accepts, Perform, OnLast, OnNext, LagBehind, Switch, Advance, Error
      <4>2. act # 0
        BY <2>1, <3>3, ScanConstants
      <4> QED BY <2>1, <3>3, <4>1, <4>2 DEF Switch, Enter, Accepts
    <3> QED BY <2>1, <3>1, <3>2, <3>3 DEF Accepts
  <2>3. MunchInv'
    BY <2>2, EmittedMunch
  <2>4. Promise!Token
    <3>1. /\ l \in Promise!Pos + 1 .. Len(word)
          /\ MatchingOf(out, word, Promise!Pos, l) # {}
          /\ NoMatch(out, word, Promise!Pos, l + 1, Len(word))
      BY <1>1, <1>2, <1>4 DEF LongestSeen, NoMatch
    <3> QED BY <1>2, <2>2, <3>1, TokenOfSpec DEF q, ExecFrame
  <2> QED BY <2>3, <2>4 DEF TokenOrNone
<1> QED BY <1>3, <1>4, SeenFacts
\* Lemma: a character of the token brings the scanner one state further.
LEMMA AdvanceMunch ==
  ASSUME SInv, MunchInv, cs # Err, p < Len(word), ExecFrame, NEW m,
         LET e == EdgeOf(out, cs, word[p + 1])
         IN  e.to # mach.root /\ (OnTheWay(out, e, m) \/ Matched(out, e, m)),
         Perform(m, Promise!Pos)
  PROVE  MunchInv' /\ TokenOrNone
<1> DEFINE e == EdgeOf(out, cs, word[p + 1])
           r == RunOf(out, word, Promise!Pos)
           M(j) == MatchingOf(out, word, Promise!Pos, j)
<1>1. /\ out \in ScannerGraph /\ Promise!Pos \in Nat /\ p \in Nat /\ Promise!Pos =< p
      /\ mach.root # Err /\ Err \notin State
  BY Positions, ScanConstants
<1>2. /\ e = out[r[p]][word[p + 1]] /\ r[p] \in State /\ word[p + 1] \in Key
      /\ r[p + 1] = e.to /\ M(p + 1) = e.lm
  BY CharRead, PathHere
<1>3. /\ m.to = e.to /\ e.to \in State /\ e.to # Err /\ e.to # mach.root
      /\ m.do \subseteq {"te", "act"}
  <2>1. CASE OnTheWay(out, e, m)
    BY <1>1, <2>1 DEF OnTheWay
  <2>2. CASE Matched(out, e, m)
    <3>1. e.to \in State
      BY <1>1, <2>2, ItemFacts DEF Matched
    <3>2. OnMatch(out, Items(out), e) \subseteq {"te", "act"}
      BY <2>2 DEF Matched, MatchEdge, OnMatch
    <3> QED BY <1>1, <2>2, <3>1, <3>2 DEF Matched
  <2> QED BY <2>1, <2>2
<1> HIDE DEF e, r, M
<1>4. Advance(m, Promise!Pos)
  BY <1>3 DEF Perform, OnLast, OnNext, LagBehind, Switch, Advance, Error
<1>5. /\ cs' = e.to /\ p' = p + 1 /\ toks' = toks
      /\ te' = (IF "te" \in m.do THEN p + 1 ELSE te)
      /\ act' = (IF "act" \in m.do THEN m.pat ELSE act)
      /\ out' = out /\ word' = word /\ mach' = mach
  BY <1>3, <1>4 DEF Advance, Enter, ExecFrame
<1>6. Promise!Pos' = Promise!Pos
  BY <1>5, PosFacts DEF SInv, RunTypeOK, Token
<1>7. (NothingMatched \/ \E f \in MatchEdge(out), l \in Nat : LastMatched(f, l))'
  <2>1. CASE Matched(out, e, m)
    <3>1. PICK f \in MatchEdge(out) : /\ f = e /\ m.do = OnMatch(out, Items(out), f)
                                      /\ m.pat = LmAct(f)
      BY <2>1 DEF Matched
    <3>2. PICK n \in Nat : n = p + 1
      BY <1>1
    <3>3. f.to \in StopFinal(out, f.to)
      BY <1>3, <3>1, Marked
    <3>4. n - 1 = p /\ n \in Promise!Pos + 1 .. n /\ NoMatch(out, word, Promise!Pos, n + 1, n)
      BY <1>1, <3>2 DEF NoMatch
    <3>5. LastMatched(f, n)'
      BY <1>2, <1>5, <1>6, <3>1, <3>2, <3>3, <3>4 DEF LastMatched, r
    <3>6. f \in MatchEdge(out)'
      BY <1>5
    <3>7. \E g \in MatchEdge(out)', l \in Nat : LastMatched(g, l)'
      BY <3>5, <3>6
    <3> QED BY <3>7
  <2>2. CASE OnTheWay(out, e, m)
    <3>1. m.do = {} /\ e.to \in State \ Fin(out) /\ te' = te /\ act' = act
      BY <1>5, <2>2 DEF OnTheWay
    <3>2. M(p + 1) = {}
      BY <1>1, <1>2, <3>1 DEF ScannerGraph
    <3>3. \A n \in Nat : NoMatch(out, word, Promise!Pos, n, p)
                         => NoMatch(out, word, Promise!Pos, n, p + 1)
      <4> SUFFICES ASSUME NEW n \in Nat, NoMatch(out, word, Promise!Pos, n, p),
                          NEW j \in n .. p + 1
                   PROVE  M(j) = {}
        BY DEF NoMatch, M
      <4>1. j = p + 1 \/ j \in n .. p
        BY <1>1
      <4> QED BY <3>2, <4>1 DEF NoMatch, M
    <3>4. CASE NoMatch(out, word, Promise!Pos, Promise!Pos + 1, p)
      <4>1. NoMatch(out, word, Promise!Pos, Promise!Pos + 1, p + 1)
        BY <1>1, <3>3, <3>4
      <4>2. cs = mach.root \/ Unmatched
        BY <3>4, SeenFacts
      <4>3. mach.handlesError => act = 0
        BY <1>1, <4>2 DEF SInv, Located, BetweenTokens, Unmatched
      <4>4. e.to \in StopFinal(out, Start)
        BY <1>2, <3>1, <4>2, WayFacts DEF Unmatched, e
      <4>5. NothingMatched'
        BY <1>5, <1>6, <3>1, <4>1, <4>3, <4>4 DEF NothingMatched, Unmatched
      <4> QED BY <4>5
    <3>5. ASSUME NEW l \in Nat, LongestSeen(l)
          PROVE  (\E f \in MatchEdge(out), n \in Nat : LastMatched(f, n))'
      <4>1. PICK f \in MatchEdge(out) : LastMatched(f, l)
        BY <3>5, SeenFacts
      <4>2. e.to \in StopFinal(out, f.to)
        BY <1>2, <3>1, <4>1, WayFacts DEF LastMatched, e
      <4>3. NoMatch(out, word, Promise!Pos, l + 1, p + 1) /\ l \in Promise!Pos + 1 .. p + 1
        BY <1>1, <3>3, <4>1 DEF LastMatched
      <4>4. LastMatched(f, l)'
        BY <1>5, <1>6, <3>1, <4>1, <4>2, <4>3 DEF LastMatched
      <4>5. f \in MatchEdge(out)'
        BY <1>5
      <4>6. \E g \in MatchEdge(out)', n \in Nat : LastMatched(g, n)'
        BY <4>4, <4>5
      <4> QED BY <4>6
    <3> QED BY <3>4, <3>5, SeenFacts
  <2> QED BY <2>1, <2>2 DEF e
<1>8. MunchInv'
  BY <1>2, <1>3, <1>5, <1>6, <1>7 DEF MunchInv, OnTrack, r
<1> QED BY <1>5, <1>8 DEF TokenOrNone, ExecFrame

\* Lemma: a match that nothing can follow is handed out at once.
LEMMA LastMunch ==
  ASSUME SInv, MunchInv, cs # Err, p < Len(word), ExecFrame, NEW m,
         Last(out, EdgeOf(out, cs, word[p + 1]), m), Perform(m, Promise!Pos)
  PROVE  MunchInv' /\ TokenOrNone
<1> DEFINE e == EdgeOf(out, cs, word[p + 1])
           r == RunOf(out, word, Promise!Pos)
<1>1. /\ word \in Seq(Key) /\ Len(word) \in Nat /\ Promise!Pos \in Nat /\ p \in Nat
      /\ Promise!Pos =< p /\ out \in ScannerGraph
      /\ mach.root = Root(out) /\ mach.root # Err
  BY Positions
<1>2. r[p + 1] = e.to /\ MatchingOf(out, word, Promise!Pos, p + 1) = e.lm
  BY CharRead
<1>3. /\ e.to \in State /\ e.lm # {} /\ ~ HasOut(out, e.to)
      /\ m.to = mach.root /\ m.do = {"last"} /\ m.pat = Min(e.lm)
  BY <1>1 DEF Last, LmAct
<1> HIDE DEF e
<1>4. OnLast(m, Promise!Pos)
  BY <1>1, <1>3 DEF Perform, OnLast, OnNext, LagBehind, Switch, Advance, Error
<1>5. toks' = Append(toks, <<Min(e.lm), Promise!Pos, p + 1>>) /\ cs' = mach.root
  BY <1>3, <1>4 DEF OnLast, Emit, Enter
<1>6. MunchInv'
  BY <1>5, EmittedMunch
<1>7. CASE Len(word) = p + 1
  <2>1. NoMatch(out, word, Promise!Pos, (p + 1) + 1, Len(word))
    BY <1>1, <1>7 DEF NoMatch
  <2>2. p + 1 \in Promise!Pos + 1 .. Len(word)
    BY <1>1, <1>7
  <2>3. Promise!Token
    BY <1>2, <1>3, <1>5, <1>7, <2>1, <2>2, TokenOfSpec DEF ExecFrame, r
  <2> QED BY <1>6, <2>3 DEF TokenOrNone
<1>8. CASE Len(word) # p + 1
  <2>1. /\ (p + 1) + 1 \in Promise!Pos + 1 .. Len(word) /\ ((p + 1) + 1) - 1 = p + 1
        /\ (p + 1) + 1 \in 1 .. Len(word) /\ (p + 1) + 1 \in Promise!Pos .. Len(word)
        /\ Promise!Pos \in 0 .. Len(word) /\ Len(word) \in (p + 1) + 1 .. Len(word)
    BY <1>1, <1>8
  <2>2. word[(p + 1) + 1] \in Key
    BY <1>1, <2>1
  <2>3. out[e.to][word[(p + 1) + 1]].to = None
    BY <1>3, <2>2 DEF HasOut
  <2>4. out[e.to][word[(p + 1) + 1]].lm = {}
    BY <1>1, <1>3, <2>2, <2>3, ScanConstants DEF ScannerGraph, Fin
  <2>5. r[(p + 1) + 1] = After(out, r[((p + 1) + 1) - 1], word[(p + 1) + 1])
    BY <1>1, <2>1, RunFacts
  <2>6. r[(p + 1) + 1] \notin State
    BY <1>2, <1>3, <2>1, <2>3, <2>5, ScanConstants DEF After
  <2>7. MatchingOf(out, word, Promise!Pos, (p + 1) + 1) = {}
    BY <1>2, <1>3, <2>1, <2>4 DEF MatchingOf
  <2>8. /\ r[Len(word)] \notin State
        /\ NoMatch(out, word, Promise!Pos, ((p + 1) + 1) + 1, Len(word))
    BY <1>1, <2>1, <2>6, DeadRun
  <2>9. NoMatch(out, word, Promise!Pos, (p + 1) + 1, Len(word))
    <3>1. \A j \in (p + 1) + 1 .. Len(word) :
            j = (p + 1) + 1 \/ j \in ((p + 1) + 1) + 1 .. Len(word)
      BY <1>1
    <3> QED BY <2>7, <2>8, <3>1 DEF NoMatch
  <2>10. p + 1 \in Promise!Pos + 1 .. Len(word)
    BY <1>1
  <2>11. Promise!Token
    BY <1>2, <1>3, <1>5, <2>8, <2>9, <2>10, TokenOfSpec DEF ExecFrame, r
  <2> QED BY <1>6, <2>11 DEF TokenOrNone
<1> QED BY <1>7, <1>8
\* Lemma: reading on changes nothing that was found.
LEMMA FeedMunch ==
  ASSUME SInv, MunchInv, Feed \/ FeedEof
  PROVE  MunchInv' /\ Promise!Next
<1>1. /\ cs # Err /\ p = Len(word) /\ eof' \in BOOLEAN /\ ~ eof
      /\ UNCHANGED <<out, toks, mach, cs, p, ts, te, act>>
  BY DEF Feed, FeedEof
<1>2. /\ word \in Seq(Key) /\ Len(word) \in Nat /\ Promise!Pos \in Nat
      /\ Promise!Pos =< Len(word) /\ Promise!Pos' = Promise!Pos
  BY <1>1, Positions, PosFacts DEF SInv, RunTypeOK, Token
<1>3. /\ word' \in Seq(Key) /\ Len(word) =< Len(word')
      /\ \A j \in 1 .. Len(word) : word'[j] = word[j]
      /\ Promise!Next
  <2>1. CASE FeedEof
    BY <1>1, <1>2, <2>1 DEF FeedEof, Promise!Next, Promise!End
  <2>2. CASE Feed
    <3>1. PICK n \in 1 .. MaxBlock : \E b \in [1 .. n -> Key] :
             Len(word) + n =< MaxLen /\ word' = word \o b
      BY <2>2 DEF Feed
    <3>2. PICK b \in [1 .. n -> Key] : Len(word) + n =< MaxLen /\ word' = word \o b
      BY <3>1
    <3>3. n \in Nat /\ n >= 1 /\ b \in Seq(Key) /\ Len(b) = n
      BY ScanBounds
    <3>4. /\ word' \in Seq(Key) /\ Len(word') = Len(word) + n
          /\ \A j \in 1 .. Len(word) : word'[j] = word[j]
      <4>1. /\ word \o b \in Seq(Key) /\ Len(word \o b) = Len(word) + Len(b)
            /\ \A j \in 1 .. Len(word) + Len(b) :
                 (word \o b)[j] = IF j <= Len(word) THEN word[j] ELSE b[j - Len(word)]
        BY <1>2, <3>3, ConcatProperties
      <4>2. \A j \in 1 .. Len(word) : (word \o b)[j] = word[j]
        BY <1>2, <3>3, <4>1
      <4> QED BY <3>2, <3>3, <4>1, <4>2
    <3>5. SubSeq(word', 1, Len(word)) = word /\ SubSeq(word, 1, Len(word)) = word
      <4>1. Len(SubSeq(word', 1, Len(word))) = Len(word)
            /\ Len(SubSeq(word, 1, Len(word))) = Len(word)
        BY <1>2, <3>3, <3>4
      <4> QED BY <1>2, <3>3, <3>4, <4>1
    <3>6. word # word'
      BY <1>2, <3>3, <3>4
    <3>7. Promise!Read
      BY <1>1, <1>2, <3>3, <3>4, <3>5, <3>6
         DEF Promise!Read, Promise!IsStrictPrefix, Promise!IsPrefix
    <3> QED BY <1>2, <3>3, <3>4, <3>7 DEF Promise!Next
  <2> QED BY <2>1, <2>2
<1>4. /\ \A j \in Promise!Pos .. Len(word) :
           RunOf(out, word', Promise!Pos)[j] = RunOf(out, word, Promise!Pos)[j]
      /\ \A j \in Promise!Pos + 1 .. Len(word) :
           MatchingOf(out, word', Promise!Pos, j) = MatchingOf(out, word, Promise!Pos, j)
  <2>1. Promise!Pos \in 0 .. Len(word)
    BY <1>2
  <2> QED BY <1>2, <1>3, <2>1, RunAgrees
<1>5. ASSUME cs # mach.root PROVE OnTrack'
  <2>1. OnTrack /\ Promise!Pos < p
    BY <1>1, <1>5, Positions DEF MunchInv
  <2>2. \A n \in Nat : n > Promise!Pos /\ NoMatch(out, word, Promise!Pos, n, p)
                       => NoMatch(out, word', Promise!Pos, n, p)
    BY <1>1, <1>2, <1>4 DEF NoMatch
  <2>3. RunOf(out, word', Promise!Pos)[p] = cs
    BY <1>1, <1>2, <1>4, <2>1 DEF OnTrack
  <2>4. CASE NothingMatched
    <3>1. NoMatch(out, word', Promise!Pos, Promise!Pos + 1, p)
      BY <1>2, <2>2, <2>4 DEF NothingMatched
    <3>2. NothingMatched'
      BY <1>1, <1>2, <2>4, <3>1 DEF NothingMatched, Unmatched
    <3> QED BY <1>1, <1>2, <2>3, <3>2 DEF OnTrack
  <2>5. ASSUME NEW e \in MatchEdge(out), NEW l \in Nat, LastMatched(e, l)
        PROVE  OnTrack'
    <3>1. l \in Promise!Pos + 1 .. p /\ NoMatch(out, word', Promise!Pos, l + 1, p)
      BY <1>2, <2>2, <2>5 DEF LastMatched
    <3>2. l - 1 \in Promise!Pos .. Len(word) /\ l \in 1 .. Len(word)
      BY <1>1, <1>2, <3>1
    <3>3. RunOf(out, word', Promise!Pos)[l - 1] = RunOf(out, word, Promise!Pos)[l - 1]
          /\ word'[l] = word[l]
      BY <1>3, <1>4, <3>2
    <3>4. LastMatched(e, l)'
      BY <1>1, <1>2, <2>5, <3>1, <3>3 DEF LastMatched
    <3>5. e \in MatchEdge(out)'
      BY <1>1
    <3>6. (\E f \in MatchEdge(out), n \in Nat : LastMatched(f, n))'
      BY <3>4, <3>5
    <3> QED BY <1>1, <1>2, <2>3, <3>6 DEF OnTrack
  <2> QED BY <2>1, <2>4, <2>5 DEF OnTrack
<1> QED BY <1>1, <1>3, <1>5 DEF MunchInv

\* Lemma: exec keeps track, and each of its steps is a Token or invisible.
LEMMA ExecMunch ==
  ASSUME SInv, MunchInv, Exec \/ ExecEof
  PROVE  MunchInv' /\ TokenOrNone
<1>1. CASE ExecEof
  <2>1. cs # Err /\ ExecFrame /\ Stuck /\ mach.atEof[cs].to # Err /\ Perform(mach.atEof[cs], ts)
    BY <1>1 DEF ExecEof, ExecFrame, Stuck
  <2>2. cs # mach.root
    BY <2>1, RootFails, MachineType DEF SInv, Built, RunLongestMatch, Fails
  <2> QED BY <2>1, <2>2, KeptBeforePos, ErrorMunch
<1>2. CASE Exec
  <2> DEFINE k == word[p + 1]
             m == mach.move[cs][k]
             e == EdgeOf(out, cs, k)
  <2>1. cs # Err /\ p < Len(word) /\ ExecFrame /\ Perform(m, Promise!Pos)
    BY <1>2, KeptBeforePos DEF Exec, ExecFrame
  <2>2. k \in Key /\ cs \in Node
    BY <2>1, CharRead DEF SInv, RunTypeOK
  <2>3. /\ e.to # mach.root
        /\ \/ e.to \notin State /\ m = mach.atEof[cs]
           \/ OnTheWay(out, e, m)
           \/ Last(out, e, m)
           \/ Matched(out, e, m)
    BY <2>2, MoveFacts, Positions
  <2>4. CASE e.to \notin State /\ m = mach.atEof[cs]
    <3>1. Stuck
      BY <2>1, <2>4 DEF Stuck
    <3> QED BY <2>1, <2>4, <3>1, ErrorMunch
  <2> HIDE DEF m
  <2>5. CASE OnTheWay(out, e, m) \/ Matched(out, e, m)
    BY <2>1, <2>3, <2>5, AdvanceMunch
  <2>6. CASE Last(out, e, m)
    BY <2>1, <2>6, LastMunch
  <2> QED BY <2>3, <2>4, <2>5, <2>6
<1> QED BY <1>1, <1>2

\* Theorem: the scanner knows the longest match at every step.
THEOREM ScanKeepsTrack == Spec => []MunchInv
<1>1. ASSUME Init PROVE MunchInv
  <2>1. cs = mach.root /\ mach.root # Err
    BY <1>1, InitInv, Positions DEF Init
  <2> QED BY <2>1 DEF MunchInv
<1>2. ASSUME SInv, MunchInv, [Next]_vars PROVE MunchInv'
  <2>1. CASE Next
    BY <1>2, <2>1, ExecMunch, FeedMunch DEF Next
  <2>2. CASE UNCHANGED vars
    BY <1>2, <2>2 DEF vars, MunchInv, OnTrack, NothingMatched, LastMatched, Unmatched,
                      Promise!Pos
  <2> QED BY <1>2, <2>1, <2>2
<1> QED BY <1>1, <1>2, ScanInvariant, PTL DEF Spec

\* Theorem: the scanner implements maximal munch: each token is the longest
\* match from where the last one ended, belongs to the first pattern that
\* matches it, and is handed out only when no more input could make it
\* longer (runLongestMatch and the actions of xmlcodegen.cpp, in the loop of
\* TabCodeGen, with blocks of any length).
THEOREM ScanIsMaximalMunch == Spec => MaximalMunch
<1>1. Init => Promise!Init
  BY DEF Init, Promise!Init
<1>2. ASSUME SInv, MunchInv, [Next]_vars PROVE [Promise!Next]_(Promise!specVars)
  <2>1. CASE Exec \/ ExecEof
    BY <1>2, <2>1, ExecMunch DEF TokenOrNone, Promise!Next, Promise!specVars
  <2>2. CASE Feed \/ FeedEof
    BY <1>2, <2>2, FeedMunch
  <2>3. CASE UNCHANGED vars
    BY <2>3 DEF vars, Promise!specVars
  <2> QED BY <1>2, <2>1, <2>2, <2>3 DEF Next
<1> QED BY <1>1, <1>2, ScanInvariant, ScanKeepsTrack, PTL DEF Spec, MaximalMunch, Promise!Spec

\* Theorem: the scanner gives up only where no pattern matches a prefix of
\* what is left of the input.
THEOREM ScanStopsOnlyWithoutMatch == Spec => []StopsOnlyWithoutMatch
<1>1. ASSUME SInv, MunchInv PROVE StopsOnlyWithoutMatch
  <2> SUFFICES ASSUME Finished
               PROVE  NoMatch(out, word, Promise!Pos, Promise!Pos + 1, Len(word))
    BY PromiseIs DEF StopsOnlyWithoutMatch, Promise!Matches, NoMatch
  <2>1. CASE cs = Err
    BY <1>1, <2>1 DEF MunchInv
  <2>2. CASE cs # Err
    <3> DEFINE m == mach.atEof[cs]
    <3>1. p = Len(word) /\ m.to = Err /\ mach.root # Err
      BY <1>1, <2>2, Positions DEF Finished
    <3>2. ASSUME NEW l \in Nat, LongestSeen(l) PROVE FALSE
      <4>1. Accepts(m, mach.root)
        BY <1>1, <2>2, <3>2, ReadyFacts
      <4> QED BY <3>1, <4>1 DEF Accepts
    <3> QED BY <1>1, <2>2, <3>1, <3>2, SeenFacts
  <2> QED BY <2>1, <2>2
<1> QED BY <1>1, ScanInvariant, ScanKeepsTrack, PTL

\* Theorem: te and act are those of the longest match since ts wherever an
\* error action would use them, never those of an earlier token.
THEOREM ScanErrorActionReady == Spec => []ErrorActionReady
<1>1. ASSUME SInv, MunchInv, cs # Err PROVE ErrorActionReady
  <2> DEFINE m    == mach.atEof[cs]
             M(j) == MatchingOf(out, word, Promise!Pos, j)
             ends == {j \in Promise!Matches(Promise!Pos) : j <= p}
             last == Max(ends)
             pat  == Min(Promise!Matching(Promise!Pos, last))
  <2>1. Promise!Pos \in Nat /\ p \in Nat /\ p =< Len(word) /\ Len(word) \in Nat
    BY <1>1, Positions
  <2>2. ends = {j \in Promise!Pos + 1 .. p : M(j) # {}}
    BY <2>1, PromiseIs DEF Promise!Matches
  <2>3. CASE NoMatch(out, word, Promise!Pos, Promise!Pos + 1, p)
    <3>1. ends = {}
      BY <2>2, <2>3 DEF NoMatch
    <3>2. m.do = {} \/ (m.do = {"switch"} /\ act = 0)
      BY <1>1, <2>3, ReadyFacts DEF Fails
    <3> HIDE DEF m, ends
    <3> QED BY <3>1, <3>2 DEF ErrorActionReady, m, ends
  <2>4. ASSUME NEW l \in Nat, LongestSeen(l) PROVE ErrorActionReady
    <3>1. l \in ends /\ \A j \in ends : j \in Nat /\ j =< l
      BY <2>1, <2>2, <2>4 DEF LongestSeen, NoMatch
    <3>2. \E x \in ends : \A y \in ends : x >= y
      BY <3>1
    <3> HIDE DEF ends
    <3>3. last \in ends /\ \A y \in ends : last >= y
      BY <3>2 DEF Max
    <3> HIDE DEF last
    <3>4. last \in Nat /\ last =< l /\ last >= l
      BY <3>1, <3>3
    <3>5. last = l
      BY <3>4
    <3>6. pat = Min(M(l)) /\ ends # {}
      BY <3>1, <3>5, PromiseIs
    <3>7. /\ m.do \in {{"switch"}, {"next"}, {"lag"}}
          /\ m.do = {"lag"} => te = last /\ m.pat = pat
          /\ m.do = {"switch"} => te = last /\ act = pat
      BY <1>1, <2>4, <3>5, <3>6, ReadyFacts DEF Accepts
    <3> HIDE DEF m, pat
    <3> QED BY <3>6, <3>7 DEF ErrorActionReady, m, pat, last, ends
  <2> QED BY <1>1, <2>3, <2>4, SeenFacts
<1>2. SInv /\ MunchInv => ErrorActionReady
  BY <1>1 DEF ErrorActionReady
<1> QED BY <1>2, ScanInvariant, ScanKeepsTrack, PTL
=============================================================================
