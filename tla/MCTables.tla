------------------------------ MODULE MCTables ------------------------------
(***************************************************************************)
(* Machines of three states over three characters and two spaces, of one   *)
(* and of two conditions: the error state, a state before the one looked   *)
(* at so that its segments do not start at 0, and one with any list of     *)
(* transitions.                                                            *)
(***************************************************************************)
EXTENDS Tables

SpacesVal == <<1, 2>>

t1 == [to |-> 2, act |-> 0]
t2 == [to |-> 3, act |-> 1]
Missing == [to |-> 1, act |-> 2]   \* an error transition with an action

TopKey == baseKey[2] + 4 * AlphSize - 1

\* space: the characters that have conditions, and in which space.
KeysFor(space) ==
  (Alphabet \ DOMAIN space)
    \cup UNION {{Widened(space[k], k, h) : h \in SUBSET Conds} : k \in DOMAIN space}

\* The keys of f, and where the run of keys with the value of k ends: at k
\* itself unless neighbours are joined.
KeysOf(f, joined) ==
  SelectSeq([i \in 1 .. TopKey + 1 |-> i - 1],
            LAMBDA k : k \in DOMAIN f /\ ~(joined /\ k - 1 \in DOMAIN f /\ f[k - 1] = f[k]))

RunEnd(f, k, joined) ==
  IF ~joined THEN k
  ELSE CHOOSE h \in k .. TopKey :
         /\ \A j \in k .. h : j \in DOMAIN f /\ f[j] = f[k]
         /\ h + 1 \in DOMAIN f => f[h + 1] # f[k]

ListOf(f, joined) ==
  SelectSeq(Each(KeysOf(f, joined), LAMBDA k : El(k, RunEnd(f, k, joined), f[k])),
            LAMBDA r : r.t # NoTrans)

CondsOf(space, joined) ==
  Each(KeysOf(space, joined),
       LAMBDA k : [lo |-> k, hi |-> RunEnd(space, k, joined), space |-> space[k]])

StateOf(space, f, joined, eof) ==
  [list |-> ListOf(f, joined), conds |-> CondsOf(space, joined), eof |-> eof]

ErrorState == [list |-> <<>>, conds |-> <<>>, eof |-> NoTrans]

\* The state in front has keys, ranges and conditions of its own.
Conditional == [k \in {0, 1} |-> 1]
Before == StateOf(Conditional, [k \in KeysFor(Conditional) |->
                    CASE k = 2 -> Missing [] k \in {3, 4} -> t2 [] k \in {6, 7} -> t1],
                  TRUE, Missing)

Machine(space, f, joined, eof) == <<ErrorState, Before, StateOf(space, f, joined, eof)>>

MachinesOf(spaces, ts, eof) ==
  UNION {{Machine(space, f, joined, eof) : f \in [KeysFor(space) -> ts]} :
            space \in spaces, joined \in BOOLEAN}

\* Up to one character with a condition and two transitions; more and one.
MachinesVal ==
  MachinesOf({<<>>}, {NoTrans, Missing, t2}, Missing)
    \cup MachinesOf(UNION {[{k} -> {1}] : k \in Alphabet}, {NoTrans, t1, t2}, NoTrans)
    \cup MachinesOf(UNION {[w -> {1}] : w \in {{0, 1}, {0, 2}, {1, 2}, Alphabet}}, {NoTrans, t2}, t1)
    \cup MachinesOf({[k \in {0, 2} |-> k \div 2 + 1]}, {NoTrans, t2}, t1)
=============================================================================
