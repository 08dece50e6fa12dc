---------------------------- MODULE OrderedTables ----------------------------
(***************************************************************************)
(* What every sorted container of aapl promises: a family of tables, each  *)
(* a sequence of elements sorted by key, where what is done to one table   *)
(* does not show in another.                                               *)
(***************************************************************************)
EXTENDS Integers, Sequences, FiniteSets

CONSTANTS Table, Elem
VARIABLE tables

Sorted(s) == \A i, j \in 1 .. Len(s) : i < j => s[i][1] <= s[j][1]
Keys(s)   == {s[i][1] : i \in 1 .. Len(s)}
Put(s, i, el) == SubSeq(s, 1, i) \o <<el>> \o SubSeq(s, i + 1, Len(s))
\* Without n elements after the i-th.
Without(s, i, n) == SubSeq(s, 1, i) \o SubSeq(s, i + n + 1, Len(s))

\* An element whose key is there is not inserted.
InsertMulti(v, el) ==
  \E i \in 0 .. Len(tables[v]) : /\ Sorted(Put(tables[v], i, el))
                                 /\ tables' = [tables EXCEPT ![v] = Put(@, i, el)]
Insert(v, el) == el[1] \notin Keys(tables[v]) /\ InsertMulti(v, el)

\* Any one of the elements with the key, or all.
Remove(v, key) ==
  \E i \in 1 .. Len(tables[v]) : /\ tables[v][i][1] = key
                                 /\ tables' = [tables EXCEPT ![v] = Without(@, i - 1, 1)]
RemoveMulti(v, key) ==
  LET s    == tables[v]
      with == {i \in 1 .. Len(s) : s[i][1] = key}
  IN  \E i, n \in 0 .. Len(s) : /\ with = i + 1 .. i + n
                               /\ tables' = [tables EXCEPT ![v] = Without(s, i, n)]

Empty(v) == tables' = [tables EXCEPT ![v] = <<>>]
Copy(v, w) == tables' = [tables EXCEPT ![v] = tables[w]]
Transfer(v, w) == v # w /\ tables' = [tables EXCEPT ![v] = tables[w], ![w] = <<>>]

\* new has the elements of old, and one of els for each of the keys old lacks:
\* an element of old moves up by the number of those that are smaller.
Merged(new, old, els) ==
  LET added == Keys(els) \ Keys(old) IN
  /\ Sorted(new) /\ Keys(new) = Keys(old) \cup Keys(els)
  /\ Len(new) = Len(old) + Cardinality(added)
  /\ \A i \in 1 .. Len(old) :
       new[i + Cardinality({k \in added : k < old[i][1]})] = old[i]
  /\ \A k \in added : \E i \in 1 .. Len(els), j \in 1 .. Len(new) :
       els[i][1] = k /\ new[j] = els[i]
InsertAll(v, w) ==
  LET new == tables'[v]  old == tables[v]  els == tables[w]
  IN  /\ Merged(new, old, els)
      /\ tables' = [tables EXCEPT ![v] = new]

Next ==
  \E v \in Table :
    \/ \E el \in Elem : Insert(v, el) \/ InsertMulti(v, el)
                          \/ Remove(v, el[1]) \/ RemoveMulti(v, el[1])
    \/ Empty(v)
    \/ \E w \in Table : Copy(v, w) \/ Transfer(v, w) \/ InsertAll(v, w)

Init == tables = [v \in Table |-> <<>>]
Spec == Init /\ [][Next]_tables
=============================================================================
