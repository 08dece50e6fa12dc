------------------------------ MODULE Containers ------------------------------
(***************************************************************************)
(* Families of containers of aapl under any sequence of calls: AVL trees,  *)
(* tables that share their buffers (SBstMap, SBstSet, SBstTable), or       *)
(* tables that do not (BstMap, BstSet, BstTable).  A call is a step.       *)
(***************************************************************************)
EXTENDS AvlTree, SharedTable

CONSTANTS Plans,   \* records: kind of container, tabs used, script of elements
                   \* the first of them starts with, els used, and calls, a
                   \* bound on the calls after that, or Unbounded, and
                   \* room, a bound on the length of a table
          Unbounded

Elem == Key \X Nat

ASSUME RawNoElem == Raw \notin Elem
ASSUME PlansFit ==
  \A p \in Plans : /\ p.kind \in {"avl", "shared", "plain"}
                   /\ p.tabs \subseteq Table /\ p.tabs \subseteq Nat /\ p.tabs # {}
                   /\ p.script \in Seq(Elem) /\ p.els \subseteq Elem

VARIABLES plan,
          played,  \* elements of the script already inserted
          calls,   \* calls made after the script, if they are bounded
          trees, mem

vars == <<plan, played, calls, trees, mem>>

Init == /\ plan \in Plans
        /\ played = 0 /\ calls = 0
        /\ trees = [v \in Table |-> EmptyTree]
        /\ mem = NoTables

Playing == played < Len(plan.script)
Bounded == plan.calls # Unbounded

\* A call on one of the tables in use.
Call == /\ ~Playing
        /\ Bounded => calls < plan.calls
        /\ calls' = IF Bounded THEN calls + 1 ELSE calls
        /\ UNCHANGED <<plan, played>>

----------------------------------------------------------------------------
Avl(v, t) == trees' = [trees EXCEPT ![v] = t] /\ UNCHANGED mem

AvlCall ==
  /\ plan.kind = "avl" /\ Call
  /\ \E v \in plan.tabs :
       \/ \E el \in plan.els : \/ Avl(v, AvlInsert(trees[v], KeyOf(el)))
                               \/ Avl(v, AvlRemove(trees[v], KeyOf(el)))
       \/ Avl(v, AvlEmpty(trees[v]))
       \/ \E w \in plan.tabs \ {v} :
            \/ Avl(v, AvlCopy(trees[w]))
            \/ /\ trees' = [trees EXCEPT ![v] = trees[w], ![w] = AvlAbandon(@)]
               /\ UNCHANGED mem

Mem(m) == mem' = m /\ UNCHANGED trees
Roomy(v) == Length(mem, v) < plan.room

\* What both kinds of tables offer.
TableCall ==
  /\ plan.kind \in {"shared", "plain"} /\ Call
  /\ \E v \in plan.tabs :
       \/ \E el \in plan.els : \/ Roomy(v) /\ Mem(TableInsert(mem, v, el))
                               \/ Roomy(v) /\ Mem(TableInsertMulti(mem, v, el))
                               \/ Mem(TableRemove(mem, v, KeyOf(el)))
                               \/ Mem(TableRemoveMulti(mem, v, KeyOf(el)))
       \/ Mem(TableEmpty(mem, v))
       \/ \E w \in plan.tabs \ {v} :
            \/ Length(mem, v) + Length(mem, w) <= plan.room /\ Mem(TableInsertAll(mem, v, w))
            \/ Mem(SetAs(mem, v, Contents(mem, w)))

SharedCall ==
  /\ plan.kind = "shared" /\ Call
  /\ \E v, w \in plan.tabs : v # w /\ Mem(TableAssign(mem, v, w))

PlainCall ==
  /\ plan.kind = "plain" /\ Call
  /\ \E v, w \in plan.tabs :
       /\ v # w
       /\ \/ Mem(TableTransfer(mem, v, w))
          \/ mem.data[v] = None /\ Mem(TableDuplicate(mem, v, w))

\* The script fills the first table.
Play ==
  /\ Playing
  /\ played' = played + 1
  /\ LET v  == CHOOSE x \in plan.tabs : \A y \in plan.tabs : x <= y
         el == plan.script[played']
     IN  IF plan.kind = "avl" THEN Avl(v, AvlInsert(trees[v], KeyOf(el)))
         ELSE Mem(TableInsertMulti(mem, v, el))
  /\ UNCHANGED <<plan, calls>>

Next == Play \/ AvlCall \/ TableCall \/ SharedCall \/ PlainCall

Spec == Init /\ [][Next]_vars

----------------------------------------------------------------------------
(* What the containers promise.                                            *)

TreeEls(t) == LET s == InOrder(t, t.root) IN [i \in 1 .. Len(s) |-> <<s[i], 1>>]

Promise == INSTANCE OrderedTables WITH
  Elem   <- UNION {p.els \cup {p.script[i] : i \in DOMAIN p.script} : p \in Plans},
  tables <- [v \in Table |-> IF plan.kind = "avl" THEN TreeEls(trees[v])
                             ELSE Contents(mem, v)]

\* Every container behaves as a sequence sorted by key, and a call on one of
\* them shows in no other, however their buffers are shared: insert, remove,
\* the copying and the moving functions of avlcommon.h, bstcommon.h, svector.h
\* and vector.h.
AbstractSpec == Promise!Spec

\* After every call an AVL tree is balanced, its parent pointers and heights
\* are those of its shape, and its size is right: the rotations of rebalance,
\* and detach, which stops to recompute heights where one has not changed.
Balanced ==
  \A v \in Table :
    LET t == trees[v]
        within == {InOrder(t, t.root)[i] : i \in 1 .. Len(InOrder(t, t.root))}
    IN  /\ t.size = Len(InOrder(t, t.root))
        /\ t.root # Null => t.parent[t.root] = Null
        /\ \A e \in within :
             /\ t.height[e] = NewHeight(t, e) /\ ~Unbalanced(t, e)
             /\ \A c \in {t.left[e], t.right[e]} \ {Null} : t.parent[c] = e

\* From e with step to the end: the elements passed.
Walk(step, e, n) ==
  LET walk[x \in Link, left \in 0 .. n] ==
        IF x = Null THEN <<>> ELSE IF left = 0 THEN <<Raw>> ELSE <<x>> \o walk[step[x], left - 1]
  IN  walk[e, n]

\* Walking a tree gives its elements in order, and backward in the other, by
\* the list of the WALKABLE trees as well as by the search up and down from
\* head and tail of the others.  These two are right only while there are
\* elements: empty and abandon leave them as they were.
WalksInOrder ==
  \A v \in Table :
    LET t == trees[v]
        s == InOrder(t, t.root)
        r == [i \in 1 .. Len(s) |-> s[Len(s) + 1 - i]]
    IN  /\ Walk(t.list.next, t.list.head, t.size) = s
        /\ Walk(t.list.prev, t.list.tail, t.size) = r
        /\ t.list.len = t.size
        /\ t.root # Null =>
             /\ Walk([e \in Key |-> FindNext(t, e)], t.head, t.size) = s
             /\ Walk([e \in Key |-> FindPrev(t, e)], t.tail, t.size) = r

\* Every lookup finds its key where it is: AvlTree::find, and BstTable::find
\* and findMulti, which also give the place of a key that is missing and the
\* whole run of a key that is there several times.
TreeLookups ==
  \A v \in Table, k \in Key :
    LET t == trees[v]  s == InOrder(t, t.root)
    IN  AvlFind(t, k) = IF \E i \in 1 .. Len(s) : s[i] = k THEN k ELSE Null
TableLookups ==
  \A v \in Table, k \in Key :
    LET els  == Contents(mem, v)
        with == {i \in 1 .. Len(els) : KeyOf(els[i]) = k}
        s    == Search(els, k)
    IN  IF with = {}
        THEN ~s.found /\ s.at = Cardinality({i \in 1 .. Len(els) : KeyOf(els[i]) < k})
        ELSE /\ s.found /\ s.at + 1 \in with
             /\ LET m == FindMulti(els, k) IN m.low + 1 .. m.high + 1 = with
LookupsRight == TreeLookups /\ TableLookups

\* A buffer counts the tables that point to it and is freed with the last of
\* them; a table has no raw element, and none past its buffer.
RefsCounted ==
  /\ \A b \in Buf :
       /\ mem.buf[b].refCount = Cardinality({v \in Table : mem.data[v] = b})
       /\ mem.buf[b].refCount = 0 => mem.buf[b] = Free
       /\ plan.kind = "plain" => mem.buf[b].refCount <= 1
  /\ \A v \in Table : mem.data[v] # None =>
       /\ Length(mem, v) <= Alloc(Header(mem, v))
       /\ \A i \in 1 .. Length(mem, v) : Header(mem, v).cells[i] # Raw
=============================================================================
