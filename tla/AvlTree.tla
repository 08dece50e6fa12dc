------------------------------- MODULE AvlTree -------------------------------
(***************************************************************************)
(* The AVL trees of aapl/avlcommon.h, as functions from a tree to a tree.  *)
(* Element and key are one: a positive number.  A tree carries both what   *)
(* the WALKABLE variants keep to walk it, a list through the elements, and *)
(* what the others keep, the pointers head and tail.                       *)
(***************************************************************************)
EXTENDS Integers, Sequences

CONSTANT Key
Null == 0
Link == Key \cup {Null}

ASSUME AvlKeys == Key \subseteq Nat \ {Null}

NoPtrs == [e \in Key |-> Null]

----------------------------------------------------------------------------
(* The list, DList of aapl/dlcommon.h.                                     *)

EmptyList == [head |-> Null, tail |-> Null, next |-> NoPtrs, prev |-> NoPtrs, len |-> 0]

AddAfter(l, prev, el) ==
  LET after == IF prev = Null THEN l.head ELSE l.next[prev] IN
  [head |-> IF prev = Null THEN el ELSE l.head,
   tail |-> IF after = Null THEN el ELSE l.tail,
   next |-> [e \in Key |-> CASE e = el -> after [] e = prev -> el [] OTHER -> l.next[e]],
   prev |-> [e \in Key |-> CASE e = el -> prev [] e = after -> el [] OTHER -> l.prev[e]],
   len  |-> l.len + 1]

AddBefore(l, next, el) ==
  LET before == IF next = Null THEN l.tail ELSE l.prev[next] IN
  [head |-> IF before = Null THEN el ELSE l.head,
   tail |-> IF next = Null THEN el ELSE l.tail,
   next |-> [e \in Key |-> CASE e = el -> next [] e = before -> el [] OTHER -> l.next[e]],
   prev |-> [e \in Key |-> CASE e = el -> before [] e = next -> el [] OTHER -> l.prev[e]],
   len  |-> l.len + 1]

\* The element's own pointers go with it.
ListDetach(l, el) ==
  LET n == l.next[el]  p == l.prev[el] IN
  [head |-> IF p = Null THEN n ELSE l.head,
   tail |-> IF n = Null THEN p ELSE l.tail,
   next |-> [e \in Key |-> CASE e = el -> Null [] e = p -> n [] OTHER -> l.next[e]],
   prev |-> [e \in Key |-> CASE e = el -> Null [] e = n -> p [] OTHER -> l.prev[e]],
   len  |-> l.len - 1]

----------------------------------------------------------------------------
(* The tree.                                                               *)

List == [head : Link, tail : Link, next : [Key -> Link], prev : [Key -> Link], len : Int]
Tree == [root : Link, left : [Key -> Link], right : [Key -> Link], parent : [Key -> Link],
         height : [Key -> Nat], head : Link, tail : Link, size : Int, list : List]

EmptyTree == [root |-> Null, left |-> NoPtrs, right |-> NoPtrs, parent |-> NoPtrs,
              height |-> [e \in Key |-> 0], head |-> Null, tail |-> Null,
              size |-> 0, list |-> EmptyList]

Height(t, e) == IF e = Null THEN 0 ELSE t.height[e]
Lean(t, e)   == Height(t, t.right[e]) - Height(t, t.left[e])
Above(a, b)  == (IF a > b THEN a ELSE b) + 1
NewHeight(t, e) == Above(Height(t, t.left[e]), Height(t, t.right[e]))

\* Up from e while heights change.
RecalcHeights(t, e) ==
  LET up[u \in Tree, x \in Link] ==
        IF x = Null THEN u
        ELSE IF NewHeight(u, x) = u.height[x] THEN u
        ELSE up[[u EXCEPT !.height[x] = NewHeight(u, x)], u.parent[x]]
  IN  up[t, e]

Unbalanced(t, e) == Lean(t, e) \notin -1 .. 1

FindFirstUnbalEl(t, e) ==
  LET up[x \in Link] == IF x = Null THEN Null
                        ELSE IF Unbalanced(t, x) THEN x ELSE up[t.parent[x]]
  IN  up[e]

\* The first element up from e whose grandparent is unbalanced.
FindFirstUnbalGP(t, e) ==
  LET up[x \in Link] ==
        IF x = Null \/ t.parent[x] = Null THEN Null
        ELSE LET gp == t.parent[t.parent[x]] IN
             IF gp = Null THEN Null ELSE IF Unbalanced(t, gp) THEN x ELSE up[t.parent[x]]
  IN  up[e]

\* n, its parent and its grandparent are turned into b over a and c, with the
\* four subtrees below them kept in order.
Rebalance(t, n) ==
  LET p   == t.parent[n]
      gp  == t.parent[p]
      ggp == t.parent[gp]
      pOnRight == t.right[gp] = p
      nOnRight == t.right[p] = n
      abc == CASE pOnRight /\ nOnRight   -> <<gp, p, n>>
               [] pOnRight /\ ~nOnRight  -> <<gp, n, p>>
               [] ~pOnRight /\ nOnRight  -> <<p, n, gp>>
               [] ~pOnRight /\ ~nOnRight -> <<n, p, gp>>
      sub == CASE pOnRight /\ nOnRight   -> <<t.left[gp], t.left[p], t.left[n], t.right[n]>>
               [] pOnRight /\ ~nOnRight  -> <<t.left[gp], t.left[n], t.right[n], t.right[p]>>
               [] ~pOnRight /\ nOnRight  -> <<t.left[p], t.left[n], t.right[n], t.right[gp]>>
               [] ~pOnRight /\ ~nOnRight -> <<t.left[n], t.right[n], t.right[p], t.right[gp]>>
      a == abc[1]  b == abc[2]  c == abc[3]
      ha == Above(Height(t, sub[1]), Height(t, sub[2]))
      hc == Above(Height(t, sub[3]), Height(t, sub[4]))
      tied ==
        [t EXCEPT
          !.root   = IF ggp = Null THEN b ELSE @,
          !.left   = [e \in Key |-> CASE e = a -> sub[1] [] e = c -> sub[3] [] e = b -> a
                                      [] e = ggp /\ t.left[ggp] = gp -> b
                                      [] OTHER -> t.left[e]],
          !.right  = [e \in Key |-> CASE e = a -> sub[2] [] e = c -> sub[4] [] e = b -> c
                                      [] e = ggp /\ t.left[ggp] # gp -> b
                                      [] OTHER -> t.right[e]],
          !.parent = [e \in Key |-> CASE e = b -> ggp [] e \in {a, c} -> b
                                      [] e \in {sub[1], sub[2]} -> a
                                      [] e \in {sub[3], sub[4]} -> c
                                      [] OTHER -> t.parent[e]],
          !.height = [e \in Key |-> CASE e = a -> ha [] e = c -> hc
                                      [] e = b -> Above(ha, hc)
                                      [] OTHER -> t.height[e]]]
  IN  [tree |-> RecalcHeights(tied, ggp), from |-> ggp]

----------------------------------------------------------------------------
(* Insertion.                                                              *)

AvlFind(t, k) ==
  LET find[cur \in Link] == IF cur = Null THEN Null
                            ELSE IF k < cur THEN find[t.left[cur]]
                            ELSE IF k > cur THEN find[t.right[cur]]
                            ELSE cur
  IN  find[t.root]

\* Where a new key goes: its parent, and the last element it was less than.
Place(t, k) ==
  LET down[cur, parent, lastLess \in Link] ==
        IF cur = Null THEN [parent |-> parent, lastLess |-> lastLess]
        ELSE IF k < cur THEN down[t.left[cur], cur, cur]
        ELSE down[t.right[cur], cur, lastLess]
  IN  down[t.root, Null, Null]

AttachRebal(t, el, parent, lastLess) ==
  LET onLeft == parent # Null /\ lastLess = parent
      leaf == [t EXCEPT !.size = @ + 1,
                        !.root = IF parent = Null THEN el ELSE @,
                        !.parent[el] = parent, !.height[el] = 1,
                        !.left  = [e \in Key |-> IF e = el THEN Null
                                     ELSE IF e = parent /\ onLeft THEN el ELSE @[e]],
                        !.right = [e \in Key |-> IF e = el THEN Null
                                     ELSE IF e = parent /\ ~onLeft THEN el ELSE @[e]]]
      put  == [leaf EXCEPT
                !.list = IF parent = Null THEN AddAfter(@, @.tail, el)
                         ELSE IF onLeft THEN AddBefore(@, parent, el)
                         ELSE AddAfter(@, parent, el),
                !.head = IF parent = Null \/ leaf.left[@] = el THEN el ELSE @,
                !.tail = IF parent = Null \/ leaf.right[@] = el THEN el ELSE @]
      up   == RecalcHeights(put, parent)
      ub   == FindFirstUnbalGP(up, el)
  IN  IF ub = Null THEN up ELSE Rebalance(up, ub).tree

\* Nothing happens when the key is there.
AvlInsert(t, k) ==
  IF AvlFind(t, k) # Null THEN t
  ELSE LET at == Place(t, k) IN AttachRebal(t, k, at.parent, at.lastLess)

----------------------------------------------------------------------------
(* Removal.                                                                *)

\* The last element from e on along the pointers of side.
Farthest(side, e) ==
  LET go[x \in Key] == IF side[x] = Null THEN x ELSE go[side[x]] IN go[e]
Leftmost(t, e)  == Farthest(t.left, e)
Rightmost(t, e) == Farthest(t.right, e)

\* new takes the place of old below old's parent.
Below(t, old, new) ==
  LET p == t.parent[old] IN
  [t EXCEPT !.root  = IF p = Null THEN new ELSE @,
            !.left  = [e \in Key |-> IF e = p /\ t.left[p] = old THEN new ELSE @[e]],
            !.right = [e \in Key |-> IF e = p /\ t.left[p] # old THEN new ELSE @[e]],
            !.parent = [e \in Key |-> IF e = new THEN p ELSE @[e]]]

RemoveEl(t, el, filler) == Below(t, el, filler)

ReplaceEl(t, el, new) ==
  LET tied == [t EXCEPT !.left[new] = t.left[el], !.right[new] = t.right[el],
                        !.height[new] = t.height[el],
                        !.parent = [e \in Key |-> IF e \in {t.left[el], t.right[el]}
                                                  THEN new ELSE @[e]]]
  IN  Below(tied, el, new)

\* The element two levels down from ub on its high side; where the two below
\* its child are equally high, on the same side again.
TwoDown(t, ub) ==
  IF Lean(t, ub) > 0
  THEN LET c == t.right[ub] IN IF Lean(t, c) >= 0 THEN t.right[c] ELSE t.left[c]
  ELSE LET c == t.left[ub]  IN IF Lean(t, c) > 0  THEN t.right[c] ELSE t.left[c]

\* A bug: one rotation, as after an insertion.
FixOnce(t, from) ==
  LET ub == FindFirstUnbalEl(t, from)
  IN  IF ub = Null THEN t ELSE Rebalance(t, TwoDown(t, ub)).tree

\* Every unbalanced element going up.
FixUp(t, from) ==
  LET fix[u \in Tree, x \in Link] ==
        LET ub == FindFirstUnbalEl(u, x)
            r  == Rebalance(u, TwoDown(u, ub))
        IN  IF ub = Null THEN u ELSE fix[r.tree, r.from]
  IN  fix[t, from]

\* What takes the element's place, and where to start fixing heights.
Replacement(t, el) ==
  CASE t.right[el] # Null -> Leftmost(t, t.right[el])
    [] t.right[el] = Null /\ t.left[el] # Null -> Rightmost(t, t.left[el])
    [] OTHER -> Null

FixFrom(t, el, new) ==
  IF new = Null THEN t.parent[el]
  ELSE IF t.parent[new] = el THEN new ELSE t.parent[new]

\* A bug: the last element of a leaf is not moved to its parent.
EndsHeadOnly(t, el, new) ==
  [t EXCEPT !.head = IF el = @ THEN IF new # Null THEN new ELSE t.parent[el] ELSE @,
            !.tail = IF el = @ /\ new # Null THEN new ELSE @]

\* head and tail: an element with children on one side only is an end of the
\* tree on the other.
Ends(t, el, new) ==
  [t EXCEPT
    !.head = IF el # @ THEN @ ELSE IF t.right[el] # Null THEN new
             ELSE IF t.left[el] # Null THEN @ ELSE t.parent[el],
    !.tail = IF el # @ THEN @ ELSE IF t.right[el] # Null THEN @
             ELSE IF t.left[el] # Null THEN new ELSE t.parent[el]]

AvlDetach(t, el) ==
  LET new  == Replacement(t, el)
      from == FixFrom(t, el, new)
      off  == [Ends(t, el, new) EXCEPT !.list = ListDetach(@, el), !.size = @ - 1]
      out  == IF new = Null THEN RemoveEl(off, el, Null)
              ELSE ReplaceEl(RemoveEl(off, new, IF t.right[el] # Null THEN t.right[new]
                                                ELSE t.left[new]), el, new)
      gone == [out EXCEPT !.left[el] = Null, !.right[el] = Null, !.parent[el] = Null,
                          !.height[el] = 0]
  IN  FixUp(RecalcHeights(gone, from), from)

AvlRemove(t, k) == IF AvlFind(t, k) = Null THEN t ELSE AvlDetach(t, k)

----------------------------------------------------------------------------
(* Whole trees.                                                            *)

\* The elements a branch has, in order.
InOrder(t, e) ==
  LET branch[x \in Link] ==
        IF x = Null THEN <<>> ELSE branch[t.left[x]] \o <<x>> \o branch[t.right[x]]
  IN  branch[e]

\* empty leaves head and tail where they are; the list it does reset.
AvlEmpty(t) ==
  IF t.root = Null THEN t ELSE [EmptyTree EXCEPT !.head = t.head, !.tail = t.tail]

AvlAbandon(t) == [EmptyTree EXCEPT !.head = t.head, !.tail = t.tail]

\* copyBranch makes new elements and adds each to the list between its two
\* subtrees; the first is the head, the last the tail.
CopyEnds(t, src) ==
  LET branch[u \in Tree, e \in Link] ==
        LET l == branch[u, src.left[e]]
            m == [l EXCEPT !.list = AddAfter(@, @.tail, e),
                           !.head = IF @ = Null THEN e ELSE @, !.tail = e]
        IN  IF e = Null THEN u ELSE branch[m, src.right[e]]
  IN  branch[t, src.root]

AvlCopy(src) ==
  CopyEnds([src EXCEPT !.list = EmptyList, !.head = Null, !.tail = Null], src)

----------------------------------------------------------------------------
(* The iterator.                                                           *)

\* Up to the first ancestor not reached from the side link.
UpFrom(t, e, link) ==
  LET up[x \in Key] == LET p == t.parent[x] IN
                       IF p = Null \/ link[p] = x THEN p ELSE up[p]
  IN  up[e]

FindNext(t, e) ==
  IF t.right[e] # Null THEN Leftmost(t, t.right[e]) ELSE UpFrom(t, e, t.left)
FindPrev(t, e) ==
  IF t.left[e] # Null THEN Rightmost(t, t.left[e]) ELSE UpFrom(t, e, t.right)
=============================================================================
