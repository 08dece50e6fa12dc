---------------------------- MODULE MCContainers ----------------------------
(***************************************************************************)
(* Plans for Containers: any calls on small containers, and a few calls on *)
(* large ones.                                                             *)
(***************************************************************************)
EXTENDS Containers

\* The AVL tree of twelve elements that has as few as its height allows: most
\* removals unbalance it, some at two elements one above the other.
Sparse == <<8, 5, 11, 3, 7, 10, 12, 2, 4, 6, 9, 1>>
Ones(s) == [i \in DOMAIN s |-> <<s[i], 1>>]

Plan(kind, tabs, script, els, n, room) ==
  [kind |-> kind, tabs |-> tabs, script |-> script, els |-> els, calls |-> n,
   room |-> room]

Els(S) == {<<k, 1>> : k \in S}

\* Five elements of one key between two others: a table that grows past eight
\* cells and loses most of its elements at once.
Run == <<<<1, 1>>, <<3, 1>>>> \o [i \in 1 .. 5 |-> <<2, i>>]

PlansVal ==
  { Plan("avl", {1, 2}, <<>>, Els(1 .. 4), Unbounded, 3),
    Plan("avl", {1}, <<>>, Els(1 .. 6), Unbounded, 0),
    Plan("avl", {1}, Ones(Sparse), Els(1 .. 12), 3, 0),
    Plan("shared", {1, 2, 3}, <<>>, Els({1}), Unbounded, 1),
    Plan("shared", {1, 2}, <<>>, {<<1, 1>>, <<2, 1>>, <<2, 2>>}, Unbounded, 3),
    Plan("plain", {1, 2}, <<>>, {<<1, 1>>, <<2, 1>>, <<2, 2>>}, Unbounded, 3),
    Plan("shared", {1, 2}, Run, {<<1, 1>>, <<2, 1>>, <<3, 1>>}, 3, 8),
    Plan("plain", {1, 2}, Run, {<<1, 1>>, <<2, 1>>, <<3, 1>>}, 3, 8) }
=============================================================================
