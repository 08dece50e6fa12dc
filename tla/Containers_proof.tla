-------------------------- MODULE Containers_proof --------------------------
(***************************************************************************)
(* Theorems about the containers of aapl, for any keys, plans and number   *)
(* of tables.                                                              *)
(***************************************************************************)
EXTENDS Containers, Recursion, SequenceTheorems

(* Memory.                                                                 *)

Cell == Elem \cup {Raw}
Block == [refCount : Nat, len : Nat, cells : Seq(Cell)]
Pointing(m, b) == {v \in Table : m.data[v] = b}

\* What holds of the memory between two steps on it.
WellMem(m) ==
  /\ m \in [data : [Table -> Buf \cup {None}], buf : [Buf -> Block]]
  /\ \A b \in Buf : /\ m.buf[b].len <= Len(m.buf[b].cells)
                    /\ m.buf[b].refCount = Cardinality(Pointing(m, b))
                    /\ m.buf[b].refCount = 0 => m.buf[b] = Free

\* No buffer is shared.
Own(m) == \A b \in Buf : m.buf[b].refCount <= 1

\* From m to n, table v comes to hold s, and nothing shows in the others.
Becomes(m, n, v, s) ==
  /\ WellMem(n)
  /\ \A u \in Table : Contents(n, u) = IF u = v THEN s ELSE Contents(m, u)
  /\ Own(m) => Own(n)

LEMMA NoneNoBuf == None \notin Buf
BY BufNumbers DEF None

LEMMA MemTypes ==
  ASSUME NEW m, WellMem(m)
  PROVE  /\ m = [data |-> m.data, buf |-> m.buf]
         /\ m.data \in [Table -> Buf \cup {None}] /\ m.buf \in [Buf -> Block]
         /\ \A b \in Buf : /\ m.buf[b] = [refCount |-> m.buf[b].refCount, len |-> m.buf[b].len,
                                          cells |-> m.buf[b].cells]
                           /\ m.buf[b].refCount \in Nat /\ m.buf[b].len \in Nat
                           /\ m.buf[b].cells \in Seq(Cell)
<1>1. m \in [data : [Table -> Buf \cup {None}], buf : [Buf -> Block]]
  BY DEF WellMem
<1>2. \A b \in Buf : m.buf[b] \in Block
  BY <1>1
<1> QED BY <1>1, <1>2 DEF Block

LEMMA PointingFinite ==
  ASSUME NEW m, NEW b
  PROVE  IsFiniteSet(Pointing(m, b)) /\ Cardinality(Pointing(m, b)) \in Nat
<1>1. Pointing(m, b) \subseteq Table
  BY DEF Pointing
<1> QED BY <1>1, EnoughBufs, FS_Subset, FS_CardinalityType

\* A table's buffer is counted; with a count of one it is nobody else's.
LEMMA Counted ==
  ASSUME NEW m, WellMem(m), NEW v \in Table, m.data[v] # None
  PROVE  /\ m.data[v] \in Buf /\ m.buf[m.data[v]].refCount \in Nat \ {0}
         /\ m.buf[m.data[v]].refCount = 1
              => \A u \in Table \ {v} : m.data[u] # m.data[v]
<1> DEFINE b == m.data[v]
           P == Pointing(m, b)
<1>1. b \in Buf
  BY MemTypes
<1>2. m.buf[b].refCount = Cardinality(P) /\ m.buf[b].refCount \in Nat
  BY <1>1, MemTypes DEF WellMem
<1>3. v \in P /\ IsFiniteSet(P)
  BY PointingFinite DEF Pointing
<1>4. Cardinality(P) # 0
  BY <1>3, FS_EmptySet
<1>5. ASSUME Cardinality(P) = 1, NEW u \in Table \ {v} PROVE m.data[u] # b
  <2> SUFFICES ASSUME u \in P PROVE FALSE
    BY DEF Pointing
  <2>1. IsFiniteSet(P \ {v}) /\ Cardinality(P \ {v}) = 0
    BY <1>3, <1>5, FS_RemoveElement
  <2> QED BY <2>1, FS_EmptySet
<1> QED BY <1>1, <1>2, <1>4, <1>5

\* There is a free buffer, and NewBuf finds it.
LEMMA NewBufFree ==
  ASSUME NEW m, WellMem(m)
  PROVE  /\ NewBuf(m) \in Buf /\ m.buf[NewBuf(m)].refCount = 0
         /\ \A v \in Table : m.data[v] # NewBuf(m)
<1> DEFINE F == {b \in Buf : m.buf[b].refCount = 0}
<1>1. F # {}
  <2> SUFFICES ASSUME F = {} PROVE FALSE
    OBVIOUS
  <2>1. ASSUME NEW b \in Buf PROVE \E v \in Table : m.data[v] = b
    <3>1. m.buf[b].refCount = Cardinality(Pointing(m, b)) /\ m.buf[b].refCount # 0
      BY DEF WellMem
    <3>2. Pointing(m, b) # {}
      BY <3>1, FS_EmptySet
    <3> QED BY <3>2 DEF Pointing
  <2> DEFINE T == {v \in Table : m.data[v] # None}
             f == [v \in T |-> m.data[v]]
  <2>2. IsFiniteSet(T) /\ Cardinality(T) <= Cardinality(Table)
    BY EnoughBufs, FS_Subset
  <2>3. f \in Surjection(T, Buf)
    <3>1. f \in [T -> Buf]
      BY MemTypes
    <3>2. \A b \in Buf : \E v \in T : f[v] = b
      BY <2>1, NoneNoBuf
    <3> QED BY <3>1, <3>2 DEF Surjection
  <2>4. Cardinality(Buf) <= Cardinality(T)
    <3> HIDE DEF f, T
    <3> QED BY <2>2, <2>3, FS_Surjection
  <2>5. Cardinality(Table) \in Nat /\ Cardinality(T) \in Nat /\ Cardinality(Buf) \in Nat
    BY EnoughBufs, <2>2, FS_CardinalityType
  <2> QED BY <2>2, <2>4, <2>5, EnoughBufs
<1>2. F \in SUBSET Nat
  BY BufNumbers
<1>3. PICK x \in F : \A y \in F : x <= y
  BY <1>1, <1>2, SmallestNumber
<1>4. NewBuf(m) \in Buf /\ m.buf[NewBuf(m)].refCount = 0
  BY <1>3 DEF NewBuf
<1>5. ASSUME NEW v \in Table PROVE m.data[v] # NewBuf(m)
  <2> SUFFICES ASSUME m.data[v] = NewBuf(m) PROVE FALSE
    OBVIOUS
  <2>1. m.data[v] # None
    BY <1>4, NoneNoBuf
  <2> QED BY <2>1, <1>4, Counted
<1> QED BY <1>4, <1>5

\* What a table holds.
LEMMA ContentsType ==
  ASSUME NEW m, WellMem(m), NEW v \in Table
  PROVE  /\ Contents(m, v) \in Seq(Cell)
         /\ Length(m, v) = Len(Contents(m, v))
         /\ m.data[v] # None =>
              /\ Len(Contents(m, v)) = m.buf[m.data[v]].len
              /\ m.buf[m.data[v]].len <= Len(m.buf[m.data[v]].cells)
              /\ Contents(m, v) = SubSeq(m.buf[m.data[v]].cells, 1, m.buf[m.data[v]].len)
              /\ \A i \in 1 .. m.buf[m.data[v]].len :
                   Contents(m, v)[i] = m.buf[m.data[v]].cells[i]
<1>1. CASE m.data[v] = None
  BY <1>1 DEF Contents, Length
<1>2. CASE m.data[v] # None
  <2> DEFINE h == m.buf[m.data[v]]
  <2>1. m.data[v] \in Buf
    BY <1>2, MemTypes
  <2>2. h.cells \in Seq(Cell) /\ h.len \in Nat /\ h.len <= Len(h.cells)
    BY <2>1, MemTypes DEF WellMem
  <2>3. Contents(m, v) = SubSeq(h.cells, 1, h.len) /\ Length(m, v) = h.len
    BY <1>2 DEF Contents, Length, Header
  <2> HIDE DEF h
  <2>4. /\ SubSeq(h.cells, 1, h.len) \in Seq(Cell)
        /\ Len(SubSeq(h.cells, 1, h.len)) = h.len
        /\ \A i \in 1 .. h.len : SubSeq(h.cells, 1, h.len)[i] = h.cells[i]
    BY <2>2
  <2> QED BY <2>2, <2>3, <2>4 DEF h
<1> QED BY <1>1, <1>2

LEMMA SameContents ==
  ASSUME NEW m, NEW n, NEW u, n.data[u] = m.data[u],
         m.data[u] # None => /\ n.buf[m.data[u]].len = m.buf[m.data[u]].len
                             /\ n.buf[m.data[u]].cells = m.buf[m.data[u]].cells
  PROVE  Contents(n, u) = Contents(m, u)
BY DEF Contents, Header

----------------------------------------------------------------------------
(* The buffers.                                                            *)

\* Who points to b once v points to c.
LEMMA Redirected ==
  ASSUME NEW m, WellMem(m), NEW v \in Table, NEW c, NEW n,
         n.data = [m.data EXCEPT ![v] = c], NEW b \in Buf
  PROVE  /\ b = c /\ b = m.data[v] => Pointing(n, b) = Pointing(m, b)
         /\ b # c /\ b # m.data[v] => Pointing(n, b) = Pointing(m, b)
         /\ b = c /\ b # m.data[v]
              => Cardinality(Pointing(n, b)) = Cardinality(Pointing(m, b)) + 1
         /\ b # c /\ b = m.data[v]
              => Cardinality(Pointing(n, b)) = Cardinality(Pointing(m, b)) - 1
<1>1. n.data[v] = c /\ \A u \in Table \ {v} : n.data[u] = m.data[u]
  BY MemTypes
<1>2. b = c /\ b # m.data[v] =>
        v \notin Pointing(m, b) /\ Pointing(n, b) = Pointing(m, b) \cup {v}
  BY <1>1 DEF Pointing
<1>3. b # c /\ b = m.data[v] =>
        v \in Pointing(m, b) /\ Pointing(n, b) = Pointing(m, b) \ {v}
  BY <1>1 DEF Pointing
<1>4. (b = c /\ b = m.data[v]) \/ (b # c /\ b # m.data[v]) => Pointing(n, b) = Pointing(m, b)
  BY <1>1 DEF Pointing
<1>5. b = c /\ b # m.data[v]
        => Cardinality(Pointing(n, b)) = Cardinality(Pointing(m, b)) + 1
  BY <1>2, PointingFinite, FS_AddElement
<1>6. b # c /\ b = m.data[v]
        => Cardinality(Pointing(n, b)) = Cardinality(Pointing(m, b)) - 1
  BY <1>3, PointingFinite, FS_RemoveElement
<1> QED BY <1>4, <1>5, <1>6

\* What a table is left with when it lets go of its buffer.
LEMMA LetGo ==
  ASSUME NEW m, WellMem(m), NEW v \in Table
  PROVE  /\ Becomes(m, TableEmpty(m, v), v, <<>>)
         /\ TableEmpty(m, v).data = [m.data EXCEPT ![v] = None]
<1> DEFINE n == TableEmpty(m, v)
           rest == [b \in Buf |-> IF b # m.data[v] THEN m.buf[b]
                                  ELSE IF m.buf[b].refCount = 1 THEN Free
                                  ELSE [m.buf[b] EXCEPT !.refCount = @ - 1]]
<1>1. n = [data |-> [m.data EXCEPT ![v] = None], buf |-> rest]
  BY DEF TableEmpty
<1>2. /\ n.data = [m.data EXCEPT ![v] = None] /\ n.data \in [Table -> Buf \cup {None}]
      /\ n.data[v] = None /\ \A u \in Table \ {v} : n.data[u] = m.data[u]
  BY <1>1, MemTypes
<1>3. Free \in Block /\ Free.refCount = 0 /\ Free.len = 0 /\ Len(Free.cells) = 0
  BY DEF Free, Block
<1>4. ASSUME NEW b \in Buf, b # m.data[v]
      PROVE  n.buf[b] = m.buf[b] /\ Pointing(n, b) = Pointing(m, b)
  <2>1. n.buf[b] = m.buf[b]
    BY <1>1, <1>4
  <2>2. b # None
    BY NoneNoBuf
  <2> QED BY <2>1, <2>2, <1>2, <1>4, Redirected
<1>5. ASSUME NEW b \in Buf, b = m.data[v]
      PROVE  /\ Cardinality(Pointing(n, b)) = m.buf[b].refCount - 1
             /\ m.buf[b].refCount \in Nat \ {0}
             /\ m.buf[b].refCount = 1 => n.buf[b] = Free
             /\ m.buf[b].refCount # 1
                  => n.buf[b] = [refCount |-> m.buf[b].refCount - 1, len |-> m.buf[b].len,
                                 cells |-> m.buf[b].cells]
  <2>1. b # None
    BY NoneNoBuf
  <2>2. Cardinality(Pointing(n, b)) = Cardinality(Pointing(m, b)) - 1
    BY <2>1, <1>2, <1>5, Redirected
  <2>3. m.buf[b].refCount = Cardinality(Pointing(m, b))
    BY DEF WellMem
  <2>4. m.buf[b].refCount \in Nat \ {0}
    BY <2>1, <1>5, Counted
  <2>5. m.buf[b] = [refCount |-> m.buf[b].refCount, len |-> m.buf[b].len,
                    cells |-> m.buf[b].cells]
    BY MemTypes
  <2> DEFINE h == m.buf[b]
  <2>6. n.buf[b] = IF h.refCount = 1 THEN Free ELSE [h EXCEPT !.refCount = @ - 1]
    BY <1>1, <1>5
  <2> HIDE DEF h
  <2>7. h = [refCount |-> h.refCount, len |-> h.len, cells |-> h.cells]
    BY <2>5 DEF h
  <2>8. [h EXCEPT !.refCount = @ - 1]
          = [refCount |-> h.refCount - 1, len |-> h.len, cells |-> h.cells]
    BY <2>7
  <2> QED BY <2>2, <2>3, <2>4, <2>6, <2>8 DEF h
<1> HIDE DEF n
<1>6. ASSUME NEW b \in Buf
      PROVE  /\ n.buf[b] \in Block /\ n.buf[b].len <= Len(n.buf[b].cells)
             /\ n.buf[b].refCount = Cardinality(Pointing(n, b))
             /\ n.buf[b].refCount = 0 => n.buf[b] = Free
             /\ n.buf[b].refCount <= m.buf[b].refCount
  <2>1. m.buf[b] \in Block /\ m.buf[b].len <= Len(m.buf[b].cells) /\ m.buf[b].refCount \in Nat
    BY MemTypes DEF WellMem
  <2>2. CASE b # m.data[v]
    <3>1. n.buf[b] = m.buf[b] /\ Pointing(n, b) = Pointing(m, b)
      BY <2>2, <1>4
    <3>2. m.buf[b].refCount = Cardinality(Pointing(m, b))
          /\ (m.buf[b].refCount = 0 => m.buf[b] = Free)
      BY DEF WellMem
    <3> QED BY <2>1, <3>1, <3>2
  <2>3. CASE b = m.data[v] /\ m.buf[b].refCount = 1
    <3>1. n.buf[b] = Free /\ Cardinality(Pointing(n, b)) = m.buf[b].refCount - 1
      BY <2>3, <1>5
    <3>2. Cardinality(Pointing(n, b)) = 0
      BY <2>3, <3>1
    <3> QED BY <3>1, <3>2, <2>1, <2>3, <1>3
  <2>4. CASE b = m.data[v] /\ m.buf[b].refCount # 1
    <3> DEFINE r == m.buf[b].refCount - 1
    <3>1. n.buf[b] = [refCount |-> r, len |-> m.buf[b].len, cells |-> m.buf[b].cells]
      BY <2>4, <1>5
    <3>2. r \in Nat \ {0} /\ Cardinality(Pointing(n, b)) = r /\ r <= m.buf[b].refCount
      <4>1. m.buf[b].refCount \in Nat \ {0} /\ Cardinality(Pointing(n, b)) = r
        BY <2>4, <1>5
      <4>2. \A x \in Nat \ {0} : x # 1 => x - 1 \in Nat \ {0} /\ x - 1 <= x
        OBVIOUS
      <4> QED BY <2>4, <4>1, <4>2
    <3> HIDE DEF r
    <3>3. n.buf[b].refCount = r /\ n.buf[b].len = m.buf[b].len /\ n.buf[b].cells = m.buf[b].cells
      BY <3>1
    <3>4. n.buf[b] \in Block
      BY <3>1, <3>2, <2>1 DEF Block
    <3> QED BY <3>2, <3>3, <3>4, <2>1
  <2> QED BY <2>2, <2>3, <2>4
<1>7. WellMem(n)
  <2>1. n.buf \in [Buf -> Block]
    <3>1. n.buf = rest
      BY <1>1 DEF n
    <3>2. \A b \in Buf : rest[b] \in Block
      BY <1>6, <3>1
    <3> QED BY <3>1, <3>2
  <2>2. n \in [data : [Table -> Buf \cup {None}], buf : [Buf -> Block]]
    BY <1>1, <1>2, <2>1 DEF n
  <2> QED BY <2>2, <1>6 DEF WellMem
<1>8. ASSUME NEW u \in Table PROVE Contents(n, u) = IF u = v THEN <<>> ELSE Contents(m, u)
  <2>1. CASE u = v
    BY <2>1, <1>2 DEF Contents
  <2>2. CASE u # v /\ m.data[u] = None
    BY <2>2, <1>2 DEF Contents
  <2>3. CASE u # v /\ m.data[u] # None
    <3> DEFINE b == m.data[u]
    <3>1. b \in Buf
      BY <2>3, MemTypes
    <3>2. n.buf[b].len = m.buf[b].len /\ n.buf[b].cells = m.buf[b].cells
      <4>1. CASE b # m.data[v]
        BY <3>1, <4>1, <1>4
      <4>2. CASE b = m.data[v]
        <5>1. m.data[v] # None
          BY <4>2, <3>1, NoneNoBuf
        <5>2. m.buf[b].refCount # 1
          BY <4>2, <2>3, <5>1, Counted
        <5>3. n.buf[b] = [refCount |-> m.buf[b].refCount - 1, len |-> m.buf[b].len,
                          cells |-> m.buf[b].cells]
          BY <5>2, <4>2, <3>1, <1>5
        <5> QED BY <5>3
      <4> QED BY <4>1, <4>2
    <3> QED BY <3>2, <1>2, <2>3, SameContents
  <2> QED BY <2>1, <2>2, <2>3
<1>9. Own(m) => Own(n)
  <2>1. \A b \in Buf : n.buf[b].refCount \in Nat /\ m.buf[b].refCount \in Nat
    BY <1>7, MemTypes
  <2> QED BY <1>6, <2>1 DEF Own
<1> QED BY <1>2, <1>7, <1>8, <1>9 DEF Becomes, n

LEMMA LeftEmpty ==
  ASSUME NEW m, WellMem(m), NEW v \in Table
  PROVE  /\ Becomes(m, TableEmpty(m, v), v, <<>>) /\ WellMem(TableEmpty(m, v))
         /\ TableEmpty(m, v).data[v] = None
         /\ \A u \in Table \ {v} : TableEmpty(m, v).data[u] = m.data[u]
<1> DEFINE e == TableEmpty(m, v)
<1>1. Becomes(m, e, v, <<>>) /\ e.data = [m.data EXCEPT ![v] = None]
  BY LetGo
<1> HIDE DEF e
<1>2. e.data[v] = None /\ \A u \in Table \ {v} : e.data[u] = m.data[u]
  BY <1>1, MemTypes
<1> QED BY <1>1, <1>2 DEF Becomes, e

\* An empty table gets els in a new buffer of at least as many cells.
Fresh(m, v, n, els) ==
  [data |-> [m.data EXCEPT ![v] = NewBuf(m)],
   buf  |-> [m.buf EXCEPT ![NewBuf(m)] = [refCount |-> 1, len |-> Len(els),
                                          cells |-> Realloc(els, n)]]]

LEMMA ReallocFacts ==
  ASSUME NEW cells \in Seq(Cell), NEW n \in Nat
  PROVE  /\ Realloc(cells, n) \in Seq(Cell) /\ Len(Realloc(cells, n)) = n
         /\ \A i \in 1 .. n : i <= Len(cells) => Realloc(cells, n)[i] = cells[i]
<1> DEFINE c == Realloc(cells, n)
<1>1. c = [i \in 1 .. n |-> IF i <= Len(cells) THEN cells[i] ELSE Raw]
  BY DEF Realloc
<1>2. \A i \in 1 .. n : (IF i <= Len(cells) THEN cells[i] ELSE Raw) \in Cell
  BY DEF Cell
<1>3. c \in [1 .. n -> Cell]
  BY <1>1, <1>2
<1>4. c \in Seq(Cell) /\ Len(c) = n
  BY <1>3, IsASeq
<1> QED BY <1>1, <1>4

LEMMA FreshFills ==
  ASSUME NEW m, WellMem(m), NEW v \in Table, m.data[v] = None,
         NEW els \in Seq(Cell), NEW size \in Nat, Len(els) <= size
  PROVE  /\ Becomes(m, Fresh(m, v, size, els), v, els)
         /\ Fresh(m, v, size, els).data[v] # None
         /\ Fresh(m, v, size, els).buf[Fresh(m, v, size, els).data[v]].refCount = 1
<1> DEFINE b == NewBuf(m)
           h == [refCount |-> 1, len |-> Len(els), cells |-> Realloc(els, size)]
           n == Fresh(m, v, size, els)
<1>1. b \in Buf /\ m.buf[b].refCount = 0 /\ (\A u \in Table : m.data[u] # b) /\ b # None
  BY NewBufFree, NoneNoBuf
<1>2. h \in Block /\ h.refCount = 1 /\ h.len = Len(els) /\ h.cells = Realloc(els, size)
  BY ReallocFacts DEF Block
<1>3. h.len <= Len(h.cells)
  BY <1>2, ReallocFacts
<1>4. n = [data |-> [m.data EXCEPT ![v] = b], buf |-> [m.buf EXCEPT ![b] = h]]
  BY DEF Fresh
<1> HIDE DEF b, h, n
<1>5. /\ n.data = [m.data EXCEPT ![v] = b] /\ n.data \in [Table -> Buf \cup {None}]
      /\ n.data[v] = b /\ \A u \in Table \ {v} : n.data[u] = m.data[u]
  BY <1>1, <1>4, MemTypes
<1>6. n.buf[b] = h /\ n.buf \in [Buf -> Block] /\ \A c \in Buf \ {b} : n.buf[c] = m.buf[c]
  BY <1>1, <1>2, <1>4, MemTypes
<1>7. Cardinality(Pointing(n, b)) = 1
  <2>1. Cardinality(Pointing(n, b)) = Cardinality(Pointing(m, b)) + 1
    <3>1. b # m.data[v] /\ n.data = [m.data EXCEPT ![v] = b]
      BY <1>1, <1>5
    <3> QED BY <3>1, <1>1, Redirected
  <2>2. Pointing(m, b) = {}
    BY <1>1 DEF Pointing
  <2> QED BY <2>1, <2>2, FS_EmptySet
<1>8. \A c \in Buf \ {b} : Pointing(n, c) = Pointing(m, c)
  <2> TAKE c \in Buf \ {b}
  <2>1. c # m.data[v] /\ c # b /\ n.data = [m.data EXCEPT ![v] = b]
    BY NoneNoBuf, <1>5
  <2> QED BY <2>1, Redirected
<1>9. WellMem(n)
  <2>1. n \in [data : [Table -> Buf \cup {None}], buf : [Buf -> Block]]
    BY <1>4, <1>5, <1>6
  <2>2. ASSUME NEW c \in Buf
        PROVE  /\ n.buf[c].len <= Len(n.buf[c].cells)
               /\ n.buf[c].refCount = Cardinality(Pointing(n, c))
               /\ n.buf[c].refCount = 0 => n.buf[c] = Free
    <3>1. CASE c = b
      BY <3>1, <1>2, <1>3, <1>6, <1>7
    <3>2. CASE c # b
      BY <3>2, <1>6, <1>8 DEF WellMem
    <3> QED BY <3>1, <3>2
  <2> QED BY <2>1, <2>2 DEF WellMem
<1>10. Contents(n, v) = els
  <2>1. /\ Contents(n, v) \in Seq(Cell) /\ Len(Contents(n, v)) = Len(els)
        /\ \A i \in 1 .. Len(els) : Contents(n, v)[i] = h.cells[i]
    BY <1>1, <1>2, <1>5, <1>6, <1>9, ContentsType
  <2>2. \A i \in 1 .. Len(els) : h.cells[i] = els[i]
    BY <1>2, ReallocFacts
  <2> QED BY <2>1, <2>2, SeqEqual
<1>11. \A u \in Table \ {v} : Contents(n, u) = Contents(m, u)
  <2> TAKE u \in Table \ {v}
  <2>1. m.data[u] # None => m.data[u] \in Buf \ {b}
    BY <1>1, MemTypes
  <2>2. n.data[u] = m.data[u]
    BY <1>5
  <2>3. m.data[u] # None => n.buf[m.data[u]] = m.buf[m.data[u]]
    BY <2>1, <1>6
  <2> QED BY <2>2, <2>3 DEF Contents, Header
<1>12. Own(m) => Own(n)
  BY <1>2, <1>6 DEF Own
<1> QED BY <1>1, <1>2, <1>5, <1>6, <1>9, <1>10, <1>11, <1>12 DEF Becomes, n
\* A table changes the buffer that is its own.
LEMMA ChangedInPlace ==
  ASSUME NEW m, WellMem(m), NEW v \in Table, m.data[v] # None,
         m.buf[m.data[v]].refCount = 1,
         NEW cells \in Seq(Cell), NEW len \in Nat, len <= Len(cells),
         NEW n, n.data = m.data,
         n = [data |-> m.data,
              buf  |-> [m.buf EXCEPT ![m.data[v]] =
                          [refCount |-> 1, len |-> len, cells |-> cells]]]
  PROVE  /\ Becomes(m, n, v, SubSeq(cells, 1, len))
         /\ n.data[v] # None /\ n.buf[n.data[v]].refCount = 1
<1> DEFINE b == m.data[v]
           h == [refCount |-> 1, len |-> len, cells |-> cells]
<1>1. b \in Buf /\ (\A u \in Table \ {v} : m.data[u] # b)
  BY Counted
<1>2. h \in Block /\ h.refCount = 1 /\ h.len = len /\ h.cells = cells
  BY DEF Block
<1>3. n = [data |-> m.data, buf |-> [m.buf EXCEPT ![b] = h]]
  OBVIOUS
<1> HIDE DEF b, h
<1>4. n.buf[b] = h /\ n.buf \in [Buf -> Block] /\ \A c \in Buf \ {b} : n.buf[c] = m.buf[c]
  BY <1>1, <1>2, <1>3, MemTypes
<1>5. \A c \in Buf : Pointing(n, c) = Pointing(m, c)
  BY DEF Pointing
<1>6. WellMem(n)
  <2>1. n \in [data : [Table -> Buf \cup {None}], buf : [Buf -> Block]]
    <3>1. n.data \in [Table -> Buf \cup {None}]
      BY MemTypes
    <3> QED BY <3>1, <1>3, <1>4
  <2>2. ASSUME NEW c \in Buf
        PROVE  /\ n.buf[c].len <= Len(n.buf[c].cells)
               /\ n.buf[c].refCount = Cardinality(Pointing(n, c))
               /\ n.buf[c].refCount = 0 => n.buf[c] = Free
    <3>1. CASE c = b
      <4>1. m.buf[b].refCount = Cardinality(Pointing(m, b))
        BY <1>1 DEF WellMem
      <4>2. Cardinality(Pointing(n, b)) = 1
        BY <4>1, <1>5, <1>1 DEF b
      <4> QED BY <3>1, <4>2, <1>2, <1>4
    <3>2. CASE c # b
      BY <3>2, <1>4, <1>5 DEF WellMem
    <3> QED BY <3>1, <3>2
  <2> QED BY <2>1, <2>2 DEF WellMem
<1>7. Contents(n, v) = SubSeq(cells, 1, len)
  <2>0. n.data[v] # None
    OBVIOUS
  <2>1. n.data[v] # None /\ Contents(n, v) = SubSeq(n.buf[n.data[v]].cells, 1, n.buf[n.data[v]].len)
    BY <2>0 DEF Contents, Header
  <2>2. n.data[v] = b
    BY DEF b
  <2> QED BY <2>1, <2>2, <1>2, <1>4
<1>8. \A u \in Table \ {v} : Contents(n, u) = Contents(m, u)
  <2> TAKE u \in Table \ {v}
  <2>1. m.data[u] # None => m.data[u] \in Buf \ {b}
    BY <1>1, MemTypes
  <2>2. n.data[u] = m.data[u]
    OBVIOUS
  <2>3. m.data[u] # None => n.buf[m.data[u]] = m.buf[m.data[u]]
    BY <2>1, <1>4
  <2> QED BY <2>2, <2>3 DEF Contents, Header
<1>9. Own(m) => Own(n)
  BY <1>2, <1>4 DEF Own
<1>10. n.data[v] = b /\ b # None
  BY DEF b
<1> QED BY <1>2, <1>4, <1>6, <1>7, <1>8, <1>9, <1>10 DEF Becomes

\* In the two orders of the code.
InPlace(m, v, cells, len) ==
  [m EXCEPT !.buf[m.data[v]].cells = cells, !.buf[m.data[v]].len = len]
InPlaceToo(m, v, cells, len) ==
  [m EXCEPT !.buf[m.data[v]].len = len, !.buf[m.data[v]].cells = cells]

LEMMA ChangedCells ==
  ASSUME NEW m, WellMem(m), NEW v \in Table, m.data[v] # None,
         m.buf[m.data[v]].refCount = 1,
         NEW cells \in Seq(Cell), NEW len \in Nat, len <= Len(cells), NEW n,
         n \in {InPlace(m, v, cells, len), InPlaceToo(m, v, cells, len)}
  PROVE  /\ Becomes(m, n, v, SubSeq(cells, 1, len))
         /\ n.data[v] # None /\ n.buf[n.data[v]].refCount = 1
<1> DEFINE b == m.data[v]
           h == m.buf[b]
           p == [data |-> m.data,
                 buf  |-> [m.buf EXCEPT ![b] =
                             [refCount |-> 1, len |-> len, cells |-> cells]]]
<1>1. b \in Buf /\ m = [data |-> m.data, buf |-> m.buf] /\ m.buf \in [Buf -> Block]
  BY Counted, MemTypes
<1>2. h \in Block /\ h.refCount = 1
  BY <1>1
<1>3. /\ [[h EXCEPT !.cells = cells] EXCEPT !.len = len]
          = [refCount |-> 1, len |-> len, cells |-> cells]
      /\ [[h EXCEPT !.len = len] EXCEPT !.cells = cells]
          = [refCount |-> 1, len |-> len, cells |-> cells]
  <2> HIDE DEF h
  <2>1. PICK l \in Nat, c \in Seq(Cell) : h = [refCount |-> 1, len |-> l, cells |-> c]
    BY <1>2 DEF Block
  <2>2. [h EXCEPT !.cells = cells] = [refCount |-> 1, len |-> l, cells |-> cells]
    BY <2>1
  <2>3. [h EXCEPT !.len = len] = [refCount |-> 1, len |-> len, cells |-> c]
    BY <2>1
  <2>4. [[refCount |-> 1, len |-> l, cells |-> cells] EXCEPT !.len = len]
          = [refCount |-> 1, len |-> len, cells |-> cells]
    OBVIOUS
  <2>5. [[refCount |-> 1, len |-> len, cells |-> c] EXCEPT !.cells = cells]
          = [refCount |-> 1, len |-> len, cells |-> cells]
    OBVIOUS
  <2> QED BY <2>2, <2>3, <2>4, <2>5
<1>4. n = p
  <2>1. CASE n = InPlace(m, v, cells, len)
    <3>1. n = [data |-> m.data,
               buf  |-> [m.buf EXCEPT ![b] = [[h EXCEPT !.cells = cells] EXCEPT !.len = len]]]
      BY <2>1, <1>1 DEF InPlace
    <3> QED BY <3>1, <1>3
  <2>2. CASE n = InPlaceToo(m, v, cells, len)
    <3>1. n = [data |-> m.data,
               buf  |-> [m.buf EXCEPT ![b] = [[h EXCEPT !.len = len] EXCEPT !.cells = cells]]]
      BY <2>2, <1>1 DEF InPlaceToo
    <3> QED BY <3>1, <1>3
  <2> QED BY <2>1, <2>2
<1>5. p.data = m.data
  OBVIOUS
<1> QED BY <1>4, <1>5, ChangedInPlace

\* One change after another.
LEMMA BecomesThen ==
  ASSUME NEW m, NEW n, NEW o, NEW v, NEW s, NEW r, Becomes(m, n, v, s), Becomes(n, o, v, r)
  PROVE  Becomes(m, o, v, r)
BY DEF Becomes

\* A table leaves a shared buffer to the others.
LEMMA DupFills ==
  ASSUME NEW m, WellMem(m), NEW v \in Table, m.data[v] # None,
         m.buf[m.data[v]].refCount # 1,
         NEW els \in Seq(Cell), NEW size \in Nat, Len(els) <= size
  PROVE  /\ Becomes(m, Dup(m, v, size, els), v, els)
         /\ Dup(m, v, size, els).data[v] # None
         /\ Dup(m, v, size, els).buf[Dup(m, v, size, els).data[v]].refCount = 1
<1> DEFINE a == m.data[v]
           b == NewBuf(m)
           e == TableEmpty(m, v)
           h == [refCount |-> 1, len |-> Len(els), cells |-> Realloc(els, size)]
<1>1. a \in Buf /\ m.buf[a].refCount \in Nat \ {0} /\ m.buf[a].refCount # 1
  BY Counted
<1>2. b \in Buf /\ b # a /\ m.buf[b].refCount = 0
  BY NewBufFree
<1>3. WellMem(e) /\ e.data = [m.data EXCEPT ![v] = None] /\ Becomes(m, e, v, <<>>)
  BY LetGo DEF Becomes
<1>4. e.buf = [m.buf EXCEPT ![a] = [m.buf[a] EXCEPT !.refCount = @ - 1]]
  <2>1. e.buf = [c \in Buf |-> IF c # m.data[v] THEN m.buf[c]
                               ELSE IF m.buf[c].refCount = 1 THEN Free
                               ELSE [m.buf[c] EXCEPT !.refCount = @ - 1]]
    BY DEF TableEmpty
  <2>2. e.buf = [c \in Buf |-> IF c # a THEN m.buf[c] ELSE [m.buf[a] EXCEPT !.refCount = @ - 1]]
    BY <2>1, <1>1
  <2>3. m.buf \in [Buf -> Block]
    BY MemTypes
  <2> QED BY <2>2, <2>3, <1>1
<1>5. \A c \in Buf : e.buf[c].refCount = 0 <=> m.buf[c].refCount = 0
  <2> TAKE c \in Buf
  <2>1. CASE c # a
    BY <2>1, <1>1, <1>4, MemTypes
  <2>2. CASE c = a
    <3>1. m.buf[a] = [refCount |-> m.buf[a].refCount, len |-> m.buf[a].len,
                      cells |-> m.buf[a].cells]
      BY <1>1, MemTypes
    <3> DEFINE r == m.buf[a].refCount
    <3>2. [m.buf[a] EXCEPT !.refCount = @ - 1].refCount = r - 1
      BY <3>1
    <3>3. e.buf[a] = [m.buf[a] EXCEPT !.refCount = @ - 1]
      BY <1>1, <1>4, MemTypes
    <3>4. r \in Nat \ {0} /\ r # 1 /\ e.buf[a].refCount = r - 1
      BY <3>2, <3>3, <1>1
    <3> HIDE DEF r
    <3>5. r # 0 /\ r - 1 # 0
      BY <3>4
    <3> QED BY <2>2, <3>4, <3>5 DEF r
  <2> QED BY <2>1, <2>2
<1>6. NewBuf(e) = b
  BY <1>5 DEF NewBuf
<1>7. Dup(m, v, size, els) = Fresh(e, v, size, els)
  <2>1. Dup(m, v, size, els)
          = [data |-> [m.data EXCEPT ![v] = b],
             buf  |-> [m.buf EXCEPT ![a].refCount = @ - 1, ![b] = h]]
    BY DEF Dup
  <2>2. Fresh(e, v, size, els) = [data |-> [e.data EXCEPT ![v] = b],
                                  buf  |-> [e.buf EXCEPT ![b] = h]]
    BY <1>6 DEF Fresh
  <2>3. [e.data EXCEPT ![v] = b] = [m.data EXCEPT ![v] = b]
    BY <1>3, MemTypes
  <2>4. [m.buf EXCEPT ![a].refCount = @ - 1, ![b] = h] = [e.buf EXCEPT ![b] = h]
    BY <1>4
  <2> QED BY <2>1, <2>2, <2>3, <2>4
<1>8. e.data[v] = None
  BY <1>3, MemTypes
<1> HIDE DEF e
<1>9. /\ Becomes(e, Fresh(e, v, size, els), v, els)
      /\ Fresh(e, v, size, els).data[v] # None
      /\ Fresh(e, v, size, els).buf[Fresh(e, v, size, els).data[v]].refCount = 1
  BY <1>3, <1>8, FreshFills
<1> QED BY <1>3, <1>7, <1>9, BecomesThen

----------------------------------------------------------------------------
(* Sizes and cells.                                                        *)

LEMMA Sizes ==
  ASSUME NEW existing \in Nat, NEW needed \in Nat
  PROVE  /\ UpLen(existing, needed) \in Nat /\ needed <= UpLen(existing, needed)
         /\ existing <= UpLen(existing, needed)
         /\ DownLen(existing, needed) \in Nat
         /\ needed <= existing => needed <= DownLen(existing, needed)
BY DEF UpLen, DownLen

LEMMA Joined ==
  ASSUME NEW S, NEW a \in Seq(S), NEW z \in Seq(S)
  PROVE  /\ a \o z \in Seq(S) /\ Len(a \o z) = Len(a) + Len(z)
         /\ \A i \in 1 .. Len(a) + Len(z) :
              (a \o z)[i] = IF i <= Len(a) THEN a[i] ELSE z[i - Len(a)]
BY ConcatProperties

LEMMA GapFacts ==
  ASSUME NEW els \in Seq(Cell), NEW pos \in 0 .. Len(els), NEW n \in Nat
  PROVE  /\ Gap(els, pos, n) \in Seq(Cell) /\ Len(Gap(els, pos, n)) = Len(els) + n
         /\ \A i \in 1 .. Len(els) + n :
              Gap(els, pos, n)[i] = IF i <= pos THEN els[i]
                                    ELSE IF i <= pos + n THEN Raw ELSE els[i - n]
<1> DEFINE a == SubSeq(els, 1, pos)
           z == SubSeq(els, pos + 1, Len(els))
<1>1. a \in Seq(Cell) /\ Len(a) = pos /\ \A i \in 1 .. pos : a[i] = els[i]
  OBVIOUS
<1>2. /\ z \in Seq(Cell) /\ Len(z) = Len(els) - pos
      /\ \A i \in 1 .. Len(els) - pos : z[i] = els[pos + i]
  OBVIOUS
<1>3. Raws(n) \in Seq(Cell) /\ Len(Raws(n)) = n /\ \A i \in 1 .. n : Raws(n)[i] = Raw
  <2>1. Raws(n) \in [1 .. n -> Cell]
    BY DEF Raws, Cell
  <2> QED BY <2>1, IsASeq DEF Raws
<1>4. Gap(els, pos, n) = a \o Raws(n) \o z
  BY DEF Gap
<1> HIDE DEF a, z
<1>5. /\ a \o Raws(n) \in Seq(Cell) /\ Len(a \o Raws(n)) = pos + n
      /\ \A i \in 1 .. pos + n : (a \o Raws(n))[i] = IF i <= pos THEN els[i] ELSE Raw
  <2> HIDE DEF Raws
  <2>1. /\ a \o Raws(n) \in Seq(Cell) /\ Len(a \o Raws(n)) = Len(a) + Len(Raws(n))
        /\ \A i \in 1 .. Len(a) + Len(Raws(n)) :
             (a \o Raws(n))[i] = IF i <= Len(a) THEN a[i] ELSE Raws(n)[i - Len(a)]
    BY <1>1, <1>3, Joined
  <2>2. \A i \in 1 .. pos + n : i <= pos => i \in 1 .. pos
    OBVIOUS
  <2>3. \A i \in 1 .. pos + n : ~ (i <= pos) => i - pos \in 1 .. n
    OBVIOUS
  <2>4. \A i \in 1 .. pos + n : (a \o Raws(n))[i] = IF i <= pos THEN a[i] ELSE Raws(n)[i - pos]
    BY <2>1, <1>1, <1>3
  <2> QED BY <2>1, <2>2, <2>3, <2>4, <1>1, <1>3
<1> DEFINE az == a \o Raws(n)
<1>6. /\ az \o z \in Seq(Cell) /\ Len(az \o z) = Len(az) + Len(z)
      /\ \A i \in 1 .. Len(az) + Len(z) :
           (az \o z)[i] = IF i <= Len(az) THEN az[i] ELSE z[i - Len(az)]
  BY <1>2, <1>5, Joined
<1> HIDE DEF az
<1>7. Len(az) = pos + n /\ Len(az) + Len(z) = Len(els) + n /\ Gap(els, pos, n) = az \o z
  BY <1>2, <1>4, <1>5 DEF az
<1>8. \A i \in 1 .. Len(els) + n : ~ (i <= pos + n) =>
        /\ i - (pos + n) \in 1 .. Len(els) - pos
        /\ pos + (i - (pos + n)) = i - n
  OBVIOUS
<1>9. \A i \in 1 .. Len(els) + n : i <= pos + n => i \in 1 .. pos + n
  OBVIOUS
<1>10. ASSUME NEW i \in 1 .. Len(els) + n
       PROVE  Gap(els, pos, n)[i] = IF i <= pos THEN els[i]
                                    ELSE IF i <= pos + n THEN Raw ELSE els[i - n]
  <2>1. CASE i <= pos + n
    <3>1. Gap(els, pos, n)[i] = az[i]
      BY <2>1, <1>6, <1>7
    <3>2. az[i] = IF i <= pos THEN els[i] ELSE Raw
      BY <2>1, <1>5, <1>9 DEF az
    <3> QED BY <2>1, <3>1, <3>2
  <2>2. CASE ~ (i <= pos + n)
    <3>1. Gap(els, pos, n)[i] = z[i - (pos + n)]
      BY <2>2, <1>6, <1>7
    <3>2. z[i - (pos + n)] = els[i - n]
      BY <2>2, <1>2, <1>8
    <3>3. ~ (i <= pos)
      BY <2>2
    <3> QED BY <2>2, <3>1, <3>2, <3>3
  <2> QED BY <2>1, <2>2
<1> QED BY <1>6, <1>7, <1>10

LEMMA CutFacts ==
  ASSUME NEW els \in Seq(Cell), NEW pos \in 0 .. Len(els), NEW n \in Nat, pos + n <= Len(els)
  PROVE  /\ Cut(els, pos, n) \in Seq(Cell) /\ Len(Cut(els, pos, n)) = Len(els) - n
         /\ \A i \in 1 .. Len(els) - n :
              Cut(els, pos, n)[i] = IF i <= pos THEN els[i] ELSE els[i + n]
<1> DEFINE a == SubSeq(els, 1, pos)
           z == SubSeq(els, pos + n + 1, Len(els))
<1>1. a \in Seq(Cell) /\ Len(a) = pos /\ \A i \in 1 .. pos : a[i] = els[i]
  OBVIOUS
<1>2. /\ z \in Seq(Cell) /\ Len(z) = Len(els) - (pos + n)
      /\ \A i \in 1 .. Len(els) - (pos + n) : z[i] = els[pos + n + i]
  OBVIOUS
<1>3. Cut(els, pos, n) = a \o z
  BY DEF Cut
<1> HIDE DEF a, z
<1>4. /\ a \o z \in Seq(Cell) /\ Len(a \o z) = Len(a) + Len(z)
      /\ \A i \in 1 .. Len(a) + Len(z) :
           (a \o z)[i] = IF i <= Len(a) THEN a[i] ELSE z[i - Len(a)]
  BY <1>1, <1>2, Joined
<1>5. Len(a) + Len(z) = Len(els) - n
  BY <1>1, <1>2
<1>6. \A i \in 1 .. Len(els) - n : ~ (i <= pos) =>
        i - pos \in 1 .. Len(els) - (pos + n) /\ pos + n + (i - pos) = i + n
  OBVIOUS
<1>7. \A i \in 1 .. Len(els) - n : i <= pos => i \in 1 .. pos
  OBVIOUS
<1>8. ASSUME NEW i \in 1 .. Len(els) - n
      PROVE  Cut(els, pos, n)[i] = IF i <= pos THEN els[i] ELSE els[i + n]
  <2>1. Cut(els, pos, n)[i] = IF i <= pos THEN a[i] ELSE z[i - pos]
    BY <1>1, <1>3, <1>4, <1>5
  <2>2. CASE i <= pos
    BY <2>1, <2>2, <1>1, <1>7
  <2>3. CASE ~ (i <= pos)
    BY <2>1, <2>3, <1>2, <1>6
  <2> QED BY <2>2, <2>3
<1> QED BY <1>3, <1>4, <1>5, <1>8
LEMMA MovedRight ==
  ASSUME NEW cells \in Seq(Cell), NEW len \in Nat, len <= Len(cells),
         NEW pos \in 0 .. len, NEW n \in Nat, NEW size \in Nat, len + n <= size,
         NEW moved, moved = MoveRight(Realloc(cells, size), len, pos, n)
  PROVE  /\ moved \in Seq(Cell) /\ Len(moved) = size
         /\ SubSeq(moved, 1, len + n) = Gap(SubSeq(cells, 1, len), pos, n)
<1> DEFINE c == Realloc(cells, size)
           els == SubSeq(cells, 1, len)
<1>1. c \in Seq(Cell) /\ Len(c) = size /\ \A i \in 1 .. size : i <= Len(cells) => c[i] = cells[i]
  BY ReallocFacts
<1>2. els \in Seq(Cell) /\ Len(els) = len /\ \A i \in 1 .. len : els[i] = cells[i]
  OBVIOUS
<1> HIDE DEF c, els
<1>3. moved = [i \in 1 .. size |-> IF i <= pos THEN c[i]
                 ELSE IF i > pos + n /\ i <= len + n THEN c[i - n] ELSE Raw]
  <2>1. DOMAIN c = 1 .. size
    BY <1>1
  <2>2. \A i \in 1 .. size :
          (CASE i <= pos -> c[i]
             [] i > pos + n /\ i <= len + n -> c[i - n]
             [] OTHER -> Raw)
          = IF i <= pos THEN c[i] ELSE IF i > pos + n /\ i <= len + n THEN c[i - n] ELSE Raw
    OBVIOUS
  <2> QED BY <2>1, <2>2 DEF MoveRight, c
<1>4. moved \in Seq(Cell) /\ Len(moved) = size
  <2>1. ASSUME NEW i \in 1 .. size
        PROVE  (IF i <= pos THEN c[i]
                ELSE IF i > pos + n /\ i <= len + n THEN c[i - n] ELSE Raw) \in Cell
    <3>1. i \in 1 .. Len(c) /\ (i > pos + n => i - n \in 1 .. Len(c))
      BY <1>1
    <3>2. \A j \in 1 .. Len(c) : c[j] \in Cell
      BY <1>1
    <3> QED BY <3>1, <3>2 DEF Cell
  <2>2. moved \in [1 .. size -> Cell]
    BY <1>3, <2>1
  <2> QED BY <2>2, IsASeq
<1>5. /\ SubSeq(moved, 1, len + n) \in Seq(Cell) /\ Len(SubSeq(moved, 1, len + n)) = len + n
      /\ \A i \in 1 .. len + n : SubSeq(moved, 1, len + n)[i] = moved[i]
  BY <1>4
<1>6. /\ Gap(els, pos, n) \in Seq(Cell) /\ Len(Gap(els, pos, n)) = len + n
      /\ \A i \in 1 .. len + n :
           Gap(els, pos, n)[i] = IF i <= pos THEN els[i]
                                 ELSE IF i <= pos + n THEN Raw ELSE els[i - n]
  <2>1. els \in Seq(Cell) /\ pos \in 0 .. Len(els) /\ Len(els) = len
    BY <1>2
  <2>2. /\ Gap(els, pos, n) \in Seq(Cell) /\ Len(Gap(els, pos, n)) = Len(els) + n
        /\ \A i \in 1 .. Len(els) + n :
             Gap(els, pos, n)[i] = IF i <= pos THEN els[i]
                                   ELSE IF i <= pos + n THEN Raw ELSE els[i - n]
    BY ONLY n \in Nat, <2>1, GapFacts
  <2> QED BY <2>1, <2>2
<1>7. ASSUME NEW i \in 1 .. len + n
      PROVE  SubSeq(moved, 1, len + n)[i] = Gap(els, pos, n)[i]
  <2>1. i \in 1 .. size
    OBVIOUS
  <2>2. CASE i <= pos
    <3>1. i \in 1 .. len /\ i <= Len(cells)
      BY <2>2
    <3>2. moved[i] = c[i] /\ c[i] = cells[i]
      BY <2>1, <2>2, <3>1, <1>1, <1>3
    <3> QED BY <2>2, <3>1, <3>2, <1>2, <1>5, <1>6
  <2>3. CASE ~ (i <= pos) /\ i <= pos + n
    <3>1. moved[i] = Raw
      BY <2>1, <2>3, <1>3
    <3> QED BY <2>3, <3>1, <1>5, <1>6
  <2>4. CASE i > pos + n
    <3>1. i - n \in 1 .. len /\ i - n \in 1 .. size /\ i - n <= Len(cells) /\ ~ (i <= pos)
          /\ ~ (i <= pos + n)
      BY <2>4
    <3>2. moved[i] = c[i - n]
      BY <2>1, <2>4, <3>1, <1>3
    <3>3. c[i - n] = cells[i - n] /\ els[i - n] = cells[i - n]
      BY <3>1, <1>1, <1>2
    <3>4. Gap(els, pos, n)[i] = els[i - n]
      BY <3>1, <1>6
    <3> QED BY <3>2, <3>3, <3>4, <1>5
  <2> QED BY <2>2, <2>3, <2>4
<1>8. SubSeq(moved, 1, len + n) = Gap(els, pos, n)
  BY <1>5, <1>6, <1>7, SeqEqual
<1> QED BY <1>4, <1>8 DEF els

LEMMA MovedLeft ==
  ASSUME NEW cells \in Seq(Cell), NEW len \in Nat, len <= Len(cells),
         NEW pos \in 0 .. len, NEW n \in Nat, pos + n <= len,
         NEW moved, moved = MoveLeft(cells, len, pos, n)
  PROVE  /\ moved \in Seq(Cell) /\ Len(moved) = Len(cells)
         /\ SubSeq(moved, 1, len - n) = Cut(SubSeq(cells, 1, len), pos, n)
<1> DEFINE size == Len(cells)
           els == SubSeq(cells, 1, len)
<1>1. size \in Nat /\ DOMAIN cells = 1 .. size
  OBVIOUS
<1>2. els \in Seq(Cell) /\ Len(els) = len /\ \A i \in 1 .. len : els[i] = cells[i]
  OBVIOUS
<1> HIDE DEF els
<1>3. moved = [i \in 1 .. size |-> IF i <= pos THEN cells[i]
                 ELSE IF i <= len - n THEN cells[i + n] ELSE Raw]
  <2>1. \A i \in 1 .. size :
          (CASE i <= pos -> cells[i]
             [] i > pos /\ i <= len - n -> cells[i + n]
             [] OTHER -> Raw)
          = IF i <= pos THEN cells[i] ELSE IF i <= len - n THEN cells[i + n] ELSE Raw
    OBVIOUS
  <2> QED BY <1>1, <2>1 DEF MoveLeft
<1>4. moved \in Seq(Cell) /\ Len(moved) = size
  <2>1. ASSUME NEW i \in 1 .. size
        PROVE  (IF i <= pos THEN cells[i]
                ELSE IF i <= len - n THEN cells[i + n] ELSE Raw) \in Cell
    <3>1. i <= len - n => i + n \in 1 .. size
      OBVIOUS
    <3>2. \A j \in 1 .. size : cells[j] \in Cell
      OBVIOUS
    <3> QED BY <3>1, <3>2 DEF Cell
  <2>2. moved \in [1 .. size -> Cell]
    BY <1>3, <2>1
  <2> QED BY <2>2, <1>1, IsASeq
<1>5. /\ SubSeq(moved, 1, len - n) \in Seq(Cell) /\ Len(SubSeq(moved, 1, len - n)) = len - n
      /\ \A i \in 1 .. len - n : SubSeq(moved, 1, len - n)[i] = moved[i]
  BY <1>4
<1>6. /\ Cut(els, pos, n) \in Seq(Cell) /\ Len(Cut(els, pos, n)) = len - n
      /\ \A i \in 1 .. len - n :
           Cut(els, pos, n)[i] = IF i <= pos THEN els[i] ELSE els[i + n]
  <2>1. els \in Seq(Cell) /\ pos \in 0 .. Len(els) /\ pos + n <= Len(els) /\ Len(els) = len
    BY <1>2
  <2>2. /\ Cut(els, pos, n) \in Seq(Cell) /\ Len(Cut(els, pos, n)) = Len(els) - n
        /\ \A i \in 1 .. Len(els) - n :
             Cut(els, pos, n)[i] = IF i <= pos THEN els[i] ELSE els[i + n]
    BY ONLY n \in Nat, <2>1, CutFacts
  <2> QED BY <2>1, <2>2
<1>7. ASSUME NEW i \in 1 .. len - n
      PROVE  SubSeq(moved, 1, len - n)[i] = Cut(els, pos, n)[i]
  <2>1. i \in 1 .. size /\ i \in 1 .. len /\ i + n \in 1 .. len /\ i <= len - n
    OBVIOUS
  <2>2. moved[i] = IF i <= pos THEN cells[i] ELSE cells[i + n]
    BY <2>1, <1>3
  <2>3. els[i] = cells[i] /\ els[i + n] = cells[i + n]
    BY <2>1, <1>2
  <2> QED BY <2>2, <2>3, <1>5, <1>6
<1>8. SubSeq(moved, 1, len - n) = Cut(els, pos, n)
  BY <1>5, <1>6, <1>7, SeqEqual
<1> QED BY <1>4, <1>8 DEF els

----------------------------------------------------------------------------
(* The functions of the vectors.                                           *)

\* An empty table is filled.
LEMMA FromEmptyFills ==
  ASSUME NEW m, WellMem(m), NEW v \in Table, m.data[v] = None, NEW els \in Seq(Cell)
  PROVE  /\ Becomes(m, FromEmpty(m, v, els), v, els)
         /\ els # <<>> =>
              /\ FromEmpty(m, v, els).data[v] # None
              /\ FromEmpty(m, v, els).buf[FromEmpty(m, v, els).data[v]].refCount = 1
<1>1. CASE els = <<>>
  <2>1. FromEmpty(m, v, els) = m /\ Contents(m, v) = <<>>
    BY <1>1 DEF FromEmpty, Contents
  <2> QED BY <1>1, <2>1 DEF Becomes
<1>2. CASE els # <<>>
  <2> DEFINE size == UpLen(0, Len(els))
  <2>1. size \in Nat /\ Len(els) <= size
    BY Sizes
  <2>2. FromEmpty(m, v, els) = Fresh(m, v, size, els)
    BY <1>2 DEF FromEmpty, Fresh
  <2> HIDE DEF size
  <2> QED BY <2>1, <2>2, FreshFills
<1> QED BY <1>1, <1>2

LEMMA RawsFacts ==
  ASSUME NEW n \in Nat \ {0}
  PROVE  /\ Raws(n) \in Seq(Cell) /\ Raws(n) # <<>>
         /\ Raws(n) = Gap(<<>>, 0, n)
<1>1. Raws(n) \in Seq(Cell) /\ Len(Raws(n)) = n /\ \A i \in 1 .. n : Raws(n)[i] = Raw
  <2>1. Raws(n) \in [1 .. n -> Cell]
    BY DEF Raws, Cell
  <2> QED BY <2>1, IsASeq DEF Raws
<1>2. Raws(n) # <<>>
  BY <1>1
<1> HIDE DEF Raws
<1>3. <<>> \in Seq(Cell) /\ Len(<<>>) = 0 /\ 0 \in 0 .. Len(<<>>)
  OBVIOUS
<1>4. /\ Gap(<<>>, 0, n) \in Seq(Cell) /\ Len(Gap(<<>>, 0, n)) = n
      /\ \A i \in 1 .. n : Gap(<<>>, 0, n)[i] = Raw
  <2> DEFINE e == <<>>
  <2>1. e \in Seq(Cell) /\ Len(e) = 0
    OBVIOUS
  <2> HIDE DEF e
  <2>2. 0 \in 0 .. Len(e) /\ n \in Nat /\ Len(e) + n = n
    BY <2>1
  <2>3. /\ Gap(e, 0, n) \in Seq(Cell) /\ Len(Gap(e, 0, n)) = n
        /\ \A i \in 1 .. n :
             Gap(e, 0, n)[i] = IF i <= 0 THEN e[i] ELSE IF i <= 0 + n THEN Raw ELSE e[i - n]
    <3>1. /\ Gap(e, 0, n) \in Seq(Cell) /\ Len(Gap(e, 0, n)) = Len(e) + n
          /\ \A i \in 1 .. Len(e) + n :
               Gap(e, 0, n)[i] = IF i <= 0 THEN e[i] ELSE IF i <= 0 + n THEN Raw ELSE e[i - n]
      BY <2>1, <2>2, GapFacts
    <3> QED BY <3>1, <2>2
  <2>4. \A i \in 1 .. n : ~ (i <= 0) /\ i <= 0 + n
    OBVIOUS
  <2> QED BY <2>3, <2>4 DEF e
<1>5. Raws(n) = Gap(<<>>, 0, n)
  BY <1>1, <1>4, SeqEqual
<1> QED BY <1>1, <1>2, <1>5

\* makeRawSpaceFor: a gap in a buffer of the table's own.
LEMMA RawSpaceOpens ==
  ASSUME NEW m, WellMem(m), NEW v \in Table, NEW pos \in 0 .. Len(Contents(m, v)),
         NEW n \in Nat \ {0}
  PROVE  /\ Becomes(m, RawSpace(m, v, pos, n), v, Gap(Contents(m, v), pos, n))
         /\ RawSpace(m, v, pos, n).data[v] # None
         /\ RawSpace(m, v, pos, n).buf[RawSpace(m, v, pos, n).data[v]].refCount = 1
<1> DEFINE o == RawSpace(m, v, pos, n)
<1>1. CASE m.data[v] = None
  <2>1. o = FromEmpty(m, v, Raws(n))
    BY <1>1 DEF RawSpace
  <2>2. Contents(m, v) = <<>> /\ pos = 0
    BY <1>1 DEF Contents
  <2> QED BY <1>1, <2>1, <2>2, RawsFacts, FromEmptyFills
<1>2. CASE m.data[v] # None
  <2> DEFINE b == m.data[v]
             h == m.buf[b]
             els == Contents(m, v)
             size == UpLen(Len(h.cells), h.len + n)
  <2>1. /\ b \in Buf /\ h.cells \in Seq(Cell) /\ h.len \in Nat /\ h.len <= Len(h.cells)
        /\ h.refCount \in Nat \ {0}
    BY <1>2, Counted, MemTypes DEF WellMem
  <2>2. els \in Seq(Cell) /\ Len(els) = h.len /\ els = SubSeq(h.cells, 1, h.len)
    BY <1>2, ContentsType
  <2>3. size \in Nat /\ h.len + n <= size
    <3> HIDE DEF h
    <3>1. Len(h.cells) \in Nat /\ h.len + n \in Nat
      BY <2>1
    <3> QED BY <3>1, Sizes
  <2>4. pos \in 0 .. h.len /\ n \in Nat /\ pos \in 0 .. Len(els)
    BY <2>2
  <2>5. CASE h.refCount = 1
    <3> DEFINE cells == MoveRight(Realloc(h.cells, size), h.len, pos, n)
    <3>1. cells \in Seq(Cell) /\ Len(cells) = size /\ SubSeq(cells, 1, h.len + n) = Gap(els, pos, n)
      <4> DEFINE old == h.cells
                 l == h.len
      <4>1. old \in Seq(Cell) /\ l \in Nat /\ l <= Len(old)
            /\ pos \in 0 .. l /\ n \in Nat /\ size \in Nat /\ l + n <= size
            /\ els = SubSeq(old, 1, l)
        BY <2>1, <2>2, <2>3, <2>4
      <4>2. cells = MoveRight(Realloc(old, size), l, pos, n)
        OBVIOUS
      <4> HIDE DEF h, size, els, cells, old, l
      <4>3. cells \in Seq(Cell) /\ Len(cells) = size
            /\ SubSeq(cells, 1, l + n) = Gap(SubSeq(old, 1, l), pos, n)
        BY <4>1, <4>2, MovedRight
      <4> QED BY <4>1, <4>3 DEF old, l
    <3>2. o = [m EXCEPT !.buf[b].cells = cells, !.buf[b].len = h.len + n]
      BY <1>2, <2>5 DEF RawSpace, Alloc
    <3> DEFINE len == h.len + n
    <3>3. len \in Nat /\ len <= size
      BY <2>1, <2>3
    <3>4. o = InPlace(m, v, cells, len)
      BY <3>2 DEF InPlace
    <3>5. SubSeq(cells, 1, len) = Gap(els, pos, n) /\ cells \in Seq(Cell) /\ len <= Len(cells)
      BY <3>1, <3>3
    <3>6. m.buf[m.data[v]].refCount = 1
      BY <2>5
    <3> HIDE DEF len, cells, o, size, h
    <3>7. /\ Becomes(m, o, v, SubSeq(cells, 1, len))
          /\ o.data[v] # None /\ o.buf[o.data[v]].refCount = 1
      BY <1>2, <3>3, <3>4, <3>5, <3>6, ChangedCells
    <3> QED BY <3>5, <3>7 DEF o
  <2>6. CASE h.refCount # 1
    <3>1. o = Dup(m, v, size, Gap(els, pos, n))
      BY <1>2, <2>6 DEF RawSpace, Alloc
    <3>2. Gap(els, pos, n) \in Seq(Cell) /\ Len(Gap(els, pos, n)) = h.len + n
      BY <2>2, <2>4, GapFacts
    <3>3. Len(Gap(els, pos, n)) <= size /\ m.buf[m.data[v]].refCount # 1
      BY <2>3, <2>6, <3>2
    <3> DEFINE g == Gap(els, pos, n)
    <3> HIDE DEF g, size
    <3>4. o = Dup(m, v, size, g) /\ g \in Seq(Cell) /\ size \in Nat /\ Len(g) <= size
      BY <2>3, <3>1, <3>2, <3>3 DEF g
    <3>5. /\ Becomes(m, o, v, g) /\ o.data[v] # None /\ o.buf[o.data[v]].refCount = 1
      <4> HIDE DEF o, h, els
      <4> QED BY <1>2, <3>3, <3>4, DupFills
    <3> QED BY <3>5 DEF g
  <2> QED BY <2>5, <2>6
<1> QED BY <1>1, <1>2
\* An element put into a sequence.
Placed(s, pos, el) == SubSeq(s, 1, pos) \o <<el>> \o SubSeq(s, pos + 1, Len(s))

LEMMA PlacedFacts ==
  ASSUME NEW s \in Seq(Cell), NEW pos \in 0 .. Len(s), NEW el \in Cell
  PROVE  /\ Placed(s, pos, el) \in Seq(Cell) /\ Len(Placed(s, pos, el)) = Len(s) + 1
         /\ \A i \in 1 .. Len(s) + 1 :
              Placed(s, pos, el)[i] = IF i <= pos THEN s[i]
                                      ELSE IF i = pos + 1 THEN el ELSE s[i - 1]
<1> DEFINE a == SubSeq(s, 1, pos)
           z == SubSeq(s, pos + 1, Len(s))
           one == <<el>>
<1>1. a \in Seq(Cell) /\ Len(a) = pos /\ \A i \in 1 .. pos : a[i] = s[i]
  OBVIOUS
<1>2. z \in Seq(Cell) /\ Len(z) = Len(s) - pos /\ \A i \in 1 .. Len(s) - pos : z[i] = s[pos + i]
  OBVIOUS
<1>3. one \in Seq(Cell) /\ Len(one) = 1 /\ one[1] = el
  OBVIOUS
<1>4. Placed(s, pos, el) = a \o one \o z
  BY DEF Placed
<1> HIDE DEF a, z, one
<1>5. /\ a \o one \in Seq(Cell) /\ Len(a \o one) = pos + 1
      /\ \A i \in 1 .. pos + 1 : (a \o one)[i] = IF i <= pos THEN s[i] ELSE el
  <2>1. /\ a \o one \in Seq(Cell) /\ Len(a \o one) = Len(a) + Len(one)
        /\ \A i \in 1 .. Len(a) + Len(one) :
             (a \o one)[i] = IF i <= Len(a) THEN a[i] ELSE one[i - Len(a)]
    BY <1>1, <1>3, Joined
  <2>2. \A i \in 1 .. pos + 1 : (i <= pos => i \in 1 .. pos) /\ (~ (i <= pos) => i - pos = 1)
    OBVIOUS
  <2> QED BY <2>1, <2>2, <1>1, <1>3
<1> DEFINE az == a \o one
<1> HIDE DEF az
<1>6. /\ az \o z \in Seq(Cell) /\ Len(az \o z) = Len(az) + Len(z)
      /\ \A i \in 1 .. Len(az) + Len(z) :
           (az \o z)[i] = IF i <= Len(az) THEN az[i] ELSE z[i - Len(az)]
  BY <1>2, <1>5, Joined DEF az
<1>7. Len(az) = pos + 1 /\ Len(az) + Len(z) = Len(s) + 1 /\ Placed(s, pos, el) = az \o z
  BY <1>2, <1>4, <1>5 DEF az
<1>8. ASSUME NEW i \in 1 .. Len(s) + 1
      PROVE  Placed(s, pos, el)[i] = IF i <= pos THEN s[i]
                                     ELSE IF i = pos + 1 THEN el ELSE s[i - 1]
  <2>1. CASE i <= pos + 1
    <3>1. Placed(s, pos, el)[i] = az[i] /\ i \in 1 .. pos + 1
      BY <2>1, <1>6, <1>7
    <3> QED BY <2>1, <3>1, <1>5 DEF az
  <2>2. CASE ~ (i <= pos + 1)
    <3>1. Placed(s, pos, el)[i] = z[i - (pos + 1)]
      BY <2>2, <1>6, <1>7
    <3>2. i - (pos + 1) \in 1 .. Len(s) - pos /\ pos + (i - (pos + 1)) = i - 1
          /\ ~ (i <= pos) /\ i # pos + 1
      BY <2>2
    <3> QED BY <3>1, <3>2, <1>2
  <2> QED BY <2>1, <2>2
<1> QED BY <1>6, <1>7, <1>8

\* insert, once the place is found.
LEMMA PutAtPlaces ==
  ASSUME NEW m, WellMem(m), NEW v \in Table, NEW pos \in 0 .. Len(Contents(m, v)),
         NEW el \in Elem
  PROVE  Becomes(m, PutAt(m, v, pos, el), v, Placed(Contents(m, v), pos, el))
<1> DEFINE o == RawSpace(m, v, pos, 1)
           s == Contents(m, v)
           g == Gap(s, pos, 1)
<1>1. Becomes(m, o, v, g) /\ o.data[v] # None /\ o.buf[o.data[v]].refCount = 1
  BY RawSpaceOpens
<1>2. s \in Seq(Cell) /\ pos \in 0 .. Len(s) /\ Len(s) \in Nat /\ el \in Cell
  BY ContentsType DEF Cell
<1>3. PutAt(m, v, pos, el)
        = [o EXCEPT !.buf[o.data[v]].cells = [i \in DOMAIN @ |-> IF i = pos + 1 THEN el ELSE @[i]]]
  BY DEF PutAt
<1> DEFINE n == PutAt(m, v, pos, el)
           b == o.data[v]
           h == o.buf[b]
           cells == [i \in DOMAIN h.cells |-> IF i = pos + 1 THEN el ELSE h.cells[i]]
           len == h.len
<1> HIDE DEF o, s
<1>4. WellMem(o) /\ Contents(o, v) = g
  BY <1>1 DEF Becomes
<1> HIDE DEF g
<1>5. b \in Buf /\ h \in Block /\ h.refCount = 1 /\ len <= Len(h.cells)
      /\ len \in Nat /\ h.cells \in Seq(Cell)
  BY <1>1, <1>4, Counted, MemTypes DEF WellMem
<1>6. n = [data |-> o.data, buf |-> [o.buf EXCEPT ![b] = [refCount |-> 1, len |-> len, cells |-> cells]]]
  <2>1. o = [data |-> o.data, buf |-> o.buf]
    BY <1>4, MemTypes
  <2>2. [h EXCEPT !.cells = cells] = [refCount |-> 1, len |-> len, cells |-> cells]
    <3> DEFINE x == cells
               r == h
    <3>1. r \in Block /\ r.refCount = 1
      BY <1>5
    <3> HIDE DEF x, r
    <3>2. PICK l \in Nat, c \in Seq(Cell) : r = [refCount |-> 1, len |-> l, cells |-> c]
      BY <3>1 DEF Block
    <3>3. [r EXCEPT !.cells = x] = [refCount |-> 1, len |-> r.len, cells |-> x]
      BY <3>2
    <3> QED BY <3>3 DEF r, x
  <2>3. n = [data |-> o.data, buf |-> [o.buf EXCEPT ![b] = [h EXCEPT !.cells = cells]]]
    BY <2>1, <1>3
  <2> QED BY <2>2, <2>3
<1>7. cells \in Seq(Cell) /\ Len(cells) = Len(h.cells)
  <2> HIDE DEF h
  <2>1. DOMAIN h.cells = 1 .. Len(h.cells) /\ Len(h.cells) \in Nat
    BY <1>5
  <2>2. cells \in [1 .. Len(h.cells) -> Cell]
    BY <2>1, <1>2, <1>5
  <2> HIDE DEF cells
  <2> QED BY <2>1, <2>2, IsASeq
<1>8. \A i \in 1 .. Len(h.cells) : cells[i] = IF i = pos + 1 THEN el ELSE h.cells[i]
  BY <1>5
<1>9. n.data = o.data
  BY <1>6
<1> HIDE DEF n, cells, len
<1>10. Becomes(o, n, v, SubSeq(cells, 1, len))
  <2>1. len <= Len(cells) /\ len \in Nat
    BY <1>5, <1>7
  <2>2. n = [data |-> o.data,
             buf  |-> [o.buf EXCEPT ![o.data[v]] = [refCount |-> 1, len |-> len, cells |-> cells]]]
    BY <1>6
  <2> QED BY <1>1, <1>4, <1>7, <1>9, <2>1, <2>2, ChangedInPlace
<1>11. Len(g) = len /\ len = Len(s) + 1 /\ g = SubSeq(h.cells, 1, len)
       /\ \A i \in 1 .. len : g[i] = h.cells[i]
  <2>1. /\ Len(g) = h.len /\ g = SubSeq(h.cells, 1, h.len)
        /\ \A i \in 1 .. h.len : g[i] = h.cells[i]
    BY <1>1, <1>4, ContentsType
  <2>2. Len(g) = Len(s) + 1
    BY <1>2, GapFacts DEF g
  <2> QED BY <2>1, <2>2 DEF len
<1>12. \A i \in 1 .. Len(s) + 1 : g[i] = IF i <= pos THEN s[i]
                                         ELSE IF i <= pos + 1 THEN Raw ELSE s[i - 1]
  BY <1>2, GapFacts DEF g
<1>13. SubSeq(cells, 1, len) = Placed(s, pos, el)
  <2>1. /\ Placed(s, pos, el) \in Seq(Cell) /\ Len(Placed(s, pos, el)) = len
        /\ \A i \in 1 .. len :
             Placed(s, pos, el)[i] = IF i <= pos THEN s[i]
                                     ELSE IF i = pos + 1 THEN el ELSE s[i - 1]
    BY <1>2, <1>11, PlacedFacts
  <2>2. /\ SubSeq(cells, 1, len) \in Seq(Cell) /\ Len(SubSeq(cells, 1, len)) = len
        /\ \A i \in 1 .. len : SubSeq(cells, 1, len)[i] = cells[i]
    <3>1. len \in Nat /\ len <= Len(cells)
      BY <1>5, <1>7 DEF len
    <3> QED BY <3>1, <1>7
  <2>3. ASSUME NEW i \in 1 .. len PROVE Placed(s, pos, el)[i] = SubSeq(cells, 1, len)[i]
    <3>1. i \in 1 .. Len(h.cells) /\ i \in 1 .. Len(s) + 1
      BY <1>5, <1>11 DEF len
    <3>2. cells[i] = IF i = pos + 1 THEN el ELSE g[i]
      BY <3>1, <1>8, <1>11
    <3>3. i # pos + 1 => g[i] = IF i <= pos THEN s[i] ELSE s[i - 1]
      <4>1. i # pos + 1 /\ ~ (i <= pos) => ~ (i <= pos + 1)
        OBVIOUS
      <4> QED BY <3>1, <4>1, <1>12
    <3>4. i = pos + 1 => ~ (i <= pos)
      OBVIOUS
    <3> QED BY <2>1, <2>2, <3>2, <3>3, <3>4
  <2> QED BY <2>1, <2>2, <2>3, SeqEqual
<1> QED BY <1>1, <1>10, <1>13, BecomesThen DEF n, s
\* downResize, down to no buffer at all.
LEMMA ShrinkKeeps ==
  ASSUME NEW m, WellMem(m), NEW v \in Table, m.data[v] # None,
         m.buf[m.data[v]].refCount = 1,
         NEW cells \in Seq(Cell), NEW n \in Nat, n <= Len(cells)
  PROVE  Becomes(m, Shrink(m, v, cells, n), v, SubSeq(cells, 1, n))
<1> DEFINE new == DownLen(Len(cells), n)
           c == Realloc(cells, new)
<1>1. Len(cells) \in Nat
  OBVIOUS
<1>2. new \in Nat /\ n <= new
  BY <1>1, Sizes
<1>3. CASE new = 0
  <2>1. n = 0
    BY <1>2, <1>3
  <2>2. SubSeq(cells, 1, n) = <<>>
    BY <2>1
  <2>3. Shrink(m, v, cells, n) = TableEmpty(m, v)
    BY <1>3 DEF Shrink
  <2>4. Becomes(m, TableEmpty(m, v), v, <<>>)
    BY LeftEmpty
  <2> QED BY <2>2, <2>3, <2>4
<1>4. CASE new # 0
  <2>1. Shrink(m, v, cells, n) = InPlace(m, v, c, n)
    BY <1>4 DEF Shrink, InPlace
  <2> HIDE DEF new
  <2>2. /\ c \in Seq(Cell) /\ Len(c) = new
        /\ \A i \in 1 .. new : i <= Len(cells) => c[i] = cells[i]
    BY <1>2, ReallocFacts
  <2> HIDE DEF c
  <2>3. n <= Len(c)
    BY <1>2, <2>2
  <2>4. Becomes(m, InPlace(m, v, c, n), v, SubSeq(c, 1, n))
    BY <2>2, <2>3, ChangedCells
  <2>5. SubSeq(c, 1, n) = SubSeq(cells, 1, n)
    <3>1. /\ SubSeq(c, 1, n) \in Seq(Cell) /\ Len(SubSeq(c, 1, n)) = n
          /\ \A i \in 1 .. n : SubSeq(c, 1, n)[i] = c[i]
      BY <2>2, <2>3
    <3>2. /\ SubSeq(cells, 1, n) \in Seq(Cell) /\ Len(SubSeq(cells, 1, n)) = n
          /\ \A i \in 1 .. n : SubSeq(cells, 1, n)[i] = cells[i]
      OBVIOUS
    <3>3. \A i \in 1 .. n : c[i] = cells[i]
      <4>1. \A i \in 1 .. n : i \in 1 .. new /\ i <= Len(cells)
        BY <1>2, <1>1
      <4> QED BY <4>1, <2>2
    <3> QED BY <3>1, <3>2, <3>3, SeqEqual
  <2> QED BY <2>1, <2>4, <2>5
<1> QED BY <1>3, <1>4

LEMMA RemoveAtCuts ==
  ASSUME NEW m, WellMem(m), NEW v \in Table, m.data[v] # None,
         NEW pos \in 0 .. Len(Contents(m, v)), NEW n \in Nat, pos + n <= Len(Contents(m, v))
  PROVE  Becomes(m, RemoveAt(m, v, pos, n), v, Cut(Contents(m, v), pos, n))
<1> DEFINE b == m.data[v]
           h == m.buf[b]
           old == h.cells
           len == h.len
           els == Contents(m, v)
           o == RemoveAt(m, v, pos, n)
<1>1. /\ b \in Buf /\ old \in Seq(Cell) /\ len \in Nat /\ len <= Len(old)
      /\ h.refCount \in Nat \ {0}
  BY Counted, MemTypes DEF WellMem
<1>2. els \in Seq(Cell) /\ Len(els) = len /\ els = SubSeq(old, 1, len)
  BY ContentsType
<1>3. pos \in 0 .. len /\ pos + n <= len /\ len - n \in Nat /\ len - n <= Len(old)
  <2> HIDE DEF els, len, old
  <2>1. pos \in 0 .. Len(els) /\ pos + n <= Len(els)
    BY DEF els
  <2> QED BY <2>1, <1>1, <1>2
<1>4. CASE h.refCount = 1
  <2> DEFINE cells == MoveLeft(old, len, pos, n)
             k == len - n
  <2>1. o = Shrink(m, v, cells, k)
    BY <1>4 DEF RemoveAt, Header
  <2> HIDE DEF old, len
  <2>2. cells \in Seq(Cell) /\ Len(cells) = Len(old) /\ SubSeq(cells, 1, k) = Cut(els, pos, n)
    <3> HIDE DEF cells, els
    <3>1. cells = MoveLeft(old, len, pos, n)
      BY DEF cells
    <3>2. /\ cells \in Seq(Cell) /\ Len(cells) = Len(old)
          /\ SubSeq(cells, 1, len - n) = Cut(SubSeq(old, 1, len), pos, n)
      <4>1. len \in Nat /\ len <= Len(old) /\ old \in Seq(Cell) /\ pos \in 0 .. len /\ pos + n <= len
        BY <1>1, <1>3
      <4> QED BY <3>1, <4>1, MovedLeft
    <3> QED BY <3>2, <1>2
  <2>3. k \in Nat /\ k <= Len(cells)
    BY <1>3, <2>2
  <2> HIDE DEF cells, k, o
  <2>4. m.buf[m.data[v]].refCount = 1
    BY <1>4
  <2>5. Becomes(m, o, v, SubSeq(cells, 1, k))
    BY <2>1, <2>2, <2>3, <2>4, ShrinkKeeps
  <2> QED BY <2>2, <2>5 DEF o
<1>5. CASE h.refCount # 1
  <2> DEFINE size == DownLen(Len(old), len - n)
             c == Cut(els, pos, n)
  <2>1. o = Dup(m, v, size, c)
    BY <1>5 DEF RemoveAt, Header, Alloc
  <2> HIDE DEF old, len
  <2>2. size \in Nat /\ len - n <= size
    <3> DEFINE k == len - n
    <3>1. k \in Nat /\ Len(old) \in Nat /\ k <= Len(old)
      BY <1>1, <1>3
    <3> HIDE DEF k
    <3>2. DownLen(Len(old), k) \in Nat /\ k <= DownLen(Len(old), k)
      BY <3>1, Sizes
    <3> QED BY <3>2 DEF k
  <2>3. c \in Seq(Cell) /\ Len(c) = len - n
    <3>1. pos \in 0 .. Len(els) /\ pos + n <= Len(els)
      BY <1>2, <1>3
    <3> QED BY <1>2, <3>1, CutFacts
  <2> HIDE DEF size, c, o
  <2>4. m.buf[m.data[v]].refCount # 1 /\ Len(c) <= size
    BY <1>5, <2>2, <2>3
  <2>5. Becomes(m, o, v, c)
    BY <2>1, <2>2, <2>3, <2>4, DupFills
  <2> QED BY <2>5 DEF o, c
<1> QED BY <1>4, <1>5

LEMMA SetAsSets ==
  ASSUME NEW m, WellMem(m), NEW v \in Table, NEW els \in Seq(Cell)
  PROVE  Becomes(m, SetAs(m, v, els), v, els)
<1> DEFINE o == SetAs(m, v, els)
           b == m.data[v]
           h == m.buf[b]
           old == h.cells
           len == h.len
           size == IF Len(els) < len THEN DownLen(Len(old), Len(els))
                   ELSE IF Len(els) > len THEN UpLen(Len(old), Len(els)) ELSE Len(old)
           cells == [i \in 1 .. size |-> IF i <= Len(els) THEN els[i] ELSE Raw]
<1>1. CASE m.data[v] = None
  BY <1>1, FromEmptyFills DEF SetAs
<1>2. CASE m.data[v] # None /\ h.refCount > 1
  <2>1. o = FromEmpty(TableEmpty(m, v), v, els)
    BY <1>2 DEF SetAs
  <2>2. /\ Becomes(m, TableEmpty(m, v), v, <<>>) /\ WellMem(TableEmpty(m, v))
        /\ TableEmpty(m, v).data[v] = None
    BY LeftEmpty
  <2> DEFINE e == TableEmpty(m, v)
  <2> HIDE DEF e, o
  <2>3. Becomes(e, FromEmpty(e, v, els), v, els)
    BY <2>2, FromEmptyFills DEF e
  <2> QED BY <2>1, <2>2, <2>3, BecomesThen DEF e, o
<1>3. CASE m.data[v] # None /\ ~ (h.refCount > 1)
  <2>1. /\ b \in Buf /\ old \in Seq(Cell) /\ len \in Nat /\ len <= Len(old)
        /\ h.refCount \in Nat \ {0}
    BY <1>3, Counted, MemTypes DEF WellMem
  <2>2. m.buf[m.data[v]].refCount = 1
    BY <1>3, <2>1
  <2>3. o = IF size = 0 THEN TableEmpty(m, v)
            ELSE InPlaceToo(m, v, cells, Len(els))
    BY <1>3 DEF SetAs, Alloc, InPlaceToo
  <2> HIDE DEF old, len, o
  <2>4. size \in Nat /\ Len(els) <= size
    <3>1. Len(els) \in Nat /\ Len(old) \in Nat
      BY <2>1
    <3>2. /\ UpLen(Len(old), Len(els)) \in Nat /\ Len(els) <= UpLen(Len(old), Len(els))
          /\ DownLen(Len(old), Len(els)) \in Nat
          /\ Len(els) <= Len(old) => Len(els) <= DownLen(Len(old), Len(els))
      BY <3>1, Sizes
    <3> QED BY <3>1, <3>2, <2>1
  <2> HIDE DEF size
  <2>5. CASE size = 0
    <3>1. els = <<>>
      BY <2>4, <2>5
    <3>2. Becomes(m, TableEmpty(m, v), v, <<>>)
      BY LeftEmpty
    <3> QED BY <3>1, <3>2, <2>3, <2>5 DEF o
  <2>6. CASE size # 0
    <3>1. cells = Realloc(els, size)
      BY DEF Realloc
    <3>2. /\ cells \in Seq(Cell) /\ Len(cells) = size
          /\ \A i \in 1 .. size : i <= Len(els) => cells[i] = els[i]
      BY <3>1, <2>4, ReallocFacts
    <3> HIDE DEF cells
    <3>3. Becomes(m, o, v, SubSeq(cells, 1, Len(els)))
      <4>1. Len(els) \in Nat /\ Len(els) <= Len(cells) /\ o = InPlaceToo(m, v, cells, Len(els))
        BY <2>3, <2>4, <2>6, <3>2
      <4> QED BY <1>3, <2>2, <3>2, <4>1, ChangedCells
    <3>4. SubSeq(cells, 1, Len(els)) = els
      <4>1. /\ SubSeq(cells, 1, Len(els)) \in Seq(Cell)
            /\ Len(SubSeq(cells, 1, Len(els))) = Len(els)
            /\ \A i \in 1 .. Len(els) : SubSeq(cells, 1, Len(els))[i] = cells[i]
        BY <2>4, <3>2
      <4>2. \A i \in 1 .. Len(els) : cells[i] = els[i]
        BY <2>4, <3>2
      <4> QED BY <4>1, <4>2, SeqEqual
    <3> QED BY <3>3, <3>4 DEF o
  <2> QED BY <2>5, <2>6
<1> QED BY <1>1, <1>2, <1>3
LEMMA AssignShares ==
  ASSUME NEW m, WellMem(m), NEW v \in Table, NEW w \in Table, v # w
  PROVE  /\ WellMem(TableAssign(m, v, w))
         /\ \A u \in Table : Contents(TableAssign(m, v, w), u)
                               = IF u = v THEN Contents(m, w) ELSE Contents(m, u)
<1> DEFINE e == TableEmpty(m, v)
           n == TableAssign(m, v, w)
           b == e.data[w]
<1>1. /\ WellMem(e) /\ e.data[v] = None
      /\ \A u \in Table : Contents(e, u) = IF u = v THEN <<>> ELSE Contents(m, u)
  BY LeftEmpty DEF Becomes
<1>2. n = IF b = None THEN e
          ELSE [data |-> [e.data EXCEPT ![v] = b],
                buf  |-> [e.buf EXCEPT ![b].refCount = @ + 1]]
  BY DEF TableAssign
<1> HIDE DEF e, n
<1>3. CASE b = None
  <2>1. Contents(e, w) = <<>>
    BY <1>3 DEF Contents
  <2> QED BY <2>1, <1>1, <1>2, <1>3 DEF n
<1>4. CASE b # None
  <2> DEFINE h == e.buf[b]
             g == [h EXCEPT !.refCount = @ + 1]
  <2>1. b \in Buf /\ h \in Block
    BY <1>1, <1>4, MemTypes
  <2>2. /\ g \in Block /\ g.refCount = h.refCount + 1 /\ g.len = h.len /\ g.cells = h.cells
        /\ h.refCount \in Nat \ {0} /\ h.len <= Len(h.cells)
        /\ h.refCount = Cardinality(Pointing(e, b))
    <3>1. h.refCount \in Nat \ {0} /\ h.len <= Len(h.cells) /\ h.refCount = Cardinality(Pointing(e, b))
      BY <1>1, <1>4, <2>1, Counted DEF WellMem
    <3> HIDE DEF h
    <3>2. PICK r \in Nat, l \in Nat, c \in Seq(Cell) : h = [refCount |-> r, len |-> l, cells |-> c]
      BY <2>1 DEF Block
    <3>3. g = [refCount |-> r + 1, len |-> l, cells |-> c]
      BY <3>2
    <3>4. r + 1 \in Nat
      BY <3>2
    <3>5. g \in Block
      BY <3>3, <3>4 DEF Block
    <3> QED BY <3>1, <3>2, <3>3, <3>5
  <2>3. n = [data |-> [e.data EXCEPT ![v] = b], buf |-> [e.buf EXCEPT ![b] = g]]
    BY <1>2, <1>4
  <2> HIDE DEF g, h
  <2>4. /\ n.data = [e.data EXCEPT ![v] = b] /\ n.data \in [Table -> Buf \cup {None}]
        /\ n.data[v] = b /\ \A u \in Table \ {v} : n.data[u] = e.data[u]
    BY <2>1, <2>3, <1>1, MemTypes
  <2>5. /\ n.buf[b] = g /\ n.buf \in [Buf -> Block]
        /\ \A c \in Buf \ {b} : n.buf[c] = e.buf[c]
    BY <2>1, <2>2, <2>3, <1>1, MemTypes
  <2>6. Cardinality(Pointing(n, b)) = h.refCount + 1
    <3>1. b # e.data[v] /\ n.data = [e.data EXCEPT ![v] = b]
      BY <1>1, <1>4, <2>4
    <3> HIDE DEF b
    <3>2. Cardinality(Pointing(n, b)) = Cardinality(Pointing(e, b)) + 1
      BY <1>1, <2>1, <3>1, Redirected
    <3> QED BY <3>2, <2>2
  <2>7. \A c \in Buf \ {b} : Pointing(n, c) = Pointing(e, c)
    <3> TAKE c \in Buf \ {b}
    <3>1. c # None /\ c # b
      BY NoneNoBuf
    <3>2. n.data[v] = b /\ e.data[v] = None /\ \A u \in Table \ {v} : n.data[u] = e.data[u]
      BY <1>1, <2>4
    <3> HIDE DEF b
    <3> QED BY <3>1, <3>2 DEF Pointing
  <2>8. WellMem(n)
    <3>1. n \in [data : [Table -> Buf \cup {None}], buf : [Buf -> Block]]
      BY <2>3, <2>4, <2>5
    <3>2. ASSUME NEW c \in Buf
          PROVE  /\ n.buf[c].len <= Len(n.buf[c].cells)
                 /\ n.buf[c].refCount = Cardinality(Pointing(n, c))
                 /\ n.buf[c].refCount = 0 => n.buf[c] = Free
      <4>1. CASE c = b
        BY <4>1, <2>2, <2>5, <2>6
      <4>2. CASE c # b
        BY <4>2, <1>1, <2>5, <2>7 DEF WellMem
      <4> QED BY <4>1, <4>2
    <3> QED BY <3>1, <3>2 DEF WellMem
  <2>9. ASSUME NEW u \in Table
        PROVE  Contents(n, u) = IF u = v THEN Contents(e, w) ELSE Contents(e, u)
    <3> DEFINE x == IF u = v THEN w ELSE u
    <3>1. x \in Table /\ n.data[u] = e.data[x]
      BY <2>4
    <3>2. e.data[x] # None => /\ n.buf[e.data[x]].len = e.buf[e.data[x]].len
                              /\ n.buf[e.data[x]].cells = e.buf[e.data[x]].cells
      <4>1. CASE e.data[x] = b
        BY <4>1, <2>2, <2>5 DEF h
      <4>2. CASE e.data[x] # b /\ e.data[x] # None
        <5>1. e.data[x] \in Buf \ {b}
          BY <4>2, <3>1, <1>1, MemTypes
        <5> QED BY <5>1, <2>5
      <4> QED BY <4>1, <4>2
    <3> HIDE DEF x
    <3>3. Contents(n, u) = Contents(e, x)
      BY <3>1, <3>2 DEF Contents, Header
    <3> QED BY <3>3 DEF x
  <2> QED BY <2>8, <2>9, <1>1 DEF n
<1> QED BY <1>3, <1>4

LEMMA DuplicateCopies ==
  ASSUME NEW m, WellMem(m), Own(m), NEW v \in Table, m.data[v] = None, NEW w \in Table
  PROVE  Becomes(m, TableDuplicate(m, v, w), v, Contents(m, w))
<1> DEFINE n == TableDuplicate(m, v, w)
           b == NewBuf(m)
           h == m.buf[m.data[w]]
<1>1. CASE m.data[w] = None
  <2>1. n = m /\ Contents(m, v) = <<>> /\ Contents(m, w) = <<>>
    BY <1>1 DEF TableDuplicate, Contents
  <2> QED BY <2>1 DEF Becomes
<1>2. CASE m.data[w] # None
  <2>1. /\ m.data[w] \in Buf /\ h \in Block /\ h.refCount = 1 /\ h.len <= Len(h.cells)
        /\ h.len \in Nat /\ h.cells \in Seq(Cell)
    <3>1. m.data[w] \in Buf /\ h \in Block /\ h.refCount \in Nat \ {0} /\ h.len <= Len(h.cells)
          /\ h.len \in Nat /\ h.cells \in Seq(Cell)
      BY <1>2, Counted, MemTypes DEF WellMem
    <3>2. h.refCount <= 1
      BY <3>1 DEF Own
    <3> HIDE DEF h
    <3> QED BY <3>1, <3>2
  <2>2. b \in Buf /\ (\A u \in Table : m.data[u] # b) /\ b # None
    BY NewBufFree, NoneNoBuf
  <2>3. n = [data |-> [m.data EXCEPT ![v] = b], buf |-> [m.buf EXCEPT ![b] = h]]
    BY <1>2 DEF TableDuplicate, Header
  <2> HIDE DEF b, h, n
  <2>4. /\ n.data = [m.data EXCEPT ![v] = b] /\ n.data \in [Table -> Buf \cup {None}]
        /\ n.data[v] = b /\ \A u \in Table \ {v} : n.data[u] = m.data[u]
    BY <2>2, <2>3, MemTypes
  <2>5. n.buf[b] = h /\ n.buf \in [Buf -> Block] /\ \A c \in Buf \ {b} : n.buf[c] = m.buf[c]
    BY <2>1, <2>2, <2>3, MemTypes
  <2>6. Cardinality(Pointing(n, b)) = 1
    <3>1. b # m.data[v] /\ n.data = [m.data EXCEPT ![v] = b]
      BY <2>2, <2>4
    <3>2. Cardinality(Pointing(n, b)) = Cardinality(Pointing(m, b)) + 1
      BY <3>1, <2>2, Redirected
    <3>3. Pointing(m, b) = {}
      BY <2>2 DEF Pointing
    <3> QED BY <3>2, <3>3, FS_EmptySet
  <2>7. \A c \in Buf \ {b} : Pointing(n, c) = Pointing(m, c)
    <3> TAKE c \in Buf \ {b}
    <3>1. c # m.data[v] /\ c # b /\ n.data = [m.data EXCEPT ![v] = b]
      BY NoneNoBuf, <2>4
    <3> QED BY <3>1, Redirected
  <2>8. WellMem(n)
    <3>1. n \in [data : [Table -> Buf \cup {None}], buf : [Buf -> Block]]
      BY <2>3, <2>4, <2>5
    <3>2. ASSUME NEW c \in Buf
          PROVE  /\ n.buf[c].len <= Len(n.buf[c].cells)
                 /\ n.buf[c].refCount = Cardinality(Pointing(n, c))
                 /\ n.buf[c].refCount = 0 => n.buf[c] = Free
      <4>1. CASE c = b
        BY <4>1, <2>1, <2>5, <2>6
      <4>2. CASE c # b
        BY <4>2, <2>5, <2>7 DEF WellMem
      <4> QED BY <4>1, <4>2
    <3> QED BY <3>1, <3>2 DEF WellMem
  <2>9. Contents(n, v) = Contents(m, w)
    <3>1. n.data[v] # None /\ n.buf[n.data[v]] = m.buf[m.data[w]]
      BY <2>2, <2>4, <2>5 DEF h
    <3> QED BY <3>1, <1>2 DEF Contents, Header
  <2>10. ASSUME NEW u \in Table \ {v} PROVE Contents(n, u) = Contents(m, u)
    <3>1. n.data[u] = m.data[u] /\ (m.data[u] # None => m.data[u] \in Buf \ {b})
      BY <2>2, <2>4, MemTypes
    <3>2. m.data[u] # None => n.buf[m.data[u]] = m.buf[m.data[u]]
      BY <3>1, <2>5
    <3> QED BY <3>1, <3>2 DEF Contents, Header
  <2>11. Own(n)
    BY <2>1, <2>5 DEF Own
  <2> QED BY <2>8, <2>9, <2>10, <2>11 DEF Becomes, n
<1> QED BY <1>1, <1>2

\* The buffer moves with what it holds.
LEMMA TransferMoves ==
  ASSUME NEW m, WellMem(m), NEW v \in Table, NEW w \in Table, v # w
  PROVE  /\ WellMem(TableTransfer(m, v, w))
         /\ \A u \in Table : Contents(TableTransfer(m, v, w), u)
                               = IF u = v THEN Contents(m, w)
                                 ELSE IF u = w THEN <<>> ELSE Contents(m, u)
         /\ Own(m) => Own(TableTransfer(m, v, w))
<1> DEFINE e == TableEmpty(m, v)
           n == TableTransfer(m, v, w)
           data == [[e.data EXCEPT ![v] = m.data[w]] EXCEPT ![w] = None]
<1>1. /\ WellMem(e) /\ e.data[v] = None /\ e.data[w] = m.data[w]
      /\ \A u \in Table : Contents(e, u) = IF u = v THEN <<>> ELSE Contents(m, u)
      /\ Own(m) => Own(e)
  BY LeftEmpty DEF Becomes
<1>2. n = [e EXCEPT !.data[v] = m.data[w], !.data[w] = None]
  BY DEF TableTransfer
<1> HIDE DEF e, n
<1>3. n = [data |-> data, buf |-> e.buf]
  <2>1. e = [data |-> e.data, buf |-> e.buf]
    BY <1>1, MemTypes
  <2> QED BY <1>2, <2>1
<1>4. /\ n.data \in [Table -> Buf \cup {None}] /\ n.buf = e.buf
      /\ n.data[v] = e.data[w] /\ n.data[w] = None
      /\ \A u \in Table \ {v, w} : n.data[u] = e.data[u]
  <2>1. e.data \in [Table -> Buf \cup {None}]
    BY <1>1, MemTypes
  <2> QED BY <1>1, <1>3, <2>1
<1>5. ASSUME NEW b \in Buf PROVE Cardinality(Pointing(n, b)) = Cardinality(Pointing(e, b))
  <2>1. b # None
    BY NoneNoBuf
  <2>2. CASE b # e.data[w]
    <3>1. Pointing(n, b) = Pointing(e, b)
      BY <1>1, <1>4, <2>1, <2>2 DEF Pointing
    <3> QED BY <3>1
  <2>3. CASE b = e.data[w]
    <3> DEFINE P == Pointing(e, b) \ {w}
    <3>1. w \in Pointing(e, b) /\ v \notin P /\ Pointing(n, b) = P \cup {v}
      BY <1>1, <1>4, <2>1, <2>3 DEF Pointing
    <3>2. IsFiniteSet(P) /\ Cardinality(P) = Cardinality(Pointing(e, b)) - 1
      BY <3>1, PointingFinite, FS_RemoveElement
    <3>3. Cardinality(P \cup {v}) = Cardinality(P) + 1
      <4> HIDE DEF P
      <4> QED BY <3>1, <3>2, FS_AddElement
    <3>4. Cardinality(Pointing(e, b)) \in Nat
      BY PointingFinite
    <3> HIDE DEF P
    <3> QED BY <3>1, <3>2, <3>3, <3>4
  <2> QED BY <2>2, <2>3
<1>6. WellMem(n)
  <2>1. n \in [data : [Table -> Buf \cup {None}], buf : [Buf -> Block]]
    <3>1. e.buf \in [Buf -> Block]
      BY <1>1, MemTypes
    <3> QED BY <3>1, <1>3, <1>4
  <2>2. \A b \in Buf : /\ n.buf[b].len <= Len(n.buf[b].cells)
                       /\ n.buf[b].refCount = Cardinality(Pointing(n, b))
                       /\ n.buf[b].refCount = 0 => n.buf[b] = Free
    BY <1>1, <1>4, <1>5 DEF WellMem
  <2> QED BY <2>1, <2>2 DEF WellMem
<1>7. ASSUME NEW u \in Table
      PROVE  Contents(n, u) = IF u = v THEN Contents(e, w)
                              ELSE IF u = w THEN <<>> ELSE Contents(e, u)
  BY <1>4 DEF Contents, Header
<1>8. Own(m) => Own(n)
  BY <1>1, <1>4 DEF Own
<1> QED BY <1>1, <1>6, <1>7, <1>8 DEF n
----------------------------------------------------------------------------
(* The binary search.                                                      *)

Sorted(s) == \A i, j \in 1 .. Len(s) : i < j => KeyOf(s[i]) <= KeyOf(s[j])

LEMMA ElemKeys ==
  ASSUME NEW els \in Seq(Elem), NEW i \in 1 .. Len(els)
  PROVE  els[i] \in Elem /\ KeyOf(els[i]) \in Nat
<1>1. els[i] \in Elem
  OBVIOUS
<1> QED BY <1>1, AvlKeys DEF Elem, KeyOf

\* Where key is in els, or where it would go.
Answers(els, key) ==
  {[found |-> TRUE, at |-> p] : p \in {q \in 0 .. Len(els) - 1 : KeyOf(els[q + 1]) = key}}
  \cup {[found |-> FALSE, at |-> p] : p \in
          {q \in 0 .. Len(els) : \A i \in 1 .. Len(els) : IF i <= q THEN KeyOf(els[i]) < key
                                                          ELSE key < KeyOf(els[i])}}

LEMMA SearchFinds ==
  ASSUME NEW els \in Seq(Elem), Sorted(els), NEW key \in Nat
  PROVE  Search(els, key) \in Answers(els, key)
<1> DEFINE N == Len(els)
           D == (0 .. N) \X (-1 .. N - 1)
           Mid(p) == p[1] + (p[2] - p[1]) \div 2
           Key1(p) == KeyOf(els[Mid(p) + 1])
           body(f, p) ==
             LET lower == p[1]
                 upper == p[2]
                 mid   == lower + (upper - lower) \div 2
                 k     == KeyOf(els[mid + 1])
             IN  IF upper < lower THEN [found |-> FALSE, at |-> lower]
                 ELSE IF key < k THEN f[<<lower, mid - 1>>]
                 ELSE IF key > k THEN f[<<mid + 1, upper>>]
                 ELSE [found |-> TRUE, at |-> mid]
           from == CHOOSE f : f = [p \in D |-> body(f, p)]
           stop == {p \in D : p[2] < p[1] \/ Key1(p) = key}
           val == [p \in D |-> IF p[2] < p[1] THEN [found |-> FALSE, at |-> p[1]]
                               ELSE [found |-> TRUE, at |-> Mid(p)]]
           next == [p \in D |-> IF key < Key1(p) THEN <<p[1], Mid(p) - 1>>
                                ELSE <<Mid(p) + 1, p[2]>>]
           rank == [p \in D |-> IF p[2] < p[1] THEN 0 ELSE p[2] - p[1] + 1]
           V == [found : BOOLEAN, at : Int]
<1>1. Search(els, key) = from[<<0, N - 1>>]
  BY DEF Search
<1>2. N \in Nat
  OBVIOUS
<1>3. ASSUME NEW p \in D, p \notin stop
      PROVE  /\ p[1] \in 0 .. N /\ p[2] \in -1 .. N - 1 /\ p[1] <= p[2]
             /\ Mid(p) \in p[1] .. p[2] /\ Mid(p) + 1 \in 1 .. N
             /\ Key1(p) \in Nat /\ Key1(p) # key
  <2>1. p[1] \in 0 .. N /\ p[2] \in -1 .. N - 1
    OBVIOUS
  <2>2. ~ (p[2] < p[1]) /\ Key1(p) # key
    BY <1>3
  <2>3. p[1] <= p[2]
    BY <2>1, <2>2
  <2>4. \A a, b \in Int : a <= b => a + (b - a) \div 2 \in a .. b
    OBVIOUS
  <2>5. Mid(p) \in p[1] .. p[2]
    BY <2>1, <2>3, <2>4
  <2>6. Mid(p) + 1 \in 1 .. N
    BY <2>1, <2>5
  <2>7. Key1(p) \in Nat
    BY <2>6, ElemKeys
  <2> QED BY <2>1, <2>2, <2>3, <2>5, <2>6, <2>7
<1>4. rank \in [D -> Nat] /\ (\A p \in D : rank[p] < N + 1) /\ N + 1 \in Nat
  <2>1. ASSUME NEW p \in D PROVE rank[p] \in Nat /\ rank[p] < N + 1
    <3>1. p[1] \in 0 .. N /\ p[2] \in -1 .. N - 1
      OBVIOUS
    <3> QED BY <3>1, <1>2
  <2> QED BY <2>1, <1>2
<1>5. val \in [D -> V]
  <2>1. \A p \in D : p[1] \in Int /\ p[2] \in Int /\ Mid(p) \in Int
    OBVIOUS
  <2> QED BY <2>1
<1>6. ASSUME NEW p \in D, p \notin stop
      PROVE  next[p] \in D /\ rank[next[p]] < rank[p]
  <2> DEFINE m == Mid(p)
  <2>1. /\ p[1] \in 0 .. N /\ p[2] \in -1 .. N - 1 /\ p[1] <= p[2]
        /\ m \in p[1] .. p[2]
    BY <1>3, <1>6
  <2>2. rank[p] = p[2] - p[1] + 1
    BY <2>1
  <2> HIDE DEF m
  <2>3. <<p[1], m - 1>> \in D /\ rank[<<p[1], m - 1>>] < rank[p]
    BY <2>1, <2>2
  <2>4. <<m + 1, p[2]>> \in D /\ rank[<<m + 1, p[2]>>] < rank[p]
    BY <2>1, <2>2
  <2> QED BY <2>3, <2>4 DEF m
<1>7. \E f : f = [p \in D |-> body(f, p)]
  <2>1. PICK f \in [D -> V] : Again(f, D, stop, val, next)
    <3> HIDE DEF D, V, rank, stop, val, next, N
    <3> QED BY <1>4, <1>5, <1>6, AgainExists
  <2>2. ASSUME NEW p \in D PROVE f[p] = body(f, p)
    <3>1. f[p] = IF p \in stop THEN val[p] ELSE f[next[p]]
      <4> HIDE DEF D, V, rank, stop, val, next
      <4> QED BY <2>1 DEF Again
    <3>2. CASE p[2] < p[1]
      <4>1. p \in stop /\ val[p] = [found |-> FALSE, at |-> p[1]]
        BY <3>2
      <4> QED BY <3>1, <3>2, <4>1
    <3>3. CASE ~ (p[2] < p[1]) /\ Key1(p) = key
      <4>1. p \in stop /\ val[p] = [found |-> TRUE, at |-> Mid(p)]
        BY <3>3
      <4> QED BY <3>1, <3>3, <4>1
    <3>4. CASE ~ (p[2] < p[1]) /\ Key1(p) # key
      <4>1. p \notin stop
        BY <3>4
      <4>2. Key1(p) \in Nat
        <5> HIDE DEF D, stop, Key1
        <5> QED BY <4>1, <1>3
      <4>3. CASE key < Key1(p)
        <5>1. next[p] = <<p[1], Mid(p) - 1>>
          BY <4>3
        <5> QED BY <3>1, <3>4, <4>1, <4>3, <5>1
      <4>4. CASE ~ (key < Key1(p))
        <5>1. next[p] = <<Mid(p) + 1, p[2]>> /\ key > Key1(p)
          BY <3>4, <4>2, <4>4
        <5> QED BY <3>1, <3>4, <4>1, <4>4, <5>1
      <4> QED BY <4>3, <4>4
    <3> QED BY <3>2, <3>3, <3>4
  <2>3. f = [p \in D |-> body(f, p)]
    <3> HIDE DEF body, D, V
    <3> QED BY <2>1, <2>2
  <2> QED BY <2>3
<1>8. from = [p \in D |-> body(from, p)]
  <2> HIDE DEF body, D
  <2> QED BY <1>7
<1> HIDE DEF from
<1>9. Again(from, D, stop, val, next)
  <2>1. ASSUME NEW p \in D
        PROVE  body(from, p) = IF p \in stop THEN val[p] ELSE from[next[p]]
    <3>1. CASE p[2] < p[1]
      <4>1. p \in stop /\ val[p] = [found |-> FALSE, at |-> p[1]]
        BY <3>1
      <4> QED BY <3>1, <4>1
    <3>2. CASE ~ (p[2] < p[1]) /\ Key1(p) = key
      <4>1. p \in stop /\ val[p] = [found |-> TRUE, at |-> Mid(p)]
        BY <3>2
      <4> QED BY <3>2, <4>1
    <3>3. CASE ~ (p[2] < p[1]) /\ Key1(p) # key
      <4>1. p \notin stop
        BY <3>3
      <4>2. Key1(p) \in Nat
        <5> HIDE DEF D, stop, Key1
        <5> QED BY <4>1, <1>3
      <4>3. CASE key < Key1(p)
        <5>1. next[p] = <<p[1], Mid(p) - 1>>
          BY <4>3
        <5> QED BY <3>3, <4>1, <4>3, <5>1
      <4>4. CASE ~ (key < Key1(p))
        <5>1. next[p] = <<Mid(p) + 1, p[2]>> /\ key > Key1(p)
          BY <3>3, <4>2, <4>4
        <5> QED BY <3>3, <4>1, <4>4, <5>1
      <4> QED BY <4>3, <4>4
    <3> QED BY <3>1, <3>2, <3>3
  <2>2. from = [p \in D |-> IF p \in stop THEN val[p] ELSE from[next[p]]]
    <3> HIDE DEF body, D, stop, val, next
    <3> QED BY <1>8, <2>1
  <2> HIDE DEF D, stop, val, next
  <2> QED BY <2>2 DEF Again
<1> DEFINE good == {p \in D : /\ p[1] <= p[2] + 1
                              /\ \A i \in 1 .. N : i <= p[1] => KeyOf(els[i]) < key
                              /\ \A i \in 1 .. N : i > p[2] + 1 => key < KeyOf(els[i])}
           R == Answers(els, key)
<1>10. ASSUME NEW p \in good, p \in stop PROVE val[p] \in R
  <2>1. p[1] \in 0 .. N /\ p[2] \in -1 .. N - 1 /\ p[1] <= p[2] + 1
    OBVIOUS
  <2>2. CASE p[2] < p[1]
    <3>1. p[1] = p[2] + 1
      BY <2>1, <2>2
    <3>2. val[p] = [found |-> FALSE, at |-> p[1]]
      BY <2>2
    <3>3. \A i \in 1 .. N : IF i <= p[1] THEN KeyOf(els[i]) < key ELSE key < KeyOf(els[i])
      BY <2>1, <3>1
    <3> HIDE DEF val, good, stop, D
    <3> QED BY <2>1, <3>2, <3>3 DEF Answers
  <2>3. CASE ~ (p[2] < p[1])
    <3>1. Key1(p) = key /\ val[p] = [found |-> TRUE, at |-> Mid(p)]
      BY <1>10, <2>3
    <3>2. \A a, b \in Int : a <= b => a + (b - a) \div 2 \in a .. b
      OBVIOUS
    <3>3. Mid(p) \in p[1] .. p[2]
      BY <2>1, <2>3, <3>2
    <3>4. Mid(p) \in 0 .. N - 1
      BY <2>1, <3>3
    <3> HIDE DEF val, good, stop, D, Mid
    <3> QED BY <3>1, <3>4 DEF Answers
  <2> QED BY <2>2, <2>3
<1>11. ASSUME NEW p \in good, p \notin stop
       PROVE  next[p] \in good /\ rank[next[p]] < rank[p]
  <2> DEFINE m == Mid(p)
  <2>1. p \in D
    OBVIOUS
  <2>2. next[p] \in D /\ rank[next[p]] < rank[p]
    <3> HIDE DEF D, stop, rank, next
    <3> QED BY <1>6, <1>11, <2>1
  <2>3. /\ p[1] \in 0 .. N /\ p[2] \in -1 .. N - 1 /\ p[1] <= p[2]
        /\ m \in p[1] .. p[2] /\ m + 1 \in 1 .. N
        /\ KeyOf(els[m + 1]) \in Nat /\ KeyOf(els[m + 1]) # key
    <3> HIDE DEF D, stop
    <3> QED BY <1>3, <1>11, <2>1
  <2>4. \A i \in 1 .. N : KeyOf(els[i]) \in Nat
    BY ElemKeys
  <2>5. \A i, j \in 1 .. N : i < j => KeyOf(els[i]) <= KeyOf(els[j])
    BY DEF Sorted
  <2>6. /\ \A i \in 1 .. N : i <= p[1] => KeyOf(els[i]) < key
        /\ \A i \in 1 .. N : i > p[2] + 1 => key < KeyOf(els[i])
    OBVIOUS
  <2>7. CASE key < KeyOf(els[m + 1])
    <3>1. next[p] = <<p[1], m - 1>>
      BY <2>7
    <3>2. ASSUME NEW i \in 1 .. N, i > m PROVE key < KeyOf(els[i])
      <4> HIDE DEF m
      <4>1. i = m + 1 \/ m + 1 < i
        BY <2>3, <3>2
      <4> QED BY <2>3, <2>4, <2>5, <2>7, <4>1
    <3>3. p[1] <= m - 1 + 1
      <4> HIDE DEF m
      <4> QED BY <2>3
    <3> HIDE DEF D, stop, rank, next, m
    <3> QED BY <2>2, <2>3, <2>6, <3>1, <3>2, <3>3
  <2>8. CASE ~ (key < KeyOf(els[m + 1]))
    <3>1. next[p] = <<m + 1, p[2]>>
      BY <2>8
    <3>2. ASSUME NEW i \in 1 .. N, i <= m + 1 PROVE KeyOf(els[i]) < key
      <4> HIDE DEF m
      <4>1. KeyOf(els[m + 1]) < key
        BY <2>3, <2>8
      <4>2. i = m + 1 \/ i < m + 1
        BY <2>3, <3>2
      <4> QED BY <2>3, <2>4, <2>5, <4>1, <4>2
    <3>3. m + 1 <= p[2] + 1
      <4> HIDE DEF m
      <4> QED BY <2>3
    <3> HIDE DEF D, stop, rank, next, m
    <3> QED BY <2>2, <2>3, <2>6, <3>1, <3>2, <3>3
  <2> QED BY <2>7, <2>8
<1>12. <<0, N - 1>> \in good
  BY <1>2
<1>13. \A p \in good : from[p] \in R
  <2>1. good \in SUBSET D
    OBVIOUS
  <2>2. rank \in [D -> Nat]
    BY <1>4
  <2> HIDE DEF good, D, stop, val, next, rank, R, N, V
  <2>3. \A p \in good : p \in stop => val[p] \in R
    BY <1>10
  <2>4. \A p \in good : p \notin stop => next[p] \in good /\ rank[next[p]] < rank[p]
    BY <1>11
  <2>5. Arrives(D, rank, stop, val, next, good, R)
    BY <2>1, <2>2, <2>3, <2>4 DEF Arrives
  <2> QED BY <1>9, <2>5, AgainFacts
<1> HIDE DEF good, D, N
<1> QED BY <1>1, <1>12, <1>13
\* findMulti looks downward and upward from the element found.
Down(els, key) == CHOOSE f : f = [i \in -1 .. Len(els) - 1 |->
                                    IF i = -1 THEN 0
                                    ELSE IF KeyOf(els[i + 1]) # key THEN i + 1 ELSE f[i - 1]]
Up(els, key) == CHOOSE f : f = [i \in 0 .. Len(els) |->
                                  IF i = Len(els) THEN i - 1
                                  ELSE IF KeyOf(els[i + 1]) # key THEN i - 1 ELSE f[i + 1]]

\* Keys down to low, but not the one before, are key.
RunsDownTo(els, key, mid, low) ==
  /\ low \in 0 .. mid
  /\ \A i \in 1 .. Len(els) : low < i /\ i <= mid => KeyOf(els[i]) = key
  /\ low > 0 => KeyOf(els[low]) # key

LEMMA ScansDown ==
  ASSUME NEW els \in Seq(Elem), NEW key \in Nat, NEW mid \in 0 .. Len(els) - 1, NEW low,
         low = Down(els, key)
  PROVE  RunsDownTo(els, key, mid, low[mid - 1])
<1> DEFINE N == Len(els)
           D == -1 .. N - 1
           stop == {i \in D : i = -1 \/ KeyOf(els[i + 1]) # key}
           val == [i \in D |-> i + 1]
           next == [i \in D |-> i - 1]
           rank == [i \in D |-> i + 1]
           body(f, i) == IF i = -1 THEN 0
                         ELSE IF KeyOf(els[i + 1]) # key THEN i + 1 ELSE f[i - 1]
           good == {p \in D : p < mid /\ \A i \in 1 .. N : p + 1 < i /\ i <= mid => KeyOf(els[i]) = key}
           R == {l \in 0 .. mid : /\ \A i \in 1 .. N : l < i /\ i <= mid => KeyOf(els[i]) = key
                                  /\ l > 0 => KeyOf(els[l]) # key}
<1>1. N \in Nat /\ N + 1 \in Nat
  OBVIOUS
<1>2. rank \in [D -> Nat] /\ val \in [D -> Nat] /\ \A p \in D : rank[p] < N + 1
  BY <1>1
<1>3. \A p \in D : p \notin stop => next[p] \in D /\ rank[next[p]] < rank[p]
  BY <1>1
<1>4. ASSUME NEW f, NEW p \in D
      PROVE  body(f, p) = IF p \in stop THEN val[p] ELSE f[next[p]]
  OBVIOUS
<1>5. PICK g \in [D -> Nat] : Again(g, D, stop, val, next)
  <2> HIDE DEF D, stop, val, next, rank, N
  <2> QED BY <1>1, <1>2, <1>3, AgainExists
<1>6. g = [p \in D |-> body(g, p)]
  <2>1. g = [p \in D |-> IF p \in stop THEN val[p] ELSE g[next[p]]]
    <3> HIDE DEF D, stop, val, next
    <3> QED BY <1>5 DEF Again
  <2> HIDE DEF body, D, stop, val, next
  <2> QED BY <2>1, <1>4
<1>7. low = CHOOSE f : f = [p \in D |-> body(f, p)]
  BY DEF Down
<1>8. low = [p \in D |-> body(low, p)]
  <2> HIDE DEF body, D
  <2> QED BY <1>6, <1>7
<1>9. Again(low, D, stop, val, next)
  <2>1. low = [p \in D |-> IF p \in stop THEN val[p] ELSE low[next[p]]]
    <3> HIDE DEF body, D, stop, val, next
    <3> QED BY <1>8, <1>4
  <2> HIDE DEF D, stop, val, next
  <2> QED BY <2>1 DEF Again
<1>10. Arrives(D, rank, stop, val, next, good, R)
  <2>1. \A p \in good : p \in stop => val[p] \in R
    BY <1>1
  <2>2. \A p \in good : p \notin stop => next[p] \in good
    BY <1>1
  <2>3. \A p \in good : p \notin stop => next[p] \in good /\ rank[next[p]] < rank[p]
    <3>1. good \subseteq D
      OBVIOUS
    <3> HIDE DEF good, stop, next, rank, D
    <3> QED BY <2>2, <1>3, <3>1
  <2>4. good \subseteq D
    OBVIOUS
  <2> HIDE DEF good, stop, next, rank, D, val, R
  <2> QED BY <1>2, <2>1, <2>3, <2>4 DEF Arrives
<1>11. mid - 1 \in good
  BY <1>1
<1>12. low[mid - 1] \in R
  <2> HIDE DEF good, stop, next, rank, D, val, R
  <2> QED BY <1>9, <1>10, <1>11, AgainFacts
<1> QED BY <1>12 DEF RunsDownTo

\* Keys up to high, but not the next, are key.
RunsUpTo(els, key, mid, high) ==
  /\ high \in mid .. Len(els) - 1
  /\ \A i \in 1 .. Len(els) : mid + 1 < i /\ i <= high + 1 => KeyOf(els[i]) = key
  /\ high < Len(els) - 1 => KeyOf(els[high + 2]) # key

LEMMA ScansUp ==
  ASSUME NEW els \in Seq(Elem), NEW key \in Nat, NEW mid \in 0 .. Len(els) - 1, NEW high,
         high = Up(els, key)
  PROVE  RunsUpTo(els, key, mid, high[mid + 1])
<1> DEFINE N == Len(els)
           D == 0 .. N
           stop == {i \in D : i = N \/ KeyOf(els[i + 1]) # key}
           val == [i \in D |-> i - 1]
           next == [i \in D |-> i + 1]
           rank == [i \in D |-> N - i]
           body(f, i) == IF i = N THEN i - 1
                         ELSE IF KeyOf(els[i + 1]) # key THEN i - 1 ELSE f[i + 1]
           good == {p \in D : mid < p /\ \A i \in 1 .. N : mid + 1 < i /\ i <= p => KeyOf(els[i]) = key}
           R == {h \in mid .. N - 1 :
                   /\ \A i \in 1 .. N : mid + 1 < i /\ i <= h + 1 => KeyOf(els[i]) = key
                   /\ h < N - 1 => KeyOf(els[h + 2]) # key}
<1>1. N \in Nat /\ N + 1 \in Nat
  OBVIOUS
<1>2. rank \in [D -> Nat] /\ val \in [D -> Int] /\ \A p \in D : rank[p] < N + 1
  BY <1>1
<1>3. \A p \in D : p \notin stop => next[p] \in D /\ rank[next[p]] < rank[p]
  BY <1>1
<1>4. ASSUME NEW f, NEW p \in D
      PROVE  body(f, p) = IF p \in stop THEN val[p] ELSE f[next[p]]
  OBVIOUS
<1>5. PICK g \in [D -> Int] : Again(g, D, stop, val, next)
  <2> HIDE DEF D, stop, val, next, rank, N
  <2> QED BY <1>1, <1>2, <1>3, AgainExists
<1>6. g = [p \in D |-> body(g, p)]
  <2>1. g = [p \in D |-> IF p \in stop THEN val[p] ELSE g[next[p]]]
    <3> HIDE DEF D, stop, val, next
    <3> QED BY <1>5 DEF Again
  <2> HIDE DEF body, D, stop, val, next
  <2> QED BY <2>1, <1>4
<1>7. high = CHOOSE f : f = [p \in D |-> body(f, p)]
  BY DEF Up
<1>8. high = [p \in D |-> body(high, p)]
  <2> HIDE DEF body, D
  <2> QED BY <1>6, <1>7
<1>9. Again(high, D, stop, val, next)
  <2>1. high = [p \in D |-> IF p \in stop THEN val[p] ELSE high[next[p]]]
    <3> HIDE DEF body, D, stop, val, next
    <3> QED BY <1>8, <1>4
  <2> HIDE DEF D, stop, val, next
  <2> QED BY <2>1 DEF Again
<1>10. Arrives(D, rank, stop, val, next, good, R)
  <2>1. \A p \in good : p \in stop => val[p] \in R
    BY <1>1
  <2>2. \A p \in good : p \notin stop => next[p] \in good
    BY <1>1
  <2>3. \A p \in good : p \notin stop => next[p] \in good /\ rank[next[p]] < rank[p]
    <3>1. good \subseteq D
      OBVIOUS
    <3> HIDE DEF good, stop, next, rank, D
    <3> QED BY <2>2, <1>3, <3>1
  <2>4. good \subseteq D
    OBVIOUS
  <2> HIDE DEF good, stop, next, rank, D, val, R
  <2> QED BY <1>2, <2>1, <2>3, <2>4 DEF Arrives
<1>11. mid + 1 \in good
  BY <1>1
<1>12. high[mid + 1] \in R
  <2> HIDE DEF good, stop, next, rank, D, val, R
  <2> QED BY <1>9, <1>10, <1>11, AgainFacts
<1> QED BY <1>12 DEF RunsUpTo

\* The run of equal keys around the one found is all of them.
LEMMA FindMultiFinds ==
  ASSUME NEW els \in Seq(Elem), Sorted(els), NEW key \in Nat, Search(els, key).found,
         NEW m, m = FindMulti(els, key)
  PROVE  /\ m.low \in 0 .. Len(els) - 1 /\ m.high \in m.low .. Len(els) - 1
         /\ {i \in 1 .. Len(els) : KeyOf(els[i]) = key} = m.low + 1 .. m.high + 1
<1> DEFINE mid == Search(els, key).at
           N == Len(els)
<1>1. mid \in 0 .. N - 1 /\ KeyOf(els[mid + 1]) = key
  BY SearchFinds DEF Answers
<1> HIDE DEF mid
<1>2. m.low = Down(els, key)[mid - 1] /\ m.high = Up(els, key)[mid + 1]
  BY DEF FindMulti, mid, Down, Up
<1>3. /\ m.low \in 0 .. mid
      /\ \A i \in 1 .. N : m.low < i /\ i <= mid => KeyOf(els[i]) = key
      /\ m.low > 0 => KeyOf(els[m.low]) # key
  <2> DEFINE low == Down(els, key)
  <2>1. m.low = low[mid - 1] /\ mid \in 0 .. Len(els) - 1 /\ low = Down(els, key)
    BY <1>1, <1>2
  <2> HIDE DEF low
  <2>2. RunsDownTo(els, key, mid, low[mid - 1])
    BY <2>1, ScansDown
  <2> QED BY <2>1, <2>2 DEF RunsDownTo
<1>4. /\ m.high \in mid .. N - 1
      /\ \A i \in 1 .. N : mid + 1 < i /\ i <= m.high + 1 => KeyOf(els[i]) = key
      /\ m.high < N - 1 => KeyOf(els[m.high + 2]) # key
  <2> DEFINE high == Up(els, key)
  <2>1. m.high = high[mid + 1] /\ mid \in 0 .. Len(els) - 1 /\ high = Up(els, key)
    BY <1>1, <1>2
  <2> HIDE DEF high
  <2>2. RunsUpTo(els, key, mid, high[mid + 1])
    BY <2>1, ScansUp
  <2> QED BY <2>1, <2>2 DEF RunsUpTo
<1>5. N \in Nat
  OBVIOUS
<1>6. \A i \in 1 .. N : KeyOf(els[i]) \in Nat
  BY ElemKeys
<1>7. \A i, j \in 1 .. N : i < j => KeyOf(els[i]) <= KeyOf(els[j])
  BY DEF Sorted
<1> DEFINE low == m.low
           high == m.high
<1>8. /\ mid \in Int /\ low \in Int /\ high \in Int
      /\ 0 <= low /\ low <= mid /\ mid <= high /\ high <= N - 1
  BY <1>1, <1>3, <1>4, <1>5
<1>9. /\ low > 0 => KeyOf(els[low]) # key
      /\ high < N - 1 => KeyOf(els[high + 2]) # key
      /\ \A i \in 1 .. N : low < i /\ i <= mid => KeyOf(els[i]) = key
      /\ \A i \in 1 .. N : mid + 1 < i /\ i <= high + 1 => KeyOf(els[i]) = key
  BY <1>3, <1>4
<1> HIDE DEF low, high, N
<1>10. ASSUME NEW i \in 1 .. N, i <= low PROVE KeyOf(els[i]) # key
  <2>1. low \in 1 .. N /\ mid + 1 \in 1 .. N /\ low < mid + 1 /\ low > 0
    BY <1>5, <1>8, <1>10
  <2>2. KeyOf(els[low]) < key
    <3>1. KeyOf(els[low]) <= KeyOf(els[mid + 1])
      BY <2>1, <1>7
    <3> QED BY <3>1, <2>1, <1>1, <1>6, <1>9
  <2>3. i = low \/ i < low
    BY <1>5, <1>8, <1>10
  <2> QED BY <1>6, <1>7, <2>1, <2>2, <2>3
<1>11. ASSUME NEW i \in 1 .. N, i > high + 1 PROVE KeyOf(els[i]) # key
  <2>1. high + 2 \in 1 .. N /\ mid + 1 \in 1 .. N /\ mid + 1 < high + 2 /\ high < N - 1
    BY <1>5, <1>8, <1>11
  <2>2. KeyOf(els[high + 2]) > key
    <3>1. KeyOf(els[mid + 1]) <= KeyOf(els[high + 2])
      BY <2>1, <1>7
    <3> QED BY <3>1, <2>1, <1>1, <1>6, <1>9
  <2>3. i = high + 2 \/ high + 2 < i
    BY <1>5, <1>8, <1>11
  <2> QED BY <1>6, <1>7, <2>1, <2>2, <2>3
<1>12. ASSUME NEW i \in 1 .. N, low < i, i <= high + 1 PROVE KeyOf(els[i]) = key
  <2>1. i <= mid \/ i = mid + 1 \/ mid + 1 < i
    BY <1>5, <1>8
  <2> QED BY <2>1, <1>1, <1>9, <1>12
<1>13. {i \in 1 .. N : KeyOf(els[i]) = key} = low + 1 .. high + 1
  <2>1. ASSUME NEW i \in low + 1 .. high + 1 PROVE i \in 1 .. N /\ KeyOf(els[i]) = key
    <3>1. i \in 1 .. N /\ low < i /\ i <= high + 1
      BY <1>5, <1>8
    <3> QED BY <3>1, <1>12
  <2>2. ASSUME NEW i \in 1 .. N, KeyOf(els[i]) = key PROVE i \in low + 1 .. high + 1
    <3>1. ~ (i <= low) /\ ~ (i > high + 1)
      BY <2>2, <1>10, <1>11
    <3> QED BY <3>1, <1>5, <1>8
  <2> QED BY <2>1, <2>2
<1> QED BY <1>3, <1>4, <1>8, <1>13 DEF low, high, N

----------------------------------------------------------------------------
(* Operations on a table whose elements are in order.                      *)

Tidy(m) == /\ WellMem(m)
           /\ \A v \in Table : Contents(m, v) \in Seq(Elem) /\ Sorted(Contents(m, v))

KeysOf(s) == {KeyOf(s[i]) : i \in 1 .. Len(s)}

LEMMA TidyAfter ==
  ASSUME NEW m, Tidy(m), NEW n, NEW v, NEW s \in Seq(Elem), Sorted(s), Becomes(m, n, v, s)
  PROVE  Tidy(n)
BY DEF Tidy, Becomes

LEMMA TidyTypes ==
  ASSUME NEW m, Tidy(m), NEW v \in Table
  PROVE  /\ WellMem(m) /\ Contents(m, v) \in Seq(Elem) /\ Contents(m, v) \in Seq(Cell)
         /\ Sorted(Contents(m, v)) /\ Len(Contents(m, v)) \in Nat
<1>1. Contents(m, v) \in Seq(Elem) /\ Sorted(Contents(m, v)) /\ WellMem(m)
  BY DEF Tidy
<1>2. Contents(m, v) \in Seq(Cell)
  BY <1>1, ContentsType
<1> QED BY <1>1, <1>2

LEMMA PlacedElem ==
  ASSUME NEW s \in Seq(Elem), NEW el \in Elem, NEW pos \in 0 .. Len(s)
  PROVE  /\ Placed(s, pos, el) \in Seq(Elem) /\ Len(Placed(s, pos, el)) = Len(s) + 1
         /\ \A i \in 1 .. Len(s) + 1 :
              Placed(s, pos, el)[i] = IF i <= pos THEN s[i]
                                      ELSE IF i = pos + 1 THEN el ELSE s[i - 1]
<1> DEFINE p == Placed(s, pos, el)
<1>1. s \in Seq(Cell) /\ el \in Cell /\ Len(s) \in Nat
  BY DEF Cell
<1>2. /\ p \in Seq(Cell) /\ Len(p) = Len(s) + 1
      /\ \A i \in 1 .. Len(s) + 1 : p[i] = IF i <= pos THEN s[i]
                                           ELSE IF i = pos + 1 THEN el ELSE s[i - 1]
  BY <1>1, PlacedFacts
<1> HIDE DEF p
<1>3. ASSUME NEW i \in 1 .. Len(p) PROVE p[i] \in Elem
  <2>1. (i <= pos => i \in 1 .. Len(s)) /\ (i > pos + 1 => i - 1 \in 1 .. Len(s))
    BY <1>1, <1>2
  <2>2. (i <= pos => s[i] \in Elem) /\ (i > pos + 1 => s[i - 1] \in Elem)
    BY <2>1, ElemKeys
  <2> QED BY <1>2, <2>2
<1>4. p \in Seq(Elem)
  <2>1. Len(p) \in Nat /\ p = [i \in 1 .. Len(p) |-> p[i]]
    BY <1>2
  <2>2. p \in [1 .. Len(p) -> Elem]
    BY <1>3, <2>1
  <2> QED BY <2>1, <2>2, IsASeq
<1> QED BY <1>2, <1>4 DEF p

LEMMA PlacedSorted ==
  ASSUME NEW s \in Seq(Elem), Sorted(s), NEW el \in Elem, NEW pos \in 0 .. Len(s),
         \A i \in 1 .. Len(s) : IF i <= pos THEN KeyOf(s[i]) <= KeyOf(el)
                                ELSE KeyOf(el) <= KeyOf(s[i])
  PROVE  Placed(s, pos, el) \in Seq(Elem) /\ Sorted(Placed(s, pos, el))
<1> DEFINE p == Placed(s, pos, el)
<1>1. /\ p \in Seq(Elem) /\ Len(p) = Len(s) + 1 /\ Len(s) \in Nat
      /\ \A i \in 1 .. Len(s) + 1 : p[i] = IF i <= pos THEN s[i]
                                           ELSE IF i = pos + 1 THEN el ELSE s[i - 1]
  BY PlacedElem
<1> HIDE DEF p
<1>2. KeyOf(el) \in Nat /\ \A i \in 1 .. Len(s) : KeyOf(s[i]) \in Nat
  BY ElemKeys, AvlKeys DEF Elem, KeyOf
<1>3. ASSUME NEW i \in 1 .. Len(p), NEW j \in 1 .. Len(p), i < j
      PROVE  KeyOf(p[i]) <= KeyOf(p[j])
  <2>1. CASE j <= pos
    <3>1. p[i] = s[i] /\ p[j] = s[j] /\ i \in 1 .. Len(s) /\ j \in 1 .. Len(s)
      BY <1>1, <1>3, <2>1
    <3> QED BY <1>3, <3>1 DEF Sorted
  <2>2. CASE j = pos + 1
    <3>1. p[i] = s[i] /\ p[j] = el /\ i \in 1 .. Len(s) /\ i <= pos
      BY <1>1, <1>3, <2>2
    <3> QED BY <3>1
  <2>3. CASE j > pos + 1 /\ i = pos + 1
    <3>1. p[i] = el /\ p[j] = s[j - 1] /\ j - 1 \in 1 .. Len(s) /\ ~ (j - 1 <= pos)
      BY <1>1, <1>3, <2>3
    <3> QED BY <3>1
  <2>4. CASE j > pos + 1 /\ i > pos + 1
    <3>1. /\ p[i] = s[i - 1] /\ p[j] = s[j - 1] /\ i - 1 \in 1 .. Len(s) /\ j - 1 \in 1 .. Len(s)
          /\ i - 1 < j - 1
      BY <1>1, <1>3, <2>4
    <3> QED BY <3>1 DEF Sorted
  <2>5. CASE j > pos + 1 /\ i <= pos
    <3>1. /\ p[i] = s[i] /\ p[j] = s[j - 1] /\ i \in 1 .. Len(s) /\ j - 1 \in 1 .. Len(s)
          /\ i < j - 1
      BY <1>1, <1>3, <2>5
    <3> QED BY <3>1 DEF Sorted
  <2> QED BY <1>1, <2>1, <2>2, <2>3, <2>4, <2>5
<1> QED BY <1>1, <1>3 DEF Sorted, p

LEMMA CutSorted ==
  ASSUME NEW s \in Seq(Elem), Sorted(s), NEW pos \in 0 .. Len(s), NEW n \in Nat,
         pos + n <= Len(s)
  PROVE  Cut(s, pos, n) \in Seq(Elem) /\ Sorted(Cut(s, pos, n))
<1> DEFINE c == Cut(s, pos, n)
<1>1. s \in Seq(Cell) /\ Len(s) \in Nat
  BY DEF Cell
<1>2. /\ c \in Seq(Cell) /\ Len(c) = Len(s) - n
      /\ \A i \in 1 .. Len(s) - n : c[i] = IF i <= pos THEN s[i] ELSE s[i + n]
  BY <1>1, CutFacts
<1> HIDE DEF c
<1>3. ASSUME NEW i \in 1 .. Len(c)
      PROVE  c[i] \in Elem
  <2>1. i \in 1 .. Len(s) /\ i + n \in 1 .. Len(s) /\ i \in 1 .. Len(s) - n
    BY <1>1, <1>2
  <2>2. s[i] \in Elem /\ s[i + n] \in Elem
    BY <2>1, ElemKeys
  <2>3. c[i] = IF i <= pos THEN s[i] ELSE s[i + n]
    BY <1>2, <2>1
  <2> QED BY <2>2, <2>3
<1>4. c \in Seq(Elem)
  <2>1. Len(c) \in Nat /\ c = [i \in 1 .. Len(c) |-> c[i]]
    BY <1>2
  <2>2. c \in [1 .. Len(c) -> Elem]
    BY <1>3, <2>1
  <2> QED BY <2>1, <2>2, IsASeq
<1>5. ASSUME NEW i \in 1 .. Len(c), NEW j \in 1 .. Len(c), i < j
      PROVE  KeyOf(c[i]) <= KeyOf(c[j])
  <2>1. /\ i \in 1 .. Len(s) /\ i + n \in 1 .. Len(s) /\ j \in 1 .. Len(s) /\ j + n \in 1 .. Len(s)
        /\ i < j + n /\ i + n < j + n
    BY <1>1, <1>2, <1>5
  <2>2. \A x, y \in 1 .. Len(s) : x < y => KeyOf(s[x]) <= KeyOf(s[y])
    BY DEF Sorted
  <2>3. c[i] = (IF i <= pos THEN s[i] ELSE s[i + n]) /\ c[j] = IF j <= pos THEN s[j] ELSE s[j + n]
    BY <1>2
  <2>4. CASE j <= pos
    BY <1>5, <2>1, <2>2, <2>3, <2>4
  <2>5. CASE ~ (j <= pos)
    BY <1>5, <2>1, <2>2, <2>3, <2>5
  <2> QED BY <2>4, <2>5
<1> QED BY <1>4, <1>5 DEF Sorted, c

\* insert and insertMulti put an element where it belongs.
Gets(m, n, v, el) ==
  \E pos \in 0 .. Len(Contents(m, v)) :
    LET s == Placed(Contents(m, v), pos, el) IN
    /\ s \in Seq(Elem) /\ Sorted(s) /\ Becomes(m, n, v, s)

LEMMA PutAtGets ==
  ASSUME NEW m, Tidy(m), NEW v \in Table, NEW el \in Elem, NEW pos,
         pos = Search(Contents(m, v), KeyOf(el)).at
  PROVE  /\ pos \in 0 .. Len(Contents(m, v))
         /\ Placed(Contents(m, v), pos, el) \in Seq(Elem)
         /\ Sorted(Placed(Contents(m, v), pos, el))
         /\ Becomes(m, PutAt(m, v, pos, el), v, Placed(Contents(m, v), pos, el))
<1> DEFINE s == Contents(m, v)
           key == KeyOf(el)
<1>1. s \in Seq(Elem) /\ Sorted(s) /\ WellMem(m) /\ Len(s) \in Nat
  BY TidyTypes
<1>2. key \in Nat /\ \A i \in 1 .. Len(s) : KeyOf(s[i]) \in Nat
  BY <1>1, ElemKeys, AvlKeys DEF Elem, KeyOf
<1> HIDE DEF s, key
<1>3. Search(s, key) \in Answers(s, key)
  BY <1>1, <1>2, SearchFinds
<1>4. CASE \E q \in 0 .. Len(s) - 1 : KeyOf(s[q + 1]) = key /\ pos = q
  <2>1. pos \in 0 .. Len(s) /\ KeyOf(s[pos + 1]) = key /\ pos + 1 \in 1 .. Len(s)
    BY <1>1, <1>4
  <2>2. ASSUME NEW i \in 1 .. Len(s)
        PROVE  IF i <= pos THEN KeyOf(s[i]) <= key ELSE key <= KeyOf(s[i])
    <3>1. i < pos + 1 \/ i = pos + 1 \/ pos + 1 < i
      BY <2>1
    <3>2. i < pos + 1 <=> i <= pos
      BY <2>1
    <3> QED BY <1>1, <1>2, <2>1, <3>1, <3>2 DEF Sorted
  <2>3. Placed(s, pos, el) \in Seq(Elem) /\ Sorted(Placed(s, pos, el))
    BY <1>1, <2>1, <2>2, PlacedSorted DEF key
  <2> QED BY <1>1, <2>1, <2>3, PutAtPlaces DEF s
<1>5. CASE /\ pos \in 0 .. Len(s)
           /\ \A i \in 1 .. Len(s) : IF i <= pos THEN KeyOf(s[i]) < key ELSE key < KeyOf(s[i])
  <2>1. \A i \in 1 .. Len(s) : IF i <= pos THEN KeyOf(s[i]) <= key ELSE key <= KeyOf(s[i])
    BY <1>2, <1>5
  <2>2. Placed(s, pos, el) \in Seq(Elem) /\ Sorted(Placed(s, pos, el))
    BY <1>1, <1>5, <2>1, PlacedSorted DEF key
  <2> QED BY <1>1, <1>5, <2>2, PutAtPlaces DEF s
<1>6. pos = Search(s, key).at
  BY DEF s, key
<1> QED BY <1>3, <1>4, <1>5, <1>6 DEF Answers

\* What the search says of a key that is there and of one that is not.
LEMMA SearchSays ==
  ASSUME NEW s \in Seq(Elem), Sorted(s), NEW key \in Nat
  PROVE  /\ Search(s, key).found <=> key \in KeysOf(s)
         /\ Search(s, key).found => /\ Search(s, key).at \in 0 .. Len(s) - 1
                                    /\ KeyOf(s[Search(s, key).at + 1]) = key
         /\ ~ Search(s, key).found =>
              /\ Search(s, key).at \in 0 .. Len(s)
              /\ \A i \in 1 .. Len(s) : IF i <= Search(s, key).at THEN KeyOf(s[i]) < key
                                        ELSE key < KeyOf(s[i])
<1> DEFINE a == Search(s, key)
<1>1. a \in Answers(s, key)
  BY SearchFinds
<1> HIDE DEF a
<1>2. Len(s) \in Nat /\ \A i \in 1 .. Len(s) : KeyOf(s[i]) \in Nat
  BY ElemKeys
<1>3. CASE \E q \in 0 .. Len(s) - 1 : KeyOf(s[q + 1]) = key /\ a = [found |-> TRUE, at |-> q]
  <2>1. a.found /\ a.at \in 0 .. Len(s) - 1 /\ KeyOf(s[a.at + 1]) = key
    BY <1>3
  <2>2. a.at + 1 \in 1 .. Len(s)
    BY <1>2, <2>1
  <2> QED BY <2>1, <2>2 DEF KeysOf, a
<1>4. CASE \E q \in 0 .. Len(s) :
             /\ \A i \in 1 .. Len(s) : IF i <= q THEN KeyOf(s[i]) < key ELSE key < KeyOf(s[i])
             /\ a = [found |-> FALSE, at |-> q]
  <2>1. /\ ~ a.found /\ a.at \in 0 .. Len(s)
        /\ \A i \in 1 .. Len(s) : IF i <= a.at THEN KeyOf(s[i]) < key ELSE key < KeyOf(s[i])
    BY <1>4
  <2>2. \A i \in 1 .. Len(s) : KeyOf(s[i]) # key
    BY <1>2, <2>1
  <2> QED BY <2>1, <2>2 DEF KeysOf, a
<1> QED BY <1>1, <1>3, <1>4 DEF Answers

LEMMA InsertMultiGets ==
  ASSUME NEW m, Tidy(m), NEW v \in Table, NEW el \in Elem
  PROVE  Gets(m, TableInsertMulti(m, v, el), v, el)
<1>1. TableInsertMulti(m, v, el) = PutAt(m, v, Search(Contents(m, v), KeyOf(el)).at, el)
  BY DEF TableInsertMulti
<1> QED BY <1>1, PutAtGets DEF Gets

LEMMA RemoveTakes ==
  ASSUME NEW m, Tidy(m), NEW v \in Table, NEW key \in Nat, NEW n, n = TableRemove(m, v, key)
  PROVE  \/ n = m
         \/ \E i \in 1 .. Len(Contents(m, v)) :
              LET c == Cut(Contents(m, v), i - 1, 1) IN
              /\ KeyOf(Contents(m, v)[i]) = key
              /\ c \in Seq(Elem) /\ Sorted(c) /\ Becomes(m, n, v, c)
<1> DEFINE s == Contents(m, v)
           a == Search(s, key)
<1>1. s \in Seq(Elem) /\ Sorted(s) /\ WellMem(m) /\ Len(s) \in Nat
  BY TidyTypes
<1>2. CASE ~ a.found
  BY <1>2 DEF TableRemove
<1>3. CASE a.found
  <2> DEFINE i == a.at + 1
  <2>1. /\ i \in 1 .. Len(s) /\ KeyOf(s[i]) = key /\ i - 1 \in 0 .. Len(s)
        /\ i - 1 + 1 <= Len(s) /\ n = RemoveAt(m, v, i - 1, 1)
    <3>1. a.at \in 0 .. Len(s) - 1 /\ KeyOf(s[a.at + 1]) = key
      <4> HIDE DEF s
      <4> QED BY <1>1, <1>3, SearchSays
    <3>2. n = RemoveAt(m, v, a.at, 1)
      BY <1>3 DEF TableRemove
    <3> HIDE DEF s, a
    <3>3. i \in 1 .. Len(s) /\ i - 1 \in 0 .. Len(s) /\ i - 1 + 1 <= Len(s) /\ i - 1 = a.at
      BY <1>1, <3>1
    <3> QED BY <3>1, <3>2, <3>3
  <2> HIDE DEF i
  <2>2. Cut(s, i - 1, 1) \in Seq(Elem) /\ Sorted(Cut(s, i - 1, 1))
    <3> HIDE DEF s
    <3> QED BY <1>1, <2>1, CutSorted
  <2>3. m.data[v] # None
    BY <2>1 DEF Contents
  <2>4. Becomes(m, n, v, Cut(s, i - 1, 1))
    BY <1>1, <2>1, <2>3, RemoveAtCuts
  <2> QED BY <2>1, <2>2, <2>4
<1> QED BY <1>2, <1>3

LEMMA RemoveMultiTakes ==
  ASSUME NEW m, Tidy(m), NEW v \in Table, NEW key \in Nat,
         NEW n, n = TableRemoveMulti(m, v, key)
  PROVE  \/ n = m
         \/ \E i, k \in 0 .. Len(Contents(m, v)) :
              LET s == Contents(m, v)
                  c == Cut(s, i, k)
              IN  /\ {j \in 1 .. Len(s) : KeyOf(s[j]) = key} = i + 1 .. i + k
                  /\ c \in Seq(Elem) /\ Sorted(c) /\ Becomes(m, n, v, c)
<1> DEFINE s == Contents(m, v)
           a == Search(s, key)
           f == FindMulti(s, key)
<1>1. s \in Seq(Elem) /\ Sorted(s) /\ WellMem(m) /\ Len(s) \in Nat
  BY TidyTypes
<1>2. CASE ~ a.found
  BY <1>2 DEF TableRemoveMulti
<1>3. CASE a.found
  <2> DEFINE i == f.low
             k == f.high - f.low + 1
  <2>1. /\ f.low \in 0 .. Len(s) - 1 /\ f.high \in f.low .. Len(s) - 1
        /\ {j \in 1 .. Len(s) : KeyOf(s[j]) = key} = f.low + 1 .. f.high + 1
    <3>1. f = FindMulti(s, key)
      OBVIOUS
    <3> HIDE DEF s, f
    <3> QED BY <1>1, <1>3, <3>1, FindMultiFinds
  <2>2. n = RemoveAt(m, v, i, k)
    BY <1>3 DEF TableRemoveMulti
  <2>3. /\ i \in 0 .. Len(s) /\ k \in 0 .. Len(s) /\ k \in Nat /\ i + k <= Len(s)
        /\ i + k = f.high + 1 /\ 0 < Len(s)
    <3> HIDE DEF s, f
    <3> QED BY <1>1, <2>1
  <2> HIDE DEF f
  <2>4. {j \in 1 .. Len(s) : KeyOf(s[j]) = key} = i + 1 .. i + k
    BY <2>1, <2>3
  <2> HIDE DEF i, k
  <2>5. Cut(s, i, k) \in Seq(Elem) /\ Sorted(Cut(s, i, k))
    <3> HIDE DEF s
    <3> QED BY <1>1, <2>3, CutSorted
  <2>6. m.data[v] # None
    BY <2>3 DEF Contents
  <2>7. Becomes(m, n, v, Cut(s, i, k))
    BY <1>1, <2>2, <2>3, <2>6, RemoveAtCuts
  <2> QED BY <2>3, <2>4, <2>5, <2>7
<1> QED BY <1>2, <1>3
----------------------------------------------------------------------------
(* insert of all elements of another table.                                *)

Fewer(A, k) == Cardinality({x \in A : x < k})

\* new has old and one of els for each key that old lacks.
Joins(new, old, els) ==
  LET added == KeysOf(els) \ KeysOf(old) IN
  /\ Sorted(new) /\ KeysOf(new) = KeysOf(old) \cup KeysOf(els)
  /\ Len(new) = Len(old) + Cardinality(added)
  /\ \A i \in 1 .. Len(old) : new[i + Fewer(added, KeyOf(old[i]))] = old[i]
  /\ \A k \in added : \E i \in 1 .. Len(els), j \in 1 .. Len(new) :
       KeyOf(els[i]) = k /\ new[j] = els[i]

LEMMA KeysFinite ==
  ASSUME NEW s \in Seq(Elem)
  PROVE  /\ IsFiniteSet(KeysOf(s)) /\ KeysOf(s) \subseteq Nat
         /\ \A A \in SUBSET KeysOf(s) : IsFiniteSet(A) /\ Cardinality(A) \in Nat
<1> DEFINE f == [i \in 1 .. Len(s) |-> KeyOf(s[i])]
<1>1. f \in Surjection(1 .. Len(s), KeysOf(s))
  BY DEF Surjection, KeysOf
<1>2. IsFiniteSet(1 .. Len(s))
  BY FS_Interval
<1>3. IsFiniteSet(KeysOf(s))
  <2> HIDE DEF f
  <2> QED BY <1>1, <1>2, FS_Surjection
<1>4. KeysOf(s) \subseteq Nat
  BY ElemKeys DEF KeysOf
<1>5. \A A \in SUBSET KeysOf(s) : IsFiniteSet(A) /\ Cardinality(A) \in Nat
  BY <1>3, FS_Subset, FS_CardinalityType
<1> QED BY <1>3, <1>4, <1>5

LEMMA FewerFacts ==
  ASSUME NEW A \in SUBSET Nat, IsFiniteSet(A), NEW k \in Nat
  PROVE  /\ Fewer(A, k) \in 0 .. Cardinality(A) /\ Cardinality(A) \in Nat
         /\ \A x \in Nat \ A : /\ IsFiniteSet(A \cup {x}) /\ Cardinality(A \cup {x}) = Cardinality(A) + 1
                               /\ x < k => Fewer(A \cup {x}, k) = Fewer(A, k) + 1
                               /\ ~ (x < k) => Fewer(A \cup {x}, k) = Fewer(A, k)
<1> DEFINE B == {x \in A : x < k}
<1>1. IsFiniteSet(B) /\ Cardinality(B) \in Nat /\ Cardinality(B) <= Cardinality(A) /\ Cardinality(A) \in Nat
  BY FS_Subset, FS_CardinalityType
<1>2. Fewer(A, k) = Cardinality(B)
  BY DEF Fewer
<1>3. ASSUME NEW x \in Nat \ A
      PROVE  /\ IsFiniteSet(A \cup {x}) /\ Cardinality(A \cup {x}) = Cardinality(A) + 1
             /\ x < k => Fewer(A \cup {x}, k) = Fewer(A, k) + 1
             /\ ~ (x < k) => Fewer(A \cup {x}, k) = Fewer(A, k)
  <2> DEFINE C == {y \in A \cup {x} : y < k}
  <2>1. IsFiniteSet(A \cup {x}) /\ Cardinality(A \cup {x}) = Cardinality(A) + 1
    BY FS_AddElement
  <2>2. Fewer(A \cup {x}, k) = Cardinality(C)
    BY DEF Fewer
  <2>3. CASE x < k
    <3>1. C = B \cup {x} /\ x \notin B
      BY <2>3
    <3> HIDE DEF B, C
    <3>2. Cardinality(C) = Cardinality(B) + 1
      BY <1>1, <3>1, FS_AddElement
    <3> QED BY <1>2, <2>1, <2>2, <2>3, <3>2
  <2>4. CASE ~ (x < k)
    <3>1. C = B
      BY <2>4
    <3> QED BY <1>2, <2>1, <2>2, <2>4, <3>1
  <2> QED BY <2>3, <2>4
<1> QED BY <1>1, <1>2, <1>3

LEMMA JoinsNone ==
  ASSUME NEW s \in Seq(Elem), Sorted(s)
  PROVE  Joins(s, s, <<>>)
<1> DEFINE added == KeysOf(<<>>) \ KeysOf(s)
<1>1. KeysOf(<<>>) = {} /\ added = {} /\ Cardinality(added) = 0
  <2>1. 1 .. Len(<<>>) = {}
    OBVIOUS
  <2>2. added = {} /\ KeysOf(<<>>) = {}
    BY <2>1 DEF KeysOf
  <2> HIDE DEF added
  <2> QED BY <2>2, FS_EmptySet
<1> HIDE DEF added
<1>2. ASSUME NEW i \in 1 .. Len(s) PROVE s[i + Fewer(added, KeyOf(s[i]))] = s[i]
  <2>1. {x \in added : x < KeyOf(s[i])} = added
    BY <1>1
  <2>2. Fewer(added, KeyOf(s[i])) = 0
    BY <1>1, <2>1 DEF Fewer
  <2>3. i + 0 = i
    OBVIOUS
  <2> QED BY <2>2, <2>3
<1>3. Len(s) = Len(s) + Cardinality(added)
  BY <1>1
<1>4. \A k \in added : \E i \in 1 .. Len(<<>>), j \in 1 .. Len(s) : KeyOf(<<>>[i]) = k /\ s[j] = <<>>[i]
  BY <1>1
<1> QED BY <1>1, <1>2, <1>3, <1>4 DEF Joins, added

LEMMA KeysAppend ==
  ASSUME NEW s \in Seq(Elem), NEW el \in Elem
  PROVE  /\ Append(s, el) \in Seq(Elem) /\ KeysOf(Append(s, el)) = KeysOf(s) \cup {KeyOf(el)}
         /\ Len(Append(s, el)) = Len(s) + 1 /\ Append(s, el)[Len(s) + 1] = el
         /\ \A i \in 1 .. Len(s) : Append(s, el)[i] = s[i]
<1> DEFINE t == Append(s, el)
<1>1. /\ t \in Seq(Elem) /\ Len(t) = Len(s) + 1 /\ t[Len(s) + 1] = el /\ Len(s) \in Nat
      /\ \A i \in 1 .. Len(s) : t[i] = s[i]
  OBVIOUS
<1> HIDE DEF t
<1>2. \A k \in KeysOf(t) : k \in KeysOf(s) \cup {KeyOf(el)}
  BY <1>1 DEF KeysOf
<1>3. KeyOf(el) \in KeysOf(t)
  <2>1. Len(s) + 1 \in 1 .. Len(t) /\ KeyOf(t[Len(s) + 1]) = KeyOf(el)
    BY <1>1
  <2> QED BY <2>1 DEF KeysOf
<1>4. \A k \in KeysOf(s) : k \in KeysOf(t)
  <2>1. ASSUME NEW i \in 1 .. Len(s) PROVE i \in 1 .. Len(t) /\ KeyOf(t[i]) = KeyOf(s[i])
    BY <1>1
  <2> QED BY <2>1 DEF KeysOf
<1> QED BY <1>1, <1>2, <1>3, <1>4 DEF t

LEMMA JoinsAgain ==
  ASSUME NEW s \in Seq(Elem), NEW old \in Seq(Elem), NEW els \in Seq(Elem),
         Joins(s, old, els), NEW el \in Elem, KeyOf(el) \in KeysOf(s)
  PROVE  Joins(s, old, Append(els, el))
<1> DEFINE t == Append(els, el)
           added == KeysOf(els) \ KeysOf(old)
<1>1. /\ t \in Seq(Elem) /\ KeysOf(t) = KeysOf(els) \cup {KeyOf(el)} /\ Len(t) = Len(els) + 1
      /\ Len(els) \in Nat /\ \A i \in 1 .. Len(els) : t[i] = els[i]
  BY KeysAppend
<1> HIDE DEF t
<1>2. KeysOf(s) = KeysOf(old) \cup KeysOf(els)
  BY DEF Joins
<1>3. KeysOf(t) \ KeysOf(old) = added /\ KeysOf(s) = KeysOf(old) \cup KeysOf(t)
  BY <1>1, <1>2
<1>4. ASSUME NEW k \in added
      PROVE  \E i \in 1 .. Len(t), j \in 1 .. Len(s) : KeyOf(t[i]) = k /\ s[j] = t[i]
  <2>1. PICK i \in 1 .. Len(els), j \in 1 .. Len(s) : KeyOf(els[i]) = k /\ s[j] = els[i]
    BY DEF Joins
  <2>2. i \in 1 .. Len(t) /\ t[i] = els[i]
    BY <1>1
  <2> QED BY <2>1, <2>2
<1>5. /\ Sorted(s) /\ Len(s) = Len(old) + Cardinality(added)
      /\ \A i \in 1 .. Len(old) : s[i + Fewer(added, KeyOf(old[i]))] = old[i]
  BY DEF Joins
<1> HIDE DEF added
<1> QED BY <1>3, <1>4, <1>5 DEF Joins, t

LEMMA JoinsNew ==
  ASSUME NEW s \in Seq(Elem), NEW old \in Seq(Elem), NEW els \in Seq(Elem),
         Joins(s, old, els), NEW el \in Elem, KeyOf(el) \notin KeysOf(s),
         NEW pos \in 0 .. Len(s),
         \A i \in 1 .. Len(s) : IF i <= pos THEN KeyOf(s[i]) < KeyOf(el) ELSE KeyOf(el) < KeyOf(s[i])
  PROVE  Joins(Placed(s, pos, el), old, Append(els, el))
<1> DEFINE t == Append(els, el)
           n == Placed(s, pos, el)
           x == KeyOf(el)
           added == KeysOf(els) \ KeysOf(old)
<1>1. /\ t \in Seq(Elem) /\ KeysOf(t) = KeysOf(els) \cup {x} /\ Len(t) = Len(els) + 1
      /\ t[Len(els) + 1] = el
      /\ Len(els) \in Nat /\ \A i \in 1 .. Len(els) : t[i] = els[i]
  BY KeysAppend
<1>2. /\ n \in Seq(Elem) /\ Len(n) = Len(s) + 1 /\ Len(s) \in Nat /\ Len(old) \in Nat
      /\ \A i \in 1 .. Len(s) + 1 : n[i] = IF i <= pos THEN s[i]
                                           ELSE IF i = pos + 1 THEN el ELSE s[i - 1]
  <2>1. Len(s) \in Nat /\ Len(old) \in Nat
    OBVIOUS
  <2>2. /\ n \in Seq(Elem) /\ Len(n) = Len(s) + 1
        /\ \A i \in 1 .. Len(s) + 1 : n[i] = IF i <= pos THEN s[i]
                                             ELSE IF i = pos + 1 THEN el ELSE s[i - 1]
    BY PlacedElem
  <2> QED BY <2>1, <2>2
<1>3. /\ Sorted(s) /\ KeysOf(s) = KeysOf(old) \cup KeysOf(els)
      /\ Len(s) = Len(old) + Cardinality(added)
      /\ \A i \in 1 .. Len(old) : s[i + Fewer(added, KeyOf(old[i]))] = old[i]
      /\ \A k \in added : \E i \in 1 .. Len(els), j \in 1 .. Len(s) :
           KeyOf(els[i]) = k /\ s[j] = els[i]
  BY DEF Joins
<1>4. x \in Nat /\ \A i \in 1 .. Len(s) : KeyOf(s[i]) \in Nat
  BY ElemKeys, AvlKeys DEF Elem, KeyOf
<1>5. Sorted(n)
  <2>1. \A i \in 1 .. Len(s) : IF i <= pos THEN KeyOf(s[i]) <= x ELSE x <= KeyOf(s[i])
    BY <1>4
  <2> QED BY <1>3, <2>1, PlacedSorted
<1>6. x \notin added /\ x \notin KeysOf(old) /\ KeysOf(t) \ KeysOf(old) = added \cup {x}
  BY <1>1, <1>3
<1>7. added \in SUBSET Nat /\ IsFiniteSet(added) /\ Cardinality(added) \in Nat
  BY KeysFinite
<1> HIDE DEF t, n, x, added
<1>8. \A i \in 1 .. Len(s) : \E j \in 1 .. Len(n) : n[j] = s[i]
  <2>1. ASSUME NEW i \in 1 .. Len(s) PROVE \E j \in 1 .. Len(n) : n[j] = s[i]
    <3>1. CASE i <= pos
      <4>1. i \in 1 .. Len(n) /\ n[i] = s[i]
        BY <1>2, <3>1
      <4> QED BY <4>1
    <3>2. CASE ~ (i <= pos)
      <4>1. i + 1 \in 1 .. Len(n) /\ n[i + 1] = s[i]
        BY <1>2, <3>2
      <4> QED BY <4>1
    <3> QED BY <3>1, <3>2
  <2> QED BY <2>1
<1>9. pos + 1 \in 1 .. Len(n) /\ n[pos + 1] = el
  BY <1>2
<1>10. KeysOf(n) = KeysOf(s) \cup {x}
  <2>1. ASSUME NEW k \in KeysOf(n) PROVE k \in KeysOf(s) \cup {x}
    <3>1. PICK j \in 1 .. Len(n) : k = KeyOf(n[j])
      BY DEF KeysOf
    <3>2. CASE j <= pos
      <4>1. j \in 1 .. Len(s) /\ n[j] = s[j]
        BY <1>2, <3>2
      <4> QED BY <3>1, <4>1 DEF KeysOf
    <3>3. CASE j = pos + 1
      BY <1>9, <3>1, <3>3 DEF x
    <3>4. CASE j > pos + 1
      <4>1. j - 1 \in 1 .. Len(s) /\ n[j] = s[j - 1]
        BY <1>2, <3>4
      <4> QED BY <3>1, <4>1 DEF KeysOf
    <3> QED BY <1>2, <3>2, <3>3, <3>4
  <2>2. ASSUME NEW k \in KeysOf(s) PROVE k \in KeysOf(n)
    <3>1. PICK i \in 1 .. Len(s) : k = KeyOf(s[i])
      BY DEF KeysOf
    <3>2. PICK j \in 1 .. Len(n) : n[j] = s[i]
      BY <1>8
    <3> QED BY <3>1, <3>2 DEF KeysOf
  <2>3. x \in KeysOf(n)
    BY <1>9 DEF KeysOf, x
  <2> QED BY <2>1, <2>2, <2>3
<1>11. KeysOf(n) = KeysOf(old) \cup KeysOf(t)
  BY <1>1, <1>3, <1>10
<1>12. Cardinality(added \cup {x}) = Cardinality(added) + 1
  BY <1>6, <1>7, FS_AddElement
<1>13. Len(n) = Len(old) + Cardinality(added \cup {x})
  BY <1>2, <1>3, <1>7, <1>12
<1>14. ASSUME NEW i \in 1 .. Len(old)
       PROVE  n[i + Fewer(added \cup {x}, KeyOf(old[i]))] = old[i]
  <2> DEFINE k == KeyOf(old[i])
             q == i + Fewer(added, k)
  <2>1. k \in Nat /\ k # x
    BY <1>6, ElemKeys DEF KeysOf
  <2> HIDE DEF k
  <2>2. /\ Fewer(added, k) \in 0 .. Cardinality(added)
        /\ x < k => Fewer(added \cup {x}, k) = Fewer(added, k) + 1
        /\ ~ (x < k) => Fewer(added \cup {x}, k) = Fewer(added, k)
    BY <1>4, <1>6, <1>7, <2>1, FewerFacts
  <2>3. q \in 1 .. Len(s) /\ q \in Nat
    BY <1>2, <1>3, <1>7, <2>2
  <2>4. s[q] = old[i] /\ KeyOf(s[q]) = k
    BY <1>3 DEF k
  <2>5. CASE x < k
    <3>1. ~ (q <= pos)
      BY <1>4, <2>1, <2>3, <2>4, <2>5 DEF x
    <3>2. i + Fewer(added \cup {x}, k) = q + 1
      <4>1. Fewer(added, k) \in Nat /\ Fewer(added \cup {x}, k) = Fewer(added, k) + 1
        BY <1>7, <2>2, <2>5
      <4> QED BY <4>1
    <3>3. n[q + 1] = s[q]
      <4> HIDE DEF q
      <4>1. \A j \in 1 .. Len(s) : ~ (j <= pos) => n[j + 1] = s[j]
        BY <1>2
      <4> QED BY <2>3, <3>1, <4>1
    <3> QED BY <2>4, <3>2, <3>3 DEF k
  <2>6. CASE ~ (x < k)
    <3>1. q <= pos
      BY <1>4, <2>1, <2>3, <2>4, <2>6 DEF x
    <3>2. i + Fewer(added \cup {x}, k) = q /\ q \in 1 .. Len(s) + 1
      BY <2>2, <2>3, <2>6, <1>2
    <3>3. n[q] = s[q]
      <4> HIDE DEF q
      <4> QED BY <1>2, <2>3, <3>1, <3>2
    <3> QED BY <2>4, <3>2, <3>3 DEF k
  <2> QED BY <2>5, <2>6
<1>15. ASSUME NEW k \in added \cup {x}
       PROVE  \E i \in 1 .. Len(t), j \in 1 .. Len(n) : KeyOf(t[i]) = k /\ n[j] = t[i]
  <2>1. CASE k \in added
    <3>1. PICK i \in 1 .. Len(els), j \in 1 .. Len(s) : KeyOf(els[i]) = k /\ s[j] = els[i]
      BY <1>3, <2>1
    <3>2. i \in 1 .. Len(t) /\ t[i] = els[i]
      BY <1>1
    <3>3. PICK l \in 1 .. Len(n) : n[l] = s[j]
      BY <1>8
    <3> QED BY <3>1, <3>2, <3>3
  <2>2. CASE k = x
    <3>1. Len(els) + 1 \in 1 .. Len(t) /\ t[Len(els) + 1] = el /\ KeyOf(el) = k
      BY <1>1, <2>2 DEF x
    <3> QED BY <1>9, <3>1
  <2> QED BY <2>1, <2>2
<1> DEFINE more == added \cup {x}
<1>16. more = KeysOf(t) \ KeysOf(old)
  BY <1>6
<1> HIDE DEF more
<1>17. /\ Len(n) = Len(old) + Cardinality(more)
       /\ \A i \in 1 .. Len(old) : n[i + Fewer(more, KeyOf(old[i]))] = old[i]
       /\ \A k \in more : \E i \in 1 .. Len(t), j \in 1 .. Len(n) : KeyOf(t[i]) = k /\ n[j] = t[i]
  BY <1>13, <1>14, <1>15 DEF more
<1>18. Joins(n, old, t)
  BY <1>5, <1>11, <1>16, <1>17 DEF Joins
<1> QED BY <1>18 DEF n, t
\* One insert, when els have been inserted into old before.
LEMMA InsertJoins ==
  ASSUME NEW m, Tidy(m), NEW n, NEW o, NEW v \in Table,
         NEW old \in Seq(Elem), NEW els \in Seq(Elem), NEW el \in Elem,
         NEW s \in Seq(Elem), Becomes(m, n, v, s), Joins(s, old, els),
         o = TableInsert(n, v, el)
  PROVE  \E r \in Seq(Elem) : Becomes(m, o, v, r) /\ Joins(r, old, Append(els, el))
<1> DEFINE key == KeyOf(el)
           a == Search(s, key)
<1>1. Sorted(s) /\ key \in Nat
  BY AvlKeys DEF Joins, Elem, KeyOf
<1>2. Tidy(n) /\ Contents(n, v) = s
  <2>1. Contents(n, v) = s
    BY DEF Becomes
  <2> QED BY <1>1, <2>1, TidyAfter
<1>3. /\ a.found => o = n
      /\ ~ a.found => o = PutAt(n, v, a.at, el)
  BY <1>2 DEF TableInsert
<1>4. /\ a.found <=> key \in KeysOf(s)
      /\ ~ a.found =>
           /\ a.at \in 0 .. Len(s)
           /\ \A i \in 1 .. Len(s) : IF i <= a.at THEN KeyOf(s[i]) < key ELSE key < KeyOf(s[i])
  <2> HIDE DEF key
  <2> QED BY <1>1, SearchSays
<1>5. CASE a.found
  <2>1. key \in KeysOf(s) /\ o = n
    BY <1>3, <1>4, <1>5
  <2>2. Joins(s, old, Append(els, el))
    BY <2>1, JoinsAgain
  <2> QED BY <2>1, <2>2
<1>6. CASE ~ a.found
  <2> DEFINE r == Placed(s, a.at, el)
  <2>1. /\ r \in Seq(Elem) /\ Sorted(r) /\ Becomes(n, o, v, r)
    <3> DEFINE pos == a.at
    <3>1. pos = Search(Contents(n, v), KeyOf(el)).at
      BY <1>2
    <3> HIDE DEF pos, a
    <3>2. /\ Placed(Contents(n, v), pos, el) \in Seq(Elem)
          /\ Sorted(Placed(Contents(n, v), pos, el))
          /\ Becomes(n, PutAt(n, v, pos, el), v, Placed(Contents(n, v), pos, el))
      BY <1>2, <3>1, PutAtGets
    <3> QED BY <1>2, <1>3, <1>6, <3>2 DEF pos
  <2>2. Joins(r, old, Append(els, el))
    <3> DEFINE pos == a.at
    <3>1. /\ pos \in 0 .. Len(s) /\ KeyOf(el) \notin KeysOf(s)
          /\ \A i \in 1 .. Len(s) : IF i <= pos THEN KeyOf(s[i]) < KeyOf(el)
                                    ELSE KeyOf(el) < KeyOf(s[i])
      BY <1>4, <1>6
    <3> HIDE DEF pos
    <3>2. Joins(Placed(s, pos, el), old, Append(els, el))
      BY <3>1, JoinsNew
    <3> QED BY <3>2 DEF pos
  <2>3. Becomes(m, o, v, r)
    <3> HIDE DEF r
    <3> QED BY <2>1, BecomesThen
  <2> HIDE DEF r
  <2> QED BY <2>1, <2>2, <2>3
<1> QED BY <1>5, <1>6

LEMMA InsertAllJoins ==
  ASSUME NEW m, Tidy(m), NEW v \in Table, NEW w \in Table, NEW n, n = TableInsertAll(m, v, w)
  PROVE  \E s \in Seq(Elem) : /\ Becomes(m, n, v, s)
                              /\ Joins(s, Contents(m, v), Contents(m, w))
<1> DEFINE els == Contents(m, w)
           old == Contents(m, v)
           N == Len(els)
           Types == [data : [Table -> Buf \cup {None}], buf : [Buf -> Block]]
           V == {x \in Types : Tidy(x)}
           Done(i) == SubSeq(els, 1, i)
<1>1. els \in Seq(Elem) /\ old \in Seq(Elem) /\ Sorted(old) /\ N \in Nat /\ WellMem(m)
  BY TidyTypes
<1>2. \A x : Tidy(x) => x \in V
  BY DEF Tidy, WellMem
<1> HIDE DEF els, old
<1>3. Becomes(m, m, v, old) /\ Joins(old, old, <<>>)
  BY <1>1, JoinsNone DEF Becomes, old
<1>4. ASSUME NEW x \in V, NEW i \in 1 .. N PROVE TableInsert(x, v, els[i]) \in V
  <2> DEFINE s == Contents(x, v)
             y == TableInsert(x, v, els[i])
  <2>1. Tidy(x) /\ s \in Seq(Elem) /\ Sorted(s) /\ WellMem(x) /\ els[i] \in Elem
    BY <1>1, TidyTypes
  <2>2. Becomes(x, x, v, s) /\ Joins(s, s, <<>>) /\ <<>> \in Seq(Elem)
    BY <2>1, JoinsNone DEF Becomes
  <2>3. y = TableInsert(x, v, els[i])
    OBVIOUS
  <2> HIDE DEF s, y
  <2>4. PICK r \in Seq(Elem) : Becomes(x, y, v, r) /\ Joins(r, s, Append(<<>>, els[i]))
    BY <2>1, <2>2, <2>3, InsertJoins
  <2>5. Tidy(y)
    BY <2>1, <2>4, TidyAfter DEF Joins
  <2> QED BY <1>2, <2>5 DEF y
<1> DEFINE step == [p \in V \X (1 .. N) |-> TableInsert(p[1], v, els[p[2]])]
<1>5. step \in [V \X (1 .. N) -> V]
  <2> HIDE DEF V
  <2> QED BY <1>4
<1>6. m \in V
  BY <1>2
<1>7. PICK f \in [0 .. N -> V] : Steps(f, N, m, step)
  <2> HIDE DEF V, step
  <2> QED BY <1>1, <1>5, <1>6, StepsExist
<1> DEFINE body(g, i) == IF i = 0 THEN m ELSE TableInsert(g[i - 1], v, els[i])
           after == CHOOSE g : g = [i \in 0 .. N |-> body(g, i)]
<1>8. f = [i \in 0 .. N |-> body(f, i)]
  <2>1. ASSUME NEW i \in 0 .. N PROVE f[i] = body(f, i)
    <3>1. CASE i = 0
      BY <1>7, <3>1 DEF Steps
    <3>2. CASE i # 0
      <4>1. i \in 1 .. N /\ i - 1 \in 0 .. N
        BY <1>1, <3>2
      <4>2. f[i] = step[<<f[i - 1], i>>]
        <5> HIDE DEF step
        <5> QED BY <1>7, <4>1 DEF Steps
      <4>3. f[i - 1] \in V
        <5> HIDE DEF V
        <5> QED BY <4>1
      <4> HIDE DEF V
      <4> QED BY <3>2, <4>1, <4>2, <4>3
    <3> QED BY <3>1, <3>2
  <2> HIDE DEF V, body
  <2> QED BY <2>1
<1>9. after = [i \in 0 .. N |-> body(after, i)]
  <2> HIDE DEF body
  <2> QED BY <1>8
<1>10. n = after[N]
  BY DEF TableInsertAll, els
<1> HIDE DEF after
<1> DEFINE P(i) == \E s \in Seq(Elem) : Becomes(m, after[i], v, s) /\ Joins(s, old, Done(i))
           S == {i \in Nat : i <= N => P(i)}
<1>11. 0 \in S
  <2>1. after[0] = m
    BY <1>1, <1>9
  <2>2. Done(0) = <<>>
    BY <1>1
  <2>3. P(0)
    <3> HIDE DEF Done
    <3> QED BY <1>1, <1>3, <2>1, <2>2
  <2> HIDE DEF P
  <2> QED BY <2>3
<1>12. ASSUME NEW i \in Nat, i \in S PROVE i + 1 \in S
  <2>1. i + 1 \in Nat
    OBVIOUS
  <2>2. ASSUME i + 1 <= N PROVE P(i + 1)
    <3>1. i <= N /\ i + 1 \in 1 .. N /\ i + 1 \in 0 .. N /\ i \in 0 .. N
      BY <1>1, <2>2
    <3>2. PICK s \in Seq(Elem) : Becomes(m, after[i], v, s) /\ Joins(s, old, Done(i))
      BY <1>12, <3>1
    <3>3. after[i + 1] = TableInsert(after[i], v, els[i + 1])
      <4>1. i + 1 # 0 /\ i + 1 - 1 = i
        OBVIOUS
      <4> QED BY <1>9, <3>1, <4>1
    <3>4. els[i + 1] \in Elem /\ Done(i) \in Seq(Elem) /\ Done(i + 1) = Append(Done(i), els[i + 1])
      BY <1>1, <3>1
    <3> DEFINE x == after[i]
               y == after[i + 1]
               el == els[i + 1]
               d == Done(i)
    <3>5. /\ Becomes(m, x, v, s) /\ Joins(s, old, d) /\ y = TableInsert(x, v, el)
          /\ el \in Elem /\ d \in Seq(Elem) /\ old \in Seq(Elem)
      BY <1>1, <3>2, <3>3, <3>4
    <3> HIDE DEF x, y, el, d, Done
    <3>6. PICK r \in Seq(Elem) : Becomes(m, y, v, r) /\ Joins(r, old, Append(d, el))
      BY <3>5, InsertJoins
    <3>7. Append(d, el) = Done(i + 1)
      BY <3>4 DEF d, el
    <3> QED BY <3>6, <3>7 DEF y
  <2> HIDE DEF P
  <2> QED BY <2>1, <2>2
<1>13. N \in S
  <2>1. Nat \subseteq S
    <3> HIDE DEF S
    <3> QED BY <1>11, <1>12, Induction
  <2> QED BY <1>1, <2>1
<1>14. P(N)
  <2> HIDE DEF P
  <2> QED BY <1>1, <1>13
<1>15. Done(N) = els
  BY <1>1
<1> HIDE DEF Done
<1> QED BY <1>10, <1>14, <1>15 DEF els, old
----------------------------------------------------------------------------
(* The calls on tables.                                                    *)

\* The elements there are to insert and to remove.
Els(p) == p.els \cup {p.script[i] : i \in DOMAIN p.script}

Takes(m, n, v, key) ==
  \E i \in 1 .. Len(Contents(m, v)) :
    LET c == Cut(Contents(m, v), i - 1, 1) IN
    /\ KeyOf(Contents(m, v)[i]) = key
    /\ c \in Seq(Elem) /\ Sorted(c) /\ Becomes(m, n, v, c)

TakesAll(m, n, v, key) ==
  \E i, k \in 0 .. Len(Contents(m, v)) :
    LET s == Contents(m, v)
        c == Cut(s, i, k)
    IN  /\ {j \in 1 .. Len(s) : KeyOf(s[j]) = key} = i + 1 .. i + k
        /\ c \in Seq(Elem) /\ Sorted(c) /\ Becomes(m, n, v, c)

Shares(m, n, v, w) ==
  /\ WellMem(n)
  /\ \A u \in Table : Contents(n, u) = IF u = v THEN Contents(m, w) ELSE Contents(m, u)

Moves(m, n, v, w) ==
  /\ v # w /\ WellMem(n) /\ (Own(m) => Own(n))
  /\ \A u \in Table : Contents(n, u) = IF u = v THEN Contents(m, w)
                                       ELSE IF u = w THEN <<>> ELSE Contents(m, u)

Merges(m, n, v, w) ==
  \E s \in Seq(Elem) : Becomes(m, n, v, s) /\ Joins(s, Contents(m, v), Contents(m, w))

\* What a call on the tables of plan p does to the memory.
Does(p, m, n) ==
  \/ n = m
  \/ \E v \in Table, el \in Els(p) : \/ Gets(m, n, v, el)
                                     \/ Takes(m, n, v, KeyOf(el))
                                     \/ TakesAll(m, n, v, KeyOf(el))
  \/ \E v \in Table : Becomes(m, n, v, <<>>)
  \/ \E v, w \in Table : \/ Shares(m, n, v, w) /\ (p.kind = "plain" /\ Own(m) => Own(n))
                         \/ Moves(m, n, v, w) \/ Merges(m, n, v, w)

LEMMA DoesTidy ==
  ASSUME NEW p, NEW m, NEW n, Tidy(m), Does(p, m, n)
  PROVE  Tidy(n) /\ (p.kind = "plain" /\ Own(m) => Own(n))
<1> USE DEF Becomes
<1>1. CASE n = m
  BY <1>1
<1>2. CASE \E v \in Table, el \in Els(p) : \/ Gets(m, n, v, el)
                                           \/ Takes(m, n, v, KeyOf(el))
                                           \/ TakesAll(m, n, v, KeyOf(el))
  <2>1. PICK v \in Table, s \in Seq(Elem) : Sorted(s) /\ Becomes(m, n, v, s)
    BY <1>2 DEF Gets, Takes, TakesAll
  <2> QED BY <2>1, TidyAfter
<1>3. CASE \E v \in Table : Becomes(m, n, v, <<>>)
  <2>1. <<>> \in Seq(Elem) /\ Sorted(<<>>)
    BY DEF Sorted
  <2> QED BY <1>3, <2>1, TidyAfter
<1>4. CASE \E v, w \in Table : Shares(m, n, v, w) /\ (p.kind = "plain" /\ Own(m) => Own(n))
  BY <1>4 DEF Shares, Tidy
<1>5. CASE \E v, w \in Table : Moves(m, n, v, w)
  <2>1. <<>> \in Seq(Elem) /\ Sorted(<<>>)
    BY DEF Sorted
  <2> QED BY <1>5, <2>1 DEF Moves, Tidy
<1>6. CASE \E v, w \in Table : Merges(m, n, v, w)
  <2>1. PICK v \in Table, s \in Seq(Elem) : Sorted(s) /\ Becomes(m, n, v, s)
    BY <1>6 DEF Merges, Joins
  <2> QED BY <2>1, TidyAfter
<1> QED BY <1>1, <1>2, <1>3, <1>4, <1>5, <1>6 DEF Does

LEMMA PlanFacts ==
  ASSUME NEW p \in Plans
  PROVE  /\ p.tabs \subseteq Table
         /\ \A i \in 1 .. Len(p.script) : p.script[i] \in Elem /\ p.script[i] \in Els(p)
         /\ \A el \in p.els : el \in Elem /\ el \in Els(p) /\ KeyOf(el) \in Nat
         /\ (CHOOSE x \in p.tabs : \A y \in p.tabs : x <= y) \in Table
<1>1. p.tabs \subseteq Table /\ p.tabs \subseteq Nat /\ p.tabs # {} /\ p.script \in Seq(Elem)
      /\ p.els \subseteq Elem
  BY PlansFit
<1>2. \A el \in Elem : KeyOf(el) \in Nat
  BY AvlKeys DEF Elem, KeyOf
<1>3. \A i \in 1 .. Len(p.script) : p.script[i] \in Elem /\ i \in DOMAIN p.script
  BY <1>1
<1>4. (CHOOSE x \in p.tabs : \A y \in p.tabs : x <= y) \in p.tabs
  <2>1. \E x \in p.tabs : \A y \in p.tabs : x <= y
    BY <1>1, SmallestNumber
  <2> QED BY <2>1
<1> QED BY <1>1, <1>2, <1>3, <1>4 DEF Els

----------------------------------------------------------------------------
(* The invariant.                                                          *)

TablesInv ==
  /\ plan \in Plans /\ played \in 0 .. Len(plan.script)
  /\ Tidy(mem)
  /\ plan.kind = "plain" => Own(mem)

LEMMA NextDoes ==
  ASSUME TablesInv, [Next]_vars
  PROVE  plan' = plan /\ played' \in 0 .. Len(plan.script) /\ Does(plan, mem, mem')
<1>1. /\ plan \in Plans /\ played \in 0 .. Len(plan.script) /\ Tidy(mem) /\ WellMem(mem)
      /\ Len(plan.script) \in Nat
  <2>1. plan.script \in Seq(Elem)
    BY PlansFit DEF TablesInv
  <2> QED BY <2>1 DEF TablesInv, Tidy
<1>2. CASE Play
  <2> DEFINE v == CHOOSE x \in plan.tabs : \A y \in plan.tabs : x <= y
             el == plan.script[played']
  <2>1. plan' = plan /\ played' \in 1 .. Len(plan.script)
    BY <1>1, <1>2 DEF Play, Playing
  <2>2. v \in Table /\ el \in Elem /\ el \in Els(plan)
    BY <1>1, <2>1, PlanFacts
  <2> HIDE DEF v, el
  <2>3. mem' = mem \/ mem' = TableInsertMulti(mem, v, el)
    BY <1>2 DEF Play, Avl, Mem, v, el
  <2>4. Gets(mem, TableInsertMulti(mem, v, el), v, el)
    BY <1>1, <2>2, InsertMultiGets
  <2> QED BY <2>1, <2>2, <2>3, <2>4 DEF Does
<1>3. CASE AvlCall
  BY <1>1, <1>3 DEF AvlCall, Call, Avl, Does
<1>4. CASE TableCall
  <2>1. plan' = plan /\ played' = played
    BY <1>4 DEF TableCall, Call
  <2>2. PICK v \in plan.tabs :
          \/ \E el \in plan.els : \/ mem' = TableInsert(mem, v, el)
                                  \/ mem' = TableInsertMulti(mem, v, el)
                                  \/ mem' = TableRemove(mem, v, KeyOf(el))
                                  \/ mem' = TableRemoveMulti(mem, v, KeyOf(el))
          \/ mem' = TableEmpty(mem, v)
          \/ \E w \in plan.tabs : \/ mem' = TableInsertAll(mem, v, w)
                                  \/ mem' = SetAs(mem, v, Contents(mem, w))
    BY <1>4 DEF TableCall, Mem
  <2>3. v \in Table
    BY <1>1, PlanFacts
  <2>4. CASE \E el \in plan.els : \/ mem' = TableInsert(mem, v, el)
                                  \/ mem' = TableInsertMulti(mem, v, el)
                                  \/ mem' = TableRemove(mem, v, KeyOf(el))
                                  \/ mem' = TableRemoveMulti(mem, v, KeyOf(el))
    <3>1. PICK el \in plan.els : \/ mem' = TableInsert(mem, v, el)
                                 \/ mem' = TableInsertMulti(mem, v, el)
                                 \/ mem' = TableRemove(mem, v, KeyOf(el))
                                 \/ mem' = TableRemoveMulti(mem, v, KeyOf(el))
      BY <2>4
    <3>2. el \in Elem /\ el \in Els(plan) /\ KeyOf(el) \in Nat
      BY <1>1, PlanFacts
    <3>3. CASE mem' = TableInsertMulti(mem, v, el)
      BY <1>1, <2>1, <2>3, <3>2, <3>3, InsertMultiGets DEF Does
    <3>4. CASE mem' = TableInsert(mem, v, el)
      <4>1. mem' = mem \/ mem' = TableInsertMulti(mem, v, el)
        BY <3>4 DEF TableInsert, TableInsertMulti
      <4> QED BY <1>1, <2>1, <2>3, <3>2, <4>1, InsertMultiGets DEF Does
    <3>5. CASE mem' = TableRemove(mem, v, KeyOf(el))
      <4> DEFINE key == KeyOf(el)
                 n == mem'
      <4>1. key \in Nat /\ n = TableRemove(mem, v, key)
        BY <3>2, <3>5
      <4> HIDE DEF key, n
      <4>2. n = mem \/ Takes(mem, n, v, key)
        BY <1>1, <2>3, <4>1, RemoveTakes DEF Takes
      <4> QED BY <1>1, <2>1, <2>3, <3>2, <4>2 DEF Does, key, n
    <3>6. CASE mem' = TableRemoveMulti(mem, v, KeyOf(el))
      <4> DEFINE key == KeyOf(el)
                 n == mem'
      <4>1. key \in Nat /\ n = TableRemoveMulti(mem, v, key)
        BY <3>2, <3>6
      <4> HIDE DEF key, n
      <4>2. n = mem \/ TakesAll(mem, n, v, key)
        BY <1>1, <2>3, <4>1, RemoveMultiTakes DEF TakesAll
      <4> QED BY <1>1, <2>1, <2>3, <3>2, <4>2 DEF Does, key, n
    <3> QED BY <3>1, <3>3, <3>4, <3>5, <3>6
  <2>5. CASE mem' = TableEmpty(mem, v)
    BY <1>1, <2>1, <2>3, <2>5, LetGo DEF Does
  <2>6. CASE \E w \in plan.tabs : mem' = TableInsertAll(mem, v, w)
    <3>1. PICK w \in plan.tabs : mem' = TableInsertAll(mem, v, w)
      BY <2>6
    <3>2. w \in Table
      BY <1>1, PlanFacts
    <3> DEFINE n == mem'
    <3>3. n = TableInsertAll(mem, v, w)
      BY <3>1
    <3> HIDE DEF n
    <3>4. Merges(mem, n, v, w)
      BY <1>1, <2>3, <3>2, <3>3, InsertAllJoins DEF Merges
    <3> QED BY <1>1, <2>1, <2>3, <3>2, <3>4 DEF Does, n
  <2>7. CASE \E w \in plan.tabs : mem' = SetAs(mem, v, Contents(mem, w))
    <3>1. PICK w \in plan.tabs : mem' = SetAs(mem, v, Contents(mem, w))
      BY <2>7
    <3>2. w \in Table
      BY <1>1, PlanFacts
    <3>3. Contents(mem, w) \in Seq(Cell)
      BY <1>1, <3>2, TidyTypes
    <3>4. Becomes(mem, mem', v, Contents(mem, w))
      BY <1>1, <2>3, <3>1, <3>3, SetAsSets
    <3>5. Shares(mem, mem', v, w) /\ (Own(mem) => Own(mem'))
      BY <3>4 DEF Shares, Becomes
    <3> QED BY <1>1, <2>1, <2>3, <3>2, <3>5 DEF Does
  <2> QED BY <2>2, <2>4, <2>5, <2>6, <2>7
<1>5. CASE SharedCall
  <2>1. plan' = plan /\ played' = played /\ plan.kind # "plain"
    BY <1>5 DEF SharedCall, Call
  <2>2. PICK v \in plan.tabs, w \in plan.tabs : v # w /\ mem' = TableAssign(mem, v, w)
    BY <1>5 DEF SharedCall, Mem
  <2>3. v \in Table /\ w \in Table
    BY <1>1, PlanFacts
  <2>4. Shares(mem, mem', v, w)
    BY <1>1, <2>2, <2>3, AssignShares DEF Shares
  <2> QED BY <1>1, <2>1, <2>3, <2>4 DEF Does
<1>6. CASE PlainCall
  <2>1. plan' = plan /\ played' = played /\ Own(mem)
    BY <1>6 DEF PlainCall, Call, TablesInv
  <2>2. PICK v \in plan.tabs, w \in plan.tabs :
          v # w /\ \/ mem' = TableTransfer(mem, v, w)
                   \/ mem.data[v] = None /\ mem' = TableDuplicate(mem, v, w)
    BY <1>6 DEF PlainCall, Mem
  <2>3. v \in Table /\ w \in Table
    BY <1>1, PlanFacts
  <2>4. CASE mem' = TableTransfer(mem, v, w)
    <3>1. Moves(mem, mem', v, w)
      BY <1>1, <2>2, <2>3, <2>4, TransferMoves DEF Moves
    <3> QED BY <1>1, <2>1, <2>3, <3>1 DEF Does
  <2>5. CASE mem.data[v] = None /\ mem' = TableDuplicate(mem, v, w)
    <3>1. Becomes(mem, mem', v, Contents(mem, w))
      BY <1>1, <2>1, <2>3, <2>5, DuplicateCopies
    <3>2. Shares(mem, mem', v, w) /\ (Own(mem) => Own(mem'))
      BY <3>1 DEF Shares, Becomes
    <3> QED BY <1>1, <2>1, <2>3, <3>2 DEF Does
  <2> QED BY <2>2, <2>4, <2>5
<1>7. CASE UNCHANGED vars
  BY <1>1, <1>7 DEF vars, Does
<1> QED BY <1>2, <1>3, <1>4, <1>5, <1>6, <1>7 DEF Next
LEMMA InitTablesInv == ASSUME Init PROVE TablesInv
<1>1. plan \in Plans /\ plan.script \in Seq(Elem) /\ played = 0
  BY PlansFit DEF Init
<1>2. played \in 0 .. Len(plan.script)
  BY <1>1
<1>3. mem = [data |-> [v \in Table |-> None], buf |-> [b \in Buf |-> Free]]
  BY DEF Init, NoTables
<1>4. Free \in Block /\ Free.refCount = 0 /\ Free.len = 0 /\ Len(Free.cells) = 0
  BY DEF Free, Block
<1>5. WellMem(mem)
  <2>1. \A b \in Buf : mem.buf[b] = Free /\ Pointing(mem, b) = {}
    BY <1>3, NoneNoBuf DEF Pointing
  <2>2. \A b \in Buf : Cardinality(Pointing(mem, b)) = 0
    BY <2>1, FS_EmptySet
  <2>3. mem \in [data : [Table -> Buf \cup {None}], buf : [Buf -> Block]]
    BY <1>3, <1>4
  <2> QED BY <1>4, <2>1, <2>2, <2>3 DEF WellMem
<1>6. \A v \in Table : Contents(mem, v) = <<>>
  BY <1>3 DEF Contents
<1>7. <<>> \in Seq(Elem) /\ Sorted(<<>>)
  BY DEF Sorted
<1>8. Own(mem)
  BY <1>3, <1>4 DEF Own
<1> QED BY <1>1, <1>2, <1>5, <1>6, <1>7, <1>8 DEF TablesInv, Tidy

LEMMA NextTablesInv == ASSUME TablesInv, [Next]_vars PROVE TablesInv'
<1>1. plan' = plan /\ played' \in 0 .. Len(plan.script) /\ Does(plan, mem, mem')
  BY NextDoes
<1> DEFINE n == mem'
<1>2. Does(plan, mem, n) /\ Tidy(mem)
  BY <1>1 DEF TablesInv
<1> HIDE DEF n
<1>3. Tidy(n) /\ (plan.kind = "plain" /\ Own(mem) => Own(n))
  BY <1>2, DoesTidy
<1> QED BY <1>1, <1>3 DEF TablesInv, n

\* Whatever calls are made, the memory of the tables stays well-formed: buffers
\* are typed and counted, the cells of a table are elements, in order, and the
\* buffers of Vector are never shared.
THEOREM TablesInvariance == Spec => []TablesInv
<1>1. Init => TablesInv
  BY InitTablesInv
<1>2. TablesInv /\ [Next]_vars => TablesInv'
  BY NextTablesInv
<1> QED BY <1>1, <1>2, PTL DEF Spec

LEMMA TablesInvCounted == ASSUME TablesInv PROVE RefsCounted
<1>1. WellMem(mem) /\ (plan.kind = "plain" => Own(mem))
  BY DEF TablesInv, Tidy
<1>2. ASSUME NEW b \in Buf
      PROVE  /\ mem.buf[b].refCount = Cardinality({v \in Table : mem.data[v] = b})
             /\ mem.buf[b].refCount = 0 => mem.buf[b] = Free
             /\ plan.kind = "plain" => mem.buf[b].refCount <= 1
  BY <1>1 DEF WellMem, Pointing, Own
<1>3. ASSUME NEW v \in Table, mem.data[v] # None
      PROVE  /\ Length(mem, v) <= Alloc(Header(mem, v))
             /\ \A i \in 1 .. Length(mem, v) : Header(mem, v).cells[i] # Raw
  <2>1. /\ Contents(mem, v) \in Seq(Elem)
        /\ Len(Contents(mem, v)) = mem.buf[mem.data[v]].len
        /\ mem.buf[mem.data[v]].len <= Len(mem.buf[mem.data[v]].cells)
        /\ \A i \in 1 .. mem.buf[mem.data[v]].len :
             Contents(mem, v)[i] = mem.buf[mem.data[v]].cells[i]
    BY <1>1, <1>3, ContentsType DEF TablesInv, Tidy
  <2>2. \A i \in 1 .. mem.buf[mem.data[v]].len : Contents(mem, v)[i] \in Elem
    BY <2>1, ElemKeys
  <2> QED BY <1>3, <2>1, <2>2, RawNoElem DEF Length, Header, Alloc
<1> QED BY <1>2, <1>3 DEF RefsCounted

\* A buffer always counts the tables that point to it, whatever is copied,
\* assigned, changed and emptied (svector.h), and no table shows a raw cell.
THEOREM BuffersCounted == Spec => []RefsCounted
<1>1. TablesInv => RefsCounted
  BY TablesInvCounted
<1> QED BY <1>1, TablesInvariance, PTL

LEMMA TidyLookups == ASSUME TablesInv PROVE TableLookups
<1> SUFFICES ASSUME NEW v \in Table, NEW k \in Key
             PROVE  LET els  == Contents(mem, v)
                        with == {i \in 1 .. Len(els) : KeyOf(els[i]) = k}
                        s    == Search(els, k)
                    IN  IF with = {}
                        THEN ~s.found /\ s.at = Cardinality({i \in 1 .. Len(els) : KeyOf(els[i]) < k})
                        ELSE /\ s.found /\ s.at + 1 \in with
                             /\ LET m == FindMulti(els, k) IN m.low + 1 .. m.high + 1 = with
  BY DEF TableLookups
<1> DEFINE els == Contents(mem, v)
           with == {i \in 1 .. Len(els) : KeyOf(els[i]) = k}
           s == Search(els, k)
           m == FindMulti(els, k)
<1>1. els \in Seq(Elem) /\ Sorted(els) /\ Len(els) \in Nat /\ k \in Nat
  BY TidyTypes, AvlKeys DEF TablesInv
<1>2. /\ s.found <=> k \in KeysOf(els)
      /\ s.found => s.at \in 0 .. Len(els) - 1 /\ KeyOf(els[s.at + 1]) = k
      /\ ~ s.found =>
           /\ s.at \in 0 .. Len(els)
           /\ \A i \in 1 .. Len(els) : IF i <= s.at THEN KeyOf(els[i]) < k ELSE k < KeyOf(els[i])
  <2> HIDE DEF els
  <2> QED BY <1>1, SearchSays
<1>3. s.found <=> with # {}
  BY <1>2 DEF KeysOf
<1>4. ASSUME ~ s.found PROVE s.at = Cardinality({i \in 1 .. Len(els) : KeyOf(els[i]) < k})
  <2>1. \A i \in 1 .. Len(els) : KeyOf(els[i]) \in Nat
    <3> HIDE DEF els
    <3> QED BY <1>1, ElemKeys
  <2>2. {i \in 1 .. Len(els) : KeyOf(els[i]) < k} = 1 .. s.at
    <3> HIDE DEF els, s
    <3> QED BY <1>1, <1>2, <1>4, <2>1
  <2>3. Cardinality(1 .. s.at) = s.at
    <3>1. s.at \in Nat
      BY <1>2, <1>4
    <3> HIDE DEF s
    <3> QED BY <3>1, FS_Interval
  <2> QED BY <2>2, <2>3
<1>5. ASSUME s.found PROVE s.at + 1 \in with /\ m.low + 1 .. m.high + 1 = with
  <2>1. s.at + 1 \in with
    <3> HIDE DEF els, s
    <3> QED BY <1>1, <1>2, <1>5
  <2>2. m = FindMulti(els, k)
    OBVIOUS
  <2> HIDE DEF els, m
  <2>3. m.low + 1 .. m.high + 1 = with
    BY <1>1, <1>5, <2>2, FindMultiFinds
  <2> QED BY <2>1, <2>3
<1> HIDE DEF els, with, s, m
<1>6. IF with = {} THEN ~s.found /\ s.at = Cardinality({i \in 1 .. Len(els) : KeyOf(els[i]) < k})
      ELSE s.found /\ s.at + 1 \in with /\ m.low + 1 .. m.high + 1 = with
  BY <1>3, <1>4, <1>5
<1> QED BY <1>6 DEF els, with, s, m
----------------------------------------------------------------------------
(* What the tables promise.                                                *)

Seqs(m) == [v \in Table |-> Contents(m, v)]

LEMMA SameCardinality == ASSUME NEW S PROVE Promise!Cardinality(S) = Cardinality(S)
BY DEF Promise!Cardinality, Cardinality

LEMMA JoinsMerged ==
  ASSUME NEW new, NEW old, NEW els, Joins(new, old, els)
  PROVE  Promise!Merged(new, old, els)
<1> DEFINE added == KeysOf(els) \ KeysOf(old)
<1>1. /\ Promise!Keys(new) = KeysOf(new) /\ Promise!Keys(old) = KeysOf(old)
      /\ Promise!Keys(els) = KeysOf(els)
  BY DEF Promise!Keys, KeysOf, KeyOf
<1>2. Promise!Sorted(new)
  BY DEF Promise!Sorted, Sorted, Joins, KeyOf
<1>3. KeysOf(new) = KeysOf(old) \cup KeysOf(els) /\ Len(new) = Len(old) + Cardinality(added)
  BY DEF Joins
<1>4. ASSUME NEW i \in 1 .. Len(old)
      PROVE  new[i + Cardinality({k \in added : k < old[i][1]})] = old[i]
  <2>1. new[i + Fewer(added, KeyOf(old[i]))] = old[i]
    BY DEF Joins
  <2> QED BY <2>1 DEF Fewer, KeyOf
<1>5. \A k \in added : \E i \in 1 .. Len(els), j \in 1 .. Len(new) :
        els[i][1] = k /\ new[j] = els[i]
  BY DEF Joins, KeyOf
<1>6. Promise!Keys(els) \ Promise!Keys(old) = added
  BY <1>1
<1> DEFINE same == Promise!Keys(els) \ Promise!Keys(old)
<1>7. /\ Promise!Keys(new) = Promise!Keys(old) \cup Promise!Keys(els)
      /\ Len(new) = Len(old) + Cardinality(same)
  BY <1>1, <1>3
<1>8. ASSUME NEW i \in 1 .. Len(old)
      PROVE  new[i + Cardinality({k \in same : k < old[i][1]})] = old[i]
  <2>1. {k \in same : k < old[i][1]} = {k \in added : k < old[i][1]}
    BY <1>6
  <2> HIDE DEF same, added
  <2> QED BY <1>4, <2>1
<1>9. \A k \in same : \E i \in 1 .. Len(els), j \in 1 .. Len(new) :
        els[i][1] = k /\ new[j] = els[i]
  BY <1>5, <1>6
<1> HIDE DEF added
<1>10. /\ Len(new) = Len(old) + Promise!Cardinality(same)
       /\ \A i \in 1 .. Len(old) :
            new[i + Promise!Cardinality({k \in same : k < old[i][1]})] = old[i]
  BY <1>7, <1>8, SameCardinality
<1> QED BY <1>2, <1>7, <1>10, <1>9 DEF Promise!Merged

\* What a call does is a step of OrderedTables.
LEMMA DoesPromised ==
  ASSUME TablesInv, plan.kind # "avl", plan' = plan, Does(plan, mem, mem')
  PROVE  Promise!Next \/ Seqs(mem') = Seqs(mem)
<1> DEFINE T == [v \in Table |-> IF plan.kind = "avl" THEN TreeEls(trees[v])
                                 ELSE Contents(mem, v)]
           E == UNION {p.els \cup {p.script[i] : i \in DOMAIN p.script} : p \in Plans}
           n == mem'
<1>1. T = Seqs(mem) /\ T' = Seqs(n)
  BY DEF Seqs
<1>2. \A el \in Els(plan) : el \in E
  BY DEF TablesInv, Els
<1>3. /\ \A v \in Table : Contents(mem, v) \in Seq(Elem) /\ Len(Contents(mem, v)) \in Nat
      /\ Does(plan, mem, n)
  BY TidyTypes DEF TablesInv
<1>4. ASSUME NEW v \in Table, NEW el \in E, NEW i \in 0 .. Len(T[v]),
             Sorted(Placed(T[v], i, el)), T' = [T EXCEPT ![v] = Placed(T[v], i, el)]
      PROVE  Promise!Next
  <2>1. Promise!InsertMulti(v, el)
    BY <1>4 DEF Promise!InsertMulti, Promise!Put, Promise!Sorted, Placed, Sorted, KeyOf
  <2> QED BY <2>1 DEF Promise!Next
<1>5. ASSUME NEW v \in Table, NEW el \in E, NEW i \in 1 .. Len(T[v]), KeyOf(T[v][i]) = KeyOf(el),
             T' = [T EXCEPT ![v] = Cut(T[v], i - 1, 1)]
      PROVE  Promise!Next
  <2>1. Promise!Remove(v, el[1])
    BY <1>5 DEF Promise!Remove, Promise!Without, Cut, KeyOf
  <2> QED BY <2>1 DEF Promise!Next
<1>6. ASSUME NEW v \in Table, NEW el \in E, NEW i \in 0 .. Len(T[v]), NEW k \in 0 .. Len(T[v]),
             {j \in 1 .. Len(T[v]) : KeyOf(T[v][j]) = KeyOf(el)} = i + 1 .. i + k,
             T' = [T EXCEPT ![v] = Cut(T[v], i, k)]
      PROVE  Promise!Next
  <2>1. Promise!RemoveMulti(v, el[1])
    BY <1>6 DEF Promise!RemoveMulti, Promise!Without, Cut, KeyOf
  <2> QED BY <2>1 DEF Promise!Next
<1>7. ASSUME NEW v \in Table, T' = [T EXCEPT ![v] = <<>>]
      PROVE  Promise!Next
  BY <1>7 DEF Promise!Next, Promise!Empty
<1>8. ASSUME NEW v \in Table, NEW w \in Table, T' = [T EXCEPT ![v] = T[w]]
      PROVE  Promise!Next
  BY <1>8 DEF Promise!Next, Promise!Copy
<1>9. ASSUME NEW v \in Table, NEW w \in Table, v # w,
             T' = [T EXCEPT ![v] = T[w], ![w] = <<>>]
      PROVE  Promise!Next
  BY <1>9 DEF Promise!Next, Promise!Transfer
<1>10. ASSUME NEW v \in Table, NEW w \in Table, NEW s, Joins(s, T[v], T[w]),
              T' = [T EXCEPT ![v] = s]
       PROVE  Promise!Next
  <2>1. T'[v] = s
    BY <1>10
  <2>2. Promise!Merged(s, T[v], T[w])
    BY <1>10, JoinsMerged
  <2>3. Promise!InsertAll(v, w)
    BY <1>10, <2>1, <2>2 DEF Promise!InsertAll
  <2> QED BY <2>3 DEF Promise!Next
<1> HIDE DEF T, E, n
<1>11. \A v \in Table : T[v] = Contents(mem, v)
  BY <1>1 DEF Seqs
<1>12. ASSUME NEW v \in Table, NEW s, Becomes(mem, n, v, s) PROVE T' = [T EXCEPT ![v] = s]
  BY <1>1, <1>12 DEF Becomes, Seqs
<1>13. CASE n = mem
  BY <1>13 DEF n
<1>14. CASE \E v \in Table, el \in Els(plan) : \/ Gets(mem, n, v, el)
                                               \/ Takes(mem, n, v, KeyOf(el))
                                               \/ TakesAll(mem, n, v, KeyOf(el))
  <2>1. PICK v \in Table, el \in Els(plan) : \/ Gets(mem, n, v, el)
                                             \/ Takes(mem, n, v, KeyOf(el))
                                             \/ TakesAll(mem, n, v, KeyOf(el))
    BY <1>14
  <2>2. el \in E /\ T[v] = Contents(mem, v)
    BY <1>2, <1>11
  <2>3. CASE Gets(mem, n, v, el)
    <3>1. PICK i \in 0 .. Len(T[v]) : /\ Sorted(Placed(T[v], i, el))
                                      /\ Becomes(mem, n, v, Placed(T[v], i, el))
      BY <2>2, <2>3 DEF Gets
    <3> QED BY <1>4, <1>12, <2>2, <3>1
  <2>4. CASE Takes(mem, n, v, KeyOf(el))
    <3>1. PICK i \in 1 .. Len(T[v]) : /\ KeyOf(T[v][i]) = KeyOf(el)
                                      /\ Becomes(mem, n, v, Cut(T[v], i - 1, 1))
      BY <2>2, <2>4 DEF Takes
    <3> QED BY <1>5, <1>12, <2>2, <3>1
  <2>5. CASE TakesAll(mem, n, v, KeyOf(el))
    <3>1. PICK i \in 0 .. Len(T[v]), k \in 0 .. Len(T[v]) :
            /\ {j \in 1 .. Len(T[v]) : KeyOf(T[v][j]) = KeyOf(el)} = i + 1 .. i + k
            /\ Becomes(mem, n, v, Cut(T[v], i, k))
      BY <2>2, <2>5 DEF TakesAll
    <3> QED BY <1>6, <1>12, <2>2, <3>1
  <2> QED BY <2>1, <2>3, <2>4, <2>5
<1>15. CASE \E v \in Table : Becomes(mem, n, v, <<>>)
  BY <1>7, <1>12, <1>15
<1>16. CASE \E v, w \in Table : Shares(mem, n, v, w)
  <2>1. PICK v \in Table, w \in Table : Shares(mem, n, v, w)
    BY <1>16
  <2>2. T' = [T EXCEPT ![v] = T[w]]
    BY <1>1, <2>1 DEF Shares, Seqs
  <2> QED BY <1>8, <2>2
<1>17. CASE \E v, w \in Table : Moves(mem, n, v, w)
  <2>1. PICK v \in Table, w \in Table : Moves(mem, n, v, w)
    BY <1>17
  <2>2. v # w /\ T' = [T EXCEPT ![v] = T[w], ![w] = <<>>]
    BY <1>1, <2>1 DEF Moves, Seqs
  <2> QED BY <1>9, <2>2
<1>18. CASE \E v, w \in Table : Merges(mem, n, v, w)
  <2>1. PICK v \in Table, w \in Table, s \in Seq(Elem) :
          Becomes(mem, n, v, s) /\ Joins(s, T[v], T[w])
    BY <1>11, <1>18 DEF Merges
  <2> QED BY <1>10, <1>12, <2>1
<1> QED BY <1>3, <1>13, <1>14, <1>15, <1>16, <1>17, <1>18 DEF Does, n

\* Under any calls each table of aapl behaves as a sequence sorted by key and
\* apart from every other, though SVectors share their buffers (svector.h).
THEOREM TablesPromised == Spec /\ plan.kind # "avl" => AbstractSpec
<1>1. Init /\ plan.kind # "avl" => Promise!Init
  <2> SUFFICES ASSUME Init, plan.kind # "avl" PROVE Promise!Init
    OBVIOUS
  <2>1. \A v \in Table : Contents(mem, v) = <<>>
    BY DEF Init, NoTables, Contents
  <2> QED BY <2>1 DEF Promise!Init
<1>2. TablesInv /\ plan.kind # "avl" /\ [Next]_vars => (plan.kind # "avl")'
  BY NextDoes
<1>3. TablesInv /\ plan.kind # "avl" /\ [Next]_vars
        => [Promise!Next]_([v \in Table |-> IF plan.kind = "avl" THEN TreeEls(trees[v])
                                            ELSE Contents(mem, v)])
  <2> SUFFICES ASSUME TablesInv, plan.kind # "avl", [Next]_vars
               PROVE  \/ Promise!Next
                      \/ UNCHANGED [v \in Table |-> IF plan.kind = "avl" THEN TreeEls(trees[v])
                                                    ELSE Contents(mem, v)]
    OBVIOUS
  <2>1. plan' = plan /\ Does(plan, mem, mem')
    BY NextDoes
  <2>2. Promise!Next \/ Seqs(mem') = Seqs(mem)
    BY <2>1, DoesPromised
  <2> QED BY <2>1, <2>2 DEF Seqs
<1> QED BY <1>1, <1>2, <1>3, TablesInvariance, PTL DEF Spec, AbstractSpec, Promise!Spec
\* The other calls leave the trees empty.
NoTrees == plan.kind # "avl" /\ \A v \in Table : trees[v] = EmptyTree

LEMMA NextNoTrees ==
  ASSUME NoTrees, [Next]_vars
  PROVE  NoTrees'
<1>1. CASE Play
  BY <1>1 DEF Play, Mem, NoTrees
<1>2. CASE AvlCall
  BY <1>2 DEF AvlCall, NoTrees
<1>3. CASE TableCall \/ SharedCall \/ PlainCall
  <2>1. trees' = trees /\ plan' = plan
    BY <1>3 DEF TableCall, SharedCall, PlainCall, Mem, Call
  <2> QED BY <2>1 DEF NoTrees
<1>4. CASE UNCHANGED vars
  BY <1>4 DEF vars, NoTrees
<1> QED BY <1>1, <1>2, <1>3, <1>4 DEF Next

LEMMA EmptyTreeLookups ==
  ASSUME NEW k \in Key
  PROVE  InOrder(EmptyTree, Null) = <<>> /\ AvlFind(EmptyTree, k) = Null
<1>1. EmptyTree.left = [e \in Key |-> Null] /\ EmptyTree.right = [e \in Key |-> Null] /\ EmptyTree.root = Null
  BY DEF EmptyTree, NoPtrs
<1>2. Null \in Link /\ k \in Nat /\ \A e \in Link : e \in Nat
  BY AvlKeys DEF Link, Null
<1>3. \A e \in Link : e # Null => EmptyTree.left[e] = Null /\ EmptyTree.right[e] = Null
  BY <1>1 DEF Link
<1>4. InOrder(EmptyTree, Null) = <<>>
  <2> DEFINE t == EmptyTree
             body(f, x) == IF x = Null THEN <<>> ELSE f[t.left[x]] \o <<x>> \o f[t.right[x]]
             g == [x \in Link |-> IF x = Null THEN <<>> ELSE <<>> \o <<x>> \o <<>>]
             branch == CHOOSE f : f = [x \in Link |-> body(f, x)]
  <2>1. g[Null] = <<>>
    BY <1>2
  <2>2. ASSUME NEW x \in Link PROVE g[x] = body(g, x)
    BY <1>3, <2>1
  <2>3. g = [x \in Link |-> body(g, x)]
    <3> HIDE DEF body
    <3> QED BY <2>2
  <2>4. branch = [x \in Link |-> body(branch, x)]
    <3> HIDE DEF body
    <3> QED BY <2>3
  <2>5. InOrder(EmptyTree, Null) = branch[Null]
    BY DEF InOrder
  <2> HIDE DEF branch
  <2> QED BY <1>2, <2>4, <2>5
<1>5. AvlFind(EmptyTree, k) = Null
  <2> DEFINE t == EmptyTree
             body(f, x) == IF x = Null THEN Null ELSE IF k < x THEN f[t.left[x]]
                           ELSE IF k > x THEN f[t.right[x]] ELSE x
             g == [x \in Link |-> IF x = Null THEN Null ELSE IF k < x THEN Null
                                  ELSE IF k > x THEN Null ELSE x]
             find == CHOOSE f : f = [x \in Link |-> body(f, x)]
  <2>1. g[Null] = Null
    BY <1>2
  <2>2. ASSUME NEW x \in Link PROVE g[x] = body(g, x)
    BY <1>3, <2>1
  <2>3. g = [x \in Link |-> body(g, x)]
    <3> HIDE DEF body
    <3> QED BY <2>2
  <2>4. find = [x \in Link |-> body(find, x)]
    <3> HIDE DEF body
    <3> QED BY <2>3
  <2>5. AvlFind(EmptyTree, k) = find[Null]
    BY <1>1 DEF AvlFind
  <2> HIDE DEF find
  <2> QED BY <1>2, <2>4, <2>5
<1> QED BY <1>4, <1>5

\* A search in a table finds a key if it is there, and where it would go if it
\* is not, and findMulti the whole run of it (bstcommon.h), after any calls.
THEOREM TableLookupsRight == Spec /\ plan.kind # "avl" => []LookupsRight
<1>1. Init /\ plan.kind # "avl" => NoTrees
  BY DEF Init, NoTrees
<1>2. NoTrees /\ [Next]_vars => NoTrees'
  BY NextNoTrees
<1>3. TablesInv /\ NoTrees => LookupsRight
  <2> SUFFICES ASSUME TablesInv, NoTrees PROVE LookupsRight
    OBVIOUS
  <2>1. TreeLookups
    <3> SUFFICES ASSUME NEW v \in Table, NEW k \in Key
                 PROVE  LET t == trees[v]  s == InOrder(t, t.root)
                        IN  AvlFind(t, k) = IF \E i \in 1 .. Len(s) : s[i] = k THEN k ELSE Null
      BY DEF TreeLookups
    <3>1. trees[v] = EmptyTree /\ EmptyTree.root = Null
      BY DEF NoTrees, EmptyTree
    <3>2. InOrder(EmptyTree, Null) = <<>> /\ AvlFind(EmptyTree, k) = Null
      BY EmptyTreeLookups
    <3>3. 1 .. Len(<<>>) = {}
      OBVIOUS
    <3> QED BY <3>1, <3>2, <3>3
  <2> QED BY <2>1, TidyLookups DEF LookupsRight
<1> QED BY <1>1, <1>2, <1>3, TablesInvariance, PTL DEF Spec
=============================================================================
