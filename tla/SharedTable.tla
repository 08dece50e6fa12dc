----------------------------- MODULE SharedTable -----------------------------
(***************************************************************************)
(* The sorted tables of aapl: BstTable (bstcommon.h) over SVector, which   *)
(* shares its buffer with its copies until one of them changes, or over    *)
(* Vector, which never shares.  An element is a pair of a key and a value. *)
(*                                                                         *)
(* mem is the memory: data, the buffer each table points to, and buf, the  *)
(* buffers.  A buffer is free when its refCount is zero.  Its cells are    *)
(* raw until an element is put there.  The header of a Vector is in the    *)
(* object; here it is in its buffer too.                                   *)
(***************************************************************************)
EXTENDS Integers, Sequences, FiniteSets

CONSTANTS Table,  \* the objects
          Buf,    \* addresses of buffers, one more than there are objects
          Raw     \* an uninitialised cell

None == 0
ASSUME BufNumbers == Buf \subseteq Nat \ {None}
\* Memory does not run out.
ASSUME EnoughBufs == /\ IsFiniteSet(Table) /\ IsFiniteSet(Buf)
                     /\ Cardinality(Buf) > Cardinality(Table)

Free == [refCount |-> 0, len |-> 0, cells |-> <<>>]
NoTables == [data |-> [v \in Table |-> None], buf |-> [b \in Buf |-> Free]]

KeyOf(el) == el[1]
Alloc(h)  == Len(h.cells)
Header(mem, v)     == mem.buf[mem.data[v]]
Length(mem, v)   == IF mem.data[v] = None THEN 0 ELSE Header(mem, v).len
Contents(mem, v) ==
  IF mem.data[v] = None THEN <<>> ELSE SubSeq(Header(mem, v).cells, 1, Header(mem, v).len)

NewBuf(mem) == CHOOSE b \in Buf : /\ mem.buf[b].refCount = 0
                                  /\ \A c \in Buf : mem.buf[c].refCount = 0 => b <= c
Raws(n) == [i \in 1 .. n |-> Raw]

----------------------------------------------------------------------------
(* Sizes: ResizeExpn of aapl/resize.h.                                     *)

UpLen(existing, needed)   == IF needed > existing THEN 2 * needed ELSE existing
DownLen(existing, needed) == IF needed < existing \div 4 THEN 2 * needed ELSE existing

\* realloc: what fits of the old cells, then raw ones.
Realloc(cells, n) == [i \in 1 .. n |-> IF i <= Len(cells) THEN cells[i] ELSE Raw]

----------------------------------------------------------------------------
(* Buffers.                                                                *)

\* upResizeFromEmpty: no buffer for no elements.
FromEmpty(mem, v, els) ==
  IF els = <<>> THEN mem
  ELSE LET b == NewBuf(mem) IN
       [data |-> [mem.data EXCEPT ![v] = b],
        buf  |-> [mem.buf EXCEPT ![b] = [refCount |-> 1, len |-> Len(els),
                                         cells |-> Realloc(els, UpLen(0, Len(els)))]]]

\* empty: the last table to let go of a buffer frees it.
TableEmpty(mem, v) ==
  [data |-> [mem.data EXCEPT ![v] = None],
   buf  |-> [b \in Buf |-> IF b # mem.data[v] THEN mem.buf[b]
                           ELSE IF mem.buf[b].refCount = 1 THEN Free
                           ELSE [mem.buf[b] EXCEPT !.refCount = @ - 1]]]

\* upResizeDup and downResizeDup with the copying of their callers: the table
\* leaves its buffer to the others and has els in a new one of n cells.
Dup(mem, v, n, els) ==
  LET b == NewBuf(mem) IN
  [data |-> [mem.data EXCEPT ![v] = b],
   buf  |-> [mem.buf EXCEPT ![mem.data[v]].refCount = @ - 1,
                            ![b] = [refCount |-> 1, len |-> Len(els),
                                    cells |-> Realloc(els, n)]]]

\* downResize to n elements, which are the first n cells.
Shrink(mem, v, cells, n) ==
  LET b   == mem.data[v]
      new == DownLen(Len(cells), n)
  IN  IF new = 0 THEN TableEmpty(mem, v)
      ELSE [mem EXCEPT !.buf[b].cells = Realloc(cells, new), !.buf[b].len = n]

\* memmove of the elements from pos (the first is 0) on, n to the right or to
\* the left.  Cells that hold no element any more are raw.
MoveRight(cells, len, pos, n) ==
  [i \in DOMAIN cells |-> CASE i <= pos -> cells[i]
                            [] i > pos + n /\ i <= len + n -> cells[i - n]
                            [] OTHER -> Raw]
MoveLeft(cells, len, pos, n) ==
  [i \in DOMAIN cells |-> CASE i <= pos -> cells[i]
                            [] i > pos /\ i <= len - n -> cells[i + n]
                            [] OTHER -> Raw]

\* The elements around a gap of n, or without the n at pos.
Gap(els, pos, n) == SubSeq(els, 1, pos) \o Raws(n) \o SubSeq(els, pos + 1, Len(els))
Cut(els, pos, n) == SubSeq(els, 1, pos) \o SubSeq(els, pos + n + 1, Len(els))

\* A bug: the buffer is taken to be the table's own.
RawSpaceInPlace(mem, v, pos, n) ==
  IF mem.data[v] = None THEN FromEmpty(mem, v, Raws(n))
  ELSE LET b == mem.data[v]  h == mem.buf[b] IN
       [mem EXCEPT !.buf[b].cells =
                     MoveRight(Realloc(h.cells, UpLen(Alloc(h), h.len + n)), h.len, pos, n),
                   !.buf[b].len = h.len + n]

\* makeRawSpaceFor n elements at pos.
RawSpace(mem, v, pos, n) ==
  IF mem.data[v] = None THEN FromEmpty(mem, v, Raws(n))
  ELSE LET b == mem.data[v]  h == mem.buf[b]
           size == UpLen(Alloc(h), h.len + n)
       IN  IF h.refCount = 1
           THEN [mem EXCEPT !.buf[b].cells = MoveRight(Realloc(h.cells, size), h.len, pos, n),
                            !.buf[b].len = h.len + n]
           ELSE Dup(mem, v, size, Gap(Contents(mem, v), pos, n))

\* remove n elements at pos.
RemoveAt(mem, v, pos, n) ==
  IF mem.data[v] = None THEN mem
  ELSE LET h == Header(mem, v) IN
       IF h.refCount = 1
       THEN Shrink(mem, v, MoveLeft(h.cells, h.len, pos, n), h.len - n)
       ELSE Dup(mem, v, DownLen(Alloc(h), h.len - n), Cut(Contents(mem, v), pos, n))

\* setAsCommon with the copying of setAs.  A buffer of its own is reused.
SetAs(mem, v, els) ==
  IF mem.data[v] = None THEN FromEmpty(mem, v, els)
  ELSE LET b == mem.data[v]  h == mem.buf[b]
           size == IF Len(els) < h.len THEN DownLen(Alloc(h), Len(els))
                   ELSE IF Len(els) > h.len THEN UpLen(Alloc(h), Len(els)) ELSE Alloc(h)
       IN  IF h.refCount > 1 THEN FromEmpty(TableEmpty(mem, v), v, els)
           ELSE IF size = 0 THEN TableEmpty(mem, v)
           ELSE [mem EXCEPT
                  !.buf[b].len   = Len(els),
                  !.buf[b].cells = [i \in 1 .. size |-> IF i <= Len(els) THEN els[i] ELSE Raw]]

\* A bug: the buffer is shared and not counted.
AssignNoRef(mem, v, w) ==
  [TableEmpty(mem, v) EXCEPT !.data[v] = mem.data[w]]

\* operator= of SVector; a copy constructor is one to an empty table.  Never
\* to itself: that would lose the contents.
TableAssign(mem, v, w) ==
  LET m == TableEmpty(mem, v) IN
  IF m.data[w] = None THEN m
  ELSE [data |-> [m.data EXCEPT ![v] = m.data[w]],
        buf  |-> [m.buf EXCEPT ![m.data[w]].refCount = @ + 1]]

\* The copy constructor of Vector, to an empty table: the buffer has the size of
\* the other.
TableDuplicate(mem, v, w) ==
  IF mem.data[w] = None THEN mem
  ELSE LET b == NewBuf(mem) IN
       [data |-> [mem.data EXCEPT ![v] = b],
        buf  |-> [mem.buf EXCEPT ![b] = Header(mem, w)]]

\* transfer of Vector: the buffer moves.
TableTransfer(mem, v, w) ==
  [TableEmpty(mem, v) EXCEPT !.data[v] = mem.data[w], !.data[w] = None]

----------------------------------------------------------------------------
(* Binary search.  Positions start at 0, as in the code.                   *)

\* Half way between lower and upper until they cross: found, and where.
Search(els, key) ==
  LET from[r \in (0 .. Len(els)) \X (-1 .. Len(els) - 1)] ==
        LET lower == r[1]
            upper == r[2]
            mid   == lower + (upper - lower) \div 2
            k     == KeyOf(els[mid + 1])
        IN  IF upper < lower THEN [found |-> FALSE, at |-> lower]
            ELSE IF key < k THEN from[<<lower, mid - 1>>]
            ELSE IF key > k THEN from[<<mid + 1, upper>>]
            ELSE [found |-> TRUE, at |-> mid]
  IN  from[<<0, Len(els) - 1>>]

\* A bug: equal keys before the one found are overlooked.
FindMultiUp(els, key) ==
  LET mid == Search(els, key).at
      high[i \in 0 .. Len(els)] ==
        IF i = Len(els) THEN i - 1 ELSE IF KeyOf(els[i + 1]) # key THEN i - 1 ELSE high[i + 1]
  IN  [low |-> mid, high |-> high[mid + 1]]

\* findMulti: the ends of the run of equal keys around the one found.
FindMulti(els, key) ==
  LET mid == Search(els, key).at
      low[i \in -1 .. Len(els) - 1] ==
        IF i = -1 THEN 0 ELSE IF KeyOf(els[i + 1]) # key THEN i + 1 ELSE low[i - 1]
      high[i \in 0 .. Len(els)] ==
        IF i = Len(els) THEN i - 1 ELSE IF KeyOf(els[i + 1]) # key THEN i - 1 ELSE high[i + 1]
  IN  [low |-> low[mid - 1], high |-> high[mid + 1]]

----------------------------------------------------------------------------
(* Operations of BstTable.                                                 *)

\* A raw cell at pos, and an element in it.
PutAt(mem, v, pos, el) ==
  LET m == RawSpace(mem, v, pos, 1) IN
  [m EXCEPT !.buf[m.data[v]].cells = [i \in DOMAIN @ |-> IF i = pos + 1 THEN el ELSE @[i]]]

TableInsert(mem, v, el) ==
  LET s == Search(Contents(mem, v), KeyOf(el))
  IN  IF s.found THEN mem ELSE PutAt(mem, v, s.at, el)

TableInsertMulti(mem, v, el) ==
  PutAt(mem, v, Search(Contents(mem, v), KeyOf(el)).at, el)

TableRemove(mem, v, key) ==
  LET s == Search(Contents(mem, v), key)
  IN  IF s.found THEN RemoveAt(mem, v, s.at, 1) ELSE mem

TableRemoveMulti(mem, v, key) ==
  LET els == Contents(mem, v)
      m   == FindMulti(els, key)
  IN  IF Search(els, key).found THEN RemoveAt(mem, v, m.low, m.high - m.low + 1) ELSE mem

\* insert of each element of another table, one after the other.
TableInsertAll(mem, v, w) ==
  LET els == Contents(mem, w)
      after[i \in 0 .. Len(els)] == IF i = 0 THEN mem ELSE TableInsert(after[i - 1], v, els[i])
  IN  after[Len(els)]
=============================================================================
