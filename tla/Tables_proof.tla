---------------------------- MODULE Tables_proof ----------------------------
(***************************************************************************)
(* Theorems about the reduction of transition lists, for any machines,     *)
(* alphabet and condition spaces: completing a list, taking out a default  *)
(* and moving single keys out never change what it says of a key, the keys *)
(* that are searched are in order, and a search reads only its own.        *)
(***************************************************************************)
EXTENDS Tables, Recursion, SequenceTheorems

-----------------------------------------------------------------------------
(* What a list says of a key.                                              *)

In(x, w) == x.lo <= w /\ w <= x.hi

LEMMA EntryFacts ==
  ASSUME NEW list \in Seq(ListEntries), NEW i \in 1 .. Len(list)
  PROVE  /\ list[i] \in ListEntries
         /\ list[i].lo \in Nat /\ list[i].hi \in Nat /\ list[i].t \in Transitions
<1>1. list[i] \in ListEntries
  BY ElementOfSeq
<1> QED BY <1>1 DEF ListEntries

\* The entries that have w, in the words of the model and by their places.
LEMMA EntriesWith ==
  ASSUME NEW list \in Seq(ListEntries), NEW w \in Nat, NEW x
  PROVE  x \in {r \in Range(list) : w \in r.lo .. r.hi}
           <=> \E i \in 1 .. Len(list) : x = list[i] /\ In(list[i], w)
<1>1. Range(list) = {list[i] : i \in 1 .. Len(list)}
  BY DEF Range
<1>2. \A i \in 1 .. Len(list) : list[i].lo \in Nat /\ list[i].hi \in Nat
  BY EntryFacts
<1> QED BY <1>1, <1>2 DEF In

\* The entry that has w is what is meant; without one, an error.
LEMMA MeantListed ==
  ASSUME NEW list \in Seq(ListEntries), Ordered(list), NEW w \in Nat,
         NEW i \in 1 .. Len(list), In(list[i], w)
  PROVE  Meant(list, w) = list[i].t
<1> DEFINE at == {r \in Range(list) : w \in r.lo .. r.hi}
<1>1. list[i] \in at
  BY EntriesWith
<1>2. ASSUME NEW x \in at PROVE x = list[i]
  <2>1. PICK j \in 1 .. Len(list) : x = list[j] /\ In(list[j], w)
    BY EntriesWith
  <2>2. \A k \in 1 .. Len(list) : list[k].lo \in Nat /\ list[k].hi \in Nat
    BY EntryFacts
  <2>3. ~ (i < j) /\ ~ (j < i)
    BY <2>1, <2>2 DEF Ordered, In
  <2> QED BY <2>1, <2>3
<1>3. (CHOOSE r \in at : TRUE) = list[i]
  BY <1>1, <1>2
<1> QED BY <1>1, <1>3 DEF Meant

LEMMA MeantNothing ==
  ASSUME NEW list \in Seq(ListEntries), NEW w \in Nat,
         \A i \in 1 .. Len(list) : ~ In(list[i], w)
  PROVE  Meant(list, w) = ErrorTrans
<1> DEFINE at == {r \in Range(list) : w \in r.lo .. r.hi}
<1>1. at = {}
  BY EntriesWith
<1> QED BY <1>1 DEF Meant

\* A reduced state gives t for w: its singles do if they have w, else its
\* ranges, else the default.
Gives(r, w, t) ==
  /\ \A i \in 1 .. Len(r.single) : In(r.single[i], w) => r.single[i].t = t
  /\ \/ \E i \in 1 .. Len(r.single) : In(r.single[i], w)
     \/ /\ \A i \in 1 .. Len(r.range) : In(r.range[i], w) => r.range[i].t = t
        /\ \/ \E i \in 1 .. Len(r.range) : In(r.range[i], w)
           \/ r.def = t

LEMMA SaysWhatItGives ==
  ASSUME NEW r, r.single \in Seq(ListEntries), r.range \in Seq(ListEntries),
         NEW w \in Nat, NEW t, Gives(r, w, t)
  PROVE  Says(r, w) = {t}
<1> DEFINE singles == {x \in Range(r.single) : w \in x.lo .. x.hi}
           ranges == {x \in Range(r.range) : w \in x.lo .. x.hi}
<1>1. \A x : x \in singles <=> \E i \in 1 .. Len(r.single) : x = r.single[i] /\ In(r.single[i], w)
  BY EntriesWith
<1>2. \A x : x \in ranges <=> \E i \in 1 .. Len(r.range) : x = r.range[i] /\ In(r.range[i], w)
  BY EntriesWith
<1>3. Says(r, w) = IF singles # {} THEN {x.t : x \in singles}
                   ELSE IF ranges # {} THEN {x.t : x \in ranges} ELSE {r.def}
  BY DEF Says
<1> HIDE DEF singles, ranges
<1>4. CASE singles # {}
  <2>1. \A x \in singles : x.t = t
    BY <1>1 DEF Gives
  <2> QED BY <1>3, <1>4, <2>1
<1>5. CASE singles = {} /\ ranges # {}
  <2>1. \A i \in 1 .. Len(r.single) : ~ In(r.single[i], w)
    BY <1>1, <1>5
  <2>2. \A i \in 1 .. Len(r.range) : In(r.range[i], w) => r.range[i].t = t
    BY <2>1 DEF Gives
  <2>3. \A x \in ranges : x.t = t
    BY <1>2, <2>2
  <2> QED BY <1>3, <1>5, <2>3
<1>6. CASE singles = {} /\ ranges = {}
  <2>1. r.def = t
    BY <1>1, <1>2, <1>6 DEF Gives
  <2> QED BY <1>3, <1>6, <2>1
<1> QED BY <1>4, <1>5, <1>6

-----------------------------------------------------------------------------
(* Completing a list.                                                      *)

LEMMA ElFacts ==
  ASSUME NEW lo \in Nat, NEW hi \in Nat, NEW t \in Transitions
  PROVE  /\ El(lo, hi, t) \in ListEntries
         /\ El(lo, hi, t).lo = lo /\ El(lo, hi, t).hi = hi /\ El(lo, hi, t).t = t
BY DEF El, ListEntries

LEMMA ErrorTransType == ErrorTrans \in Transitions
BY KeyAssumption DEF ErrorTrans, Transitions

\* range has the first n entries of list and what is missing between them.
Reads(range, list, n) ==
  /\ range \in Seq(ListEntries) /\ Ordered(range)
  /\ n = 0 => range = <<>>
  /\ n > 0 => /\ range # <<>> /\ range[Len(range)].hi = list[n].hi
             /\ \A w \in 0 .. list[n].hi :
                  \E i \in 1 .. Len(range) : In(range[i], w) /\ range[i].t = Meant(list, w)

TopOf(list) == IF list = <<>> \/ Last(list).hi < MaxKey THEN MaxKey ELSE Last(list).hi

\* range has an entry for every key up to the top of list, the right one.
Full(range, list) ==
  /\ range \in Seq(ListEntries) /\ Ordered(range)
  /\ \A w \in 0 .. TopOf(list) :
       \E i \in 1 .. Len(range) : In(range[i], w) /\ range[i].t = Meant(list, w)

\* An entry above all others keeps a list in order.
LEMMA OrderedAppend ==
  ASSUME NEW range \in Seq(ListEntries), Ordered(range),
         NEW el \in ListEntries, el.lo <= el.hi,
         range # <<>> => range[Len(range)].hi < el.lo
  PROVE  /\ Append(range, el) \in Seq(ListEntries) /\ Ordered(Append(range, el))
         /\ Len(Append(range, el)) = Len(range) + 1
         /\ \A i \in 1 .. Len(range) : Append(range, el)[i] = range[i]
         /\ Append(range, el)[Len(range) + 1] = el
<1> DEFINE q == Append(range, el)
<1>1. /\ q \in Seq(ListEntries) /\ Len(q) = Len(range) + 1
      /\ \A i \in 1 .. Len(range) : q[i] = range[i]
      /\ q[Len(range) + 1] = el
  BY AppendProperties
<1>2. Len(range) \in Nat /\ (range # <<>> => Len(range) \in 1 .. Len(range))
  BY EmptySeq, LenProperties
<1>3. \A i \in 1 .. Len(range) : range[i].lo \in Nat /\ range[i].hi \in Nat
  BY EntryFacts
<1>4. el.lo \in Nat /\ el.hi \in Nat
  BY DEF ListEntries
<1> HIDE DEF q
<1>5. \A i \in 1 .. Len(range) : range[i].hi < el.lo
  <2> SUFFICES ASSUME NEW i \in 1 .. Len(range) PROVE range[i].hi < el.lo
    OBVIOUS
  <2>1. range # <<>>
    BY EmptySeq
  <2>2. CASE i = Len(range)
    BY <2>1, <2>2
  <2>3. CASE i # Len(range)
    <3>1. Len(range) \in 1 .. Len(range) /\ i < Len(range)
      BY <1>2, <2>1, <2>3
    <3>2. range[i].hi < range[Len(range)].lo /\ range[Len(range)].lo <= range[Len(range)].hi
      BY <1>3, <3>1 DEF Ordered
    <3> QED BY <1>3, <1>4, <2>1, <3>1, <3>2
  <2> QED BY <2>2, <2>3
<1>6. Ordered(q)
  <2> SUFFICES ASSUME NEW i \in 1 .. Len(q), NEW j \in 1 .. Len(q)
               PROVE  q[i].lo <= q[i].hi /\ (i < j => q[i].hi < q[j].lo)
    BY DEF Ordered
  <2>1. CASE i \in 1 .. Len(range) /\ j \in 1 .. Len(range)
    BY <1>1, <1>3, <2>1 DEF Ordered
  <2>2. CASE i \in 1 .. Len(range) /\ j = Len(range) + 1
    <3>1. range[i].lo <= range[i].hi
      BY <1>3, <2>2 DEF Ordered
    <3>2. q[i] = range[i] /\ q[j] = el
      BY <1>1, <2>2
    <3> QED BY <1>5, <2>2, <3>1, <3>2
  <2>3. CASE i = Len(range) + 1
    <3>1. ~ (i < j) /\ q[i] = el
      BY <1>1, <1>2, <2>3
    <3> QED BY <3>1
  <2> QED BY <1>1, <1>2, <2>1, <2>2, <2>3
<1> QED BY <1>1, <1>6 DEF q

\* The end of the list so far.
Next0(range) == IF range = <<>> THEN 0 ELSE range[Len(range)].hi + 1

\* A filler that ends below el, if there is room for one, and el.
LEMMA FillAndAppend ==
  ASSUME NEW range \in Seq(ListEntries), Ordered(range),
         NEW el \in ListEntries, el.lo <= el.hi, Next0(range) <= el.lo
  PROVE  LET q == NewTrans(range, el)
         IN  /\ q \in Seq(ListEntries) /\ Ordered(q) /\ q # <<>>
             /\ q[Len(q)] = el
             /\ \A i \in 1 .. Len(range) : \E j \in 1 .. Len(q) : q[j] = range[i]
             /\ \A w \in Nat : Next0(range) <= w /\ w < el.lo =>
                  \E j \in 1 .. Len(q) : In(q[j], w) /\ q[j].t = ErrorTrans
<1> DEFINE next == Next0(range)
           q == NewTrans(range, el)
           fill == El(next, el.lo - 1, ErrorTrans)
<1>1. el.lo \in Nat /\ el.hi \in Nat
  BY DEF ListEntries
<1>2. Len(range) \in Nat /\ (range # <<>> => Len(range) \in 1 .. Len(range))
  BY EmptySeq, LenProperties
<1>3. next \in Nat
  BY <1>2, EntryFacts DEF Next0
<1>4. q = IF next < el.lo THEN range \o <<fill, el>> ELSE Append(range, el)
  BY DEF NewTrans, Next0, Last
<1>5. range # <<>> => range[Len(range)].hi < next /\ range[Len(range)].hi \in Nat
  BY <1>2, EntryFacts DEF Next0
<1> HIDE DEF next, q
<1>6. CASE next < el.lo
  <2>1. el.lo - 1 \in Nat /\ next <= el.lo - 1
    BY <1>1, <1>3, <1>6
  <2>2. fill \in ListEntries /\ fill.lo = next /\ fill.hi = el.lo - 1 /\ fill.t = ErrorTrans
    BY <1>3, <2>1, ElFacts, ErrorTransType
  <2> DEFINE p == Append(range, fill)
  <2> HIDE DEF fill
  <2>3. /\ p \in Seq(ListEntries) /\ Ordered(p) /\ Len(p) = Len(range) + 1
        /\ \A i \in 1 .. Len(range) : p[i] = range[i]
        /\ p[Len(range) + 1] = fill
    BY <1>1, <1>3, <1>5, <2>1, <2>2, OrderedAppend
  <2>4. q = Append(p, el)
    BY <1>4, <1>6
  <2> HIDE DEF p
  <2>5. p[Len(p)].hi < el.lo
    BY <1>1, <2>2, <2>3
  <2>6. /\ q \in Seq(ListEntries) /\ Ordered(q) /\ Len(q) = Len(p) + 1
        /\ \A i \in 1 .. Len(p) : q[i] = p[i]
        /\ q[Len(p) + 1] = el
    BY <2>3, <2>4, <2>5, OrderedAppend
  <2>7. Len(p) \in Nat /\ q # <<>>
    BY <1>2, <2>3, <2>6, EmptySeq
  <2>8. \A i \in 1 .. Len(range) : i \in 1 .. Len(q) /\ q[i] = range[i]
    BY <1>2, <2>3, <2>6
  <2>9. \A w \in Nat : next <= w /\ w < el.lo =>
                  \E j \in 1 .. Len(q) : In(q[j], w) /\ q[j].t = ErrorTrans
    <3>1. Len(p) \in 1 .. Len(q) /\ q[Len(p)] = fill
      BY <1>2, <2>3, <2>6
    <3>2. \A w \in Nat : next <= w /\ w < el.lo => In(fill, w)
      BY <1>1, <1>3, <2>2 DEF In
    <3> QED BY <2>2, <3>1, <3>2
  <2> QED BY <2>6, <2>7, <2>8, <2>9 DEF q, next
<1>7. CASE ~ (next < el.lo)
  <2>1. range # <<>> => range[Len(range)].hi < el.lo
    BY <1>1, <1>3, <1>5, <1>7 DEF next
  <2>2. q = Append(range, el)
    BY <1>4, <1>7
  <2>3. /\ q \in Seq(ListEntries) /\ Ordered(q) /\ Len(q) = Len(range) + 1
        /\ \A i \in 1 .. Len(range) : q[i] = range[i]
        /\ q[Len(range) + 1] = el
    BY <2>1, <2>2, OrderedAppend
  <2>4. q # <<>>
    BY <1>2, <2>3, EmptySeq
  <2>5. \A i \in 1 .. Len(range) : i \in 1 .. Len(q) /\ q[i] = range[i]
    BY <1>2, <2>3
  <2>6. \A w \in Nat : ~ (next <= w /\ w < el.lo)
    BY <1>1, <1>3, <1>7
  <2> QED BY <2>3, <2>4, <2>5, <2>6 DEF q, next
<1> QED BY <1>6, <1>7

\* An entry of the machine's list joins.
LEMMA NewTransReads ==
  ASSUME NEW list \in Seq(ListEntries), Ordered(list), NEW n \in Nat, n + 1 \in 1 .. Len(list),
         NEW range, Reads(range, list, n)
  PROVE  Reads(NewTrans(range, list[n + 1]), list, n + 1)
<1> DEFINE el == list[n + 1]
           q == NewTrans(range, el)
<1>1. el \in ListEntries /\ el.lo \in Nat /\ el.hi \in Nat
  BY EntryFacts
<1>2. \A i \in 1 .. Len(list) : list[i].lo \in Nat /\ list[i].hi \in Nat
  BY EntryFacts
<1>3. el.lo <= el.hi
  BY <1>2 DEF Ordered
<1>4. range \in Seq(ListEntries) /\ Ordered(range)
  BY DEF Reads
<1>5. Next0(range) = IF n = 0 THEN 0 ELSE list[n].hi + 1
  BY DEF Reads, Next0
<1>6. ASSUME n # 0 PROVE n \in 1 .. Len(list) /\ list[n].hi < el.lo
  <2>1. n \in 1 .. Len(list) /\ n < n + 1
    BY <1>6
  <2> QED BY <1>2, <2>1 DEF Ordered
<1>7. Next0(range) <= el.lo /\ Next0(range) \in Nat
  <2>1. CASE n = 0
    BY <1>1, <1>5, <2>1
  <2>2. CASE n # 0
    BY <1>1, <1>2, <1>5, <1>6, <2>2
  <2> QED BY <2>1, <2>2
<1>8. /\ q \in Seq(ListEntries) /\ Ordered(q) /\ q # <<>>
      /\ q[Len(q)] = el
      /\ \A i \in 1 .. Len(range) : \E j \in 1 .. Len(q) : q[j] = range[i]
      /\ \A w \in Nat : Next0(range) <= w /\ w < el.lo =>
           \E j \in 1 .. Len(q) : In(q[j], w) /\ q[j].t = ErrorTrans
  <2> HIDE DEF el
  <2> QED BY <1>1, <1>3, <1>4, <1>7, FillAndAppend
<1> HIDE DEF q
<1>9. Len(q) \in 1 .. Len(q)
  BY <1>8, EmptySeq, LenProperties
<1>10. ASSUME NEW w \in 0 .. el.hi
       PROVE  \E i \in 1 .. Len(q) : In(q[i], w) /\ q[i].t = Meant(list, w)
  <2>0. w \in Nat
    OBVIOUS
  <2>1. CASE w < Next0(range)
    <3>1. n # 0
      BY <1>5, <2>1
    <3>2. w \in 0 .. list[n].hi
      BY <1>2, <1>5, <1>6, <2>1, <3>1
    <3>3. PICK i \in 1 .. Len(range) : In(range[i], w) /\ range[i].t = Meant(list, w)
      BY <3>1, <3>2 DEF Reads
    <3> QED BY <1>8, <3>3
  <2>2. CASE Next0(range) <= w /\ w < el.lo
    <3>1. ASSUME NEW i \in 1 .. Len(list) PROVE ~ In(list[i], w)
      <4>1. CASE i <= n
        <5>1. n # 0 /\ list[n].hi < w
          BY <1>2, <1>5, <1>6, <2>2, <4>1
        <5>2. n \in 1 .. Len(list) /\ list[n].lo <= list[n].hi
          BY <1>2, <1>6, <5>1 DEF Ordered
        <5>3. list[i].hi <= list[n].hi
          <6>1. CASE i = n
            BY <1>2, <5>2, <6>1
          <6>2. CASE i < n
            <7>1. list[i].hi < list[n].lo
              BY <1>2, <5>2, <6>2 DEF Ordered
            <7> QED BY <1>2, <5>2, <7>1
          <6> QED BY <4>1, <6>1, <6>2
        <5> QED BY <1>2, <5>1, <5>2, <5>3 DEF In
      <4>2. CASE n < i
        <5>1. el.lo <= list[i].lo
          <6>1. CASE i = n + 1
            BY <1>1, <6>1
          <6>2. CASE n + 1 < i
            <7>1. el.hi < list[i].lo
              BY <1>2, <6>2 DEF Ordered
            <7> QED BY <1>1, <1>2, <1>3, <7>1
          <6> QED BY <4>2, <6>1, <6>2
        <5> QED BY <1>1, <1>2, <2>2, <5>1 DEF In
      <4> QED BY <4>1, <4>2
    <3>2. Meant(list, w) = ErrorTrans
      BY <2>0, <3>1, MeantNothing
    <3> QED BY <1>8, <2>0, <2>2, <3>2
  <2>3. CASE el.lo <= w
    <3>1. In(el, w)
      BY <1>1, <2>3 DEF In
    <3>2. Meant(list, w) = el.t
      BY <2>0, <3>1, MeantListed
    <3> QED BY <1>8, <1>9, <3>1, <3>2
  <2> QED BY <1>1, <1>7, <2>1, <2>2, <2>3
<1>11. n + 1 # 0 /\ n + 1 > 0
  OBVIOUS
<1> QED BY <1>8, <1>10, <1>11 DEF Reads, q

\* The list of the machine has been read, and what is above it is filled.
LEMMA FinishReads ==
  ASSUME NEW list \in Seq(ListEntries), Ordered(list),
         NEW range, Reads(range, list, Len(list))
  PROVE  Full(FinishTransList(range), list)
<1> DEFINE n == Len(list)
           next == Next0(range)
           fill == El(next, MaxKey, ErrorTrans)
           q == FinishTransList(range)
<1>1. n \in Nat /\ (n = 0 <=> list = <<>>) /\ (n # 0 => n \in 1 .. n)
  BY EmptySeq, LenProperties
<1>2. \A i \in 1 .. Len(list) : list[i].lo \in Nat /\ list[i].hi \in Nat
  BY EntryFacts
<1>3. range \in Seq(ListEntries) /\ Ordered(range)
  BY DEF Reads
<1>4. next = IF n = 0 THEN 0 ELSE list[n].hi + 1
  BY <1>1 DEF Reads, Next0
<1>5. next \in Nat /\ MaxKey \in Nat
  BY <1>1, <1>2, <1>4, KeyAssumption
<1>6. q = IF next <= MaxKey THEN Append(range, fill) ELSE range
  BY DEF FinishTransList, Next0, Last
<1>7. ASSUME NEW w \in Nat, w < next
      PROVE  \E i \in 1 .. Len(range) : In(range[i], w) /\ range[i].t = Meant(list, w)
  <2>1. n # 0 /\ w \in 0 .. list[n].hi
    BY <1>1, <1>2, <1>4, <1>7
  <2> QED BY <1>1, <2>1 DEF Reads
<1>8. TopOf(list) = IF next <= MaxKey THEN MaxKey ELSE next - 1
  <2>1. CASE n = 0
    BY <1>1, <1>4, <1>5, <2>1 DEF TopOf
  <2>2. CASE n # 0
    <3>1. TopOf(list) = IF list[n].hi < MaxKey THEN MaxKey ELSE list[n].hi
      BY <1>1, <2>2 DEF TopOf, Last
    <3> QED BY <1>1, <1>2, <1>4, <1>5, <2>2, <3>1
  <2> QED BY <2>1, <2>2
<1>9. CASE next <= MaxKey
  <2>1. fill \in ListEntries /\ fill.lo = next /\ fill.hi = MaxKey /\ fill.t = ErrorTrans
    BY <1>5, ElFacts, ErrorTransType
  <2>2. range # <<>> => range[Len(range)].hi < next
    <3> SUFFICES ASSUME range # <<>> PROVE range[Len(range)].hi < next
      OBVIOUS
    <3>1. Len(range) \in 1 .. Len(range)
      BY <1>3, EmptySeq, LenProperties
    <3>2. range[Len(range)].hi \in Nat
      BY <1>3, <3>1, EntryFacts
    <3> QED BY <3>2 DEF Next0
  <2> HIDE DEF fill, next
  <2>3. /\ q \in Seq(ListEntries) /\ Ordered(q) /\ Len(q) = Len(range) + 1
        /\ \A i \in 1 .. Len(range) : q[i] = range[i]
        /\ q[Len(range) + 1] = fill
    BY <1>3, <1>5, <1>6, <1>9, <2>1, <2>2, OrderedAppend
  <2>4. Len(range) \in Nat
    BY <1>3, LenProperties
  <2> HIDE DEF q
  <2>5. ASSUME NEW w \in 0 .. MaxKey
        PROVE  \E i \in 1 .. Len(q) : In(q[i], w) /\ q[i].t = Meant(list, w)
    <3>1. CASE w < next
      <4>1. PICK i \in 1 .. Len(range) : In(range[i], w) /\ range[i].t = Meant(list, w)
        BY <1>7, <3>1
      <4> QED BY <2>3, <2>4, <4>1
    <3>2. CASE next <= w
      <4>1. In(fill, w) /\ Len(range) + 1 \in 1 .. Len(q)
        BY <1>5, <2>1, <2>3, <2>4, <3>2 DEF In
      <4>2. \A i \in 1 .. Len(list) : ~ In(list[i], w)
        <5> SUFFICES ASSUME NEW i \in 1 .. n PROVE list[i].hi < w
          BY <1>2, <1>5 DEF In
        <5>1. n # 0 /\ list[n].hi < w
          BY <1>1, <1>2, <1>4, <3>2
        <5>2. CASE i = n
          BY <5>1, <5>2
        <5>3. CASE i < n
          <6>1. list[i].hi < list[n].lo /\ list[n].lo <= list[n].hi
            BY <1>1, <1>2, <5>1, <5>3 DEF Ordered
          <6> QED BY <1>1, <1>2, <5>1, <6>1
        <5> QED BY <1>1, <5>2, <5>3
      <4>3. Meant(list, w) = ErrorTrans
        BY <4>2, MeantNothing
      <4> QED BY <2>1, <2>3, <4>1, <4>3
    <3> QED BY <1>5, <3>1, <3>2
  <2>6. TopOf(list) = MaxKey
    BY <1>8, <1>9
  <2> QED BY <2>3, <2>5, <2>6 DEF Full, q
<1>10. CASE ~ (next <= MaxKey)
  <2>1. q = range /\ TopOf(list) = next - 1
    BY <1>6, <1>8, <1>10
  <2> HIDE DEF next, q
  <2>2. \A w \in 0 .. next - 1 : w \in Nat /\ w < next
    BY <1>5
  <2> QED BY <1>3, <1>7, <2>1, <2>2 DEF Full, q
<1> QED BY <1>9, <1>10

-----------------------------------------------------------------------------
(* Taking out the default.                                                 *)

\* What is left is in order, and is what does not go by t.
LEMMA DefaultMoved ==
  ASSUME NEW range \in Seq(ListEntries), Ordered(range), NEW t
  PROVE  LET q == MoveToDefault(range, t)
         IN  /\ q \in Seq(ListEntries) /\ Ordered(q)
             /\ \A j \in 1 .. Len(q) : \E i \in 1 .. Len(range) : q[j] = range[i] /\ range[i].t # t
             /\ \A i \in 1 .. Len(range) : range[i].t # t => \E j \in 1 .. Len(q) : q[j] = range[i]
<1> DEFINE n == Len(range)
           V == Seq(ListEntries)
           body(f, i) == IF i = 0 THEN <<>>
                         ELSE IF range[i].t # t THEN Append(f[i - 1], range[i]) ELSE f[i - 1]
           f == CHOOSE g : g = [i \in 0 .. n |-> body(g, i)]
           step == [v \in V \X (1 .. n) |->
                      IF range[v[2]].t # t THEN Append(v[1], range[v[2]]) ELSE v[1]]
<1>1. n \in Nat
  BY LenProperties
<1>2. MoveToDefault(range, t) = f[n]
  BY DEF MoveToDefault, Folded
<1>3. <<>> \in V
  BY EmptySeq
<1>4. step \in [V \X (1 .. n) -> V]
  <2> SUFFICES ASSUME NEW v \in V, NEW i \in 1 .. n PROVE Append(v, range[i]) \in V
    OBVIOUS
  <2> QED BY EntryFacts, AppendProperties
<1>5. PICK g \in [0 .. n -> V] : Steps(g, n, <<>>, step)
  <2> HIDE DEF step, V, n
  <2> QED BY <1>1, <1>3, <1>4, StepsExist
<1>6. g = [i \in 0 .. n |-> body(g, i)]
  <2>1. ASSUME NEW i \in 0 .. n PROVE g[i] = body(g, i)
    <3>1. CASE i = 0
      BY <1>5, <3>1 DEF Steps
    <3>2. CASE i # 0
      <4>1. i \in 1 .. n /\ i - 1 \in 0 .. n
        BY <1>1, <3>2
      <4>2. <<g[i - 1], i>> \in V \X (1 .. n)
        BY <4>1
      <4>3. g[i] = step[<<g[i - 1], i>>]
        BY <1>5, <4>1 DEF Steps
      <4> QED BY <3>2, <4>2, <4>3
    <3> QED BY <3>1, <3>2
  <2>2. g = [i \in 0 .. n |-> g[i]]
    OBVIOUS
  <2> HIDE DEF body
  <2> QED BY <2>1, <2>2
<1>7. f = [i \in 0 .. n |-> body(f, i)]
  <2> HIDE DEF body
  <2> QED BY <1>6
<1> HIDE DEF f
<1>8. f[0] = <<>> /\ \A i \in 1 .. n : f[i] = IF range[i].t # t THEN Append(f[i - 1], range[i]) ELSE f[i - 1]
  <2>1. \A i \in 0 .. n : f[i] = body(f, i)
    <3> HIDE DEF body
    <3> QED BY <1>7
  <2>2. 0 \in 0 .. n /\ \A i \in 1 .. n : i \in 0 .. n /\ i # 0
    BY <1>1
  <2> QED BY <2>1, <2>2
<1> DEFINE Good(q, k) ==
             /\ q \in V /\ Ordered(q)
             /\ \A j \in 1 .. Len(q) : \E i \in 1 .. k : q[j] = range[i] /\ range[i].t # t
             /\ \A i \in 1 .. k : range[i].t # t => \E j \in 1 .. Len(q) : q[j] = range[i]
           S == {k \in Nat : k <= n => Good(f[k], k)}
<1>9. 0 \in S
  <2>1. Ordered(<<>>)
    BY EmptySeq DEF Ordered
  <2>2. \A i \in 1 .. 0 : FALSE
    OBVIOUS
  <2>3. f[0] \in V /\ Ordered(f[0]) /\ Len(f[0]) = 0
    BY <1>3, <1>8, <2>1, EmptySeq
  <2>4. Good(f[0], 0)
    BY <2>2, <2>3
  <2> HIDE DEF Good
  <2> QED BY <2>4
<1>10. ASSUME NEW k \in Nat, k \in S PROVE k + 1 \in S
  <2> SUFFICES ASSUME k + 1 <= n PROVE Good(f[k + 1], k + 1)
    <3> HIDE DEF Good
    <3> QED OBVIOUS
  <2> DEFINE p == f[k]
             q == f[k + 1]
             e == range[k + 1]
  <2>1. k + 1 \in 1 .. n /\ k <= n
    BY <1>1
  <2>2. q = IF e.t # t THEN Append(p, e) ELSE p
    BY <1>8, <2>1
  <2>3. Good(p, k)
    <3> HIDE DEF Good
    <3> QED BY <1>10, <2>1
  <2>4. e \in ListEntries /\ e.lo <= e.hi /\ e.lo \in Nat /\ e.hi \in Nat
    <3>1. \A i \in 1 .. n : range[i].lo \in Nat /\ range[i].hi \in Nat
      BY EntryFacts
    <3> QED BY <2>1, <3>1, EntryFacts DEF Ordered
  <2>5. \A i \in 1 .. k : range[i].hi < e.lo
    <3>1. \A i \in 1 .. n : range[i].lo \in Nat /\ range[i].hi \in Nat
      BY EntryFacts
    <3> QED BY <2>1, <3>1 DEF Ordered
  <2> HIDE DEF p, q, e
  <2>6. CASE e.t # t
    <3>1. p # <<>> => p[Len(p)].hi < e.lo
      <4> SUFFICES ASSUME p # <<>> PROVE p[Len(p)].hi < e.lo
        OBVIOUS
      <4>1. Len(p) \in 1 .. Len(p)
        BY <2>3, EmptySeq, LenProperties
      <4> QED BY <2>3, <2>5, <4>1
    <3>2. /\ q \in V /\ Ordered(q) /\ Len(q) = Len(p) + 1
          /\ \A i \in 1 .. Len(p) : q[i] = p[i]
          /\ q[Len(p) + 1] = e
      BY <2>2, <2>3, <2>4, <2>6, <3>1, OrderedAppend
    <3>3. Len(p) \in Nat
      BY <2>3, LenProperties
    <3>4. ASSUME NEW j \in 1 .. Len(q)
          PROVE  \E i \in 1 .. k + 1 : q[j] = range[i] /\ range[i].t # t
      <4>1. CASE j = Len(p) + 1
        BY <2>6, <3>2, <4>1 DEF e
      <4>2. CASE j # Len(p) + 1
        <5>1. j \in 1 .. Len(p)
          BY <3>2, <3>3, <4>2
        <5> QED BY <2>3, <3>2, <5>1
      <4> QED BY <4>1, <4>2
    <3>5. ASSUME NEW i \in 1 .. k + 1, range[i].t # t
          PROVE  \E j \in 1 .. Len(q) : q[j] = range[i]
      <4>1. CASE i = k + 1
        <5>1. Len(p) + 1 \in 1 .. Len(q)
          BY <3>2, <3>3
        <5> QED BY <3>2, <4>1, <5>1 DEF e
      <4>2. CASE i # k + 1
        <5>1. i \in 1 .. k
          BY <4>2
        <5>2. PICK j \in 1 .. Len(p) : p[j] = range[i]
          BY <2>3, <3>5, <5>1
        <5> QED BY <3>2, <3>3, <5>2
      <4> QED BY <4>1, <4>2
    <3> QED BY <3>2, <3>4, <3>5 DEF q
  <2>7. CASE e.t = t
    <3>1. q = p
      BY <2>2, <2>7
    <3>2. \A i \in 1 .. k + 1 : range[i].t # t => i \in 1 .. k
      BY <2>7 DEF e
    <3>3. \A i \in 1 .. k : i \in 1 .. k + 1
      OBVIOUS
    <3> QED BY <2>3, <3>1, <3>2, <3>3 DEF q
  <2> QED BY <2>6, <2>7
<1>11. Nat \subseteq S
  <2> HIDE DEF S
  <2> QED BY <1>9, <1>10, Induction
<1>12. Good(f[n], n)
  <2> HIDE DEF Good
  <2> QED BY <1>1, <1>11
<1> QED BY <1>2, <1>12

-----------------------------------------------------------------------------
(* Moving single keys out.                                                 *)

Reduced == [range : Seq(ListEntries), single : Seq(ListEntries), def : Transitions,
            conds : Seq(CondRanges), eof : Transitions]

\* The ranges of a reduced state are in order, and so are its singles, each of
\* one key.
Shape(r) ==
  /\ r \in Reduced /\ Ordered(r.range)
  /\ \A i \in 1 .. Len(r.single) : r.single[i].lo = r.single[i].hi
  /\ \A i, j \in 1 .. Len(r.single) : i < j => r.single[i].lo < r.single[j].lo

\* The walk stands at p.  The ranges above p are above all singles; the one at
\* p is too, or it has taken in others and will not become a single.
Before(r, p) ==
  \A i \in 1 .. Len(r.single), j \in 1 .. Len(r.range) :
    /\ p < j => r.single[i].lo < r.range[j].lo
    /\ j = p => r.single[i].lo < r.range[j].lo \/ r.range[j].lo < r.range[j].hi

LEMMA ShapeFacts ==
  ASSUME NEW r, Shape(r)
  PROVE  /\ r.range \in Seq(ListEntries) /\ r.single \in Seq(ListEntries)
         /\ Len(r.range) \in Nat /\ Len(r.single) \in Nat
         /\ \A i \in 1 .. Len(r.range) : r.range[i].lo \in Nat /\ r.range[i].hi \in Nat
         /\ \A i \in 1 .. Len(r.single) : r.single[i].lo \in Nat /\ r.single[i].hi \in Nat
<1>1. r.range \in Seq(ListEntries) /\ r.single \in Seq(ListEntries)
  BY DEF Shape, Reduced
<1> QED BY <1>1, LenProperties, EntryFacts

\* A sequence with the places from a to b taken out and e put there.
IsSplice(r, s, e, a, b) == r = SubSeq(s, 1, a - 1) \o <<e>> \o SubSeq(s, b + 1, Len(s))

LEMMA Spliced ==
  ASSUME NEW X, NEW s \in Seq(X), NEW e \in X, NEW a \in 1 .. Len(s), NEW b \in a .. Len(s),
         NEW r, IsSplice(r, s, e, a, b)
  PROVE  /\ r \in Seq(X) /\ Len(r) = Len(s) - (b - a)
         /\ \A i \in 1 .. Len(r) : r[i] = IF i < a THEN s[i]
                                         ELSE IF i = a THEN e ELSE s[i + (b - a)]
<1> DEFINE l == SubSeq(s, 1, a - 1)
           m == l \o <<e>>
           u == SubSeq(s, b + 1, Len(s))
           q == m \o u
<1>0. Len(s) \in Nat /\ a \in Nat /\ b \in Nat /\ a <= b /\ b <= Len(s) /\ 1 <= a
  BY LenProperties
<1>1. l \in Seq(X) /\ Len(l) = a - 1 /\ \A i \in 1 .. a - 1 : l[i] = s[i]
  <2>1. \A i \in 1 .. a - 1 : s[i] \in X
    BY <1>0, ElementOfSeq
  <2> QED BY <1>0, <2>1, SubSeqProperties
<1>2. u \in Seq(X) /\ Len(u) = Len(s) - b /\ \A i \in 1 .. Len(s) - b : u[i] = s[b + i]
  <2>1. \A i \in b + 1 .. Len(s) : s[i] \in X
    BY <1>0, ElementOfSeq
  <2>2. u \in Seq(X) /\ Len(u) = IF b + 1 <= Len(s) THEN Len(s) - (b + 1) + 1 ELSE 0
    BY <1>0, <2>1, SubSeqProperties
  <2>3. \A i \in 1 .. Len(s) - (b + 1) + 1 : u[i] = s[(b + 1) + i - 1]
    BY <1>0, <2>1, SubSeqProperties
  <2> HIDE DEF u
  <2> QED BY <1>0, <2>2, <2>3
<1>3. <<e>> \in Seq(X) /\ Len(<<e>>) = 1 /\ <<e>>[1] = e
  OBVIOUS
<1> HIDE DEF l, u
<1>4. m \in Seq(X) /\ Len(m) = a /\ \A i \in 1 .. a : m[i] = IF i < a THEN s[i] ELSE e
  <2> DEFINE o == <<e>>
  <2>1. o \in Seq(X) /\ Len(o) = 1 /\ o[1] = e
    BY <1>3
  <2> HIDE DEF o
  <2>2. /\ l \o o \in Seq(X) /\ Len(l \o o) = Len(l) + Len(o)
        /\ \A i \in 1 .. Len(l) + Len(o) : (l \o o)[i] = IF i <= Len(l) THEN l[i] ELSE o[i - Len(l)]
    BY <1>1, <2>1, ConcatProperties
  <2>3. m = l \o o
    BY DEF o
  <2> HIDE DEF m
  <2>4. \A i \in 1 .. a : m[i] = IF i < a THEN s[i] ELSE e
    <3> SUFFICES ASSUME NEW i \in 1 .. a PROVE m[i] = IF i < a THEN s[i] ELSE e
      OBVIOUS
    <3>1. CASE i < a
      BY <1>0, <1>1, <2>1, <2>2, <2>3, <3>1
    <3>2. CASE i = a
      <4>1. i - Len(l) = 1
        BY <1>0, <1>1, <3>2
      <4> QED BY <1>0, <1>1, <2>1, <2>2, <2>3, <3>2, <4>1
    <3> QED BY <1>0, <3>1, <3>2
  <2> QED BY <1>0, <1>1, <2>1, <2>2, <2>3, <2>4
<1> HIDE DEF m
<1>5. /\ q \in Seq(X) /\ Len(q) = Len(m) + Len(u)
      /\ \A i \in 1 .. Len(m) + Len(u) : q[i] = IF i <= Len(m) THEN m[i] ELSE u[i - Len(m)]
  BY <1>2, <1>4, ConcatProperties
<1> HIDE DEF q
<1>6. Len(q) = Len(s) - (b - a)
  BY <1>0, <1>2, <1>4, <1>5
<1>7. ASSUME NEW i \in 1 .. Len(q)
      PROVE  q[i] = IF i < a THEN s[i] ELSE IF i = a THEN e ELSE s[i + (b - a)]
  <2>1. CASE i <= a
    BY <1>0, <1>2, <1>4, <1>5, <1>6, <2>1
  <2>2. CASE a < i
    <3>1. i - a \in 1 .. Len(s) - b /\ b + (i - a) = i + (b - a)
      BY <1>0, <1>6, <2>2
    <3>2. i \in 1 .. Len(m) + Len(u) /\ ~ (i <= Len(m)) /\ Len(m) = a
      BY <1>0, <1>2, <1>4, <1>6, <2>2
    <3>3. q[i] = u[i - a]
      BY <1>5, <3>2
    <3>4. u[i - a] = s[b + (i - a)]
      BY <1>2, <3>1
    <3>5. ~ (i < a) /\ i # a
      BY <1>0, <2>2
    <3> QED BY <3>1, <3>3, <3>4, <3>5
  <2> QED BY <1>0, <2>1, <2>2
<1>8. r = q
  BY DEF q, m, l, u, IsSplice
<1> QED BY <1>5, <1>6, <1>7, <1>8

\* A sequence with the entry at a taken out.
LEMMA Removed ==
  ASSUME NEW X, NEW s \in Seq(X), NEW a \in 1 .. Len(s)
  PROVE  /\ RemoveAt(s, a) \in Seq(X) /\ Len(RemoveAt(s, a)) = Len(s) - 1
         /\ \A i \in 1 .. Len(s) - 1 : RemoveAt(s, a)[i] = IF i < a THEN s[i] ELSE s[i + 1]
<1> DEFINE l == SubSeq(s, 1, a - 1)
           u == SubSeq(s, a + 1, Len(s))
           q == l \o u
<1>0. Len(s) \in Nat /\ a \in Nat /\ a <= Len(s) /\ 1 <= a
  BY LenProperties
<1>1. l \in Seq(X) /\ Len(l) = a - 1 /\ \A i \in 1 .. a - 1 : l[i] = s[i]
  <2>1. \A i \in 1 .. a - 1 : s[i] \in X
    BY <1>0, ElementOfSeq
  <2> QED BY <1>0, <2>1, SubSeqProperties
<1>2. u \in Seq(X) /\ Len(u) = Len(s) - a /\ \A i \in 1 .. Len(s) - a : u[i] = s[a + i]
  <2>1. \A i \in a + 1 .. Len(s) : s[i] \in X
    BY <1>0, ElementOfSeq
  <2>2. u \in Seq(X) /\ Len(u) = IF a + 1 <= Len(s) THEN Len(s) - (a + 1) + 1 ELSE 0
    BY <1>0, <2>1, SubSeqProperties
  <2>3. \A i \in 1 .. Len(s) - (a + 1) + 1 : u[i] = s[(a + 1) + i - 1]
    BY <1>0, <2>1, SubSeqProperties
  <2> HIDE DEF u
  <2> QED BY <1>0, <2>2, <2>3
<1> HIDE DEF l, u
<1>3. /\ q \in Seq(X) /\ Len(q) = Len(l) + Len(u)
      /\ \A i \in 1 .. Len(l) + Len(u) : q[i] = IF i <= Len(l) THEN l[i] ELSE u[i - Len(l)]
  BY <1>1, <1>2, ConcatProperties
<1> HIDE DEF q
<1>4. ASSUME NEW i \in 1 .. Len(s) - 1 PROVE q[i] = IF i < a THEN s[i] ELSE s[i + 1]
  <2>0. i \in 1 .. Len(l) + Len(u)
    BY <1>0, <1>1, <1>2
  <2>1. CASE i < a
    <3>1. i \in 1 .. a - 1 /\ i <= Len(l)
      BY <1>0, <1>1, <2>1
    <3> QED BY <1>1, <1>3, <2>0, <2>1, <3>1
  <2>2. CASE a <= i
    <3>1. i - (a - 1) \in 1 .. Len(s) - a /\ a + (i - (a - 1)) = i + 1
      BY <1>0, <2>2
    <3>2. ~ (i <= Len(l)) /\ Len(l) = a - 1 /\ ~ (i < a)
      BY <1>0, <1>1, <2>2
    <3>3. q[i] = u[i - (a - 1)]
      BY <1>3, <2>0, <3>2
    <3>4. u[i - (a - 1)] = s[a + (i - (a - 1))]
      BY <1>2, <3>1
    <3> QED BY <3>1, <3>2, <3>3, <3>4
  <2> QED BY <1>0, <2>1, <2>2
<1>5. Len(q) = Len(s) - 1
  BY <1>0, <1>1, <1>2, <1>3
<1>6. RemoveAt(s, a) = q
  BY DEF q, l, u, RemoveAt
<1> QED BY <1>3, <1>4, <1>5, <1>6

\* A range of one key becomes a single.
LEMMA SingleMoved ==
  ASSUME NEW r, Shape(r), NEW p \in 1 .. Len(r.range), Before(r, p), Span(r.range[p]) = 1
  PROVE  /\ Shape(MoveToSingle(r, p)) /\ Before(MoveToSingle(r, p), p)
         /\ \A w \in Nat, t \in Transitions : Gives(r, w, t) => Gives(MoveToSingle(r, p), w, t)
<1> DEFINE q == MoveToSingle(r, p)
           x == r.range[p]
           n == Len(r.range)
           k == Len(r.single)
<1>1. /\ r.range \in Seq(ListEntries) /\ r.single \in Seq(ListEntries)
      /\ n \in Nat /\ k \in Nat
      /\ \A i \in 1 .. n : r.range[i].lo \in Nat /\ r.range[i].hi \in Nat
      /\ \A i \in 1 .. k : r.single[i].lo \in Nat /\ r.single[i].hi \in Nat
  BY ShapeFacts
<1>2. x \in ListEntries /\ x.lo \in Nat /\ x.hi = x.lo
  <2>1. x \in ListEntries /\ x.lo \in Nat /\ x.hi \in Nat
    BY <1>1, EntryFacts
  <2> QED BY <2>1 DEF Span
<1>3. /\ q.single = Append(r.single, x) /\ q.range = RemoveAt(r.range, p)
      /\ q.def = r.def
      /\ q.single \in Seq(ListEntries) /\ q.range \in Seq(ListEntries) => q \in Reduced
  BY DEF MoveToSingle, Shape, Reduced
<1>4. /\ q.single \in Seq(ListEntries) /\ Len(q.single) = k + 1
      /\ \A i \in 1 .. k : q.single[i] = r.single[i]
      /\ q.single[k + 1] = x
  BY <1>1, <1>2, <1>3, AppendProperties
<1>5. /\ q.range \in Seq(ListEntries) /\ Len(q.range) = n - 1
      /\ \A i \in 1 .. n - 1 : q.range[i] = IF i < p THEN r.range[i] ELSE r.range[i + 1]
  BY <1>1, <1>3, Removed
<1> HIDE DEF q
<1>6. Ordered(r.range)
  BY DEF Shape
\* where the entries of the new list come from
<1>7. ASSUME NEW i \in 1 .. n - 1
      PROVE  \E a \in 1 .. n : /\ a # p /\ q.range[i] = r.range[a]
                               /\ a = IF i < p THEN i ELSE i + 1
  <2>1. CASE i < p
    BY <1>1, <1>5, <2>1
  <2>2. CASE p <= i
    <3>1. i + 1 \in 1 .. n /\ i + 1 # p /\ ~ (i < p)
      BY <1>1, <2>2
    <3> QED BY <1>5, <3>1
  <2> QED BY <1>1, <2>1, <2>2
<1>8. Ordered(q.range)
  <2> SUFFICES ASSUME NEW i \in 1 .. n - 1, NEW j \in 1 .. n - 1
               PROVE  /\ q.range[i].lo <= q.range[i].hi
                      /\ i < j => q.range[i].hi < q.range[j].lo
    BY <1>5 DEF Ordered
  <2>1. PICK a \in 1 .. n : q.range[i] = r.range[a] /\ a = IF i < p THEN i ELSE i + 1
    BY <1>7
  <2>2. PICK b \in 1 .. n : q.range[j] = r.range[b] /\ b = IF j < p THEN j ELSE j + 1
    BY <1>7
  <2>3. i < j => a < b
    BY <1>1, <2>1, <2>2
  <2>4. r.range[a].lo <= r.range[a].hi /\ (a < b => r.range[a].hi < r.range[b].lo)
    BY <1>1, <1>6 DEF Ordered
  <2> QED BY <2>1, <2>2, <2>3, <2>4
<1>9. \A i \in 1 .. k : r.single[i].lo = r.single[i].hi /\ r.single[i].lo < x.lo
  <2> SUFFICES ASSUME NEW i \in 1 .. k PROVE r.single[i].lo = r.single[i].hi /\ r.single[i].lo < x.lo
    OBVIOUS
  <2>1. r.single[i].lo < x.lo \/ x.lo < x.hi
    BY DEF Before
  <2> QED BY <1>2, <2>1 DEF Shape
<1>10. Shape(q)
  <2>1. q \in Reduced
    BY <1>3, <1>4, <1>5
  <2>2. ASSUME NEW i \in 1 .. k + 1 PROVE q.single[i].lo = q.single[i].hi
    <3>1. i = k + 1 \/ i \in 1 .. k
      BY <1>1
    <3> QED BY <1>2, <1>4, <1>9, <3>1
  <2>3. ASSUME NEW i \in 1 .. k + 1, NEW j \in 1 .. k + 1, i < j
        PROVE  q.single[i].lo < q.single[j].lo
    <3>1. i \in 1 .. k
      BY <1>1, <2>3
    <3>2. CASE j = k + 1
      BY <1>4, <1>9, <3>1, <3>2
    <3>3. CASE j # k + 1
      <4>1. j \in 1 .. k
        BY <1>1, <3>3
      <4>2. r.single[i].lo < r.single[j].lo
        BY <1>1, <2>3, <3>1, <4>1 DEF Shape
      <4> QED BY <1>4, <3>1, <4>1, <4>2
    <3> QED BY <3>2, <3>3
  <2> QED BY <1>4, <1>8, <2>1, <2>2, <2>3 DEF Shape
<1>11. Before(q, p)
  <2>1. ASSUME NEW i \in 1 .. k + 1, NEW j \in 1 .. n - 1, p <= j
        PROVE  q.single[i].lo < q.range[j].lo
    <3>1. PICK a \in 1 .. n : q.range[j] = r.range[a] /\ a = j + 1
      BY <1>7, <2>1
    <3>2. p < a
      BY <2>1, <3>1
    <3>3. CASE i = k + 1
      <4>1. x.hi < r.range[a].lo
        BY <1>1, <1>6, <3>2 DEF Ordered
      <4> QED BY <1>2, <1>4, <3>1, <3>3, <4>1
    <3>4. CASE i # k + 1
      <4>1. i \in 1 .. k
        BY <1>1, <3>4
      <4>2. r.single[i].lo < r.range[a].lo
        BY <3>2, <4>1 DEF Before
      <4> QED BY <1>4, <3>1, <4>1, <4>2
    <3> QED BY <3>3, <3>4
  <2> QED BY <1>4, <1>5, <2>1 DEF Before
<1>12. ASSUME NEW w \in Nat, NEW t \in Transitions, Gives(r, w, t) PROVE Gives(q, w, t)
  <2>1. CASE In(x, w)
    <3>1. \A i \in 1 .. k : ~ In(r.single[i], w)
      BY <1>1, <1>2, <1>9, <2>1 DEF In
    <3>2. x.t = t
      BY <1>12, <2>1, <3>1 DEF Gives
    <3>3. \A i \in 1 .. k + 1 : In(q.single[i], w) => q.single[i].t = t
      <4> SUFFICES ASSUME NEW i \in 1 .. k + 1, In(q.single[i], w) PROVE q.single[i].t = t
        OBVIOUS
      <4>1. i \in 1 .. k => FALSE
        BY <1>4, <3>1
      <4>2. i = k + 1
        BY <1>1, <4>1
      <4> QED BY <1>4, <3>2, <4>2
    <3>4. k + 1 \in 1 .. k + 1 /\ In(q.single[k + 1], w)
      BY <1>1, <1>4, <2>1
    <3> QED BY <1>4, <3>3, <3>4 DEF Gives
  <2>2. CASE ~ In(x, w)
    <3>1. \A i \in 1 .. k + 1 : In(q.single[i], w) => i \in 1 .. k /\ q.single[i] = r.single[i]
      BY <1>1, <1>4, <2>2
    <3>2. \A i \in 1 .. k + 1 : In(q.single[i], w) => q.single[i].t = t
      BY <1>12, <3>1 DEF Gives
    <3>3. CASE \E i \in 1 .. k : In(r.single[i], w)
      <4>0. \A i \in 1 .. k : i \in 1 .. k + 1
        BY <1>1
      <4>1. \E i \in 1 .. k + 1 : In(q.single[i], w)
        BY <1>4, <3>3, <4>0
      <4> QED BY <1>4, <3>2, <4>1 DEF Gives
    <3>4. CASE ~ \E i \in 1 .. k : In(r.single[i], w)
      <4>1. /\ \A i \in 1 .. n : In(r.range[i], w) => r.range[i].t = t
            /\ (\E i \in 1 .. n : In(r.range[i], w)) \/ r.def = t
        BY <1>12, <3>4 DEF Gives
      <4>2. \A i \in 1 .. n - 1 : In(q.range[i], w) => q.range[i].t = t
        BY <1>7, <4>1
      <4>3. ASSUME NEW i \in 1 .. n, In(r.range[i], w)
            PROVE  \E j \in 1 .. n - 1 : In(q.range[j], w)
        <5>1. i # p
          BY <2>2, <4>3
        <5>2. CASE i < p
          <6>1. i \in 1 .. n - 1
            BY <1>1, <5>2
          <6> QED BY <1>5, <4>3, <5>2, <6>1
        <5>3. CASE p < i
          <6>1. i - 1 \in 1 .. n - 1 /\ ~ (i - 1 < p) /\ (i - 1) + 1 = i
            BY <1>1, <5>3
          <6> QED BY <1>5, <4>3, <6>1
        <5> QED BY <1>1, <5>1, <5>2, <5>3
      <4> QED BY <1>3, <1>4, <1>5, <3>2, <4>1, <4>2, <4>3 DEF Gives
    <3> QED BY <3>3, <3>4
  <2> QED BY <2>1, <2>2
<1> QED BY <1>10, <1>11, <1>12 DEF q

\* Ranges that follow one another without a gap have every key between the
\* first and the last.
LEMMA Contiguous ==
  ASSUME NEW range \in Seq(ListEntries), NEW p \in 1 .. Len(range), NEW m \in p .. Len(range),
         \A j \in p + 1 .. m : range[j].lo - 1 = range[j - 1].hi,
         NEW w \in Nat, range[p].lo <= w, w <= range[m].hi
  PROVE  \E j \in p .. m : In(range[j], w)
<1> DEFINE S == {k \in Nat : p + k <= m => (w <= range[p + k].hi => \E j \in p .. m : In(range[j], w))}
<1>1. Len(range) \in Nat /\ p \in Nat /\ m \in Nat /\ p <= m /\ m <= Len(range) /\ 1 <= p
  BY LenProperties
<1>2. \A i \in 1 .. Len(range) : range[i].lo \in Nat /\ range[i].hi \in Nat
  BY EntryFacts
<1>3. 0 \in S
  <2>1. p + 0 = p /\ p \in p .. m
    BY <1>1
  <2> QED BY <2>1 DEF In
<1>4. ASSUME NEW k \in Nat, k \in S PROVE k + 1 \in S
  <2> SUFFICES ASSUME p + (k + 1) <= m, w <= range[p + (k + 1)].hi
               PROVE  \E j \in p .. m : In(range[j], w)
    OBVIOUS
  <2>1. p + (k + 1) \in p + 1 .. m /\ (p + (k + 1)) - 1 = p + k /\ p + k <= m
    BY <1>1
  <2>2. p + (k + 1) \in 1 .. Len(range) /\ p + k \in 1 .. Len(range) /\ p + (k + 1) \in p .. m
    BY <1>1
  <2>3. range[p + (k + 1)].lo - 1 = range[p + k].hi
    BY <2>1
  <2>4. CASE w <= range[p + k].hi
    BY <1>4, <2>1, <2>4
  <2>5. CASE range[p + k].hi < w
    <3>1. range[p + (k + 1)].lo <= w
      BY <1>2, <2>2, <2>3, <2>5
    <3> QED BY <2>2, <3>1 DEF In
  <2> QED BY <1>2, <2>2, <2>4, <2>5
<1>5. Nat \subseteq S
  <2> HIDE DEF S
  <2> QED BY <1>3, <1>4, Induction
<1>6. m - p \in Nat /\ p + (m - p) = m
  BY <1>1
<1> QED BY <1>1, <1>5, <1>6

\* Where the next range of the same transition is, what is between is single.
LEMMA NextFound ==
  ASSUME NEW range \in Seq(ListEntries), NEW p \in 1 .. Len(range), CanExtend(range, p)
  PROVE  LET m == NextSame(range, p)
         IN  /\ m \in p + 1 .. Len(range) /\ range[m].t = range[p].t
             /\ \A j \in p + 1 .. m : range[j].lo - 1 = range[j - 1].hi
             /\ \A j \in p + 1 .. m - 1 : Span(range[j]) = 1
<1>1. PICK next \in p + 1 .. Len(range) :
             /\ range[next].t = range[p].t
             /\ \A j \in p + 1 .. next : range[j].lo - 1 = range[j - 1].hi
             /\ \A j \in p + 1 .. next - 1 : Span(range[j]) = 1 /\ range[j].t # range[p].t
  BY DEF CanExtend
<1> DEFINE m == NextSame(range, p)
           P(n) == range[n].t = range[p].t /\ \A j \in p + 1 .. n - 1 : range[j].t # range[p].t
<1>2. m = CHOOSE n \in p + 1 .. Len(range) : P(n)
  BY DEF NextSame
<1>3. P(next)
  BY <1>1
<1>4. m \in p + 1 .. Len(range) /\ P(m)
  <2> HIDE DEF P, m
  <2> QED BY <1>2, <1>3
<1> HIDE DEF m
<1>5. m = next
  <2>0. Len(range) \in Nat
    BY LenProperties
  <2>1. ~ (m < next)
    <3>1. m < next => m \in p + 1 .. next - 1
      BY <1>4, <2>0
    <3> QED BY <1>1, <1>4, <3>1
  <2>2. ~ (next < m)
    <3>1. next < m => next \in p + 1 .. m - 1
      BY <1>4, <2>0
    <3> QED BY <1>1, <1>4, <3>1
  <2> QED BY <1>4, <2>0, <2>1, <2>2
<1> QED BY <1>1, <1>5 DEF m

\* A range takes in the next one of its transition, and the single keys
\* between the two become singles.
LEMMA Extended ==
  ASSUME NEW r, Shape(r), NEW p \in 1 .. Len(r.range), Before(r, p), CanExtend(r.range, p)
  PROVE  /\ Shape(Extend(r, p)) /\ Before(Extend(r, p), p)
         /\ \A w \in Nat, t \in Transitions : Gives(r, w, t) => Gives(Extend(r, p), w, t)
<1> DEFINE q == Extend(r, p)
           n == Len(r.range)
           k == Len(r.single)
           m == NextSame(r.range, p)
           d == m - 1 - p
           e == El(r.range[p].lo, r.range[m].hi, r.range[p].t)
           mid == SubSeq(r.range, p + 1, m - 1)
<1>1. /\ r.range \in Seq(ListEntries) /\ r.single \in Seq(ListEntries)
      /\ n \in Nat /\ k \in Nat
      /\ \A i \in 1 .. n : r.range[i].lo \in Nat /\ r.range[i].hi \in Nat
      /\ \A i \in 1 .. k : r.single[i].lo \in Nat /\ r.single[i].hi \in Nat
  BY ShapeFacts
<1>2. /\ m \in p + 1 .. n /\ r.range[m].t = r.range[p].t
      /\ \A j \in p + 1 .. m : r.range[j].lo - 1 = r.range[j - 1].hi
      /\ \A j \in p + 1 .. m - 1 : Span(r.range[j]) = 1
  BY <1>1, NextFound
<1> HIDE DEF m
<1>3. /\ d \in Nat /\ m \in 1 .. n /\ p < m /\ p + 1 + d = m
      /\ p \in Nat /\ m \in Nat /\ 1 <= p /\ m <= n
  BY <1>1, <1>2
<1> HIDE DEF d
<1>4. Ordered(r.range)
  BY DEF Shape
<1>5. e \in ListEntries /\ e.lo = r.range[p].lo /\ e.hi = r.range[m].hi /\ e.t = r.range[p].t
  <2>1. r.range[p].t \in Transitions
    BY <1>1, EntryFacts
  <2> QED BY <1>1, <1>3, <2>1, ElFacts
<1>6. e.lo < e.hi
  <2>1. r.range[p].lo <= r.range[p].hi /\ r.range[p].hi < r.range[m].lo /\ r.range[m].lo <= r.range[m].hi
    BY <1>1, <1>3, <1>4 DEF Ordered
  <2> QED BY <1>1, <1>3, <1>5, <2>1
<1>7. mid \in Seq(ListEntries) /\ Len(mid) = d /\ \A i \in 1 .. d : mid[i] = r.range[p + i]
  <2>1. \A i \in p + 1 .. m - 1 : r.range[i] \in ListEntries
    BY <1>1, <1>3, EntryFacts
  <2>2. /\ mid \in Seq(ListEntries)
        /\ Len(mid) = IF p + 1 <= m - 1 THEN (m - 1) - (p + 1) + 1 ELSE 0
        /\ \A i \in 1 .. (m - 1) - (p + 1) + 1 : mid[i] = r.range[(p + 1) + i - 1]
    BY <1>1, <1>3, <2>1, SubSeqProperties
  <2>3. (m - 1) - (p + 1) + 1 = d
    BY <1>1, <1>3
  <2>4. \A i \in 1 .. d : (p + 1) + i - 1 = p + i
    BY <1>1, <1>3
  <2>5. Len(mid) = d
    BY <1>1, <1>3, <2>2
  <2> QED BY <2>2, <2>3, <2>4, <2>5
<1>8. /\ q.single = r.single \o mid
      /\ q.range = SubSeq(r.range, 1, p - 1) \o <<e>> \o SubSeq(r.range, m + 1, n)
      /\ q.def = r.def
      /\ q.single \in Seq(ListEntries) /\ q.range \in Seq(ListEntries) => q \in Reduced
  BY DEF Extend, Shape, Reduced, m
<1> HIDE DEF mid, e, q
<1>9. /\ q.single \in Seq(ListEntries) /\ Len(q.single) = k + d
      /\ \A i \in 1 .. k + d : q.single[i] = IF i <= k THEN r.single[i] ELSE mid[i - k]
  <2> DEFINE z == r.single \o mid
  <2>1. /\ z \in Seq(ListEntries) /\ Len(z) = k + Len(mid)
        /\ \A i \in 1 .. k + Len(mid) : z[i] = IF i <= k THEN r.single[i] ELSE mid[i - k]
    BY <1>1, <1>7, ConcatProperties
  <2>2. q.single = z
    BY <1>8
  <2> HIDE DEF z
  <2> QED BY <1>7, <2>1, <2>2
<1>10. /\ q.range \in Seq(ListEntries) /\ Len(q.range) = n - (m - p)
       /\ \A i \in 1 .. Len(q.range) : q.range[i] = IF i < p THEN r.range[i]
                                            ELSE IF i = p THEN e ELSE r.range[i + (m - p)]
  <2> DEFINE z == q.range
             y == r.range
  <2>1. p \in 1 .. Len(y) /\ m \in p .. Len(y) /\ y \in Seq(ListEntries) /\ e \in ListEntries
    BY <1>1, <1>3, <1>5
  <2>2. IsSplice(z, y, e, p, m)
    BY <1>8 DEF IsSplice
  <2> HIDE DEF z, y
  <2>3. /\ z \in Seq(ListEntries) /\ Len(z) = Len(y) - (m - p)
        /\ \A i \in 1 .. Len(z) : z[i] = IF i < p THEN y[i]
                                         ELSE IF i = p THEN e ELSE y[i + (m - p)]
    BY <2>1, <2>2, Spliced
  <2> QED BY <2>3 DEF z, y
\* where the new singles and ranges come from
<1>11. ASSUME NEW i \in 1 .. k + d
       PROVE  \/ i \in 1 .. k /\ q.single[i] = r.single[i]
              \/ /\ k < i /\ p + (i - k) \in p + 1 .. m - 1 /\ p + (i - k) \in 1 .. n
                 /\ q.single[i] = r.range[p + (i - k)]
  <2>1. CASE i <= k
    <3>1. i \in 1 .. k
      BY <1>1, <2>1
    <3>2. q.single[i] = r.single[i]
      BY <1>9, <2>1
    <3> QED BY <3>1, <3>2
  <2>2. CASE k < i
    <3>1. i - k \in 1 .. d /\ ~ (i <= k)
      BY <1>1, <1>3, <2>2
    <3>2. \A c \in 1 .. d : p + c \in p + 1 .. m - 1 /\ p + c \in 1 .. n
      BY <1>1, <1>3
    <3>3. q.single[i] = mid[i - k]
      BY <1>9, <3>1
    <3>4. mid[i - k] = r.range[p + (i - k)]
      BY <1>7, <3>1
    <3>5. p + (i - k) \in p + 1 .. m - 1 /\ p + (i - k) \in 1 .. n
      BY <3>1, <3>2
    <3> QED BY <2>2, <3>3, <3>4, <3>5
  <2>3. i <= k \/ k < i
    BY <1>1, <1>3
  <2> QED BY <2>1, <2>2, <2>3
<1>12. ASSUME NEW i \in 1 .. Len(q.range)
       PROVE  \/ i < p /\ i \in 1 .. n /\ q.range[i] = r.range[i]
              \/ i = p /\ q.range[i] = e
              \/ /\ p < i /\ i + (m - p) \in m + 1 .. n /\ i + (m - p) \in 1 .. n
                 /\ q.range[i] = r.range[i + (m - p)]
  <2>1. CASE i < p
    <3>1. i \in 1 .. n
      BY <1>1, <2>1
    <3> QED BY <1>10, <2>1, <3>1
  <2>2. CASE i = p
    BY <1>10, <2>2
  <2>3. CASE p < i
    <3>1. ~ (i < p) /\ i # p
      BY <1>1, <2>3
    <3>2. q.range[i] = r.range[i + (m - p)]
      BY <1>10, <3>1
    <3>3. i + (m - p) \in m + 1 .. n /\ i + (m - p) \in 1 .. n
      BY <1>1, <1>3, <1>10, <2>3
    <3> QED BY <2>3, <3>2, <3>3
  <2> QED BY <1>1, <2>1, <2>2, <2>3
<1>13. \A i, j \in 1 .. n : r.range[i].lo <= r.range[i].hi /\ (i < j => r.range[i].hi < r.range[j].lo)
  BY <1>4 DEF Ordered
<1>14. Len(q.range) \in Nat
  BY <1>10, LenProperties
<1>15. Ordered(q.range)
  <2> SUFFICES ASSUME NEW i \in 1 .. Len(q.range), NEW j \in 1 .. Len(q.range)
               PROVE  /\ q.range[i].lo <= q.range[i].hi
                      /\ i < j => q.range[i].hi < q.range[j].lo
    BY DEF Ordered
  <2>1. q.range[i].lo <= q.range[i].hi
    <3>1. e.lo <= e.hi
      BY <1>1, <1>3, <1>5, <1>6
    <3>2. \A a \in 1 .. n : r.range[a].lo <= r.range[a].hi
      BY <1>13
    <3> QED BY <1>12, <3>1, <3>2
  <2>2. ASSUME i < j PROVE q.range[i].hi < q.range[j].lo
    <3>1. CASE i < p
      <4>1. i \in 1 .. n /\ q.range[i] = r.range[i]
        BY <1>12, <3>1
      <4>2. CASE j < p
        <5>1. j \in 1 .. n /\ q.range[j] = r.range[j]
          BY <1>12, <4>2
        <5> QED BY <1>13, <2>2, <4>1, <5>1
      <4>3. CASE j = p
        BY <1>5, <1>12, <1>13, <3>1, <4>1, <4>3
      <4>4. CASE p < j
        <5>1. j + (m - p) \in 1 .. n /\ q.range[j] = r.range[j + (m - p)] /\ i < j + (m - p)
          BY <1>3, <1>12, <2>2, <4>4
        <5> QED BY <1>13, <4>1, <5>1
      <4> QED BY <4>2, <4>3, <4>4
    <3>2. CASE i = p
      <4>1. q.range[i] = e
        BY <1>12, <3>2
      <4>2. p < j
        BY <2>2, <3>2
      <4>3. j + (m - p) \in 1 .. n /\ q.range[j] = r.range[j + (m - p)]
        BY <1>12, <4>2
      <4>4. m < j + (m - p)
        BY <1>3, <4>2
      <4> QED BY <1>3, <1>5, <1>13, <4>1, <4>3, <4>4
    <3>3. CASE p < i
      <4>1. i + (m - p) \in 1 .. n /\ q.range[i] = r.range[i + (m - p)]
        BY <1>12, <3>3
      <4>2. j + (m - p) \in 1 .. n /\ q.range[j] = r.range[j + (m - p)] /\ i + (m - p) < j + (m - p)
        BY <1>3, <1>12, <2>2, <3>3
      <4> QED BY <1>13, <4>1, <4>2
    <3> QED BY <3>1, <3>2, <3>3
  <2> QED BY <2>1, <2>2
<1>16. \A j \in p + 1 .. m - 1 : r.range[j].lo = r.range[j].hi
  <2> SUFFICES ASSUME NEW j \in p + 1 .. m - 1 PROVE r.range[j].lo = r.range[j].hi
    OBVIOUS
  <2>1. j \in 1 .. n
    BY <1>1, <1>3
  <2>2. Span(r.range[j]) = 1
    BY <1>2
  <2>3. r.range[j].lo \in Nat /\ r.range[j].hi \in Nat
    BY <1>1, <2>1
  <2> QED BY <2>2, <2>3 DEF Span
<1>17. \A i \in 1 .. k, j \in p + 1 .. n : r.single[i].lo < r.range[j].lo
  <2> SUFFICES ASSUME NEW i \in 1 .. k, NEW j \in p + 1 .. n PROVE r.single[i].lo < r.range[j].lo
    OBVIOUS
  <2>1. j \in 1 .. n /\ p < j
    BY <1>1
  <2> QED BY <2>1 DEF Before
<1>18. Shape(q)
  <2>1. q \in Reduced
    BY <1>8, <1>9, <1>10
  <2>2. ASSUME NEW i \in 1 .. k + d PROVE q.single[i].lo = q.single[i].hi
    <3>1. CASE i \in 1 .. k /\ q.single[i] = r.single[i]
      BY <3>1 DEF Shape
    <3>2. CASE p + (i - k) \in p + 1 .. m - 1 /\ q.single[i] = r.range[p + (i - k)]
      BY <1>16, <3>2
    <3> QED BY <1>11, <3>1, <3>2
  <2>3. ASSUME NEW i \in 1 .. k + d, NEW j \in 1 .. k + d, i < j
        PROVE  q.single[i].lo < q.single[j].lo
    <3>1. CASE i \in 1 .. k /\ q.single[i] = r.single[i]
      <4>1. CASE j \in 1 .. k /\ q.single[j] = r.single[j]
        BY <2>3, <3>1, <4>1 DEF Shape
      <4>2. CASE p + (j - k) \in p + 1 .. m - 1 /\ q.single[j] = r.range[p + (j - k)]
        <5>1. p + (j - k) \in p + 1 .. n
          <6>1. \A x \in p + 1 .. m - 1 : x \in p + 1 .. n
            BY <1>1, <1>3
          <6> QED BY <4>2, <6>1
        <5> QED BY <1>17, <3>1, <4>2, <5>1
      <4> QED BY <1>11, <4>1, <4>2
    <3>2. CASE /\ k < i /\ p + (i - k) \in p + 1 .. m - 1 /\ p + (i - k) \in 1 .. n
               /\ q.single[i] = r.range[p + (i - k)]
      <4>1. ~ (j \in 1 .. k)
        BY <1>1, <2>3, <3>2
      <4>2. p + (j - k) \in 1 .. n /\ q.single[j] = r.range[p + (j - k)]
        BY <1>11, <4>1
      <4>3. p + (i - k) < p + (j - k)
        BY <1>1, <2>3
      <4>4. r.range[p + (i - k)].hi < r.range[p + (j - k)].lo /\ r.range[p + (i - k)].lo <= r.range[p + (i - k)].hi
        BY <1>13, <3>2, <4>2, <4>3
      <4>5. \A a, b, c \in Nat : a <= b /\ b < c => a < c
        OBVIOUS
      <4> QED BY <1>1, <3>2, <4>2, <4>4, <4>5
    <3> QED BY <1>11, <3>1, <3>2
  <2> QED BY <1>9, <1>15, <2>1, <2>2, <2>3 DEF Shape
<1>19. Before(q, p)
  <2> SUFFICES ASSUME NEW i \in 1 .. k + d, NEW j \in 1 .. Len(q.range)
               PROVE  /\ p < j => q.single[i].lo < q.range[j].lo
                      /\ j = p => q.single[i].lo < q.range[j].lo \/ q.range[j].lo < q.range[j].hi
    BY <1>9 DEF Before
  <2>1. j = p => q.range[j].lo < q.range[j].hi
    BY <1>6, <1>10
  <2>2. ASSUME p < j PROVE q.single[i].lo < q.range[j].lo
    <3>1. j + (m - p) \in m + 1 .. n /\ j + (m - p) \in 1 .. n /\ q.range[j] = r.range[j + (m - p)]
      BY <1>12, <2>2
    <3>2. CASE i \in 1 .. k /\ q.single[i] = r.single[i]
      <4>1. j + (m - p) \in p + 1 .. n
        BY <1>1, <1>3, <3>1
      <4> QED BY <1>17, <3>1, <3>2, <4>1
    <3>3. CASE /\ k < i /\ p + (i - k) \in p + 1 .. m - 1 /\ p + (i - k) \in 1 .. n
               /\ q.single[i] = r.range[p + (i - k)]
      <4>0. \A a \in p + 1 .. m - 1, b \in m + 1 .. n : a < b
        BY <1>1, <1>3
      <4>1. p + (i - k) < j + (m - p)
        BY <3>1, <3>3, <4>0
      <4>2. r.range[p + (i - k)].hi < r.range[j + (m - p)].lo /\ r.range[p + (i - k)].lo = r.range[p + (i - k)].hi
        BY <1>13, <1>16, <3>1, <3>3, <4>1
      <4> QED BY <3>1, <3>3, <4>2
    <3> QED BY <1>11, <3>2, <3>3
  <2> QED BY <2>1, <2>2
<1>20. ASSUME NEW w \in Nat, NEW t \in Transitions, Gives(r, w, t) PROVE Gives(q, w, t)
  <2>1. \A i \in 1 .. k : In(r.single[i], w) => r.single[i].t = t
    BY <1>20 DEF Gives
  <2>2. CASE \E i \in 1 .. k : In(r.single[i], w)
    <3>1. PICK i \in 1 .. k : In(r.single[i], w)
      BY <2>2
    <3>2. \A j \in p + 1 .. n : ~ In(r.range[j], w)
      <4> SUFFICES ASSUME NEW j \in p + 1 .. n PROVE ~ In(r.range[j], w)
        OBVIOUS
      <4>1. j \in 1 .. n
        BY <1>1
      <4>2. r.single[i].lo < r.range[j].lo /\ r.single[i].lo = r.single[i].hi
        BY <1>17 DEF Shape
      <4> QED BY <1>1, <3>1, <4>1, <4>2 DEF In
    <3>3. ASSUME NEW j \in 1 .. k + d, In(q.single[j], w) PROVE q.single[j].t = t
      <4>1. \A c \in p + 1 .. m - 1 : c \in p + 1 .. n
        BY <1>1, <1>3
      <4> QED BY <1>11, <2>1, <3>2, <3>3, <4>1
    <3>4. i \in 1 .. k + d /\ q.single[i] = r.single[i]
      BY <1>1, <1>3, <1>9
    <3> QED BY <1>9, <3>1, <3>3, <3>4 DEF Gives
  <2>3. CASE ~ \E i \in 1 .. k : In(r.single[i], w)
    <3>1. /\ \A i \in 1 .. n : In(r.range[i], w) => r.range[i].t = t
          /\ (\E i \in 1 .. n : In(r.range[i], w)) \/ r.def = t
      BY <1>20, <2>3 DEF Gives
    <3>2. ASSUME NEW j \in 1 .. k + d, In(q.single[j], w) PROVE q.single[j].t = t
      BY <1>11, <2>3, <3>1, <3>2
    <3>3. CASE In(e, w)
      <4>1. PICK j \in p .. m : In(r.range[j], w)
        <5>1. m \in p .. n /\ r.range[p].lo <= w /\ w <= r.range[m].hi
          BY <1>2, <1>5, <3>3 DEF In
        <5> QED BY <1>1, <1>2, <5>1, Contiguous
      <4>2. CASE j \in p + 1 .. m - 1
        <5>1. k + (j - p) \in 1 .. k + d /\ p + ((k + (j - p)) - k) = j /\ ~ (k + (j - p) \in 1 .. k)
          BY <1>1, <1>3, <4>2
        <5>2. q.single[k + (j - p)] = r.range[j]
          BY <1>11, <5>1
        <5> QED BY <1>9, <3>2, <4>1, <5>1, <5>2 DEF Gives
      <4>3. CASE j = p \/ j = m
        <5>1. e.t = t
          BY <1>2, <1>3, <1>5, <3>1, <4>1, <4>3
        <5>2. p \in 1 .. Len(q.range) /\ q.range[p] = e
          <6>1. p \in 1 .. Len(q.range)
            BY <1>1, <1>3, <1>10
          <6> QED BY <1>10, <6>1
        <5>3. \A i \in 1 .. Len(q.range) : In(q.range[i], w) => q.range[i].t = t
          BY <1>12, <3>1, <5>1
        <5> QED BY <1>9, <3>2, <3>3, <5>2, <5>3 DEF Gives
      <4> QED BY <1>1, <1>3, <4>1, <4>2, <4>3
    <3>4. CASE ~ In(e, w)
      <4>1. \A i \in 1 .. Len(q.range) : In(q.range[i], w) => q.range[i].t = t
        BY <1>12, <3>1, <3>4
      <4>2. ASSUME NEW i \in 1 .. n, In(r.range[i], w)
            PROVE  \E j \in 1 .. Len(q.range) : In(q.range[j], w)
        <5>1. CASE i < p
          <6>1. i \in 1 .. Len(q.range)
            BY <1>1, <1>3, <1>10, <5>1
          <6>2. q.range[i] = r.range[i]
            BY <1>10, <5>1, <6>1
          <6> QED BY <4>2, <6>1, <6>2
        <5>2. CASE m < i
          <6>1. i - (m - p) \in 1 .. Len(q.range) /\ p < i - (m - p) /\ (i - (m - p)) + (m - p) = i
            BY <1>1, <1>3, <1>10, <5>2
          <6>2. q.range[i - (m - p)] = r.range[i]
            BY <1>12, <6>1
          <6> QED BY <4>2, <6>1, <6>2
        <5>3. CASE p <= i /\ i <= m
          <6>1. r.range[p].lo <= r.range[i].lo
            <7>1. CASE p = i
              BY <1>1, <7>1
            <7>2. CASE p < i
              <8>1. r.range[p].lo <= r.range[p].hi /\ r.range[p].hi < r.range[i].lo
                BY <1>13, <7>2
              <8> QED BY <1>1, <8>1
            <7> QED BY <1>1, <5>3, <7>1, <7>2
          <6>2. r.range[i].hi <= r.range[m].hi
            <7>1. CASE m = i
              BY <1>1, <7>1
            <7>2. CASE i < m
              <8>1. r.range[i].hi < r.range[m].lo /\ r.range[m].lo <= r.range[m].hi
                BY <1>3, <1>13, <7>2
              <8> QED BY <1>1, <1>3, <8>1
            <7> QED BY <1>1, <1>3, <5>3, <7>1, <7>2
          <6> QED BY <1>1, <1>3, <1>5, <3>4, <4>2, <6>1, <6>2 DEF In
        <5> QED BY <1>1, <1>3, <5>1, <5>2, <5>3
      <4> QED BY <1>8, <1>9, <3>1, <3>2, <4>1, <4>2 DEF Gives
    <3> QED BY <3>3, <3>4
  <2> QED BY <2>2, <2>3
<1> QED BY <1>18, <1>19, <1>20 DEF q

-----------------------------------------------------------------------------
(* The reduced states as they are made.                                    *)

\* A reduced state says of every key what the machine says.
Kept(r, s) ==
  /\ Shape(r)
  /\ s # Err => \A w \in 0 .. TopOf(machine[s].list) : Gives(r, w, Meant(machine[s].list, w))

\* When the reduced states are complete.
Later == {"write", "ready", "asked", "conds", "locate", "singles", "ranges",
          "condtests", "switch", "tests"}

TablesType ==
  /\ machine \in Seq(MachineState)
  /\ pc \in {"read", "default", "single"} \cup Later
  /\ cur \in Nat \ {0} /\ pos \in Nat \ {0}
  /\ red \in [States -> Reduced]

\* The error state has no transitions.
ErrEmpty == \A s \in States : s = Err => red[s].range = <<>> /\ red[s].single = <<>>

\* The states before the current one are complete; the current one is as far
\* as its list has been read.
ReadInv ==
  /\ \A s \in States : red[s].single = <<>>
  /\ cur \in States => pos - 1 <= Len(machine[cur].list)
  /\ cur \notin States => pos = 1
  /\ \A s \in States \ {Err} :
       /\ s < cur => Full(red[s].range, machine[s].list)
       /\ s = cur => Reads(red[s].range, machine[s].list, pos - 1)
       /\ cur < s => red[s].range = <<>>

\* The states that have no default yet are complete without one.
DefaultInv ==
  /\ pos = 1
  /\ \A s \in States : red[s].single = <<>>
  /\ \A s \in States \ {Err} : cur <= s => Full(red[s].range, machine[s].list)

\* The current state is as far as its ranges have been walked.
SingleInv ==
  \A s \in States : /\ s = cur => Before(red[s], pos)
                    /\ cur < s => red[s].single = <<>>

ReduceInv ==
  /\ TablesType /\ ErrEmpty
  /\ pc = "read" => ReadInv
  /\ pc = "default" => DefaultInv
  /\ pc = "single" => SingleInv
  /\ pc # "read" => \A s \in States : Kept(red[s], s)

LEMMA MachineFacts ==
  ASSUME TablesType
  PROVE  /\ Len(machine) \in Nat /\ States = 1 .. Len(machine)
         /\ \A s \in States : /\ machine[s].list \in Seq(ListEntries)
                              /\ Ordered(machine[s].list)
                              /\ machine[s].eof \in Transitions
                              /\ machine[s].conds \in Seq(CondRanges)
<1>1. Len(machine) \in Nat
  BY LenProperties DEF TablesType
<1>2. \A s \in States : machine[s] \in MachineState
  BY ElementOfSeq DEF TablesType, States
<1> QED BY <1>1, <1>2 DEF MachineState, States

LEMMA MeantType ==
  ASSUME NEW list \in Seq(ListEntries), Ordered(list), NEW w \in Nat
  PROVE  Meant(list, w) \in Transitions
<1>1. CASE \E i \in 1 .. Len(list) : In(list[i], w)
  BY <1>1, MeantListed, EntryFacts
<1>2. CASE ~ \E i \in 1 .. Len(list) : In(list[i], w)
  BY <1>2, MeantNothing, ErrorTransType
<1> QED BY <1>1, <1>2

LEMMA TopType ==
  ASSUME NEW list \in Seq(ListEntries)
  PROVE  TopOf(list) \in Nat
<1>1. CASE list = <<>>
  BY <1>1, KeyAssumption DEF TopOf
<1>2. CASE list # <<>>
  <2>1. Len(list) \in 1 .. Len(list)
    BY <1>2, EmptySeq, LenProperties
  <2> QED BY <2>1, EntryFacts, KeyAssumption DEF TopOf, Last
<1> QED BY <1>1, <1>2

\* What never stops giving the same for a key.
LEMMA KeptFrom ==
  ASSUME TablesType, NEW s \in States, NEW r, NEW q, Kept(r, s), Shape(q),
         \A w \in Nat, t \in Transitions : Gives(r, w, t) => Gives(q, w, t)
  PROVE  Kept(q, s)
<1> DEFINE list == machine[s].list
<1>1. list \in Seq(ListEntries) /\ Ordered(list)
  BY MachineFacts
<1>2. TopOf(list) \in Nat
  BY <1>1, TopType
<1>3. \A w \in 0 .. TopOf(list) : w \in Nat /\ Meant(list, w) \in Transitions
  BY <1>1, <1>2, MeantType
<1> QED BY <1>3 DEF Kept

\* A complete list with no singles says what the machine says.
LEMMA FullKept ==
  ASSUME TablesType, NEW s \in States, NEW r \in Reduced, r.single = <<>>,
         s # Err => Full(r.range, machine[s].list), s = Err => r.range = <<>>
  PROVE  Kept(r, s)
<1> DEFINE list == machine[s].list
<1>1. list \in Seq(ListEntries) /\ Ordered(list)
  BY MachineFacts
<1>2. TopOf(list) \in Nat
  BY <1>1, TopType
<1>3. Len(r.single) = 0 /\ r.range \in Seq(ListEntries)
  BY EmptySeq DEF Reduced
<1>4. Ordered(r.range)
  <2>1. Ordered(<<>>)
    BY EmptySeq DEF Ordered
  <2> QED BY <2>1 DEF Full
<1>5. Shape(r)
  BY <1>3, <1>4 DEF Shape
<1>6. ASSUME s # Err, NEW w \in 0 .. TopOf(list) PROVE Gives(r, w, Meant(list, w))
  <2>0. w \in Nat
    BY <1>2
  <2>1. PICK i \in 1 .. Len(r.range) : In(r.range[i], w) /\ r.range[i].t = Meant(list, w)
    BY <1>6 DEF Full
  <2>2. ASSUME NEW j \in 1 .. Len(r.range), In(r.range[j], w) PROVE r.range[j].t = Meant(list, w)
    <3>1. Meant(r.range, w) = r.range[i].t /\ Meant(r.range, w) = r.range[j].t
      BY <1>3, <1>4, <2>0, <2>1, <2>2, MeantListed
    <3> QED BY <2>1, <3>1
  <2> QED BY <1>3, <2>1, <2>2 DEF Gives
<1> QED BY <1>5, <1>6 DEF Kept

LEMMA InitReduced ==
  Init => ReduceInv
<1> SUFFICES ASSUME Init PROVE ReduceInv
  OBVIOUS
<1>1. machine \in Seq(MachineState)
  BY MachinesAssumption DEF Init
<1>2. \A s \in States : machine[s] \in MachineState
  BY <1>1, ElementOfSeq DEF States
<1>3. <<>> \in Seq(ListEntries)
  BY EmptySeq
<1>4. NoTrans \in Transitions
  BY DEF NoTrans, Transitions
<1>5. red \in [States -> Reduced] /\ \A s \in States : red[s].range = <<>> /\ red[s].single = <<>>
  BY <1>2, <1>3, <1>4 DEF Init, MachineState, Reduced
<1>6. TablesType /\ ErrEmpty /\ pc = "read" /\ cur = 1 /\ pos = 1
  <2>1. pc = "read" /\ cur = 1 /\ pos = 1
    BY DEF Init
  <2>2. TablesType
    BY <1>1, <1>5, <2>1 DEF TablesType
  <2>3. ErrEmpty
    BY <1>5 DEF ErrEmpty
  <2> QED BY <2>1, <2>2, <2>3
<1>7. Len(machine) \in Nat /\ States = 1 .. Len(machine)
  BY <1>6, MachineFacts
<1>8. ReadInv
  <2>1. Ordered(<<>>)
    BY EmptySeq DEF Ordered
  <2>2. \A s \in States : Reads(red[s].range, machine[s].list, 0)
    <3> SUFFICES ASSUME NEW s \in States PROVE Reads(red[s].range, machine[s].list, 0)
      OBVIOUS
    <3>1. red[s].range = <<>>
      BY <1>5
    <3>2. ~ (0 > 0)
      OBVIOUS
    <3> QED BY <1>3, <2>1, <3>1, <3>2 DEF Reads
  <2>3. \A s \in States : Len(machine[s].list) \in Nat
    BY <1>6, MachineFacts, LenProperties
  <2> QED BY <1>5, <1>6, <1>7, <2>2, <2>3 DEF ReadInv
<1> QED BY <1>6, <1>8 DEF ReduceInv

\* The lookups and the writing leave the reduced states alone.
LEMMA LaterSteps ==
  ASSUME TablesType, [Next]_vars, pc \in Later
  PROVE  UNCHANGED <<machine, red, cur, pos>> /\ pc' \in Later
<1> USE DEF Later
<1>1. CASE Build
  BY <1>1 DEF Build, SetEofTrans, TakeTrans, FinishState, ChooseDefaults, ChooseDefault,
       ChooseStyle, MoveTransToSingle, SinglesMoved, WriteData
<1>2. CASE Ask
  BY <1>2 DEF Ask, builder
<1>3. CASE Lookup
  <2>1. CASE FindEofTrans
    BY <2>1 DEF FindEofTrans, Found, builder
  <2>2. CASE SearchConds
    BY <2>2 DEF SearchConds, builder
  <2>3. CASE SearchCond
    BY <2>3 DEF SearchCond, builder
  <2>4. CASE CondsSearched
    BY <2>4 DEF CondsSearched, builder
  <2>5. CASE SearchSingles
    BY <2>5 DEF SearchSingles, builder
  <2>6. CASE SearchSingle
    BY <2>6 DEF SearchSingle, Match, Found, builder
  <2>7. CASE SearchRanges
    BY <2>7 DEF SearchRanges, builder
  <2>8. CASE SearchRange
    BY <2>8 DEF SearchRange, Match, Found, builder
  <2>9. CASE TakeDefault
    BY <2>9 DEF TakeDefault, Match, Found, builder
  <2>10. CASE FlatLookup
    BY <2>10 DEF FlatLookup, Found, builder
  <2>11. CASE EnterCondTests
    BY <2>11 DEF EnterCondTests, builder
  <2>12. CASE TestCond
    BY <2>12 DEF TestCond, builder
  <2>13. CASE Switch
    BY <2>13 DEF Switch, Found, builder
  <2>14. CASE TestRange
    BY <2>14 DEF TestRange, Found, builder
  <2> QED BY <1>3, <2>1, <2>2, <2>3, <2>4, <2>5, <2>6, <2>7, <2>8, <2>9, <2>10, <2>11,
             <2>12, <2>13, <2>14 DEF Lookup
<1>4. CASE UNCHANGED vars
  BY <1>4 DEF vars, builder
<1> QED BY <1>1, <1>2, <1>3, <1>4 DEF Next

\* One state gets another list of transitions.
LEMMA RedChanged ==
  ASSUME TablesType, NEW s \in States, NEW q \in Reduced, red' = [red EXCEPT ![s] = q]
  PROVE  /\ red' \in [States -> Reduced] /\ red'[s] = q
         /\ \A z \in States : z # s => red'[z] = red[z]
BY DEF TablesType

LEMMA ReadTransStep ==
  ASSUME ReduceInv, TakeTrans
  PROVE  ReduceInv'
<1>1. /\ pc = "read" /\ pc' = pc /\ cur' = cur /\ pos' = pos + 1 /\ machine' = machine
      /\ cur \in States /\ pos <= Len(machine[cur].list)
  BY DEF TakeTrans
<1>2. TablesType /\ ErrEmpty /\ ReadInv
  BY <1>1 DEF ReduceInv
<1>3. States' = States
  BY <1>1 DEF States
<1> DEFINE list == machine[cur].list
           range == NewTrans(red[cur].range, list[pos])
<1>4. /\ list \in Seq(ListEntries) /\ Ordered(list) /\ Len(list) \in Nat
      /\ pos \in 1 .. Len(list) /\ pos \in Nat /\ pos - 1 \in Nat /\ (pos - 1) + 1 = pos
  <2>1. list \in Seq(ListEntries) /\ Ordered(list) /\ Len(list) \in Nat
    BY <1>1, <1>2, MachineFacts, LenProperties
  <2> QED BY <1>1, <1>2, <2>1 DEF TablesType
<1>5. Len(machine) \in Nat /\ States = 1 .. Len(machine)
  BY <1>2, MachineFacts
<1>6. CASE cur = Err
  <2>1. red' = red
    BY <1>6 DEF TakeTrans
  <2>2. TablesType'
    BY <1>1, <1>2, <1>3, <1>4, <2>1 DEF TablesType, Later
  <2>3. ErrEmpty'
    BY <1>2, <1>3, <2>1 DEF ErrEmpty
  <2>4. ReadInv'
    <3>1. pos' - 1 <= Len(list)
      BY <1>1, <1>4
    <3>2. \A s \in States \ {Err} : s # cur
      BY <1>6
    <3> QED BY <1>1, <1>2, <1>3, <2>1, <3>1, <3>2 DEF ReadInv
  <2> QED BY <1>1, <2>2, <2>3, <2>4 DEF ReduceInv
<1>7. CASE cur # Err
  <2>1. red' = [red EXCEPT ![cur].range = range]
    BY <1>7 DEF TakeTrans
  <2>2. Reads(range, list, pos)
    <3>1. Reads(red[cur].range, list, pos - 1)
      BY <1>1, <1>2, <1>7 DEF ReadInv
    <3>2. Reads(NewTrans(red[cur].range, list[(pos - 1) + 1]), list, (pos - 1) + 1)
      BY <1>4, <3>1, NewTransReads
    <3> QED BY <1>4, <3>2
  <2> DEFINE q == [red[cur] EXCEPT !.range = range]
  <2>3. red[cur] \in Reduced
    BY <1>1, <1>2 DEF TablesType
  <2>4. range \in Seq(ListEntries)
    BY <2>2 DEF Reads
  <2> HIDE DEF range
  <2>5. q \in Reduced /\ q.range = range /\ q.single = red[cur].single
    BY <2>3, <2>4 DEF Reduced
  <2>6. red' = [red EXCEPT ![cur] = q]
    BY <2>1
  <2> HIDE DEF q
  <2>7. /\ red' \in [States -> Reduced] /\ red'[cur] = q
        /\ \A z \in States : z # cur => red'[z] = red[z]
    BY <1>1, <1>2, <2>5, <2>6, RedChanged
  <2>8. TablesType'
    BY <1>1, <1>2, <1>3, <1>4, <2>7 DEF TablesType, Later
  <2>9. ErrEmpty'
    BY <1>2, <1>3, <1>7, <2>7 DEF ErrEmpty
  <2>10. ReadInv'
    <3>1. pos' - 1 <= Len(list) /\ pos' - 1 = pos
      BY <1>1, <1>4
    <3>2. \A s \in States : red'[s].single = <<>>
      BY <1>1, <1>2, <2>5, <2>7 DEF ReadInv
    <3>3. ASSUME NEW s \in States \ {Err}
          PROVE  /\ s < cur => Full(red'[s].range, machine[s].list)
                 /\ s = cur => Reads(red'[s].range, machine[s].list, pos' - 1)
                 /\ cur < s => red'[s].range = <<>>
      <4>1. CASE s = cur
        <5>1. ~ (s < cur) /\ ~ (cur < s)
          BY <1>5, <4>1
        <5> QED BY <2>2, <2>5, <2>7, <3>1, <4>1, <5>1
      <4>2. CASE s # cur
        <5>1. red'[s] = red[s]
          BY <2>7, <4>2
        <5> QED BY <1>2, <4>2, <5>1 DEF ReadInv
      <4> QED BY <4>1, <4>2
    <3> QED BY <1>1, <1>3, <3>1, <3>2, <3>3 DEF ReadInv
  <2> QED BY <1>1, <2>8, <2>9, <2>10 DEF ReduceInv
<1> QED BY <1>6, <1>7

LEMMA FinishStateStep ==
  ASSUME ReduceInv, FinishState
  PROVE  ReduceInv'
<1>1. /\ pc = "read" /\ pc' = pc /\ cur' = cur + 1 /\ pos' = 1 /\ machine' = machine
      /\ cur \in States /\ pos > Len(machine[cur].list)
  BY DEF FinishState
<1>2. TablesType /\ ErrEmpty /\ ReadInv
  BY <1>1 DEF ReduceInv
<1>3. States' = States
  BY <1>1 DEF States
<1> DEFINE list == machine[cur].list
           range == FinishTransList(red[cur].range)
<1>4. /\ list \in Seq(ListEntries) /\ Ordered(list) /\ Len(list) \in Nat
      /\ pos - 1 = Len(list)
  <2>1. list \in Seq(ListEntries) /\ Ordered(list) /\ Len(list) \in Nat
    BY <1>1, <1>2, MachineFacts, LenProperties
  <2>2. pos - 1 <= Len(list) /\ pos \in Nat
    BY <1>1, <1>2 DEF ReadInv, TablesType
  <2> QED BY <1>1, <2>1, <2>2
<1>5. Len(machine) \in Nat /\ States = 1 .. Len(machine)
  BY <1>2, MachineFacts
<1>6. /\ red' \in [States -> Reduced]
      /\ cur # Err => Full(red'[cur].range, list)
      /\ cur = Err => red'[cur] = red[cur]
      /\ red'[cur].single = red[cur].single
      /\ \A z \in States : z # cur => red'[z] = red[z]
  <2>1. CASE cur = Err
    <3>1. red' = red
      BY <2>1 DEF FinishState
    <3> QED BY <1>2, <2>1, <3>1 DEF TablesType
  <2>2. CASE cur # Err
    <3>1. red' = [red EXCEPT ![cur].range = range]
      BY <2>2 DEF FinishState
    <3>2. Full(range, list)
      <4>1. Reads(red[cur].range, list, Len(list))
        BY <1>1, <1>2, <1>4, <2>2 DEF ReadInv
      <4> QED BY <1>4, <4>1, FinishReads
    <3> DEFINE q == [red[cur] EXCEPT !.range = range]
    <3>3. red[cur] \in Reduced
      BY <1>1, <1>2 DEF TablesType
    <3>4. range \in Seq(ListEntries)
      BY <3>2 DEF Full
    <3> HIDE DEF range
    <3>5. q \in Reduced /\ q.range = range /\ q.single = red[cur].single
      BY <3>3, <3>4 DEF Reduced
    <3>6. red' = [red EXCEPT ![cur] = q]
      BY <3>1
    <3> HIDE DEF q
    <3>7. /\ red' \in [States -> Reduced] /\ red'[cur] = q
          /\ \A z \in States : z # cur => red'[z] = red[z]
      BY <1>1, <1>2, <3>5, <3>6, RedChanged
    <3> QED BY <2>2, <3>2, <3>5, <3>7
  <2> QED BY <2>1, <2>2
<1>7. cur' \in Nat \ {0} /\ pos' \in Nat \ {0}
  BY <1>1, <1>5
<1>8. TablesType'
  BY <1>1, <1>2, <1>3, <1>6, <1>7 DEF TablesType
<1>9. ErrEmpty'
  BY <1>2, <1>3, <1>6 DEF ErrEmpty
<1>10. ReadInv'
  <2>1. \A s \in States : red'[s].single = <<>>
    BY <1>1, <1>2, <1>6 DEF ReadInv
  <2>2. cur' \in States => pos' - 1 <= Len(machine[cur'].list)
    <3>1. cur' \in States => Len(machine[cur'].list) \in Nat
      BY <1>2, MachineFacts, LenProperties
    <3> QED BY <1>1, <3>1
  <2>3. ASSUME NEW s \in States \ {Err}
        PROVE  /\ s < cur + 1 => Full(red'[s].range, machine[s].list)
               /\ s = cur + 1 => Reads(red'[s].range, machine[s].list, 0)
               /\ cur + 1 < s => red'[s].range = <<>>
    <3>1. CASE s = cur
      <4>1. s # cur + 1 /\ ~ (cur + 1 < s)
        BY <1>5, <3>1
      <4> QED BY <1>6, <3>1, <4>1
    <3>2. CASE s # cur
      <4>1. red'[s] = red[s]
        BY <1>6, <3>2
      <4>2. s < cur + 1 => s < cur
        BY <1>1, <1>5, <3>2
      <4>3. s < cur + 1 => Full(red'[s].range, machine[s].list)
        BY <1>2, <4>1, <4>2 DEF ReadInv
      <4>4. s = cur + 1 \/ cur + 1 < s => cur < s
        BY <1>1, <1>5
      <4>5. s = cur + 1 \/ cur + 1 < s => red'[s].range = <<>>
        BY <1>2, <4>1, <4>4 DEF ReadInv
      <4>6. Reads(<<>>, machine[s].list, 0)
        <5>1. Ordered(<<>>) /\ <<>> \in Seq(ListEntries) /\ ~ (0 > 0)
          BY EmptySeq DEF Ordered
        <5> QED BY <5>1 DEF Reads
      <4> QED BY <4>3, <4>5, <4>6
    <3> QED BY <3>1, <3>2
  <2>4. pos' - 1 = 0
    BY <1>1
  <2> QED BY <1>1, <1>3, <2>1, <2>2, <2>3, <2>4 DEF ReadInv
<1> QED BY <1>1, <1>8, <1>9, <1>10 DEF ReduceInv

LEMMA DefaultsStep ==
  ASSUME ReduceInv, ChooseDefaults
  PROVE  ReduceInv'
<1>1. /\ pc = "read" /\ pc' = "default" /\ cur' = 1 /\ cur \notin States
      /\ machine' = machine /\ red' = red /\ pos' = pos
  BY DEF ChooseDefaults
<1>2. TablesType /\ ErrEmpty /\ ReadInv
  BY <1>1 DEF ReduceInv
<1>3. States' = States
  BY <1>1 DEF States
<1>4. Len(machine) \in Nat /\ States = 1 .. Len(machine) /\ cur \in Nat \ {0}
  BY <1>2, MachineFacts DEF TablesType
<1>5. \A s \in States \ {Err} : Full(red[s].range, machine[s].list)
  <2>1. \A s \in States : s < cur
    BY <1>1, <1>4
  <2> QED BY <1>2, <2>1 DEF ReadInv
<1>6. TablesType' /\ ErrEmpty'
  BY <1>1, <1>2, <1>3 DEF TablesType, ErrEmpty
<1>7. DefaultInv'
  BY <1>1, <1>2, <1>3, <1>5 DEF DefaultInv, ReadInv
<1>8. ASSUME NEW s \in States PROVE Kept(red[s], s)
  <2>1. red[s] \in Reduced /\ red[s].single = <<>> /\ (s = Err => red[s].range = <<>>)
    BY <1>2 DEF TablesType, ErrEmpty, ReadInv
  <2> QED BY <1>2, <1>5, <2>1, FullKept
<1>9. (\A s \in States : Kept(red[s], s))'
  BY <1>1, <1>3, <1>8 DEF Kept
<1> QED BY <1>1, <1>6, <1>7, <1>9 DEF ReduceInv

\* The keys of the default are those that were taken out.
LEMMA DefaultKept ==
  ASSUME TablesType, NEW s \in States, s # Err, NEW r \in Reduced, r.single = <<>>,
         Full(r.range, machine[s].list), NEW t \in Transitions, NEW q \in Reduced,
         q = [r EXCEPT !.range = MoveToDefault(r.range, t), !.def = t]
  PROVE  Kept(q, s)
<1> DEFINE list == machine[s].list
           rest == MoveToDefault(r.range, t)
<1>1. list \in Seq(ListEntries) /\ Ordered(list) /\ TopOf(list) \in Nat
  BY MachineFacts, TopType
<1>2. r.range \in Seq(ListEntries) /\ Ordered(r.range)
  BY DEF Full
<1>3. /\ rest \in Seq(ListEntries) /\ Ordered(rest)
      /\ \A j \in 1 .. Len(rest) : \E i \in 1 .. Len(r.range) : rest[j] = r.range[i] /\ r.range[i].t # t
      /\ \A i \in 1 .. Len(r.range) : r.range[i].t # t => \E j \in 1 .. Len(rest) : rest[j] = r.range[i]
  BY <1>2, DefaultMoved
<1> HIDE DEF rest
<1>4. q.range = rest /\ q.single = <<>> /\ q.def = t
  BY DEF Reduced, rest
<1>5. Len(q.single) = 0
  BY <1>4, EmptySeq
<1>6. Shape(q)
  BY <1>3, <1>4, <1>5 DEF Shape
<1>7. ASSUME NEW w \in 0 .. TopOf(list) PROVE Gives(q, w, Meant(list, w))
  <2>0. w \in Nat
    BY <1>1
  <2>1. PICK i \in 1 .. Len(r.range) : In(r.range[i], w) /\ r.range[i].t = Meant(list, w)
    BY DEF Full
  <2>2. ASSUME NEW j \in 1 .. Len(r.range), In(r.range[j], w) PROVE r.range[j].t = Meant(list, w)
    <3>1. Meant(r.range, w) = r.range[i].t /\ Meant(r.range, w) = r.range[j].t
      BY <1>2, <2>0, <2>1, <2>2, MeantListed
    <3> QED BY <2>1, <3>1
  <2>3. \A j \in 1 .. Len(rest) : In(rest[j], w) => rest[j].t = Meant(list, w)
    BY <1>3, <2>2
  <2>4. CASE Meant(list, w) = t
    BY <1>4, <1>5, <2>3, <2>4 DEF Gives
  <2>5. CASE Meant(list, w) # t
    <3>1. \E j \in 1 .. Len(rest) : In(rest[j], w)
      BY <1>3, <2>1, <2>5
    <3> QED BY <1>4, <1>5, <2>3, <3>1 DEF Gives
  <2> QED BY <2>4, <2>5
<1> QED BY <1>6, <1>7 DEF Kept

LEMMA ChooseDefaultStep ==
  ASSUME ReduceInv, ChooseDefault
  PROVE  ReduceInv'
<1>1. /\ pc = "default" /\ pc' = pc /\ cur' = cur + 1 /\ cur \in States
      /\ machine' = machine /\ pos' = pos
  BY DEF ChooseDefault
<1>2. /\ TablesType /\ ErrEmpty /\ DefaultInv /\ pc # "read"
      /\ \A s \in States : Kept(red[s], s)
  BY <1>1 DEF ReduceInv
<1>3. States' = States
  BY <1>1 DEF States
<1>4. Len(machine) \in Nat /\ States = 1 .. Len(machine) /\ cur \in Nat \ {0}
  BY <1>2, MachineFacts DEF TablesType
<1>5. red[cur] \in Reduced /\ red[cur].single = <<>> /\ red[cur].range \in Seq(ListEntries)
  BY <1>1, <1>2 DEF TablesType, DefaultInv, Reduced
<1>6. /\ red' \in [States -> Reduced] /\ Kept(red'[cur], cur)
      /\ red'[cur].single = <<>>
      /\ cur = Err => red'[cur] = red[cur]
      /\ \A z \in States : z # cur => red'[z] = red[z]
  <2>1. CASE ~ AlphabetCovered(red[cur].range)
    <3>1. red' = red
      BY <2>1 DEF ChooseDefault
    <3> QED BY <1>1, <1>2, <1>5, <3>1 DEF TablesType
  <2>2. CASE AlphabetCovered(red[cur].range)
    <3>1. cur # Err
      BY <1>1, <1>2, <2>2 DEF AlphabetCovered, ErrEmpty
    <3>2. PICK t \in ChooseDefaultSpan(red[cur].range) :
            red' = [red EXCEPT ![cur].range = MoveToDefault(@, t), ![cur].def = t]
      BY <2>2 DEF ChooseDefault
    <3>3. t \in Transitions
      <4>1. t \in {x.t : x \in Range(red[cur].range)}
        BY DEF ChooseDefaultSpan
      <4>2. Range(red[cur].range) = {red[cur].range[i] : i \in 1 .. Len(red[cur].range)}
        BY <1>5 DEF Range
      <4> QED BY <1>5, <4>1, <4>2, EntryFacts
    <3> DEFINE q == [red[cur] EXCEPT !.range = MoveToDefault(red[cur].range, t), !.def = t]
    <3>4. Full(red[cur].range, machine[cur].list)
      BY <1>1, <1>2, <1>4, <3>1 DEF DefaultInv
    <3>5. MoveToDefault(red[cur].range, t) \in Seq(ListEntries)
      BY <1>5, <3>4, DefaultMoved DEF Full
    <3>6. q \in Reduced /\ q.single = <<>>
      BY <1>5, <3>3, <3>5 DEF Reduced
    <3>7. Kept(q, cur)
      <4> DEFINE r == red[cur]
      <4>1. r \in Reduced /\ r.single = <<>> /\ Full(r.range, machine[cur].list)
        BY <1>5, <3>4
      <4> HIDE DEF r
      <4>2. [r EXCEPT !.range = MoveToDefault(r.range, t), !.def = t] = q
        BY DEF r
      <4> HIDE DEF q
      <4> QED BY <1>1, <1>2, <3>1, <3>3, <3>6, <4>1, <4>2, DefaultKept
    <3>8. red' = [red EXCEPT ![cur] = q]
      BY <1>5, <3>2 DEF Reduced
    <3> HIDE DEF q
    <3>9. /\ red' \in [States -> Reduced] /\ red'[cur] = q
          /\ \A z \in States : z # cur => red'[z] = red[z]
      BY <1>1, <1>2, <3>6, <3>8, RedChanged
    <3> QED BY <3>1, <3>6, <3>7, <3>9
  <2> QED BY <2>1, <2>2
<1>7. TablesType'
  BY <1>1, <1>2, <1>3, <1>4, <1>6 DEF TablesType
<1>8. ErrEmpty'
  BY <1>2, <1>3, <1>6 DEF ErrEmpty
<1>9. DefaultInv'
  <2>1. ASSUME NEW s \in States PROVE red'[s].single = <<>>
    BY <1>2, <1>6 DEF DefaultInv
  <2>2. ASSUME NEW s \in States \ {Err}, cur + 1 <= s
        PROVE  Full(red'[s].range, machine[s].list)
    <3>1. s # cur /\ cur <= s
      BY <1>4, <2>2
    <3> QED BY <1>2, <1>6, <3>1 DEF DefaultInv
  <2> QED BY <1>1, <1>2, <1>3, <2>1, <2>2 DEF DefaultInv
<1>10. \A s \in States : Kept(red'[s], s)
  BY <1>2, <1>6
<1>11. (\A s \in States : Kept(red[s], s))'
  BY <1>1, <1>3, <1>10 DEF Kept
<1> QED BY <1>1, <1>7, <1>8, <1>9, <1>11 DEF ReduceInv

LEMMA ChooseStyleStep ==
  ASSUME ReduceInv, ChooseStyle
  PROVE  ReduceInv'
<1>1. /\ pc = "default" /\ pc' \in {"write", "single"} /\ cur' = 1
      /\ machine' = machine /\ pos' = pos /\ red' = red
  BY DEF ChooseStyle
<1>2. /\ TablesType /\ ErrEmpty /\ DefaultInv
      /\ \A s \in States : Kept(red[s], s)
  BY <1>1 DEF ReduceInv
<1>3. States' = States
  BY <1>1 DEF States
<1>4. TablesType'
  BY <1>1, <1>2, <1>3 DEF TablesType, Later
<1>5. ErrEmpty'
  BY <1>1, <1>2, <1>3 DEF ErrEmpty
<1>6. SingleInv'
  <2>1. Len(<<>>) = 0
    BY EmptySeq
  <2>2. \A s \in States : red[s].single = <<>> /\ Len(red[s].single) = 0
    BY <1>2, <2>1 DEF DefaultInv
  <2>3. \A s \in States : Before(red[s], pos)
    BY <2>2 DEF Before
  <2> QED BY <1>1, <1>3, <2>2, <2>3 DEF SingleInv
<1>7. (\A s \in States : Kept(red[s], s))'
  BY <1>1, <1>2, <1>3 DEF Kept
<1> QED BY <1>1, <1>4, <1>5, <1>6, <1>7 DEF ReduceInv

LEMMA SingleStep ==
  ASSUME ReduceInv, MoveTransToSingle
  PROVE  ReduceInv'
<1> DEFINE r == red[cur]
<1>1. /\ pc = "single" /\ pc' = pc /\ cur \in States /\ machine' = machine
  BY DEF MoveTransToSingle
<1>2. /\ TablesType /\ ErrEmpty /\ SingleInv
      /\ \A s \in States : Kept(red[s], s)
  BY <1>1 DEF ReduceInv
<1>3. States' = States
  BY <1>1 DEF States
<1>4. /\ Len(machine) \in Nat /\ States = 1 .. Len(machine) /\ cur \in Nat \ {0}
      /\ pos \in Nat \ {0}
  BY <1>2, MachineFacts DEF TablesType
<1>5. Kept(r, cur) /\ Before(r, pos) /\ Shape(r)
  BY <1>1, <1>2 DEF SingleInv, Kept
<1>6. Len(r.range) \in Nat /\ r.range \in Seq(ListEntries)
  BY <1>5, ShapeFacts
<1>7. CASE pos > Len(r.range)
  <2>1. pos' = 1 /\ cur' = cur + 1 /\ red' = red
    BY <1>7 DEF MoveTransToSingle
  <2>2. TablesType'
    BY <1>1, <1>2, <1>3, <1>4, <2>1 DEF TablesType
  <2>3. ErrEmpty'
    BY <1>2, <1>3, <2>1 DEF ErrEmpty
  <2>4. ASSUME NEW s \in States
        PROVE  /\ s = cur + 1 => Before(red[s], 1)
               /\ cur + 1 < s => red[s].single = <<>>
    <3>1. s = cur + 1 \/ cur + 1 < s => cur < s
      BY <1>4
    <3>2. cur < s => Len(red[s].single) = 0 /\ red[s].single = <<>>
      BY <1>2, EmptySeq DEF SingleInv
    <3>3. cur < s => Before(red[s], 1)
      BY <3>2 DEF Before
    <3> QED BY <3>1, <3>2, <3>3
  <2>5. SingleInv'
    BY <1>3, <2>1, <2>4 DEF SingleInv
  <2>6. (\A s \in States : Kept(red[s], s))'
    BY <1>1, <1>2, <1>3, <2>1 DEF Kept
  <2> QED BY <1>1, <2>2, <2>3, <2>5, <2>6 DEF ReduceInv
<1>8. CASE ~ (pos > Len(r.range))
  <2>1. pos \in 1 .. Len(r.range)
    BY <1>4, <1>6, <1>8
  <2>2. cur' = cur
    BY <1>8 DEF MoveTransToSingle
  <2>3. cur # Err
    <3>1. cur = Err => Len(r.range) = 0
      BY <1>1, <1>2, EmptySeq DEF ErrEmpty
    <3> QED BY <2>1, <3>1
  \* The state the step makes of the current one, and the place it goes to.
  <2>4. \E q : /\ red' = [red EXCEPT ![cur] = q]
               /\ Shape(q) /\ Before(q, pos') /\ Kept(q, cur) /\ pos' \in Nat \ {0}
    <3>1. CASE CanExtend(r.range, pos)
      <4>1. red' = [red EXCEPT ![cur] = Extend(r, pos)] /\ pos' = pos
        BY <1>8, <3>1 DEF MoveTransToSingle
      <4>2. /\ Shape(Extend(r, pos)) /\ Before(Extend(r, pos), pos)
            /\ \A w \in Nat, t \in Transitions : Gives(r, w, t) => Gives(Extend(r, pos), w, t)
        <5> HIDE DEF r
        <5> QED BY <1>5, <2>1, <3>1, Extended
      <4>3. Kept(Extend(r, pos), cur)
        <5> DEFINE q == Extend(r, pos)
        <5> HIDE DEF r, q
        <5> QED BY <1>1, <1>2, <1>5, <4>2, KeptFrom DEF q
      <4> QED BY <1>4, <4>1, <4>2, <4>3
    <3>2. CASE ~ CanExtend(r.range, pos) /\ Span(r.range[pos]) = 1
      <4>1. red' = [red EXCEPT ![cur] = MoveToSingle(r, pos)] /\ pos' = pos
        BY <1>8, <3>2 DEF MoveTransToSingle
      <4>2. /\ Shape(MoveToSingle(r, pos)) /\ Before(MoveToSingle(r, pos), pos)
            /\ \A w \in Nat, t \in Transitions : Gives(r, w, t) => Gives(MoveToSingle(r, pos), w, t)
        <5> HIDE DEF r
        <5> QED BY <1>5, <2>1, <3>2, SingleMoved
      <4>3. Kept(MoveToSingle(r, pos), cur)
        <5> DEFINE q == MoveToSingle(r, pos)
        <5> HIDE DEF r, q
        <5> QED BY <1>1, <1>2, <1>5, <4>2, KeptFrom DEF q
      <4> QED BY <1>4, <4>1, <4>2, <4>3
    <3>3. CASE ~ CanExtend(r.range, pos) /\ Span(r.range[pos]) # 1
      <4>1. red' = red /\ pos' = pos + 1
        BY <1>8, <3>3 DEF MoveTransToSingle
      <4>2. red' = [red EXCEPT ![cur] = r]
        BY <1>1, <1>2, <4>1 DEF TablesType
      <4>3. Before(r, pos + 1)
        <5> SUFFICES ASSUME NEW i \in 1 .. Len(r.single), NEW j \in 1 .. Len(r.range), pos + 1 <= j
                     PROVE  r.single[i].lo < r.range[j].lo
          <6>1. \A j \in 1 .. Len(r.range) : pos + 1 < j \/ j = pos + 1 => pos + 1 <= j
            BY <1>4, <1>6
          <6> QED BY <6>1 DEF Before
        <5>1. pos < j
          BY <1>4, <1>6
        <5> QED BY <1>5, <5>1 DEF Before
      <4>4. pos' \in Nat \ {0}
        BY <1>4, <4>1
      <4> HIDE DEF r
      <4> QED BY <1>5, <4>1, <4>2, <4>3, <4>4
    <3> QED BY <3>1, <3>2, <3>3
  <2>5. PICK q : /\ red' = [red EXCEPT ![cur] = q]
                 /\ Shape(q) /\ Before(q, pos') /\ Kept(q, cur) /\ pos' \in Nat \ {0}
    BY <2>4
  <2>6. q \in Reduced
    BY <2>5 DEF Shape
  <2>7. /\ red' \in [States -> Reduced] /\ red'[cur] = q
        /\ \A z \in States : z # cur => red'[z] = red[z]
    BY <1>1, <1>2, <2>5, <2>6, RedChanged
  <2>8. TablesType'
    BY <1>1, <1>2, <1>3, <1>4, <2>2, <2>5, <2>7 DEF TablesType
  <2>9. ErrEmpty'
    BY <1>2, <1>3, <2>3, <2>7 DEF ErrEmpty
  <2>10. SingleInv'
    <3>1. ASSUME NEW s \in States
          PROVE  /\ s = cur => Before(red'[s], pos')
                 /\ cur < s => red'[s].single = <<>>
      <4>1. CASE s = cur
        <5>1. ~ (cur < s)
          BY <1>4, <4>1
        <5> QED BY <2>5, <2>7, <4>1, <5>1
      <4>2. CASE s # cur
        BY <1>2, <2>7, <4>2 DEF SingleInv
      <4> QED BY <4>1, <4>2
    <3> QED BY <1>3, <2>2, <3>1 DEF SingleInv
  <2>11. \A s \in States : Kept(red'[s], s)
    BY <1>2, <2>5, <2>7
  <2>12. (\A s \in States : Kept(red[s], s))'
    BY <1>1, <1>3, <2>11 DEF Kept
  <2> QED BY <1>1, <2>8, <2>9, <2>10, <2>12 DEF ReduceInv
<1> QED BY <1>7, <1>8

\* The steps that change none of the reduced states.
LEMMA QuietStep ==
  ASSUME ReduceInv, UNCHANGED <<machine, red, cur, pos>>,
         pc' \in {"read", "default", "single"} \cup Later,
         pc' # pc => pc # "read" /\ pc' \in Later
  PROVE  ReduceInv'
<1>1. States' = States
  BY DEF States
<1>2. TablesType' /\ ErrEmpty'
  BY <1>1 DEF ReduceInv, TablesType, ErrEmpty
<1>3. /\ ReadInv => ReadInv'
      /\ DefaultInv => DefaultInv'
      /\ SingleInv => SingleInv'
  BY <1>1 DEF ReadInv, DefaultInv, SingleInv
<1>4. (\A s \in States : Kept(red[s], s)) => (\A s \in States : Kept(red[s], s))'
  BY <1>1 DEF Kept
<1>5. pc' # pc => pc' \notin {"read", "default", "single"}
  BY DEF Later
<1>6. pc' = pc => ReduceInv'
  BY <1>2, <1>3, <1>4 DEF ReduceInv
<1>7. pc' # pc => ReduceInv'
  BY <1>2, <1>4, <1>5 DEF ReduceInv
<1> QED BY <1>6, <1>7

LEMMA NextReduced ==
  ReduceInv /\ [Next]_vars => ReduceInv'
<1> SUFFICES ASSUME ReduceInv, [Next]_vars PROVE ReduceInv'
  OBVIOUS
<1>1. TablesType
  BY DEF ReduceInv
<1>2. CASE pc \in Later
  <2>1. UNCHANGED <<machine, red, cur, pos>> /\ pc' \in Later
    BY <1>1, <1>2, LaterSteps
  <2>2. pc # "read"
    BY <1>2 DEF Later
  <2> QED BY <2>1, <2>2, QuietStep
<1>3. CASE pc \notin Later
  <2>1. CASE SetEofTrans
    <3>1. UNCHANGED <<machine, red, cur, pos, pc>>
      BY <2>1 DEF SetEofTrans
    <3> QED BY <1>1, <3>1, QuietStep DEF TablesType
  <2>2. CASE SinglesMoved
    <3>1. UNCHANGED <<machine, red, cur, pos>> /\ pc = "single" /\ pc' = "write"
      BY <2>2 DEF SinglesMoved, builder
    <3> QED BY <3>1, QuietStep DEF Later
  <2>3. CASE UNCHANGED vars
    <3>1. UNCHANGED <<machine, red, cur, pos, pc>>
      BY <2>3 DEF vars, builder
    <3> QED BY <1>1, <3>1, QuietStep DEF TablesType
  <2>4. CASE WriteData \/ Ask \/ Lookup
    <3>1. pc \in Later
      BY <2>4 DEF Later, WriteData, Ask, Lookup, FindEofTrans, TabAsked, SearchConds, SearchCond,
           CondsSearched, SearchSingles, SearchSingle, SearchRanges, SearchRange, TakeDefault,
           FlatLookup, EnterCondTests, TestCond, Switch, TestRange
    <3> QED BY <1>3, <3>1
  <2> QED BY <2>1, <2>2, <2>3, <2>4, ReadTransStep, FinishStateStep, DefaultsStep,
             ChooseDefaultStep, ChooseStyleStep, SingleStep DEF Next, Build
<1> QED BY <1>2, <1>3

\* The invariant of the reduction.
LEMMA Reduced_always == Spec => []ReduceInv
<1> QED BY InitReduced, NextReduced, PTL DEF Spec

\* However the lists of the machine are, a completed and reduced list says of
\* every key of the alphabet, and as far as the list goes, what the machine
\* says (redfsm.cpp, moveToDefault and moveTransToSingle).
THEOREM TablesMeaningKept == Spec => []MeaningKept
<1>1. ReduceInv => MeaningKept
  <2> SUFFICES ASSUME ReduceInv, pc # "read", NEW s \in States \ {Err}, NEW w \in 0 .. Top(s)
               PROVE  Says(red[s], w) = {Meant(machine[s].list, w)}
    BY DEF MeaningKept
  <2> DEFINE list == machine[s].list
  <2>1. TablesType /\ Kept(red[s], s)
    BY DEF ReduceInv
  <2>2. list \in Seq(ListEntries) /\ TopOf(list) \in Nat /\ Top(s) = TopOf(list)
    BY <2>1, MachineFacts, TopType DEF Top, TopOf
  <2>3. w \in Nat /\ Gives(red[s], w, Meant(list, w))
    BY <2>1, <2>2 DEF Kept
  <2>4. red[s].single \in Seq(ListEntries) /\ red[s].range \in Seq(ListEntries)
    BY <2>1, ShapeFacts DEF Kept
  <2> QED BY <2>3, <2>4, SaysWhatItGives
<1> QED BY <1>1, Reduced_always, PTL

\* The binary searches find their keys in order: those of the singles, which
\* are appended as the ranges are walked, and those of the ranges, one of which
\* grows as it takes in others (redfsm.cpp, moveTransToSingle).
THEOREM TablesKeysSorted == Spec => []KeysSorted
<1>1. ReduceInv => KeysSorted
  <2> SUFFICES ASSUME ReduceInv, pc \in {"write", "ready"}, NEW s \in States
               PROVE  /\ \A i \in 2 .. Len(red[s].single) : red[s].single[i - 1].lo < red[s].single[i].lo
                      /\ \A i \in 2 .. Len(red[s].range) : red[s].range[i - 1].hi < red[s].range[i].lo
    BY DEF KeysSorted
  <2>1. Shape(red[s])
    BY DEF ReduceInv, Kept
  <2>2. Len(red[s].single) \in Nat /\ Len(red[s].range) \in Nat
    BY <2>1, ShapeFacts
  <2>3. \A i \in 2 .. Len(red[s].single) : i - 1 \in 1 .. Len(red[s].single) /\ i \in 1 .. Len(red[s].single) /\ i - 1 < i
    BY <2>2
  <2>4. \A i \in 2 .. Len(red[s].range) : i - 1 \in 1 .. Len(red[s].range) /\ i \in 1 .. Len(red[s].range) /\ i - 1 < i
    BY <2>2
  <2> QED BY <2>1, <2>3, <2>4 DEF Shape, Ordered
<1> QED BY <1>1, Reduced_always, PTL

-----------------------------------------------------------------------------
(* The searches of the table styles: every offset is what has been written *)
(* before it.                                                              *)

\* A function on the places is a sequence.
LEMMA SequenceOf ==
  ASSUME NEW X, NEW n \in Nat, NEW f \in [1 .. n -> X]
  PROVE  f \in Seq(X) /\ Len(f) = n
<1>1. f \in Seq(X)
  BY SeqDef
<1>2. DOMAIN f = 1 .. n /\ DOMAIN f = 1 .. Len(f) /\ Len(f) \in Nat
  BY <1>1, LenProperties
<1>3. \A m \in Nat : 1 .. m = 1 .. n => m = n
  <2> SUFFICES ASSUME NEW m \in Nat, 1 .. m = 1 .. n PROVE m = n
    OBVIOUS
  <2>1. m # 0 => m \in 1 .. n
    OBVIOUS
  <2>2. n # 0 => n \in 1 .. m
    OBVIOUS
  <2> QED BY <2>1, <2>2
<1> QED BY <1>1, <1>2, <1>3

\* The two keys of each entry.
LEMMA BoundsLength ==
  ASSUME NEW X, NEW seq \in Seq(X), \A i \in 1 .. Len(seq) : seq[i].lo \in Nat /\ seq[i].hi \in Nat
  PROVE  Bounds(seq) \in Seq(Nat) /\ Len(Bounds(seq)) = 2 * Len(seq)
<1> DEFINE n == Len(seq)
           V == Seq(Nat)
           each == Each(seq, LAMBDA x : <<x.lo, x.hi>>)
           body(g, i) == IF i = 0 THEN <<>> ELSE g[i - 1] \o each[i]
           f == CHOOSE g : g = [i \in 0 .. n |-> body(g, i)]
           step == [v \in V \X (1 .. n) |-> v[1] \o each[v[2]]]
<1>1. n \in Nat /\ each = [i \in 1 .. n |-> <<seq[i].lo, seq[i].hi>>]
  BY LenProperties DEF Each
<1>2. Len(each) = n /\ \A i \in 1 .. n : each[i] \in V /\ Len(each[i]) = 2
  <2>1. ASSUME NEW i \in 1 .. n PROVE each[i] \in V /\ Len(each[i]) = 2
    <3>1. each[i] = <<seq[i].lo, seq[i].hi>> /\ seq[i].lo \in Nat /\ seq[i].hi \in Nat
      BY <1>1
    <3>2. \A a, b \in Nat : <<a, b>> \in V /\ Len(<<a, b>>) = 2
      OBVIOUS
    <3> QED BY <3>1, <3>2
  <2>2. each \in [1 .. n -> V]
    <3> DEFINE b(i) == <<seq[i].lo, seq[i].hi>>
    <3>1. each = [i \in 1 .. n |-> b(i)]
      BY <1>1
    <3>2. \A i \in 1 .. n : each[i] \in V
      BY <2>1
    <3> HIDE DEF b, V, each
    <3> QED BY <3>1, <3>2
  <2> HIDE DEF each, V, n
  <2> QED BY <1>1, <2>1, <2>2, SequenceOf
<1> HIDE DEF each
<1>3. Bounds(seq) = f[n]
  BY <1>2 DEF Bounds, Flattened, Folded, each
<1>4. <<>> \in V
  BY EmptySeq
<1>5. step \in [V \X (1 .. n) -> V]
  <2> SUFFICES ASSUME NEW v \in V, NEW i \in 1 .. n PROVE v \o each[i] \in V
    OBVIOUS
  <2> QED BY <1>2, ConcatProperties
<1>6. PICK g \in [0 .. n -> V] : Steps(g, n, <<>>, step)
  <2> HIDE DEF step, V, n
  <2> QED BY <1>1, <1>4, <1>5, StepsExist
<1>7. g = [i \in 0 .. n |-> body(g, i)]
  <2>1. ASSUME NEW i \in 0 .. n PROVE g[i] = body(g, i)
    <3>1. CASE i = 0
      BY <1>6, <3>1 DEF Steps
    <3>2. CASE i # 0
      <4>1. i \in 1 .. n /\ i - 1 \in 0 .. n
        BY <1>1, <3>2
      <4>2. <<g[i - 1], i>> \in V \X (1 .. n)
        BY <4>1
      <4>3. g[i] = step[<<g[i - 1], i>>]
        BY <1>6, <4>1 DEF Steps
      <4> QED BY <3>2, <4>2, <4>3
    <3> QED BY <3>1, <3>2
  <2>2. g = [i \in 0 .. n |-> g[i]]
    OBVIOUS
  <2> HIDE DEF body
  <2> QED BY <2>1, <2>2
<1>8. f = [i \in 0 .. n |-> body(f, i)]
  <2> HIDE DEF body
  <2> QED BY <1>7
<1> HIDE DEF f
<1>9. f[0] = <<>> /\ \A i \in 1 .. n : f[i] = f[i - 1] \o each[i]
  <2>1. \A i \in 0 .. n : f[i] = body(f, i)
    <3> HIDE DEF body
    <3> QED BY <1>8
  <2>2. 0 \in 0 .. n /\ \A i \in 1 .. n : i \in 0 .. n /\ i # 0
    BY <1>1
  <2> QED BY <2>1, <2>2
<1> DEFINE S == {k \in Nat : k <= n => f[k] \in V /\ Len(f[k]) = 2 * k}
<1>10. 0 \in S
  <2>1. f[0] \in V /\ Len(f[0]) = 0 /\ 2 * 0 = 0
    BY <1>4, <1>9, EmptySeq
  <2> QED BY <2>1
<1>11. ASSUME NEW k \in Nat, k \in S PROVE k + 1 \in S
  <2> SUFFICES ASSUME k + 1 <= n PROVE f[k + 1] \in V /\ Len(f[k + 1]) = 2 * (k + 1)
    OBVIOUS
  <2>1. k + 1 \in 1 .. n /\ (k + 1) - 1 = k /\ k <= n
    BY <1>1
  <2>2. f[k] \in V /\ Len(f[k]) = 2 * k
    BY <1>11, <2>1
  <2>3. f[k + 1] = f[k] \o each[k + 1]
    BY <1>9, <2>1
  <2>4. each[k + 1] \in V /\ Len(each[k + 1]) = 2
    BY <1>2, <2>1
  <2>5. ASSUME NEW a \in Seq(Nat), NEW b \in Seq(Nat), Len(a) = 2 * k, Len(b) = 2
        PROVE  a \o b \in Seq(Nat) /\ Len(a \o b) = 2 * k + 2
    <3>1. a \o b \in Seq(Nat) /\ Len(a \o b) = Len(a) + Len(b)
      BY ConcatProperties
    <3> QED BY <2>5, <3>1
  <2>6. 2 * k + 2 = 2 * (k + 1)
    OBVIOUS
  <2>7. f[k] \o each[k + 1] \in V /\ Len(f[k] \o each[k + 1]) = 2 * k + 2
    BY <2>2, <2>4, <2>5
  <2> QED BY <2>3, <2>6, <2>7
<1>12. Nat \subseteq S
  <2> HIDE DEF S
  <2> QED BY <1>10, <1>11, Induction
<1> QED BY <1>1, <1>3, <1>12

\* A fold that writes one part after the other, and one that adds sizes.
IsConcat(f, n, part) == f[0] = <<>> /\ \A i \in 1 .. n : f[i] = f[i - 1] \o part[i]

IsSum(f, n, size) == f[0] = 0 /\ \A i \in 1 .. n : f[i] = f[i - 1] + size[i]

LEMMA ConcatExists ==
  ASSUME NEW n \in Nat, NEW part, \A i \in 1 .. n : part[i] \in Seq(Nat)
  PROVE  \E f : /\ f = [i \in 0 .. n |-> IF i = 0 THEN <<>> ELSE f[i - 1] \o part[i]]
               /\ IsConcat(f, n, part)
<1> DEFINE V == Seq(Nat)
           step == [v \in V \X (1 .. n) |-> v[1] \o part[v[2]]]
<1>1. step \in [V \X (1 .. n) -> V]
  <2> SUFFICES ASSUME NEW v \in V, NEW i \in 1 .. n PROVE v \o part[i] \in V
    OBVIOUS
  <2> QED BY ConcatProperties
<1>2. <<>> \in V
  BY EmptySeq
<1>3. PICK f \in [0 .. n -> V] : Steps(f, n, <<>>, step)
  <2> HIDE DEF step, V
  <2> QED BY <1>1, <1>2, StepsExist
<1>4. IsConcat(f, n, part)
  <2>1. ASSUME NEW i \in 1 .. n PROVE f[i] = f[i - 1] \o part[i]
    <3>1. f[i - 1] \in V /\ <<f[i - 1], i>> \in V \X (1 .. n)
      OBVIOUS
    <3> QED BY <1>3, <3>1 DEF Steps
  <2> QED BY <1>3, <2>1 DEF Steps, IsConcat
<1>5. f = [i \in 0 .. n |-> IF i = 0 THEN <<>> ELSE f[i - 1] \o part[i]]
  <2> DEFINE body(i) == IF i = 0 THEN <<>> ELSE f[i - 1] \o part[i]
  <2>1. \A i \in 0 .. n : f[i] = body(i)
    <3>1. \A i \in 0 .. n : i = 0 \/ (i # 0 /\ i \in 1 .. n)
      OBVIOUS
    <3> QED BY <1>4, <3>1 DEF IsConcat
  <2>2. f = [i \in 0 .. n |-> f[i]]
    OBVIOUS
  <2> HIDE DEF body
  <2>3. f = [i \in 0 .. n |-> body(i)]
    BY <2>1, <2>2
  <2> QED BY <2>3 DEF body
<1> QED BY <1>4, <1>5

LEMMA SumExists ==
  ASSUME NEW n \in Nat, NEW size, \A i \in 1 .. n : size[i] \in Nat
  PROVE  \E f : /\ f = [i \in 0 .. n |-> IF i = 0 THEN 0 ELSE f[i - 1] + size[i]]
               /\ IsSum(f, n, size)
<1> DEFINE step == [v \in Nat \X (1 .. n) |-> v[1] + size[v[2]]]
<1>1. step \in [Nat \X (1 .. n) -> Nat]
  OBVIOUS
<1>2. PICK f \in [0 .. n -> Nat] : Steps(f, n, 0, step)
  <2> HIDE DEF step
  <2> QED BY <1>1, StepsExist
<1>3. IsSum(f, n, size)
  <2>1. ASSUME NEW i \in 1 .. n PROVE f[i] = f[i - 1] + size[i]
    <3>1. f[i - 1] \in Nat /\ <<f[i - 1], i>> \in Nat \X (1 .. n)
      OBVIOUS
    <3> QED BY <1>2, <3>1 DEF Steps
  <2> QED BY <1>2, <2>1 DEF Steps, IsSum
<1>4. f = [i \in 0 .. n |-> IF i = 0 THEN 0 ELSE f[i - 1] + size[i]]
  <2> DEFINE body(i) == IF i = 0 THEN 0 ELSE f[i - 1] + size[i]
  <2>1. \A i \in 0 .. n : f[i] = body(i)
    <3>1. \A i \in 0 .. n : i = 0 \/ (i # 0 /\ i \in 1 .. n)
      OBVIOUS
    <3> QED BY <1>3, <3>1 DEF IsSum
  <2>2. f = [i \in 0 .. n |-> f[i]]
    OBVIOUS
  <2> HIDE DEF body
  <2>3. f = [i \in 0 .. n |-> body(i)]
    BY <2>1, <2>2
  <2> QED BY <2>3 DEF body
<1> QED BY <1>3, <1>4

\* What has been written is as long as the sizes add up to.
LEMMA ConcatLength ==
  ASSUME NEW n \in Nat, NEW part, NEW size, NEW f, NEW g, NEW c \in {1, 2},
         \A i \in 1 .. n : /\ part[i] \in Seq(Nat) /\ size[i] \in Nat
                           /\ Len(part[i]) = c * size[i],
         IsConcat(f, n, part), IsSum(g, n, size)
  PROVE  f[n] \in Seq(Nat) /\ g[n] \in Nat /\ Len(f[n]) = c * g[n]
<1> DEFINE S == {k \in Nat : k <= n => f[k] \in Seq(Nat) /\ g[k] \in Nat /\ Len(f[k]) = c * g[k]}
<1>1. 0 \in S
  <2>1. f[0] = <<>> /\ g[0] = 0
    BY DEF IsConcat, IsSum
  <2>2. c * 0 = 0
    <3>1. CASE c = 1
      BY <3>1
    <3>2. CASE c = 2
      BY <3>2
    <3> QED BY <3>1, <3>2
  <2>3. f[0] \in Seq(Nat) /\ Len(f[0]) = 0
    BY <2>1, EmptySeq
  <2>4. g[0] \in Nat /\ Len(f[0]) = c * g[0]
    BY <2>1, <2>2, <2>3
  <2> QED BY <2>3, <2>4
<1>2. ASSUME NEW k \in Nat, k \in S PROVE k + 1 \in S
  <2> SUFFICES ASSUME k + 1 <= n
               PROVE  f[k + 1] \in Seq(Nat) /\ g[k + 1] \in Nat /\ Len(f[k + 1]) = c * g[k + 1]
    OBVIOUS
  <2>1. k + 1 \in 1 .. n /\ (k + 1) - 1 = k /\ k <= n
    OBVIOUS
  <2>2. f[k] \in Seq(Nat) /\ g[k] \in Nat /\ Len(f[k]) = c * g[k]
    BY <1>2, <2>1
  <2>3. f[k + 1] = f[k] \o part[k + 1] /\ g[k + 1] = g[k] + size[k + 1]
    BY <2>1 DEF IsConcat, IsSum
  <2>4. part[k + 1] \in Seq(Nat) /\ size[k + 1] \in Nat /\ Len(part[k + 1]) = c * size[k + 1]
    BY <2>1
  <2>5. \A a, b \in Seq(Nat) : a \o b \in Seq(Nat) /\ Len(a \o b) = Len(a) + Len(b)
    BY ConcatProperties
  <2>6. f[k + 1] \in Seq(Nat) /\ Len(f[k + 1]) = Len(f[k]) + Len(part[k + 1])
    BY <2>2, <2>3, <2>4, <2>5
  <2>7. CASE c = 1
    BY <2>2, <2>3, <2>4, <2>6, <2>7
  <2>8. CASE c = 2
    BY <2>2, <2>3, <2>4, <2>6, <2>8
  <2> QED BY <2>7, <2>8
<1>3. Nat \subseteq S
  <2> HIDE DEF S
  <2> QED BY <1>1, <1>2, Induction
<1> QED BY <1>3

\* The keys of the conditions of some states, and how many conditions there are.
LEMMA CondsLength ==
  ASSUME NEW q \in Seq(Reduced)
  PROVE  /\ Folded(LAMBDA n, st : n + Len(st.conds), 0, q) \in Nat
         /\ Len(Written(q, LAMBDA r : Bounds(r.conds)))
              = 2 * Folded(LAMBDA n, st : n + Len(st.conds), 0, q)
<1> DEFINE n == Len(q)
           part == [i \in 1 .. n |-> Bounds(q[i].conds)]
           size == [i \in 1 .. n |-> Len(q[i].conds)]
           pb(h, i) == IF i = 0 THEN <<>> ELSE h[i - 1] \o Bounds(q[i].conds)
           sb(h, i) == IF i = 0 THEN 0 ELSE h[i - 1] + Len(q[i].conds)
           f == CHOOSE h : h = [i \in 0 .. n |-> pb(h, i)]
           g == CHOOSE h : h = [i \in 0 .. n |-> sb(h, i)]
<1>1. n \in Nat
  BY LenProperties
<1>2. ASSUME NEW i \in 1 .. n
      PROVE  /\ Bounds(q[i].conds) \in Seq(Nat) /\ Len(q[i].conds) \in Nat
             /\ Len(Bounds(q[i].conds)) = 2 * Len(q[i].conds)
  <2>0. q[i] \in Reduced
    BY ElementOfSeq
  <2>1. q[i].conds \in Seq(CondRanges)
    BY <2>0 DEF Reduced
  <2>2. \A j \in 1 .. Len(q[i].conds) : q[i].conds[j] \in CondRanges
    BY <2>1, ElementOfSeq
  <2>3. \A j \in 1 .. Len(q[i].conds) : q[i].conds[j].lo \in Nat /\ q[i].conds[j].hi \in Nat
    BY <2>2 DEF CondRanges
  <2> QED BY <2>1, <2>3, BoundsLength, LenProperties
<1>3. /\ \A i \in 1 .. n : part[i] = Bounds(q[i].conds) /\ size[i] = Len(q[i].conds)
  OBVIOUS
<1> HIDE DEF part, size
<1>4. Written(q, LAMBDA r : Bounds(r.conds)) = f[n]
  BY DEF Written, Folded
<1>5. Folded(LAMBDA m, st : m + Len(st.conds), 0, q) = g[n]
  BY DEF Folded
<1>6. \E h : h = [i \in 0 .. n |-> pb(h, i)]
  <2>0. \A i \in 1 .. n : part[i] \in Seq(Nat)
    BY <1>2, <1>3
  <2>1. PICK h : /\ h = [i \in 0 .. n |-> IF i = 0 THEN <<>> ELSE h[i - 1] \o part[i]]
                 /\ IsConcat(h, n, part)
    <3> HIDE DEF n
    <3> QED BY <1>1, <2>0, ConcatExists
  <2> DEFINE b(i) == IF i = 0 THEN <<>> ELSE h[i - 1] \o part[i]
  <2>2. \A i \in 0 .. n : b(i) = pb(h, i)
    <3>1. ASSUME NEW i \in 0 .. n, i # 0 PROVE b(i) = pb(h, i)
      <4>1. i \in 1 .. n
        BY <1>1, <3>1
      <4>2. part[i] = Bounds(q[i].conds)
        BY <1>3, <4>1
      <4> QED BY <3>1, <4>2
    <3>2. b(0) = pb(h, 0)
      OBVIOUS
    <3> HIDE DEF b, pb, n
    <3> QED BY <3>1, <3>2
  <2> HIDE DEF b, pb
  <2>3. h = [i \in 0 .. n |-> b(i)]
    BY <2>1 DEF b
  <2> QED BY <2>2, <2>3
<1>7. \E h : h = [i \in 0 .. n |-> sb(h, i)]
  <2>0. \A i \in 1 .. n : size[i] \in Nat
    BY <1>1, <1>2, <1>3
  <2>1. PICK h : /\ h = [i \in 0 .. n |-> IF i = 0 THEN 0 ELSE h[i - 1] + size[i]]
                 /\ IsSum(h, n, size)
    <3> HIDE DEF n
    <3> QED BY <1>1, <2>0, SumExists
  <2> DEFINE b(i) == IF i = 0 THEN 0 ELSE h[i - 1] + size[i]
  <2>2. \A i \in 0 .. n : b(i) = sb(h, i)
    <3>1. ASSUME NEW i \in 0 .. n, i # 0 PROVE b(i) = sb(h, i)
      <4>1. i \in 1 .. n
        BY <1>1, <3>1
      <4>2. size[i] = Len(q[i].conds)
        BY <1>3, <4>1
      <4> QED BY <3>1, <4>2
    <3>2. b(0) = sb(h, 0)
      OBVIOUS
    <3> HIDE DEF b, sb, n
    <3> QED BY <3>1, <3>2
  <2> HIDE DEF b, sb
  <2>3. h = [i \in 0 .. n |-> b(i)]
    BY <2>1 DEF b
  <2> QED BY <2>2, <2>3
<1>8. f = [i \in 0 .. n |-> pb(f, i)] /\ g = [i \in 0 .. n |-> sb(g, i)]
  <2> HIDE DEF pb, sb
  <2> QED BY <1>6, <1>7
<1> HIDE DEF f, g
<1>9. \A i \in 0 .. n : f[i] = pb(f, i) /\ g[i] = sb(g, i)
  <2> HIDE DEF pb, sb
  <2> QED BY <1>8
<1>10. IsConcat(f, n, part) /\ IsSum(g, n, size)
  <2>1. 0 \in 0 .. n /\ \A i \in 1 .. n : i \in 0 .. n /\ i # 0
    BY <1>1
  <2> QED BY <1>3, <1>9, <2>1 DEF IsConcat, IsSum
<1>11. f[n] \in Seq(Nat) /\ g[n] \in Nat /\ Len(f[n]) = 2 * g[n]
  <2>1. \A i \in 1 .. n : part[i] \in Seq(Nat) /\ size[i] \in Nat /\ Len(part[i]) = 2 * size[i]
    BY <1>2, <1>3
  <2> HIDE DEF n
  <2> QED BY <1>1, <1>10, <2>1, ConcatLength
<1> QED BY <1>4, <1>5, <1>11

\* The keys of the singles, each once, and the two of each range.
LEMMA KeysInLength ==
  ASSUME NEW r \in Reduced
  PROVE  /\ KeysIn(r) \in Seq(Nat)
         /\ Len(r.single) + 2 * Len(r.range) \in Nat
         /\ Len(KeysIn(r)) = Len(r.single) + 2 * Len(r.range)
<1> DEFINE each == Each(r.single, LAMBDA x : x.lo)
           n == Len(r.single)
<1>1. /\ r.single \in Seq(ListEntries) /\ n \in Nat
      /\ r.range \in Seq(ListEntries) /\ Len(r.range) \in Nat
  BY LenProperties DEF Reduced
<1>2. each \in Seq(Nat) /\ Len(each) = n
  <2>1. each = [i \in 1 .. n |-> r.single[i].lo]
    BY DEF Each
  <2>2. \A i \in 1 .. n : r.single[i].lo \in Nat
    <3>1. \A i \in 1 .. n : r.single[i] \in ListEntries
      BY <1>1, ElementOfSeq
    <3> QED BY <3>1 DEF ListEntries
  <2> DEFINE b(i) == r.single[i].lo
  <2>3. each = [i \in 1 .. n |-> b(i)] /\ \A i \in 1 .. n : b(i) \in Nat
    BY <2>1, <2>2
  <2> HIDE DEF b, each, n
  <2>4. each \in [1 .. n -> Nat]
    BY <2>3
  <2> QED BY <1>1, <2>4, SequenceOf
<1>3. Bounds(r.range) \in Seq(Nat) /\ Len(Bounds(r.range)) = 2 * Len(r.range)
  <2>1. \A i \in 1 .. Len(r.range) : r.range[i] \in ListEntries
    BY <1>1, ElementOfSeq
  <2>2. \A i \in 1 .. Len(r.range) : r.range[i].lo \in Nat /\ r.range[i].hi \in Nat
    BY <2>1 DEF ListEntries
  <2> QED BY <1>1, <2>2, BoundsLength
<1>4. KeysIn(r) = each \o Bounds(r.range)
  BY DEF KeysIn
<1> HIDE DEF each
<1>5. each \o Bounds(r.range) \in Seq(Nat)
      /\ Len(each \o Bounds(r.range)) = Len(each) + Len(Bounds(r.range))
  BY <1>2, <1>3, ConcatProperties
<1>6. KeysIn(r) \in Seq(Nat) /\ Len(KeysIn(r)) = n + 2 * Len(r.range)
  BY <1>2, <1>3, <1>4, <1>5
<1>7. n + 2 * Len(r.range) \in Nat
  <2>1. \A a, b \in Nat : a + 2 * b \in Nat
    OBVIOUS
  <2> HIDE DEF n
  <2> QED BY <1>1, <2>1
<1> QED BY <1>6, <1>7

\* The keys of some states, and how many there are.
LEMMA KeysLength ==
  ASSUME NEW q \in Seq(Reduced)
  PROVE  /\ Folded(LAMBDA n, st : n + (Len(st.single) + 2 * Len(st.range)), 0, q) \in Nat
         /\ Len(Written(q, KeysIn))
              = Folded(LAMBDA n, st : n + (Len(st.single) + 2 * Len(st.range)), 0, q)
<1> DEFINE n == Len(q)
           part == [i \in 1 .. n |-> KeysIn(q[i])]
           size == [i \in 1 .. n |-> Len(q[i].single) + 2 * Len(q[i].range)]
           pb(h, i) == IF i = 0 THEN <<>> ELSE h[i - 1] \o KeysIn(q[i])
           sb(h, i) == IF i = 0 THEN 0 ELSE h[i - 1] + (Len(q[i].single) + 2 * Len(q[i].range))
           f == CHOOSE h : h = [i \in 0 .. n |-> pb(h, i)]
           g == CHOOSE h : h = [i \in 0 .. n |-> sb(h, i)]
<1>1. n \in Nat
  BY LenProperties
<1>2. ASSUME NEW i \in 1 .. n
      PROVE  /\ KeysIn(q[i]) \in Seq(Nat) /\ Len(q[i].single) + 2 * Len(q[i].range) \in Nat
             /\ Len(KeysIn(q[i])) = Len(q[i].single) + 2 * Len(q[i].range)
  BY ElementOfSeq, KeysInLength
<1>3. \A i \in 1 .. n : part[i] = KeysIn(q[i])
  OBVIOUS
<1>0. \A i \in 1 .. n : size[i] = Len(q[i].single) + 2 * Len(q[i].range)
  OBVIOUS
<1> HIDE DEF part, size
<1>4. Written(q, KeysIn) = f[n]
  BY DEF Written, Folded
<1>5. Folded(LAMBDA m, st : m + (Len(st.single) + 2 * Len(st.range)), 0, q) = g[n]
  BY DEF Folded
<1>6. \E h : h = [i \in 0 .. n |-> pb(h, i)]
  <2>0. \A i \in 1 .. n : part[i] \in Seq(Nat)
    BY <1>2, <1>3
  <2>1. PICK h : /\ h = [i \in 0 .. n |-> IF i = 0 THEN <<>> ELSE h[i - 1] \o part[i]]
                 /\ IsConcat(h, n, part)
    <3> HIDE DEF n
    <3> QED BY <1>1, <2>0, ConcatExists
  <2> DEFINE b(i) == IF i = 0 THEN <<>> ELSE h[i - 1] \o part[i]
  <2>2. \A i \in 0 .. n : b(i) = pb(h, i)
    <3>1. ASSUME NEW i \in 0 .. n, i # 0 PROVE b(i) = pb(h, i)
      <4>1. i \in 1 .. n
        BY <1>1, <3>1
      <4>2. part[i] = KeysIn(q[i])
        BY <1>3, <4>1
      <4> QED BY <3>1, <4>2
    <3>2. b(0) = pb(h, 0)
      OBVIOUS
    <3> HIDE DEF b, pb, n
    <3> QED BY <3>1, <3>2
  <2> HIDE DEF b, pb
  <2>3. h = [i \in 0 .. n |-> b(i)]
    BY <2>1 DEF b
  <2> QED BY <2>2, <2>3
<1>7. \E h : h = [i \in 0 .. n |-> sb(h, i)]
  <2>0. \A i \in 1 .. n : size[i] \in Nat
    BY <1>0, <1>1, <1>2
  <2>1. PICK h : /\ h = [i \in 0 .. n |-> IF i = 0 THEN 0 ELSE h[i - 1] + size[i]]
                 /\ IsSum(h, n, size)
    <3> HIDE DEF n
    <3> QED BY <1>1, <2>0, SumExists
  <2> DEFINE b(i) == IF i = 0 THEN 0 ELSE h[i - 1] + size[i]
  <2>2. \A i \in 0 .. n : b(i) = sb(h, i)
    <3>1. ASSUME NEW i \in 0 .. n, i # 0 PROVE b(i) = sb(h, i)
      <4>1. i \in 1 .. n
        BY <1>1, <3>1
      <4>2. size[i] = Len(q[i].single) + 2 * Len(q[i].range)
        BY <1>0, <4>1
      <4> QED BY <3>1, <4>2
    <3>2. b(0) = sb(h, 0)
      OBVIOUS
    <3> HIDE DEF b, sb, n
    <3> QED BY <3>1, <3>2
  <2> HIDE DEF b, sb
  <2>3. h = [i \in 0 .. n |-> b(i)]
    BY <2>1 DEF b
  <2> QED BY <2>2, <2>3
<1>8. f = [i \in 0 .. n |-> pb(f, i)] /\ g = [i \in 0 .. n |-> sb(g, i)]
  <2> HIDE DEF pb, sb
  <2> QED BY <1>6, <1>7
<1> HIDE DEF f, g
<1>9. \A i \in 0 .. n : f[i] = pb(f, i) /\ g[i] = sb(g, i)
  <2> HIDE DEF pb, sb
  <2> QED BY <1>8
<1>10. IsConcat(f, n, part) /\ IsSum(g, n, size)
  <2>1. 0 \in 0 .. n /\ \A i \in 1 .. n : i \in 0 .. n /\ i # 0
    BY <1>1
  <2> QED BY <1>0, <1>3, <1>9, <2>1 DEF IsConcat, IsSum
<1>11. f[n] \in Seq(Nat) /\ g[n] \in Nat /\ Len(f[n]) = g[n]
  <2>1. \A i \in 1 .. n : part[i] \in Seq(Nat) /\ size[i] \in Nat /\ Len(part[i]) = 1 * size[i]
    <3> SUFFICES ASSUME NEW i \in 1 .. n
                 PROVE  part[i] \in Seq(Nat) /\ size[i] \in Nat /\ Len(part[i]) = 1 * size[i]
      OBVIOUS
    <3>1. /\ KeysIn(q[i]) \in Seq(Nat) /\ Len(q[i].single) + 2 * Len(q[i].range) \in Nat
          /\ Len(KeysIn(q[i])) = Len(q[i].single) + 2 * Len(q[i].range)
      BY <1>2
    <3>2. part[i] = KeysIn(q[i]) /\ size[i] = Len(q[i].single) + 2 * Len(q[i].range)
      BY <1>0, <1>3
    <3>3. part[i] \in Seq(Nat) /\ size[i] \in Nat /\ Len(part[i]) = size[i]
      BY <3>1, <3>2
    <3> QED BY <3>3
  <2>2. 1 \in {1, 2}
    OBVIOUS
  <2> HIDE DEF n
  <2>3. f[n] \in Seq(Nat) /\ g[n] \in Nat /\ Len(f[n]) = 1 * g[n]
    BY <1>1, <1>10, <2>1, <2>2, ConcatLength
  <2> QED BY <2>3
<1> QED BY <1>4, <1>5, <1>11

\* The offsets and lengths in what any of the table styles writes.
LEMMA OffsetsWritten ==
  ASSUME NEW cl \in TabClasses, NEW r, NEW ts, NEW w
  PROVE  LET a == DataOf(cl, r, ts, w)
             o == TabOffsets(r)
         IN  a.co = o.co /\ a.cl = o.cl /\ a.ko = o.ko /\ a.sl = o.sl /\ a.rl = o.rl
<1> DEFINE o == TabOffsets(r)
           k == TabKeys(r, ts)
           t == TabTrans(r, ts, w)
<1>1. DataOf(cl, r, ts, w) = Data(o, k, t)
  BY DEF DataOf, TabClasses, TabCodeGen_writeData, CSharpTabCodeGen_writeData,
         GoTabCodeGen_writeData, OCamlTabCodeGen_writeData, JavaTabCodeGen_writeData,
         RubyTabCodeGen_writeData, CrystalTabCodeGen_writeData,
         TabCodeGen_offsets, TabCodeGen_keys, TabCodeGen_trans,
         CSharpTabCodeGen_offsets, CSharpTabCodeGen_keys, CSharpTabCodeGen_trans,
         GoTabCodeGen_offsets, GoTabCodeGen_keys, GoTabCodeGen_trans,
         OCamlTabCodeGen_offsets, OCamlTabCodeGen_keys, OCamlTabCodeGen_trans,
         JavaTabCodeGen_offsets, JavaTabCodeGen_keys, JavaTabCodeGen_trans,
         RubyTabCodeGen_offsets, RubyTabCodeGen_keys, RubyTabCodeGen_trans,
         CrystalTabCodeGen_offsets, CrystalTabCodeGen_keys, CrystalTabCodeGen_trans
<1>2. {"co", "cl", "ko", "sl", "rl"} \subseteq DOMAIN o
  BY DEF TabOffsets
<1> HIDE DEF o, k, t
<1>3. \A x \in DOMAIN o : Data(o, k, t)[x] = o[x]
  BY DEF Data
<1> QED BY <1>1, <1>2, <1>3 DEF o

-----------------------------------------------------------------------------
(* The bounds of a binary search.                                          *)

\* A search in n entries of two keys from first on stands at lower keys.
Pairs(lo, up, first, n) ==
  /\ lo \in Int /\ up \in Int
  /\ first <= lo /\ up <= first + 2 * n - 2
  /\ \E k \in Int : lo = first + 2 * k
  /\ \E k \in Int : up = first + 2 * k

Single(lo, up, first, n) ==
  lo \in Int /\ up \in Int /\ first <= lo /\ up <= first + n - 1

LEMMA PairsStart ==
  ASSUME NEW first \in Nat, NEW n \in Nat
  PROVE  Pairs(first, first + 2 * n - 2, first, n)
<1>1. first = first + 2 * 0 /\ first + 2 * n - 2 = first + 2 * (n - 1) /\ n - 1 \in Int
  OBVIOUS
<1>2. first + 2 * n - 2 \in Int /\ 0 \in Int
  OBVIOUS
<1> QED BY <1>1, <1>2 DEF Pairs

LEMMA PairsHalved ==
  ASSUME NEW first \in Nat, NEW n \in Nat, NEW lo, NEW up, NEW mid,
         Pairs(lo, up, first, n), lo <= up, mid = Middle(lo, up, 2)
  PROVE  Pairs(lo, mid - 2, first, n) /\ Pairs(mid + 2, up, first, n)
<1>1. lo \in Int /\ up \in Int /\ first <= lo /\ up <= first + 2 * n - 2
  BY DEF Pairs
<1>2. PICK a \in Int : lo = first + 2 * a
  BY DEF Pairs
<1>3. PICK b \in Int : up = first + 2 * b
  BY DEF Pairs
<1>4. (up - lo) \div 2 = b - a /\ b - a \in Nat
  BY <1>1, <1>2, <1>3
<1> DEFINE h == (b - a) \div 2
<1>5. h \in Nat /\ h <= b - a
  BY <1>4
<1>6. mid = lo + h * 2
  BY <1>4 DEF Middle
<1> HIDE DEF h
<1>7. mid \in Int /\ lo <= mid /\ mid <= up
  BY <1>1, <1>2, <1>3, <1>5, <1>6
<1>8. mid - 2 = first + 2 * (a + h - 1) /\ mid + 2 = first + 2 * (a + h + 1)
  BY <1>2, <1>5, <1>6
<1>9. a + h - 1 \in Int /\ a + h + 1 \in Int
  BY <1>5
<1>10. mid - 2 \in Int /\ mid - 2 <= first + 2 * n - 2 /\ mid + 2 \in Int /\ first <= mid + 2
  BY <1>1, <1>7
<1> QED BY <1>1, <1>2, <1>3, <1>8, <1>9, <1>10 DEF Pairs

LEMMA SingleHalved ==
  ASSUME NEW first \in Nat, NEW n \in Nat, NEW lo, NEW up, NEW mid,
         Single(lo, up, first, n), lo <= up, mid = Middle(lo, up, 1)
  PROVE  Single(lo, mid - 1, first, n) /\ Single(mid + 1, up, first, n)
<1>1. lo \in Int /\ up \in Int /\ first <= lo /\ up <= first + n - 1
  BY DEF Single
<1> DEFINE h == (up - lo) \div 2
<1>2. h \in Nat /\ h <= up - lo
  BY <1>1
<1>3. mid = lo + (h \div 1) * 1
  BY DEF Middle
<1> HIDE DEF h
<1>4. mid \in Int /\ lo <= mid /\ mid <= up
  BY <1>1, <1>2, <1>3
<1> QED BY <1>1, <1>4 DEF Single

LEMMA MiddleOfTables ==
  ASSUME NEW cl \in TabClasses, NEW lo, NEW up, NEW w
  PROVE  MiddleOf(cl, lo, up, w) = Middle(lo, up, w)
BY DEF MiddleOf, TabClasses, TabCodeGen_LOCATE_TRANS, CSharpTabCodeGen_LOCATE_TRANS,
   GoTabCodeGen_LOCATE_TRANS, OCamlTabCodeGen_LOCATE_TRANS, JavaTabCodeGen_LOCATE_TRANS,
   RubyTabCodeGen_LOCATE_TRANS, CrystalTabCodeGen_LOCATE_TRANS

-----------------------------------------------------------------------------
(* The searches of the table styles.                                       *)

CondKeys(q) == Written(q, LAMBDA r : Bounds(r.conds))

SearchKeys(q) == Written(q, KeysIn)

\* Where the keys of state s start.
CondStart(s) == Len(CondKeys(SubSeq(red, 1, s - 1)))

KeyStart(s) == Len(SearchKeys(SubSeq(red, 1, s - 1)))

RangeStart(s) == KeyStart(s) + Len(red[s].single)

\* The offsets lead to the keys, which other functions write.
OffsetsRight ==
  pc \in Later \ {"write"} /\ class \in TabClasses =>
    \A s \in States :
      /\ CondStart(s) \in Nat /\ KeyStart(s) \in Nat
      /\ 2 * arr.co[s] = CondStart(s) /\ arr.ko[s] = KeyStart(s)
      /\ arr.cl[s] = Len(red[s].conds)
      /\ arr.sl[s] = Len(red[s].single) /\ arr.rl[s] = Len(red[s].range)

Searching == {"conds", "locate", "singles", "ranges"}

AskedInv ==
  /\ pc \in Searching \cup {"asked"} => question.s \in States
  /\ pc \in Searching => class \in TabClasses

\* A search stays among the keys of its state.
BoundsInv ==
  LET s == question.s
  IN  /\ pc = "conds" => Pairs(lower, upper, CondStart(s), Len(red[s].conds))
      /\ pc = "singles" => /\ keys = KeyStart(s) /\ klen = Len(red[s].single)
                           /\ Single(lower, upper, KeyStart(s), Len(red[s].single))
      /\ pc = "ranges" => Pairs(lower, upper, RangeStart(s), Len(red[s].range))

SearchInv == OffsetsRight /\ AskedInv /\ BoundsInv

LEMMA ReducedBefore ==
  ASSUME TablesType, NEW s \in States
  PROVE  SubSeq(red, 1, s - 1) \in Seq(Reduced) /\ Len(red) = Len(machine)
<1>1. Len(machine) \in Nat /\ States = 1 .. Len(machine)
  BY MachineFacts
<1>2. red \in Seq(Reduced) /\ Len(red) = Len(machine)
  BY <1>1, SequenceOf DEF TablesType
<1>3. 1 \in Int /\ s - 1 \in Int /\ \A i \in 1 .. s - 1 : red[i] \in Reduced
  BY <1>1 DEF TablesType
<1> QED BY <1>2, <1>3, SubSeqProperties

LEMMA ReducedLengths ==
  ASSUME TablesType, NEW s \in States
  PROVE  /\ Len(red[s].conds) \in Nat
         /\ Len(red[s].single) \in Nat /\ Len(red[s].range) \in Nat
<1>1. red[s] \in Reduced
  BY DEF TablesType
<1>2. /\ red[s].conds \in Seq(CondRanges)
      /\ red[s].single \in Seq(ListEntries) /\ red[s].range \in Seq(ListEntries)
  BY <1>1 DEF Reduced
<1> QED BY <1>2, LenProperties

\* Once the tables are written they stay, as does what they were made from.
LEMMA LookupSteps ==
  ASSUME [Next]_vars, pc \in Later \ {"write"}
  PROVE  /\ UNCHANGED <<machine, red, class, arr>> /\ pc' \in Later \ {"write"}
         /\ UNCHANGED vars \/ Ask \/ Lookup
<1> USE DEF Later
<1>1. CASE Build
  BY <1>1 DEF Build, SetEofTrans, TakeTrans, FinishState, ChooseDefaults, ChooseDefault,
       ChooseStyle, MoveTransToSingle, SinglesMoved, WriteData
<1>2. CASE Ask
  BY <1>2 DEF Ask, builder
<1>3. CASE Lookup
  <2>1. CASE FindEofTrans
    BY <1>3, <2>1 DEF FindEofTrans, Found, builder
  <2>2. CASE SearchConds
    BY <1>3, <2>2 DEF SearchConds, builder
  <2>3. CASE SearchCond
    BY <1>3, <2>3 DEF SearchCond, builder
  <2>4. CASE CondsSearched
    BY <1>3, <2>4 DEF CondsSearched, builder
  <2>5. CASE SearchSingles
    BY <1>3, <2>5 DEF SearchSingles, builder
  <2>6. CASE SearchSingle
    BY <1>3, <2>6 DEF SearchSingle, Match, Found, builder
  <2>7. CASE SearchRanges
    BY <1>3, <2>7 DEF SearchRanges, builder
  <2>8. CASE SearchRange
    BY <1>3, <2>8 DEF SearchRange, Match, Found, builder
  <2>9. CASE TakeDefault
    BY <1>3, <2>9 DEF TakeDefault, Match, Found, builder
  <2>10. CASE FlatLookup
    BY <1>3, <2>10 DEF FlatLookup, Found, builder
  <2>11. CASE EnterCondTests
    BY <1>3, <2>11 DEF EnterCondTests, builder
  <2>12. CASE TestCond
    BY <1>3, <2>12 DEF TestCond, builder
  <2>13. CASE Switch
    BY <1>3, <2>13 DEF Switch, Found, builder
  <2>14. CASE TestRange
    BY <1>3, <2>14 DEF TestRange, Found, builder
  <2> QED BY <1>3, <2>1, <2>2, <2>3, <2>4, <2>5, <2>6, <2>7, <2>8, <2>9, <2>10, <2>11,
             <2>12, <2>13, <2>14 DEF Lookup
<1>4. CASE UNCHANGED vars
  BY <1>4 DEF vars, builder
<1> QED BY <1>1, <1>2, <1>3, <1>4 DEF Next

\* Nothing is looked up before.
LEMMA NotWritten ==
  ASSUME TablesType, [Next]_vars, pc \notin Later \ {"write"}
  PROVE  pc' \notin Later \ {"write"} \/ (WriteData /\ pc' = "ready")
<1> USE DEF Later
<1>1. pc \in {"read", "default", "single", "write"}
  BY DEF TablesType
<1>2. CASE Build
  BY <1>1, <1>2 DEF Build, SetEofTrans, TakeTrans, FinishState, ChooseDefaults, ChooseDefault,
       ChooseStyle, MoveTransToSingle, SinglesMoved, WriteData
<1>3. ~ Ask /\ ~ Lookup
  BY <1>1 DEF Ask, Lookup, FindEofTrans, TabAsked, SearchConds, SearchCond,
       CondsSearched, SearchSingles, SearchSingle, SearchRanges, SearchRange, TakeDefault,
       FlatLookup, EnterCondTests, TestCond, Switch, TestRange
<1>4. CASE UNCHANGED vars
  BY <1>1, <1>4 DEF vars
<1> QED BY <1>2, <1>3, <1>4 DEF Next

\* What is written is found again.
LEMMA WrittenRight ==
  ASSUME TablesType, WriteData
  PROVE  OffsetsRight'
<1>1. /\ red' = red /\ machine' = machine /\ class' = class
      /\ arr' = DataOf(class, red, set, wi)
  BY DEF WriteData
<1> SUFFICES ASSUME class \in TabClasses, NEW s \in States
             PROVE  /\ CondStart(s) \in Nat /\ KeyStart(s) \in Nat
                    /\ 2 * arr'.co[s] = CondStart(s) /\ arr'.ko[s] = KeyStart(s)
                    /\ arr'.cl[s] = Len(red[s].conds)
                    /\ arr'.sl[s] = Len(red[s].single) /\ arr'.rl[s] = Len(red[s].range)
  <2>1. States' = States
    BY <1>1 DEF States
  <2>2. \A s \in States : CondStart(s)' = CondStart(s) /\ KeyStart(s)' = KeyStart(s)
    BY <1>1 DEF CondStart, KeyStart
  <2> QED BY <1>1, <2>1, <2>2 DEF OffsetsRight
<1> DEFINE before == SubSeq(red, 1, s - 1)
           o == TabOffsets(red)
<1>2. before \in Seq(Reduced) /\ s \in 1 .. Len(red)
  BY ReducedBefore, MachineFacts
<1>3. /\ arr'.co = o.co /\ arr'.cl = o.cl /\ arr'.ko = o.ko /\ arr'.sl = o.sl
      /\ arr'.rl = o.rl
  BY <1>1, OffsetsWritten
<1>4. /\ o.cl[s] = Len(red[s].conds)
      /\ o.sl[s] = Len(red[s].single) /\ o.rl[s] = Len(red[s].range)
  BY <1>2 DEF TabOffsets, Each
<1> DEFINE nc == Folded(LAMBDA n, st : n + Len(st.conds), 0, before)
           nk == Folded(LAMBDA n, st : n + (Len(st.single) + 2 * Len(st.range)), 0, before)
<1>5. o.co[s] = nc /\ o.ko[s] = nk
  BY <1>2 DEF TabOffsets, Offsets
<1>6. nc \in Nat /\ CondStart(s) = 2 * nc
  BY <1>2, CondsLength DEF CondStart, CondKeys
<1>7. nk \in Nat /\ KeyStart(s) = nk
  BY <1>2, KeysLength DEF KeyStart, SearchKeys
<1> HIDE DEF nc, nk, o, before
<1>8. 2 * nc \in Nat
  BY <1>6
<1> QED BY <1>3, <1>4, <1>5, <1>6, <1>7, <1>8

\* Every step of a search keeps to the keys of its state.
LEMMA SearchKept ==
  ASSUME TablesType, SearchInv, Ask \/ Lookup, pc \in Later \ {"write"},
         UNCHANGED <<machine, red, class, arr>>
  PROVE  AskedInv' /\ BoundsInv'
<1> DEFINE s == question.s
<1>1. /\ States' = States
      /\ \A z : /\ CondStart(z)' = CondStart(z) /\ KeyStart(z)' = KeyStart(z)
                /\ RangeStart(z)' = RangeStart(z)
  BY DEF States, CondStart, KeyStart, RangeStart
<1>2. ASSUME pc' \notin Searching \cup {"asked"}
      PROVE  AskedInv' /\ BoundsInv'
  BY <1>2 DEF AskedInv, BoundsInv, Searching
<1>3. ASSUME pc \in Searching \cup {"asked"}, class \in TabClasses, question' = question
      PROVE  /\ s \in States /\ AskedInv'
             /\ CondStart(s) \in Nat /\ KeyStart(s) \in Nat /\ RangeStart(s) \in Nat
             /\ 2 * arr.co[s] = CondStart(s) /\ arr.ko[s] = KeyStart(s)
             /\ arr.cl[s] = Len(red[s].conds)
             /\ arr.sl[s] = Len(red[s].single) /\ arr.rl[s] = Len(red[s].range)
             /\ Len(red[s].conds) \in Nat
             /\ Len(red[s].single) \in Nat /\ Len(red[s].range) \in Nat
  <2>1. s \in States
    BY <1>3 DEF SearchInv, AskedInv
  <2>2. AskedInv'
    BY <1>1, <1>3, <2>1 DEF AskedInv
  <2>3. pc \in Later \ {"write"}
    OBVIOUS
  <2>4. /\ Len(red[s].conds) \in Nat
        /\ Len(red[s].single) \in Nat /\ Len(red[s].range) \in Nat
    BY <2>1, ReducedLengths
  <2>5. /\ CondStart(s) \in Nat /\ KeyStart(s) \in Nat
        /\ 2 * arr.co[s] = CondStart(s) /\ arr.ko[s] = KeyStart(s)
        /\ arr.cl[s] = Len(red[s].conds)
        /\ arr.sl[s] = Len(red[s].single) /\ arr.rl[s] = Len(red[s].range)
    BY <1>3, <2>1 DEF SearchInv, OffsetsRight
  <2>6. RangeStart(s) \in Nat
    BY <2>4, <2>5 DEF RangeStart
  <2> HIDE DEF s
  <2> QED BY <2>1, <2>2, <2>4, <2>5, <2>6
<1>4. pc \in Searching => class \in TabClasses
  BY DEF SearchInv, AskedInv
<1>5. CASE Ask
  BY <1>1, <1>5 DEF Ask, AskedInv, BoundsInv, Searching
<1>6. CASE SearchConds
  <2>1. /\ class \in TabClasses /\ pc = "asked" /\ question' = question
        /\ keys' = 2 * arr.co[s] /\ klen' = arr.cl[s]
        /\ lower' = keys' /\ upper' = keys' + 2 * klen' - 2
        /\ pc' \in {"conds", "locate"}
    BY <1>6 DEF SearchConds, TabAsked
  <2>2. Pairs(lower', upper', CondStart(s), Len(red[s].conds))
    BY <1>3, <2>1, PairsStart
  <2>3. BoundsInv'
    BY <1>1, <2>1, <2>2 DEF BoundsInv
  <2> QED BY <1>3, <2>1, <2>3
<1>7. CASE SearchCond
  <2> DEFINE mid == MiddleOf(class, lower, upper, 2)
  <2>1. /\ pc = "conds" /\ lower <= upper /\ question' = question /\ pc \in Searching
        /\ pc' \in {"conds", "locate"}
        /\ \/ upper' = mid - 2 /\ lower' = lower
           \/ lower' = mid + 2 /\ upper' = upper
           \/ UNCHANGED <<lower, upper>>
    BY <1>7 DEF SearchCond, Halved, Searching
  <2>2. Pairs(lower, upper, CondStart(s), Len(red[s].conds))
    BY <2>1 DEF SearchInv, BoundsInv
  <2>3. mid = Middle(lower, upper, 2)
    BY <1>4, <2>1, MiddleOfTables
  <2> HIDE DEF mid
  <2>4. CondStart(s) \in Nat /\ Len(red[s].conds) \in Nat /\ AskedInv'
    BY <1>3, <1>4, <2>1
  <2>5. /\ Pairs(lower, mid - 2, CondStart(s), Len(red[s].conds))
        /\ Pairs(mid + 2, upper, CondStart(s), Len(red[s].conds))
    BY <2>1, <2>2, <2>3, <2>4, PairsHalved
  <2>6. Pairs(lower', upper', CondStart(s), Len(red[s].conds))
    BY <2>1, <2>2, <2>5
  <2>7. BoundsInv'
    BY <1>1, <2>1, <2>6 DEF BoundsInv
  <2> QED BY <2>4, <2>7
<1>8. CASE CondsSearched
  <2>1. pc = "conds" /\ pc' = "locate" /\ question' = question /\ pc \in Searching
    BY <1>8 DEF CondsSearched, finder, Searching
  <2>2. BoundsInv'
    BY <2>1 DEF BoundsInv
  <2> QED BY <1>3, <1>4, <2>1, <2>2
<1>9. CASE SearchSingles
  <2>1. /\ pc = "locate" /\ question' = question /\ pc \in Searching
        /\ keys' = arr.ko[s] /\ klen' = arr.sl[s]
        /\ lower' = keys' /\ upper' = keys' + klen' - 1
        /\ pc' = "singles"
    BY <1>9 DEF SearchSingles, Searching
  <2>3. keys' = KeyStart(s) /\ klen' = Len(red[s].single)
    BY <1>3, <1>4, <2>1
  <2>2. Single(lower', upper', KeyStart(s), Len(red[s].single))
    <3>1. KeyStart(s) \in Nat /\ Len(red[s].single) \in Nat
      BY <1>3, <1>4, <2>1
    <3>2. \A a, b \in Nat : a \in Int /\ a + b - 1 \in Int /\ a <= a /\ a + b - 1 <= a + b - 1
      OBVIOUS
    <3>3. lower' = KeyStart(s) /\ upper' = KeyStart(s) + Len(red[s].single) - 1
      BY <2>1, <2>3
    <3> QED BY <3>1, <3>2, <3>3 DEF Single
  <2>4. BoundsInv'
    BY <1>1, <2>1, <2>2, <2>3 DEF BoundsInv
  <2> QED BY <1>3, <1>4, <2>1, <2>4
<1>10. CASE SearchSingle
  <2> DEFINE mid == MiddleOf(class, lower, upper, 1)
  <2>1. CASE pc' = "ready"
    BY <1>2, <2>1 DEF Searching
  <2>2. CASE pc' # "ready"
    <3>1. /\ pc = "singles" /\ lower <= upper /\ pc \in Searching
          /\ UNCHANGED <<pc, question, keys, klen>>
          /\ \/ upper' = mid - 1 /\ lower' = lower
             \/ lower' = mid + 1 /\ upper' = upper
      BY <1>10, <2>2 DEF SearchSingle, Halved, Match, Found, Searching
    <3>2. /\ Single(lower, upper, KeyStart(s), Len(red[s].single))
          /\ keys = KeyStart(s) /\ klen = Len(red[s].single)
      BY <3>1 DEF SearchInv, BoundsInv
    <3>3. mid = Middle(lower, upper, 1)
      BY <1>4, <3>1, MiddleOfTables
    <3> HIDE DEF mid
    <3>4. KeyStart(s) \in Nat /\ Len(red[s].single) \in Nat /\ AskedInv'
      BY <1>3, <1>4, <3>1
    <3>5. /\ Single(lower, mid - 1, KeyStart(s), Len(red[s].single))
          /\ Single(mid + 1, upper, KeyStart(s), Len(red[s].single))
      BY <3>1, <3>2, <3>3, <3>4, SingleHalved
    <3>6. Single(lower', upper', KeyStart(s), Len(red[s].single))
      BY <3>1, <3>5
    <3>7. BoundsInv'
      BY <1>1, <3>1, <3>2, <3>6 DEF BoundsInv
    <3> QED BY <3>4, <3>7
  <2> QED BY <2>1, <2>2
<1>11. CASE SearchRanges
  <2>1. /\ pc = "singles" /\ question' = question /\ pc \in Searching
        /\ keys' = keys + klen /\ klen' = arr.rl[s]
        /\ lower' = keys' /\ upper' = keys' + 2 * klen' - 2
        /\ pc' = "ranges"
    BY <1>11 DEF SearchRanges, Searching
  <2>2. keys' = RangeStart(s)
    BY <2>1 DEF SearchInv, BoundsInv, RangeStart
  <2>3. Pairs(lower', upper', RangeStart(s), Len(red[s].range))
    BY <1>3, <1>4, <2>1, <2>2, PairsStart
  <2>4. BoundsInv'
    BY <1>1, <2>1, <2>3 DEF BoundsInv
  <2> QED BY <1>3, <1>4, <2>1, <2>4
<1>12. CASE SearchRange
  <2> DEFINE mid == MiddleOf(class, lower, upper, 2)
  <2>1. CASE pc' = "ready"
    BY <1>2, <2>1 DEF Searching
  <2>2. CASE pc' # "ready"
    <3>1. /\ pc = "ranges" /\ lower <= upper /\ pc \in Searching
          /\ UNCHANGED <<pc, question>>
          /\ \/ upper' = mid - 2 /\ lower' = lower
             \/ lower' = mid + 2 /\ upper' = upper
      BY <1>12, <2>2 DEF SearchRange, Halved, Match, Found, Searching
    <3>2. Pairs(lower, upper, RangeStart(s), Len(red[s].range))
      BY <3>1 DEF SearchInv, BoundsInv
    <3>3. mid = Middle(lower, upper, 2)
      BY <1>4, <3>1, MiddleOfTables
    <3> HIDE DEF mid
    <3>4. RangeStart(s) \in Nat /\ Len(red[s].range) \in Nat /\ AskedInv'
      BY <1>3, <1>4, <3>1
    <3>5. /\ Pairs(lower, mid - 2, RangeStart(s), Len(red[s].range))
          /\ Pairs(mid + 2, upper, RangeStart(s), Len(red[s].range))
      BY <3>1, <3>2, <3>3, <3>4, PairsHalved
    <3>6. Pairs(lower', upper', RangeStart(s), Len(red[s].range))
      BY <3>1, <3>5
    <3>7. BoundsInv'
      BY <1>1, <3>1, <3>6 DEF BoundsInv
    <3> QED BY <3>4, <3>7
  <2> QED BY <2>1, <2>2
<1>13. CASE FindEofTrans \/ TakeDefault \/ FlatLookup
  <2>1. pc' = "ready"
    BY <1>13 DEF FindEofTrans, TakeDefault, FlatLookup, Match, Found
  <2> QED BY <1>2, <2>1 DEF Searching
<1>14. CASE EnterCondTests \/ TestCond \/ Switch \/ TestRange
  <2>1. pc \in {"asked", "condtests", "switch", "tests"}
    BY <1>14 DEF EnterCondTests, TestCond, Switch, TestRange
  <2>2. pc' \in {"condtests", "switch", "tests", "ready"}
    BY <1>14 DEF EnterCondTests, TestCond, Switch, TestRange, Found
  <2> QED BY <1>2, <2>2 DEF Searching
<1> QED BY <1>5, <1>6, <1>7, <1>8, <1>9, <1>10, <1>11, <1>12, <1>13, <1>14 DEF Lookup

LEMMA NextSearched ==
  ASSUME TablesType, SearchInv, [Next]_vars
  PROVE  SearchInv'
<1>1. CASE pc \notin Later \ {"write"}
  <2>1. CASE pc' \notin Later \ {"write"}
    BY <2>1 DEF SearchInv, OffsetsRight, AskedInv, BoundsInv, Searching, Later
  <2>2. CASE WriteData /\ pc' = "ready"
    <3>1. OffsetsRight'
      BY <2>2, WrittenRight
    <3>2. AskedInv' /\ BoundsInv'
      BY <2>2 DEF AskedInv, BoundsInv, Searching
    <3> QED BY <3>1, <3>2 DEF SearchInv
  <2> QED BY <1>1, <2>1, <2>2, NotWritten
<1>2. CASE pc \in Later \ {"write"}
  <2>1. /\ UNCHANGED <<machine, red, class, arr>> /\ pc' \in Later \ {"write"}
        /\ UNCHANGED vars \/ Ask \/ Lookup
    BY <1>2, LookupSteps
  <2>2. OffsetsRight'
    <3>1. States' = States /\ \A z : CondStart(z)' = CondStart(z) /\ KeyStart(z)' = KeyStart(z)
      BY <2>1 DEF States, CondStart, KeyStart
    <3> QED BY <1>2, <2>1, <3>1 DEF SearchInv, OffsetsRight
  <2>3. CASE UNCHANGED vars
    <3>1. UNCHANGED <<machine, red, class, arr, pc, question, keys, klen, lower, upper>>
      BY <2>3 DEF vars, builder, finder
    <3>2. /\ States' = States
          /\ \A z : /\ CondStart(z)' = CondStart(z) /\ KeyStart(z)' = KeyStart(z)
                    /\ RangeStart(z)' = RangeStart(z)
      BY <3>1 DEF States, CondStart, KeyStart, RangeStart
    <3>3. AskedInv' /\ BoundsInv'
      BY <3>1, <3>2 DEF SearchInv, AskedInv, BoundsInv
    <3> QED BY <2>2, <3>3 DEF SearchInv
  <2>4. CASE Ask \/ Lookup
    BY <1>2, <2>1, <2>2, <2>4, SearchKept DEF SearchInv
  <2> QED BY <2>1, <2>3, <2>4
<1> QED BY <1>1, <1>2

\* The binary searches of the table styles read the keys of their own state
\* and, of a pair of keys, start at the lower one, although the offsets are
\* counted by other functions than those that write the keys (the KEY_OFFSETS
\* and KEYS of the table generators), whatever the lists are.
THEOREM TablesReadOwnKeys == Spec => []ReadsOwnKeys
<1>1. Init => SearchInv
  BY DEF Init, SearchInv, OffsetsRight, AskedInv, BoundsInv, Searching, Later
<1>2. ReduceInv /\ SearchInv /\ [Next]_vars => SearchInv'
  BY NextSearched DEF ReduceInv
<1>3. ReduceInv /\ SearchInv => ReadsOwnKeys
  <2> SUFFICES ASSUME ReduceInv, SearchInv PROVE ReadsOwnKeys
    OBVIOUS
  <2> DEFINE s == question.s
  <2>1. CASE pc \in Searching
    <3>1. s \in States /\ class \in TabClasses /\ TablesType
      BY <2>1 DEF SearchInv, AskedInv, ReduceInv
    <3>2. /\ CondStart(s) \in Nat /\ KeyStart(s) \in Nat
      BY <2>1, <3>1 DEF SearchInv, OffsetsRight, Searching, Later
    <3>3. /\ Len(red[s].conds) \in Nat
          /\ Len(red[s].single) \in Nat /\ Len(red[s].range) \in Nat
      BY <3>1, ReducedLengths
    <3>4. RangeStart(s) = KeyStart(s) + Len(red[s].single)
      BY DEF RangeStart
    <3>5. /\ OwnStart(LAMBDA r : Bounds(r.conds), s) = CondStart(s)
          /\ OwnStart(KeysIn, s) = KeyStart(s)
      BY DEF OwnStart, CondStart, KeyStart, CondKeys, SearchKeys
    <3>6. ASSUME NEW first \in Nat, NEW n \in Nat, Pairs(lower, upper, first, n), upper >= lower
          PROVE  first <= lower /\ upper < first + (2 * n - 1) /\ (lower - first) % 2 = 0
      <4>1. lower \in Int /\ upper \in Int /\ first <= lower /\ upper <= first + 2 * n - 2
        BY <3>6 DEF Pairs
      <4>2. PICK k \in Int : lower = first + 2 * k
        BY <3>6 DEF Pairs
      <4>3. lower - first = 2 * k /\ (2 * k) % 2 = 0
        BY <4>2
      <4>4. upper < first + (2 * n - 1)
        BY <4>1
      <4> QED BY <4>1, <4>3, <4>4
    <3>7. CASE pc = "conds"
      <4>1. Pairs(lower, upper, CondStart(s), Len(red[s].conds))
        BY <3>7 DEF SearchInv, BoundsInv
      <4>2. upper >= lower => /\ CondStart(s) <= lower
                             /\ upper < CondStart(s) + (2 * Len(red[s].conds) - 1)
                             /\ (lower - CondStart(s)) % 2 = 0
        BY <3>2, <3>3, <3>6, <4>1
      <4> QED BY <3>5, <3>7, <4>2 DEF ReadsOwnKeys
    <3>8. CASE pc = "singles"
      <4>1. Single(lower, upper, KeyStart(s), Len(red[s].single))
        BY <3>8 DEF SearchInv, BoundsInv
      <4>2. /\ KeyStart(s) <= lower
            /\ upper < KeyStart(s) + Len(red[s].single)
            /\ (KeyStart(s) + Len(red[s].single)) - Len(red[s].single) = KeyStart(s)
        BY <3>2, <3>3, <4>1 DEF Single
      <4>3. /\ (OwnStart(KeysIn, s) + Len(red[s].single)) - Len(red[s].single) <= lower
            /\ upper < (OwnStart(KeysIn, s) + Len(red[s].single)) - Len(red[s].single)
                         + Len(red[s].single)
        BY <3>5, <4>2
      <4> QED BY <3>8, <4>3 DEF ReadsOwnKeys
    <3>9. CASE pc = "ranges"
      <4>1. Pairs(lower, upper, RangeStart(s), Len(red[s].range))
        BY <3>9 DEF SearchInv, BoundsInv
      <4>2. upper >= lower => /\ RangeStart(s) <= lower
                             /\ upper < RangeStart(s) + (2 * Len(red[s].range) - 1)
                             /\ (lower - RangeStart(s)) % 2 = 0
        <5>1. RangeStart(s) \in Nat
          BY <3>2, <3>3, <3>4
        <5> QED BY <3>3, <3>6, <4>1, <5>1
      <4> QED BY <3>4, <3>5, <3>9, <4>2 DEF ReadsOwnKeys
    <3>10. CASE pc = "locate"
      BY <3>10 DEF ReadsOwnKeys
    <3> QED BY <2>1, <3>7, <3>8, <3>9, <3>10 DEF Searching
  <2>2. CASE pc \notin Searching
    BY <2>2 DEF ReadsOwnKeys, Searching
  <2> QED BY <2>1, <2>2
<1> QED BY <1>1, <1>2, <1>3, Reduced_always, PTL DEF Spec
=============================================================================
