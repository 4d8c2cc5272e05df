---------------------------- MODULE ValuesProofs ----------------------------
(***************************************************************************)
(* Proofs about Values, for any finite number of variables and heap cells.  *)
(* Every operation is a sequence of elementary changes of the heap (a count *)
(* goes up or down, a cell is allocated or freed, an element is replaced);  *)
(* each of them moves a cell's balance, its count less the elements that    *)
(* hold it, by a known amount.  The invariant says that this balance is the *)
(* number of variables, zvals in release and lost zvals that hold the cell. *)
(***************************************************************************)
EXTENDS Values, FiniteSetTheorems, TLAPS

-----------------------------------------------------------------------------
(***************************************************************************)
(* The inductive invariant.                                                 *)
(***************************************************************************)

\* What a heap is made of; a count may be too small for a moment.
CellType == [kind : {"free", "arr", "ref"}, rc : Int, item : Zvals]
HeapType == [Cells -> CellType]

\* Points, for a heap that may be an intermediate one
PointsIn(h, z) == IF Counted(z) THEN z.p \in Cells /\ h[z.p].kind = z.t ELSE z.p = None

\* A heap in which every element points to a live cell, free cells are empty, and
\* no reference holds a reference.
WellFormed(h) ==
    /\ h \in HeapType
    /\ \A d \in Cells : PointsIn(h, h[d].item)
    /\ \A d \in Cells : h[d].kind = "free" => h[d] = FreeCell
    /\ \A d \in Cells : h[d].kind = "ref" => h[d].item.t # "ref"

\* Does zval z hold cell c?
One(z, c) == IF z.p = c THEN 1 ELSE 0

\* The variables, elements and listed zvals that hold cell c
InVars(v, c) == Cardinality({x \in Vars : v[x].p = c})
InItems(h, c) == Cardinality({d \in Cells : h[d].item.p = c})
InList(s, c) == Cardinality({i \in DOMAIN s : s[i].p = c})

Balance(h, c) == h[c].rc - InItems(h, c)

Balanced ==
    \A c \in Cells : Balance(heap, c) = InVars(val, c) + InList(trash, c) + InList(lost, c)

ValuesInv ==
    /\ val \in [Vars -> Zvals]
    /\ WellFormed(heap) /\ \A c \in Cells : heap[c].rc \in Nat
    /\ trash \in Seq(Zvals) /\ Len(trash) <= 1
    /\ lost \in Seq(Zvals) /\ Len(lost) <= MaxLost
    /\ broken \in BOOLEAN
    /\ \A x \in Vars : PointsIn(heap, val[x])
    /\ \A i \in DOMAIN trash : PointsIn(heap, trash[i])
    /\ \A i \in DOMAIN lost : PointsIn(heap, lost[i])
    /\ IF broken THEN trash = <<>> ELSE Balanced

-----------------------------------------------------------------------------
(***************************************************************************)
(* Counting.                                                                *)
(***************************************************************************)

\* Two subsets of a finite set that differ in one element at most
LEMMA CountOne ==
    ASSUME NEW S, IsFiniteSet(S), NEW A \in SUBSET S, NEW B \in SUBSET S, NEW x \in S,
           \A y \in S \ {x} : y \in A <=> y \in B
    PROVE  /\ Cardinality(A) \in Nat /\ Cardinality(B) \in Nat
           /\ Cardinality(B) = Cardinality(A) - (IF x \in A THEN 1 ELSE 0)
                                              + (IF x \in B THEN 1 ELSE 0)
<1>1. IsFiniteSet(A) /\ IsFiniteSet(B)
    BY FS_Subset
<1>2. Cardinality(A) \in Nat /\ Cardinality(B) \in Nat
    BY <1>1, FS_CardinalityType
<1>3. A \ {x} = B \ {x}
    OBVIOUS
<1>4. /\ Cardinality(A \ {x}) = IF x \in A THEN Cardinality(A) - 1 ELSE Cardinality(A)
      /\ Cardinality(B \ {x}) = IF x \in B THEN Cardinality(B) - 1 ELSE Cardinality(B)
    BY <1>1, FS_RemoveElement
<1>5. QED
    BY <1>2, <1>3, <1>4

\* A subset of a finite set with an element, and with two
LEMMA CountMore ==
    ASSUME NEW S, IsFiniteSet(S), NEW A \in SUBSET S
    PROVE  /\ Cardinality(A) \in Nat
           /\ \A x \in A : Cardinality(A) >= 1
           /\ \A x, y \in A : x # y => Cardinality(A) >= 2
<1>1. IsFiniteSet(A) /\ Cardinality(A) \in Nat
    BY FS_Subset, FS_CardinalityType
<1>2. ASSUME NEW x \in A PROVE Cardinality(A \ {x}) = Cardinality(A) - 1 /\ Cardinality(A \ {x}) \in Nat
    <2>1. IsFiniteSet(A \ {x})
        BY <1>1, FS_Subset
    <2>2. QED
        BY <1>1, <2>1, FS_RemoveElement, FS_CardinalityType
<1>3. ASSUME NEW x \in A, NEW y \in A, x # y PROVE Cardinality(A) >= 2
    <2>1. IsFiniteSet(A \ {x}) /\ y \in A \ {x}
        BY <1>1, <1>3, FS_Subset
    <2>2. /\ Cardinality((A \ {x}) \ {y}) = Cardinality(A \ {x}) - 1
          /\ Cardinality((A \ {x}) \ {y}) \in Nat
        <3>1. IsFiniteSet((A \ {x}) \ {y})
            BY <2>1, FS_Subset
        <3>2. QED
            BY <2>1, <3>1, FS_RemoveElement, FS_CardinalityType
    <2>3. QED
        BY <1>1, <1>2, <2>2
<1>4. ASSUME NEW x \in A PROVE Cardinality(A) >= 1
    <2>1. Cardinality(A \ {x}) = Cardinality(A) - 1 /\ Cardinality(A \ {x}) \in Nat
        BY <1>2
    <2>2. QED
        BY <1>1, <2>1
<1>5. QED
    BY <1>1, <1>3, <1>4

\* A variable gets another zval.
LEMMA CountVars ==
    ASSUME NEW v \in [Vars -> Zvals], NEW w \in [Vars -> Zvals], NEW x \in Vars, NEW c,
           \A y \in Vars : y # x => w[y] = v[y]
    PROVE  /\ InVars(v, c) \in Nat
           /\ InVars(w, c) = InVars(v, c) - One(v[x], c) + One(w[x], c)
<1> DEFINE A == {y \in Vars : v[y].p = c}
           B == {y \in Vars : w[y].p = c}
<1>1. A \in SUBSET Vars /\ B \in SUBSET Vars /\ \A y \in Vars \ {x} : y \in A <=> y \in B
    OBVIOUS
<1>2. (x \in A <=> v[x].p = c) /\ (x \in B <=> w[x].p = c)
    OBVIOUS
<1> HIDE DEF A, B
<1>3. /\ Cardinality(A) \in Nat
      /\ Cardinality(B) = Cardinality(A) - (IF x \in A THEN 1 ELSE 0) + (IF x \in B THEN 1 ELSE 0)
    BY <1>1, CountOne, ValuesAssumption
<1>4. InVars(v, c) = Cardinality(A) /\ InVars(w, c) = Cardinality(B)
    BY DEF InVars, A, B
<1>5. QED
    BY <1>2, <1>3, <1>4 DEF One

\* A cell is replaced by another.
LEMMA CountItems ==
    ASSUME NEW h \in HeapType, NEW g \in HeapType, NEW x \in Cells, NEW c,
           \A d \in Cells : d # x => g[d].item = h[d].item
    PROVE  /\ InItems(h, c) \in Nat
           /\ InItems(g, c) = InItems(h, c) - One(h[x].item, c) + One(g[x].item, c)
<1> DEFINE A == {d \in Cells : h[d].item.p = c}
           B == {d \in Cells : g[d].item.p = c}
<1>1. A \in SUBSET Cells /\ B \in SUBSET Cells /\ \A d \in Cells \ {x} : d \in A <=> d \in B
    OBVIOUS
<1>2. (x \in A <=> h[x].item.p = c) /\ (x \in B <=> g[x].item.p = c)
    OBVIOUS
<1> HIDE DEF A, B
<1>3. /\ Cardinality(A) \in Nat
      /\ Cardinality(B) = Cardinality(A) - (IF x \in A THEN 1 ELSE 0) + (IF x \in B THEN 1 ELSE 0)
    BY <1>1, CountOne, ValuesAssumption
<1>4. InItems(h, c) = Cardinality(A) /\ InItems(g, c) = Cardinality(B)
    BY DEF InItems, A, B
<1>5. QED
    BY <1>2, <1>3, <1>4 DEF One

\* Lists of zvals: the empty one, one with a single entry, and one that grows.
LEMMA CountList ==
    /\ \A c : InList(<<>>, c) = 0
    /\ \A z, c : InList(<<z>>, c) = One(z, c)
    /\ \A s \in Seq(Zvals), z \in Zvals : \A c :
          InList(s, c) \in Nat /\ InList(Append(s, z), c) = InList(s, c) + One(z, c)
<1>1. ASSUME NEW c PROVE InList(<<>>, c) = 0
    <2>1. {i \in DOMAIN <<>> : <<>>[i].p = c} = {}
        OBVIOUS
    <2>2. QED
        BY <2>1, FS_EmptySet DEF InList
<1>2. ASSUME NEW z, NEW c PROVE InList(<<z>>, c) = One(z, c)
    <2>1. {i \in DOMAIN <<z>> : <<z>>[i].p = c} = IF z.p = c THEN {1} ELSE {}
        OBVIOUS
    <2>2. QED
        BY <2>1, FS_EmptySet, FS_Singleton DEF InList, One
<1>3. ASSUME NEW s \in Seq(Zvals), NEW z \in Zvals, NEW c
      PROVE  InList(s, c) \in Nat /\ InList(Append(s, z), c) = InList(s, c) + One(z, c)
    <2> DEFINE n == Len(s)
               t == Append(s, z)
               S == 1..(n + 1)
               A == {i \in 1..n : s[i].p = c}
               B == {i \in S : t[i].p = c}
    <2>1. n \in Nat /\ DOMAIN s = 1..n /\ DOMAIN t = 1..(n + 1)
        OBVIOUS
    <2>2. t[n + 1] = z /\ \A i \in 1..n : t[i] = s[i]
        BY <2>1
    <2>3. IsFiniteSet(S)
        BY <2>1, FS_Interval
    <2>4. A \in SUBSET S /\ B \in SUBSET S /\ n + 1 \in S
        BY <2>1
    <2>5. \A i \in S \ {n + 1} : i \in A <=> i \in B
        BY <2>1, <2>2
    <2>6. n + 1 \notin A /\ (n + 1 \in B <=> z.p = c)
        BY <2>1, <2>2
    <2>7. InList(s, c) = Cardinality(A) /\ InList(t, c) = Cardinality(B)
        BY <2>1 DEF InList
    <2> HIDE DEF S, A, B
    <2>8. /\ Cardinality(A) \in Nat
          /\ Cardinality(B) = Cardinality(A) - (IF n + 1 \in A THEN 1 ELSE 0)
                                             + (IF n + 1 \in B THEN 1 ELSE 0)
        BY <2>3, <2>4, <2>5, CountOne
    <2>9. QED
        <3>1. Cardinality(B) = Cardinality(A) + One(z, c)
            BY <2>6, <2>8 DEF One
        <3>2. QED
            BY <2>7, <2>8, <3>1
<1>4. QED
    BY <1>1, <1>2, <1>3

-----------------------------------------------------------------------------
(***************************************************************************)
(* The elementary changes of the heap.                                      *)
(***************************************************************************)

\* A cell with another count, with another element, and freed
WithCount(h, d, n) == [h EXCEPT ![d].rc = n]
WithItem(h, d, z) == [h EXCEPT ![d].item = z]
Freed(h, d) == [h EXCEPT ![d] = FreeCell]

\* What pointed to a live cell still does.
Carries(h, g) == \A z \in Zvals : PointsIn(h, z) => PointsIn(g, z)

\* Only counts differ.
SameItems(h, g) == \A d \in Cells : g[d].kind = h[d].kind /\ g[d].item = h[d].item

\* The zvals that hold nothing, and the empty cell
LEMMA Plain ==
    /\ Gone \in Zvals /\ Undef \in Zvals /\ Scalar \in Zvals
    /\ \A h : PointsIn(h, Gone) /\ PointsIn(h, Undef) /\ PointsIn(h, Scalar)
    /\ \A c \in Cells : One(Gone, c) = 0 /\ One(Undef, c) = 0 /\ One(Scalar, c) = 0
    /\ FreeCell.kind = "free" /\ FreeCell.rc = 0 /\ FreeCell.item = Undef
    /\ FreeCell \in CellType
    /\ Undef.t = "undef"
BY ValuesAssumption DEF CellType, Gone, Undef, Scalar, Zval, Zvals, PointsIn, Counted, One, FreeCell

\* A zval that holds nothing counts nowhere.
LEMMA Uncounted ==
    ASSUME NEW h, NEW z \in Zvals, PointsIn(h, z), ~Counted(z)
    PROVE  \A c \in Cells : One(z, c) = 0
BY ValuesAssumption DEF PointsIn, One

\* What becomes of the balance when cell d changes
LEMMA PutCell ==
    ASSUME NEW h \in HeapType, NEW g \in HeapType, NEW d \in Cells,
           \A e \in Cells : e # d => g[e] = h[e]
    PROVE  \A c \in Cells :
              /\ Balance(h, c) \in Int
              /\ Balance(g, c) = Balance(h, c) + (IF c = d THEN g[d].rc - h[d].rc ELSE 0)
                                               + One(h[d].item, c) - One(g[d].item, c)
<1>1. ASSUME NEW c \in Cells
      PROVE  /\ Balance(h, c) \in Int
             /\ Balance(g, c) = Balance(h, c) + (IF c = d THEN g[d].rc - h[d].rc ELSE 0)
                                              + One(h[d].item, c) - One(g[d].item, c)
    <2>1. /\ InItems(h, c) \in Nat
          /\ InItems(g, c) = InItems(h, c) - One(h[d].item, c) + One(g[d].item, c)
        BY CountItems
    <2>2. h[c].rc \in Int /\ h[d].rc \in Int /\ g[d].rc \in Int
        BY DEF HeapType, CellType
    <2> DEFINE change == IF c = d THEN g[d].rc - h[d].rc ELSE 0
    <2>3. change \in Int /\ g[c].rc = h[c].rc + change
        BY <2>2
    <2>4. One(h[d].item, c) \in Int /\ One(g[d].item, c) \in Int
        BY DEF One
    <2> HIDE DEF change
    <2>5. Balance(g, c) = Balance(h, c) + change + One(h[d].item, c) - One(g[d].item, c)
        BY <2>1, <2>2, <2>3, <2>4 DEF Balance
    <2>6. QED
        BY <2>1, <2>2, <2>5 DEF Balance, change
<1>2. QED
    BY <1>1

\* A live cell gets another count.
LEMMA Recount ==
    ASSUME NEW h, WellFormed(h), NEW d \in Cells, h[d].kind # "free", NEW n \in Int,
           NEW g, g = WithCount(h, d, n)
    PROVE  /\ WellFormed(g) /\ Carries(h, g) /\ SameItems(h, g)
           /\ \A c \in Cells : g[c].rc = IF c = d THEN n ELSE h[c].rc
           /\ \A c \in Cells :
                 /\ Balance(h, c) \in Int
                 /\ Balance(g, c) = Balance(h, c) + (IF c = d THEN n - h[d].rc ELSE 0)
<1>1. h \in HeapType
    BY DEF WellFormed
<1>2. /\ g \in HeapType
      /\ \A e \in Cells : e # d => g[e] = h[e]
      /\ g[d].kind = h[d].kind /\ g[d].item = h[d].item /\ g[d].rc = n
    BY <1>1 DEF WithCount, HeapType, CellType
<1>3. \A c \in Cells :
        /\ Balance(h, c) \in Int
        /\ Balance(g, c) = Balance(h, c) + (IF c = d THEN g[d].rc - h[d].rc ELSE 0)
                                         + One(h[d].item, c) - One(g[d].item, c)
    BY <1>1, <1>2, PutCell
<1>4. SameItems(h, g) /\ \A c \in Cells : g[c].rc = IF c = d THEN n ELSE h[c].rc
    BY <1>2 DEF SameItems
<1>5. Carries(h, g)
    <2>1. ASSUME NEW y \in Zvals, PointsIn(h, y) PROVE PointsIn(g, y)
        BY <1>4, <2>1 DEF SameItems, PointsIn
    <2>2. QED
        BY <2>1 DEF Carries
<1>6. WellFormed(g)
    <2>1. ASSUME NEW e \in Cells PROVE PointsIn(g, g[e].item)
        <3>1. PointsIn(h, h[e].item) /\ g[e].item = h[e].item
            BY <1>4 DEF WellFormed, SameItems
        <3>2. QED
            BY <1>4, <3>1 DEF SameItems, PointsIn
    <2>2. ASSUME NEW e \in Cells, g[e].kind = "free" PROVE g[e] = FreeCell
        <3>1. e # d
            BY <1>2, <2>2
        <3>2. QED
            BY <1>2, <2>2, <3>1 DEF WellFormed
    <2>3. \A e \in Cells : g[e].kind = "ref" => g[e].item.t # "ref"
        BY <1>4 DEF SameItems, WellFormed
    <2>4. QED
        BY <1>2, <2>1, <2>2, <2>3 DEF WellFormed
<1>7. ASSUME NEW c \in Cells
      PROVE  Balance(g, c) = Balance(h, c) + (IF c = d THEN n - h[d].rc ELSE 0)
    <2>1. One(h[d].item, c) \in Int /\ g[d].item = h[d].item /\ g[d].rc = n
        BY <1>2 DEF One
    <2>2. h[d].rc \in Int
        BY <1>1 DEF HeapType, CellType
    <2>3. QED
        BY <1>3, <2>1, <2>2
<1>8. QED
    BY <1>3, <1>4, <1>5, <1>6, <1>7

\* Z_ADDREF: one more holder of what z points to, if that is counted
LEMMA AddRefIs ==
    ASSUME NEW h, WellFormed(h), NEW z \in Zvals, PointsIn(h, z), NEW g, g = AddRef(h, z)
    PROVE  /\ WellFormed(g) /\ Carries(h, g) /\ SameItems(h, g)
           /\ \A c \in Cells : g[c].rc = h[c].rc + One(z, c)
           /\ \A c \in Cells : Balance(h, c) \in Int /\ Balance(g, c) = Balance(h, c) + One(z, c)
<1>1. CASE Counted(z)
    <2>1. PICK d \in Cells : z.p = d
        BY <1>1 DEF PointsIn
    <2>2. h[d].kind # "free" /\ h \in HeapType /\ h[d].rc \in Int
        BY <1>1, <2>1 DEF PointsIn, Counted, WellFormed, HeapType, CellType
    <2>3. PICK n \in Int : n = h[d].rc + 1
        BY <2>2
    <2>4. g = WithCount(h, d, n)
        BY <1>1, <2>1, <2>2, <2>3 DEF AddRef, WithCount
    <2>5. /\ WellFormed(g) /\ Carries(h, g) /\ SameItems(h, g)
          /\ \A c \in Cells : g[c].rc = IF c = d THEN n ELSE h[c].rc
          /\ \A c \in Cells :
                /\ Balance(h, c) \in Int
                /\ Balance(g, c) = Balance(h, c) + (IF c = d THEN n - h[d].rc ELSE 0)
        BY <2>2, <2>4, Recount
    <2>6. ASSUME NEW c \in Cells
          PROVE  Balance(g, c) = Balance(h, c) + One(z, c) /\ g[c].rc = h[c].rc + One(z, c)
        <3>1. Balance(h, c) \in Int /\ h[c].rc \in Int
            BY <2>2, <2>5 DEF HeapType, CellType
        <3>2. QED
            BY <2>1, <2>2, <2>3, <2>5, <3>1 DEF One
    <2>7. QED
        BY <2>5, <2>6
<1>2. CASE ~Counted(z)
    <2>1. g = h /\ \A c \in Cells : One(z, c) = 0
        BY <1>2, Uncounted DEF AddRef
    <2>2. ASSUME NEW c \in Cells PROVE Balance(h, c) \in Int /\ h[c].rc \in Int
        <3>1. h \in HeapType /\ h[c].rc \in Int
            BY DEF WellFormed, HeapType, CellType
        <3>2. InItems(h, c) \in Nat
            BY <3>1, CountItems
        <3>3. QED
            BY <3>1, <3>2 DEF Balance
    <2>3. QED
        BY <2>1, <2>2 DEF Carries, SameItems
<1>3. QED
    BY <1>1, <1>2

\* Z_DELREF: one holder less
LEMMA DelRefIs ==
    ASSUME NEW h, WellFormed(h), NEW z \in Zvals, PointsIn(h, z), Counted(z),
           NEW g, g = DelRef(h, z)
    PROVE  /\ WellFormed(g) /\ Carries(h, g) /\ SameItems(h, g)
           /\ \A c \in Cells : g[c].rc = h[c].rc - One(z, c)
           /\ \A c \in Cells : Balance(h, c) \in Int /\ Balance(g, c) = Balance(h, c) - One(z, c)
<1>1. PICK d \in Cells : z.p = d
    BY DEF PointsIn
<1>2. h[d].kind # "free" /\ h \in HeapType /\ h[d].rc \in Int
    BY <1>1 DEF PointsIn, Counted, WellFormed, HeapType, CellType
<1>3. PICK n \in Int : n = h[d].rc - 1
    BY <1>2
<1>4. g = WithCount(h, d, n)
    BY <1>1, <1>2, <1>3 DEF DelRef, WithCount
<1>5. /\ WellFormed(g) /\ Carries(h, g) /\ SameItems(h, g)
      /\ \A c \in Cells : g[c].rc = IF c = d THEN n ELSE h[c].rc
      /\ \A c \in Cells :
            /\ Balance(h, c) \in Int
            /\ Balance(g, c) = Balance(h, c) + (IF c = d THEN n - h[d].rc ELSE 0)
    BY <1>2, <1>4, Recount
<1>6. ASSUME NEW c \in Cells
      PROVE  Balance(g, c) = Balance(h, c) - One(z, c) /\ g[c].rc = h[c].rc - One(z, c)
    <2>1. Balance(h, c) \in Int /\ h[c].rc \in Int
        BY <1>2, <1>5 DEF HeapType, CellType
    <2>2. QED
        BY <1>1, <1>2, <1>3, <1>5, <2>1 DEF One
<1>7. QED
    BY <1>5, <1>6

\* A free cell is taken, with rc holders to come.
LEMMA AllocIs ==
    ASSUME NEW h, WellFormed(h), NEW d \in Cells, h[d].kind = "free", NEW kind \in {"arr", "ref"},
           NEW rc \in Nat, NEW item \in Zvals, PointsIn(h, item), kind = "ref" => item.t # "ref",
           NEW g, g = Alloc(h, d, kind, rc, item)
    PROVE  /\ WellFormed(g) /\ Carries(h, g)
           /\ g[d].kind = kind /\ g[d].item = item /\ g[d].rc = rc
           /\ \A e \in Cells : e # d => g[e] = h[e]
           /\ \A c \in Cells : /\ Balance(h, c) \in Int
                               /\ Balance(g, c) = Balance(h, c) + (IF c = d THEN rc ELSE 0) - One(item, c)
<1>1. h \in HeapType /\ h[d] = FreeCell
    BY DEF WellFormed
<1>2. /\ g \in HeapType
      /\ \A e \in Cells : e # d => g[e] = h[e]
      /\ g[d].kind = kind /\ g[d].item = item /\ g[d].rc = rc
    BY <1>1 DEF Alloc, HeapType, CellType
<1>3. \A c \in Cells :
        /\ Balance(h, c) \in Int
        /\ Balance(g, c) = Balance(h, c) + (IF c = d THEN g[d].rc - h[d].rc ELSE 0)
                                         + One(h[d].item, c) - One(g[d].item, c)
    BY <1>1, <1>2, PutCell
<1>4. ASSUME NEW y \in Zvals, PointsIn(h, y) PROVE PointsIn(g, y)
    <2>1. CASE Counted(y)
        <3>1. y.p \in Cells /\ y.p # d
            BY <1>4, <2>1 DEF PointsIn, Counted
        <3>2. QED
            BY <1>2, <1>4, <2>1, <3>1 DEF PointsIn
    <2>2. CASE ~Counted(y)
        BY <1>4, <2>2 DEF PointsIn
    <2>3. QED
        BY <2>1, <2>2
<1>5. WellFormed(g)
    <2>1. ASSUME NEW e \in Cells PROVE PointsIn(g, g[e].item)
        <3>1. h[e].item \in Zvals /\ PointsIn(h, h[e].item)
            BY <1>1 DEF WellFormed, HeapType, CellType
        <3>2. QED
            BY <1>2, <1>4, <3>1
    <2>2. ASSUME NEW e \in Cells
          PROVE  /\ g[e].kind = "free" => g[e] = FreeCell
                 /\ g[e].kind = "ref" => g[e].item.t # "ref"
        BY <1>2 DEF WellFormed
    <2>3. QED
        BY <1>2, <2>1, <2>2 DEF WellFormed
<1>6. ASSUME NEW c \in Cells
      PROVE  Balance(g, c) = Balance(h, c) + (IF c = d THEN rc ELSE 0) - One(item, c)
    <2>1. One(h[d].item, c) = 0 /\ h[d].rc = 0
        BY <1>1, Plain
    <2>2. One(item, c) \in Int
        BY DEF One
    <2>3. QED
        BY <1>2, <1>3, <2>1, <2>2
<1>7. QED
    BY <1>2, <1>3, <1>4, <1>5, <1>6 DEF Carries

\* The element of a live cell is replaced.
LEMMA SetItemIs ==
    ASSUME NEW h, WellFormed(h), NEW d \in Cells, h[d].kind # "free", NEW z \in Zvals, PointsIn(h, z),
           h[d].kind = "ref" => z.t # "ref",
           NEW g, g = WithItem(h, d, z)
    PROVE  /\ WellFormed(g) /\ Carries(h, g)
           /\ \A e \in Cells : g[e].kind = h[e].kind /\ g[e].rc = h[e].rc
           /\ g[d].item = z /\ \A e \in Cells : e # d => g[e] = h[e]
           /\ \A c \in Cells : /\ Balance(h, c) \in Int
                               /\ Balance(g, c) = Balance(h, c) + One(h[d].item, c) - One(z, c)
<1>1. h \in HeapType
    BY DEF WellFormed
<1>2. /\ g \in HeapType
      /\ \A e \in Cells : e # d => g[e] = h[e]
      /\ g[d].kind = h[d].kind /\ g[d].item = z /\ g[d].rc = h[d].rc
    BY <1>1 DEF WithItem, HeapType, CellType
<1>3. \A c \in Cells :
        /\ Balance(h, c) \in Int
        /\ Balance(g, c) = Balance(h, c) + (IF c = d THEN g[d].rc - h[d].rc ELSE 0)
                                         + One(h[d].item, c) - One(g[d].item, c)
    BY <1>1, <1>2, PutCell
<1>4. \A e \in Cells : g[e].kind = h[e].kind /\ g[e].rc = h[e].rc
    BY <1>2
<1>5. ASSUME NEW y \in Zvals, PointsIn(h, y) PROVE PointsIn(g, y)
    BY <1>4, <1>5 DEF PointsIn
<1>6. WellFormed(g)
    <2>1. ASSUME NEW e \in Cells PROVE PointsIn(g, g[e].item)
        <3>1. h[e].item \in Zvals /\ PointsIn(h, h[e].item)
            BY <1>1 DEF WellFormed, HeapType, CellType
        <3>2. QED
            BY <1>2, <1>5, <3>1
    <2>2. ASSUME NEW e \in Cells
          PROVE  /\ g[e].kind = "free" => g[e] = FreeCell
                 /\ g[e].kind = "ref" => g[e].item.t # "ref"
        BY <1>2 DEF WellFormed
    <2>3. QED
        BY <1>2, <2>1, <2>2 DEF WellFormed
<1>7. ASSUME NEW c \in Cells
      PROVE  Balance(g, c) = Balance(h, c) + One(h[d].item, c) - One(z, c)
    <2>1. One(h[d].item, c) \in Int /\ One(z, c) \in Int
        BY DEF One
    <2>2. h[d].rc \in Int
        BY <1>1 DEF HeapType, CellType
    <2>3. QED
        BY <1>2, <1>3, <2>1, <2>2
<1>8. QED
    BY <1>2, <1>3, <1>4, <1>5, <1>6, <1>7 DEF Carries

\* A cell is freed that no element holds.
LEMMA FreeIs ==
    ASSUME NEW h, WellFormed(h), NEW d \in Cells, h[d].rc = 1,
           \A e \in Cells : h[e].item.p # d,
           NEW g, g = Freed(h, d)
    PROVE  /\ WellFormed(g)
           /\ g[d] = FreeCell /\ \A e \in Cells : e # d => g[e] = h[e]
           /\ \A z \in Zvals : PointsIn(h, z) /\ z.p # d => PointsIn(g, z)
           /\ \A c \in Cells : /\ Balance(h, c) \in Int
                               /\ Balance(g, c) = Balance(h, c) - (IF c = d THEN 1 ELSE 0)
                                                     + One(h[d].item, c)
<1>1. h \in HeapType
    BY DEF WellFormed
<1>2. /\ g \in HeapType
      /\ \A e \in Cells : e # d => g[e] = h[e]
      /\ g[d] = FreeCell
    BY <1>1, Plain DEF Freed, HeapType
<1>3. \A c \in Cells :
        /\ Balance(h, c) \in Int
        /\ Balance(g, c) = Balance(h, c) + (IF c = d THEN g[d].rc - h[d].rc ELSE 0)
                                         + One(h[d].item, c) - One(g[d].item, c)
    BY <1>1, <1>2, PutCell
<1>4. ASSUME NEW z \in Zvals, PointsIn(h, z), z.p # d PROVE PointsIn(g, z)
    BY <1>2, <1>4 DEF PointsIn
<1>5. WellFormed(g)
    <2>1. ASSUME NEW e \in Cells PROVE PointsIn(g, g[e].item)
        <3>1. h[e].item \in Zvals /\ PointsIn(h, h[e].item) /\ h[e].item.p # d
            BY <1>1 DEF WellFormed, HeapType, CellType
        <3>2. QED
            BY <1>2, <1>4, <3>1, Plain
    <2>2. ASSUME NEW e \in Cells
          PROVE  /\ g[e].kind = "free" => g[e] = FreeCell
                 /\ g[e].kind = "ref" => g[e].item.t # "ref"
        BY <1>2, Plain DEF WellFormed
    <2>3. QED
        BY <1>2, <2>1, <2>2 DEF WellFormed
<1>6. ASSUME NEW c \in Cells
      PROVE  Balance(g, c) = Balance(h, c) - (IF c = d THEN 1 ELSE 0) + One(h[d].item, c)
    <2>1. One(h[d].item, c) \in Int /\ One(g[d].item, c) = 0 /\ g[d].rc = 0
        BY <1>2, Plain DEF One
    <2>2. QED
        BY <1>3, <2>1
<1>7. QED
    BY <1>2, <1>3, <1>4, <1>5, <1>6

\* zend_array_dup: the copy has one holder to come, nothing else changes hands.
LEMMA DupIs ==
    ASSUME NEW h, WellFormed(h), NEW d \in Cells, h[d].kind = "free",
           NEW z \in Zvals, PointsIn(h, z), z.t = "arr", NEW g, g = Dup(h, d, z)
    PROVE  /\ WellFormed(g) /\ Carries(h, g) /\ g[d].kind = "arr"
           /\ \A e \in Cells : e # d => g[e].kind = h[e].kind /\ g[e].item = h[e].item
           /\ \A c \in Cells : /\ Balance(h, c) \in Int
                               /\ Balance(g, c) = Balance(h, c) + (IF c = d THEN 1 ELSE 0)
<1> DEFINE i == h[z.p].item
           e == IF i.t = "ref" /\ h[i.p].rc = 1 THEN h[i.p].item ELSE i
           m == AddRef(h, e)
<1>1. h \in HeapType /\ z.p \in Cells
    BY DEF WellFormed, PointsIn, Counted
<1>2. i \in Zvals /\ PointsIn(h, i)
    BY <1>1 DEF WellFormed, HeapType, CellType
<1>3. i.t = "ref" => i.p \in Cells
    BY <1>2 DEF PointsIn, Counted
<1>4. i.t = "ref" => h[i.p].item \in Zvals /\ PointsIn(h, h[i.p].item)
    BY <1>1, <1>3 DEF WellFormed, HeapType, CellType
<1>5. e \in Zvals /\ PointsIn(h, e)
    BY <1>2, <1>4
<1>6. g = Alloc(m, d, "arr", 1, e)
    BY DEF Dup
<1> HIDE DEF e, m
<1>7. /\ WellFormed(m) /\ Carries(h, m) /\ SameItems(h, m)
      /\ \A c \in Cells : Balance(h, c) \in Int /\ Balance(m, c) = Balance(h, c) + One(e, c)
    BY <1>5, AddRefIs DEF m
<1>8. m[d].kind = "free" /\ PointsIn(m, e)
    BY <1>5, <1>7 DEF SameItems, Carries
<1>9. /\ WellFormed(g) /\ Carries(m, g) /\ g[d].kind = "arr"
      /\ \A b \in Cells : b # d => g[b] = m[b]
      /\ \A c \in Cells : /\ Balance(m, c) \in Int
                          /\ Balance(g, c) = Balance(m, c) + (IF c = d THEN 1 ELSE 0) - One(e, c)
    BY <1>5, <1>6, <1>7, <1>8, AllocIs
<1>10. Carries(h, g)
    BY <1>7, <1>9 DEF Carries
<1>11. \A b \in Cells : b # d => g[b].kind = h[b].kind /\ g[b].item = h[b].item
    BY <1>7, <1>9 DEF SameItems
<1>12. ASSUME NEW c \in Cells
       PROVE  Balance(g, c) = Balance(h, c) + (IF c = d THEN 1 ELSE 0)
    <2>1. One(e, c) \in Int
        BY DEF One
    <2>2. Balance(h, c) \in Int /\ Balance(m, c) = Balance(h, c) + One(e, c)
        BY <1>7
    <2>3. Balance(g, c) = Balance(m, c) + (IF c = d THEN 1 ELSE 0) - One(e, c)
        BY <1>9
    <2>4. QED
        BY <2>1, <2>2, <2>3
<1>13. QED
    BY <1>7, <1>9, <1>10, <1>11, <1>12

-----------------------------------------------------------------------------
(***************************************************************************)
(* Who holds a cell.                                                        *)
(***************************************************************************)

\* The counts are numbers; a count of zero means that nobody holds the cell, and
\* a variable that is counted alone is alone.
LEMMA Nobody ==
    ASSUME NEW v \in [Vars -> Zvals], NEW h \in HeapType, NEW s \in Seq(Zvals), NEW c
    PROVE  /\ InVars(v, c) \in Nat /\ InItems(h, c) \in Nat /\ InList(s, c) \in Nat
           /\ \A x \in Vars : v[x].p = c => InVars(v, c) >= 1
           /\ \A x, y \in Vars : v[x].p = c /\ v[y].p = c /\ x # y => InVars(v, c) >= 2
           /\ \A d \in Cells : h[d].item.p = c => InItems(h, c) >= 1
           /\ \A i \in DOMAIN s : s[i].p = c => InList(s, c) >= 1
<1> DEFINE A == {x \in Vars : v[x].p = c}
           B == {d \in Cells : h[d].item.p = c}
           C == {i \in DOMAIN s : s[i].p = c}
<1>1. /\ IsFiniteSet(Vars) /\ A \in SUBSET Vars
      /\ IsFiniteSet(Cells) /\ B \in SUBSET Cells
    BY ValuesAssumption
<1>2. IsFiniteSet(DOMAIN s) /\ C \in SUBSET DOMAIN s
    <2>1. DOMAIN s = 1..Len(s) /\ Len(s) \in Nat
        OBVIOUS
    <2>2. QED
        BY <2>1, FS_Interval
<1>3. /\ \A x \in Vars : v[x].p = c <=> x \in A
      /\ \A d \in Cells : h[d].item.p = c <=> d \in B
      /\ \A i \in DOMAIN s : s[i].p = c <=> i \in C
    OBVIOUS
<1>4. InVars(v, c) = Cardinality(A) /\ InItems(h, c) = Cardinality(B) /\ InList(s, c) = Cardinality(C)
    BY DEF InVars, InItems, InList
<1> HIDE DEF A, B, C
<1>5. /\ Cardinality(A) \in Nat /\ (\A x \in A : Cardinality(A) >= 1)
      /\ \A x, y \in A : x # y => Cardinality(A) >= 2
    BY <1>1, CountMore
<1>6. Cardinality(B) \in Nat /\ \A x \in B : Cardinality(B) >= 1
    BY <1>1, CountMore
<1>7. Cardinality(C) \in Nat /\ \A x \in C : Cardinality(C) >= 1
    BY <1>2, CountMore
<1>8. QED
    BY <1>3, <1>4, <1>5, <1>6, <1>7

\* Between operations the count of a cell is its elements, variables and lost zvals.
LEMMA Settled ==
    ASSUME ValuesInv, Sound
    PROVE  /\ val \in [Vars -> Zvals] /\ WellFormed(heap) /\ heap \in HeapType
           /\ lost \in Seq(Zvals) /\ trash = <<>> /\ broken = FALSE
           /\ \A x \in Vars : PointsIn(heap, val[x])
           /\ \A i \in DOMAIN lost : PointsIn(heap, lost[i])
           /\ \A c \in Cells : /\ InVars(val, c) \in Nat /\ InList(lost, c) \in Nat
                               /\ Balance(heap, c) = InVars(val, c) + InList(lost, c)
<1>1. /\ val \in [Vars -> Zvals] /\ WellFormed(heap) /\ heap \in HeapType
      /\ lost \in Seq(Zvals) /\ trash = <<>> /\ broken = FALSE
      /\ \A x \in Vars : PointsIn(heap, val[x])
      /\ \A i \in DOMAIN lost : PointsIn(heap, lost[i])
    BY DEF ValuesInv, Sound, WellFormed
<1>2. ASSUME NEW c \in Cells
      PROVE  /\ InVars(val, c) \in Nat /\ InList(lost, c) \in Nat
             /\ Balance(heap, c) = InVars(val, c) + InList(lost, c)
    <2>1. InVars(val, c) \in Nat /\ InList(lost, c) \in Nat
        BY <1>1, Nobody
    <2>2. Balance(heap, c) = InVars(val, c) + InList(trash, c) + InList(lost, c)
        BY <1>1 DEF ValuesInv, Balanced
    <2>3. InList(trash, c) = 0
        BY <1>1, CountList
    <2>4. QED
        BY <2>1, <2>2, <2>3
<1>3. QED
    BY <1>1, <1>2

\* ZVAL_DEREF gives a zval that is not a reference, in one step.
LEMMA DerefIs ==
    ASSUME ValuesInv, NEW x \in Vars
    PROVE  /\ val[x] \in Zvals /\ PointsIn(heap, val[x])
           /\ Deref(val[x]) \in Zvals /\ PointsIn(heap, Deref(val[x])) /\ Deref(val[x]).t # "ref"
<1>1. val[x] \in Zvals /\ PointsIn(heap, val[x]) /\ WellFormed(heap) /\ heap \in HeapType
    BY DEF ValuesInv, WellFormed
<1>2. CASE val[x].t = "ref"
    <2>1. val[x].p \in Cells /\ heap[val[x].p].kind = "ref" /\ Deref(val[x]) = heap[val[x].p].item
        BY <1>1, <1>2 DEF PointsIn, Counted, Deref
    <2>2. QED
        BY <1>1, <2>1 DEF WellFormed, HeapType, CellType
<1>3. CASE val[x].t # "ref"
    BY <1>1, <1>3 DEF Deref
<1>4. QED
    BY <1>2, <1>3

-----------------------------------------------------------------------------
(***************************************************************************)
(* The steps.                                                               *)
(***************************************************************************)

\* What a step has to show.
LEMMA Keeps ==
    ASSUME val' \in [Vars -> Zvals], WellFormed(heap'),
           trash' \in Seq(Zvals), Len(trash') <= 1,
           lost' \in Seq(Zvals), Len(lost') <= MaxLost, broken' = FALSE,
           \A x \in Vars : PointsIn(heap', val'[x]),
           \A i \in DOMAIN trash' : PointsIn(heap', trash'[i]),
           \A i \in DOMAIN lost' : PointsIn(heap', lost'[i]),
           \A c \in Cells : Balance(heap', c) = InVars(val', c) + InList(trash', c) + InList(lost', c)
    PROVE  ValuesInv'
<1>1. ASSUME NEW c \in Cells PROVE heap'[c].rc \in Nat
    <2>1. heap' \in HeapType /\ heap'[c].rc \in Int
        BY DEF WellFormed, HeapType, CellType
    <2>2. InVars(val', c) \in Nat /\ InItems(heap', c) \in Nat
        BY <2>1, Nobody
    <2>3. InList(trash', c) \in Nat /\ InList(lost', c) \in Nat
        BY <2>1, Nobody
    <2>4. heap'[c].rc - InItems(heap', c) = InVars(val', c) + InList(trash', c) + InList(lost', c)
        BY DEF Balance
    <2>5. QED
        BY <2>1, <2>2, <2>3, <2>4
<1>2. QED
    BY <1>1 DEF ValuesInv, Balanced

\* Variable x becomes z.
Becomes(x, z) == val' = [val EXCEPT ![x] = z]

\* A step that gives variable x zval z and releases what t lists
LEMMA VarStep ==
    ASSUME ValuesInv, Sound, NEW x \in Vars, NEW z \in Zvals, Becomes(x, z),
           WellFormed(heap'), PointsIn(heap', z),
           \A y \in Vars : y # x => PointsIn(heap', val[y]),
           \A i \in DOMAIN lost : PointsIn(heap', lost[i]),
           NEW t \in Seq(Zvals), trash' = t, Len(t) <= 1, \A i \in DOMAIN t : PointsIn(heap', t[i]),
           UNCHANGED history,
           \A c \in Cells :
              Balance(heap', c) = Balance(heap, c) - One(val[x], c) + One(z, c) + InList(t, c)
    PROVE  ValuesInv'
<1>1. /\ val \in [Vars -> Zvals] /\ lost \in Seq(Zvals) /\ broken = FALSE
      /\ \A c \in Cells : /\ InVars(val, c) \in Nat /\ InList(lost, c) \in Nat
                          /\ Balance(heap, c) = InVars(val, c) + InList(lost, c)
    BY Settled
<1>2. lost' = lost /\ broken' = FALSE /\ Len(lost') <= MaxLost
    BY <1>1 DEF history, ValuesInv
<1>3. /\ val' \in [Vars -> Zvals] /\ val'[x] = z /\ \A y \in Vars : y # x => val'[y] = val[y]
      /\ \A y \in Vars : PointsIn(heap', val'[y])
    BY <1>1 DEF Becomes
<1>4. ASSUME NEW c \in Cells
      PROVE  Balance(heap', c) = InVars(val', c) + InList(trash', c) + InList(lost', c)
    <2>1. InVars(val', c) = InVars(val, c) - One(val[x], c) + One(val'[x], c)
        BY <1>1, <1>3, CountVars
    <2>2. InVars(val, c) \in Nat /\ InList(lost, c) \in Nat
          /\ Balance(heap, c) = InVars(val, c) + InList(lost, c)
        BY <1>1
    <2>3. InList(t, c) \in Nat
        BY CountList
    <2>4. One(val[x], c) \in Int /\ One(z, c) \in Int
        BY DEF One
    <2>5. QED
        BY <1>2, <1>3, <2>1, <2>2, <2>3, <2>4
<1>5. QED
    BY <1>1, <1>2, <1>3, <1>4, Keeps

\* The same when nothing is released and everything points where it did
LEMMA NewVarStep ==
    ASSUME ValuesInv, NEW x \in Vars, Vacant(x), NEW z \in Zvals, Becomes(x, z),
           WellFormed(heap'), PointsIn(heap', z), Carries(heap, heap'),
           UNCHANGED <<trash, history>>,
           \A c \in Cells : Balance(heap', c) = Balance(heap, c) + One(z, c)
    PROVE  ValuesInv'
<1>1. /\ val \in [Vars -> Zvals] /\ lost \in Seq(Zvals) /\ trash = <<>> /\ Sound /\ heap \in HeapType
      /\ \A y \in Vars : PointsIn(heap, val[y])
      /\ \A i \in DOMAIN lost : PointsIn(heap, lost[i])
      /\ \A c \in Cells : /\ InVars(val, c) \in Nat /\ InList(lost, c) \in Nat
                          /\ Balance(heap, c) = InVars(val, c) + InList(lost, c)
    BY Settled DEF Vacant
<1>2. PICK t \in Seq(Zvals) : t = trash
    BY DEF ValuesInv
<1>3. trash' = t /\ Len(t) <= 1 /\ (\A i \in DOMAIN t : PointsIn(heap', t[i])) /\ UNCHANGED history
    BY <1>1, <1>2
<1>4. \A y \in Vars : PointsIn(heap', val[y])
    BY <1>1 DEF Carries
<1>5. \A i \in DOMAIN lost : PointsIn(heap', lost[i])
    BY <1>1 DEF Carries
<1>6. ASSUME NEW c \in Cells
      PROVE  Balance(heap', c) = Balance(heap, c) - One(val[x], c) + One(z, c) + InList(t, c)
    <2>1. One(val[x], c) = 0
        BY Plain DEF Vacant
    <2>2. InList(t, c) = 0
        BY <1>1, <1>2, CountList
    <2>3. One(z, c) \in Int /\ Balance(heap, c) \in Int
        BY <1>1 DEF One
    <2>4. QED
        BY <2>1, <2>2, <2>3
<1>7. QED
    BY <1>1, <1>3, <1>4, <1>5, <1>6, VarStep

\* Value(), Value(int)
LEMMA CreateKeeps ==
    ASSUME ValuesInv, NEW x \in Vars, Create(x)
    PROVE  ValuesInv'
<1>1. Vacant(x) /\ Becomes(x, Scalar) /\ heap' = heap /\ UNCHANGED <<trash, history>>
    BY DEF Create, Becomes
<1>2. /\ WellFormed(heap) /\ Carries(heap, heap)
      /\ \A c \in Cells : Balance(heap, c) \in Int
    BY <1>1, Settled DEF Vacant, Carries
<1>3. \A c \in Cells : Balance(heap, c) = Balance(heap, c) + One(Scalar, c)
    BY <1>2, Plain
<1>4. QED
    BY <1>1, <1>2, <1>3, Plain, NewVarStep

\* Value(Type::Array)
LEMMA CreateArrayKeeps ==
    ASSUME ValuesInv, NEW x \in Vars, CreateArray(x)
    PROVE  ValuesInv'
<1>1. PICK d \in Fresh : Becomes(x, Zval("arr", d)) /\ heap' = Alloc(heap, d, "arr", 1, Undef)
    BY DEF CreateArray, Becomes
<1>2. Vacant(x) /\ UNCHANGED <<trash, history>> /\ d \in Cells /\ heap[d].kind = "free" /\ WellFormed(heap)
    BY Settled DEF CreateArray, Fresh, Vacant
<1>3. /\ WellFormed(heap') /\ Carries(heap, heap') /\ heap'[d].kind = "arr"
      /\ \A c \in Cells : /\ Balance(heap, c) \in Int
                          /\ Balance(heap', c) = Balance(heap, c) + (IF c = d THEN 1 ELSE 0) - One(Undef, c)
    BY <1>1, <1>2, Plain, AllocIs
<1>4. Zval("arr", d) \in Zvals /\ PointsIn(heap', Zval("arr", d))
    BY <1>2, <1>3 DEF Zval, Zvals, PointsIn, Counted
<1>5. ASSUME NEW c \in Cells PROVE Balance(heap', c) = Balance(heap, c) + One(Zval("arr", d), c)
    <2>1. One(Undef, c) = 0 /\ One(Zval("arr", d), c) = IF c = d THEN 1 ELSE 0
        BY Plain DEF One, Zval
    <2>2. QED
        BY <1>3, <2>1
<1>6. QED
    BY <1>1, <1>2, <1>3, <1>4, <1>5, NewVarStep

\* A variable takes another holder's zval and counts itself.
LEMMA CopyKeeps ==
    ASSUME ValuesInv, NEW x \in Vars, Vacant(x), NEW z \in Zvals, PointsIn(heap, z),
           Becomes(x, z), heap' = AddRef(heap, z), UNCHANGED <<trash, history>>
    PROVE  ValuesInv'
<1>1. WellFormed(heap)
    BY DEF ValuesInv
<1>2. /\ WellFormed(heap') /\ Carries(heap, heap')
      /\ \A c \in Cells : Balance(heap, c) \in Int /\ Balance(heap', c) = Balance(heap, c) + One(z, c)
    BY <1>1, AddRefIs
<1>3. PointsIn(heap', z)
    BY <1>2 DEF Carries
<1>4. QED
    BY <1>2, <1>3, NewVarStep

\* ZVAL_DUP into a variable that did not exist
LEMMA DuplicateKeeps ==
    ASSUME ValuesInv, NEW x \in Vars, Vacant(x), NEW z \in Zvals, PointsIn(heap, z), Duplicate(x, z)
    PROVE  ValuesInv'
<1>1. CASE z.t = "arr"
    <2>1. PICK d \in Fresh : Becomes(x, Zval("arr", d)) /\ heap' = Dup(heap, d, z)
        BY <1>1 DEF Duplicate, Becomes
    <2>2. UNCHANGED <<trash, history>> /\ d \in Cells /\ heap[d].kind = "free" /\ WellFormed(heap)
        BY Settled DEF Duplicate, Fresh, Vacant
    <2>3. /\ WellFormed(heap') /\ Carries(heap, heap') /\ heap'[d].kind = "arr"
          /\ \A c \in Cells : /\ Balance(heap, c) \in Int
                              /\ Balance(heap', c) = Balance(heap, c) + (IF c = d THEN 1 ELSE 0)
        BY <1>1, <2>1, <2>2, DupIs
    <2>4. Zval("arr", d) \in Zvals /\ PointsIn(heap', Zval("arr", d))
        BY <2>2, <2>3 DEF Zval, Zvals, PointsIn, Counted
    <2>5. \A c \in Cells : One(Zval("arr", d), c) = IF c = d THEN 1 ELSE 0
        BY DEF One, Zval
    <2>6. QED
        BY <2>1, <2>2, <2>3, <2>4, <2>5, NewVarStep
<1>2. CASE z.t # "arr"
    <2>1. Becomes(x, z) /\ heap' = AddRef(heap, z) /\ UNCHANGED <<trash, history>>
        BY <1>2 DEF Duplicate, Becomes
    <2>2. QED
        BY <2>1, CopyKeeps
<1>3. QED
    BY <1>1, <1>2

\* Value(const Value &)
LEMMA CopyConstructKeeps ==
    ASSUME ValuesInv, NEW x \in Vars, NEW y \in Vars, CopyConstruct(x, y)
    PROVE  ValuesInv'
<1>1. PICK z \in Zvals : z = Deref(val[y]) /\ PointsIn(heap, z)
    BY DerefIs
<1>2. Vacant(x) /\ Becomes(x, z) /\ heap' = AddRef(heap, z) /\ UNCHANGED <<trash, history>>
    BY <1>1 DEF CopyConstruct, Becomes
<1>3. QED
    BY <1>1, <1>2, CopyKeeps

\* Value(zval *)
LEMMA WrapKeeps ==
    ASSUME ValuesInv, NEW x \in Vars, NEW y \in Vars, Wrap(x, y)
    PROVE  ValuesInv'
<1>1. PICK z \in Zvals : z = val[y] /\ PointsIn(heap, z)
    BY DerefIs
<1>2. Vacant(x) /\ Duplicate(x, z)
    BY <1>1 DEF Wrap
<1>3. QED
    BY <1>1, <1>2, DuplicateKeeps

\* get()
LEMMA GetKeeps ==
    ASSUME ValuesInv, NEW x \in Vars, NEW y \in Vars, Get(x, y)
    PROVE  ValuesInv'
<1> DEFINE a == Deref(val[y])
           e == IF a.t = "arr" THEN heap[a.p].item ELSE Undef
           i == IF e = Undef THEN Scalar ELSE e
<1>1. a \in Zvals /\ PointsIn(heap, a) /\ WellFormed(heap) /\ heap \in HeapType
    BY DerefIs DEF ValuesInv, WellFormed
<1>2. e \in Zvals /\ PointsIn(heap, e)
    <2>1. CASE a.t = "arr"
        <3>1. a.p \in Cells /\ e = heap[a.p].item
            BY <1>1, <2>1 DEF PointsIn, Counted
        <3>2. QED
            BY <1>1, <3>1 DEF WellFormed, HeapType, CellType
    <2>2. CASE a.t # "arr"
        BY <2>2, Plain
    <2>3. QED
        BY <2>1, <2>2
<1>3. Vacant(x) /\ Duplicate(x, i)
    BY DEF Get
<1> HIDE DEF e
<1>4. i \in Zvals /\ PointsIn(heap, i)
    BY <1>2, Plain
<1> HIDE DEF i
<1>5. QED
    BY <1>3, <1>4, DuplicateKeeps

\* Two variables change: what becomes of their counts
LEMMA CountTwo ==
    ASSUME NEW v \in [Vars -> Zvals], NEW w \in [Vars -> Zvals], NEW x \in Vars, NEW y \in Vars, x # y,
           \A u \in Vars : u # x /\ u # y => w[u] = v[u]
    PROVE  \A c : /\ InVars(v, c) \in Nat
                  /\ InVars(w, c) = InVars(v, c) - One(v[x], c) + One(w[x], c) - One(v[y], c) + One(w[y], c)
<1>1. PICK m \in [Vars -> Zvals] : /\ m[x] = w[x] /\ m[y] = v[y]
                                   /\ \A u \in Vars : u # x => m[u] = v[u]
    <2>1. [v EXCEPT ![x] = w[x]] \in [Vars -> Zvals]
        OBVIOUS
    <2>2. QED
        BY <2>1
<1>2. \A u \in Vars : u # y => w[u] = m[u]
    BY <1>1
<1>3. ASSUME NEW c
      PROVE  /\ InVars(v, c) \in Nat
             /\ InVars(w, c) = InVars(v, c) - One(v[x], c) + One(w[x], c) - One(v[y], c) + One(w[y], c)
    <2>1. InVars(v, c) \in Nat /\ InVars(m, c) = InVars(v, c) - One(v[x], c) + One(m[x], c)
        BY <1>1, CountVars
    <2>2. InVars(m, c) \in Nat /\ InVars(w, c) = InVars(m, c) - One(m[y], c) + One(w[y], c)
        BY <1>2, CountVars
    <2>3. One(v[x], c) \in Int /\ One(w[x], c) \in Int /\ One(v[y], c) \in Int /\ One(w[y], c) \in Int
        BY DEF One
    <2>4. QED
        BY <1>1, <2>1, <2>2, <2>3
<1>4. QED
    BY <1>3

\* A step of two variables that releases nothing
LEMMA TwoVarStep ==
    ASSUME ValuesInv, Sound, NEW x \in Vars, NEW y \in Vars, x # y, NEW a \in Zvals, NEW b \in Zvals,
           val' \in [Vars -> Zvals], val'[x] = a, val'[y] = b,
           \A u \in Vars : u # x /\ u # y => val'[u] = val[u], UNCHANGED <<trash, history>>,
           WellFormed(heap'), Carries(heap, heap'), PointsIn(heap', a), PointsIn(heap', b),
           \A c \in Cells : Balance(heap', c) = Balance(heap, c) - One(val[x], c) + One(a, c)
                                                                 - One(val[y], c) + One(b, c)
    PROVE  ValuesInv'
<1>1. /\ val \in [Vars -> Zvals] /\ lost \in Seq(Zvals) /\ trash = <<>> /\ broken = FALSE
      /\ \A u \in Vars : PointsIn(heap, val[u])
      /\ \A i \in DOMAIN lost : PointsIn(heap, lost[i])
      /\ \A c \in Cells : /\ InVars(val, c) \in Nat /\ InList(lost, c) \in Nat
                          /\ Balance(heap, c) = InVars(val, c) + InList(lost, c)
    BY Settled
<1>2. \A c : InVars(val', c) = InVars(val, c) - One(val[x], c) + One(val'[x], c) - One(val[y], c) + One(val'[y], c)
    BY <1>1, CountTwo
<1>3. /\ trash' = trash /\ trash' \in Seq(Zvals) /\ Len(trash') <= 1 /\ lost' = lost
      /\ Len(lost') <= MaxLost /\ broken' = FALSE
    BY <1>1 DEF ValuesInv, history
<1>4. ASSUME NEW u \in Vars PROVE PointsIn(heap', val'[u])
    <2>1. PointsIn(heap', val[u])
        BY <1>1 DEF Carries
    <2>2. QED
        BY <1>2, <2>1
<1>5. \A i \in DOMAIN lost' : PointsIn(heap', lost'[i])
    BY <1>1, <1>3 DEF Carries
<1>6. \A i \in DOMAIN trash' : PointsIn(heap', trash'[i])
    BY <1>1, <1>3
<1>7. ASSUME NEW c \in Cells
      PROVE  Balance(heap', c) = InVars(val', c) + InList(trash', c) + InList(lost', c)
    <2>1. InList(trash', c) = 0
        BY <1>1, <1>3, CountList
    <2>2. One(val[x], c) \in Int /\ One(a, c) \in Int /\ One(val[y], c) \in Int /\ One(b, c) \in Int
        BY DEF One
    <2>3. InVars(val, c) \in Nat /\ InList(lost, c) \in Nat
          /\ Balance(heap, c) = InVars(val, c) + InList(lost, c)
        BY <1>1
    <2>4. InVars(val', c) = InVars(val, c) - One(val[x], c) + One(a, c) - One(val[y], c) + One(b, c)
        BY <1>2
    <2>5. QED
        BY <1>3, <2>1, <2>2, <2>3, <2>4
<1>8. QED
    BY <1>1, <1>2, <1>3, <1>4, <1>5, <1>6, <1>7, Keeps

\* Value(zval *, true), makeReference()
LEMMA WrapRefKeeps ==
    ASSUME ValuesInv, NEW x \in Vars, NEW y \in Vars, WrapRef(x, y)
    PROVE  ValuesInv'
<1>1. /\ Vacant(x) /\ Exists(y) /\ UNCHANGED <<trash, history>> /\ Sound /\ x # y
      /\ val[y] \in Zvals /\ PointsIn(heap, val[y]) /\ WellFormed(heap)
    BY DerefIs DEF WrapRef, Vacant, Exists, ValuesInv
<1>2. CASE val[y].t = "ref"
    <2>1. Becomes(x, val[y]) /\ heap' = AddRef(heap, val[y])
        BY <1>2 DEF WrapRef, Becomes
    <2>2. PICK z \in Zvals : z = val[y]
        BY <1>1
    <2>3. QED
        BY <1>1, <2>1, <2>2, CopyKeeps
<1>3. CASE val[y].t # "ref"
    <2>1. PICK d \in Fresh : /\ val' = [val EXCEPT ![x] = Zval("ref", d), ![y] = Zval("ref", d)]
                             /\ heap' = Alloc(heap, d, "ref", 2, val[y])
        BY <1>3 DEF WrapRef
    <2>2. d \in Cells /\ heap[d].kind = "free"
        BY DEF Fresh
    <2>3. PICK z \in Zvals : z = val[y]
        BY <1>1
    <2>4. heap' = Alloc(heap, d, "ref", 2, z) /\ PointsIn(heap, z) /\ z.t # "ref"
        BY <1>1, <1>3, <2>1, <2>3
    <2>5. /\ WellFormed(heap') /\ Carries(heap, heap') /\ heap'[d].kind = "ref"
          /\ \A c \in Cells : /\ Balance(heap, c) \in Int
                              /\ Balance(heap', c) = Balance(heap, c) + (IF c = d THEN 2 ELSE 0) - One(z, c)
        BY <1>1, <2>2, <2>4, AllocIs
    <2>6. Zval("ref", d) \in Zvals /\ Zval("ref", d).t = "ref" /\ Zval("ref", d).p = d
        BY <2>2 DEF Zval, Zvals
    <2>7. PICK a \in Zvals : a = Zval("ref", d) /\ a.t = "ref" /\ a.p = d
        BY <2>6
    <2>8. PointsIn(heap', a)
        BY <2>2, <2>5, <2>7 DEF PointsIn, Counted
    <2>9. /\ val' \in [Vars -> Zvals] /\ val'[x] = a /\ val'[y] = a
          /\ \A u \in Vars : u # x /\ u # y => val'[u] = val[u]
        BY <1>1, <2>1, <2>7 DEF ValuesInv
    <2>10. ASSUME NEW c \in Cells
          PROVE  Balance(heap', c) = Balance(heap, c) - One(val[x], c) + One(a, c) - One(val[y], c) + One(a, c)
        <3>1. One(val[x], c) = 0
            BY <1>1, Plain DEF Vacant
        <3>2. One(a, c) = IF c = d THEN 1 ELSE 0
            BY <2>7 DEF One
        <3>3. One(val[y], c) \in Int
            BY DEF One
        <3>4. QED
            BY <2>5, <2>3, <3>1, <3>2, <3>3
    <2>11. QED
        BY <1>1, <2>8, <2>9, <2>5, <2>10, TwoVarStep
<1>4. QED
    BY <1>2, <1>3

\* Value(Value &&), detach(true)
LEMMA MoveConstructKeeps ==
    ASSUME ValuesInv, NEW x \in Vars, NEW y \in Vars, MoveConstruct(x, y)
    PROVE  ValuesInv'
<1>1. /\ Vacant(x) /\ UNCHANGED <<trash, history>> /\ Sound /\ x # y /\ heap' = heap
      /\ val' = [val EXCEPT ![x] = val[y], ![y] = Undef]
      /\ val[y] \in Zvals /\ PointsIn(heap, val[y]) /\ WellFormed(heap)
    BY DerefIs DEF MoveConstruct, Vacant, Exists, ValuesInv
<1>2. PICK a \in Zvals : a = val[y]
    BY <1>1
<1>3. PICK b \in Zvals : b = Undef
    BY Plain
<1>4. Carries(heap, heap') /\ WellFormed(heap') /\ PointsIn(heap', a) /\ PointsIn(heap', b)
    BY <1>1, <1>2, <1>3, Plain DEF Carries
<1>5. ASSUME NEW c \in Cells
      PROVE  Balance(heap', c) = Balance(heap, c) - One(val[x], c) + One(a, c) - One(val[y], c) + One(b, c)
    <2>1. One(val[x], c) = 0 /\ One(b, c) = 0 /\ One(a, c) = One(val[y], c) /\ One(a, c) \in Int
        BY <1>1, <1>2, <1>3, Plain DEF Vacant, One
    <2>2. Balance(heap, c) \in Int
        BY <1>1, Settled
    <2>3. QED
        BY <1>1, <2>1, <2>2
<1>6. /\ val' \in [Vars -> Zvals] /\ val'[x] = a /\ val'[y] = b
      /\ \A u \in Vars : u # x /\ u # y => val'[u] = val[u]
    BY <1>1, <1>2, <1>3 DEF ValuesInv
<1>7. QED
    BY <1>1, <1>4, <1>5, <1>6, TwoVarStep

\* detach(false), and what toZval() makes of it
LEMMA DetachForWriteKeeps ==
    ASSUME ValuesInv, NEW x \in Vars, NEW y \in Vars, DetachForWrite(x, y)
    PROVE  ValuesInv'
<1>1. /\ Vacant(x) /\ Exists(y) /\ Sound /\ UNCHANGED trash /\ Counted(val[y]) /\ heap[val[y].p].rc > 1
      /\ \A c \in Cells : heap[c].rc \in Nat
    BY DEF DetachForWrite, Vacant, ValuesInv
<1>2. /\ val \in [Vars -> Zvals] /\ WellFormed(heap) /\ lost \in Seq(Zvals) /\ trash = <<>>
      /\ \A u \in Vars : PointsIn(heap, val[u])
      /\ \A i \in DOMAIN lost : PointsIn(heap, lost[i])
    BY <1>1, Settled
<1>3. CASE val[y].t = "ref"
    <2>1. MoveConstruct(x, y)
        BY <1>1, <1>3 DEF DetachForWrite, MoveConstruct
    <2>2. QED
        BY <2>1, MoveConstructKeeps
<1>4. CASE val[y].t # "ref"
    <2>1. PICK d \in Fresh : /\ val' = [val EXCEPT ![x] = Zval("ref", d), ![y] = Undef]
                             /\ heap' = Alloc(DelRef(heap, val[y]), d, "ref", 2, val[y])
                             /\ Lose(Zval("ref", d)) /\ broken' = TRUE
        BY <1>4 DEF DetachForWrite
    <2>2. d \in Cells /\ heap[d].kind = "free"
        BY DEF Fresh
    <2>3. PICK z \in Zvals : z = val[y] /\ PointsIn(heap, z) /\ Counted(z) /\ z.t # "ref" /\ heap[z.p].rc > 1
        BY <1>1, <1>2, <1>4
    <2>4. PICK g : g = DelRef(heap, z)
        OBVIOUS
    <2>5. /\ WellFormed(g) /\ Carries(heap, g) /\ SameItems(heap, g)
          /\ \A c \in Cells : g[c].rc = heap[c].rc - One(z, c)
        BY <1>2, <2>3, <2>4, DelRefIs
    <2>6. \A c \in Cells : g[c].rc \in Nat
        <3>1. ASSUME NEW c \in Cells PROVE g[c].rc \in Nat
            <4>1. PICK n \in Nat : n = heap[c].rc
                BY <1>1
            <4>2. CASE z.p = c
                BY <2>3, <2>5, <4>1, <4>2 DEF One
            <4>3. CASE z.p # c
                BY <2>5, <4>1, <4>3 DEF One
            <4>4. QED
                BY <4>2, <4>3
        <3>2. QED
            BY <3>1
    <2>7. heap' = Alloc(g, d, "ref", 2, z) /\ PointsIn(g, z) /\ g[d].kind = "free"
        BY <2>1, <2>2, <2>3, <2>4, <2>5 DEF Carries, SameItems
    <2>8. /\ WellFormed(heap') /\ Carries(g, heap') /\ heap'[d].kind = "ref" /\ heap'[d].rc = 2
          /\ \A e \in Cells : e # d => heap'[e] = g[e]
        BY <2>2, <2>3, <2>5, <2>7, AllocIs
    <2>9. \A c \in Cells : heap'[c].rc \in Nat
        BY <2>6, <2>8
    <2>10. Carries(heap, heap')
        BY <2>5, <2>8 DEF Carries
    <2>11. Zval("ref", d) \in Zvals /\ Zval("ref", d).t = "ref" /\ Zval("ref", d).p = d
        BY <2>2 DEF Zval, Zvals
    <2>12. PICK a \in Zvals : a = Zval("ref", d) /\ a.t = "ref" /\ a.p = d
        BY <2>11
    <2>13. PointsIn(heap', a)
        BY <2>2, <2>8, <2>12 DEF PointsIn, Counted
    <2>14. PICK b \in Zvals : b = Undef /\ PointsIn(heap', b)
        BY Plain
    <2>15. val' \in [Vars -> Zvals] /\ \A u \in Vars : PointsIn(heap', val'[u])
        <3>1. val' = [val EXCEPT ![x] = a, ![y] = b]
            BY <2>1, <2>12, <2>14
        <3>2. /\ val' \in [Vars -> Zvals]
              /\ \A u \in Vars : val'[u] = a \/ val'[u] = b \/ val'[u] = val[u]
            BY <1>2, <3>1
        <3>3. \A u \in Vars : PointsIn(heap', val[u])
            BY <1>2, <2>10 DEF Carries
        <3>4. QED
            BY <2>13, <2>14, <3>2, <3>3
    <2>16. lost' = Append(lost, a) /\ Len(lost) < MaxLost
        BY <2>1, <2>12 DEF Lose, Counted
    <2>17. Len(lost') = Len(lost) + 1 /\ Len(lost) \in Nat /\ lost' \in Seq(Zvals)
        BY <1>2, <2>16
    <2>18. Len(lost') <= MaxLost
        BY <2>16, <2>17, ValuesAssumption
    <2>19. \A i \in DOMAIN lost : PointsIn(heap', lost[i])
        BY <1>2, <2>10 DEF Carries
    <2>20. \A i \in DOMAIN lost' : PointsIn(heap', lost'[i])
        BY <1>2, <2>13, <2>16, <2>19
    <2>21. broken' = TRUE /\ trash' = <<>>
        BY <1>1, <1>2, <2>1
    <2>22. QED
        BY <2>8, <2>9, <2>15, <2>17, <2>18, <2>20, <2>21 DEF ValuesInv
<1>5. QED
    BY <1>3, <1>4

\* A variable gets a zval that holds nothing; what it held is released.
LEMMA DropKeeps ==
    ASSUME ValuesInv, NEW x \in Vars, Exists(x), NEW z \in {Gone, Undef},
           Becomes(x, z), trash' = <<val[x]>>, UNCHANGED <<heap, history>>
    PROVE  ValuesInv'
<1>1. /\ Sound /\ WellFormed(heap) /\ val[x] \in Zvals
      /\ \A u \in Vars : PointsIn(heap, val[u])
      /\ \A i \in DOMAIN lost : PointsIn(heap, lost[i])
    BY Settled DEF Exists
<1>2. z \in Zvals /\ PointsIn(heap, z) /\ \A c \in Cells : One(z, c) = 0
    BY Plain
<1>3. <<val[x]>> \in Seq(Zvals)
    BY <1>1
<1>4. PICK t \in Seq(Zvals) : t = <<val[x]>>
    BY <1>3
<1>5. trash' = t /\ Len(t) <= 1 /\ \A i \in DOMAIN t : PointsIn(heap, t[i])
    BY <1>1, <1>4
<1>6. ASSUME NEW c \in Cells
      PROVE  Balance(heap', c) = Balance(heap, c) - One(val[x], c) + One(z, c) + InList(t, c)
    <2>1. InList(t, c) = One(val[x], c) /\ One(z, c) = 0 /\ One(val[x], c) \in Int
        BY <1>2, <1>4, CountList DEF One
    <2>2. Balance(heap, c) \in Int
        BY <1>1, Settled
    <2>3. QED
        BY <2>1, <2>2
<1>7. heap' = heap /\ UNCHANGED history
    OBVIOUS
<1>8. QED
    BY <1>1, <1>2, <1>5, <1>6, <1>7, VarStep

\* zval_ptr_dtor
LEMMA ReleaseKeeps ==
    ASSUME ValuesInv, Release
    PROVE  ValuesInv'
<1> DEFINE z == Head(trash)
<1>1. /\ val \in [Vars -> Zvals] /\ WellFormed(heap) /\ heap \in HeapType /\ broken = FALSE
      /\ trash \in Seq(Zvals) /\ lost \in Seq(Zvals) /\ Len(lost) <= MaxLost
      /\ \A x \in Vars : PointsIn(heap, val[x])
      /\ \A i \in DOMAIN lost : PointsIn(heap, lost[i])
      /\ \A c \in Cells : Balance(heap, c) = InVars(val, c) + InList(trash, c) + InList(lost, c)
    BY DEF ValuesInv, Release, WellFormed, Balanced
<1>2. trash = <<z>> /\ z \in Zvals /\ Tail(trash) = <<>> /\ PointsIn(heap, z)
    BY DEF ValuesInv, Release
<1>3. val' = val /\ lost' = lost /\ broken' = FALSE
    BY <1>1 DEF Release, history
<1> HIDE DEF z
<1>4. ASSUME NEW c \in Cells
      PROVE  /\ InVars(val, c) \in Nat /\ InItems(heap, c) \in Nat /\ InList(lost, c) \in Nat
             /\ heap[c].rc - InItems(heap, c) = InVars(val, c) + One(z, c) + InList(lost, c)
             /\ heap[c].rc \in Int /\ Balance(heap, c) \in Int
             /\ Balance(heap, c) = InVars(val, c) + One(z, c) + InList(lost, c)
    <2>1. InVars(val, c) \in Nat /\ InItems(heap, c) \in Nat /\ InList(lost, c) \in Nat
        BY <1>1, Nobody
    <2>2. InList(trash, c) = One(z, c) /\ One(z, c) \in Int
        BY <1>2, CountList DEF One
    <2>3. heap[c].rc \in Int
        BY <1>1 DEF HeapType, CellType
    <2>4. QED
        BY <1>1, <2>1, <2>2, <2>3 DEF Balance
<1>5. CASE Counted(z) /\ heap[z.p].rc = 1
    <2>1. PICK d \in Cells : z.p = d
        BY <1>2, <1>5 DEF PointsIn
    <2>2. InVars(val, d) = 0 /\ InItems(heap, d) = 0 /\ InList(lost, d) = 0
        BY <1>4, <1>5, <2>1 DEF One
    <2>3. /\ \A x \in Vars : val[x].p # d
          /\ \A e \in Cells : heap[e].item.p # d
          /\ \A i \in DOMAIN lost : lost[i].p # d
        <3>1. /\ \A x \in Vars : val[x].p = d => InVars(val, d) >= 1
              /\ \A e \in Cells : heap[e].item.p = d => InItems(heap, d) >= 1
              /\ \A i \in DOMAIN lost : lost[i].p = d => InList(lost, d) >= 1
            BY <1>1, Nobody
        <3>2. QED
            BY <2>2, <3>1
    <2>4. PICK w \in Zvals : w = heap[d].item
        BY <1>1 DEF HeapType, CellType
    <2>5. heap' = Freed(heap, d) /\ trash' = <<w>>
        <3>1. heap' = Freed(heap, d) /\ trash' = <<w>> \o <<>>
            BY <1>2, <1>5, <2>1, <2>4 DEF Release, Freed, z
        <3>2. <<w>> \o <<>> = <<w>>
            OBVIOUS
        <3>3. QED
            BY <3>1, <3>2
    <2>6. /\ WellFormed(heap')
          /\ \A y \in Zvals : PointsIn(heap, y) /\ y.p # d => PointsIn(heap', y)
          /\ \A c \in Cells : Balance(heap', c) = Balance(heap, c) - (IF c = d THEN 1 ELSE 0)
                                                     + One(heap[d].item, c)
        BY <1>1, <1>5, <2>1, <2>3, <2>5, FreeIs
    <2>7. PointsIn(heap', w)
        BY <1>1, <2>3, <2>4, <2>6 DEF WellFormed
    <2>8. /\ \A x \in Vars : PointsIn(heap', val'[x])
          /\ \A i \in DOMAIN lost' : PointsIn(heap', lost'[i])
        BY <1>1, <1>3, <2>3, <2>6
    <2>9. trash' \in Seq(Zvals) /\ Len(trash') <= 1 /\ \A i \in DOMAIN trash' : PointsIn(heap', trash'[i])
        BY <2>5, <2>7
    <2>10. ASSUME NEW c \in Cells
           PROVE  Balance(heap', c) = InVars(val', c) + InList(trash', c) + InList(lost', c)
        <3>1. InList(trash', c) = One(w, c) /\ One(w, c) \in Int
            BY <2>5, CountList DEF One
        <3>2. One(z, c) = IF c = d THEN 1 ELSE 0
            BY <2>1 DEF One
        <3>3. Balance(heap', c) = Balance(heap, c) - One(z, c) + One(w, c)
            BY <2>4, <2>6, <3>2
        <3>4. /\ Balance(heap, c) = InVars(val, c) + One(z, c) + InList(lost, c)
              /\ InVars(val, c) \in Nat /\ InList(lost, c) \in Nat /\ One(z, c) \in Int
            BY <1>4 DEF One
        <3>5. QED
            BY <1>3, <3>1, <3>3, <3>4
    <2>11. QED
        BY <1>1, <1>3, <2>6, <2>8, <2>9, <2>10, Keeps
<1>6. CASE ~(Counted(z) /\ heap[z.p].rc = 1)
    <2>1. trash' = <<>> /\ heap' = IF Counted(z) THEN DelRef(heap, z) ELSE heap
        BY <1>2, <1>6 DEF Release, z
    <2>2. /\ WellFormed(heap') /\ Carries(heap, heap')
          /\ \A c \in Cells : Balance(heap', c) = Balance(heap, c) - One(z, c)
        <3>1. CASE Counted(z)
            <4>1. heap' = DelRef(heap, z)
                BY <2>1, <3>1
            <4>2. QED
                BY <1>1, <1>2, <3>1, <4>1, DelRefIs
        <3>2. CASE ~Counted(z)
            <4>1. heap' = heap /\ \A c \in Cells : One(z, c) = 0
                BY <1>2, <2>1, <3>2, Uncounted
            <4>2. QED
                BY <1>1, <1>4, <4>1 DEF Carries
        <3>3. QED
            BY <3>1, <3>2
    <2>3. /\ \A x \in Vars : PointsIn(heap', val'[x])
          /\ \A i \in DOMAIN lost' : PointsIn(heap', lost'[i])
        BY <1>1, <1>3, <2>2 DEF Carries
    <2>4. trash' \in Seq(Zvals) /\ Len(trash') <= 1 /\ \A i \in DOMAIN trash' : PointsIn(heap', trash'[i])
        BY <2>1
    <2>5. ASSUME NEW c \in Cells
          PROVE  Balance(heap', c) = InVars(val', c) + InList(trash', c) + InList(lost', c)
        <3>1. InList(trash', c) = 0 /\ One(z, c) \in Int
            BY <2>1, CountList DEF One
        <3>2. QED
            BY <1>3, <1>4, <2>2, <3>1
    <2>6. QED
        BY <1>1, <1>3, <2>2, <2>3, <2>4, <2>5, Keeps
<1>7. QED
    BY <1>5, <1>6

\* A cell that the count says only variable x holds is held by nothing else.
LEMMA Alone ==
    ASSUME ValuesInv, Sound, NEW x \in Vars, NEW d \in Cells, val[x].p = d, heap[d].rc = 1
    PROVE  /\ \A y \in Vars : y # x => val[y].p # d
           /\ \A e \in Cells : heap[e].item.p # d
           /\ \A i \in DOMAIN lost : lost[i].p # d
<1>1. /\ val \in [Vars -> Zvals] /\ heap \in HeapType /\ lost \in Seq(Zvals)
      /\ Balance(heap, d) = InVars(val, d) + InList(lost, d)
    BY Settled
<1>2. /\ InVars(val, d) \in Nat /\ InItems(heap, d) \in Nat /\ InList(lost, d) \in Nat
      /\ InVars(val, d) >= 1
      /\ \A y \in Vars : val[y].p = d /\ y # x => InVars(val, d) >= 2
      /\ \A e \in Cells : heap[e].item.p = d => InItems(heap, d) >= 1
      /\ \A i \in DOMAIN lost : lost[i].p = d => InList(lost, d) >= 1
    BY <1>1, Nobody
<1>3. 1 - InItems(heap, d) = InVars(val, d) + InList(lost, d)
    BY <1>1 DEF Balance
<1>4. InVars(val, d) = 1 /\ InItems(heap, d) = 0 /\ InList(lost, d) = 0
    BY <1>2, <1>3
<1>5. QED
    BY <1>2, <1>4

\* convert_to_array: variable x takes what its reference holds.
LEMMA UnwrappedIs ==
    ASSUME ValuesInv, Sound, NEW x \in Vars, NEW g, g = Unwrapped(x), NEW z \in Zvals, z = Deref(val[x])
    PROVE  /\ WellFormed(g) /\ PointsIn(g, z)
           /\ \A y \in Vars : y # x => PointsIn(g, val[y])
           /\ \A i \in DOMAIN lost : PointsIn(g, lost[i])
           /\ \A e \in Cells : heap[e].kind = "free" => g[e].kind = "free"
           /\ \A e \in Cells : g[e].item = heap[e].item \/ e \in OnlyOf(x)
           /\ \A c \in Cells : Balance(heap, c) \in Int
                               /\ Balance(g, c) = Balance(heap, c) - One(val[x], c) + One(z, c)
<1>1. /\ val \in [Vars -> Zvals] /\ WellFormed(heap) /\ heap \in HeapType
      /\ \A y \in Vars : PointsIn(heap, val[y])
      /\ \A i \in DOMAIN lost : lost[i] \in Zvals /\ PointsIn(heap, lost[i])
      /\ \A c \in Cells : Balance(heap, c) \in Int
    BY Settled
<1>2. PointsIn(heap, z) /\ val[x] \in Zvals /\ PointsIn(heap, val[x])
    BY DerefIs
<1>3. CASE val[x].t # "ref"
    <2>1. g = heap /\ z = val[x]
        BY <1>3 DEF Unwrapped, Deref
    <2>2. \A c \in Cells : Balance(heap, c) = Balance(heap, c) - One(val[x], c) + One(val[x], c)
        BY <1>1 DEF One
    <2>3. QED
        BY <1>1, <1>2, <2>1, <2>2
<1>4. CASE val[x].t = "ref"
    <2>1. PICK d \in Cells : d = val[x].p
        BY <1>2, <1>4 DEF PointsIn, Counted
    <2>2. z = heap[d].item /\ heap[d].kind = "ref"
        BY <1>2, <1>4, <2>1 DEF Deref, PointsIn, Counted
    <2>3. CASE heap[d].rc = 1
        <3>1. g = Freed(heap, d)
            BY <1>4, <2>1, <2>3 DEF Unwrapped, Freed
        <3>2. /\ \A y \in Vars : y # x => val[y].p # d
              /\ \A e \in Cells : heap[e].item.p # d
              /\ \A i \in DOMAIN lost : lost[i].p # d
            BY <2>1, <2>3, Alone
        <3>3. /\ WellFormed(g) /\ g[d] = FreeCell
              /\ \A e \in Cells : e # d => g[e] = heap[e]
              /\ \A y \in Zvals : PointsIn(heap, y) /\ y.p # d => PointsIn(g, y)
              /\ \A c \in Cells : Balance(g, c) = Balance(heap, c) - (IF c = d THEN 1 ELSE 0)
                                                     + One(heap[d].item, c)
            BY <1>1, <2>3, <3>1, <3>2, FreeIs
        <3>4. z.p # d /\ PointsIn(g, z)
            BY <1>2, <2>2, <3>2, <3>3
        <3>5. \A c \in Cells : Balance(g, c) = Balance(heap, c) - One(val[x], c) + One(z, c)
            BY <2>1, <2>2, <3>3 DEF One
        <3>6. \A e \in Cells : heap[e].kind = "free" => g[e].kind = "free"
            BY <2>2, <3>3
        <3>7. d \in OnlyOf(x)
            BY <2>1, <2>3 DEF OnlyOf
        <3>8. \A e \in Cells : g[e].item = heap[e].item \/ e \in OnlyOf(x)
            BY <3>3, <3>7
        <3>9. \A y \in Vars : y # x => PointsIn(g, val[y])
            BY <1>1, <3>2, <3>3
        <3>10. \A i \in DOMAIN lost : PointsIn(g, lost[i])
            BY <1>1, <3>2, <3>3
        <3>11. QED
            BY <1>1, <3>3, <3>4, <3>5, <3>6, <3>8, <3>9, <3>10
    <2>4. CASE heap[d].rc # 1
        <3> DEFINE m == DelRef(heap, val[x])
        <3>1. g = AddRef(m, z)
            BY <1>4, <2>1, <2>4 DEF Unwrapped
        <3> HIDE DEF m
        <3>2. Counted(val[x])
            BY <1>4 DEF Counted
        <3>3. /\ WellFormed(m) /\ Carries(heap, m) /\ SameItems(heap, m)
              /\ \A c \in Cells : Balance(m, c) = Balance(heap, c) - One(val[x], c)
            BY <1>1, <1>2, <3>2, DelRefIs DEF m
        <3>4. PointsIn(m, z)
            BY <1>2, <3>3 DEF Carries
        <3>5. /\ WellFormed(g) /\ Carries(m, g) /\ SameItems(m, g)
              /\ \A c \in Cells : Balance(m, c) \in Int /\ Balance(g, c) = Balance(m, c) + One(z, c)
            BY <3>1, <3>3, <3>4, AddRefIs
        <3>6. Carries(heap, g)
            BY <3>3, <3>5 DEF Carries
        <3>7. \A e \in Cells : g[e].kind = heap[e].kind /\ g[e].item = heap[e].item
            BY <3>3, <3>5 DEF SameItems
        <3>8. \A c \in Cells : Balance(g, c) = Balance(heap, c) - One(val[x], c) + One(z, c)
            BY <3>3, <3>5
        <3>9. /\ PointsIn(g, z)
              /\ \A y \in Vars : PointsIn(g, val[y])
              /\ \A i \in DOMAIN lost : PointsIn(g, lost[i])
            BY <1>1, <1>2, <3>6 DEF Carries
        <3>10. QED
            BY <1>1, <3>5, <3>7, <3>8, <3>9
    <2>5. QED
        BY <2>3, <2>4
<1>5. QED
    BY <1>3, <1>4

\* Nothing points to a free cell.
LEMMA FreshUnheld ==
    ASSUME NEW h, NEW d \in Cells, h[d].kind = "free", NEW z, PointsIn(h, z)
    PROVE  z.p # d
BY ValuesAssumption DEF PointsIn, Counted

\* convert_to_array and SEPARATE_ZVAL_IF_NOT_REF: variable x gives up what it
\* held for an array that nobody else has.
LEMMA SeparatedIs ==
    ASSUME ValuesInv, Sound, NEW x \in Vars, NEW d \in Fresh, NEW s, s = Separated(x, d)
    PROVE  /\ s.array \in Cells /\ WellFormed(s.heap) /\ s.heap[s.array].kind = "arr"
           /\ \A y \in Vars : y # x => PointsIn(s.heap, val[y])
           /\ \A i \in DOMAIN lost : PointsIn(s.heap, lost[i])
           /\ \A e \in Cells : e # s.array => s.heap[e].item = heap[e].item \/ e \in OnlyOf(x)
           /\ \A y \in Vars : y # x => val[y].p # s.array
           /\ \A e \in Cells : heap[e].item.p = s.array => e \in OnlyOf(x)
           /\ \A c \in Cells :
                 /\ Balance(heap, c) \in Int
                 /\ Balance(s.heap, c) = Balance(heap, c) - One(val[x], c)
                                            + (IF c = s.array THEN 1 ELSE 0)
<1>1. PICK z \in Zvals : z = Deref(val[x]) /\ PointsIn(heap, z) /\ z.t # "ref"
    BY DerefIs
<1>2. PICK g : g = Unwrapped(x)
    OBVIOUS
<1>3. /\ WellFormed(g) /\ PointsIn(g, z)
      /\ \A y \in Vars : y # x => PointsIn(g, val[y])
      /\ \A i \in DOMAIN lost : PointsIn(g, lost[i])
      /\ \A e \in Cells : heap[e].kind = "free" => g[e].kind = "free"
      /\ \A e \in Cells : g[e].item = heap[e].item \/ e \in OnlyOf(x)
      /\ \A c \in Cells : Balance(heap, c) \in Int
                          /\ Balance(g, c) = Balance(heap, c) - One(val[x], c) + One(z, c)
    BY <1>1, <1>2, UnwrappedIs
<1>4. d \in Cells /\ heap[d].kind = "free" /\ g[d].kind = "free"
    BY <1>3 DEF Fresh
<1>5. /\ val \in [Vars -> Zvals] /\ WellFormed(heap) /\ heap \in HeapType
      /\ \A y \in Vars : PointsIn(heap, val[y])
      /\ lost \in Seq(Zvals) /\ \A i \in DOMAIN lost : lost[i] \in Zvals
      /\ \A c \in Cells : /\ InVars(val, c) \in Nat /\ InList(lost, c) \in Nat
                          /\ Balance(heap, c) = InVars(val, c) + InList(lost, c)
    BY Settled
<1>6. \A y \in Vars : val[y].p # d
    BY <1>4, <1>5, FreshUnheld
<1>7. \A e \in Cells : heap[e].item.p # d
    BY <1>4, <1>5, FreshUnheld DEF WellFormed
<1>8. CASE z.t # "arr"
    <2>1. s.array = d /\ s.heap = Alloc(g, d, "arr", 1, Undef)
        BY <1>1, <1>2, <1>8 DEF Separated
    <2>2. PICK m : m = s.heap
        OBVIOUS
    <2>3. /\ WellFormed(m) /\ Carries(g, m) /\ m[d].kind = "arr"
          /\ \A e \in Cells : e # d => m[e] = g[e]
          /\ \A c \in Cells : /\ Balance(g, c) \in Int
                              /\ Balance(m, c) = Balance(g, c) + (IF c = d THEN 1 ELSE 0) - One(Undef, c)
        BY <1>3, <1>4, <2>1, <2>2, Plain, AllocIs
    <2>4. ASSUME NEW c \in Cells
          PROVE  Balance(m, c) = Balance(heap, c) - One(val[x], c) + (IF c = d THEN 1 ELSE 0)
        <3>1. One(z, c) = 0 /\ One(Undef, c) = 0
            BY <1>1, <1>8, Uncounted, Plain DEF Counted
        <3>2. One(val[x], c) \in Int
            BY DEF One
        <3>3. QED
            BY <1>3, <2>3, <3>1, <3>2
    <2>5. /\ \A y \in Vars : y # x => PointsIn(m, val[y])
          /\ \A i \in DOMAIN lost : PointsIn(m, lost[i])
        BY <1>3, <1>5, <2>3 DEF Carries
    <2>6. \A e \in Cells : e # d => m[e].item = heap[e].item \/ e \in OnlyOf(x)
        BY <1>3, <2>3
    <2>7. QED
        BY <1>3, <1>4, <1>6, <1>7, <2>1, <2>2, <2>3, <2>4, <2>5, <2>6
<1>9. CASE z.t = "arr" /\ Shared(x)
    <2>1. s.array = d /\ s.heap = Dup(DelRef(g, z), d, z)
        BY <1>1, <1>2, <1>9 DEF Separated
    <2>2. PICK m : m = s.heap
        OBVIOUS
    <2>3. PICK k : k = DelRef(g, z)
        OBVIOUS
    <2>4. Counted(z)
        BY <1>9 DEF Counted
    <2>5. /\ WellFormed(k) /\ Carries(g, k) /\ SameItems(g, k)
          /\ \A c \in Cells : Balance(k, c) = Balance(g, c) - One(z, c)
        BY <1>3, <2>3, <2>4, DelRefIs
    <2>6. k[d].kind = "free" /\ PointsIn(k, z)
        BY <1>3, <1>4, <2>5 DEF SameItems, Carries
    <2>7. /\ WellFormed(m) /\ Carries(k, m) /\ m[d].kind = "arr"
          /\ \A e \in Cells : e # d => m[e].kind = k[e].kind /\ m[e].item = k[e].item
          /\ \A c \in Cells : Balance(m, c) = Balance(k, c) + (IF c = d THEN 1 ELSE 0)
        BY <1>4, <1>9, <2>1, <2>2, <2>3, <2>5, <2>6, DupIs
    <2>8. ASSUME NEW c \in Cells
          PROVE  Balance(m, c) = Balance(heap, c) - One(val[x], c) + (IF c = d THEN 1 ELSE 0)
        <3>1. One(z, c) \in Int /\ One(val[x], c) \in Int
            BY DEF One
        <3>2. QED
            BY <1>3, <2>5, <2>7, <3>1
    <2>9. Carries(g, m)
        BY <2>5, <2>7 DEF Carries
    <2>10. /\ \A y \in Vars : y # x => PointsIn(m, val[y])
           /\ \A i \in DOMAIN lost : PointsIn(m, lost[i])
        BY <1>3, <1>5, <2>9 DEF Carries
    <2>11. \A e \in Cells : e # d => m[e].item = heap[e].item \/ e \in OnlyOf(x)
        BY <1>3, <2>5, <2>7 DEF SameItems
    <2>12. QED
        BY <1>3, <1>4, <1>6, <1>7, <2>1, <2>2, <2>7, <2>8, <2>10, <2>11
<1>10. CASE z.t = "arr" /\ ~Shared(x)
    <2>1. s.array = z.p /\ s.heap = g
        BY <1>1, <1>2, <1>10 DEF Separated
    <2>2. PICK a \in Cells : a = z.p
        BY <1>1, <1>10 DEF PointsIn, Counted
    <2>3. g[a].kind = "arr" /\ g \in HeapType /\ g[a].rc \in Int /\ ~(g[a].rc > 1)
        BY <1>1, <1>2, <1>3, <1>10, <2>2 DEF PointsIn, Counted, WellFormed, HeapType, CellType, Shared
    <2>4. \A c \in Cells : One(z, c) = IF c = a THEN 1 ELSE 0
        BY <2>2 DEF One
    <2>5. /\ InVars(val, a) \in Nat /\ InItems(g, a) \in Nat /\ InList(lost, a) \in Nat
          /\ \A y \in Vars : val[y].p = a => InVars(val, a) >= 1
          /\ \A y, w \in Vars : val[y].p = a /\ val[w].p = a /\ y # w => InVars(val, a) >= 2
          /\ \A e \in Cells : g[e].item.p = a => InItems(g, a) >= 1
        BY <1>5, <2>3, Nobody
    <2>6. g[a].rc - InItems(g, a) = InVars(val, a) + InList(lost, a) - One(val[x], a) + 1
        <3>1. Balance(g, a) = Balance(heap, a) - One(val[x], a) + 1
            BY <1>3, <2>4
        <3>2. Balance(heap, a) = InVars(val, a) + InList(lost, a)
            BY <1>5
        <3>3. Balance(g, a) = g[a].rc - InItems(g, a)
            BY DEF Balance
        <3>4. One(val[x], a) \in Int
            BY DEF One
        <3>5. QED
            BY <2>3, <2>5, <3>1, <3>2, <3>3, <3>4
    <2>7. One(val[x], a) \in {0, 1} /\ (One(val[x], a) = 1 <=> val[x].p = a)
        BY DEF One
    <2>8. InVars(val, a) >= One(val[x], a)
        BY <2>5, <2>7
    <2>9. InItems(g, a) = 0 /\ InVars(val, a) = One(val[x], a)
        BY <2>3, <2>5, <2>6, <2>7, <2>8
    <2>10. \A y \in Vars : y # x => val[y].p # a
        BY <2>5, <2>7, <2>9
    <2>11. \A e \in Cells : heap[e].item.p = a => e \in OnlyOf(x)
        BY <1>3, <2>5, <2>9
    <2>12. QED
        BY <1>3, <2>1, <2>2, <2>3, <2>4, <2>10, <2>11
<1>11. QED
    BY <1>8, <1>9, <1>10

\* A separated array gets element z, the one it had is released.
LEMMA PutKeeps ==
    ASSUME ValuesInv, Sound, NEW x \in Vars, NEW d \in Fresh, NEW s, s = Separated(x, d),
           NEW z \in Zvals, PointsIn(s.heap, z),
           Becomes(x, Zval("arr", s.array)), trash' = <<s.heap[s.array].item>>,
           heap' = AddRef(WithItem(s.heap, s.array, z), z), UNCHANGED history
    PROVE  ValuesInv' /\ OthersKept(x)
<1>1. val \in [Vars -> Zvals] /\ heap \in HeapType /\ lost \in Seq(Zvals) /\ WellFormed(heap)
    BY Settled
<1>2. /\ s.array \in Cells /\ WellFormed(s.heap) /\ s.heap[s.array].kind = "arr"
      /\ \A u \in Vars : u # x => PointsIn(s.heap, val[u])
      /\ \A i \in DOMAIN lost : PointsIn(s.heap, lost[i])
      /\ \A e \in Cells : e # s.array => s.heap[e].item = heap[e].item \/ e \in OnlyOf(x)
      /\ \A u \in Vars : u # x => val[u].p # s.array
      /\ \A e \in Cells : heap[e].item.p = s.array => e \in OnlyOf(x)
      /\ \A c \in Cells :
            /\ Balance(heap, c) \in Int
            /\ Balance(s.heap, c) = Balance(heap, c) - One(val[x], c)
                                       + (IF c = s.array THEN 1 ELSE 0)
    BY SeparatedIs
<1>3. PICK a \in Cells : a = s.array
    BY <1>2
<1>4. PICK h : h = s.heap
    OBVIOUS
<1>5. PointsIn(h, z)
    BY <1>4
<1>6. PICK m : m = WithItem(h, a, z)
    OBVIOUS
<1>7. Becomes(x, Zval("arr", a)) /\ trash' = <<h[a].item>> /\ heap' = AddRef(m, z)
    BY <1>3, <1>4, <1>6
<1>8. PICK old \in Zvals : old = h[a].item /\ PointsIn(h, old)
    BY <1>2, <1>4 DEF WellFormed, HeapType, CellType
<1>9. /\ WellFormed(m) /\ Carries(h, m) /\ m[a].kind = "arr"
      /\ \A e \in Cells : e # a => m[e] = h[e]
      /\ \A c \in Cells : Balance(h, c) \in Int /\ Balance(m, c) = Balance(h, c) + One(old, c) - One(z, c)
    <2>1. h[a].kind = "arr" /\ WellFormed(h)
        BY <1>2, <1>3, <1>4
    <2>2. /\ WellFormed(m) /\ Carries(h, m)
          /\ \A e \in Cells : m[e].kind = h[e].kind
          /\ \A e \in Cells : e # a => m[e] = h[e]
          /\ \A c \in Cells : Balance(h, c) \in Int
                              /\ Balance(m, c) = Balance(h, c) + One(h[a].item, c) - One(z, c)
        BY <1>5, <1>6, <2>1, SetItemIs
    <2>3. QED
        BY <1>8, <2>1, <2>2
<1>10. PointsIn(m, z)
    BY <1>5, <1>9 DEF Carries
<1>11. /\ WellFormed(heap') /\ Carries(m, heap') /\ SameItems(m, heap')
       /\ \A c \in Cells : Balance(m, c) \in Int /\ Balance(heap', c) = Balance(m, c) + One(z, c)
    BY <1>7, <1>9, <1>10, AddRefIs
<1>12. Carries(h, heap')
    BY <1>9, <1>11 DEF Carries
<1>13. ValuesInv'
    <2>1. PICK n \in Zvals : n = Zval("arr", a) /\ n.t = "arr" /\ n.p = a
        <3>1. Zval("arr", a) \in Zvals /\ Zval("arr", a).t = "arr" /\ Zval("arr", a).p = a
            BY DEF Zval, Zvals
        <3>2. QED
            BY <3>1
    <2>2. PointsIn(heap', n)
        BY <1>9, <1>11, <2>1 DEF SameItems, PointsIn, Counted
    <2>3. PointsIn(heap', old)
        BY <1>8, <1>12 DEF Carries
    <2>4. <<old>> \in Seq(Zvals)
        OBVIOUS
    <2>5. PICK t \in Seq(Zvals) : t = <<old>>
        BY <2>4
    <2>6. trash' = t /\ Len(t) <= 1 /\ \A i \in DOMAIN t : PointsIn(heap', t[i])
        BY <1>7, <1>8, <2>3, <2>5
    <2>7. /\ \A u \in Vars : u # x => PointsIn(heap', val[u])
          /\ \A i \in DOMAIN lost : PointsIn(heap', lost[i])
        BY <1>1, <1>2, <1>4, <1>12 DEF Carries
    <2>8. ASSUME NEW c \in Cells
          PROVE  Balance(heap', c) = Balance(heap, c) - One(val[x], c) + One(n, c) + InList(t, c)
        <3>1. InList(t, c) = One(old, c) /\ One(n, c) = IF c = a THEN 1 ELSE 0
            BY <2>1, <2>5, CountList DEF One
        <3>2. One(old, c) \in Int /\ One(val[x], c) \in Int /\ One(z, c) \in Int
            BY DEF One
        <3>3. Balance(heap, c) \in Int
              /\ Balance(h, c) = Balance(heap, c) - One(val[x], c) + (IF c = a THEN 1 ELSE 0)
            BY <1>2, <1>3, <1>4
        <3>4. Balance(m, c) = Balance(h, c) + One(old, c) - One(z, c)
            BY <1>9
        <3>5. Balance(heap', c) = Balance(m, c) + One(z, c)
            BY <1>11
        <3>6. QED
            BY <3>1, <3>2, <3>3, <3>4, <3>5
    <2>9. Becomes(x, n)
        BY <1>7, <2>1
    <2>10. QED
        BY <1>1, <1>11, <2>2, <2>6, <2>7, <2>8, <2>9, VarStep
<1>14. OthersKept(x)
    <2>1. ASSUME NEW c \in Cells,
                 (\E u \in Vars \ {x} : val[u].p = c) \/ \E e \in Cells \ OnlyOf(x) : heap[e].item.p = c
          PROVE  heap'[c].item = heap[c].item
        <3>1. c # a
            BY <1>2, <1>3, <2>1
        <3>2. c \notin OnlyOf(x)
            <4>1. SUFFICES ASSUME val[x].p = c, heap[c].rc = 1 PROVE FALSE
                BY DEF OnlyOf
            <4>2. /\ \A u \in Vars : u # x => val[u].p # c
                  /\ \A e \in Cells : heap[e].item.p # c
                BY <1>1, <4>1, Alone
            <4>3. QED
                BY <2>1, <4>2
        <3>3. h[c].item = heap[c].item
            BY <1>2, <1>3, <1>4, <3>1, <3>2
        <3>4. m[c].item = h[c].item /\ heap'[c].item = m[c].item
            BY <1>9, <1>11, <3>1 DEF SameItems
        <3>5. QED
            BY <3>3, <3>4
    <2>2. QED
        BY <2>1 DEF OthersKept
<1>15. QED
    BY <1>13, <1>14

\* set()
LEMMA SetKeeps ==
    ASSUME ValuesInv, NEW x \in Vars, NEW y \in Vars, Set(x, y)
    PROVE  ValuesInv' /\ OthersKept(x)
<1>1. Sound /\ UNCHANGED history /\ val \in [Vars -> Zvals]
    BY Settled DEF Set, Exists
<1>2. PICK d \in Fresh :
         LET s == Separated(x, d)
             z == IF x = y THEN Zval("arr", s.array) ELSE val[y]
         IN
         /\ val' = [val EXCEPT ![x] = Zval("arr", s.array)]
         /\ trash' = <<s.heap[s.array].item>>
         /\ heap' = AddRef([s.heap EXCEPT ![s.array].item = z], z)
    BY DEF Set
<1>3. PICK s : s = Separated(x, d)
    OBVIOUS
<1>4. /\ s.array \in Cells /\ s.heap[s.array].kind = "arr"
      /\ \A u \in Vars : u # x => PointsIn(s.heap, val[u])
    BY <1>1, <1>3, SeparatedIs
<1>5. PICK z \in Zvals : z = (IF x = y THEN Zval("arr", s.array) ELSE val[y]) /\ PointsIn(s.heap, z)
    <2>1. CASE x = y
        <3>1. /\ Zval("arr", s.array) \in Zvals
              /\ Zval("arr", s.array).t = "arr" /\ Zval("arr", s.array).p = s.array
            BY <1>4 DEF Zval, Zvals
        <3>2. PointsIn(s.heap, Zval("arr", s.array))
            BY <1>4, <3>1 DEF PointsIn, Counted
        <3>3. QED
            BY <2>1, <3>1, <3>2
    <2>2. CASE x # y
        BY <1>1, <1>4, <2>2
    <2>3. QED
        BY <2>1, <2>2
<1>6. /\ Becomes(x, Zval("arr", s.array)) /\ trash' = <<s.heap[s.array].item>>
      /\ heap' = AddRef(WithItem(s.heap, s.array, z), z)
    BY <1>2, <1>3, <1>5 DEF Becomes, WithItem
<1>7. QED
    BY <1>1, <1>3, <1>5, <1>6, PutKeeps

\* A cell gets another element, the one it had is released; no variable changes.
LEMMA InsideKeeps ==
    ASSUME ValuesInv, Sound, NEW x \in Vars, NEW g, NEW z \in Zvals,
           WellFormed(g), Carries(heap, g), PointsIn(g, z),
           \A c \in Cells : Balance(g, c) = Balance(heap, c) + One(z, c),
           NEW a \in Cells, g[a].kind # "free", g[a].kind = "ref" => z.t # "ref",
           NEW old \in Zvals, old = g[a].item,
           heap' = WithItem(g, a, z), trash' = <<old>>, val' = val, UNCHANGED history
    PROVE  ValuesInv'
<1>1. /\ val \in [Vars -> Zvals] /\ WellFormed(heap) /\ lost \in Seq(Zvals)
      /\ \A u \in Vars : PointsIn(heap, val[u])
      /\ \A i \in DOMAIN lost : PointsIn(heap, lost[i])
      /\ \A c \in Cells : Balance(heap, c) \in Int
    BY Settled
<1>2. PointsIn(g, old)
    BY DEF WellFormed
<1>3. /\ WellFormed(heap') /\ Carries(g, heap')
      /\ \A c \in Cells : Balance(heap', c) = Balance(g, c) + One(g[a].item, c) - One(z, c)
    BY SetItemIs
<1>4. Carries(heap, heap')
    BY <1>3 DEF Carries
<1>5. /\ \A u \in Vars : PointsIn(heap', val[u])
      /\ \A i \in DOMAIN lost : PointsIn(heap', lost[i])
      /\ PointsIn(heap', old)
    BY <1>1, <1>2, <1>3, <1>4 DEF Carries
<1>6. <<old>> \in Seq(Zvals)
    OBVIOUS
<1>7. PICK t \in Seq(Zvals) : t = <<old>>
    BY <1>6
<1>8. trash' = t /\ Len(t) <= 1 /\ \A i \in DOMAIN t : PointsIn(heap', t[i])
    BY <1>5, <1>7
<1>9. PICK w \in Zvals : w = val[x] /\ PointsIn(heap', w)
    BY <1>1, <1>5
<1>10. Becomes(x, w)
    BY <1>1, <1>9 DEF Becomes
<1>11. ASSUME NEW c \in Cells
       PROVE  Balance(heap', c) = Balance(heap, c) - One(val[x], c) + One(w, c) + InList(t, c)
    <2>1. InList(t, c) = One(old, c) /\ One(w, c) = One(val[x], c)
        BY <1>7, <1>9, CountList
    <2>2. One(old, c) \in Int /\ One(w, c) \in Int /\ One(z, c) \in Int
        BY DEF One
    <2>3. QED
        BY <1>1, <1>3, <2>1, <2>2
<1>12. QED
    BY <1>3, <1>5, <1>8, <1>9, <1>10, <1>11, VarStep

\* unset()
LEMMA UnsetKeeps ==
    ASSUME ValuesInv, NEW x \in Vars, Unset(x)
    PROVE  ValuesInv' /\ (val[x].t = "arr" => OthersKept(x))
<1>1. /\ Sound /\ UNCHANGED history /\ val \in [Vars -> Zvals] /\ WellFormed(heap) /\ heap \in HeapType
      /\ Deref(val[x]).t = "arr" /\ \A c \in Cells : Balance(heap, c) \in Int
    BY Settled DEF Unset, Exists
<1>2. PICK z \in Zvals : z = Undef
    BY Plain
<1>3. /\ \A h : PointsIn(h, z) /\ AddRef(h, z) = h
      /\ z.t # "ref" /\ \A c \in Cells : One(z, c) = 0
    BY <1>2, Plain DEF AddRef, Counted
<1>4. CASE val[x].t = "ref"
    <2>1. PICK a \in Cells : a = Deref(val[x]).p /\ heap[a].kind = "arr"
        BY <1>1, DerefIs DEF PointsIn, Counted
    <2>2. PICK old \in Zvals : old = heap[a].item
        BY <1>1 DEF HeapType, CellType
    <2>3. heap' = WithItem(heap, a, z) /\ trash' = <<old>> /\ val' = val
        BY <1>2, <1>4, <2>1, <2>2 DEF Unset, WithItem
    <2>4. Carries(heap, heap) /\ \A c \in Cells : Balance(heap, c) = Balance(heap, c) + One(z, c)
        BY <1>1, <1>3 DEF Carries
    <2>5. ValuesInv'
        BY <1>1, <1>3, <2>1, <2>2, <2>3, <2>4, InsideKeeps
    <2>6. QED
        BY <1>4, <2>5
<1>5. CASE val[x].t # "ref"
    <2>1. PICK d \in Fresh : LET s == Separated(x, d) IN
             /\ val' = [val EXCEPT ![x].p = s.array]
             /\ trash' = <<s.heap[s.array].item>>
             /\ heap' = [s.heap EXCEPT ![s.array].item = Undef]
        BY <1>5 DEF Unset
    <2>2. PICK s : s = Separated(x, d)
        OBVIOUS
    <2>3. val[x].t = "arr" /\ val[x] \in Zvals
        BY <1>1, <1>5 DEF Deref
    <2>4. [val[x] EXCEPT !.p = s.array] = Zval("arr", s.array)
        BY <2>3 DEF Zval, Zvals
    <2>5. Becomes(x, Zval("arr", s.array)) /\ trash' = <<s.heap[s.array].item>>
        BY <1>1, <2>1, <2>2, <2>4 DEF Becomes
    <2>6. heap' = AddRef(WithItem(s.heap, s.array, z), z)
        BY <1>2, <1>3, <2>1, <2>2 DEF WithItem
    <2>7. QED
        BY <1>1, <1>3, <2>2, <2>5, <2>6, PutKeeps
<1>6. QED
    BY <1>4, <1>5

\* A variable's own reference is a live cell that holds what it is dereferenced to.
LEMMA RefIs ==
    ASSUME ValuesInv, NEW x \in Vars, val[x].t = "ref"
    PROVE  /\ val[x].p \in Cells /\ heap[val[x].p].kind = "ref"
           /\ heap[val[x].p].item = Deref(val[x])
BY DerefIs DEF PointsIn, Counted, Deref

\* operator=(const Value &), when what is overwritten is released
LEMMA OverwriteKeeps ==
    ASSUME ValuesInv, Sound, NEW x \in Vars, NEW to \in Zvals, to = Deref(val[x]),
           NEW from \in Zvals, PointsIn(heap, from), from.t # "ref",
           Store(AddRef(heap, from), x, from), trash' = <<to>>, UNCHANGED history
    PROVE  ValuesInv'
<1>1. /\ WellFormed(heap) /\ val \in [Vars -> Zvals] /\ PointsIn(heap, to)
      /\ lost \in Seq(Zvals)
      /\ \A u \in Vars : PointsIn(heap, val[u])
      /\ \A i \in DOMAIN lost : PointsIn(heap, lost[i])
    BY Settled, DerefIs
<1>2. PICK g : g = AddRef(heap, from)
    OBVIOUS
<1>3. /\ WellFormed(g) /\ Carries(heap, g) /\ SameItems(heap, g)
      /\ \A c \in Cells : Balance(heap, c) \in Int /\ Balance(g, c) = Balance(heap, c) + One(from, c)
    BY <1>1, <1>2, AddRefIs
<1>4. PointsIn(g, from)
    BY <1>3 DEF Carries
<1>5. CASE val[x].t = "ref"
    <2>1. PICK a \in Cells : a = val[x].p /\ heap[a].kind = "ref" /\ heap[a].item = to
        BY <1>5, RefIs
    <2>2. g[a].kind = "ref" /\ g[a].item = to
        BY <1>3, <2>1 DEF SameItems
    <2>3. val' = val /\ heap' = WithItem(g, a, from)
        BY <1>2, <1>5, <2>1 DEF Store, WithItem
    <2>4. QED
        BY <1>3, <1>4, <2>2, <2>3, InsideKeeps
<1>6. CASE val[x].t # "ref"
    <2>1. Becomes(x, from) /\ heap' = g /\ to = val[x]
        BY <1>2, <1>6 DEF Store, Becomes, Deref
    <2>2. <<to>> \in Seq(Zvals)
        OBVIOUS
    <2>3. PICK t \in Seq(Zvals) : t = <<to>>
        BY <2>2
    <2>4. PointsIn(g, to)
        BY <1>1, <1>3 DEF Carries
    <2>5. trash' = t /\ Len(t) <= 1 /\ \A i \in DOMAIN t : PointsIn(heap', t[i])
        BY <2>1, <2>3, <2>4
    <2>6. /\ \A u \in Vars : PointsIn(heap', val[u])
          /\ \A i \in DOMAIN lost : PointsIn(heap', lost[i])
        BY <1>1, <1>3, <2>1 DEF Carries
    <2>7. ASSUME NEW c \in Cells
          PROVE  Balance(heap', c) = Balance(heap, c) - One(val[x], c) + One(from, c) + InList(t, c)
        <3>1. InList(t, c) = One(val[x], c)
            BY <2>1, <2>3, CountList
        <3>2. One(val[x], c) \in Int /\ One(from, c) \in Int
            BY DEF One
        <3>3. QED
            BY <1>3, <2>1, <3>1, <3>2
    <2>8. QED
        BY <1>3, <1>4, <2>1, <2>5, <2>6, <2>7, VarStep
<1>7. QED
    BY <1>5, <1>6

\* operator=(const Value &), when a shared array is duplicated and the duplicate lost
LEMMA LoseKeeps ==
    ASSUME ValuesInv, Sound, NEW x \in Vars, NEW to \in Zvals, to = Deref(val[x]), to.t = "arr",
           NEW from \in Zvals, PointsIn(heap, from), from.t # "ref",
           NEW d \in Fresh, Store(AddRef(Dup(DelRef(heap, to), d, to), from), x, from),
           Lose(Zval("arr", d)), UNCHANGED <<trash, broken>>
    PROVE  ValuesInv'
<1>1. /\ WellFormed(heap) /\ val \in [Vars -> Zvals] /\ PointsIn(heap, to)
      /\ lost \in Seq(Zvals) /\ trash = <<>> /\ broken = FALSE
      /\ \A u \in Vars : PointsIn(heap, val[u])
      /\ \A i \in DOMAIN lost : PointsIn(heap, lost[i])
      /\ \A c \in Cells : /\ InVars(val, c) \in Nat /\ InList(lost, c) \in Nat
                          /\ Balance(heap, c) = InVars(val, c) + InList(lost, c)
    BY Settled, DerefIs
<1>2. d \in Cells /\ heap[d].kind = "free"
    BY DEF Fresh
<1>3. PICK g : g = DelRef(heap, to)
    OBVIOUS
<1>4. PICK h : h = Dup(g, d, to)
    OBVIOUS
<1>5. PICK m : m = AddRef(h, from)
    OBVIOUS
<1>6. /\ WellFormed(g) /\ Carries(heap, g) /\ SameItems(heap, g)
      /\ \A c \in Cells : Balance(heap, c) \in Int /\ Balance(g, c) = Balance(heap, c) - One(to, c)
    <2>1. Counted(to)
        BY DEF Counted
    <2>2. QED
        BY <1>1, <1>3, <2>1, DelRefIs
<1>7. PointsIn(g, to) /\ g[d].kind = "free"
    BY <1>1, <1>2, <1>6 DEF Carries, SameItems
<1>8. /\ WellFormed(h) /\ Carries(g, h) /\ h[d].kind = "arr"
      /\ \A e \in Cells : e # d => h[e].kind = g[e].kind /\ h[e].item = g[e].item
      /\ \A c \in Cells : Balance(g, c) \in Int /\ Balance(h, c) = Balance(g, c) + (IF c = d THEN 1 ELSE 0)
    BY <1>2, <1>4, <1>6, <1>7, DupIs
<1>9. PointsIn(h, from)
    BY <1>6, <1>8 DEF Carries
<1>10. /\ WellFormed(m) /\ Carries(h, m) /\ SameItems(h, m)
       /\ \A c \in Cells : Balance(h, c) \in Int /\ Balance(m, c) = Balance(h, c) + One(from, c)
    BY <1>5, <1>8, <1>9, AddRefIs
<1>11. Carries(heap, m) /\ PointsIn(m, from) /\ m[d].kind = "arr"
    BY <1>2, <1>6, <1>8, <1>9, <1>10 DEF Carries, SameItems
<1>12. PICK n \in Zvals : n = Zval("arr", d) /\ n.t = "arr" /\ n.p = d
    <2>1. Zval("arr", d) \in Zvals /\ Zval("arr", d).t = "arr" /\ Zval("arr", d).p = d
        BY <1>2 DEF Zval, Zvals
    <2>2. QED
        BY <2>1
<1>13. lost' = Append(lost, n) /\ Len(lost) < MaxLost
    BY <1>12 DEF Lose, Counted
<1>14. /\ lost' \in Seq(Zvals) /\ Len(lost') <= MaxLost
       /\ trash' = <<>> /\ trash' \in Seq(Zvals) /\ Len(trash') <= 1 /\ broken' = FALSE
    <2>1. Len(lost') = Len(lost) + 1 /\ Len(lost) \in Nat /\ lost' \in Seq(Zvals)
        BY <1>1, <1>13
    <2>2. Len(lost') <= MaxLost
        BY <1>13, <2>1, ValuesAssumption
    <2>3. QED
        BY <1>1, <2>1, <2>2 DEF ValuesInv
<1>15. ASSUME NEW c \in Cells
       PROVE  /\ Balance(m, c) = Balance(heap, c) - One(to, c) + One(n, c) + One(from, c)
              /\ InList(lost', c) = InList(lost, c) + One(n, c)
              /\ InList(trash', c) = 0
              /\ One(to, c) \in Int /\ One(n, c) \in Int /\ One(from, c) \in Int
    <2>1. One(n, c) = (IF c = d THEN 1 ELSE 0) /\ One(to, c) \in Int /\ One(n, c) \in Int /\ One(from, c) \in Int
        BY <1>12 DEF One
    <2>2. InList(lost', c) = InList(lost, c) + One(n, c) /\ InList(trash', c) = 0
        BY <1>1, <1>13, <1>14, CountList
    <2>3. /\ Balance(heap, c) \in Int /\ Balance(g, c) = Balance(heap, c) - One(to, c)
          /\ Balance(h, c) = Balance(g, c) + One(n, c) /\ Balance(m, c) = Balance(h, c) + One(from, c)
        BY <1>6, <1>8, <1>10, <2>1
    <2>4. QED
        BY <2>1, <2>2, <2>3
<1>16. CASE val[x].t = "ref"
    <2>1. PICK a \in Cells : a = val[x].p /\ heap[a].kind = "ref" /\ heap[a].item = to
        BY <1>16, RefIs
    <2>2. m[a].kind = "ref" /\ m[a].item = to /\ a # d
        BY <1>2, <1>6, <1>8, <1>10, <2>1 DEF SameItems
    <2>3. val' = val /\ heap' = WithItem(m, a, from)
        BY <1>3, <1>4, <1>5, <1>16, <2>1 DEF Store, WithItem
    <2>4. /\ WellFormed(heap') /\ Carries(m, heap')
          /\ \A e \in Cells : heap'[e].kind = m[e].kind
          /\ \A c \in Cells : /\ Balance(m, c) \in Int
                              /\ Balance(heap', c) = Balance(m, c) + One(m[a].item, c) - One(from, c)
        BY <1>10, <1>11, <2>2, <2>3, SetItemIs
    <2>5. Carries(heap, heap')
        BY <1>11, <2>4 DEF Carries
    <2>6. PointsIn(heap', n)
        BY <1>2, <1>11, <1>12, <2>4 DEF PointsIn, Counted
    <2>7. \A i \in DOMAIN lost : PointsIn(heap', lost[i])
        BY <1>1, <2>5 DEF Carries
    <2>8. \A i \in DOMAIN lost' : PointsIn(heap', lost'[i])
        BY <1>1, <1>13, <2>6, <2>7
    <2>9. \A u \in Vars : PointsIn(heap', val'[u])
        BY <1>1, <2>3, <2>5 DEF Carries
    <2>10. ASSUME NEW c \in Cells
           PROVE  Balance(heap', c) = InVars(val', c) + InList(trash', c) + InList(lost', c)
        <3>1. Balance(heap', c) = Balance(m, c) + One(to, c) - One(from, c)
            BY <2>2, <2>4
        <3>2. /\ InVars(val, c) \in Nat /\ InList(lost, c) \in Nat
              /\ Balance(heap, c) = InVars(val, c) + InList(lost, c)
            BY <1>1
        <3>3. QED
            BY <1>15, <2>3, <3>1, <3>2
    <2>11. \A i \in DOMAIN trash' : PointsIn(heap', trash'[i])
        BY <1>14
    <2>12. QED
        BY <1>1, <1>14, <2>3, <2>4, <2>8, <2>9, <2>10, <2>11, Keeps
<1>17. CASE val[x].t # "ref"
    <2>1. Becomes(x, from) /\ heap' = m /\ to = val[x]
        BY <1>3, <1>4, <1>5, <1>17 DEF Store, Becomes, Deref
    <2>2. /\ val' \in [Vars -> Zvals] /\ val'[x] = from /\ \A u \in Vars : u # x => val'[u] = val[u]
        BY <1>1, <2>1 DEF Becomes
    <2>3. PointsIn(heap', n)
        BY <1>2, <1>11, <1>12, <2>1 DEF PointsIn, Counted
    <2>4. \A i \in DOMAIN lost : PointsIn(heap', lost[i])
        BY <1>1, <1>11, <2>1 DEF Carries
    <2>5. \A i \in DOMAIN lost' : PointsIn(heap', lost'[i])
        BY <1>1, <1>13, <2>3, <2>4
    <2>6. \A u \in Vars : PointsIn(heap', val'[u])
        BY <1>1, <1>11, <2>1, <2>2 DEF Carries
    <2>7. ASSUME NEW c \in Cells
          PROVE  Balance(heap', c) = InVars(val', c) + InList(trash', c) + InList(lost', c)
        <3>1. InVars(val', c) = InVars(val, c) - One(val[x], c) + One(val'[x], c)
            BY <1>1, <2>2, CountVars
        <3>2. InVars(val', c) = InVars(val, c) - One(to, c) + One(from, c)
            BY <2>1, <2>2, <3>1
        <3>3. /\ InVars(val, c) \in Nat /\ InList(lost, c) \in Nat
              /\ Balance(heap, c) = InVars(val, c) + InList(lost, c)
            BY <1>1
        <3>4. QED
            BY <1>15, <2>1, <3>2, <3>3
    <2>8. \A i \in DOMAIN trash' : PointsIn(heap', trash'[i])
        BY <1>14
    <2>9. WellFormed(heap')
        BY <1>10, <2>1
    <2>10. QED
        BY <1>14, <2>2, <2>5, <2>6, <2>7, <2>8, <2>9, Keeps
<1>18. QED
    BY <1>16, <1>17

\* operator=(const Value &)
LEMMA AssignKeeps ==
    ASSUME ValuesInv, NEW x \in Vars, NEW y \in Vars, Assign(x, y)
    PROVE  ValuesInv'
<1>1. Sound
    BY DEF Assign, Exists
<1>2. PICK to \in Zvals : to = Deref(val[x])
    BY DerefIs
<1>3. PICK from \in Zvals : from = Deref(val[y]) /\ PointsIn(heap, from) /\ from.t # "ref"
    BY DerefIs
<1>4. CASE UNCHANGED vars
    BY <1>4 DEF vars, ValuesInv, Balanced
<1>5. CASE /\ to.t = "arr"
           /\ \E d \in Fresh : /\ Store(AddRef(Dup(DelRef(heap, to), d, to), from), x, from)
                               /\ Lose(Zval("arr", d))
                               /\ UNCHANGED <<trash, broken>>
    BY <1>1, <1>2, <1>3, <1>5, LoseKeeps
<1>6. CASE Store(AddRef(heap, from), x, from) /\ trash' = <<to>> /\ UNCHANGED history
    BY <1>1, <1>2, <1>3, <1>6, OverwriteKeeps
<1>7. QED
    BY <1>2, <1>3, <1>4, <1>5, <1>6 DEF Assign

\* operator=(Value &&)
LEMMA MoveAssignKeeps ==
    ASSUME ValuesInv, NEW x \in Vars, NEW y \in Vars, MoveAssign(x, y)
    PROVE  ValuesInv'
<1>1. /\ Sound /\ x # y /\ heap' = heap /\ UNCHANGED trash
      /\ WellFormed(heap) /\ val \in [Vars -> Zvals] /\ lost \in Seq(Zvals) /\ trash = <<>> /\ broken = FALSE
      /\ \A u \in Vars : PointsIn(heap, val[u])
      /\ \A i \in DOMAIN lost : PointsIn(heap, lost[i])
      /\ \A c \in Cells : /\ InVars(val, c) \in Nat /\ InList(lost, c) \in Nat
                          /\ Balance(heap, c) = InVars(val, c) + InList(lost, c)
    BY Settled DEF MoveAssign, Exists
<1>2. PICK a \in Zvals : a = val[x] /\ PointsIn(heap, a)
    BY <1>1
<1>3. PICK b \in Zvals : b = val[y] /\ PointsIn(heap, b)
    BY <1>1
<1>4. CASE "ref" \in {val[x].t, val[y].t}
    <2>1. Becomes(x, b) /\ Lose(a) /\ broken' = Counted(b)
        BY <1>2, <1>3, <1>4 DEF MoveAssign, Becomes
    <2>2. /\ val' \in [Vars -> Zvals] /\ val'[x] = b /\ \A u \in Vars : u # x => val'[u] = val[u]
        BY <1>1, <2>1 DEF Becomes
    <2>3. \A u \in Vars : PointsIn(heap, val'[u])
        BY <1>1, <1>3, <2>2
    <2>4. /\ lost' \in Seq(Zvals) /\ Len(lost') <= MaxLost
          /\ \A i \in DOMAIN lost' : PointsIn(heap, lost'[i])
          /\ \A c \in Cells : InList(lost', c) = InList(lost, c) + One(a, c)
        <3>1. CASE Counted(a)
            <4>1. lost' = Append(lost, a) /\ Len(lost) < MaxLost
                BY <2>1, <3>1 DEF Lose
            <4>2. Len(lost') = Len(lost) + 1 /\ Len(lost) \in Nat /\ lost' \in Seq(Zvals)
                BY <1>1, <4>1
            <4>3. Len(lost') <= MaxLost
                BY <4>1, <4>2, ValuesAssumption
            <4>4. \A i \in DOMAIN lost' : PointsIn(heap, lost'[i])
                BY <1>1, <1>2, <4>1
            <4>5. \A c \in Cells : InList(lost', c) = InList(lost, c) + One(a, c)
                BY <1>1, <4>1, CountList
            <4>6. QED
                BY <4>2, <4>3, <4>4, <4>5
        <3>2. CASE ~Counted(a)
            <4>1. lost' = lost /\ \A c \in Cells : One(a, c) = 0
                BY <1>2, <2>1, <3>2, Uncounted DEF Lose
            <4>2. QED
                BY <1>1, <4>1 DEF ValuesInv
        <3>3. QED
            BY <3>1, <3>2
    <2>5. CASE Counted(b)
        <3>1. broken' = TRUE /\ trash' = <<>>
            BY <1>1, <2>1, <2>5
        <3>2. QED
            BY <1>1, <2>2, <2>3, <2>4, <3>1 DEF ValuesInv
    <2>6. CASE ~Counted(b)
        <3>1. broken' = FALSE /\ \A c \in Cells : One(b, c) = 0
            <4>1. broken' = FALSE
                <5>1. broken' \in BOOLEAN
                    BY <2>1 DEF Counted
                <5>2. ~broken'
                    BY <2>1, <2>6
                <5>3. QED
                    BY <5>1, <5>2
            <4>2. \A c \in Cells : One(b, c) = 0
                BY <1>3, <2>6, Uncounted
            <4>3. QED
                BY <4>1, <4>2
        <3>2. /\ trash' = <<>> /\ trash' \in Seq(Zvals) /\ Len(trash') <= 1
              /\ \A i \in DOMAIN trash' : PointsIn(heap', trash'[i])
            BY <1>1 DEF ValuesInv
        <3>3. ASSUME NEW c \in Cells
              PROVE  Balance(heap', c) = InVars(val', c) + InList(trash', c) + InList(lost', c)
            <4>1. InVars(val', c) = InVars(val, c) - One(val[x], c) + One(val'[x], c)
                BY <1>1, <2>2, CountVars
            <4>2. InVars(val', c) = InVars(val, c) - One(a, c) + 0
                BY <1>2, <2>2, <3>1, <4>1
            <4>3. InList(trash', c) = 0 /\ One(a, c) \in Int
                BY <3>2, CountList DEF One
            <4>4. /\ InVars(val, c) \in Nat /\ InList(lost, c) \in Nat
                  /\ Balance(heap, c) = InVars(val, c) + InList(lost, c)
                BY <1>1
            <4>5. QED
                BY <1>1, <2>4, <4>2, <4>3, <4>4
        <3>4. QED
            BY <1>1, <2>2, <2>3, <2>4, <3>1, <3>2, <3>3, Keeps
    <2>7. QED
        BY <2>5, <2>6
<1>5. CASE "ref" \notin {val[x].t, val[y].t}
    <2>1. val' = [val EXCEPT ![x] = b, ![y] = a] /\ UNCHANGED history
        BY <1>2, <1>3, <1>5 DEF MoveAssign
    <2>2. /\ val' \in [Vars -> Zvals] /\ val'[x] = b /\ val'[y] = a
          /\ \A u \in Vars : u # x /\ u # y => val'[u] = val[u]
        BY <1>1, <2>1
    <2>3. Carries(heap, heap') /\ WellFormed(heap') /\ PointsIn(heap', a) /\ PointsIn(heap', b)
        BY <1>1, <1>2, <1>3 DEF Carries
    <2>4. UNCHANGED <<trash, history>>
        BY <1>1, <2>1
    <2>5. ASSUME NEW c \in Cells
          PROVE  Balance(heap', c) = Balance(heap, c) - One(val[x], c) + One(b, c) - One(val[y], c) + One(a, c)
        <3>1. One(a, c) = One(val[x], c) /\ One(b, c) = One(val[y], c) /\ One(a, c) \in Int /\ One(b, c) \in Int
            BY <1>2, <1>3 DEF One
        <3>2. Balance(heap, c) \in Int
            BY <1>1
        <3>3. QED
            BY <1>1, <3>1, <3>2
    <2>6. QED
        BY <1>1, <2>2, <2>3, <2>4, <2>5, TwoVarStep
<1>6. QED
    BY <1>4, <1>5

-----------------------------------------------------------------------------
(***************************************************************************)
(* The theorems.                                                            *)
(***************************************************************************)

\* The invariant holds at first, and every step keeps it.
LEMMA ValuesInduction == Spec => []ValuesInv
<1>1. Init => ValuesInv
    <2>1. SUFFICES ASSUME Init PROVE ValuesInv
        OBVIOUS
    <2>2. /\ val \in [Vars -> Zvals] /\ heap \in HeapType
          /\ \A x \in Vars : val[x] = Gone
          /\ \A c \in Cells : heap[c] = FreeCell
          /\ trash = <<>> /\ lost = <<>> /\ broken = FALSE
        BY <2>1, Plain DEF Init, HeapType
    <2>3. WellFormed(heap) /\ \A c \in Cells : heap[c].rc \in Nat
        BY <2>2, Plain DEF WellFormed
    <2>4. ASSUME NEW c \in Cells
          PROVE  Balance(heap, c) = InVars(val, c) + InList(trash, c) + InList(lost, c)
        <3>1. {x \in Vars : val[x].p = c} = {} /\ {d \in Cells : heap[d].item.p = c} = {}
            BY <2>2, ValuesAssumption DEF Gone, FreeCell, Undef, Zval
        <3>2. InVars(val, c) = 0 /\ InItems(heap, c) = 0
            BY <3>1, FS_EmptySet DEF InVars, InItems
        <3>3. InList(trash, c) = 0 /\ InList(lost, c) = 0 /\ heap[c].rc = 0
            BY <2>2, Plain, CountList
        <3>4. QED
            BY <3>2, <3>3 DEF Balance
    <2>5. \A x \in Vars : PointsIn(heap, val[x])
        BY <2>2, Plain
    <2>6. /\ trash \in Seq(Zvals) /\ Len(trash) <= 1 /\ lost \in Seq(Zvals) /\ Len(lost) <= MaxLost
          /\ DOMAIN trash = {} /\ DOMAIN lost = {}
        BY <2>2, ValuesAssumption
    <2>7. QED
        BY <2>2, <2>3, <2>4, <2>5, <2>6 DEF ValuesInv, Balanced
<1>2. ValuesInv /\ [Next]_vars => ValuesInv'
    <2>1. SUFFICES ASSUME ValuesInv, [Next]_vars PROVE ValuesInv'
        OBVIOUS
    <2>2. ASSUME NEW x \in Vars, Create(x) PROVE ValuesInv'
        BY <2>1, <2>2, CreateKeeps
    <2>3. ASSUME NEW x \in Vars, CreateArray(x) PROVE ValuesInv'
        BY <2>1, <2>3, CreateArrayKeeps
    <2>4. ASSUME NEW x \in Vars, Destroy(x) PROVE ValuesInv'
        <3>1. Exists(x) /\ Becomes(x, Gone) /\ trash' = <<val[x]>> /\ UNCHANGED <<heap, history>>
            BY <2>4 DEF Destroy, Becomes
        <3>2. QED
            BY <2>1, <3>1, DropKeeps
    <2>5. ASSUME NEW x \in Vars, Invalidate(x) PROVE ValuesInv'
        <3>1. Exists(x) /\ Becomes(x, Undef) /\ trash' = <<val[x]>> /\ UNCHANGED <<heap, history>>
            BY <2>5 DEF Invalidate, Becomes
        <3>2. QED
            BY <2>1, <3>1, DropKeeps
    <2>6. ASSUME NEW x \in Vars, Unset(x) PROVE ValuesInv'
        BY <2>1, <2>6, UnsetKeeps
    <2>7. ASSUME NEW x \in Vars, NEW y \in Vars, CopyConstruct(x, y) PROVE ValuesInv'
        BY <2>1, <2>7, CopyConstructKeeps
    <2>8. ASSUME NEW x \in Vars, NEW y \in Vars, Wrap(x, y) PROVE ValuesInv'
        BY <2>1, <2>8, WrapKeeps
    <2>9. ASSUME NEW x \in Vars, NEW y \in Vars, WrapRef(x, y) PROVE ValuesInv'
        BY <2>1, <2>9, WrapRefKeeps
    <2>10. ASSUME NEW x \in Vars, NEW y \in Vars, MoveConstruct(x, y) PROVE ValuesInv'
        BY <2>1, <2>10, MoveConstructKeeps
    <2>11. ASSUME NEW x \in Vars, NEW y \in Vars, Get(x, y) PROVE ValuesInv'
        BY <2>1, <2>11, GetKeeps
    <2>12. ASSUME NEW x \in Vars, NEW y \in Vars, Set(x, y) PROVE ValuesInv'
        BY <2>1, <2>12, SetKeeps
    <2>13. ASSUME NEW x \in Vars, NEW y \in Vars, Assign(x, y) PROVE ValuesInv'
        BY <2>1, <2>13, AssignKeeps
    <2>14. ASSUME NEW x \in Vars, NEW y \in Vars, MoveAssign(x, y) PROVE ValuesInv'
        BY <2>1, <2>14, MoveAssignKeeps
    <2>15. CASE Release
        BY <2>1, <2>15, ReleaseKeeps
    <2>16. CASE UNCHANGED vars
        BY <2>1, <2>16 DEF vars, ValuesInv, Balanced
    <2>17. ASSUME NEW x \in Vars, NEW y \in Vars, DetachForWrite(x, y) PROVE ValuesInv'
        BY <2>1, <2>17, DetachForWriteKeeps
    <2>18. QED
        BY <2>1, <2>2, <2>3, <2>4, <2>5, <2>6, <2>7, <2>8, <2>9, <2>10, <2>11, <2>12, <2>13, <2>14,
           <2>15, <2>16, <2>17 DEF Next
<1>3. QED
    BY <1>1, <1>2, PTL DEF Spec

\* In whatever order the operations of Value are called, every variable, element
\* and zval in release that says it is an array or a reference points to a live
\* one: nothing is freed while something still points to it.
THEOREM ValuesTypes == Spec => []TypeOK
<1>1. ValuesInv => TypeOK
    <2>1. SUFFICES ASSUME ValuesInv PROVE TypeOK
        OBVIOUS
    <2>2. heap \in HeapType /\ \A c \in Cells : heap[c].rc \in Nat /\ PointsIn(heap, heap[c].item)
        BY <2>1 DEF ValuesInv, WellFormed
    <2>3. heap \in [Cells -> [kind : {"free", "arr", "ref"}, rc : Nat, item : Zvals]]
        BY <2>2 DEF HeapType, CellType
    <2>4. \A z : Points(z) <=> PointsIn(heap, z)
        BY DEF Points, PointsIn
    <2>5. QED
        BY <2>1, <2>2, <2>3, <2>4 DEF TypeOK, ValuesInv
<1>2. QED
    BY <1>1, ValuesInduction, PTL

\* The count of every cell is the number of its holders, for any number of values
\* and cells: what constructors, destructors, element access and assignments add
\* and take away cancels out, and what operator=(const Value &) leaves behind is
\* accounted for, until a reference is assigned from a temporary or toZval() makes
\* a shared array a reference after detach(false).
THEOREM CountsAlwaysAddUp == Spec => []CountsAddUp
<1>1. ValuesInv => CountsAddUp
    <2>1. SUFFICES ASSUME ValuesInv, ~broken, NEW c \in Cells PROVE heap[c].rc = Holders(c)
        BY DEF CountsAddUp
    <2>2. Balance(heap, c) = InVars(val, c) + InList(trash, c) + InList(lost, c)
        BY <2>1 DEF ValuesInv, Balanced
    <2>3. /\ val \in [Vars -> Zvals] /\ heap \in HeapType /\ trash \in Seq(Zvals) /\ lost \in Seq(Zvals)
        BY <2>1 DEF ValuesInv, WellFormed
    <2>4. heap[c].rc \in Int
        BY <2>3 DEF HeapType, CellType
    <2>5. InVars(val, c) \in Nat /\ InItems(heap, c) \in Nat /\ InList(trash, c) \in Nat
        BY <2>3, Nobody
    <2>6. InList(lost, c) \in Nat
        BY <2>3, Nobody
    <2>7. Holders(c) = InVars(val, c) + InItems(heap, c) + InList(trash, c) + InList(lost, c)
        BY DEF Holders, InVars, InItems, InList
    <2>8. heap[c].rc - InItems(heap, c) = InVars(val, c) + InList(trash, c) + InList(lost, c)
        BY <2>2 DEF Balance
    <2>9. QED
        BY <2>4, <2>5, <2>6, <2>7, <2>8
<1>2. QED
    BY <1>1, ValuesInduction, PTL

\* Copy on write, for any number of values and cells: set() and unset() through a
\* variable that is not a reference change no array that another variable or
\* another array holds.
THEOREM WritesStayPrivate == Spec => OthersKeepTheirArrays
<1> DEFINE Kept == \A x \in Vars :
                     val[x].t # "ref" /\ ((\E y \in Vars : Set(x, y)) \/ Unset(x)) => OthersKept(x)
<1>1. ValuesInv => Kept
    <2>1. ASSUME NEW x \in Vars, Unset(x), val[x].t # "ref" PROVE val[x].t = "arr"
        BY <2>1 DEF Unset, Deref
    <2>2. QED
        BY <2>1, SetKeeps, UnsetKeeps
<1>2. ValuesInv /\ [Next]_vars => [Kept]_vars
    BY <1>1
<1>3. QED
    BY <1>2, ValuesInduction, PTL DEF Spec, OthersKeepTheirArrays
=============================================================================
